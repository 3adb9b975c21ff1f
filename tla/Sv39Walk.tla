------------------------------ MODULE Sv39Walk ------------------------------
(***************************************************************************)
(* What a translation should be: the page-table walk of the reference      *)
(* model the simulator compares the core with, mmu_t::walk of              *)
(* simulator/reference/riscv-isa-sim/riscv/mmu.cc, for Sv39 without        *)
(* Svnapot, Svpbmt, the hypervisor and hardware updating of A and D.       *)
(***************************************************************************)
EXTENDS MmuPkg

Access == {"FETCH", "LOAD", "STORE"}

PTE_TABLE(pte) == pte.v /\ ~pte.r /\ ~pte.w /\ ~pte.x

\* The walk goes on below this PTE.
Descends(pte) == PTE_TABLE(pte) /\ ~pte.rsv /\ ~pte.d /\ ~pte.a /\ ~pte.u

\* The PTE of every level on the way to vpn, were the walk never to stop.
WalkPtes(m, root, vpn) ==
  LET ptes[l \in Level] ==
        Word(m, <<IF l = 0 THEN root ELSE ptes[l-1].ppn, vpn[l+1]>>)
  IN  ptes

\* The level at which the walk stops.
WalkLevel(ptes) == First({l \in Level : ~Descends(ptes[l]) \/ l = LEVELS-1})

Permits(pte, level, type, priv, st) ==
  /\ ~pte.rsv
  /\ ~PTE_TABLE(pte)
  /\ IF pte.u THEN priv => type # "FETCH" /\ st.sum ELSE priv
  /\ pte.v /\ (pte.w => pte.r)
  /\ CASE type = "FETCH" -> pte.x
       [] type = "LOAD"  -> pte.r \/ (st.mxr /\ pte.x)
       [] type = "STORE" -> pte.r /\ pte.w
  /\ \A k \in level+2 .. LEVELS : pte.ppn[k] = 0
  /\ pte.a /\ (type = "STORE" => pte.d)

\* The access is allowed, and the physical page it goes to.
WalkGrants(m, root, vpn, type, priv, st) ==
  LET ptes == WalkPtes(m, root, vpn)
      l    == WalkLevel(ptes)
  IN  Permits(ptes[l], l, type, priv, st)

WalkPpn(m, root, vpn) ==
  LET ptes == WalkPtes(m, root, vpn)
      l    == WalkLevel(ptes)
  IN  [k \in Field |-> IF k <= l+1 THEN ptes[l].ppn[k] ELSE vpn[k]]
-----------------------------------------------------------------------------
(* The function of WalkPtes exists: it is defined level by level, each     *)
(* from the one above.                                                     *)
LEMMA WalkPtesDef ==
  ASSUME NEW m, NEW root, NEW vpn
  PROVE  WalkPtes(m, root, vpn) =
           [l \in Level |-> Word(m, <<IF l = 0 THEN root ELSE WalkPtes(m, root, vpn)[l-1].ppn, vpn[l+1]>>)]
<1> DEFINE W(a, k) == Word(m, <<a, vpn[k]>>)
           Pre(n, f) == \A l \in 0 .. n : f[l] = W(IF l = 0 THEN root ELSE f[l-1].ppn, l+1)
           Bad == {n \in Level : ~ \E f : Pre(n, f)}
<1> HIDE DEF W
<1>1. Bad = {}
  <2> SUFFICES ASSUME Bad # {} PROVE FALSE
    OBVIOUS
  <2>1. PICK n \in Level : (~ \E f : Pre(n, f)) /\ \A j \in Level : (\E f : Pre(j, f)) \/ n <= j
    <3>1. Bad \subseteq Nat
      BY LevelsAssumption DEF Level
    <3>2. PICK b \in Bad : \A j \in Bad : b <= j
      <4> HIDE DEF Bad
      <4> QED BY <3>1, FirstLeast
    <3>3. QED
      BY <3>2
  <2> HIDE DEF Pre, Bad
  <2>2. n \in Nat /\ n < LEVELS
    BY LevelsAssumption DEF Level
  <2>3. CASE n = 0
    <3>1. Pre(n, [l \in 0 .. 0 |-> W(root, 1)])
      BY <2>3 DEF Pre
    <3>2. QED
      BY <2>1, <3>1
  <2>4. CASE n # 0
    <3>1. n-1 \in Level /\ ~(n <= n-1)
      BY <2>2, <2>4, LevelsAssumption DEF Level
    <3>2. PICK f : Pre(n-1, f)
      BY <2>1, <3>1
    <3> DEFINE g == [l \in 0 .. n |-> IF l < n THEN f[l] ELSE W(f[n-1].ppn, n+1)]
    <3>3. ASSUME NEW l \in 0 .. n
          PROVE  g[l] = W(IF l = 0 THEN root ELSE g[l-1].ppn, l+1)
      <4>1. CASE l = n
        <5>1. g[l] = W(f[n-1].ppn, n+1) /\ g[l-1] = f[n-1]
          BY <2>2, <2>4, <4>1
        <5>2. QED
          BY <2>4, <4>1, <5>1
      <4>2. CASE l # n
        <5>1. l \in 0 .. n-1 /\ g[l] = f[l] /\ (l # 0 => g[l-1] = f[l-1])
          BY <2>2, <4>2
        <5>2. QED
          BY <3>2, <5>1 DEF Pre
      <4>3. QED
        BY <4>1, <4>2
    <3>4. Pre(n, g)
      BY <3>3 DEF Pre
    <3>5. QED
      BY <2>1, <3>4
  <2>5. QED
    BY <2>3, <2>4
<1>2. \E p : p = [l \in Level |-> W(IF l = 0 THEN root ELSE p[l-1].ppn, l+1)]
  <2>1. LEVELS-1 \in Level
    BY LevelsAssumption DEF Level
  <2>2. PICK f : Pre(LEVELS-1, f)
    BY <1>1, <2>1, Zenon
  <2> DEFINE p == [l \in Level |-> f[l]]
  <2>3. ASSUME NEW l \in Level
        PROVE  p[l] = W(IF l = 0 THEN root ELSE p[l-1].ppn, l+1)
    <3>1. l \in 0 .. LEVELS-1 /\ p[l] = f[l] /\ (l # 0 => p[l-1] = f[l-1])
      BY LevelsAssumption DEF Level
    <3>2. QED
      BY <2>2, <3>1
  <2>4. p = [l \in Level |-> W(IF l = 0 THEN root ELSE p[l-1].ppn, l+1)]
    BY <2>3
  <2>5. QED
    BY <2>4
<1>3. QED
  BY <1>2 DEF WalkPtes, W

(* The PTE of a level is read from the table the level above points to.    *)
LEMMA WalkPteAt ==
  ASSUME NEW m, NEW root, NEW vpn, NEW l \in Level
  PROVE  WalkPtes(m, root, vpn)[l] =
           Word(m, <<IF l = 0 THEN root ELSE WalkPtes(m, root, vpn)[l-1].ppn, vpn[l+1]>>)
<1> DEFINE P == WalkPtes(m, root, vpn)
           W(k) == Word(m, <<IF k = 0 THEN root ELSE P[k-1].ppn, vpn[k+1]>>)
<1>1. P = [k \in Level |-> W(k)]
  BY WalkPtesDef
<1>2. QED
  <2> HIDE DEF P, W
  <2>1. P[l] = W(l)
    BY <1>1
  <2>2. QED
    BY <2>1 DEF P, W

(* What a walk finds at a level is a PTE.                                  *)
LEMMA WalkPtesType ==
  ASSUME NEW m, \A a \in DOMAIN m : m[a] \in Pte, NEW root, NEW vpn, NEW l \in Level
  PROVE  WalkPtes(m, root, vpn)[l] \in Pte
<1>1. \A a : Word(m, a) \in Pte
  BY ZeroTypes DEF Word
<1> DEFINE addr == <<IF l = 0 THEN root ELSE WalkPtes(m, root, vpn)[l-1].ppn, vpn[l+1]>>
<1>2. WalkPtes(m, root, vpn)[l] = Word(m, addr)
  BY WalkPteAt
<1>3. QED
  <2> HIDE DEF addr
  <2> QED BY <1>1, <1>2

(* A walk stops at a level, and goes on at the levels above it.            *)
LEMMA WalkLevelType ==
  ASSUME NEW ptes
  PROVE  /\ WalkLevel(ptes) \in Level
         /\ ~Descends(ptes[WalkLevel(ptes)]) \/ WalkLevel(ptes) = LEVELS-1
         /\ \A l \in Level : ~Descends(ptes[l]) \/ l = LEVELS-1 => WalkLevel(ptes) <= l
<1> DEFINE Stops == {l \in Level : ~Descends(ptes[l]) \/ l = LEVELS-1}
<1>1. Stops \subseteq Nat /\ LEVELS-1 \in Stops
  BY LevelsAssumption DEF Level
<1>2. First(Stops) \in Stops /\ \A j \in Stops : First(Stops) <= j
  BY <1>1, FirstLeast
<1>3. QED
  BY <1>2 DEF WalkLevel

(* Pages that share the fields down to the level where the walk of one     *)
(* stops share the walk: one entry of a TLB serves them all.               *)
LEMMA SharedWalk ==
  ASSUME NEW m, NEW root, NEW vpn, NEW other,
         \A k \in 1 .. WalkLevel(WalkPtes(m, root, vpn))+1 : vpn[k] = other[k]
  PROVE  /\ WalkLevel(WalkPtes(m, root, other)) = WalkLevel(WalkPtes(m, root, vpn))
         /\ \A l \in 0 .. WalkLevel(WalkPtes(m, root, vpn)) :
              WalkPtes(m, root, other)[l] = WalkPtes(m, root, vpn)[l]
<1> DEFINE P == WalkPtes(m, root, vpn)
           Q == WalkPtes(m, root, other)
           L == WalkLevel(P)
           Bad == {l \in 0 .. L : Q[l] # P[l]}
<1>1. /\ \A l \in Level : P[l] = Word(m, <<IF l = 0 THEN root ELSE P[l-1].ppn, vpn[l+1]>>)
      /\ \A l \in Level : Q[l] = Word(m, <<IF l = 0 THEN root ELSE Q[l-1].ppn, other[l+1]>>)
  BY WalkPteAt
<1>2. L \in Level /\ (~Descends(P[L]) \/ L = LEVELS-1)
      /\ \A l \in Level : ~Descends(P[l]) \/ l = LEVELS-1 => L <= l
  BY WalkLevelType
<1>3. WalkLevel(Q) \in Level /\ (~Descends(Q[WalkLevel(Q)]) \/ WalkLevel(Q) = LEVELS-1)
      /\ \A l \in Level : ~Descends(Q[l]) \/ l = LEVELS-1 => WalkLevel(Q) <= l
  BY WalkLevelType
<1>4. \A k \in 1 .. L+1 : vpn[k] = other[k]
  OBVIOUS
<1> HIDE DEF P, Q, L
<1>5. L \in Nat /\ Level \subseteq Nat /\ \A l \in 0 .. L : l \in Level
  BY <1>2, LevelsAssumption DEF Level
<1>6. Bad = {}
  <2> SUFFICES ASSUME Bad # {} PROVE FALSE
    OBVIOUS
  <2>1. PICK l \in Bad : \A j \in Bad : l <= j
    <3>1. Bad \subseteq Nat
      BY <1>5
    <3>2. QED
      BY <3>1, FirstLeast
  <2>2. l \in 0 .. L /\ l \in Level /\ vpn[l+1] = other[l+1]
    BY <1>4, <1>5
  <2>3. l # 0 => Q[l-1] = P[l-1]
    <3> SUFFICES ASSUME l # 0 PROVE Q[l-1] = P[l-1]
      OBVIOUS
    <3>1. l-1 \in 0 .. L /\ ~(l <= l-1)
      BY <1>5, <2>2
    <3>2. QED
      BY <2>1, <3>1
  <2>4. Q[l] = P[l]
    BY <1>1, <2>2, <2>3
  <2>5. QED
    BY <2>4
<1>7. \A l \in 0 .. L : Q[l] = P[l]
  BY <1>6
<1>8. WalkLevel(Q) = L
  <2> DEFINE K == WalkLevel(Q)
  <2>1. Q[L] = P[L]
    BY <1>5, <1>7
  <2>2. K \in Nat /\ K <= L
    BY <1>2, <1>3, <1>5, <2>1
  <2>3. Q[K] = P[K]
    <3> HIDE DEF K
    <3> QED BY <1>5, <1>7, <2>2
  <2>4. L <= K
    BY <1>2, <1>3, <2>3
  <2>5. QED
    <3> HIDE DEF K
    <3>1. K = L
      BY <1>5, <2>2, <2>4
    <3>2. QED
      BY <3>1 DEF K
<1>9. QED
  BY <1>7, <1>8 DEF P, Q, L
=============================================================================
