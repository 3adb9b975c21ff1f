---------------------------- MODULE FetchProofs -----------------------------
(***************************************************************************)
(* Proofs about instruction fetch, for any addresses, jumps, faulting and  *)
(* non-cacheable pages, and any number of ways.                            *)
(***************************************************************************)
EXTENDS Fetch, NaturalsInduction, WellFoundedInduction, TLAPS

\* The cache, or the buffer, has a request it has not answered or answers now.
CacheBusy  == valid_ireq_q \/ state_q \notin {"NO_REQ", "READ"}
BufferBusy == req_nc_valid_q \/ nc_rsp_valid_q \/ state_nc # "idle"

\* A walk is for a page.
WalkInv == walk # NoWalk => walk.page \in Pages

\* Only one of them has, and the buffer only one at a time.
Exclusive ==
  /\ BufferBusy => state_q = "READ" /\ ~valid_ireq_q
  /\ state_q = "NO_REQ" => ~valid_ireq_q
  /\ nc_rsp_valid_q => ~req_nc_valid_q /\ state_nc = "idle"
  /\ req_nc_valid_q => state_nc = "idle" /\ ~nc_kill_q

\* It is that of the instruction in IF2, if there is one: kills empty IF2.
Own ==
  if2.v =>
    /\ ~retry_fetch /\ ~ireq_kill_q /\ ~is_flush_q /\ ~nc_kill_q
    /\ CacheBusy => addr_q = if2.pc
    /\ BufferBusy => paddr_infly_q = if2.pc /\ ~en_translation
    /\ if2.ex <=> is_bad(if2.pc)
    /\ if2.ex => ~CacheBusy /\ ~BufferBusy

\* What the TLB says of the address of the cache's request; on a miss it gives no page,
\* and an exception only if there are pages with A = 0.
Translated ==
  /\ miss => mmu_tresp_q.ppn = 0 /\ (xcpt => UNACCESSED # {})
  /\ miss /\ ~retry_fetch => en_translation
  /\ state_q # "NO_REQ" =>
       /\ ~miss => mmu_tresp_q.ppn = Page(addr_q)
       /\ ~retry_fetch /\ ~miss => (xcpt <=> en_translation /\ Page(addr_q) \in FAULTY)

\* The level-2 cache has at most one request, that of the cache or that of the buffer,
\* and what it will answer is old only if who asked ignores it.
L2Inv ==
  /\ \A r, s \in l2 : r = s
  /\ \A r \in l2 : r.nc =>
       state_nc # "idle" /\ r.page = Page(paddr_infly_q) /\ (r.old /\ state_nc = "wait" => nc_kill_q)
  /\ \A r \in l2 : ~r.nc =>
       /\ state_q \in {"MISS", "KILL"} /\ ifill_req_was_sent_q
       /\ state_q = "MISS" => r.page = Page(addr_q) /\ cline_tag_q \in {r.page, 0} /\ (r.old => is_flush_q)

\* Valid lines are those of their tags, page 0 excepted, and are not old.
Lines(f) == \A w \in Way : f[w].v => f[w].tag \in {f[w].line.page, 0} /\ ~f[w].line.old
CacheInv == Lines(ways) /\ Lines(rd)

\* So is the line of the buffer, until a kill has emptied it.
BufferInv ==
  /\ buffer_paddr_q # 0 => icache_ncline_q.page = buffer_paddr_q /\ (icache_ncline_q.old => nc_kill_q)
  /\ nc_rsp_valid_q => icache_ncline_q.page = Page(paddr_infly_q) /\ (icache_ncline_q.old => nc_kill_q)

\* An answer that is kept is the one IF2 waits for.
Right(ans) ==
  IF is_bad(if2.pc) \/ (en_translation /\ Page(if2.pc) \in FAULTY) THEN ans.fault
  ELSE \/ ~ans.fault /\ ans.a = if2.pc /\ ~ans.old
       \/ ans.fault /\ ans.on_miss /\ en_translation /\ UNACCESSED # {}
Saved ==
  if2.v /\ resp_icache_cpu_q.v =>
    /\ Right(resp_icache_cpu_q)
    /\ ~resp_icache_cpu_q.fault => state_q = "READ" /\ ~CacheBusy /\ ~BufferBusy

FetchInv == WalkInv /\ Exclusive /\ Own /\ Translated /\ L2Inv /\ CacheInv /\ BufferInv /\ Saved

-----------------------------------------------------------------------------
(* Addresses, pages and inputs.                                            *)

(* The page of an instruction, and the two parts of its address.           *)
LEMMA PageFacts ==
  /\ Pages \subseteq Nat /\ 0 \in Pages
  /\ \A a \in Addr : Page(a) \in Pages /\ Page(a) # 0 /\ a \in Nat /\ 2 * Page(a) + (a % 2) = a
BY FetchAssumption DEF Pages, Page

(* The next instruction is one.                                            *)
LEMMA SuccType == ASSUME NEW a \in Addr PROVE Succ(a) \in Addr
<1> DEFINE above == {b \in Addr : b > a}
           Less == {p \in Nat \X Nat : p[1] < p[2]}
<1>1. CASE above = {}
  BY <1>1, FetchAssumption DEF Succ
<1>2. CASE above # {}
  <2>1. above \subseteq Nat
    BY FetchAssumption
  <2>2. \E b \in above : \A c \in above : b <= c
    <3>1. IsWellFoundedOn(Less, Nat)
      BY NatLessThanWellFounded, Zenon DEF OpToRel
    <3>2. PICK b \in above : \A c \in above : ~(<<c, b>> \in Less)
      <4> HIDE DEF Less, above
      <4> QED BY <1>2, <2>1, <3>1, WFMin, Zenon
    <3>3. ASSUME NEW c \in above PROVE b <= c
      <4>1. ~(c < b)
        <5> SUFFICES ASSUME c < b PROVE <<c, b>> \in Less
          BY <3>2
        <5>1. <<c, b>> \in Nat \X Nat
          BY <2>1
        <5> QED BY <5>1
      <4> QED BY <2>1, <4>1
    <3> QED BY <3>3
  <2>3. (CHOOSE b \in above : \A c \in above : b <= c) \in above
    <3> HIDE DEF above
    <3> QED BY <2>2
  <2>4. Succ(a) = CHOOSE b \in above : \A c \in above : b <= c
    BY <1>2 DEF Succ
  <2> QED BY <2>3, <2>4
<1> QED BY <1>1, <1>2

\* The inputs of a cycle.
Input(in) ==
  /\ in.cu \in {"go"} \cup CuKinds /\ (retry_fetch => in.cu = "go") /\ (in.cu = "stall1" => ~if2.v)
  /\ in.target \in Addr /\ in.way \in Way
  /\ in.ptw \in BOOLEAN /\ (in.ptw => walk.sent)
  /\ in.en \in BOOLEAN /\ (in.cu \notin {"trap", "csr"} => in.en = en_translation)
  /\ \/ in.grant = {}
     \/ /\ in.answers \in l2
        /\ \E o \in {in.answers.old, FALSE} : in.grant = {[page |-> in.answers.page, old |-> o]}

(* A clock cycle has such inputs.                                          *)
LEMMA CycleInput ==
  ASSUME Types, ClockCycle
  PROVE  \E in : Input(in) /\ Cycle(in)
<1>1. PICK cu \in Cus, r \in l2 \cup {None}, w \in Way :
        \E target \in TargetsOf(cu), grant \in Grants(r), ptw \in PtwInputs,
           clean \in (IF walk = NoWalk /\ \E i \in Entry : tlb[i] \in FAULTY \ UNACCESSED THEN BOOLEAN ELSE {FALSE}),
           en \in (IF cu \in {"trap", "csr"} THEN BOOLEAN ELSE {en_translation}) :
          Cycle([cu |-> cu, target |-> target, grant |-> grant, answers |-> r, way |-> w,
                 ptw |-> ptw, clean |-> clean, en |-> en])
  BY DEF ClockCycle, CycleWith
<1>2. PICK target \in TargetsOf(cu), grant \in Grants(r), ptw \in PtwInputs,
           clean \in (IF walk = NoWalk /\ \E i \in Entry : tlb[i] \in FAULTY \ UNACCESSED THEN BOOLEAN ELSE {FALSE}),
           en \in (IF cu \in {"trap", "csr"} THEN BOOLEAN ELSE {en_translation}) :
          Cycle([cu |-> cu, target |-> target, grant |-> grant, answers |-> r, way |-> w,
                 ptw |-> ptw, clean |-> clean, en |-> en])
  BY <1>1
<1> DEFINE in == [cu |-> cu, target |-> target, grant |-> grant, answers |-> r, way |-> w,
                  ptw |-> ptw, clean |-> clean, en |-> en]
<1>3. /\ in.cu = cu /\ in.target = target /\ in.grant = grant /\ in.answers = r /\ in.way = w
      /\ in.ptw = ptw /\ in.en = en
  OBVIOUS
<1>4. Cycle(in)
  BY <1>2
<1> HIDE DEF in
<1>5. in.cu \in {"go"} \cup CuKinds /\ (retry_fetch => in.cu = "go") /\ (in.cu = "stall1" => ~if2.v)
  BY <1>3 DEF Cus
<1>6. in.target \in Addr /\ in.way \in Way
  BY <1>3, FetchAssumption DEF TargetsOf
<1>7. /\ in.ptw \in BOOLEAN /\ (in.ptw => walk.sent)
      /\ in.en \in BOOLEAN /\ (in.cu \notin {"trap", "csr"} => in.en = en_translation)
  BY <1>3 DEF Types, PtwInputs
<1>8. \/ in.grant = {}
      \/ /\ in.answers \in l2
         /\ \E o \in {in.answers.old, FALSE} : in.grant = {[page |-> in.answers.page, old |-> o]}
  BY <1>3 DEF Grants
<1>9. Input(in)
  BY <1>5, <1>6, <1>7, <1>8 DEF Input
<1> QED BY <1>4, <1>9

(* The line of a grant is that of the request it answers.                  *)
LEMMA GrantedLine ==
  ASSUME Types, NEW in, Input(in), granted(in)
  PROVE  /\ in.answers \in l2
         /\ (CHOOSE l \in in.grant : TRUE) \in Line
         /\ (CHOOSE l \in in.grant : TRUE).page = in.answers.page
         /\ (CHOOSE l \in in.grant : TRUE).old => in.answers.old
<1>1. in.answers \in l2 /\ \E o \in {in.answers.old, FALSE} : in.grant = {[page |-> in.answers.page, old |-> o]}
  BY DEF Input, granted
<1>2. PICK o \in {in.answers.old, FALSE} : in.grant = {[page |-> in.answers.page, old |-> o]}
  BY <1>1
<1>3. in.answers.page \in Pages /\ in.answers.old \in BOOLEAN
  BY <1>1 DEF Types
<1> DEFINE l0 == [page |-> in.answers.page, old |-> o]
<1>4. (CHOOSE l \in in.grant : TRUE) = l0
  BY <1>2
<1>5. l0 \in Line /\ l0.page = in.answers.page /\ (l0.old => in.answers.old)
  BY <1>2, <1>3 DEF Line
<1> HIDE DEF l0
<1> QED BY <1>1, <1>4, <1>5

(* A word of a line is an answer, and so is what fetch sees.               *)
LEMMA WordType ==
  ASSUME NEW line \in Line, NEW a \in Addr
  PROVE  Word(line, a) \in Answer
<1>1. line.page \in Nat /\ line.old \in BOOLEAN /\ a \in Nat
  BY PageFacts DEF Line
<1>2. 2 * line.page + (a % 2) \in Nat
  BY <1>1
<1> QED BY <1>1, <1>2 DEF Word, Answer

\* What fetch delivers has the type of an answer.
LEMMA RespType ==
  ASSUME Types, NEW in
  PROVE  resp(in) \in Answer
<1>1. NoAnswer \in Answer /\ Fault(miss) \in Answer
  BY DEF NoAnswer, Fault, Answer, miss, Types
<1>2. Word(icache_ncline_q, paddr_infly_q) \in Answer
  BY WordType DEF Types
<1>3. ASSUME iresp_valid(in), ~xcpt PROVE Word(rd[CHOOSE w \in hits : TRUE].line, addr_q) \in Answer
  <2>1. hits # {}
    BY <1>3 DEF iresp_valid, is_hit
  <2>2. (CHOOSE w \in hits : TRUE) \in Way
    BY <2>1 DEF hits
  <2>3. rd[CHOOSE w \in hits : TRUE].line \in Line
    <3>1. rd \in [Way -> [v : BOOLEAN, tag : Pages, line : Line]]
      BY DEF Types
    <3> QED BY <2>2, <3>1
  <2> QED BY <2>3, WordType DEF Types
<1>4. xcpt \in BOOLEAN
  BY DEF xcpt, Types
<1> QED BY <1>1, <1>2, <1>3, <1>4 DEF resp

-----------------------------------------------------------------------------
(* Type correctness.                                                       *)

(* Every cycle keeps the types; a walk that fills the TLB is for a page.   *)
LEMMA TypeStep ==
  ASSUME Types, WalkInv, NEW in, Input(in), Cycle(in)
  PROVE  Types' /\ WalkInv'
<1> USE DEF Cycle
<1>1. pc' \in Addr /\ if2' \in [v : BOOLEAN, pc : Addr, ex : BOOLEAN] /\ resp_icache_cpu_q' \in Answer
  <2>1. pc' \in Addr
    BY SuccType DEF Types, IfCycle, Input
  <2>2. if2' \in [v : BOOLEAN, pc : Addr, ex : BOOLEAN]
    BY FetchAssumption DEF Types, IfCycle, Empty, is_bad
  <2>3. NoAnswer \in Answer
    BY DEF NoAnswer, Answer
  <2>4. resp_icache_cpu_q' \in Answer
    BY <2>3, RespType DEF Types, IfCycle, SaveAnswer
  <2> QED BY <2>1, <2>2, <2>4
<1> DEFINE addr_d == IF do_icache_request(in) THEN pc ELSE addr_q
           valid_ireq_d == do_icache_request(in) \/ replay_valid
           absent == en_translation /\ \A i \in Entry : tlb[i] # Page(addr_d)
<1>2. addr_d \in Addr /\ Page(addr_d) \in Pages /\ 0 \in Pages
  <2>1. addr_d \in Addr
    BY DEF Types
  <2> HIDE DEF addr_d
  <2> QED BY <2>1, PageFacts
<1>3. /\ addr_q' = addr_d /\ valid_ireq_q' = valid_ireq_d
      /\ ireq_kill_q' = retry_fetch /\ is_flush_q' = invalidate_icache(in)
      /\ ifill_req_was_sent_q' = ifill_req_was_sent_d(in)
      /\ mmu_tresp_q' = mmu_tresp_d(in, Page(addr_d), absent)
      /\ cline_tag_q' = mmu_tresp_q.ppn
      /\ rd' = IF invalidate_icache(in) THEN [w \in Way |-> [rd[w] EXCEPT !.v = FALSE, !.line.old = TRUE]]
               ELSE IF valid_ireq_d THEN ways ELSE rd
      /\ ControllerCycle(in) /\ Refill(in) /\ ItlbCycle(in, valid_ireq_d, Page(addr_d), absent)
  BY DEF IcacheCycle
<1>4. valid_ireq_d \in BOOLEAN /\ absent \in BOOLEAN
  OBVIOUS
<1> HIDE DEF addr_d, valid_ireq_d, absent
<1>5. state_q' \in States
  BY <1>3 DEF ControllerCycle, States
<1>6. addr_q' \in Addr /\ cline_tag_q' \in Pages
  BY <1>2, <1>3 DEF Types
<1>7. {valid_ireq_q', ireq_kill_q', is_flush_q', ifill_req_was_sent_q'} \subseteq BOOLEAN
  <2>1. retry_fetch \in BOOLEAN
    BY DEF Types
  <2>2. invalidate_icache(in) \in BOOLEAN /\ ifill_req_was_sent_d(in) \in BOOLEAN
    BY DEF invalidate_icache, ifill_req_was_sent_d
  <2> QED BY <1>3, <1>4, <2>1, <2>2
<1>8. mmu_tresp_q' \in [miss : BOOLEAN, ptw_v : BOOLEAN, xcpt : BOOLEAN, ppn : Pages]
  BY <1>2, <1>3, <1>4 DEF mmu_tresp_d, Input
<1>9. {ways', rd'} \subseteq [Way -> [v : BOOLEAN, tag : Pages, line : Line]]
  <2>1. ways \in [Way -> [v : BOOLEAN, tag : Pages, line : Line]] /\ rd \in [Way -> [v : BOOLEAN, tag : Pages, line : Line]]
    BY DEF Types
  <2>2. ASSUME NEW f \in [Way -> [v : BOOLEAN, tag : Pages, line : Line]]
        PROVE  [w \in Way |-> [f[w] EXCEPT !.v = FALSE, !.line.old = TRUE]] \in [Way -> [v : BOOLEAN, tag : Pages, line : Line]]
    <3>1. ASSUME NEW w \in Way
          PROVE  [f[w] EXCEPT !.v = FALSE, !.line.old = TRUE] \in [v : BOOLEAN, tag : Pages, line : Line]
      BY DEF Line
    <3> QED BY <3>1
  <2>3. ASSUME granted(in)
        PROVE  [v |-> ~retry_fetch /\ ~ireq_kill_q, tag |-> cline_tag_q, line |-> CHOOSE l \in in.grant : TRUE]
                 \in [v : BOOLEAN, tag : Pages, line : Line]
    <3>1. (CHOOSE l \in in.grant : TRUE) \in Line
      BY <2>3, GrantedLine
    <3>2. cline_tag_q \in Pages
      BY DEF Types
    <3> QED BY <3>1, <3>2
  <2>4. ways' \in [Way -> [v : BOOLEAN, tag : Pages, line : Line]]
    BY <1>3, <2>1, <2>2, <2>3 DEF Refill, cache_wr_ena
  <2>5. rd' \in [Way -> [v : BOOLEAN, tag : Pages, line : Line]]
    BY <1>3, <2>1, <2>2
  <2> QED BY <2>4, <2>5
<1>10. state_nc' \in {"idle", "wait", "kill"} /\ icache_ncline_q' \in Line
  <2>1. state_nc' \in {"idle", "wait", "kill"}
    BY DEF NcBufferCycle, Types
  <2>2. nc_rsp_valid_d(in) => (CHOOSE l \in in.grant : TRUE) \in Line
    BY GrantedLine DEF nc_rsp_valid_d
  <2>3. (IF nc_rsp_valid_d(in) THEN CHOOSE l \in in.grant : TRUE ELSE icache_ncline_q) \in Line
    BY <2>2 DEF Types
  <2>4. ASSUME NEW line \in Line PROVE Aged(line, retry_fetch) \in Line
    BY DEF Line, Aged
  <2> QED BY <2>1, <2>3, <2>4 DEF NcBufferCycle
<1>11. buffer_paddr_q' \in Pages /\ paddr_infly_q' \in Addr
  BY PageFacts DEF NcBufferCycle, BufferFill, Types
<1>12. {nc_rsp_valid_q', req_nc_valid_q', nc_kill_q', en_translation', retry_fetch'} \subseteq BOOLEAN
  <2>1. nc_rsp_valid_q' \in BOOLEAN /\ req_nc_valid_q' \in BOOLEAN
    BY DEF NcBufferCycle, nc_rsp_valid_d, req_nc_valid_d
  <2>2. nc_kill_q' \in BOOLEAN
    BY DEF NcBufferCycle, nc_kill_d
  <2>3. en_translation' \in BOOLEAN /\ retry_fetch' \in BOOLEAN
    BY DEF ControlCycle, Input
  <2> QED BY <2>1, <2>2, <2>3
<1>13. past' \in {"nothing", "code", "fault"}
  BY DEF PastCycle, Types
<1>14. /\ tlb' \in [Entry -> Pages \cup {NoPage}] /\ walk' \in [page : Pages \cup {NoPage}, idx : Entry, sent : BOOLEAN]
       /\ walk' # NoWalk => walk'.page \in Pages
  <2>1. NoWalk \in [page : Pages \cup {NoPage}, idx : Entry, sent : BOOLEAN] /\ ~NoWalk.sent
    BY FetchAssumption DEF NoWalk, Entry
  <2>2. walk \in [page : Pages \cup {NoPage}, idx : Entry, sent : BOOLEAN] /\ tlb \in [Entry -> Pages \cup {NoPage}]
    BY DEF Types
  <2>3. in.ptw => walk.page \in Pages
    BY <2>1 DEF Input, WalkInv
  <2>4. walk' \in IF in.ptw THEN {NoWalk}
                 ELSE IF walk # NoWalk THEN {[walk EXCEPT !.sent = TRUE]}
                 ELSE IF valid_ireq_d /\ absent THEN {[page |-> Page(addr_d), idx |-> i, sent |-> FALSE] : i \in Evictable}
                 ELSE {NoWalk}
    BY <1>3 DEF ItlbCycle
  <2>5. tlb' \in [Entry -> Pages \cup {NoPage}]
    BY <1>3, <2>2, <2>3 DEF ItlbCycle
  <2>6. CASE walk' = NoWalk
    BY <2>1, <2>5, <2>6
  <2>7. CASE walk # NoWalk /\ walk' = [walk EXCEPT !.sent = TRUE]
    <3>1. walk.page \in Pages
      BY <2>7 DEF WalkInv
    <3>2. walk' = [page |-> walk.page, idx |-> walk.idx, sent |-> TRUE]
      BY <2>2, <2>7
    <3> QED BY <2>2, <2>5, <3>1, <3>2
  <2>8. CASE \E i \in Evictable : walk' = [page |-> Page(addr_d), idx |-> i, sent |-> FALSE]
    BY <1>2, <2>5, <2>8 DEF Evictable
  <2> QED BY <2>4, <2>6, <2>7, <2>8
<1>15. l2' \subseteq [nc : BOOLEAN, page : Pages, old : BOOLEAN]
  <2> DEFINE Request == [nc : BOOLEAN, page : Pages, old : BOOLEAN]
             age(r) == Aged(r, IF r.nc THEN retry_fetch ELSE invalidate_icache(in))
             fill == [nc |-> FALSE, page |-> mmu_tresp_q.ppn, old |-> FALSE]
             read == [nc |-> TRUE, page |-> Page(paddr_infly_q), old |-> FALSE]
  <2>1. ASSUME NEW r \in l2 PROVE age(r) \in Request
    BY DEF Types, Aged
  <2>2. fill \in Request
    BY DEF Types
  <2>3. read \in Request
    BY PageFacts DEF Types
  <2>4. l2' = {age(r) : r \in l2 \ {in.answers}}
              \cup (IF ifill_req_valid(in) THEN {fill} ELSE {}) \cup (IF req_nc_valid THEN {read} ELSE {})
    BY DEF L2Cycle
  <2> HIDE DEF Request, age, fill, read
  <2>5. l2' \subseteq Request
    BY <2>1, <2>2, <2>3, <2>4
  <2> QED BY <2>5 DEF Request
<1>16. dropped' \in BOOLEAN
  BY DEF PastCycle
<1>17. Types'
  BY <1>1, <1>5, <1>6, <1>7, <1>8, <1>9, <1>10, <1>11, <1>12, <1>13, <1>14, <1>15, <1>16 DEF Types
<1> QED BY <1>14, <1>17 DEF WalkInv

(* The registers of fetch and of its caches have their types.              *)
LEMMA TypesAlways == Spec => []Types
<1>1. Init => Types /\ WalkInv
  <2> SUFFICES ASSUME Init PROVE Types /\ WalkInv
    OBVIOUS
  <2> USE DEF Init
  <2>1. pc \in Addr /\ if2 \in [v : BOOLEAN, pc : Addr, ex : BOOLEAN] /\ addr_q \in Addr /\ paddr_infly_q \in Addr
    BY FetchAssumption DEF Empty
  <2>2. resp_icache_cpu_q \in Answer
    BY DEF NoAnswer, Answer
  <2>3. state_q \in States /\ cline_tag_q \in Pages /\ buffer_paddr_q \in Pages /\ icache_ncline_q \in Line
    BY DEF States, Pages, Line
  <2>4. mmu_tresp_q \in [miss : BOOLEAN, ptw_v : BOOLEAN, xcpt : BOOLEAN, ppn : Pages]
    BY DEF Pages
  <2>5. {ways, rd} \subseteq [Way -> [v : BOOLEAN, tag : Pages, line : Line]]
    BY DEF EmptyWay, Pages, Line
  <2>6. /\ walk \in [page : Pages \cup {NoPage}, idx : Entry, sent : BOOLEAN] /\ WalkInv
        /\ tlb \in [Entry -> Pages \cup {NoPage}]
    BY FetchAssumption DEF NoWalk, WalkInv, Entry
  <2> QED BY <2>1, <2>2, <2>3, <2>4, <2>5, <2>6 DEF Types
<1>2. Types /\ WalkInv /\ [Next]_vars => (Types /\ WalkInv)'
  <2> SUFFICES ASSUME Types, WalkInv, [Next]_vars PROVE (Types /\ WalkInv)'
    OBVIOUS
  <2>1. CASE Next
    BY <2>1, CycleInput, TypeStep DEF Next
  <2>2. CASE UNCHANGED vars
    BY <2>2 DEF Types, WalkInv, vars, if_vars, ic_vars, nc_vars, env_vars
  <2> QED BY <2>1, <2>2
<1> QED BY <1>1, <1>2, PTL DEF Spec

-----------------------------------------------------------------------------
(* Who is busy, and with what.                                             *)

(* What a cycle does to the registers of the cache's request.              *)
LEMMA RequestRegisters ==
  ASSUME NEW in, Cycle(in)
  PROVE  /\ addr_q' = IF do_icache_request(in) THEN pc ELSE addr_q
         /\ valid_ireq_q' = (do_icache_request(in) \/ replay_valid)
         /\ ireq_kill_q' = retry_fetch /\ is_flush_q' = invalidate_icache(in)
         /\ ifill_req_was_sent_q' = ifill_req_was_sent_d(in)
         /\ mmu_tresp_q' = mmu_tresp_d(in, Page(addr_q'), en_translation /\ \A i \in Entry : tlb[i] # Page(addr_q'))
         /\ cline_tag_q' = mmu_tresp_q.ppn
         /\ ControllerCycle(in) /\ Refill(in)
BY DEF Cycle, IcacheCycle

(* A buffer that makes fetch wait is busy, and fetch is not ready.         *)
LEMMA WaitingBusy ==
  ASSUME Types, Exclusive, NEW in
  PROVE  /\ waiting => BufferBusy /\ state_q = "READ" /\ ~valid_ireq_q /\ ~ready(in)
         /\ fetch_valid(in) => ready(in) /\ ~retry_fetch
BY DEF waiting, BufferBusy, Exclusive, ready, req_nc_valid, fetch_valid, stall_if_1

(* When fetch is ready, every request has been answered or given up; the   *)
(* next one is that of IF1, if there is one.                               *)
LEMMA ReadyIsDone ==
  ASSUME Types, Exclusive, L2Inv, NEW in, Cycle(in), ready(in)
  PROVE  /\ state_q = "READ" /\ state_q' = "READ" /\ state_nc = "idle" /\ state_nc' = "idle"
         /\ ~nc_rsp_valid_q' /\ ~replay_valid /\ ~ifill_req_valid(in) /\ ~req_nc_valid /\ l2 = {}
         /\ valid_ireq_q' = (request_valid(in) /\ ~is_nc(pc))
<1>1. state_q = "READ" /\ (is_flush_or_kill \/ ~new_request(in) \/ ((is_hit \/ xcpt) /\ ~miss))
  BY DEF ready, ctrl_ready
<1>2. state_nc = "idle" /\ ~req_nc_valid
  BY DEF ready, waiting
<1>3. state_q' = "READ"
  <2>1. ControllerCycle(in)
    BY RequestRegisters
  <2> QED BY <1>1, <2>1 DEF ControllerCycle
<1>4. ~replay_valid /\ ~ifill_req_valid(in)
  BY <1>1 DEF replay_valid, ifill_req_valid
<1>5. state_nc' = "idle" /\ ~nc_rsp_valid_q'
  BY <1>2 DEF Cycle, NcBufferCycle, nc_rsp_valid_d
<1>6. l2 = {}
  BY <1>1, <1>2 DEF L2Inv
<1>7. valid_ireq_q' = (request_valid(in) /\ ~is_nc(pc))
  <2>1. ctrl_ready(in)
    BY DEF ready
  <2> QED BY <1>4, <2>1, RequestRegisters DEF do_icache_request
<1> QED BY <1>1, <1>2, <1>3, <1>4, <1>5, <1>6, <1>7

(* When IF1 sends nothing, only what was busy stays busy, with the same.   *)
LEMMA NothingSent ==
  ASSUME Types, Exclusive, NEW in, Cycle(in), ~fetch_valid(in)
  PROVE  /\ addr_q' = addr_q /\ paddr_infly_q' = paddr_infly_q /\ ~req_nc_valid_q'
         /\ CacheBusy' => CacheBusy
         /\ BufferBusy' => BufferBusy
<1>1. ~do_icache_request(in) /\ ~req_nc_valid_d(in)
  BY DEF do_icache_request, req_nc_valid_d, request_valid
<1>2. addr_q' = addr_q /\ paddr_infly_q' = paddr_infly_q /\ ~req_nc_valid_q'
  BY <1>1, RequestRegisters DEF Cycle, NcBufferCycle
<1>3. CacheBusy' => CacheBusy
  <2>1. valid_ireq_q' => state_q \in {"REPLAY", "REPLAY_TLB"}
    BY <1>1, RequestRegisters DEF replay_valid
  <2>2. ~CacheBusy => state_q' = "READ"
    <3>1. ControllerCycle(in)
      BY RequestRegisters
    <3> QED BY <3>1 DEF ControllerCycle, CacheBusy, new_request
  <2> QED BY <2>1, <2>2 DEF CacheBusy
<1>4. BufferBusy' => BufferBusy
  <2>1. nc_rsp_valid_q' => state_nc # "idle"
    BY DEF Cycle, NcBufferCycle, nc_rsp_valid_d
  <2>2. state_nc' # "idle" => state_nc # "idle" \/ req_nc_valid_q
    BY DEF Cycle, NcBufferCycle, req_nc_valid
  <2> QED BY <1>2, <2>1, <2>2 DEF BufferBusy
<1> QED BY <1>2, <1>3, <1>4

(* An instruction comes into IF2, or stays there, only if nothing kills    *)
(* the requests.                                                           *)
LEMMA InIf2 ==
  ASSUME Types, NEW in, Input(in), Cycle(in), if2'.v
  PROVE  /\ ~retry_fetch /\ ~retry_fetch' /\ ~flush_if(in) /\ ~invalidate_icache(in) /\ en_translation' = en_translation
         /\ \/ fetch_valid(in) /\ ~stall_if_1(in) /\ if2' = [v |-> TRUE, pc |-> pc, ex |-> is_bad(pc)]
            \/ ~fetch_valid(in) /\ stall_if_1(in) /\ if2' = if2 /\ if2.v
<1>1. if2' = IF flush_if(in) THEN Empty
             ELSE IF stall_if_1(in) THEN if2
             ELSE IF fetch_valid(in) THEN [v |-> TRUE, pc |-> pc, ex |-> is_bad(pc)]
             ELSE Empty
  BY DEF Cycle, IfCycle
<1>2. ~flush_if(in)
  BY <1>1 DEF Empty
<1>3. /\ ~retry_fetch /\ in.cu \notin {"jump", "serial", "trap", "csr", "fencei"}
  BY <1>2 DEF flush_if
<1>4. ~retry_fetch' /\ en_translation' = en_translation /\ ~invalidate_icache(in)
  BY <1>3 DEF Cycle, ControlCycle, invalidate_icache, Input
<1>5. \/ fetch_valid(in) /\ ~stall_if_1(in) /\ if2' = [v |-> TRUE, pc |-> pc, ex |-> is_bad(pc)]
      \/ ~fetch_valid(in) /\ stall_if_1(in) /\ if2' = if2 /\ if2.v
  BY <1>1, <1>2 DEF Empty, fetch_valid
<1> QED BY <1>2, <1>3, <1>4, <1>5

-----------------------------------------------------------------------------
(* The parts of FetchInv, one cycle later.                                 *)

(* The cache and the buffer are not both busy.                             *)
LEMMA ExclusiveStep ==
  ASSUME Types, Exclusive, L2Inv, NEW in, Input(in), Cycle(in)
  PROVE  Exclusive'
<1>1. state_q' # "NO_REQ"
  BY RequestRegisters DEF ControllerCycle
<1>2. nc_rsp_valid_q' => waiting /\ state_nc' = "idle"
  BY DEF Cycle, NcBufferCycle, nc_rsp_valid_d, waiting
<1>3. req_nc_valid_q' => fetch_valid(in) /\ is_nc(pc) /\ ~nc_kill_q'
  BY DEF Cycle, NcBufferCycle, req_nc_valid_d, request_valid
<1>4. state_nc' # "idle" => waiting
  BY DEF Cycle, NcBufferCycle, waiting
<1>5. waiting => state_q' = "READ" /\ ~valid_ireq_q' /\ ~fetch_valid(in)
  <2> SUFFICES ASSUME waiting PROVE state_q' = "READ" /\ ~valid_ireq_q' /\ ~fetch_valid(in)
    OBVIOUS
  <2>1. state_q = "READ" /\ ~valid_ireq_q /\ ~fetch_valid(in)
    BY WaitingBusy
  <2>2. ~do_icache_request(in) /\ ~replay_valid /\ ~new_request(in)
    BY <2>1 DEF do_icache_request, request_valid, replay_valid, new_request
  <2> QED BY <2>1, <2>2, RequestRegisters DEF ControllerCycle
<1>6. fetch_valid(in) => state_q' = "READ" /\ state_nc' = "idle" /\ (is_nc(pc) => ~valid_ireq_q')
  BY WaitingBusy, ReadyIsDone
<1> QED BY <1>1, <1>2, <1>3, <1>4, <1>5, <1>6 DEF Exclusive, BufferBusy

(* What is busy works for the instruction in IF2.                          *)
LEMMA OwnStep ==
  ASSUME Types, Exclusive, L2Inv, Own, NEW in, Input(in), Cycle(in)
  PROVE  Own'
<1> SUFFICES ASSUME if2'.v
             PROVE  /\ ~retry_fetch' /\ ~ireq_kill_q' /\ ~is_flush_q' /\ ~nc_kill_q'
                    /\ CacheBusy' => addr_q' = if2'.pc
                    /\ BufferBusy' => paddr_infly_q' = if2'.pc /\ ~en_translation'
                    /\ if2'.ex <=> is_bad(if2.pc)'
                    /\ if2'.ex => ~CacheBusy' /\ ~BufferBusy'
  BY DEF Own
<1>1. ~retry_fetch' /\ ~ireq_kill_q' /\ ~is_flush_q' /\ ~nc_kill_q' /\ en_translation' = en_translation
  BY InIf2, RequestRegisters DEF Cycle, NcBufferCycle, nc_kill_d
<1>2. CASE fetch_valid(in) /\ if2' = [v |-> TRUE, pc |-> pc, ex |-> is_bad(pc)]
  <2>1. ready(in)
    BY <1>2, WaitingBusy
  <2>2. /\ state_q' = "READ" /\ state_nc' = "idle" /\ ~nc_rsp_valid_q'
        /\ valid_ireq_q' = (request_valid(in) /\ ~is_nc(pc))
    BY <2>1, ReadyIsDone
  <2>3. valid_ireq_q' => addr_q' = pc
    BY <2>1, <2>2, RequestRegisters DEF do_icache_request, ready
  <2>4. req_nc_valid_q' => paddr_infly_q' = pc /\ ~en_translation /\ request_valid(in)
    BY DEF Cycle, NcBufferCycle, req_nc_valid_d, is_nc
  <2>5. is_bad(if2.pc)' = is_bad(pc) /\ if2'.ex = is_bad(pc) /\ if2'.pc = pc
    BY <1>1, <1>2 DEF is_bad
  <2>6. is_bad(pc) => ~valid_ireq_q' /\ ~req_nc_valid_q'
    BY <2>2, <2>4 DEF request_valid
  <2> QED BY <1>1, <2>2, <2>3, <2>4, <2>5, <2>6 DEF CacheBusy, BufferBusy
<1>3. CASE ~fetch_valid(in) /\ if2' = if2 /\ if2.v
  <2>1. is_bad(if2.pc)' = is_bad(if2.pc)
    BY <1>1, <1>3 DEF is_bad
  <2> QED BY <1>1, <1>3, <2>1, NothingSent DEF Own
<1> QED BY <1>1, <1>2, <1>3, InIf2

(* The TLB has answered for the address of the request.                    *)
LEMMA TranslatedStep ==
  ASSUME Types, NEW in, Input(in), Cycle(in)
  PROVE  Translated'
<1> DEFINE page == Page(addr_q')
           absent == en_translation /\ \A i \in Entry : tlb[i] # page
<1>1. mmu_tresp_q' = mmu_tresp_d(in, page, absent)
  BY RequestRegisters
<1>2. /\ mmu_tresp_q'.miss = absent
      /\ mmu_tresp_q'.ppn = IF absent THEN 0 ELSE page
      /\ mmu_tresp_q'.xcpt = (en_translation /\ (IF absent THEN tlb[0] \in UNACCESSED ELSE page \in FAULTY))
  BY <1>1 DEF mmu_tresp_d
<1>3. ~retry_fetch' => en_translation' = en_translation
  BY DEF Cycle, ControlCycle, Input
<1>4. retry_fetch' \in BOOLEAN /\ en_translation' \in BOOLEAN /\ en_translation \in BOOLEAN
  BY DEF Cycle, ControlCycle, Input, Types
<1>5. /\ mmu_tresp_q'.miss => mmu_tresp_q'.ppn = 0 /\ (mmu_tresp_q'.xcpt => UNACCESSED # {})
      /\ mmu_tresp_q'.miss /\ ~retry_fetch' => en_translation'
  BY <1>2, <1>3, <1>4
<1>6. ~mmu_tresp_q'.miss => mmu_tresp_q'.ppn = page
  BY <1>2
<1>7. ~retry_fetch' /\ ~mmu_tresp_q'.miss => (mmu_tresp_q'.xcpt <=> en_translation' /\ page \in FAULTY)
  BY <1>2, <1>3, <1>4
<1> QED BY <1>5, <1>6, <1>7, Zenon DEF Translated, miss, xcpt

(* The level-2 cache works for what is busy.                               *)
LEMMA L2Step ==
  ASSUME Types, Exclusive, Translated, L2Inv, NEW in, Input(in), Cycle(in)
  PROVE  L2Inv'
<1> DEFINE age(r) == Aged(r, IF r.nc THEN retry_fetch ELSE invalidate_icache(in))
           fill == [nc |-> FALSE, page |-> mmu_tresp_q.ppn, old |-> FALSE]
           read == [nc |-> TRUE, page |-> Page(paddr_infly_q), old |-> FALSE]
           NcOk(r) == state_nc' # "idle" /\ r.page = Page(paddr_infly_q') /\ (r.old /\ state_nc' = "wait" => nc_kill_q')
           FillOk(r) == /\ state_q' \in {"MISS", "KILL"} /\ ifill_req_was_sent_q'
                        /\ state_q' = "MISS" => r.page = Page(addr_q') /\ cline_tag_q' \in {r.page, 0} /\ (r.old => is_flush_q')
<1>1. l2' = {age(r) : r \in l2 \ {in.answers}}
            \cup (IF ifill_req_valid(in) THEN {fill} ELSE {}) \cup (IF req_nc_valid THEN {read} ELSE {})
  BY DEF Cycle, L2Cycle
<1>2. ASSUME NEW r \in l2 PROVE age(r) = [nc |-> r.nc, page |-> r.page, old |-> r.old \/ (IF r.nc THEN retry_fetch ELSE invalidate_icache(in))]
  <2>1. r \in [nc : BOOLEAN, page : Pages, old : BOOLEAN]
    BY DEF Types
  <2> QED BY <2>1 DEF Aged
<1>3. waiting => paddr_infly_q' = paddr_infly_q
  BY WaitingBusy, NothingSent
<1>4. CASE ifill_req_valid(in)
  <2>1. state_q = "READ" /\ valid_ireq_q /\ ~is_hit /\ ~xcpt /\ ~miss /\ ~is_flush_or_kill /\ new_request(in)
    BY <1>4 DEF ifill_req_valid, new_request
  <2>2. l2 = {} /\ ~req_nc_valid
    BY <2>1 DEF L2Inv, Exclusive, BufferBusy, req_nc_valid
  <2>3. l2' = {fill}
    <3> HIDE DEF age, fill, read
    <3> QED BY <1>1, <1>4, <2>2
  <2>4. addr_q' = addr_q
    BY <2>1, RequestRegisters DEF do_icache_request, ctrl_ready
  <2>5. state_q' = "MISS" /\ ifill_req_was_sent_q' /\ cline_tag_q' = mmu_tresp_q.ppn
    <3>1. ControllerCycle(in) /\ cline_tag_q' = mmu_tresp_q.ppn /\ ifill_req_was_sent_q'
      BY <1>4, RequestRegisters DEF ifill_req_was_sent_d
    <3> QED BY <2>1, <3>1 DEF ControllerCycle
  <2>6. mmu_tresp_q.ppn = Page(addr_q)
    BY <2>1 DEF Translated
  <2> QED BY <2>3, <2>4, <2>5, <2>6 DEF L2Inv
<1>5. CASE ~ifill_req_valid(in) /\ req_nc_valid
  <2>1. waiting /\ state_nc = "idle" /\ state_q = "READ"
    BY <1>5, WaitingBusy DEF req_nc_valid, waiting
  <2>2. l2 = {}
    BY <2>1 DEF L2Inv
  <2>3. l2' = {read}
    <3> HIDE DEF age, fill, read
    <3> QED BY <1>1, <1>5, <2>2
  <2>4. state_nc' = "wait"
    BY <1>5, <2>1 DEF Cycle, NcBufferCycle
  <2> QED BY <1>3, <2>1, <2>3, <2>4 DEF L2Inv
<1>6. CASE ~ifill_req_valid(in) /\ ~req_nc_valid
  <2>1. l2' = {age(r) : r \in l2 \ {in.answers}}
    <3> HIDE DEF age, fill, read
    <3> QED BY <1>1, <1>6
  <2>2. \A r, s \in l2' : r = s
    <3> HIDE DEF age
    <3> QED BY <2>1 DEF L2Inv
  <2>3. ASSUME NEW r \in l2 \ {in.answers}
        PROVE  (age(r).nc => NcOk(age(r))) /\ (~age(r).nc => FillOk(age(r)))
    <3>1. ~granted(in)
      BY <2>3 DEF L2Inv, Input, granted
    <3>2. /\ age(r).nc = r.nc /\ age(r).page = r.page
          /\ age(r).old <=> (r.old \/ (IF r.nc THEN retry_fetch ELSE invalidate_icache(in)))
      <4> HIDE DEF age
      <4> DEFINE passed == IF r.nc THEN retry_fetch ELSE invalidate_icache(in)
      <4>1. age(r) = [nc |-> r.nc, page |-> r.page, old |-> r.old \/ passed]
        BY <1>2
      <4> HIDE DEF passed
      <4>2. age(r).nc = r.nc /\ age(r).page = r.page /\ age(r).old = (r.old \/ passed)
        BY <4>1
      <4> QED BY <4>2, Zenon DEF passed
    <3> HIDE DEF age
    <3>3. ASSUME r.nc PROVE NcOk(age(r))
      <4>1. state_nc # "idle" /\ r.page = Page(paddr_infly_q) /\ (r.old /\ state_nc = "wait" => nc_kill_q)
        BY <3>3 DEF L2Inv
      <4>2. waiting
        BY <4>1 DEF waiting
      <4>3. /\ state_nc' # "idle" /\ (state_nc' = "wait" => state_nc = "wait" /\ ~nc_kill_q)
            /\ retry_fetch => nc_kill_q'
        BY <3>1, <4>1 DEF Cycle, NcBufferCycle, nc_kill_d, Types
      <4> QED BY <1>3, <3>2, <3>3, <4>1, <4>2, <4>3
    <3>4. ASSUME ~r.nc PROVE FillOk(age(r))
      <4>1. /\ state_q \in {"MISS", "KILL"} /\ ifill_req_was_sent_q
            /\ state_q = "MISS" => r.page = Page(addr_q) /\ cline_tag_q \in {r.page, 0} /\ (r.old => is_flush_q)
        BY <3>4 DEF L2Inv
      <4>2. ifill_req_was_sent_d(in)
        BY <3>1, <4>1 DEF ifill_req_was_sent_d
      <4>3. ControllerCycle(in) /\ ifill_req_was_sent_q' /\ cline_tag_q' = mmu_tresp_q.ppn /\ is_flush_q' = invalidate_icache(in)
        BY <4>2, RequestRegisters
      <4>4. state_q' \in {"MISS", "KILL"} /\ (state_q' = "MISS" => state_q = "MISS" /\ ~is_flush_q)
        BY <3>1, <4>1, <4>2, <4>3 DEF ControllerCycle, kill_done, is_flush_or_kill
      <4>5. addr_q' = addr_q
        BY <4>1, RequestRegisters DEF do_icache_request, ctrl_ready
      <4>6. mmu_tresp_q.ppn \in {Page(addr_q), 0}
        BY <4>1 DEF Translated
      <4> QED BY <3>2, <3>4, <4>1, <4>3, <4>4, <4>5, <4>6
    <3> QED BY <3>2, <3>3, <3>4
  <2>4. ASSUME NEW s \in l2' PROVE (s.nc => NcOk(s)) /\ (~s.nc => FillOk(s))
    <3> HIDE DEF age, NcOk, FillOk
    <3>1. PICK r \in l2 \ {in.answers} : s = age(r)
      BY <2>1
    <3> QED BY <2>3, <3>1
  <2> QED BY <2>2, <2>4 DEF L2Inv
<1> QED BY <1>4, <1>5, <1>6

(* The refill of a request that is not killed is a line as memory has it.  *)
LEMMA CacheStep ==
  ASSUME Types, Exclusive, L2Inv, CacheInv, NEW in, Input(in), Cycle(in)
  PROVE  CacheInv'
<1> DEFINE Lined(f) == f \in [Way -> [v : BOOLEAN, tag : Pages, line : Line]] /\ Lines(f)
           emptied(f) == [w \in Way |-> [f[w] EXCEPT !.v = FALSE, !.line.old = TRUE]]
           line == CHOOSE l \in in.grant : TRUE
           entry == [v |-> ~retry_fetch /\ ~ireq_kill_q, tag |-> cline_tag_q, line |-> line]
<1>1. Lined(ways) /\ Lined(rd)
  BY DEF Types, CacheInv
<1>2. ASSUME NEW f, Lined(f) PROVE Lines(emptied(f))
  <2>1. ASSUME NEW w \in Way PROVE ~emptied(f)[w].v
    <3>1. f[w] \in [v : BOOLEAN, tag : Pages, line : Line]
      BY <1>2
    <3>2. emptied(f)[w] = [f[w] EXCEPT !.v = FALSE, !.line.old = TRUE]
      OBVIOUS
    <3> QED BY <3>1, <3>2
  <2> QED BY <2>1 DEF Lines
<1>3. ASSUME cache_wr_ena(in) PROVE Lines([ways EXCEPT ![in.way] = entry])
  <2>1. state_q = "MISS" /\ granted(in) /\ ~is_flush_q
    BY <1>3 DEF cache_wr_ena, is_flush_or_kill
  <2>2. in.answers \in l2 /\ line.page = in.answers.page /\ (line.old => in.answers.old)
    BY <2>1, GrantedLine
  <2>3. ~in.answers.nc
    BY <2>1, <2>2 DEF L2Inv, Exclusive, BufferBusy
  <2>4. cline_tag_q \in {in.answers.page, 0} /\ ~in.answers.old
    BY <2>1, <2>2, <2>3 DEF L2Inv
  <2>5. entry.tag \in {entry.line.page, 0} /\ ~entry.line.old
    BY <2>2, <2>4
  <2> HIDE DEF entry
  <2> QED BY <1>1, <2>5 DEF Lines
<1>4. /\ ways' = IF invalidate_icache(in) THEN emptied(ways)
                 ELSE IF cache_wr_ena(in) THEN [ways EXCEPT ![in.way] = entry] ELSE ways
      /\ rd' \in {emptied(rd), ways, rd}
  BY DEF Cycle, IcacheCycle, Refill
<1> HIDE DEF emptied, entry
<1> QED BY <1>1, <1>2, <1>3, <1>4 DEF CacheInv

(* So is what the buffer takes of a request that is not killed.            *)
LEMMA BufferStep ==
  ASSUME Types, Exclusive, L2Inv, BufferInv, NEW in, Input(in), Cycle(in)
  PROVE  BufferInv'
<1> DEFINE taken == CHOOSE l \in in.grant : TRUE
           line == IF nc_rsp_valid_d(in) THEN taken ELSE icache_ncline_q
<1>1. ASSUME nc_rsp_valid_d(in)
      PROVE  /\ taken \in Line /\ taken.page = Page(paddr_infly_q) /\ ~taken.old /\ ~nc_kill_q
             /\ paddr_infly_q' = paddr_infly_q
  <2>1. state_nc = "wait" /\ ~nc_kill_q /\ granted(in)
    BY <1>1 DEF nc_rsp_valid_d
  <2>2. in.answers \in l2 /\ taken \in Line /\ taken.page = in.answers.page /\ (taken.old => in.answers.old)
    BY <2>1, GrantedLine
  <2>3. waiting
    BY <2>1 DEF waiting
  <2>4. state_q = "READ" /\ paddr_infly_q' = paddr_infly_q
    BY <2>3, WaitingBusy, NothingSent
  <2>5. in.answers.nc
    BY <2>2, <2>4 DEF L2Inv
  <2>6. in.answers.page = Page(paddr_infly_q) /\ ~in.answers.old
    BY <2>1, <2>2, <2>5 DEF L2Inv
  <2> QED BY <2>1, <2>2, <2>4, <2>6
<1>2. line \in Line
  BY <1>1 DEF Types
<1>3. /\ icache_ncline_q' = Aged(line, retry_fetch)
      /\ buffer_paddr_q' = IF nc_kill_q THEN 0
                           ELSE IF nc_rsp_valid_d(in) THEN Page(paddr_infly_q) ELSE buffer_paddr_q
      /\ nc_rsp_valid_q' = nc_rsp_valid_d(in)
      /\ retry_fetch => nc_kill_q'
  BY DEF Cycle, NcBufferCycle, BufferFill, nc_kill_d
<1>4. icache_ncline_q'.page = line.page /\ (icache_ncline_q'.old => line.old \/ nc_kill_q')
  <2> HIDE DEF line
  <2>1. Aged(line, retry_fetch) = [page |-> line.page, old |-> line.old \/ retry_fetch]
    BY <1>2 DEF Aged, Line
  <2>2. icache_ncline_q'.page = line.page /\ icache_ncline_q'.old = (line.old \/ retry_fetch)
    BY <1>3, <2>1
  <2> QED BY <1>3, <2>2, Zenon
<1>5. CASE nc_rsp_valid_d(in)
  <2>1. line = taken
    BY <1>5
  <2> HIDE DEF line, taken
  <2> QED BY <1>1, <1>3, <1>4, <1>5, <2>1 DEF BufferInv
<1>6. CASE ~nc_rsp_valid_d(in)
  <2>1. line = icache_ncline_q
    BY <1>6
  <2> HIDE DEF line, taken
  <2> QED BY <1>3, <1>4, <1>6, <2>1 DEF BufferInv
<1> QED BY <1>5, <1>6

-----------------------------------------------------------------------------
(* The answers.                                                            *)

(* The word of a line that is of the page of an address is the instruction *)
(* at that address.                                                        *)
LEMMA RightWord ==
  ASSUME NEW line \in Line, NEW a \in Addr, line.page = Page(a), ~line.old
  PROVE  Word(line, a).v /\ ~Word(line, a).fault /\ Word(line, a).a = a /\ ~Word(line, a).old
<1>1. 2 * line.page + (a % 2) = a
  BY PageFacts
<1> QED BY <1>1 DEF Word

(* What the caches answer is what IF2 waits for; if it is an instruction,  *)
(* they are ready for the next one.                                        *)
LEMMA RespRight ==
  ASSUME Types, FetchInv, NEW in, if2.v, resp(in).v
  PROVE  Right(resp(in)) /\ (~resp(in).fault => ready(in))
<1>1. /\ ~retry_fetch /\ ~ireq_kill_q /\ ~is_flush_q /\ ~nc_kill_q
      /\ CacheBusy => addr_q = if2.pc
      /\ BufferBusy => paddr_infly_q = if2.pc /\ ~en_translation
  BY DEF FetchInv, Own
<1>2. if2.pc \in Addr /\ (CacheBusy \/ BufferBusy => ~is_bad(if2.pc))
  BY DEF Types, FetchInv, Own
<1>3. CASE nc_rsp_valid_q \/ is_in_buffer
  <2>1. BufferBusy
    BY <1>3 DEF BufferBusy, is_in_buffer
  <2>2. paddr_infly_q = if2.pc /\ ~en_translation /\ state_q = "READ" /\ ~valid_ireq_q
    BY <1>1, <2>1 DEF FetchInv, Exclusive
  <2>3. icache_ncline_q.page = Page(if2.pc) /\ ~icache_ncline_q.old
    BY <1>1, <1>2, <1>3, <2>2, PageFacts DEF FetchInv, BufferInv, is_in_buffer, same_addr_req
  <2>4. resp(in) = Word(icache_ncline_q, if2.pc)
    BY <1>3, <2>2 DEF resp
  <2>5. ~resp(in).fault /\ resp(in).a = if2.pc /\ ~resp(in).old
    BY <1>2, <2>3, <2>4, RightWord DEF Types
  <2>6. ~waiting
    BY <1>3 DEF FetchInv, Exclusive, waiting, req_nc_valid, is_in_buffer
  <2>7. ready(in)
    BY <2>2, <2>6 DEF ready, ctrl_ready, new_request
  <2> QED BY <1>2, <2>1, <2>2, <2>5, <2>7 DEF Right
<1>4. CASE ~(nc_rsp_valid_q \/ is_in_buffer)
  <2>1. iresp_valid(in)
    BY <1>4 DEF resp, NoAnswer
  <2>2. CacheBusy /\ state_q # "NO_REQ"
    BY <2>1 DEF iresp_valid, CacheBusy, new_request
  <2>3. addr_q = if2.pc
    BY <1>1, <2>2
  <2>4. CASE xcpt
    <3>1. resp(in) = Fault(miss) /\ resp(in).fault /\ resp(in).on_miss = miss
      BY <1>4, <2>1, <2>4 DEF resp, Fault
    <3>2. ~miss => en_translation /\ Page(if2.pc) \in FAULTY
      BY <1>1, <2>2, <2>3, <2>4 DEF FetchInv, Translated
    <3>3. miss => en_translation /\ UNACCESSED # {}
      BY <1>1, <2>4 DEF FetchInv, Translated
    <3>4. miss \in BOOLEAN
      BY DEF miss, Types
    <3> HIDE DEF miss
    <3> QED BY <3>1, <3>2, <3>3, <3>4 DEF Right
  <2>5. CASE ~xcpt
    <3>1. state_q = "READ" /\ is_hit /\ ~miss /\ new_request(in)
      BY <2>1, <2>5 DEF iresp_valid
    <3>2. mmu_tresp_q.ppn = Page(if2.pc) /\ ~(en_translation /\ Page(if2.pc) \in FAULTY)
      BY <1>1, <2>2, <2>3, <2>5, <3>1 DEF FetchInv, Translated
    <3> DEFINE w == CHOOSE w \in hits : TRUE
    <3>3. w \in hits
      BY <3>1 DEF is_hit
    <3> HIDE DEF w
    <3>4. w \in Way /\ rd[w].v /\ rd[w].tag = Page(if2.pc)
      BY <3>2, <3>3 DEF hits
    <3>5. rd[w].line.page = Page(if2.pc) /\ ~rd[w].line.old
      BY <1>2, <3>4, PageFacts DEF FetchInv, CacheInv, Lines
    <3>6. rd[w].line \in Line
      <4>1. rd \in [Way -> [v : BOOLEAN, tag : Pages, line : Line]]
        BY DEF Types
      <4> QED BY <3>4, <4>1
    <3>7. resp(in) = Word(rd[w].line, if2.pc)
      BY <1>1, <1>4, <2>1, <2>3, <2>5 DEF resp, w
    <3>8. ~resp(in).fault /\ resp(in).a = if2.pc /\ ~resp(in).old
      BY <1>2, <3>5, <3>6, <3>7, RightWord
    <3>9. ~waiting
      BY <3>1 DEF FetchInv, Exclusive, BufferBusy, waiting, req_nc_valid, new_request
    <3>10. ready(in)
      BY <3>1, <3>9 DEF ready, ctrl_ready
    <3> QED BY <1>2, <2>2, <3>2, <3>8, <3>10 DEF Right
  <2>6. xcpt \in BOOLEAN
    BY DEF Types, xcpt
  <2> QED BY <2>4, <2>5, <2>6
<1> QED BY <1>3, <1>4

(* So is the answer IF2 takes, also one that was kept for it.              *)
LEMMA AnswerRight ==
  ASSUME Types, FetchInv, NEW in, if2.v, answered(in)
  PROVE  Right(answer(in)) /\ (~answer(in).fault => ready(in))
<1>1. CASE if2.ex
  <2>1. answer(in).fault /\ is_bad(if2.pc)
    BY <1>1 DEF answer, Fault, FetchInv, Own
  <2> QED BY <2>1 DEF Right
<1>2. CASE ~if2.ex /\ resp_icache_cpu_q.v
  <2>1. answer(in) = resp_icache_cpu_q
    BY <1>2 DEF answer
  <2>2. Right(resp_icache_cpu_q) /\ (~resp_icache_cpu_q.fault => state_q = "READ" /\ ~CacheBusy /\ ~BufferBusy)
    BY <1>2 DEF FetchInv, Saved
  <2>3. state_q = "READ" /\ ~CacheBusy /\ ~BufferBusy => ready(in)
    BY DEF CacheBusy, BufferBusy, ready, ctrl_ready, new_request, waiting, req_nc_valid
  <2> QED BY <2>1, <2>2, <2>3
<1>3. CASE ~if2.ex /\ ~resp_icache_cpu_q.v
  <2>1. answer(in) = resp(in) /\ resp(in).v
    BY <1>3 DEF answer, answered
  <2> QED BY <2>1, RespRight
<1>4. resp_icache_cpu_q.v \in BOOLEAN /\ if2.ex \in BOOLEAN
  BY DEF Types, Answer
<1> QED BY <1>1, <1>2, <1>3, <1>4

(* An answer is kept only while IF2 waits with the same instruction.       *)
LEMMA SavedStep ==
  ASSUME Types, FetchInv, NEW in, Input(in), Cycle(in)
  PROVE  Saved'
<1> SUFFICES ASSUME if2'.v, resp_icache_cpu_q'.v
             PROVE  /\ Right(resp_icache_cpu_q)'
                    /\ ~resp_icache_cpu_q'.fault => state_q' = "READ" /\ ~CacheBusy' /\ ~BufferBusy'
  BY DEF Saved
<1>1. ~flush_if(in) /\ en_translation' = en_translation
  BY InIf2
<1>2. stall_if_2(in) /\ resp_icache_cpu_q' \in {resp(in), resp_icache_cpu_q} /\ (resp(in).v => resp_icache_cpu_q' = resp(in))
  BY <1>1 DEF Cycle, IfCycle, SaveAnswer, NoAnswer
<1>3. ~fetch_valid(in) /\ if2' = if2 /\ if2.v
  BY <1>2, InIf2 DEF stall_if_1
<1>4. /\ Right(resp_icache_cpu_q')
      /\ ~resp_icache_cpu_q'.fault => ready(in)
  <2>1. CASE resp(in).v
    BY <1>2, <1>3, <2>1, RespRight
  <2>2. CASE ~resp(in).v
    <3>1. resp_icache_cpu_q' = resp_icache_cpu_q
      BY <1>2, <2>2
    <3>2. Right(resp_icache_cpu_q) /\ (~resp_icache_cpu_q.fault => state_q = "READ" /\ ~CacheBusy /\ ~BufferBusy)
      BY <1>3, <3>1 DEF FetchInv, Saved
    <3>3. state_q = "READ" /\ ~CacheBusy /\ ~BufferBusy => ready(in)
      BY DEF CacheBusy, BufferBusy, ready, ctrl_ready, new_request, waiting, req_nc_valid
    <3> QED BY <3>1, <3>2, <3>3
  <2>3. resp(in).v \in BOOLEAN
    BY RespType DEF Answer
  <2> QED BY <2>1, <2>2, <2>3
<1>5. Right(resp_icache_cpu_q)'
  BY <1>1, <1>3, <1>4 DEF Right, is_bad
<1>6. ready(in) => state_q' = "READ" /\ ~CacheBusy' /\ ~BufferBusy'
  <2> SUFFICES ASSUME ready(in) PROVE state_q' = "READ" /\ ~CacheBusy' /\ ~BufferBusy'
    OBVIOUS
  <2>1. /\ state_q' = "READ" /\ state_nc' = "idle" /\ ~nc_rsp_valid_q'
        /\ valid_ireq_q' = (request_valid(in) /\ ~is_nc(pc))
    BY ReadyIsDone DEF FetchInv
  <2>2. ~req_nc_valid_q'
    BY <1>3, NothingSent DEF FetchInv
  <2> QED BY <1>3, <2>1, <2>2 DEF CacheBusy, BufferBusy, request_valid
<1> QED BY <1>4, <1>5, <1>6

-----------------------------------------------------------------------------
(* The theorems.                                                           *)

(* The invariant holds after reset, and every cycle keeps it.              *)
LEMMA FetchInvInit == Init => FetchInv
<1> SUFFICES ASSUME Init PROVE FetchInv
  OBVIOUS
<1> USE DEF Init
<1>1. WalkInv /\ Exclusive /\ Own
  BY DEF WalkInv, Exclusive, Own, BufferBusy, Empty
<1>2. Translated /\ L2Inv /\ BufferInv /\ Saved
  BY DEF Translated, miss, xcpt, L2Inv, BufferInv, Saved, Empty
<1>3. CacheInv
  BY DEF CacheInv, Lines, EmptyWay
<1> QED BY <1>1, <1>2, <1>3 DEF FetchInv

\* The invariant of fetch is inductive.
LEMMA FetchInvStep == Types /\ FetchInv /\ [Next]_vars => FetchInv'
<1> SUFFICES ASSUME Types, FetchInv, [Next]_vars PROVE FetchInv'
  OBVIOUS
<1>1. CASE Next
  <2>1. PICK in : Input(in) /\ Cycle(in)
    BY <1>1, CycleInput DEF Next
  <2>2. WalkInv'
    BY <2>1, TypeStep DEF FetchInv
  <2>3. Exclusive'
    BY <2>1, ExclusiveStep DEF FetchInv
  <2>4. Own'
    BY <2>1, OwnStep DEF FetchInv
  <2>5. Translated'
    BY <2>1, TranslatedStep
  <2>6. L2Inv'
    BY <2>1, L2Step DEF FetchInv
  <2>7. CacheInv'
    BY <2>1, CacheStep DEF FetchInv
  <2>8. BufferInv'
    BY <2>1, BufferStep DEF FetchInv
  <2>9. Saved'
    BY <2>1, SavedStep
  <2> QED BY <2>2, <2>3, <2>4, <2>5, <2>6, <2>7, <2>8, <2>9 DEF FetchInv
<1>2. CASE UNCHANGED vars
  <2> USE <1>2 DEF vars, if_vars, ic_vars, nc_vars, env_vars
  <2>1. CacheBusy' = CacheBusy /\ BufferBusy' = BufferBusy /\ miss' = miss /\ xcpt' = xcpt
    BY DEF CacheBusy, BufferBusy, miss, xcpt
  <2>2. WalkInv' /\ Exclusive' /\ Own'
    BY <2>1 DEF FetchInv, WalkInv, Exclusive, Own, is_bad
  <2>3. Translated' /\ L2Inv'
    BY <2>1 DEF FetchInv, Translated, L2Inv
  <2>4. CacheInv' /\ BufferInv' /\ Saved'
    BY <2>1 DEF FetchInv, CacheInv, Lines, BufferInv, Saved, Right, is_bad
  <2> QED BY <2>2, <2>3, <2>4 DEF FetchInv
<1> QED BY <1>1, <1>2

(* The inductive invariant: who is busy, for which instruction, and that   *)
(* the lines and answers kept are those of their addresses.                *)
THEOREM RequestsTracked == Spec => []FetchInv
<1>1. Spec => []Types
  BY TypesAlways
<1> QED BY <1>1, FetchInvInit, FetchInvStep, PTL DEF Spec

(* The registers keep their types, and the level-2 cache never has two     *)
(* requests, although a killed one is not taken back: its answers carry no *)
(* name (icache_interface.sv).                                             *)
THEOREM TypeCorrect == Spec => []TypeOK
<1>1. Types /\ FetchInv => TypeOK
  BY DEF TypeOK, FetchInv, L2Inv
<1> QED BY <1>1, TypesAlways, RequestsTracked, PTL

(* Every instruction that IF2 passes on is that of its own address, or the *)
(* fault of its address or page, and not from before the last fence.i or   *)
(* redirection: no answer of a killed, flushed or replayed request is      *)
(* taken for another.  A page fault on a page that does not fault comes    *)
(* only on a TLB miss, under translation, with pages whose A bit is 0.     *)
THEOREM FetchedIsRight == Spec => []RightInstruction
<1>1. Types /\ FetchInv => RightInstruction
  BY AnswerRight DEF RightInstruction, Right
<1> QED BY <1>1, TypesAlways, RequestsTracked, PTL

(* Whenever IF2 has an instruction, the cache and the buffer are ready for *)
(* the next one, so that IF1 moves when IF2 does.                          *)
THEOREM ReadyAtAnswer == Spec => []ReadyWhenAnswered
<1>1. Types /\ FetchInv => ReadyWhenAnswered
  BY AnswerRight DEF ReadyWhenAnswered
<1> QED BY <1>1, TypesAlways, RequestsTracked, PTL
=============================================================================
