------------------------------- MODULE MCMmu --------------------------------
(***************************************************************************)
(* Instances of Mmu for TLC: two levels of tables of two entries each.     *)
(***************************************************************************)
EXTENDS Mmu, TLC

None == [valid |-> FALSE, vpn |-> ZeroVpn, store |-> FALSE, priv |-> FALSE, vm_enable |-> TRUE]

Req(vpn, store, priv) ==
  [valid |-> TRUE, vpn |-> vpn, store |-> store, priv |-> priv, vm_enable |-> TRUE]

\* One TLB at work, on all its pages.
NoReqs   == {None}
AllIReqs == {None, [Req(<<1,1>>, FALSE, TRUE) EXCEPT !.vm_enable = FALSE]}
            \cup {Req(vpn, FALSE, TRUE) : vpn \in Vpn}
AllDReqs == {None} \cup {Req(vpn, s, TRUE) : vpn \in Vpn, s \in BOOLEAN}

\* Both TLBs at work, the data TLB in every cycle: a page that is not dirty, a superpage.
ShareIReqs == {None, Req(<<0,0>>, FALSE, FALSE)}
ShareDReqs == {Req(<<0,1>>, TRUE, FALSE), Req(<<1,1>>, FALSE, TRUE)}

OneStatus == {[sum |-> TRUE, mxr |-> FALSE]}

Root == <<0, 0>>
T1   == <<0, 1>>
T2   == <<1, 0>>

Tbl(p) == [ZeroPte EXCEPT !.v = TRUE, !.ppn = p]

\* A leaf with the given set of flags.
Leaf(p, f) == [v |-> TRUE, r |-> "r" \in f, w |-> "w" \in f, x |-> "x" \in f, u |-> "u" \in f,
               a |-> "a" \in f, d |-> "d" \in f, rsv |-> FALSE, ppn |-> p]

RWXU == {"r", "w", "x", "u", "a", "d"}
RWX  == RWXU \ {"u"}

\* A superpage next to a table.
MapA == (<<Root, 0>> :> Tbl(T1)) @@ (<<Root, 1>> :> Leaf(<<1,0>>, RWX))
        @@ (<<T1, 0>> :> Leaf(<<1,1>>, RWXU)) @@ (<<T1, 1>> :> Leaf(<<0,1>>, RWXU \ {"d"}))

\* Two tables: a page never accessed, one only executable, one without write
\* permission, and a table where the last level needs a leaf.
MapB == (<<Root, 0>> :> Tbl(T2)) @@ (<<Root, 1>> :> Tbl(T1))
        @@ (<<T2, 0>> :> Leaf(<<0,1>>, RWXU \ {"a"})) @@ (<<T2, 1>> :> Leaf(<<1,1>>, {"x", "u", "a"}))
        @@ (<<T1, 0>> :> Leaf(<<1,0>>, RWXU \ {"w", "d"})) @@ (<<T1, 1>> :> Tbl(T2))

\* A misaligned superpage, a missing page.
MapC == (<<Root, 0>> :> Tbl(T2)) @@ (<<Root, 1>> :> Leaf(<<1,1>>, RWX))
        @@ (<<T2, 0>> :> Leaf(<<1,1>>, RWX))

AllStates  == {"S_READY", "S_REQ", "S_WAIT", "S_DONE", "S_ERROR"}
BetweenWalks == {"S_READY"}

OneTable   == {MapA}
TwoTables  == {MapA, MapB}
GoodTables == {MapA, MapB, MapC}
=============================================================================
