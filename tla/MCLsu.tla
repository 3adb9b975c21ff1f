------------------------------- MODULE MCLsu --------------------------------
(***************************************************************************)
(* Instances of Lsu for TLC: one level of page table.                      *)
(***************************************************************************)
EXTENDS Lsu, TLC

I(op, page, vm) == [valid |-> TRUE, op |-> op, page |-> <<page>>, vm |-> vm, bad |-> FALSE]

AllInstrs == {I("LOAD", 0, TRUE), I("STORE", 0, TRUE), I("LR", 1, TRUE), I("STORE", 1, TRUE),
              I("LOAD", 2, TRUE), I("AMO", 1, FALSE), [I("STORE", 0, TRUE) EXCEPT !.bad = TRUE]}

\* Of each outcome one: a store and a load-reserved that are performed, an atomic
\* without permission, a load outside memory, and one with an older exception.
MixedInstrs == {I("STORE", 0, TRUE), I("LR", 1, TRUE), I("AMO", 1, TRUE), I("LOAD", 1, FALSE),
                [I("STORE", 0, TRUE) EXCEPT !.bad = TRUE]}

FewInstrs == {I("LOAD", 0, TRUE), I("STORE", 1, TRUE)}

Root == <<0>>

Leaf(p, w, d) == [v |-> TRUE, r |-> TRUE, w |-> w, x |-> FALSE, u |-> FALSE,
                  a |-> TRUE, d |-> d, rsv |-> FALSE, ppn |-> p]

\* Two pages that swap places.
Swapped == (<<Root, 0>> :> Leaf(<<1>>, TRUE, TRUE)) @@ (<<Root, 1>> :> Leaf(<<0>>, TRUE, TRUE))

\* The same, the second not writable, and a third page outside memory.
Guarded == (<<Root, 0>> :> Leaf(<<1>>, TRUE, TRUE)) @@ (<<Root, 1>> :> Leaf(<<0>>, FALSE, FALSE))
           @@ (<<Root, 2>> :> Leaf(<<2>>, TRUE, TRUE))

\* Two pages, the second neither writable nor dirty; the physical page between
\* them is outside memory.
Mixed == (<<Root, 0>> :> Leaf(<<2>>, TRUE, TRUE)) @@ (<<Root, 1>> :> Leaf(<<0>>, FALSE, FALSE))
MixedMemory == {<<0>>, <<2>>}

InMemory == {<<0>>, <<1>>}
=============================================================================
