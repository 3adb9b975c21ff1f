----------------------------- MODULE PseudoLru ------------------------------
(***************************************************************************)
(* rtl/mmu/rtl/common/pseudoLRU.sv: the tree-based pseudo-LRU replacement  *)
(* of the TLBs (8 entries) and of the walker's PTE cache (3 entries).      *)
(* The register is a heap-indexed tree of bits; the bits on the path to an *)
(* accessed entry are turned away from it, and the entry to replace is the *)
(* one all the bits of whose path point to it.                             *)
(***************************************************************************)
EXTENDS Naturals

CONSTANT ENTRIES    \* at least 2

VARIABLE plru_tree_q

Idx   == 0 .. ENTRIES-1
Nodes == 0 .. 2*(ENTRIES-1)-1

\* $clog2(ENTRIES): the number of levels of the tree.
Depth == CHOOSE k \in 0 .. ENTRIES : 2^k >= ENTRIES /\ \A j \in 0 .. k-1 : 2^j < ENTRIES
Lvl   == 0 .. Depth-1

\* The node of level lvl on the path to entry i, and the bit of i it decides.
NodeOf(i, lvl) == (2^lvl - 1) + (i \div 2^(Depth-lvl))
BitOf(i, lvl)  == (i \div 2^(Depth-lvl-1)) % 2

TypeOK == plru_tree_q \in [Nodes -> {0, 1}]

Init == plru_tree_q = [n \in Nodes |-> 0]

\* The tree after an access to entry i.
Touched(i) ==
  [n \in Nodes |->
     IF \E lvl \in Lvl : n = NodeOf(i, lvl)
       THEN IF BitOf(i, CHOOSE lvl \in Lvl : n = NodeOf(i, lvl)) = 1 THEN 0 ELSE 1
       ELSE plru_tree_q[n]]

\* One clock cycle: access_hit_i says whether entry i was accessed.
Cycle(access_hit, i) ==
  plru_tree_q' = IF access_hit THEN Touched(i) ELSE plru_tree_q

replace_en == {i \in Idx : \A lvl \in Lvl : plru_tree_q[NodeOf(i, lvl)] = BitOf(i, lvl)}

replacement_idx ==
  IF replace_en = {} THEN 0 ELSE CHOOSE i \in replace_en : \A j \in replace_en : i <= j
=============================================================================
