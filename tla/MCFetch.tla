------------------------------- MODULE MCFetch ------------------------------
(***************************************************************************)
(* Instances of Fetch for TLC.                                             *)
(***************************************************************************)
EXTENDS Fetch

\* A stall of IF2, a jump, one while IF2 is stalled, and kills, with IF1 going on and with
\* IF1 stalled.
Kinds == {"stall2", "jump", "held_jump", "trap", "csr", "fencei"}

\* 7 is not a virtual address, and 4 not in memory.
Bad == [translated \in BOOLEAN |-> IF translated THEN {7} ELSE {4}]
=============================================================================
