----------------------------- MODULE MCCsrTraps -----------------------------
(***************************************************************************)
(* Instances of CsrTraps for TLC.                                          *)
(***************************************************************************)
EXTENDS CsrTraps

Status(mie, mpp, sie, spp, mprv) ==
  [mie |-> mie, mpie |-> TRUE, mpp |-> mpp, sie |-> sie, spie |-> TRUE, spp |-> spp, mprv |-> mprv]

Writes == {Status(TRUE, M, FALSE, S, TRUE), Status(TRUE, S, TRUE, U, TRUE)}

\* All interrupts of the supervisor are delegated, all but the counter overflow, or
\* this one only.
Delegating ==
  {[mideleg |-> Supervisor, medeleg |-> {8}, mvec |-> TRUE, svec |-> FALSE, tsr |-> FALSE],
   [mideleg |-> Supervisor \ {13}, medeleg |-> {}, mvec |-> FALSE, svec |-> TRUE, tsr |-> TRUE],
   [mideleg |-> Supervisor \cap {13}, medeleg |-> {8}, mvec |-> FALSE, svec |-> FALSE, tsr |-> FALSE]}
=============================================================================
