----------------------------- MODULE SpikeTraps -----------------------------
(***************************************************************************)
(* Traps, returns and interrupts as the reference simulator does them      *)
(* (riscv-isa-sim: processor.cc, csrs.cc, insns/mret.h, insns/sret.h):     *)
(* what the CSR file promises.  Machine, supervisor and user mode, without *)
(* the hypervisor and debug modes.                                         *)
(*                                                                         *)
(* An address is a base and an offset in words; all code is one address.   *)
(* Software sets delegation, vectors and mstatus.TSR up once (conf); it    *)
(* changes the other fields at any time.                                   *)
(***************************************************************************)
EXTENDS Naturals

CONSTANTS
  Ints,                 \* interrupts: 1, 5, 9 of the supervisor, 3, 7, 11 of the machine, 13 counter overflow
  Faults,               \* exceptions other than environment calls
  MTVEC_LO, STVEC_LO,   \* bits 7:2 of the trap vectors
  MstatusWrites         \* values software writes to mstatus and sstatus

U == 0
S == 1
M == 3
Code == <<"code", 0>>
Mstatus == [mie : BOOLEAN, mpie : BOOLEAN, mpp : 0 .. 3, sie : BOOLEAN, spie : BOOLEAN, spp : {U, S}, mprv : BOOLEAN]
Conf == [mideleg : SUBSET (Ints \cap {1, 5, 9, 13}), medeleg : SUBSET (Faults \cup {8}), mvec : BOOLEAN, svec : BOOLEAN, tsr : BOOLEAN]

\* Those above IRQ_M_EXT come first, then MEI, MSI, MTI, SEI, SSI, STI.
Rank == [i \in {1, 3, 5, 7, 9, 11, 13} |-> CASE i = 13 -> 0 [] i = 11 -> 1 [] i = 3 -> 2 [] i = 7 -> 3 [] i = 9 -> 4 [] i = 1 -> 5 [] i = 5 -> 6]
FirstOf(set) == CHOOSE i \in set : \A j \in set : Rank[i] <= Rank[j]
-----------------------------------------------------------------------------
VARIABLES conf, prv, mstatus, mie, mip, pc, mepc, sepc,
          cause         \* mcause or scause, whichever the last trap wrote

Init ==
  /\ prv = M /\ pc = Code /\ mepc = Code /\ sepc = Code /\ cause = <<"mcause", FALSE, 0>>
  /\ mstatus = [mie |-> FALSE, mpie |-> FALSE, mpp |-> U, sie |-> FALSE, spie |-> FALSE, spp |-> U, mprv |-> FALSE]
  /\ mie = {}

legalize_privilege(p) == IF p = 2 THEN U ELSE p

Vector(base, low, vectored, interrupt, c) ==
  pc' = <<base, low + (IF vectored /\ interrupt THEN c ELSE 0)>>

take_trap(interrupt, c) ==
  LET delegated == prv # M /\ c \in (IF interrupt THEN conf.mideleg ELSE conf.medeleg)
  IN  \/ /\ delegated
         /\ Vector("stvec", STVEC_LO, conf.svec, interrupt, c)
         /\ sepc' = pc /\ cause' = <<"scause", interrupt, c>>
         /\ mstatus' = [mstatus EXCEPT !.spie = mstatus.sie, !.spp = prv, !.sie = FALSE]
         /\ prv' = S
         /\ UNCHANGED mepc
      \/ /\ ~delegated
         /\ Vector("mtvec", MTVEC_LO, conf.mvec, interrupt, c)
         /\ mepc' = pc /\ cause' = <<"mcause", interrupt, c>>
         /\ mstatus' = [mstatus EXCEPT !.mpie = mstatus.mie, !.mpp = prv, !.mie = FALSE]
         /\ prv' = M
         /\ UNCHANGED sepc

take_interrupt ==
  LET pending == mip \cap mie
      m_enabled == IF prv # M \/ mstatus.mie THEN pending \ conf.mideleg ELSE {}
      s_enabled == IF prv = U \/ (prv = S /\ mstatus.sie) THEN pending \cap conf.mideleg ELSE {}
      enabled == IF m_enabled # {} THEN m_enabled ELSE s_enabled
  IN  enabled # {} /\ take_trap(TRUE, FirstOf(enabled)) /\ UNCHANGED mie

Exception == \E c \in Faults \cup {8 + prv} : take_trap(FALSE, c) /\ UNCHANGED mie

mret ==
  /\ prv = M
  /\ pc' = mepc
  /\ prv' = mstatus.mpp
  /\ mstatus' = [mstatus EXCEPT !.mie = mstatus.mpie, !.mpie = TRUE, !.mpp = U, !.mprv = @ /\ mstatus.mpp = M]
  /\ UNCHANGED <<mie, mepc, sepc, cause>>

sret ==
  /\ prv = M \/ (prv = S /\ ~conf.tsr)
  /\ pc' = sepc
  /\ prv' = mstatus.spp
  /\ mstatus' = [mstatus EXCEPT !.sie = mstatus.spie, !.spie = TRUE, !.spp = U, !.mprv = FALSE]
  /\ UNCHANGED <<mie, mepc, sepc, cause>>

\* An instruction without an effect on these registers, or a write of one of them.
Execute == pc' = Code /\ UNCHANGED <<prv, mstatus, mie, mepc, sepc, cause>>

write_mstatus ==
  /\ prv = M
  /\ \E v \in MstatusWrites : mstatus' = [v EXCEPT !.mpp = legalize_privilege(@)]
  /\ pc' = Code /\ UNCHANGED <<prv, mie, mepc, sepc, cause>>

write_sstatus ==
  /\ prv # U
  /\ \E v \in MstatusWrites : mstatus' = [mstatus EXCEPT !.sie = v.sie, !.spie = v.spie, !.spp = v.spp]
  /\ pc' = Code /\ UNCHANGED <<prv, mie, mepc, sepc, cause>>

write_mie ==
  /\ prv = M
  /\ mie' \in SUBSET Ints
  /\ pc' = Code /\ UNCHANGED <<prv, mstatus, mepc, sepc, cause>>

write_sie ==
  /\ prv # U
  /\ \E v \in SUBSET conf.mideleg : mie' = (mie \ conf.mideleg) \cup v
  /\ pc' = Code /\ UNCHANGED <<prv, mstatus, mepc, sepc, cause>>

\* mip follows the devices.
Next ==
  /\ \/ take_interrupt \/ Exception \/ mret \/ sret \/ Execute
     \/ write_mstatus \/ write_sstatus \/ write_mie \/ write_sie
  /\ UNCHANGED conf

Spec == Init /\ [][Next]_<<conf, prv, mstatus, mie, pc, mepc, sepc, cause>>
=============================================================================
