------------------------------ MODULE CsrTraps ------------------------------
(***************************************************************************)
(* Traps, returns and interrupts in the CSR file (csr_bsc.sv), with the    *)
(* way an interrupt takes from there: chosen from the pending ones, kept   *)
(* in a register, attached to an instruction that leaves RR                *)
(* (datapath.sv), and taken when that instruction is written back.         *)
(*                                                                         *)
(* A step is one clock cycle, with what the write-back stage does in it.   *)
(* An instruction that reads or writes CSRs, and a return, lets none       *)
(* follow it into the pipeline, so that none has an interrupt attached.    *)
(***************************************************************************)
EXTENDS Naturals

CONSTANTS
  Ints, Faults, MTVEC_LO, STVEC_LO, MstatusWrites,
  Confs         \* what software sets up

ASSUME TrapsAssumption ==
  Ints \subseteq {1, 3, 5, 7, 9, 11, 13} /\ MTVEC_LO \in 0 .. 63 /\ STVEC_LO \in 0 .. 63

VARIABLES
  conf, priv_lvl_q, mstatus_q, mie_q, mip_q, pc, mepc_q, sepc_q, cause,
  interrupt_q,  \* interrupt_cause_q if there is an interrupt, or 0
  attached,     \* an instruction in EXE or WB has this interrupt, or 0
  flush_q,      \* the pipeline was flushed in the last cycle, and is empty
  chosen_q,     \* history: what was pending and enabled when interrupt_q was chosen
  chosen        \* history: the same for the interrupt attached

\* The interrupts pending at the point of the program where the next is taken.
Pending == IF attached # 0 THEN chosen ELSE mip_q

Spike == INSTANCE SpikeTraps WITH
  prv <- priv_lvl_q, mstatus <- mstatus_q, mie <- mie_q, mip <- Pending, mepc <- mepc_q, sepc <- sepc_q

ASSUME WritesAssumption == MstatusWrites \subseteq Spike!Mstatus

U == 0
S == 1
M == 3
Code == <<"code", 0>>
Supervisor == Ints \cap {1, 5, 9, 13}    \* what software can delegate
regs == <<conf, priv_lvl_q, mstatus_q, mie_q, pc, mepc_q, sepc_q, cause>>
vars == <<regs, mip_q, interrupt_q, attached, flush_q, chosen_q, chosen>>

Addresses == {Code} \cup ({"mtvec", "stvec"} \X (0 .. 63))

\* The registers hold values of their types, and an empty pipeline no interrupt.
TypeOK ==
  /\ conf \in Confs /\ priv_lvl_q \in {U, S, M} /\ mstatus_q \in Spike!Mstatus
  /\ {mie_q, mip_q, chosen_q, chosen} \subseteq SUBSET Ints
  /\ {pc, mepc_q, sepc_q} \subseteq Addresses
  /\ {interrupt_q, attached} \subseteq Ints \cup {0} /\ flush_q \in BOOLEAN
  /\ flush_q => attached = 0

Init ==
  /\ conf \in Confs
  /\ Spike!Init
  /\ mip_q = {} /\ interrupt_q = 0 /\ attached = 0 /\ flush_q = FALSE
  /\ chosen_q = {} /\ chosen = {}
-----------------------------------------------------------------------------
\* The first of the pending interrupts that are enabled one by one, whatever its
\* delegation: MEI, MSI, MTI, SEI, SSI, STI, and the counter overflow last.
Priority == [i \in {1, 3, 5, 7, 9, 11, 13} |-> CASE i = 11 -> 1 [] i = 3 -> 2 [] i = 7 -> 3 [] i = 9 -> 4 [] i = 1 -> 5 [] i = 5 -> 6 [] i = 13 -> 7]
FirstOf(set) == CHOOSE i \in set : \A j \in set : Priority[i] <= Priority[j]
interrupt_cause == IF mip_q \cap mie_q = {} THEN 0 ELSE FirstOf(mip_q \cap mie_q)
global_enable == mstatus_q.mie \/ priv_lvl_q # M

interrupt_d ==
  /\ interrupt_cause # 0 /\ global_enable
  /\ interrupt_cause \in conf.mideleg => (mstatus_q.sie /\ priv_lvl_q = S) \/ priv_lvl_q = U

\* trunc_sum_6bits: the vector wraps around in 256 bytes.  The supervisor's vectored
\* address is made with the low bits of mtvec.
trap_vector_base(to, interrupt, c) ==
  LET vectored == IF to = S THEN conf.svec ELSE conf.mvec
      base == IF to = S THEN "stvec" ELSE "mtvec"
      low == IF to = S THEN STVEC_LO ELSE MTVEC_LO
  IN  <<base, IF vectored /\ interrupt THEN (MTVEC_LO + c) % 64 ELSE low>>

trap_to_priv_lvl(interrupt, c) ==
  IF c \in (IF interrupt THEN conf.mideleg ELSE conf.medeleg) /\ priv_lvl_q # M THEN S ELSE M

Trap(interrupt, c) ==
  LET to == trap_to_priv_lvl(interrupt, c)
  IN  /\ pc' = trap_vector_base(to, interrupt, c)
      /\ priv_lvl_q' = to
      /\ \/ /\ to = S
            /\ mstatus_q' = [mstatus_q EXCEPT !.sie = FALSE, !.spie = mstatus_q.sie, !.spp = priv_lvl_q % 2]
            /\ cause' = <<"scause", interrupt, c>> /\ sepc_q' = pc
            /\ UNCHANGED mepc_q
         \/ /\ to = M
            /\ mstatus_q' = [mstatus_q EXCEPT !.mie = FALSE, !.mpie = mstatus_q.mie, !.mpp = priv_lvl_q]
            /\ cause' = <<"mcause", interrupt, c>> /\ mepc_q' = pc
            /\ UNCHANGED sepc_q
      /\ UNCHANGED <<conf, mie_q>>

\* mprv is cleared by a return to another, less privileged mode.
\* Fault: it is cleared only by a return to user mode.
mprv_after_ToUser(to) == mstatus_q.mprv /\ to # U
mprv_after(to) == mstatus_q.mprv /\ ~(to # M /\ to # priv_lvl_q)

mret ==
  /\ priv_lvl_q = M
  /\ mstatus_q' = [mstatus_q EXCEPT !.mie = mstatus_q.mpie, !.mpp = U, !.mpie = TRUE, !.mprv = mprv_after(mstatus_q.mpp)]
  /\ priv_lvl_q' = mstatus_q.mpp
  /\ pc' = mepc_q
  /\ UNCHANGED <<conf, mie_q, mepc_q, sepc_q, cause>>

sret ==
  /\ priv_lvl_q >= S /\ ~(priv_lvl_q = S /\ conf.tsr)
  /\ mstatus_q' = [mstatus_q EXCEPT !.sie = mstatus_q.spie, !.spp = U, !.spie = TRUE, !.mprv = mprv_after(mstatus_q.spp)]
  /\ priv_lvl_q' = mstatus_q.spp
  /\ pc' = sepc_q
  /\ UNCHANGED <<conf, mie_q, mepc_q, sepc_q, cause>>

\* Writes.  All of mstatus is written as it comes; sie is written for every
\* supervisor interrupt, delegated or not.
CsrWrite ==
  /\ pc' = Code
  /\ UNCHANGED <<conf, priv_lvl_q, mepc_q, sepc_q, cause>>
  /\ \/ priv_lvl_q = M /\ mstatus_q' \in MstatusWrites /\ UNCHANGED mie_q
     \/ /\ priv_lvl_q >= S
        /\ \E v \in MstatusWrites : mstatus_q' = [mstatus_q EXCEPT !.sie = v.sie, !.spie = v.spie, !.spp = v.spp]
        /\ UNCHANGED mie_q
     \/ priv_lvl_q = M /\ mie_q' \in SUBSET Ints /\ UNCHANGED mstatus_q
     \/ /\ priv_lvl_q >= S
        /\ \E v \in SUBSET Supervisor : mie_q' = (mie_q \ Supervisor) \cup v
        /\ UNCHANGED mstatus_q
-----------------------------------------------------------------------------
\* The rest of a cycle: the interrupt registers, and whether the instruction that
\* leaves RR takes the interrupt with it.
\* Fault: it does so also in the cycle after a flush.
Attach_AfterFlush ==
  /\ attached' = IF attached = 0 /\ interrupt_q # 0 THEN interrupt_q ELSE attached
  /\ chosen' = IF attached = 0 /\ interrupt_q # 0 THEN chosen_q ELSE chosen
Attach ==
  /\ attached' = IF attached = 0 /\ interrupt_q # 0 /\ ~flush_q THEN interrupt_q ELSE attached
  /\ chosen' = IF attached = 0 /\ interrupt_q # 0 /\ ~flush_q THEN chosen_q ELSE chosen

InterruptRegisters ==
  /\ interrupt_q' = IF interrupt_d THEN interrupt_cause ELSE 0
  /\ chosen_q' = IF interrupt_d THEN mip_q \cap mie_q ELSE {}
  /\ mip_q' \in SUBSET Ints

\* Fault: the instruction with the interrupt survives the flush.
Flush_KeepsInterrupt == attached' = attached /\ chosen' = chosen /\ flush_q' = TRUE
Flush == attached' = 0 /\ chosen' = {} /\ flush_q' = TRUE

\* An instruction is written back, or none; the pipeline goes on.
Instruction ==
  /\ pc' = pc \/ pc' = Code
  /\ UNCHANGED <<conf, priv_lvl_q, mstatus_q, mie_q, mepc_q, sepc_q, cause>>
  /\ Attach /\ flush_q' = FALSE /\ InterruptRegisters

\* An exception of an instruction, or of one before it that has no interrupt.
Exception ==
  /\ ~flush_q
  /\ \E c \in Faults \cup {8 + priv_lvl_q} : Trap(FALSE, c)
  /\ Flush /\ InterruptRegisters

Interrupt == attached # 0 /\ Trap(TRUE, attached) /\ Flush /\ InterruptRegisters

System == attached = 0 /\ ~flush_q /\ (mret \/ sret \/ CsrWrite) /\ Flush /\ InterruptRegisters

Next == Instruction \/ Exception \/ Interrupt \/ System
Spec == Init /\ [][Next]_vars
-----------------------------------------------------------------------------
\* The steps where the core and the simulator part.  Interrupt i is taken although the
\* simulator would first take another: one for machine mode, while i is delegated, or the
\* counter overflow of the same mode.
TakenBefore(i, j) ==
  \/ i \in conf.mideleg /\ j \notin conf.mideleg
  \/ i # 13 /\ j = 13 /\ (i \in conf.mideleg <=> j \in conf.mideleg)

OutOfOrderInterrupt ==
  \E i \in Pending \cap mie_q :
    /\ IF i \in conf.mideleg THEN priv_lvl_q = U \/ (priv_lvl_q = S /\ mstatus_q.sie)
                             ELSE priv_lvl_q # M \/ mstatus_q.mie
    /\ \E j \in Pending \cap mie_q : TakenBefore(i, j)
    /\ Spike!take_trap(TRUE, i) /\ UNCHANGED <<conf, mie_q>>

\* sie is written for an interrupt that is not delegated.
WideSieWrite ==
  /\ priv_lvl_q # U /\ conf.mideleg # Supervisor
  /\ \E v \in SUBSET Supervisor : mie_q' = (mie_q \ Supervisor) \cup v
  /\ pc' = Code /\ UNCHANGED <<conf, priv_lvl_q, mstatus_q, mepc_q, sepc_q, cause>>

(* Every trap, return and write is one the reference simulator would do at *)
(* that point of the program: to the same mode and handler, with the same  *)
(* cause and saved state, the interrupt chosen among those pending when    *)
(* it was chosen, although it is taken some cycles later.  The exceptions  *)
(* are the order of the counter overflow, that of interrupts of which only *)
(* some are delegated, and what a write of sie reaches; even then an       *)
(* interrupt taken was pending and enabled, and the trap is right.         *)
ImplementsSpike == Spike!Init /\ [][Spike!Next \/ OutOfOrderInterrupt \/ WideSieWrite]_regs

(* Outside machine mode loads and stores are done with the privilege of    *)
(* the mode: no sequence of traps, returns and writes leaves mprv set      *)
(* there.                                                                  *)
MprvOnlyInM == priv_lvl_q # M => ~mstatus_q.mprv
=============================================================================
