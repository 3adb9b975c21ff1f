--------------------------- MODULE CsrTrapsProofs ---------------------------
(***************************************************************************)
(* Proofs about traps, for every set of interrupts, exceptions and values  *)
(* written to mstatus: mprv is never set outside machine mode, the         *)
(* registers keep their types, and, where software sets the CSR file up as *)
(* Matching says, every step is one of the reference simulator.            *)
(***************************************************************************)
EXTENDS CsrTraps, TLAPS

\* The inductive invariant of mprv: sret needs to know that spp is a mode below M;
\* mpp may hold the reserved mode 2, which mret then enters.
MprvInv == priv_lvl_q \in 0 .. 3 /\ mstatus_q \in Spike!Mstatus /\ MprvOnlyInM

\* The encoding of the modes.
LEMMA Modes == U = 0 /\ S = 1 /\ M = 3 /\ Spike!U = 0 /\ Spike!S = 1 /\ Spike!M = 3
BY DEF U, S, M, Spike!U, Spike!S, Spike!M

\* Reset is in machine mode.
LEMMA InitMprv == Init => MprvInv
BY Modes DEF Init, Spike!Init, MprvInv, MprvOnlyInM, Spike!Mstatus, M

\* A trap keeps mprv and never goes from machine mode to another one.
LEMMA TrapMprv ==
  ASSUME MprvInv, NEW interrupt, NEW c, Trap(interrupt, c)
  PROVE  MprvInv'
<1>1. priv_lvl_q % 2 \in {0, 1}
  BY DEF MprvInv
<1>2. priv_lvl_q' \in {S, M} /\ (priv_lvl_q' = S => priv_lvl_q # M)
  BY Modes DEF Trap, trap_to_priv_lvl
<1>3. CASE trap_to_priv_lvl(interrupt, c) = S
  <2>1. mstatus_q' = [mstatus_q EXCEPT !.sie = FALSE, !.spie = mstatus_q.sie, !.spp = priv_lvl_q % 2]
    BY <1>3, Modes DEF Trap
  <2>2. mstatus_q' \in Spike!Mstatus /\ mstatus_q'.mprv = mstatus_q.mprv
    BY <1>1, <2>1, Modes DEF MprvInv, Spike!Mstatus
  <2> QED BY <1>2, <2>2, Modes DEF MprvInv, MprvOnlyInM
<1>4. CASE trap_to_priv_lvl(interrupt, c) = M
  <2>1. mstatus_q' = [mstatus_q EXCEPT !.mie = FALSE, !.mpie = mstatus_q.mie, !.mpp = priv_lvl_q]
    BY <1>4, Modes DEF Trap
  <2>2. mstatus_q' \in Spike!Mstatus /\ mstatus_q'.mprv = mstatus_q.mprv
    BY <2>1, Modes DEF MprvInv, Spike!Mstatus
  <2> QED BY <1>2, <2>2, Modes DEF MprvInv, MprvOnlyInM
<1> QED BY <1>3, <1>4 DEF trap_to_priv_lvl

\* mret leaves machine mode only with mprv cleared.
LEMMA MretMprv == MprvInv /\ mret => MprvInv'
<1> SUFFICES ASSUME MprvInv, mret PROVE MprvInv'
  OBVIOUS
<1>1. mprv_after(mstatus_q.mpp) \in BOOLEAN /\ mstatus_q.mpp \in 0 .. 3
  BY DEF mprv_after, MprvInv, Spike!Mstatus
<1>2. mstatus_q' \in Spike!Mstatus /\ mstatus_q'.mprv = mprv_after(mstatus_q.mpp)
  <2> DEFINE after == mprv_after(mstatus_q.mpp)
  <2>1. mstatus_q' = [mstatus_q EXCEPT !.mie = mstatus_q.mpie, !.mpp = 0, !.mpie = TRUE, !.mprv = after]
    BY Modes DEF mret
  <2>2. after \in BOOLEAN
    BY <1>1
  <2> HIDE DEF after
  <2>3. mstatus_q' = [mie |-> mstatus_q.mpie, mpie |-> TRUE, mpp |-> 0, sie |-> mstatus_q.sie,
                      spie |-> mstatus_q.spie, spp |-> mstatus_q.spp, mprv |-> after]
    BY <2>1 DEF MprvInv, Spike!Mstatus
  <2>4. mstatus_q' \in Spike!Mstatus
    BY <2>2, <2>3 DEF MprvInv, Spike!Mstatus
  <2> QED BY <2>3, <2>4 DEF after
<1>3. mstatus_q.mpp # M => ~mprv_after(mstatus_q.mpp)
  BY DEF mret, mprv_after
<1> QED BY <1>1, <1>2, <1>3 DEF mret, MprvInv, MprvOnlyInM, M

\* sret goes to a mode below M: to another one with mprv cleared, or it stays in one
\* where mprv is clear.
LEMMA SretMprv == MprvInv /\ sret => MprvInv'
<1> SUFFICES ASSUME MprvInv, sret PROVE MprvInv'
  OBVIOUS
<1>1. mprv_after(mstatus_q.spp) \in BOOLEAN /\ mstatus_q.spp \in {U, S}
  BY Modes DEF mprv_after, MprvInv, Spike!Mstatus
<1>2. mstatus_q' \in Spike!Mstatus /\ mstatus_q'.mprv = mprv_after(mstatus_q.spp)
  BY <1>1, Modes DEF sret, MprvInv, Spike!Mstatus
<1>3. ~mprv_after(mstatus_q.spp)
  BY <1>1, Modes DEF mprv_after, MprvInv, MprvOnlyInM
<1> QED BY <1>1, <1>2, <1>3, Modes DEF sret, MprvInv, MprvOnlyInM

\* Only machine mode writes mprv.
LEMMA WriteMprv == MprvInv /\ CsrWrite => MprvInv'
<1> SUFFICES ASSUME MprvInv, CsrWrite PROVE MprvInv'
  OBVIOUS
<1>1. CASE priv_lvl_q = M /\ mstatus_q' \in MstatusWrites
  BY <1>1, WritesAssumption DEF CsrWrite, MprvInv, MprvOnlyInM, M
<1>2. CASE \E v \in MstatusWrites : mstatus_q' = [mstatus_q EXCEPT !.sie = v.sie, !.spie = v.spie, !.spp = v.spp]
  <2>1. PICK v \in MstatusWrites : mstatus_q' = [mstatus_q EXCEPT !.sie = v.sie, !.spie = v.spie, !.spp = v.spp]
    BY <1>2
  <2>2. v \in Spike!Mstatus
    BY <2>1, WritesAssumption
  <2>3. mstatus_q' \in Spike!Mstatus /\ mstatus_q'.mprv = mstatus_q.mprv
    BY <2>1, <2>2 DEF MprvInv, Spike!Mstatus
  <2> QED BY <2>3 DEF CsrWrite, MprvInv, MprvOnlyInM, M
<1>3. CASE UNCHANGED mstatus_q
  BY <1>3 DEF CsrWrite, MprvInv, MprvOnlyInM, M
<1> QED BY <1>1, <1>2, <1>3 DEF CsrWrite

\* A step keeps mprv clear outside machine mode.
LEMMA MprvStep == MprvInv /\ [Next]_vars => MprvInv'
<1> SUFFICES ASSUME MprvInv, [Next]_vars PROVE MprvInv'
  OBVIOUS
<1>1. CASE Instruction
  BY <1>1 DEF Instruction, MprvInv, MprvOnlyInM, M
<1>2. CASE Exception
  BY <1>2, TrapMprv DEF Exception
<1>3. CASE Interrupt
  BY <1>3, TrapMprv DEF Interrupt
<1>4. CASE System
  BY <1>4, MretMprv, SretMprv, WriteMprv DEF System
<1>5. CASE UNCHANGED vars
  BY <1>5 DEF vars, regs, MprvInv, MprvOnlyInM, M
<1> QED BY <1>1, <1>2, <1>3, <1>4, <1>5 DEF Next

(* Outside machine mode mprv is clear, in every configuration of the CSR   *)
(* file and after every sequence of traps, returns, interrupts and writes  *)
(* of csr_bsc.sv.                                                          *)
THEOREM MprvConfined == Spec => []MprvOnlyInM
<1>1. MprvInv => MprvOnlyInM
  BY DEF MprvInv
<1> QED BY InitMprv, MprvStep, <1>1, PTL DEF Spec
-----------------------------------------------------------------------------
(* Type correctness.                                                       *)

\* Software does not write the reserved mode to mpp.
LegalWrites == \A v \in MstatusWrites : v.mpp # 2

\* The registers: mpp, where a return goes, holds a mode.
RegsType ==
  /\ conf \in Confs /\ priv_lvl_q \in {0, 1, 3} /\ mstatus_q \in Spike!Mstatus /\ mstatus_q.mpp # 2
  /\ mie_q \in SUBSET Ints
  /\ pc \in Addresses /\ mepc_q \in Addresses /\ sepc_q \in Addresses

\* The registers of the interrupt.
InterruptType ==
  /\ mip_q \in SUBSET Ints /\ chosen_q \in SUBSET Ints /\ chosen \in SUBSET Ints
  /\ interrupt_q \in Ints \cup {0} /\ attached \in Ints \cup {0}
  /\ flush_q \in BOOLEAN /\ (flush_q => attached = 0)

\* Interrupts in the order of their priority, in the core (csr_bsc.sv) and in the
\* simulator (processor.cc).
LEMMA Ranks ==
  /\ Priority[11] = 1 /\ Priority[3] = 2 /\ Priority[7] = 3
  /\ Priority[9] = 4 /\ Priority[1] = 5 /\ Priority[5] = 6 /\ Priority[13] = 7
BY DEF Priority
LEMMA SpikeRanks ==
  /\ Spike!Rank[11] = 1 /\ Spike!Rank[3] = 2 /\ Spike!Rank[7] = 3
  /\ Spike!Rank[9] = 4 /\ Spike!Rank[1] = 5 /\ Spike!Rank[5] = 6 /\ Spike!Rank[13] = 0
BY DEF Spike!Rank

\* There is a first of any interrupts.
LEMMA FirstOfSet ==
  ASSUME NEW set, set \subseteq {1, 3, 5, 7, 9, 11, 13}, set # {}
  PROVE  FirstOf(set) \in set /\ \A j \in set : Priority[FirstOf(set)] <= Priority[j]
<1>1. \E i \in set : \A j \in set : Priority[i] <= Priority[j]
  <2>1. CASE 11 \in set
    BY <2>1, Ranks
  <2>2. CASE 11 \notin set /\ 3 \in set
    BY <2>2, Ranks
  <2>3. CASE 11 \notin set /\ 3 \notin set /\ 7 \in set
    BY <2>3, Ranks
  <2>4. CASE 11 \notin set /\ 3 \notin set /\ 7 \notin set /\ 9 \in set
    BY <2>4, Ranks
  <2>5. CASE 11 \notin set /\ 3 \notin set /\ 7 \notin set /\ 9 \notin set /\ 1 \in set
    BY <2>5, Ranks
  <2>6. CASE 11 \notin set /\ 3 \notin set /\ 7 \notin set /\ 9 \notin set /\ 1 \notin set /\ 5 \in set
    BY <2>6, Ranks
  <2>7. CASE set = {13}
    BY <2>7, Ranks
  <2>8. QED
    BY <2>1, <2>2, <2>3, <2>4, <2>5, <2>6, <2>7
<1>2. QED
  BY <1>1 DEF FirstOf

\* No two interrupts have the same rank: the simulator's first is the only one with its rank.
LEMMA FirstOfUnique ==
  ASSUME NEW set, set \subseteq {1, 3, 5, 7, 9, 11, 13}, NEW i \in set,
         \A j \in set : Spike!Rank[i] <= Spike!Rank[j]
  PROVE  Spike!FirstOf(set) = i
<1> DEFINE f == Spike!FirstOf(set)
<1>1. f \in set /\ \A j \in set : Spike!Rank[f] <= Spike!Rank[j]
  BY DEF Spike!FirstOf
<1> HIDE DEF f
<1>2. f \in {1, 3, 5, 7, 9, 11, 13} /\ i \in {1, 3, 5, 7, 9, 11, 13}
      /\ Spike!Rank[f] <= Spike!Rank[i] /\ Spike!Rank[i] <= Spike!Rank[f]
  BY <1>1
<1>3. f = i
  BY <1>2, SpikeRanks
<1>4. QED
  BY <1>3 DEF f

\* The cause chosen is one of the pending and enabled interrupts.
LEMMA CauseType ==
  ASSUME InterruptType, RegsType
  PROVE  /\ interrupt_cause \in Ints \cup {0}
         /\ interrupt_d => interrupt_cause = FirstOf(mip_q \cap mie_q) /\ mip_q \cap mie_q # {}
<1>1. mip_q \cap mie_q \subseteq Ints
  BY DEF InterruptType
<1>2. mip_q \cap mie_q # {} => FirstOf(mip_q \cap mie_q) \in Ints
  BY <1>1, FirstOfSet, TrapsAssumption
<1>3. QED
  BY <1>2 DEF interrupt_cause, interrupt_d

\* The interrupt registers keep their types.
LEMMA InterruptTypeStep == InterruptType /\ RegsType /\ Next => InterruptType'
<1> SUFFICES ASSUME InterruptType, RegsType, Next PROVE InterruptType'
  OBVIOUS
<1>1. InterruptRegisters /\ ((Attach /\ flush_q' = FALSE) \/ Flush)
  BY DEF Next, Instruction, Exception, Interrupt, System
<1>2. interrupt_q' \in Ints \cup {0} /\ chosen_q' \in SUBSET Ints /\ mip_q' \in SUBSET Ints
  BY <1>1, CauseType DEF InterruptRegisters, InterruptType
<1>3. attached' \in Ints \cup {0} /\ chosen' \in SUBSET Ints
  BY <1>1 DEF Attach, Flush, InterruptType
<1>4. flush_q' \in BOOLEAN /\ (flush_q' => attached' = 0)
  BY <1>1 DEF Flush
<1>5. QED
  BY <1>2, <1>3, <1>4 DEF InterruptType

\* A trap goes to an address of a trap vector and saves where it came from.
LEMMA TrapType ==
  ASSUME RegsType, NEW interrupt, NEW c, interrupt => c \in Nat, Trap(interrupt, c)
  PROVE  RegsType'
<1>1. priv_lvl_q % 2 \in {0, 1}
  BY DEF RegsType
<1>2. trap_vector_base(trap_to_priv_lvl(interrupt, c), interrupt, c) \in Addresses
  <2>1. interrupt => (MTVEC_LO + c) % 64 \in 0 .. 63
    BY TrapsAssumption
  <2>2. QED
    BY <2>1, TrapsAssumption DEF trap_vector_base, Addresses
<1>3. CASE trap_to_priv_lvl(interrupt, c) = S
  <2>1. mstatus_q' = [mstatus_q EXCEPT !.sie = FALSE, !.spie = mstatus_q.sie, !.spp = priv_lvl_q % 2]
    BY <1>3, Modes DEF Trap
  <2>2. mstatus_q' \in Spike!Mstatus /\ mstatus_q'.mpp # 2
    BY <1>1, <2>1, Modes DEF RegsType, Spike!Mstatus
  <2> QED BY <1>2, <1>3, <2>2, Modes DEF Trap, RegsType, Addresses, Code
<1>4. CASE trap_to_priv_lvl(interrupt, c) = M
  <2>1. mstatus_q' = [mstatus_q EXCEPT !.mie = FALSE, !.mpie = mstatus_q.mie, !.mpp = priv_lvl_q]
    BY <1>4, Modes DEF Trap
  <2>2. mstatus_q' = [mie |-> FALSE, mpie |-> mstatus_q.mie, mpp |-> priv_lvl_q, sie |-> mstatus_q.sie,
                      spie |-> mstatus_q.spie, spp |-> mstatus_q.spp, mprv |-> mstatus_q.mprv]
    BY <2>1 DEF RegsType, Spike!Mstatus
  <2>3. priv_lvl_q \in 0 .. 3 /\ priv_lvl_q # 2
    BY DEF RegsType
  <2>4. mstatus_q' \in Spike!Mstatus
    BY <2>2, <2>3 DEF RegsType, Spike!Mstatus
  <2>5. mstatus_q'.mpp # 2
    BY <2>2, <2>3
  <2> QED BY <1>2, <1>4, <2>4, <2>5, Modes DEF Trap, RegsType, Addresses, Code
<1> QED BY <1>3, <1>4 DEF trap_to_priv_lvl

\* What mret writes to mstatus.
LEMMA MretStatus ==
  ASSUME mstatus_q \in Spike!Mstatus, mret
  PROVE  mstatus_q' = [mie |-> mstatus_q.mpie, mpie |-> TRUE, mpp |-> 0, sie |-> mstatus_q.sie,
                       spie |-> mstatus_q.spie, spp |-> mstatus_q.spp, mprv |-> mprv_after(mstatus_q.mpp)]
<1> DEFINE after == mprv_after(mstatus_q.mpp)
<1>1. mstatus_q' = [mstatus_q EXCEPT !.mie = mstatus_q.mpie, !.mpp = 0, !.mpie = TRUE, !.mprv = after]
  BY Modes DEF mret
<1> HIDE DEF after
<1>2. mstatus_q' = [mie |-> mstatus_q.mpie, mpie |-> TRUE, mpp |-> 0, sie |-> mstatus_q.sie,
                    spie |-> mstatus_q.spie, spp |-> mstatus_q.spp, mprv |-> after]
  BY <1>1 DEF Spike!Mstatus
<1> QED BY <1>2 DEF after

\* What sret writes to mstatus.
LEMMA SretStatus ==
  ASSUME mstatus_q \in Spike!Mstatus, sret
  PROVE  mstatus_q' = [mie |-> mstatus_q.mie, mpie |-> mstatus_q.mpie, mpp |-> mstatus_q.mpp, sie |-> mstatus_q.spie,
                       spie |-> TRUE, spp |-> 0, mprv |-> mprv_after(mstatus_q.spp)]
<1> DEFINE after == mprv_after(mstatus_q.spp)
<1>1. mstatus_q' = [mstatus_q EXCEPT !.sie = mstatus_q.spie, !.spp = 0, !.spie = TRUE, !.mprv = after]
  BY Modes DEF sret
<1> HIDE DEF after
<1>2. mstatus_q' = [mie |-> mstatus_q.mie, mpie |-> mstatus_q.mpie, mpp |-> mstatus_q.mpp, sie |-> mstatus_q.spie,
                    spie |-> TRUE, spp |-> 0, mprv |-> after]
  BY <1>1 DEF Spike!Mstatus
<1> QED BY <1>2 DEF after

\* A return goes to a mode, and to where a trap came from.
LEMMA ReturnType ==
  ASSUME RegsType, MprvInv', mret \/ sret
  PROVE  RegsType'
<1>1. mstatus_q \in Spike!Mstatus /\ mstatus_q.mpp \in {0, 1, 3} /\ mstatus_q.spp \in {0, 1} /\ mstatus_q.mpp # 2
  BY DEF RegsType, Spike!Mstatus, Spike!U, Spike!S
<1>2. mstatus_q' \in Spike!Mstatus
  BY DEF MprvInv
<1>3. CASE mret
  <2>1. mstatus_q'.mpp = 0
    BY <1>1, <1>3, MretStatus
  <2> QED BY <1>1, <1>2, <1>3, <2>1 DEF mret, RegsType, Addresses, Code
<1>4. CASE sret
  <2>1. mstatus_q'.mpp = mstatus_q.mpp
    BY <1>1, <1>4, SretStatus
  <2> QED BY <1>1, <1>2, <1>4, <2>1 DEF sret, RegsType, Addresses, Code
<1> QED BY <1>3, <1>4

\* A write puts no reserved mode into mpp when software writes none.
LEMMA WriteType ==
  ASSUME LegalWrites, RegsType, MprvInv', CsrWrite
  PROVE  RegsType'
<1>1. Code \in Addresses /\ Code' \in Addresses'
  BY DEF Addresses, Code
<1>2. mstatus_q' \in Spike!Mstatus
  BY DEF MprvInv
<1>3. mstatus_q'.mpp # 2
  <2>1. CASE mstatus_q' \in MstatusWrites
    BY <2>1 DEF LegalWrites
  <2>2. CASE \E v \in MstatusWrites : mstatus_q' = [mstatus_q EXCEPT !.sie = v.sie, !.spie = v.spie, !.spp = v.spp]
    BY <2>2 DEF RegsType, Spike!Mstatus
  <2>3. CASE UNCHANGED mstatus_q
    BY <2>3 DEF RegsType
  <2> QED BY <2>1, <2>2, <2>3 DEF CsrWrite
<1>4. mie_q' \in SUBSET Ints
  <2>1. CASE \E v \in SUBSET Supervisor : mie_q' = (mie_q \ Supervisor) \cup v
    BY <2>1 DEF RegsType, Supervisor
  <2> QED BY <2>1 DEF CsrWrite, RegsType
<1> QED BY <1>1, <1>2, <1>3, <1>4 DEF CsrWrite, RegsType, Addresses, Code

\* Every step keeps the types of the registers.
LEMMA RegsTypeStep ==
  ASSUME LegalWrites, RegsType, InterruptType, MprvInv', Next
  PROVE  RegsType'
<1>1. CASE Instruction
  BY <1>1 DEF Instruction, RegsType, Addresses, Code
<1>2. CASE Exception
  BY <1>2, TrapType DEF Exception
<1>3. CASE Interrupt
  <2>1. attached \in Nat
    BY TrapsAssumption DEF InterruptType
  <2> QED BY <1>3, <2>1, TrapType DEF Interrupt
<1>4. CASE System
  BY <1>4, ReturnType, WriteType DEF System
<1> QED BY <1>1, <1>2, <1>3, <1>4 DEF Next

\* What a step keeps, taken together.
TypeInv == RegsType /\ InterruptType /\ MprvInv

\* Reset gives the registers values of their types.
LEMMA InitType == Init => TypeInv
<1> SUFFICES ASSUME Init PROVE TypeInv
  OBVIOUS
<1>1. MprvInv
  BY InitMprv
<1>2. RegsType
  BY <1>1, Modes DEF Init, Spike!Init, RegsType, MprvInv, Addresses, Code, Spike!Code
<1>3. InterruptType
  BY DEF Init, InterruptType
<1> QED BY <1>1, <1>2, <1>3 DEF TypeInv

\* TypeInv is inductive.
LEMMA TypeInvStep ==
  ASSUME LegalWrites, TypeInv, [Next]_vars
  PROVE  TypeInv'
<1>1. MprvInv'
  BY MprvStep DEF TypeInv
<1>2. CASE Next
  BY <1>1, <1>2, RegsTypeStep, InterruptTypeStep DEF TypeInv
<1>3. CASE UNCHANGED vars
  <2>1. RegsType'
    BY <1>3 DEF TypeInv, RegsType, vars, regs, Addresses, Code
  <2>2. InterruptType'
    BY <1>3 DEF TypeInv, InterruptType, vars
  <2> QED BY <1>1, <2>1, <2>2 DEF TypeInv
<1> QED BY <1>2, <1>3

(* The CSR file never enters the reserved mode and an emptied pipeline     *)
(* holds no interrupt, when software does not write the reserved mode to   *)
(* mstatus.MPP, which csr_bsc.sv would store as it comes.                  *)
THEOREM TypeCorrect ==
  ASSUME LegalWrites
  PROVE  Spec => []TypeOK
<1>1. TypeInv /\ [Next]_vars => TypeInv'
  BY TypeInvStep
<1>2. TypeInv => TypeOK
  BY Modes DEF TypeInv, RegsType, InterruptType, TypeOK
<1> QED BY InitType, <1>1, <1>2, PTL DEF Spec
-----------------------------------------------------------------------------
(* The reference simulator.                                                *)

\* What software sets up for the CSR file to agree with the simulator: a vectored address
\* does not wrap around; a vectored supervisor handler has the low bits of the machine's.
Matching ==
  /\ LegalWrites
  /\ \A c \in Confs :
       /\ c.mvec => \A i \in Ints : MTVEC_LO + i < 64
       /\ c.svec => STVEC_LO = MTVEC_LO /\ \A i \in Ints : MTVEC_LO + i < 64

\* Interrupt i would be chosen now, were exactly `pending' pending.
Enabled(i, pending) ==
  /\ pending \cap mie_q # {} /\ i = FirstOf(pending \cap mie_q)
  /\ global_enable
  /\ i \in conf.mideleg => (mstatus_q.sie /\ priv_lvl_q = S) \/ priv_lvl_q = U

\* An interrupt on its way was chosen with the registers as they still are: all that
\* changes them empties the pipeline, and interrupt_q is not used in the cycle after.
StillEnabled ==
  /\ attached # 0 => Enabled(attached, chosen)
  /\ interrupt_q # 0 /\ ~flush_q => Enabled(interrupt_q, chosen_q)

\* The interrupt on its way stays enabled until it is taken or flushed.
LEMMA StillEnabledStep ==
  ASSUME TypeInv, StillEnabled, [Next]_vars
  PROVE  StillEnabled'
<1>1. CASE Instruction
  <2>1. UNCHANGED <<conf, priv_lvl_q, mstatus_q, mie_q>>
    BY <1>1 DEF Instruction
  <2>2. attached' # 0 => Enabled(attached, chosen)'
    BY <1>1, <2>1 DEF Instruction, Attach, StillEnabled, Enabled, global_enable, U, S, M
  <2>3. interrupt_q' # 0 => Enabled(interrupt_q, chosen_q)'
    BY <1>1, <2>1, CauseType DEF Instruction, InterruptRegisters, TypeInv, interrupt_d, Enabled, global_enable, U, S, M
  <2> QED BY <2>2, <2>3 DEF StillEnabled
<1>2. CASE Flush
  BY <1>2 DEF Flush, StillEnabled
<1>3. CASE UNCHANGED vars
  BY <1>3 DEF vars, regs, StillEnabled, Enabled, global_enable, U, S, M
<1> QED BY <1>1, <1>2, <1>3 DEF Next, Exception, Interrupt, System

\* A trap is a trap of the simulator.
LEMMA TrapMaps ==
  ASSUME Matching, TypeInv, NEW interrupt \in BOOLEAN, NEW c, interrupt => c \in Ints, Trap(interrupt, c)
  PROVE  Spike!take_trap(interrupt, c)
<1> DEFINE to == trap_to_priv_lvl(interrupt, c)
<1>1. conf \in Confs /\ mstatus_q \in Spike!Mstatus /\ priv_lvl_q \in {0, 1, 3}
  BY DEF TypeInv, RegsType
<1>2. MTVEC_LO \in Nat /\ STVEC_LO \in Nat /\ (interrupt => c \in Nat)
  <2>1. Ints \subseteq Nat /\ MTVEC_LO \in Nat /\ STVEC_LO \in Nat
    BY TrapsAssumption
  <2> QED BY <2>1, Zenon
<1>3. /\ conf.mvec /\ interrupt => (MTVEC_LO + c) % 64 = MTVEC_LO + c
      /\ conf.svec /\ interrupt => (MTVEC_LO + c) % 64 = STVEC_LO + c
  <2>1. /\ conf.mvec /\ interrupt => MTVEC_LO + c < 64
        /\ conf.svec /\ interrupt => MTVEC_LO + c < 64 /\ STVEC_LO = MTVEC_LO
    BY <1>1 DEF Matching
  <2> QED BY <1>2, <2>1
<1>4. CASE to = S
  <2>1. priv_lvl_q # M /\ c \in (IF interrupt THEN conf.mideleg ELSE conf.medeleg)
    BY <1>4, Modes DEF trap_to_priv_lvl
  <2>2. priv_lvl_q % 2 = priv_lvl_q
    BY <1>1, <2>1, Modes
  <2>3. mstatus_q' = [mstatus_q EXCEPT !.spie = mstatus_q.sie, !.spp = priv_lvl_q, !.sie = FALSE]
    <3>1. mstatus_q' = [mstatus_q EXCEPT !.sie = FALSE, !.spie = mstatus_q.sie, !.spp = priv_lvl_q % 2]
      BY <1>4, Modes DEF Trap
    <3> QED BY <1>1, <2>2, <3>1 DEF Spike!Mstatus
  <2>4. pc' = <<"stvec", STVEC_LO + (IF conf.svec /\ interrupt THEN c ELSE 0)>>
    <3>1. pc' = <<"stvec", IF conf.svec /\ interrupt THEN (MTVEC_LO + c) % 64 ELSE STVEC_LO>>
      BY <1>4 DEF Trap, trap_vector_base
    <3> QED BY <1>2, <1>3, <3>1
  <2>5. /\ cause' = <<"scause", interrupt, c>> /\ sepc_q' = pc /\ mepc_q' = mepc_q
        /\ priv_lvl_q' = S
    BY <1>4, Modes DEF Trap
  <2> QED BY <2>1, <2>3, <2>4, <2>5, Modes DEF Spike!take_trap, Spike!Vector
<1>5. CASE to = M
  <2>1. ~(priv_lvl_q # M /\ c \in (IF interrupt THEN conf.mideleg ELSE conf.medeleg))
    BY <1>5, Modes DEF trap_to_priv_lvl
  <2>2. mstatus_q' = [mstatus_q EXCEPT !.mpie = mstatus_q.mie, !.mpp = priv_lvl_q, !.mie = FALSE]
    <3>1. mstatus_q' = [mstatus_q EXCEPT !.mie = FALSE, !.mpie = mstatus_q.mie, !.mpp = priv_lvl_q]
      BY <1>5, Modes DEF Trap
    <3> QED BY <1>1, <3>1 DEF Spike!Mstatus
  <2>3. pc' = <<"mtvec", MTVEC_LO + (IF conf.mvec /\ interrupt THEN c ELSE 0)>>
    <3>1. pc' = <<"mtvec", IF conf.mvec /\ interrupt THEN (MTVEC_LO + c) % 64 ELSE MTVEC_LO>>
      BY <1>5, Modes DEF Trap, trap_vector_base
    <3> QED BY <1>2, <1>3, <3>1
  <2>4. /\ cause' = <<"mcause", interrupt, c>> /\ mepc_q' = pc /\ sepc_q' = sepc_q
        /\ priv_lvl_q' = M
    BY <1>5, Modes DEF Trap
  <2> QED BY <2>1, <2>2, <2>3, <2>4, Modes DEF Spike!take_trap, Spike!Vector
<1> QED BY <1>4, <1>5 DEF trap_to_priv_lvl

\* The interrupt taken is the one the simulator would take, unless one of the two
\* differences in their order shows among the pending ones.
LEMMA InterruptMaps ==
  ASSUME Matching, TypeInv, StillEnabled, Interrupt
  PROVE  Spike!take_interrupt \/ OutOfOrderInterrupt
<1> DEFINE pend == chosen \cap mie_q
<1>1. attached # 0 /\ Trap(TRUE, attached) /\ UNCHANGED <<conf, mie_q>>
  BY DEF Interrupt, Trap
<1>2. Enabled(attached, chosen) /\ Pending = chosen
  BY <1>1 DEF StillEnabled, Pending
<1>3. /\ pend \subseteq Ints /\ pend # {} /\ pend \subseteq {1, 3, 5, 7, 9, 11, 13}
      /\ attached = FirstOf(pend)
  BY <1>2, TrapsAssumption DEF Enabled, TypeInv, InterruptType
<1>4. attached \in pend /\ \A j \in pend : Priority[attached] <= Priority[j]
  BY <1>3, FirstOfSet
<1>5. Spike!take_trap(TRUE, attached)
  BY <1>1, <1>3, <1>4, TrapMaps
<1>6. CASE \E j \in pend : TakenBefore(attached, j)
  BY <1>1, <1>2, <1>4, <1>5, <1>6 DEF OutOfOrderInterrupt, Enabled, global_enable
<1>7. CASE \A j \in pend : ~TakenBefore(attached, j)
  <2> DEFINE m_enabled == IF priv_lvl_q # M \/ mstatus_q.mie THEN pend \ conf.mideleg ELSE {}
             s_enabled == IF priv_lvl_q = U \/ (priv_lvl_q = S /\ mstatus_q.sie) THEN pend \cap conf.mideleg ELSE {}
             enabled == IF m_enabled # {} THEN m_enabled ELSE s_enabled
  <2>1. m_enabled = pend \ conf.mideleg
    BY <1>2 DEF Enabled, global_enable
  <2>2. attached \in enabled /\ \A j \in enabled : j \in pend /\ (attached \in conf.mideleg <=> j \in conf.mideleg)
    <3>1. CASE attached \in conf.mideleg
      <4>1. pend \ conf.mideleg = {}
        BY <1>7, <3>1 DEF TakenBefore
      <4>2. s_enabled = pend \cap conf.mideleg
        BY <1>2, <3>1 DEF Enabled
      <4>3. enabled = pend \cap conf.mideleg
        BY <2>1, <4>1, <4>2
      <4> HIDE DEF enabled, pend
      <4> QED BY <1>4, <3>1, <4>3
    <3>2. CASE attached \notin conf.mideleg
      <4>1. attached \in m_enabled
        BY <1>4, <2>1, <3>2
      <4>2. enabled = pend \ conf.mideleg
        BY <2>1, <4>1
      <4> HIDE DEF enabled, pend
      <4> QED BY <1>4, <3>2, <4>2
    <3> QED BY <3>1, <3>2
  <2>3. Spike!FirstOf(enabled) = attached
    <3> HIDE DEF enabled, pend
    <3>1. ASSUME NEW j \in enabled PROVE Spike!Rank[attached] <= Spike!Rank[j]
      <4>1. /\ attached \in {1, 3, 5, 7, 9, 11, 13} /\ j \in {1, 3, 5, 7, 9, 11, 13}
            /\ Priority[attached] <= Priority[j]
        BY <1>3, <1>4, <2>2
      <4>2. attached = 13 \/ j # 13
        BY <1>7, <2>2 DEF TakenBefore
      <4> QED BY <4>1, <4>2, Ranks, SpikeRanks
    <3> QED BY <1>3, <2>2, <3>1, FirstOfUnique
  <2>4. enabled # {} /\ Spike!take_trap(TRUE, Spike!FirstOf(enabled)) /\ mie_q' = mie_q
    <3> HIDE DEF enabled
    <3> QED BY <1>1, <1>5, <2>2, <2>3
  <2> QED BY <1>2, <2>4, Modes DEF Spike!take_interrupt
<1> QED BY <1>6, <1>7

\* What a return writes, the fields in the simulator's order.
LEMMA ReturnFields ==
  ASSUME NEW r \in Spike!Mstatus, NEW b, NEW m, NEW s,
         m = [r EXCEPT !.mie = r.mpie, !.mpie = TRUE, !.mpp = 0, !.mprv = b],
         s = [r EXCEPT !.sie = r.spie, !.spie = TRUE, !.spp = 0, !.mprv = b]
  PROVE  /\ m = [mie |-> r.mpie, mpie |-> TRUE, mpp |-> 0, sie |-> r.sie, spie |-> r.spie, spp |-> r.spp, mprv |-> b]
         /\ s = [mie |-> r.mie, mpie |-> r.mpie, mpp |-> r.mpp, sie |-> r.spie, spie |-> TRUE, spp |-> 0, mprv |-> b]
<1>1. m = [mie |-> r.mpie, mpie |-> TRUE, mpp |-> 0, sie |-> r.sie, spie |-> r.spie, spp |-> r.spp, mprv |-> b]
  BY DEF Spike!Mstatus
<1>2. s = [mie |-> r.mie, mpie |-> r.mpie, mpp |-> r.mpp, sie |-> r.spie, spie |-> TRUE, spp |-> 0, mprv |-> b]
  BY DEF Spike!Mstatus
<1> QED BY <1>1, <1>2

\* A return is the simulator's; sret clears mprv, which below machine mode is clear.
LEMMA ReturnMaps ==
  ASSUME TypeInv
  PROVE  (mret => Spike!mret) /\ (sret => Spike!sret)
<1>1. mstatus_q \in Spike!Mstatus /\ priv_lvl_q \in {0, 1, 3} /\ mstatus_q.mprv \in BOOLEAN /\ mstatus_q.spp \in {0, 1}
  BY Modes DEF TypeInv, RegsType, Spike!Mstatus
<1>2. ASSUME mret PROVE Spike!mret
  <2> DEFINE after == mprv_after(mstatus_q.mpp)
             spike == mstatus_q.mprv /\ mstatus_q.mpp = 3
  <2>1. after = spike
    BY <1>2, Modes DEF mprv_after, mret
  <2>2. mstatus_q' = [mie |-> mstatus_q.mpie, mpie |-> TRUE, mpp |-> 0, sie |-> mstatus_q.sie,
                      spie |-> mstatus_q.spie, spp |-> mstatus_q.spp, mprv |-> spike]
    BY <1>1, <1>2, <2>1, MretStatus
  <2> HIDE DEF after, spike
  <2>3. mstatus_q' = [mstatus_q EXCEPT !.mie = mstatus_q.mpie, !.mpie = TRUE, !.mpp = 0, !.mprv = spike]
    BY <1>1, <2>2, ReturnFields
  <2>4. mstatus_q' = [mstatus_q EXCEPT !.mie = mstatus_q.mpie, !.mpie = TRUE, !.mpp = 0,
                      !.mprv = @ /\ mstatus_q.mpp = 3]
    BY <2>3 DEF spike
  <2> QED BY <1>2, <2>4, Modes DEF mret, Spike!mret
<1>3. ASSUME sret PROVE Spike!sret
  <2>1. mprv_after(mstatus_q.spp) = FALSE
    BY <1>1, <1>3, Modes DEF mprv_after, sret, TypeInv, MprvInv, MprvOnlyInM
  <2>2. mstatus_q' = [mie |-> mstatus_q.mie, mpie |-> mstatus_q.mpie, mpp |-> mstatus_q.mpp, sie |-> mstatus_q.spie,
                      spie |-> TRUE, spp |-> 0, mprv |-> FALSE]
    BY <1>1, <1>3, <2>1, SretStatus
  <2>3. mstatus_q' = [mstatus_q EXCEPT !.sie = mstatus_q.spie, !.spie = TRUE, !.spp = 0, !.mprv = FALSE]
    BY <1>1, <2>2, ReturnFields
  <2>4. priv_lvl_q = 3 \/ (priv_lvl_q = 1 /\ ~conf.tsr)
    BY <1>1, <1>3, Modes DEF sret
  <2> QED BY <1>3, <2>3, <2>4, Modes DEF sret, Spike!sret
<1> QED BY <1>2, <1>3

\* A write is the simulator's: it writes no reserved mode; one of sie may reach further.
LEMMA WriteMaps ==
  ASSUME Matching, TypeInv, CsrWrite
  PROVE  Spike!write_mstatus \/ Spike!write_sstatus \/ Spike!write_mie \/ Spike!write_sie \/ WideSieWrite
<1>1. /\ pc' = Spike!Code /\ UNCHANGED <<conf, priv_lvl_q, mepc_q, sepc_q, cause>>
      /\ priv_lvl_q \in {0, 1, 3} /\ conf \in Confs
  BY DEF CsrWrite, Code, Spike!Code, TypeInv, RegsType
<1>2. CASE priv_lvl_q = M /\ mstatus_q' \in MstatusWrites /\ UNCHANGED mie_q
  <2>1. mstatus_q' \in Spike!Mstatus /\ mstatus_q'.mpp # 2
    BY <1>2, WritesAssumption DEF Matching, LegalWrites
  <2>2. mstatus_q' = [mstatus_q' EXCEPT !.mpp = Spike!legalize_privilege(@)]
    BY <2>1 DEF Spike!Mstatus, Spike!legalize_privilege
  <2> QED BY <1>1, <1>2, <2>2, Modes DEF Spike!write_mstatus
<1>3. CASE /\ priv_lvl_q >= S /\ UNCHANGED mie_q
           /\ \E v \in MstatusWrites : mstatus_q' = [mstatus_q EXCEPT !.sie = v.sie, !.spie = v.spie, !.spp = v.spp]
  <2>1. priv_lvl_q # Spike!U
    BY <1>1, <1>3, Modes
  <2> QED BY <1>1, <1>3, <2>1 DEF Spike!write_sstatus
<1>4. CASE priv_lvl_q = M /\ mie_q' \in SUBSET Ints /\ UNCHANGED mstatus_q
  BY <1>1, <1>4, Modes DEF Spike!write_mie
<1>5. CASE /\ priv_lvl_q >= S /\ UNCHANGED mstatus_q
           /\ \E v \in SUBSET Supervisor : mie_q' = (mie_q \ Supervisor) \cup v
  <2>1. PICK v \in SUBSET Supervisor : mie_q' = (mie_q \ Supervisor) \cup v
    BY <1>5
  <2>2. priv_lvl_q # U
    BY <1>1, <1>5, Modes
  <2>3. CASE conf.mideleg = Supervisor
    BY <1>1, <1>5, <2>1, <2>2, <2>3, Modes DEF Spike!write_sie
  <2>4. CASE conf.mideleg # Supervisor
    BY <1>1, <1>5, <2>2, <2>4 DEF WideSieWrite, Code, Spike!Code
  <2> QED BY <2>3, <2>4
<1> QED BY <1>2, <1>3, <1>4, <1>5 DEF CsrWrite

(* When no reserved mode is written and no vectored address wraps around,  *)
(* every trap, return, interrupt and write of the CSR file (csr_bsc.sv) is *)
(* one of the reference simulator (processor.cc, csrs.cc), although an     *)
(* interrupt is taken cycles after it was chosen, when others may be       *)
(* pending: for every delegation, with the two steps that                  *)
(* ImplementsSpike names as the only exceptions.                           *)
THEOREM RefinesSpike ==
  ASSUME Matching
  PROVE  Spec => ImplementsSpike
<1> DEFINE Inv == TypeInv /\ StillEnabled
           SpikeNext == Spike!Next \/ OutOfOrderInterrupt \/ WideSieWrite
<1>1. Init => Inv /\ Spike!Init
  <2>1. Init => StillEnabled
    BY DEF Init, StillEnabled
  <2> QED BY <2>1, InitType DEF Init
<1>2. Inv /\ [Next]_vars => Inv'
  BY TypeInvStep, StillEnabledStep DEF Matching
<1>3. Inv /\ [Next]_vars => [SpikeNext]_regs
  <2> SUFFICES ASSUME Inv, [Next]_vars PROVE SpikeNext \/ UNCHANGED regs
    OBVIOUS
  <2>1. CASE Instruction
    <3>1. CASE pc' = pc
      BY <2>1, <3>1 DEF Instruction, regs
    <3>2. CASE pc' = Code
      <4>1. Spike!Execute
        BY <2>1, <3>2 DEF Instruction, Spike!Execute, Code, Spike!Code
      <4> QED BY <2>1, <4>1 DEF Instruction, Spike!Next
    <3> QED BY <2>1, <3>1, <3>2 DEF Instruction
  <2>2. CASE Exception
    <3>1. PICK c \in Faults \cup {8 + priv_lvl_q} : Trap(FALSE, c)
      BY <2>2 DEF Exception
    <3>2. Spike!take_trap(FALSE, c)
      BY <3>1, TrapMaps
    <3>3. UNCHANGED <<conf, mie_q>>
      BY <3>1 DEF Trap
    <3>4. Spike!Exception
      BY <3>2, <3>3 DEF Spike!Exception
    <3> QED BY <3>3, <3>4 DEF Spike!Next
  <2>3. CASE Interrupt
    <3>1. Spike!take_interrupt \/ OutOfOrderInterrupt
      BY <2>3, InterruptMaps
    <3> QED BY <2>3, <3>1 DEF Interrupt, Trap, Spike!Next
  <2>4. CASE System
    <3>1. conf' = conf
      BY <2>4 DEF System, mret, sret, CsrWrite
    <3> QED BY <2>4, <3>1, ReturnMaps, WriteMaps DEF System, Spike!Next
  <2>5. CASE UNCHANGED vars
    BY <2>5 DEF vars, regs
  <2> QED BY <2>1, <2>2, <2>3, <2>4, <2>5 DEF Next
<1> QED BY <1>1, <1>2, <1>3, PTL DEF Spec, ImplementsSpike
=============================================================================
