-------------------------------- MODULE Isa ---------------------------------
(***************************************************************************)
(* What the pipeline promises: the instructions of a program, one at a     *)
(* time, in program order, each with its whole effect or with a trap and   *)
(* none.  The subset of the instruction set is the one that exercises the  *)
(* pipeline's control (instr_type_t of drac_pkg.sv, by class); machine     *)
(* mode only.  Words and addresses are small numbers; an instruction takes *)
(* one address.                                                            *)
(***************************************************************************)
EXTENDS Naturals

CONSTANTS
  N,        \* program addresses 0 .. N-1; words are in the same range
  PBUF,     \* addresses of the debug program buffer follow: N .. N+PBUF-1
  EVEC      \* the trap vector

Word == 0 .. N-1
Addr == 0 .. N+PBUF-1
Reg  == 0 .. 2

\* The address after p.  What is behind the program buffer is as its last instruction.
Succ(p) == IF p < N THEN (p+1) % N ELSE IF p+1 < N+PBUF THEN p+1 ELSE p

\* illmem: an illegal encoding under the opcode of a load or a store; ifault, ipf:
\* fetch that faults; fault: an access that faults; badjump: a jump to a
\* misaligned address; csrstep: the debugger's write of dcsr.step.
MemOps   == {"load", "store", "fault", "illmem"}
TrapOps  == {"fault", "illegal", "illmem", "ifault", "ipf", "badjump", "ecall", "ebreak", "csrstep"}
CsrOps   == {"csrmepc", "csrmie", "csrstep"}
JumpOps  == {"branch", "jalr", "badjump"}
WriteOps == {"alu", "div", "load", "jal", "jalr"} \cup CsrOps
Ops == MemOps \cup TrapOps \cup CsrOps \cup JumpOps \cup WriteOps \cup {"mret", "fence", "wfi"}

Instr == [op : Ops, rd : Reg, rs1 : Reg, rs2 : Reg, tgt : Word]

\* The ALU stands for any function of its operands; the divider divides.
Alu(a, b)  == (a + b + 1) % N
Quot(a, b) == IF b = 0 THEN N-1 ELSE a \div b
Taken(i, a, b) == i.op \in {"jalr", "badjump"} \/ (i.op = "branch" /\ a = b)
Target(i, a) == IF i.op = "jalr" THEN a ELSE i.tgt
-----------------------------------------------------------------------------
VARIABLES prog, pc, x, mem, mepc, mie, mpie

isaVars == <<prog, pc, x, mem, mepc, mie, mpie>>

Init ==
  /\ pc = 0
  /\ x = [r \in Reg |-> 0]
  /\ mem = 0
  /\ mepc = 0 /\ mie = FALSE /\ mpie = FALSE

Result(i) ==
  CASE i.op = "alu"     -> Alu(x[i.rs1], x[i.rs2])
    [] i.op = "div"     -> Quot(x[i.rs1], x[i.rs2])
    [] i.op = "load"    -> mem
    [] i.op = "csrmepc" -> mepc
    [] i.op = "csrmie"  -> IF mie THEN 1 ELSE 0
    [] OTHER            -> Succ(pc)

\* The instruction at pc is executed.
Execute ==
  LET i == prog[pc]
      a == x[i.rs1]
  IN  /\ i.op \notin TrapOps
      /\ pc' = CASE i.op = "mret" -> mepc
                 [] i.op = "jal"  -> i.tgt
                 [] OTHER         -> IF Taken(i, a, x[i.rs2]) THEN Target(i, a) ELSE Succ(pc)
      /\ x' = IF i.op \in WriteOps /\ i.rd # 0 THEN [x EXCEPT ![i.rd] = Result(i)] ELSE x
      /\ mem' = IF i.op = "store" THEN x[i.rs2] ELSE mem
      /\ mepc' = IF i.op = "csrmepc" THEN a ELSE mepc
      /\ mie' = CASE i.op = "csrmie" -> a # 0
                  [] i.op = "mret"   -> mpie
                  [] OTHER           -> mie
      /\ mpie' = (mpie \/ i.op = "mret")
      /\ UNCHANGED prog

Enter ==
  /\ mepc' = pc
  /\ mpie' = mie
  /\ mie' = FALSE
  /\ pc' = EVEC
  /\ UNCHANGED <<prog, x, mem>>

Trap == prog[pc].op \in TrapOps /\ Enter

\* An interrupt, whenever interrupts are enabled.
Interrupt == mie /\ Enter

Next == Execute \/ Trap \/ Interrupt
Spec == Init /\ [][Next]_isaVars
=============================================================================
