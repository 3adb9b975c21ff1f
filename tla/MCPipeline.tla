----------------------------- MODULE MCPipeline -----------------------------
(***************************************************************************)
(* Programs for TLC.  A program starts at address 0 and wraps around; the  *)
(* instruction before the program buffer is the trap handler.              *)
(***************************************************************************)
EXTENDS Pipeline, Sequences, TLC

I(o, rd, rs1, rs2, tgt) == [op |-> o, rd |-> rd, rs1 |-> rs1, rs2 |-> rs2, tgt |-> tgt]
Plain(o) == I(o, 0, 0, 0, 0)

One     == I("alu", 1, 0, 0, 0)
Inc     == I("alu", 1, 1, 0, 0)
Two     == I("alu", 2, 1, 0, 0)
Divide  == I("div", 1, 2, 1, 0)
Load    == I("load", 1, 0, 0, 0)
Store   == I("store", 0, 0, 1, 0)
Branch  == I("branch", 0, 1, 2, 0)
Jal     == I("jal", 2, 0, 0, 2)
Jalr    == I("jalr", 2, 1, 0, 0)
BadJump == I("badjump", 0, 0, 0, 1)
CsrMie  == I("csrmie", 2, 1, 0, 0)
CsrMepc == I("csrmepc", 2, 1, 0, 0)

Body == {Inc, Two, Divide, Load, Store, Branch, Jal, Jalr, CsrMie}
        \cup {Plain(o) : o \in {"fault", "illmem", "ecall"}}
Rare == {CsrMepc, BadJump} \cup {Plain(o) : o \in {"fence", "wfi", "ifault", "ipf", "illegal", "ebreak", "mret"}}

Program(seq) == [a \in 0 .. Len(seq)-1 |-> seq[a+1]]

\* The program buffer ends, or toggles dcsr.step and ends.
Ends  == <<Plain("ebreak"), Plain("ebreak")>>
Steps == <<Plain("csrstep"), Plain("ebreak")>>

\* Pairs of instructions, without and with interrupts.
Run(a, b, c, buf) == Program(<<One, a, b, c, Plain("mret")>> \o buf)
Pairs == {Run(a, b, Two, Ends) : a \in Body, b \in Body \ {Inc, Two, Jalr, CsrMie, Plain("illmem")}}
         \cup {Run(a, b, Two, Ends) : a \in Rare, b \in {Load, Store, Branch, Plain("fault")}}
         \cup {Run(a, Divide, Two, Ends) : a \in {BadJump, Plain("fence"), Plain("illegal")}}
Interrupted == {Run(CsrMie, a, b, Ends) : a \in Body \ {Inc, Jalr}, b \in {Divide, Load, Branch, Plain("ecall")}}
Stepped == {Run(Divide, Branch, Two, Steps)} \cup {Run(a, Store, Two, Steps) : a \in {Load, Jal, CsrMepc}}

\* A division behind an instruction that traps, and one with other operands in the handler.
Quotients == {Program(<<One, a, I("div", 1, 0, 1, 0), Store, I("div", 2, 1, 1, 0)>> \o Ends) :
                a \in {Plain("fault"), Plain("illegal")}}

AllPrograms == Pairs \cup Interrupted \cup Stepped \cup Quotients

\* Code without jumps, traps or serialising instructions.
Straight == {Program(<<One, Inc, Inc, Inc, Two, Plain("mret"), Plain("ebreak")>>)}
=============================================================================
