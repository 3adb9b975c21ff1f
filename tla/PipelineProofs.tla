--------------------------- MODULE PipelineProofs ---------------------------
(***************************************************************************)
(* Proofs about the pipeline, for every program: only what is written back *)
(* changes memory, a single step is one instruction, and the pipeline      *)
(* implements the instruction set.                                         *)
(***************************************************************************)
EXTENDS Pipeline, TLAPS

Faulting(s) == op(s) \in {"ifault", "ipf"}

\* The instruction in IF2 has gone on to ID and will not do so again.
Spent == if2.v /\ ~if2.asked /\ ~resp_q /\ op(if2) # "ifault"
Past == id.v \/ rr.v \/ exe.v \/ wb.v

\* Nothing follows a serialising instruction past ID.
Serial ==
  /\ stall_csr_fence(rr) => ~if2.v /\ ~id.v
  /\ stall_csr_fence(exe) => ~if2.v /\ ~id.v /\ ~rr.v
  /\ stall_csr_fence(wb) => ~if2.v /\ ~id.v /\ ~rr.v /\ ~exe.v

\* When fetch is redirected, IF2 alone may hold an instruction, unless an ebreak ended
\* the program buffer and others follow it.
Redirect ==
  /\ csr_enable_q => ~Past
  /\ exception_enable_q => ~Past \/ state_debug_q = "HALTED"

\* A core that waits for an interrupt is empty.
Waits == wfi_q => ~if2.v /\ ~Past

\* The states of the debugger and what the pipeline then holds.
DebugInv ==
  /\ state_debug_q \in DebugState
  /\ state_debug_q \in {"RESET", "HAVERESET"} => ~if2.v /\ ~Past /\ ~debug_mode_en_q /\ ~step_q
  /\ state_debug_q = "RESUME" => ~Past /\ (debug_mode_en_q => ~if2.v)
  /\ state_debug_q = "HALTED" /\ ~exception_enable_q => ~Past /\ ~if2.v
  /\ state_debug_q \in {"HALTED", "PROGBUFF"} => debug_mode_en_q
  /\ state_debug_q \in {"RUNNING", "HALTING"} /\ debug_mode_en_q => debug_ebreak_q
  /\ debug_ebreak_q => debug_mode_en_q /\ state_debug_q \in {"RUNNING", "HALTING", "PROGBUFF", "HALTED"}
  /\ debug_ebreak_q /\ state_debug_q \in {"RUNNING", "HALTING"} =>
       /\ ~Past /\ (if2.v => Spent)
       /\ \/ exception_enable_q \/ csr_enable_q \/ state_debug_q = "HALTING"
          \/ state_debug_q = "RUNNING" /\ step_inst_in_pipeline

OlderFault == (rr.v => Faulting(rr)) /\ (exe.v => Faulting(exe)) /\ (wb.v => Faulting(wb))

\* A core that is stepped holds one instruction, or copies of one that fetch cannot
\* deliver, and fetches no other.
StepInv ==
  step_q /\ ~debug_mode_en_q =>
    /\ state_debug_q = "RUNNING" /\ id.v => if2.v
    /\ state_debug_q = "RUNNING" /\ (rr.v \/ exe.v \/ wb.v) => step_inst_in_pipeline
    /\ if2.v => Spent \/ ((id.v => Faulting(id)) /\ OlderFault)
    /\ id.v => OlderFault
    /\ rr.v => (exe.v => Faulting(exe)) /\ (wb.v => Faulting(wb))
    /\ exe.v /\ wb.v => Faulting(wb)

\* An instruction that fetch cannot deliver traps.
TrapInv == wb.v /\ Faulting(wb) => wb.xcpt

\* What the memory of an answer says of IF2.
FetchInv ==
  /\ if2 = [v |-> if2.v, pc |-> if2.pc, asked |-> if2.asked]
  /\ if2.v /\ resp_q /\ op(if2) # "ipf" => ~if2.asked

ControlInv == Serial /\ Redirect /\ Waits /\ DebugInv /\ StepInv /\ FetchInv /\ TrapInv

Performed == exe.v /\ op(exe) = "store" /\ mem_state
Stored == wb.v /\ op(wb) = "store"
MemInv ==
  /\ mem_state => exe.v /\ unit_mem(exe) /\ op(exe) # "fault" /\ ~wb.v
  /\ Stored => ~wb.xcpt /\ mem = wb.res
  /\ Performed => mem = exe.b
  /\ ~Performed /\ ~Stored => mem = amem
-----------------------------------------------------------------------------
(* What a cycle does to each stage.                                        *)

\* What the environment may do in a cycle.
Input(in) ==
  /\ in.resp => if2.v /\ if2.asked
  /\ in.dbg \in {"resume", "progbuf"} => state_debug_q = "HALTED" /\ settled
  /\ in.dbg = "halt" => state_debug_q = "RUNNING" /\ "halt" \in DEBUG
  /\ in.irq => IRQ
  /\ if2.v /\ ~(in.resp /\ op(if2) = "ipf") => in.ready

\* A step is a cycle with an input, or nothing happens.
LEMMA StepIsCycle ==
  ASSUME [Next]_vars
  PROVE  (\E in : Input(in) /\ Cycle(in)) \/ UNCHANGED vars
<1>1. ASSUME NEW resp \in Resps, NEW m \in Mems, NEW irq \in Irqs, NEW ghost \in Ghosts, NEW dbg \in Dbgs,
             NEW ready \in Readys(resp),
             Cycle([resp |-> resp, ready |-> ready, mem |-> m, irq |-> irq, ghost |-> ghost, dbg |-> dbg])
      PROVE  \E in : Input(in) /\ Cycle(in)
  <2> DEFINE in == [resp |-> resp, ready |-> ready, mem |-> m, irq |-> irq, ghost |-> ghost, dbg |-> dbg]
  <2>1. in.resp = resp /\ in.dbg = dbg /\ in.irq = irq /\ in.ready = ready
    OBVIOUS
  <2>2. resp => if2.v /\ if2.asked
    BY DEF Resps
  <2>3. /\ dbg \in {"resume", "progbuf"} => state_debug_q = "HALTED" /\ settled
        /\ dbg = "halt" => state_debug_q = "RUNNING" /\ "halt" \in DEBUG
    BY DEF Dbgs
  <2>4. (irq => IRQ) /\ (if2.v /\ ~(resp /\ op(if2) = "ipf") => ready)
    BY DEF Irqs, Readys
  <2>5. Input(in)
    BY <2>1, <2>2, <2>3, <2>4 DEF Input
  <2>6. Cycle(in)
    BY <1>1
  <2> QED BY <2>5, <2>6
<1> QED BY <1>1 DEF Next, ClockCycle

\* The stages a cycle holds: all up to one.
held_if1(in) ==
  \/ csr_stall \/ exe_stall(in) \/ data_dependency(in) \/ miss_icache(in) \/ stall_csr_fence(wb) \/ ~in.ready
  \/ step_inst_in_pipeline \/ on_halt_state(in) \/ step_inst_in_if2
held_id(in) == csr_stall \/ exe_stall(in) \/ data_dependency(in)

\* The stages that are stalled.
LEMMA Holds ==
  ASSUME NEW in
  PROVE  /\ "if1" \in stalled(in) <=> held_if1(in)
         /\ "if2" \in stalled(in) <=> held_id(in) \/ miss_icache(in)
         /\ "id" \in stalled(in) <=> held_id(in)
         /\ "rr" \in stalled(in) <=> csr_stall \/ exe_stall(in)
         /\ "exe" \in stalled(in) <=> csr_stall
BY DEF stalled, held_if1, held_id

\* The stages a cycle empties: all from one on.
flush_if(in) ==
  \/ flush_exe \/ mispredict
  \/ /\ serialising \/ (stall_csr_fence(rr) /\ ~data_dependency(in)) \/ step_inst_in_pipeline \/ valid_jal
        \/ (wb.v /\ op(wb) = "fence")
     /\ ~held_id(in)

\* The stages that are flushed.
LEMMA Flushes ==
  ASSUME NEW in
  PROVE  /\ "if" \in flushed(in) <=> flush_if(in)
         /\ "id" \in flushed(in) <=> flush_exe \/ mispredict
         /\ "rr" \in flushed(in) <=> flush_exe \/ mispredict
         /\ "exe" \in flushed(in) <=> flush_exe
BY DEF flushed, flush_if, flush_exe, held_id

\* What write-back holds next is what it held, or what leaves EXE.
LEMMA WbNext ==
  ASSUME NEW in, Cycle(in), wb'.v
  PROVE  /\ ~flush_exe
         /\ \/ csr_stall /\ wb' = wb
            \/ /\ ~csr_stall /\ exe.v /\ ~exe_stall(in)
               /\ wb' = [v |-> TRUE, pc |-> exe.pc, res |-> exe_result, xcpt |-> exe_xcpt]
BY Holds, Flushes DEF Cycle, StageCycle, Register, WbBubble

\* What EXE holds next is what it held, or what leaves RR.
LEMMA ExeNext ==
  ASSUME NEW in, Cycle(in), exe'.v
  PROVE  /\ ~flush_exe /\ ~mispredict
         /\ \/ (csr_stall \/ exe_stall(in)) /\ exe' = exe
            \/ ~csr_stall /\ ~exe_stall(in) /\ rr.v /\ ~data_dependency(in) /\ exe'.pc = rr.pc
BY Holds, Flushes DEF Cycle, StageCycle, Register, ExeBubble

\* What RR holds next is what it held, or what leaves ID.
LEMMA RrNext ==
  ASSUME NEW in, Cycle(in), rr'.v
  PROVE  /\ ~flush_exe /\ ~mispredict
         /\ \/ held_id(in) /\ rr' = rr
            \/ ~held_id(in) /\ rr' = id
BY Holds, Flushes DEF Cycle, StageCycle, Register, Bubble

\* IF2 delivers its instruction.
answered(in) == if2.v /\ (in.resp \/ op(if2) = "ifault" \/ resp_q)

\* What ID holds next is what it held, or what IF2 delivers.
LEMMA IdNext ==
  ASSUME NEW in, Cycle(in), id'.v
  PROVE  /\ ~flush_if(in)
         /\ \/ held_id(in) /\ id' = id
            \/ ~held_id(in) /\ answered(in) /\ id'.pc = if2.pc
BY Holds, Flushes DEF Cycle, FetchCycle, Register, Bubble, answered

\* What IF2 holds next is what it held, or the address IF1 asked for.
LEMMA If2Next ==
  ASSUME NEW in, Cycle(in), FetchInv, if2'.v
  PROVE  /\ ~flush_if(in)
         /\ \/ /\ held_if1(in) /\ if2.v /\ if2'.pc = if2.pc
               /\ if2'.asked = (if2.asked /\ (~in.resp \/ op(if2) = "ipf"))
            \/ ~held_if1(in) /\ ~parked /\ ~retry_fetch /\ if2'.pc = pc
         /\ if2' = [v |-> TRUE, pc |-> if2'.pc, asked |-> if2'.asked]
<1>1. ~flush_if(in)
  BY Flushes DEF Cycle, FetchCycle, Register, If2Bubble
<1>2. CASE held_if1(in)
  <2>1. if2' = [if2 EXCEPT !.asked = @ /\ (~in.resp \/ op(if2) = "ipf")]
    BY <1>1, <1>2, Holds, Flushes DEF Cycle, FetchCycle, Register
  <2> QED BY <1>1, <1>2, <2>1 DEF FetchInv
<1>3. CASE ~held_if1(in)
  BY <1>1, <1>3, Holds, Flushes DEF Cycle, FetchCycle, Register, If2Bubble
<1> QED BY <1>2, <1>3

-----------------------------------------------------------------------------
(* The control of the pipeline.                                            *)

\* When nothing but an instruction that was delivered is in the pipeline, nothing
\* goes on to ID.
LEMMA EmptyStays ==
  ASSUME NEW in, Input(in), Cycle(in), ~Past, if2.v => Spent
  PROVE  ~Past'
<1>1. ~id.v /\ ~rr.v /\ ~exe.v /\ ~wb.v /\ ~answered(in)
  BY DEF Past, Spent, answered, Input
<1>2. ~id'.v
  BY <1>1, IdNext
<1>3. ~rr'.v
  BY <1>1, RrNext
<1>4. ~exe'.v
  BY <1>1, ExeNext
<1>5. ~wb'.v
  BY <1>1, WbNext
<1> QED BY <1>2, <1>3, <1>4, <1>5 DEF Past

\* Debug mode is left when the pipeline is empty.
LEMMA ModeLeft ==
  ASSUME NEW in, Input(in), Cycle(in), ControlInv, Past', ~debug_mode_en_q'
  PROVE  ~debug_mode_en_q
<1> SUFFICES ASSUME debug_mode_en_q PROVE FALSE
  OBVIOUS
<1>1. state_debug_q = "RESUME"
  BY DEF Cycle, CsrCycle, resume_ack
<1>2. ~Past /\ ~if2.v
  BY <1>1 DEF ControlInv, DebugInv
<1> QED BY <1>2, EmptyStays

\* A serialising instruction is followed by none when it moves on.
LEMMA SerialStep ==
  ASSUME NEW in, Input(in), Cycle(in), ControlInv
  PROVE  Serial'
<1>1. prog' = prog /\ Serial /\ Waits /\ FetchInv
  BY DEF Cycle, ControlInv
<1>2. ASSUME stall_csr_fence(rr)' PROVE ~if2'.v /\ ~id'.v
  <2>1. rr'.v /\ (~debug_mode_en_q' => ~debug_mode_en_q)
    BY <1>2, ModeLeft DEF stall_csr_fence, EnvOps, Past
  <2>2. CASE held_id(in) /\ rr' = rr
    <3>1. stall_csr_fence(rr)
      BY <1>1, <1>2, <2>1, <2>2 DEF stall_csr_fence, EnvOps, op, Arch!CsrOps
    <3>2. ~if2.v /\ ~id.v /\ held_if1(in)
      BY <1>1, <2>2, <3>1 DEF Serial, held_id, held_if1
    <3> QED BY <1>1, <2>2, <3>2, If2Next, IdNext
  <2>3. CASE ~held_id(in) /\ rr' = id
    <3>1. stall_csr_fence(id)
      BY <1>1, <1>2, <2>1, <2>3 DEF stall_csr_fence, EnvOps, op, Arch!CsrOps
    <3>2. flush_if(in)
      BY <2>3, <3>1 DEF flush_if, serialising
    <3> QED BY <1>1, <3>2, If2Next, IdNext
  <2> QED BY <2>1, <2>2, <2>3, RrNext
<1>3. ASSUME stall_csr_fence(exe)' PROVE ~if2'.v /\ ~id'.v /\ ~rr'.v
  <2>1. exe'.v /\ (~debug_mode_en_q' => ~debug_mode_en_q)
    BY <1>3, ModeLeft DEF stall_csr_fence, EnvOps, Past
  <2>2. CASE (csr_stall \/ exe_stall(in)) /\ exe' = exe
    <3>1. stall_csr_fence(exe)
      BY <1>1, <1>3, <2>1, <2>2 DEF stall_csr_fence, EnvOps, op, Arch!CsrOps
    <3>2. ~if2.v /\ ~id.v /\ ~rr.v /\ held_if1(in) /\ held_id(in)
      BY <1>1, <2>2, <3>1 DEF Serial, held_id, held_if1
    <3> QED BY <1>1, <3>2, If2Next, IdNext, RrNext
  <2>3. CASE ~csr_stall /\ ~exe_stall(in) /\ rr.v /\ ~data_dependency(in) /\ exe'.pc = rr.pc
    <3>1. stall_csr_fence(rr)
      BY <1>1, <1>3, <2>1, <2>3 DEF stall_csr_fence, EnvOps, op, Arch!CsrOps
    <3>2. flush_if(in) /\ ~held_id(in) /\ ~id.v
      BY <1>1, <2>3, <3>1 DEF flush_if, held_id, Serial
    <3> QED BY <1>1, <3>2, If2Next, IdNext, RrNext
  <2> QED BY <2>1, <2>2, <2>3, ExeNext
<1>4. ASSUME stall_csr_fence(wb)' PROVE ~if2'.v /\ ~id'.v /\ ~rr'.v /\ ~exe'.v
  <2>1. wb'.v /\ (~debug_mode_en_q' => ~debug_mode_en_q)
    BY <1>4, ModeLeft DEF stall_csr_fence, EnvOps, Past
  <2>2. ~csr_stall /\ ~exe_stall(in) /\ exe.v /\ wb'.pc = exe.pc
    <3>1. csr_stall => ~wb.v
      BY <1>1 DEF Waits, Past, csr_stall
    <3> QED BY <2>1, <3>1, WbNext
  <2>3. stall_csr_fence(exe)
    BY <1>1, <1>4, <2>1, <2>2 DEF stall_csr_fence, EnvOps, op, Arch!CsrOps
  <2>4. ~if2.v /\ ~id.v /\ ~rr.v
    BY <1>1, <2>3 DEF Serial
  <2>5. flush_if(in) \/ held_if1(in)
    BY <2>3 DEF flush_if, held_if1, held_id, serialising
  <2> QED BY <1>1, <2>2, <2>4, <2>5, If2Next, IdNext, RrNext, ExeNext DEF answered
<1> QED BY <1>2, <1>3, <1>4 DEF Serial

\* What a flush of all stages leaves.
LEMMA FlushEmpties ==
  ASSUME NEW in, Cycle(in), flush_exe, FetchInv
  PROVE  ~Past' /\ ~if2'.v
<1>1. flush_if(in)
  BY DEF flush_if
<1> QED BY <1>1, If2Next, IdNext, RrNext, ExeNext, WbNext DEF Past

\* The instruction in write-back moves on, and none follows a serialising one.
LEMMA SerialWbEmpties ==
  ASSUME NEW in, Input(in), Cycle(in), ControlInv, stall_csr_fence(wb)
  PROVE  ~Past' /\ ~if2'.v /\ ~csr_stall
<1>1. Serial /\ Waits /\ FetchInv
  BY DEF ControlInv
<1>2. ~if2.v /\ ~id.v /\ ~rr.v /\ ~exe.v /\ ~csr_stall
  BY <1>1 DEF Serial, Waits, Past, csr_stall, stall_csr_fence, EnvOps
<1>3. held_if1(in)
  BY DEF held_if1
<1> QED BY <1>1, <1>2, <1>3, If2Next, IdNext, RrNext, ExeNext, WbNext DEF Past, answered

\* Whoever is in write-back is in a core that runs, halts or executes the program
\* buffer, or was fetched behind the ebreak that ended it.
LEMMA WbRuns ==
  ASSUME ControlInv, wb.v
  PROVE  /\ ~csr_enable_q /\ ~csr_stall
         /\ ~debug_mode_en_q => state_debug_q \in {"RUNNING", "HALTING"} /\ ~exception_enable_q /\ ~debug_ebreak_q
         /\ debug_mode_en_q => state_debug_q \in {"PROGBUFF", "HALTED"}
         /\ state_debug_q = "HALTED" => exception_enable_q
         /\ exception_enable_q => state_debug_q = "HALTED"
BY DEF ControlInv, DebugInv, DebugState, Redirect, Waits, Past, csr_stall

\* The state machine of the debugger.
LEMMA StateNext ==
  ASSUME NEW in, Input(in), Cycle(in), ControlInv
  PROVE  /\ state_debug_q' \in DebugState \ {"RESET"}
         /\ state_debug_q' = "HAVERESET" => state_debug_q = "RESET"
         /\ state_debug_q' = "RESUME" =>
              (state_debug_q = "HAVERESET" /\ ~halt_ack(in)) \/ (state_debug_q = "HALTED" /\ settled)
         /\ state_debug_q' = "RUNNING" =>
              state_debug_q = "RESUME" \/ (state_debug_q = "RUNNING" /\ ~debug_ebreak_q)
         /\ state_debug_q' = "HALTING" =>
              (state_debug_q = "RUNNING" /\ ~debug_ebreak_q) \/ (state_debug_q = "HALTING" /\ ~halt_ack(in))
         /\ state_debug_q' = "HALTED" =>
              \/ state_debug_q \in {"HAVERESET", "HALTING", "PROGBUFF"} /\ halt_ack(in)
              \/ state_debug_q = "RUNNING" /\ debug_ebreak_q
              \/ state_debug_q = "HALTED"
         /\ state_debug_q' = "PROGBUFF" => (state_debug_q = "HALTED" /\ settled) \/ state_debug_q = "PROGBUFF"
         /\ state_debug_q = "RUNNING" => state_debug_q' \in {"RUNNING", "HALTING", "HALTED"}
         /\ state_debug_q = "HALTING" /\ ~halt_ack(in) => state_debug_q' = "HALTING"
         /\ state_debug_q = "PROGBUFF" => state_debug_q' = IF halt_ack(in) THEN "HALTED" ELSE "PROGBUFF"
         /\ state_debug_q = "HALTED" /\ ~settled => state_debug_q' = "HALTED"
<1>1. state_debug_q \in DebugState
  BY DEF ControlInv, DebugInv
<1>2. /\ state_debug_q = "RESET" => state_debug_q' = "HAVERESET"
      /\ state_debug_q = "HAVERESET" => state_debug_q' = IF halt_ack(in) THEN "HALTED" ELSE "RESUME"
      /\ state_debug_q = "RESUME" => state_debug_q' = "RUNNING"
      /\ state_debug_q = "RUNNING" =>
           state_debug_q' = IF debug_ebreak_q THEN "HALTED" ELSE IF halt_req(in) THEN "HALTING" ELSE "RUNNING"
      /\ state_debug_q = "HALTING" => state_debug_q' = IF halt_ack(in) THEN "HALTED" ELSE "HALTING"
      /\ state_debug_q = "HALTED" => \/ settled /\ state_debug_q' \in {"RESUME", "PROGBUFF"}
                                     \/ state_debug_q' = "HALTED"
      /\ state_debug_q = "PROGBUFF" => state_debug_q' = IF halt_ack(in) THEN "HALTED" ELSE "PROGBUFF"
  BY DEF Cycle, CuCycle, Input
<1> QED BY <1>1, <1>2 DEF DebugState

\* The requests a trap, a return or a debugger makes find nothing past IF2 that is not
\* emptied.
LEMMA RedirectStep ==
  ASSUME NEW in, Input(in), Cycle(in), ControlInv
  PROVE  Redirect'
<1>1. /\ Serial /\ Redirect /\ Waits /\ DebugInv /\ FetchInv
      /\ (exception_enable_q' <=> exception_enable_d(in)) /\ (csr_enable_q' <=> csr_enable_d(in))
  BY DEF ControlInv, Cycle, CuCycle, exception_enable_d, csr_enable_d
<1>2. CASE stall_csr_fence(wb)
  BY <1>2, SerialWbEmpties DEF Redirect
<1>3. CASE flush_exe
  BY <1>1, <1>3, FlushEmpties DEF Redirect
<1>4. CASE ~stall_csr_fence(wb) /\ ~flush_exe /\ exception_enable_d(in)
  <2>1. ~wb_xcpt /\ ~exception_enable_q
    BY <1>4 DEF flush_exe
  <2>2. ~mret /\ ~csr_xcpt /\ ~ecall_taken
    BY <1>4, WbRuns DEF halted, stall_csr_fence, EnvOps, mret, csr_xcpt, ecall_taken, insn, privilege_violation,
                        insn_break_traps, Arch!CsrOps
  <2>3. (resume_ack /\ debug_mode_en_q) \/ debug_ebreak_q \/ halt_ack(in)
    BY <1>4, <2>1, <2>2 DEF exception_enable_d, traps_or_returns, csr_eret
  <2>4. CASE resume_ack /\ debug_mode_en_q
    <3>1. ~Past /\ ~if2.v
      BY <1>1, <2>4 DEF DebugInv, resume_ack
    <3> QED BY <3>1, EmptyStays DEF Redirect
  <2>5. CASE debug_ebreak_q
    <3>1. ~csr_enable_q'
      BY <1>1, <2>5 DEF csr_enable_d, traps_or_returns
    <3>2. CASE state_debug_q = "PROGBUFF"
      <4>1. halt_ack(in)
        BY <2>5, <3>2 DEF halt_ack, Input
      <4> QED BY <3>1, <3>2, <4>1, StateNext DEF Redirect
    <3>3. CASE state_debug_q # "PROGBUFF"
      <4>1. ~Past /\ (if2.v => Spent)
        BY <1>1, <2>1, <2>5, <3>3 DEF DebugInv
      <4> QED BY <4>1, EmptyStays DEF Redirect
    <3> QED BY <3>2, <3>3
  <2>6. CASE csr_halt_ack(in)
    <3>1. CASE state_debug_q = "HAVERESET"
      <4>1. ~Past /\ ~if2.v
        BY <1>1, <3>1 DEF DebugInv
      <4> QED BY <4>1, EmptyStays DEF Redirect
    <3>2. CASE state_debug_q = "HALTING" /\ pipeline_empty(in)
      <4>1. ~Past /\ ~if2.v
        BY <3>2 DEF pipeline_empty, Past, data_dependency, Writes
      <4> QED BY <4>1, EmptyStays DEF Redirect
    <3> QED BY <2>6, <3>1, <3>2 DEF csr_halt_ack
  <2> QED BY <2>1, <2>3, <2>4, <2>5, <2>6 DEF halt_ack
<1>5. CASE ~stall_csr_fence(wb) /\ ~exception_enable_d(in)
  BY <1>1, <1>5 DEF csr_enable_d, Redirect
<1> QED BY <1>2, <1>3, <1>4, <1>5

\* The core waits for an interrupt once the pipeline behind the wfi is empty.
LEMMA WaitsStep ==
  ASSUME NEW in, Input(in), Cycle(in), ControlInv
  PROVE  Waits'
<1>1. Waits /\ FetchInv /\ (wfi_q' => wfi_q \/ insn("wfi"))
  BY DEF ControlInv, Cycle, CsrCycle
<1>2. CASE insn("wfi")
  <2>1. stall_csr_fence(wb)
    BY <1>2 DEF insn, EnvOps, stall_csr_fence, Arch!CsrOps
  <2> QED BY <2>1, SerialWbEmpties DEF Waits
<1>3. CASE wfi_q
  <2>1. ~if2.v /\ ~Past /\ held_if1(in)
    BY <1>1, <1>3 DEF Waits, held_if1, csr_stall
  <2>2. ~if2'.v
    BY <1>1, <2>1, If2Next
  <2> QED BY <2>1, <2>2, EmptyStays DEF Waits
<1> QED BY <1>1, <1>2, <1>3 DEF Waits

\* An answer is remembered for the instruction it came for.
LEMMA FetchStep ==
  ASSUME NEW in, Input(in), Cycle(in), ControlInv
  PROVE  FetchInv' /\ TrapInv'
<1>1. FetchInv /\ Waits /\ prog' = prog
  BY DEF ControlInv, Cycle
<1>2. /\ resp_q' => resp_q \/ in.resp
      /\ resp_q' => held_id(in) \/ miss_icache(in)
  BY Holds DEF Cycle, FetchCycle
<1>3. if2' = [v |-> if2'.v, pc |-> if2'.pc, asked |-> if2'.asked]
  <2>1. CASE if2'.v
    BY <1>1, <2>1, If2Next
  <2>2. CASE ~if2'.v
    <3>1. CASE "if" \in flushed(in) \/ ("if1" \notin stalled(in))
      BY <2>2, <3>1 DEF Cycle, FetchCycle, Register, If2Bubble
    <3>2. CASE "if" \notin flushed(in) /\ "if1" \in stalled(in)
      <4>1. if2' = [if2 EXCEPT !.asked = @ /\ (~in.resp \/ op(if2) = "ipf")]
        BY <3>2 DEF Cycle, FetchCycle, Register
      <4> QED BY <1>1, <4>1 DEF FetchInv
    <3> QED BY <3>1, <3>2
  <2> QED BY <2>1, <2>2
<1>4. ASSUME if2'.v, resp_q', op(if2)' # "ipf" PROVE ~if2'.asked
  <2>1. held_if1(in)
    BY <1>2, <1>4 DEF held_id, held_if1
  <2>2. if2.v /\ if2'.pc = if2.pc /\ if2'.asked = (if2.asked /\ (~in.resp \/ op(if2) = "ipf"))
    BY <1>1, <1>4, <2>1, If2Next
  <2>3. op(if2) # "ipf"
    BY <1>1, <1>4, <2>2 DEF op
  <2> QED BY <1>1, <1>2, <1>4, <2>2, <2>3 DEF FetchInv
<1>5. TrapInv'
  <2> SUFFICES ASSUME wb'.v, Faulting(wb)' PROVE wb'.xcpt
    BY DEF TrapInv
  <2>1. exe.v /\ wb'.pc = exe.pc /\ wb'.xcpt = exe_xcpt
    <3>1. csr_stall => ~wb.v
      BY <1>1 DEF Waits, Past, csr_stall
    <3> QED BY <3>1, WbNext
  <2> QED BY <1>1, <2>1 DEF Faulting, op, exe_xcpt, decode_ex
<1> QED BY <1>3, <1>4, <1>5 DEF FetchInv

\* Debug mode is entered from write-back, or when a halt is acknowledged, and left by
\* a resume.
LEMMA DebugModeNext ==
  ASSUME NEW in, Input(in), Cycle(in), ControlInv
  PROVE  /\ debug_ebreak_q' => wb.v /\ debug_mode_en_q'
         /\ debug_mode_en_q' <=> enters_debug(in) # "no" \/ (debug_mode_en_q /\ ~resume_ack)
         /\ enters_debug(in) # "no" => wb.v \/ csr_halt_ack(in)
         /\ enters_debug(in) # "no" /\ ~csr_halt_ack(in) => debug_ebreak_q'
         /\ csr_halt_ack(in) => ~wb.v /\ enters_debug(in) = "halt"
<1>1. /\ debug_mode_en_q' = (enters_debug(in) # "no" \/ (debug_mode_en_q /\ ~resume_ack))
      /\ debug_ebreak_q' = debug_ebreak_d(in)
  BY DEF Cycle, CsrCycle
<1>2. enters_debug(in) \in {"ebreak", "step"} => wb.v
  BY DEF enters_debug, insn, EnvOps, csr_retire, ex_i, wb_xcpt
<1>3. csr_halt_ack(in) => ~wb.v
  BY DEF csr_halt_ack, pipeline_empty, ControlInv, DebugInv, Past
<1>4. csr_halt_ack(in) => enters_debug(in) = "halt"
  BY <1>3 DEF enters_debug, insn, EnvOps
<1>5. enters_debug(in) \in {"no", "halt", "ebreak", "step"} /\ (enters_debug(in) = "halt" => csr_halt_ack(in))
  BY DEF enters_debug
<1>6. debug_ebreak_q' => wb.v
  BY <1>1, <1>2 DEF debug_ebreak_d, insn, EnvOps
<1>7. debug_ebreak_q' => debug_mode_en_q'
  <2>1. wb.v => ~resume_ack
    BY WbRuns DEF resume_ack
  <2> QED BY <1>1, <1>6, <2>1 DEF debug_ebreak_d
<1> QED BY <1>1, <1>2, <1>3, <1>4, <1>5, <1>6, <1>7 DEF debug_ebreak_d

\* An instruction that was delivered once stays so while IF1 is stalled.
LEMMA SpentStays ==
  ASSUME NEW in, Input(in), Cycle(in), ControlInv, if2'.v, held_if1(in),
         Spent \/ (answered(in) /\ ~held_id(in) /\ ~Faulting(if2))
  PROVE  Spent'
<1>1. FetchInv /\ prog' = prog
  BY DEF ControlInv, Cycle
<1>2. if2.v /\ if2'.pc = if2.pc /\ if2'.asked = (if2.asked /\ (~in.resp \/ op(if2) = "ipf"))
  BY <1>1, If2Next
<1>3. resp_q' => IF in.resp THEN held_id(in) \/ miss_icache(in) ELSE resp_q /\ (held_id(in) \/ miss_icache(in))
  BY Holds DEF Cycle, FetchCycle
<1>4. CASE Spent
  BY <1>1, <1>2, <1>3, <1>4 DEF Spent, Input, op
<1>5. CASE answered(in) /\ ~held_id(in) /\ ~Faulting(if2)
  <2>1. ~miss_icache(in) /\ ~resp_q'
    BY <1>3, <1>5 DEF miss_icache, answered
  <2>2. ~if2'.asked
    BY <1>1, <1>2, <1>5 DEF answered, Faulting, FetchInv
  <2> QED BY <1>1, <1>2, <1>5, <2>1, <2>2 DEF Spent, Faulting, op
<1> QED BY <1>4, <1>5

\* The instruction a step retires is the only one.
LEMMA StepRetires ==
  ASSUME NEW in, Input(in), Cycle(in), ControlInv, wb.v, step_q, ~debug_mode_en_q
  PROVE  ~Past' /\ (if2'.v => Spent')
<1>1. FetchInv /\ TrapInv /\ StepInv
  BY DEF ControlInv
<1>2. CASE wb.xcpt
  <2>1. flush_exe
    BY <1>2 DEF flush_exe, wb_xcpt
  <2> QED BY <1>1, <2>1, FlushEmpties
<1>3. CASE ~wb.xcpt
  <2>1. ~Faulting(wb)
    BY <1>1, <1>3 DEF TrapInv
  <2>2. ~id.v /\ ~rr.v /\ ~exe.v /\ (if2.v => Spent)
    BY <1>1, <2>1 DEF StepInv, OlderFault
  <2>3. held_if1(in)
    BY <1>1, WbRuns DEF StepInv, held_if1, on_halt_state
  <2>4. ~csr_stall /\ ~answered(in)
    BY <2>2, WbRuns DEF Spent, answered, Input
  <2>5. ~Past'
    BY <2>2, <2>4, IdNext, RrNext, ExeNext, WbNext DEF Past
  <2>6. if2'.v => Spent'
    BY <1>1, <2>2, <2>3, If2Next, SpentStays
  <2> QED BY <2>5, <2>6
<1> QED BY <1>2, <1>3

\* The invariant of debug mode.
LEMMA DebugStep ==
  ASSUME NEW in, Input(in), Cycle(in), ControlInv
  PROVE  DebugInv'
<1>1. /\ Serial /\ Redirect /\ Waits /\ DebugInv /\ FetchInv
      /\ (exception_enable_q' <=> exception_enable_d(in)) /\ (csr_enable_q' <=> csr_enable_d(in))
  BY DEF ControlInv, Cycle, CuCycle, exception_enable_d, csr_enable_d
<1>2. state_debug_q' \in {"RESET", "HAVERESET"} => ~if2'.v /\ ~Past' /\ ~debug_mode_en_q' /\ ~step_q'
  <2> SUFFICES ASSUME state_debug_q = "RESET" PROVE ~if2'.v /\ ~Past' /\ ~debug_mode_en_q' /\ ~step_q'
    BY StateNext
  <2>1. ~if2.v /\ ~Past /\ ~debug_mode_en_q /\ ~step_q /\ ~wb.v
    BY <1>1 DEF DebugInv, Past
  <2>2. held_if1(in)
    BY DEF held_if1, on_halt_state
  <2>3. ~debug_mode_en_q'
    BY <2>1, DebugModeNext DEF csr_halt_ack
  <2>4. ~step_q'
    BY <2>1 DEF Cycle, CsrCycle
  <2> QED BY <1>1, <2>1, <2>2, <2>3, <2>4, If2Next, EmptyStays
<1>3. state_debug_q' = "RESUME" => ~Past' /\ (debug_mode_en_q' => ~if2'.v)
  <2>1. CASE state_debug_q = "HAVERESET" /\ ~halt_ack(in)
    <3>1. ~if2.v /\ ~Past /\ ~debug_mode_en_q /\ ~wb.v /\ ~csr_halt_ack(in)
      BY <1>1, <2>1 DEF DebugInv, Past, halt_ack
    <3> QED BY <3>1, EmptyStays, DebugModeNext
  <2>2. CASE state_debug_q = "HALTED" /\ settled
    <3>1. ~Past /\ ~if2.v /\ held_if1(in)
      BY <1>1, <2>2 DEF DebugInv, settled, held_if1, on_halt_state
    <3> QED BY <1>1, <3>1, EmptyStays, If2Next
  <2> QED BY <2>1, <2>2, StateNext
<1>4. ASSUME state_debug_q' = "HALTED"
      PROVE  debug_mode_en_q' /\ (~exception_enable_q' => ~Past' /\ ~if2'.v)
  <2>1. \/ csr_halt_ack(in)
        \/ debug_mode_en_q /\ (debug_ebreak_q \/ exception_enable_q \/ state_debug_q = "HALTED")
    BY <1>1, <1>4, StateNext DEF halt_ack, DebugInv
  <2>2. debug_mode_en_q'
    <3>1. debug_mode_en_q /\ (debug_ebreak_q \/ exception_enable_q \/ state_debug_q = "HALTED") => ~resume_ack
      BY <1>4, StateNext DEF resume_ack
    <3> QED BY <2>1, <3>1, DebugModeNext
  <2>3. CASE exception_enable_q
    BY <1>1, <2>2, <2>3, FlushEmpties DEF flush_exe
  <2>4. CASE ~exception_enable_q /\ (csr_halt_ack(in) \/ debug_ebreak_q)
    BY <1>1, <2>2, <2>4 DEF exception_enable_d, traps_or_returns, halt_ack
  <2>5. CASE ~exception_enable_q /\ state_debug_q = "HALTED"
    <3>1. ~Past /\ ~if2.v /\ held_if1(in)
      BY <1>1, <2>5 DEF DebugInv, held_if1, on_halt_state
    <3> QED BY <1>1, <2>2, <3>1, EmptyStays, If2Next
  <2> QED BY <2>1, <2>3, <2>4, <2>5
<1>5. state_debug_q' = "PROGBUFF" => debug_mode_en_q'
  <2>1. state_debug_q \in {"HALTED", "PROGBUFF"} => debug_mode_en_q /\ ~resume_ack
    BY <1>1 DEF DebugInv, resume_ack
  <2> QED BY <2>1, StateNext, DebugModeNext
<1>6. state_debug_q' \in {"RUNNING", "HALTING"} /\ debug_mode_en_q' => debug_ebreak_q'
  <2> SUFFICES ASSUME state_debug_q' \in {"RUNNING", "HALTING"}, debug_mode_en_q' PROVE debug_ebreak_q'
    OBVIOUS
  <2>1. CASE state_debug_q = "RESUME"
    <3>1. ~wb.v /\ ~csr_halt_ack(in) /\ resume_ack
      BY <1>1, <2>1 DEF DebugInv, Past, csr_halt_ack, resume_ack
    <3> QED BY <3>1, DebugModeNext
  <2>2. CASE state_debug_q \in {"RUNNING", "HALTING"} /\ ~debug_ebreak_q /\ ~csr_halt_ack(in)
    <3>1. ~debug_mode_en_q
      BY <1>1, <2>2 DEF DebugInv
    <3> QED BY <2>2, <3>1, DebugModeNext
  <2> QED BY <2>1, <2>2, StateNext DEF halt_ack, csr_halt_ack
<1>7. ASSUME debug_ebreak_q'
      PROVE  debug_mode_en_q' /\ state_debug_q' \in {"RUNNING", "HALTING", "PROGBUFF", "HALTED"}
  <2>1. wb.v /\ debug_mode_en_q' /\ ~csr_halt_ack(in)
    BY <1>7, DebugModeNext
  <2>2. CASE ~debug_mode_en_q
    BY <2>1, <2>2, WbRuns, StateNext DEF halt_ack
  <2>3. CASE debug_mode_en_q
    BY <2>1, <2>3, WbRuns, StateNext DEF settled
  <2> QED BY <2>1, <2>2, <2>3
<1>8. ASSUME debug_ebreak_q', state_debug_q' \in {"RUNNING", "HALTING"}
      PROVE  /\ ~Past' /\ (if2'.v => Spent')
             /\ \/ exception_enable_q' \/ csr_enable_q' \/ state_debug_q' = "HALTING"
                \/ state_debug_q' = "RUNNING" /\ step_inst_in_pipeline'
  <2>1. wb.v
    BY <1>8, DebugModeNext
  <2>2. /\ state_debug_q \in {"RUNNING", "HALTING"} /\ ~debug_mode_en_q
        /\ ~exception_enable_q /\ ~csr_enable_q
    <3>1. state_debug_q \in {"RUNNING", "HALTING"}
      BY <1>8, <2>1, WbRuns, StateNext
    <3> QED BY <2>1, <3>1, WbRuns
  <2>3. state_debug_q' = "RUNNING" => state_debug_q = "RUNNING"
    BY <2>2, StateNext
  <2>4. CASE insn("ebreak")
    <3>1. stall_csr_fence(wb)
      BY <2>2, <2>4 DEF insn, EnvOps, stall_csr_fence, Arch!CsrOps
    <3>2. exception_enable_q' \/ csr_enable_q'
      BY <1>1, <2>2, <3>1 DEF exception_enable_d, csr_enable_d
    <3> QED BY <3>1, <3>2, SerialWbEmpties
  <2>5. CASE ~insn("ebreak")
    <3>1. step_q
      <4>1. enters_debug(in) \in {"ebreak", "step"}
        BY <1>8, <2>5 DEF Cycle, CsrCycle, debug_ebreak_d
      <4> QED BY <2>5, <4>1 DEF enters_debug
    <3>2. ~Past' /\ (if2'.v => Spent')
      BY <2>1, <2>2, <3>1, StepRetires
    <3>3. CASE wb.xcpt
      <4>1. exception_enable_q'
        BY <1>1, <2>1, <2>2, <3>3 DEF exception_enable_d, traps_or_returns, wb_xcpt
      <4> QED BY <3>2, <4>1
    <3>4. CASE ~wb.xcpt /\ state_debug_q' = "RUNNING"
      <4>1. step_inst_in_pipeline
        BY <2>1, <2>2, <2>3, <3>1, <3>4 DEF ControlInv, StepInv
      <4>2. step_inst_in_pipeline'
        BY <2>2, <3>4, <4>1 DEF Cycle, CuCycle, wb_xcpt
      <4> QED BY <3>2, <3>4, <4>2
    <3> QED BY <1>8, <3>2, <3>3, <3>4
  <2> QED BY <2>4, <2>5
<1>9. state_debug_q' \in DebugState
  BY StateNext
<1> QED BY <1>2, <1>3, <1>4, <1>5, <1>6, <1>7, <1>8, <1>9 DEF DebugInv, DebugState

\* While a stage is held IF2 keeps its instruction.
LEMMA If2Held ==
  ASSUME NEW in, Cycle(in), FetchInv, held_if1(in), ~flush_if(in), if2.v
  PROVE  if2'.v
<1>1. if2' = [if2 EXCEPT !.asked = @ /\ (~in.resp \/ op(if2) = "ipf")]
  BY Holds, Flushes DEF Cycle, FetchCycle, Register
<1> QED BY <1>1 DEF FetchInv

\* A core that is stepped fetches no second instruction.
LEMMA StepHolds ==
  ASSUME NEW in, ControlInv, step_q, ~debug_mode_en_q, Past \/ if2.v
  PROVE  held_if1(in) /\ state_debug_q \in {"RESUME", "RUNNING", "HALTING"}
<1>1. state_debug_q \in {"RESUME", "RUNNING", "HALTING"}
  BY DEF ControlInv, DebugInv, DebugState
<1>2. CASE state_debug_q = "HALTING"
  BY <1>2 DEF held_if1, on_halt_state
<1>3. CASE state_debug_q \in {"RESUME", "RUNNING"} /\ if2.v
  BY <1>3 DEF held_if1, step_inst_in_if2, step_running
<1>4. CASE state_debug_q \in {"RESUME", "RUNNING"} /\ Past /\ ~if2.v
  BY <1>4 DEF held_if1, ControlInv, DebugInv, StepInv, Past
<1> QED BY <1>1, <1>2, <1>3, <1>4

\* Where the instructions in the stages came from.
LEMMA Origins ==
  ASSUME NEW in, Cycle(in), ~csr_stall
  PROVE  /\ Faulting(exe) => (wb'.v => Faulting(wb)')
         /\ Faulting(exe) /\ exe' = exe => Faulting(exe)'
         /\ Faulting(rr) /\ exe'.pc = rr.pc => Faulting(exe)'
         /\ Faulting(rr) /\ rr' = rr => Faulting(rr)'
         /\ Faulting(id) /\ rr' = id => Faulting(rr)'
         /\ Faulting(id) /\ id' = id => Faulting(id)'
         /\ Faulting(if2) /\ id'.pc = if2.pc => Faulting(id)'
<1>1. prog' = prog
  BY DEF Cycle
<1>2. wb'.v => wb'.pc = exe.pc
  BY WbNext
<1> QED BY <1>1, <1>2 DEF Faulting, op

\* The invariant of single stepping.
LEMMA StepStep ==
  ASSUME NEW in, Input(in), Cycle(in), ControlInv
  PROVE  StepInv'
<1> SUFFICES ASSUME step_q', ~debug_mode_en_q', Past' PROVE StepInv'
  BY DEF StepInv, OlderFault, Past
<1>1. Serial /\ Redirect /\ Waits /\ DebugInv /\ FetchInv /\ StepInv /\ prog' = prog
  BY DEF ControlInv, Cycle
<1>2. step_q /\ ~debug_mode_en_q
  <2>1. CASE debug_mode_en_q
    <3>1. resume_ack
      BY <2>1, DebugModeNext
    <3>2. ~Past /\ ~if2.v
      BY <1>1, <2>1, <3>1 DEF DebugInv, resume_ack
    <3> QED BY <3>2, EmptyStays
  <2>2. CASE ~debug_mode_en_q
    BY <2>2 DEF Cycle, CsrCycle
  <2> QED BY <2>1, <2>2
<1>3. ~flush_exe
  BY <1>1, FlushEmpties
<1>4. ~wb.v
  <2> SUFFICES ASSUME wb.v PROVE FALSE
    OBVIOUS
  <2>1. enters_debug(in) = "no" /\ ~csr_stall /\ ~halted
    BY <1>2, DebugModeNext, WbRuns DEF halted
  <2>2. insn("ebreak")
    BY <1>2, <2>1 DEF enters_debug, csr_retire, ex_i, wb_xcpt
  <2>3. stall_csr_fence(wb)
    BY <1>2, <2>2 DEF insn, EnvOps, stall_csr_fence, Arch!CsrOps
  <2> QED BY <2>3, SerialWbEmpties
<1>5. Past \/ if2.v
  BY EmptyStays
<1>6. held_if1(in) /\ state_debug_q \in {"RESUME", "RUNNING", "HALTING"}
  BY <1>2, <1>5, StepHolds
<1>7. ~csr_stall
  BY <1>1, <1>5 DEF Waits, csr_stall
<1>8. state_debug_q' = "RUNNING" /\ id'.v => if2'.v
  <2> SUFFICES ASSUME state_debug_q' = "RUNNING", id'.v PROVE if2'.v
    OBVIOUS
  <2>1. if2.v
    <3>1. state_debug_q \in {"RESUME", "RUNNING"}
      BY StateNext
    <3> QED BY <1>1, <1>2, <3>1, IdNext DEF StepInv, DebugInv, Past, answered
  <2> QED BY <1>1, <1>6, <2>1, IdNext, If2Held
<1>9. state_debug_q' = "RUNNING" /\ (rr'.v \/ exe'.v \/ wb'.v) => step_inst_in_pipeline'
  <2> SUFFICES ASSUME state_debug_q' = "RUNNING", rr'.v \/ exe'.v \/ wb'.v PROVE step_inst_in_pipeline'
    OBVIOUS
  <2>1. id.v \/ rr.v \/ exe.v
    BY <1>7, RrNext, ExeNext, WbNext
  <2>2. state_debug_q = "RUNNING"
    BY <1>1, <2>1, StateNext DEF DebugInv, Past
  <2>3. step_inst_in_id \/ step_inst_in_pipeline
    BY <1>1, <1>2, <2>1, <2>2 DEF StepInv, step_inst_in_id, step_running
  <2> QED BY <1>3, <2>3 DEF Cycle, CuCycle, flush_exe
<1>10. exe'.v /\ wb'.v => Faulting(wb)'
  <2> SUFFICES ASSUME exe'.v, wb'.v PROVE Faulting(wb)'
    OBVIOUS
  <2>1. exe.v /\ rr.v
    BY <1>7, WbNext, ExeNext
  <2> QED BY <1>1, <1>2, <1>7, <2>1, Origins DEF StepInv
<1>11. ASSUME rr'.v
       PROVE  (exe'.v => Faulting(exe)') /\ (wb'.v => Faulting(wb)')
  <2>1. CASE held_id(in) /\ rr' = rr
    <3>1. exe'.v => exe' = exe
      BY <2>1, ExeNext DEF held_id
    <3>2. wb'.v => exe.v
      BY <1>7, WbNext
    <3> QED BY <1>1, <1>2, <1>7, <1>11, <2>1, <3>1, <3>2, Origins DEF StepInv
  <2>2. CASE ~held_id(in) /\ rr' = id
    <3>1. exe'.v => rr.v /\ exe'.pc = rr.pc
      BY <2>2, ExeNext DEF held_id
    <3>2. wb'.v => exe.v
      BY <1>7, WbNext
    <3> QED BY <1>1, <1>2, <1>7, <1>11, <2>2, <3>1, <3>2, Origins DEF StepInv, OlderFault
  <2> QED BY <1>11, <2>1, <2>2, RrNext
<1>12. ASSUME id'.v
       PROVE  (rr'.v => Faulting(rr)') /\ (exe'.v => Faulting(exe)') /\ (wb'.v => Faulting(wb)')
  <2>1. wb'.v => exe.v
    BY <1>7, WbNext
  <2>2. CASE held_id(in) /\ id' = id
    <3>1. (exe'.v => exe' = exe) /\ (rr'.v => rr' = rr)
      BY <2>2, ExeNext, RrNext DEF held_id
    <3> QED BY <1>1, <1>2, <1>7, <1>12, <2>1, <2>2, <3>1, Origins DEF StepInv, OlderFault
  <2>3. CASE ~held_id(in) /\ answered(in)
    <3>1. (exe'.v => rr.v /\ exe'.pc = rr.pc) /\ (rr'.v => rr' = id)
      BY <2>3, ExeNext, RrNext DEF held_id
    <3>2. if2.v /\ ~Spent
      BY <2>3 DEF answered, Spent, Input
    <3>3. (id.v => Faulting(id)) /\ OlderFault
      BY <1>1, <1>2, <3>2 DEF StepInv
    <3> QED BY <1>7, <2>1, <3>1, <3>3, Origins DEF OlderFault
  <2> QED BY <1>12, <2>2, <2>3, IdNext
<1>13. ASSUME if2'.v, ~Spent'
       PROVE  (id'.v => Faulting(id)') /\ OlderFault'
  <2>1. if2.v /\ ~Spent /\ ~(answered(in) /\ ~held_id(in) /\ ~Faulting(if2))
    BY <1>1, <1>6, <1>13, If2Next, SpentStays
  <2>2. (id.v => Faulting(id)) /\ OlderFault
    BY <1>1, <1>2, <2>1 DEF StepInv
  <2>3. id'.v => Faulting(id)'
    BY <1>7, <2>1, <2>2, IdNext, Origins DEF OlderFault
  <2>4. rr'.v => Faulting(rr)'
    BY <1>7, <2>2, RrNext, Origins DEF OlderFault
  <2>5. exe'.v => Faulting(exe)'
    BY <1>7, <2>2, ExeNext, Origins DEF OlderFault
  <2>6. wb'.v => Faulting(wb)'
    BY <1>7, <2>2, WbNext, Origins DEF OlderFault
  <2> QED BY <2>3, <2>4, <2>5, <2>6 DEF OlderFault
<1> QED BY <1>8, <1>9, <1>10, <1>11, <1>12, <1>13 DEF StepInv, OlderFault

\* ControlInv is inductive.
LEMMA ControlStep == ControlInv /\ [Next]_vars => ControlInv'
<1> SUFFICES ASSUME ControlInv, [Next]_vars PROVE ControlInv'
  OBVIOUS
<1>1. ASSUME NEW in, Input(in), Cycle(in) PROVE ControlInv'
  BY <1>1, SerialStep, RedirectStep, WaitsStep, DebugStep, StepStep, FetchStep DEF ControlInv
<1>2. CASE UNCHANGED vars
  <2>1. UNCHANGED <<prog, fetchVars, stageVars, cuVars, csrVars>>
    BY <1>2 DEF vars
  <2>2. Serial' /\ Redirect' /\ Waits'
    BY <2>1 DEF ControlInv, fetchVars, stageVars, cuVars, csrVars, Serial, Redirect, Waits, Past,
                stall_csr_fence, EnvOps, op, Arch!CsrOps
  <2>3. FetchInv' /\ TrapInv' /\ (Spent <=> Spent') /\ (OlderFault <=> OlderFault')
    BY <2>1 DEF ControlInv, fetchVars, stageVars, cuVars, csrVars, FetchInv, TrapInv, Spent, OlderFault, Faulting, op
  <2>4. DebugInv'
    BY <2>1, <2>3 DEF ControlInv, fetchVars, stageVars, cuVars, csrVars, DebugInv, DebugState, Past
  <2>5. StepInv'
    BY <2>1, <2>3 DEF ControlInv, fetchVars, stageVars, cuVars, csrVars, StepInv, Faulting, op
  <2> QED BY <2>2, <2>3, <2>4, <2>5 DEF ControlInv
<1> QED BY <1>1, <1>2, StepIsCycle

\* The pipeline is empty after reset.
LEMMA InitControl == Init => ControlInv
BY DEF Init, ControlInv, Serial, Redirect, Waits, DebugInv, DebugState, StepInv, OlderFault, FetchInv, TrapInv, Past,
       If2Bubble, Bubble, ExeBubble, WbBubble, stall_csr_fence, EnvOps
-----------------------------------------------------------------------------
(* Memory.                                                                 *)

\* An access that was started is finished, and what it stored written back.
LEMMA MemStep ==
  ASSUME NEW in, Input(in), Cycle(in), ControlInv, MemInv
  PROVE  MemInv'
<1> DEFINE perform == exe.v /\ unit_mem(exe) /\ op(exe) # "fault" /\ ~mem_state /\ ~flush_exe /\ in.mem
<1>1. /\ mem_state' = (~flush_exe /\ exe.v /\ unit_mem(exe) /\ (perform \/ (mem_state /\ ~in.mem)))
      /\ mem' = IF perform /\ op(exe) = "store" THEN exe.b ELSE mem
  BY DEF Cycle, MemCycle
<1>2. prog' = prog /\ amem' = IF insn("store") THEN wb.res ELSE IF cut_store THEN exe.b ELSE amem
  BY DEF Cycle, RegfileCycle
<1>3. exe.v => ~csr_stall /\ ~csr_enable_q /\ (exception_enable_q => debug_mode_en_q)
  BY DEF ControlInv, Waits, Redirect, DebugInv, Past, csr_stall
<1>4. wb.v => ~csr_stall
  BY WbRuns
<1>5. unit_mem(exe) => ~mispredict /\ op(exe) \in {"load", "store", "fault", "illmem"} /\ op(exe) # "div"
  BY DEF unit_mem, mispredict, Arch!MemOps, Arch!JumpOps
<1>6. ASSUME mem_state' PROVE exe' = exe /\ ~wb'.v /\ unit_mem(exe) /\ op(exe) # "fault" /\ exe.v /\ ~flush_exe
  <2>1. ~flush_exe /\ exe.v /\ unit_mem(exe) /\ op(exe) # "fault" /\ (mem_state => ~in.mem)
    BY <1>1, <1>6 DEF MemInv
  <2>2. exe_stall(in)
    BY <2>1 DEF exe_stall, mem_stall
  <2>3. ~wb'.v
    BY <1>3, <2>1, <2>2, WbNext
  <2>4. exe' = exe
    BY <1>5, <2>1, <2>2, Holds, Flushes DEF Cycle, StageCycle, Register
  <2> QED BY <2>1, <2>3, <2>4
<1>7. ASSUME Stored'
      PROVE  mem_state /\ exe.v /\ op(exe) = "store" /\ ~wb'.xcpt /\ wb'.res = exe.b /\ ~mem_state'
  <2>1. wb'.v /\ op(wb)' = "store"
    BY <1>7 DEF Stored
  <2>2. /\ ~flush_exe /\ exe.v /\ ~exe_stall(in)
        /\ wb' = [v |-> TRUE, pc |-> exe.pc, res |-> exe_result, xcpt |-> exe_xcpt]
    BY <1>4, <2>1, WbNext
  <2>3. op(exe) = "store"
    BY <1>2, <2>1, <2>2 DEF op
  <2>4. unit_mem(exe) /\ mem_state /\ in.mem
    BY <2>2, <2>3 DEF unit_mem, Arch!MemOps, exe_stall, mem_stall
  <2>5. ~exe_xcpt /\ exe_result = exe.b
    BY <2>3, <2>4 DEF exe_xcpt, decode_ex, exe_result
  <2>6. ~mem_state'
    BY <1>6, <2>1
  <2> QED BY <2>2, <2>3, <2>4, <2>5, <2>6
<1>8. mem_state' => exe'.v /\ unit_mem(exe)' /\ op(exe)' # "fault" /\ ~wb'.v
  BY <1>2, <1>6 DEF unit_mem, op, Arch!MemOps
<1>9. Stored' => ~wb'.xcpt /\ mem' = wb'.res
  BY <1>1, <1>7 DEF MemInv, Performed
<1>10. ASSUME Performed' PROVE mem' = exe'.b
  <2>1. mem_state' /\ op(exe) = "store"
    BY <1>2, <1>6, <1>10 DEF Performed, op
  <2>2. exe' = exe /\ exe.v /\ (perform \/ mem_state)
    BY <1>1, <1>6, <2>1
  <2> QED BY <1>1, <2>1, <2>2 DEF MemInv, Performed
<1>11. ASSUME ~Performed', ~Stored' PROVE mem' = amem'
  <2>1. ~(perform /\ op(exe) = "store")
    <3> SUFFICES ASSUME perform, op(exe) = "store" PROVE FALSE
      OBVIOUS
    <3>1. mem_state'
      BY <1>1
    <3> QED BY <1>2, <1>6, <1>11, <3>1 DEF Performed, op
  <2>2. ASSUME Performed PROVE mem' = amem'
    <3>1. exe.v /\ mem_state /\ op(exe) = "store" /\ unit_mem(exe) /\ ~wb.v /\ mem = exe.b
      BY <2>2 DEF Performed, MemInv
    <3>2. CASE flush_exe
      <4>1. cut_store /\ ~insn("store")
        BY <1>3, <3>1, <3>2 DEF cut_store, insn, EnvOps, flush_exe, wb_xcpt
      <4> QED BY <1>1, <1>2, <2>1, <3>1, <4>1
    <3>3. CASE ~flush_exe /\ ~in.mem
      <4>1. mem_state'
        BY <1>1, <3>1, <3>3
      <4> QED BY <1>2, <1>6, <1>11, <3>1, <4>1 DEF Performed, op
    <3>4. CASE ~flush_exe /\ in.mem
      <4>1. ~exe_stall(in)
        BY <1>5, <3>1, <3>4 DEF exe_stall, mem_stall
      <4>2. wb' = [v |-> TRUE, pc |-> exe.pc, res |-> exe_result, xcpt |-> exe_xcpt]
        BY <1>3, <3>1, <3>4, <4>1, Holds, Flushes DEF Cycle, StageCycle, Register
      <4> QED BY <1>2, <1>11, <3>1, <4>2 DEF Stored, op
    <3> QED BY <3>2, <3>3, <3>4
  <2>3. CASE Stored
    <3>1. insn("store") /\ mem = wb.res
      BY <2>3 DEF Stored, insn, EnvOps, MemInv
    <3> QED BY <1>1, <1>2, <2>1, <3>1
  <2>4. CASE ~Stored /\ ~Performed
    <3>1. ~insn("store") /\ ~cut_store /\ mem = amem
      BY <2>4 DEF Stored, Performed, insn, EnvOps, cut_store, MemInv
    <3> QED BY <1>1, <1>2, <2>1, <3>1
  <2> QED BY <2>2, <2>3, <2>4
<1> QED BY <1>8, <1>9, <1>10, <1>11 DEF MemInv

(* Only instructions that are written back change memory: a store that the *)
(* cache has taken (mem_unit.sv) is never flushed by a trap, a return, a   *)
(* jump, a serialising instruction or the debugger (control_unit.sv), for  *)
(* every program and whatever the caches, interrupts and the debugger do,  *)
(* unless it was fetched behind the ebreak that ended a program buffer.    *)
THEOREM StoresCommitted == Spec => []MemoryCommitted
<1>1. Init => MemInv
  BY DEF Init, MemInv, Performed, Stored, ExeBubble, WbBubble
<1>2. ControlInv /\ MemInv /\ [Next]_vars => MemInv'
  <2> SUFFICES ASSUME ControlInv, MemInv, [Next]_vars PROVE MemInv'
    OBVIOUS
  <2>1. CASE UNCHANGED vars
    BY <2>1 DEF vars, stageVars, MemInv, Performed, Stored, unit_mem, op, Arch!MemOps
  <2> QED BY <2>1, MemStep, StepIsCycle
<1>3. MemInv => MemoryCommitted
  BY DEF MemInv, Performed, Stored, MemoryCommitted
<1> QED BY InitControl, ControlStep, <1>1, <1>2, <1>3, PTL DEF Spec

-----------------------------------------------------------------------------
(* Single stepping and types.                                              *)

\* Addresses of the program buffer.
Buffer == N .. N+PBUF-1

\* What is asked of programs and the debugger: the program buffer has no jumps; who sets
\* dcsr.step has ebreak enter debug mode, or the program has none; a running core is not
\* asked to halt.
Supported ==
  /\ PBUF > 0 /\ "halt" \notin DEBUG
  /\ \A p \in Programs :
       /\ \A a \in Buffer : p[a].op \notin Arch!JumpOps \cup {"jal"}
       /\ (\E a \in Buffer : p[a].op = "csrstep") => EBREAKM \/ \A a \in Arch!Word : p[a].op # "ebreak"

\* The code of the mode the core is in.
Code == IF debug_mode_en_q THEN Buffer ELSE Arch!Word

\* Fetch is about to be redirected.
Leaving == exception_enable_q \/ (debug_ebreak_q /\ state_debug_q \in {"RUNNING", "HALTING"})

\* The core runs code of the mode it is in, and is about to fetch it, unless the debugger
\* is about to redirect it.
RegionInv ==
  /\ prog \in Programs
  /\ id.v => id.pc \in Code
  /\ rr.v => rr.pc \in Code
  /\ exe.v => exe.pc \in Code
  /\ wb.v => wb.pc \in Code
  /\ if2.v /\ ~Leaving => if2.pc \in Code
  /\ exception_enable_q => pc_evec_q \in Code
  /\ ~Leaving => IF csr_enable_q THEN pc_next_csr_q \in Code ELSE pc \in Code
  /\ mepc \in Arch!Word /\ dpc_q \in Arch!Word
  /\ state_debug_q # "HALTING"
  /\ state_debug_q \in {"RESET", "HAVERESET", "RESUME"} => ~exception_enable_q /\ ~csr_enable_q
  /\ step_q => \E a \in Buffer : prog[a].op = "csrstep"

\* What is written to a register is a word.
ResultInv == wb.v => wb.res \in Arch!Word

\* The address after one of the program's, or of the program buffer's, is another of them.
LEMMA SuccStays ==
  ASSUME Supported, NEW a
  PROVE  /\ a \in Arch!Word => Arch!Succ(a) \in Arch!Word
         /\ a \in Buffer => Arch!Succ(a) \in Buffer
         /\ a \in Code => Arch!Succ(a) \in Code
<1>1. a \in Arch!Word => Arch!Succ(a) \in Arch!Word
  BY PipelineAssumption DEF Arch!Word, Arch!Succ
<1>2. a \in Buffer => Arch!Succ(a) \in Buffer
  BY PipelineAssumption DEF Buffer, Arch!Succ, Supported
<1> QED BY <1>1, <1>2 DEF Code

\* The instruction that enters debug mode is the last one.
LEMMA EntryEmpties ==
  ASSUME NEW in, Input(in), Cycle(in), ControlInv, enters_debug(in) # "no"
  PROVE  /\ ~Past'
         /\ ~csr_halt_ack(in) => debug_ebreak_q' /\ state_debug_q' \in {"RUNNING", "HALTING"}
<1>1. CASE csr_halt_ack(in)
  <2>1. ~Past /\ ~if2.v
    BY <1>1 DEF csr_halt_ack, ControlInv, DebugInv, pipeline_empty, Past, data_dependency, Writes
  <2> QED BY <1>1, <2>1, EmptyStays
<1>2. CASE ~csr_halt_ack(in)
  <2>1. wb.v /\ ~debug_mode_en_q
    BY <1>2 DEF enters_debug, insn, EnvOps, csr_retire, ex_i, wb_xcpt
  <2>2. debug_ebreak_q'
    BY <1>2, DebugModeNext
  <2>3. state_debug_q' \in {"RUNNING", "HALTING"}
    BY <1>2, <2>1, WbRuns, StateNext DEF halt_ack
  <2> QED BY <2>2, <2>3, DebugStep DEF DebugInv
<1> QED BY <1>1, <1>2

\* The mode changes with a request to redirect fetch, or one to come.
LEMMA SameMode ==
  ASSUME NEW in, Input(in), Cycle(in), ControlInv, RegionInv, ~Leaving'
  PROVE  (debug_mode_en_q' <=> debug_mode_en_q) /\ Code' = Code
<1>1. DebugInv /\ (exception_enable_q' <=> exception_enable_d(in)) /\ debug_mode_en_q' \in BOOLEAN
  BY DEF ControlInv, Cycle, CuCycle, CsrCycle, exception_enable_d
<1>2. /\ ~exception_enable_q'
      /\ state_debug_q # "HALTING" /\ (state_debug_q \in {"HAVERESET", "RESUME"} => ~exception_enable_q)
  BY DEF RegionInv, Leaving
<1>3. ~csr_halt_ack(in)
  BY <1>1, <1>2 DEF csr_halt_ack, exception_enable_d, traps_or_returns, halt_ack
<1>4. ~(resume_ack /\ debug_mode_en_q)
  BY <1>1, <1>2 DEF resume_ack, exception_enable_d, traps_or_returns, csr_eret
<1>5. enters_debug(in) = "no"
  BY <1>3, EntryEmpties DEF Leaving
<1>6. debug_mode_en_q' <=> debug_mode_en_q
  BY <1>4, <1>5, DebugModeNext
<1> QED BY <1>6 DEF Code

\* Nothing is in the pipeline when the mode changes.
LEMMA ModeOfStages ==
  ASSUME NEW in, Input(in), Cycle(in), ControlInv, Past'
  PROVE  (debug_mode_en_q' <=> debug_mode_en_q) /\ Code' = Code
<1>1. enters_debug(in) = "no"
  BY EntryEmpties
<1>2. debug_mode_en_q' <=> debug_mode_en_q
  BY <1>1, DebugModeNext, ModeLeft
<1> QED BY <1>2 DEF Code

\* An instruction that is stepped enters debug mode.
LEMMA StepEnters ==
  ASSUME NEW in, Input(in), Cycle(in), ControlInv, RegionInv, Supported, wb.v, step_q, ~debug_mode_en_q
  PROVE  debug_mode_en_q'
<1>1. wb.pc \in Arch!Word /\ ~csr_stall /\ ~halted
  BY WbRuns DEF RegionInv, Code, halted
<1>2. CASE insn("ebreak")
  <2>1. EBREAKM
    BY <1>1, <1>2 DEF Supported, RegionInv, insn, EnvOps, op
  <2> QED BY <1>2, <2>1, DebugModeNext DEF enters_debug
<1>3. CASE ~insn("ebreak")
  <2>1. csr_retire \/ ex_i
    BY <1>1 DEF csr_retire, ex_i, wb_xcpt
  <2>2. enters_debug(in) # "no"
    BY <1>3, <2>1 DEF enters_debug
  <2> QED BY <2>2, DebugModeNext
<1> QED BY <1>2, <1>3

\* Where a core writes an instruction back from.
LEMMA WbCode ==
  ASSUME ControlInv, RegionInv, wb.v
  PROVE  /\ wb.pc \in Code /\ ~csr_enable_q /\ ~resume_ack
         /\ ~debug_mode_en_q => wb.pc \in Arch!Word /\ pc \in Arch!Word /\ ~exception_enable_q /\ ~debug_ebreak_q
BY WbRuns DEF RegionInv, resume_ack, Code, Leaving

\* Where a trap, a return or the debugger sends the core.
LEMMA EvecStep ==
  ASSUME NEW in, Input(in), Cycle(in), ControlInv, RegionInv, Supported
  PROVE  pc_evec_q' \in Code'
<1>1. /\ pc_evec_q' = csr_evec(in) /\ debug_ebreak_q' = debug_ebreak_d(in)
      /\ ProgramBuffer \in Buffer /\ EVEC \in Arch!Word /\ mepc \in Arch!Word /\ dpc_q \in Arch!Word
  BY PipelineAssumption DEF Cycle, CuCycle, CsrCycle, ProgramBuffer, Buffer, Supported, Arch!Word, RegionInv
<1>2. /\ debug_mode_en_q' => Code' = Buffer
      /\ ~debug_mode_en_q' => Code' = Arch!Word
  BY DEF Code
<1>3. takes_trap \/ mret => wb.v
  BY DEF takes_trap, ex_i, wb_xcpt, csr_xcpt, privilege_violation, insn_break_traps, mret, insn, EnvOps
<1>4. takes_trap => ~debug_mode_en_q
  BY DEF takes_trap
<1>5. mret => ~debug_mode_en_q
  BY DEF mret, insn, EnvOps
<1>6. (takes_trap \/ mret) /\ step_q => debug_mode_en_q'
  BY <1>3, <1>4, <1>5, StepEnters
<1>7. (takes_trap \/ mret) /\ ~step_q => ~debug_mode_en_q'
  <2> SUFFICES ASSUME takes_trap \/ mret, ~step_q PROVE ~debug_mode_en_q'
    OBVIOUS
  <2>1. ~(insn("ebreak") /\ EBREAKM)
    BY DEF takes_trap, ex_i, wb_xcpt, csr_xcpt, privilege_violation, insn_break_traps, mret, insn, EnvOps
  <2>2. enters_debug(in) = "no"
    BY <1>3, <1>4, <1>5, <2>1, DebugModeNext DEF enters_debug
  <2> QED BY <1>4, <1>5, <2>2, DebugModeNext
<1>8. CASE takes_trap \/ mret
  <2>1. csr_evec(in) \in IF step_q THEN Buffer ELSE Arch!Word
    BY <1>1, <1>8 DEF csr_evec
  <2> QED BY <1>1, <1>2, <1>6, <1>7, <1>8, <2>1
<1>9. CASE ~takes_trap /\ ~mret
  <2>1. CASE csr_halt_ack(in)
    BY <1>1, <1>2, <1>9, <2>1, DebugModeNext DEF csr_evec
  <2>2. CASE ~csr_halt_ack(in) /\ resume_ack
    <3>1. ~wb.v
      BY <2>2, WbCode
    <3>2. ~debug_mode_en_q'
      BY <2>2, <3>1, DebugModeNext
    <3> QED BY <1>1, <1>2, <1>9, <2>2, <3>2 DEF csr_evec
  <2>3. CASE ~csr_halt_ack(in) /\ ~resume_ack /\ (debug_mode_en_q \/ debug_ebreak_d(in))
    <3>1. debug_mode_en_q'
      BY <1>1, <2>3, DebugModeNext
    <3> QED BY <1>1, <1>2, <1>9, <2>3, <3>1 DEF csr_evec
  <2>4. CASE ~csr_halt_ack(in) /\ ~resume_ack /\ ~debug_mode_en_q /\ ~debug_ebreak_d(in)
    <3>1. ~debug_mode_en_q'
      BY <1>1, <2>4, DebugModeNext
    <3> QED BY <1>1, <1>2, <1>9, <2>4, <3>1 DEF csr_evec
  <2> QED BY <2>1, <2>2, <2>3, <2>4
<1> QED BY <1>8, <1>9

\* What fetch is asked for next.
LEMMA PcStep ==
  ASSUME NEW in, Input(in), Cycle(in), ControlInv, RegionInv, TypeOK, Supported, ~Leaving'
  PROVE  IF csr_enable_q' THEN pc_next_csr_q' \in Code' ELSE pc' \in Code'
<1>1. /\ ~exception_enable_q' /\ (exception_enable_q' <=> exception_enable_d(in)) /\ (csr_enable_q' <=> csr_enable_d(in))
      /\ pc_next_csr_q' = Arch!Succ(wb.pc) /\ pc' = next_pc(in)
  BY DEF Cycle, CuCycle, FetchCycle, Leaving, exception_enable_d, csr_enable_d
<1>2. Code' = Code
  BY SameMode
<1>3. CASE csr_enable_q'
  <2>1. wb.v
    BY <1>1, <1>3 DEF csr_enable_d, stall_csr_fence, EnvOps
  <2> QED BY <1>1, <1>2, <1>3, <2>1, WbCode, SuccStays
<1>4. CASE ~csr_enable_q' /\ exception_enable_q
  BY <1>1, <1>2, <1>4 DEF next_pc, RegionInv
<1>5. CASE ~csr_enable_q' /\ ~exception_enable_q
  <2>1. ~debug_ebreak_q
    BY <1>1, <1>5 DEF exception_enable_d, traps_or_returns
  <2>2. CASE csr_enable_q
    BY <1>1, <1>2, <1>5, <2>1, <2>2 DEF next_pc, RegionInv, Leaving
  <2>3. CASE ~csr_enable_q
    <3>1. pc \in Code /\ prog \in Programs
      BY <1>5, <2>1, <2>3 DEF RegionInv, Leaving
    <3>2. jump_enable => mispredict \/ valid_jal
      BY <1>1, <1>5 DEF exception_enable_d, traps_or_returns, jump_enable
    <3>3. mispredict => branch_addr_result \in Code
      <4> SUFFICES ASSUME mispredict PROVE branch_addr_result \in Code
        OBVIOUS
      <4>1. exe.pc \in Code /\ op(exe) \in Arch!JumpOps
        BY DEF mispredict, RegionInv
      <4>2. exe.pc \in Arch!Word /\ Code = Arch!Word
        BY <3>1, <4>1 DEF Code, Supported, op
      <4>3. prog[exe.pc].tgt \in Arch!Word
        BY <3>1, <4>2, PipelineAssumption, ProgramsAssumption DEF Arch!Word, Arch!Addr, Arch!Instr
      <4>4. exe.a \in Arch!Word
        BY DEF TypeOK
      <4> QED BY <4>2, <4>3, <4>4, SuccStays DEF branch_addr_result, Arch!Target
    <3>4. valid_jal => prog[id.pc].tgt \in Code
      <4> SUFFICES ASSUME valid_jal PROVE prog[id.pc].tgt \in Code
        OBVIOUS
      <4>1. id.pc \in Code /\ op(id) = "jal"
        BY DEF valid_jal, RegionInv
      <4>2. id.pc \in Arch!Word /\ Code = Arch!Word
        BY <3>1, <4>1 DEF Code, Supported, op
      <4> QED BY <3>1, <4>2, PipelineAssumption, ProgramsAssumption DEF Arch!Word, Arch!Addr, Arch!Instr
    <3>5. pc' \in {pc, Arch!Succ(pc)} \/ (mispredict /\ pc' = branch_addr_result) \/ (valid_jal /\ pc' = prog[id.pc].tgt)
      BY <1>1, <1>5, <2>3, <3>2 DEF next_pc
    <3>6. Arch!Succ(pc) \in Code
      BY <3>1, SuccStays
    <3> QED BY <1>2, <1>5, <3>1, <3>3, <3>4, <3>5, <3>6
  <2> QED BY <2>2, <2>3
<1> QED BY <1>3, <1>4, <1>5

\* The core stays in the code of its mode.
LEMMA RegionStep ==
  ASSUME NEW in, Input(in), Cycle(in), ControlInv, RegionInv, TypeOK, ResultInv, Supported
  PROVE  RegionInv'
<1>1. /\ prog' = prog /\ DebugInv /\ FetchInv
      /\ (exception_enable_q' <=> exception_enable_d(in)) /\ (csr_enable_q' <=> csr_enable_d(in))
  BY DEF Cycle, CuCycle, ControlInv, exception_enable_d, csr_enable_d
<1>2. id'.v => id'.pc \in Code'
  <2>1. id'.v => (if2.v /\ id'.pc = if2.pc /\ ~Leaving) \/ (id.v /\ id' = id)
    <3>1. Leaving /\ ~exception_enable_q => ~id.v /\ ~answered(in)
      BY <1>1 DEF Leaving, DebugInv, Past, answered, Spent, Input
    <3> QED BY <3>1, IdNext DEF flush_if, flush_exe, answered, Register, Cycle, FetchCycle
  <2> QED BY <2>1, ModeOfStages DEF Past, RegionInv
<1>3. rr'.v => rr'.pc \in Code'
  BY RrNext, ModeOfStages DEF Past, RegionInv
<1>4. exe'.v => exe'.pc \in Code'
  BY ExeNext, ModeOfStages DEF Past, RegionInv
<1>5. wb'.v => wb'.pc \in Code'
  BY WbNext, ModeOfStages DEF Past, RegionInv
<1>6. if2'.v /\ ~Leaving' => if2'.pc \in Code'
  <2> SUFFICES ASSUME if2'.v, ~Leaving' PROVE if2'.pc \in Code
    BY SameMode
  <2>1. ~exception_enable_q /\ ~csr_enable_q /\ ~exception_enable_q'
    BY <1>1, If2Next DEF flush_if, flush_exe, Leaving
  <2>2. ~Leaving
    BY <1>1, <2>1 DEF exception_enable_d, traps_or_returns, Leaving
  <2> QED BY <1>1, <2>1, <2>2, If2Next DEF RegionInv
<1>7. pc_evec_q' \in Code'
  BY EvecStep
<1>8. ~Leaving' => IF csr_enable_q' THEN pc_next_csr_q' \in Code' ELSE pc' \in Code'
  BY PcStep
<1>9. mepc' \in Arch!Word
  <2>1. CASE takes_trap
    <3>1. wb.v /\ ~debug_mode_en_q
      BY <2>1 DEF takes_trap, ex_i, wb_xcpt, csr_xcpt, privilege_violation, insn_break_traps, insn, EnvOps
    <3>2. wb.pc \in Arch!Word /\ pc \in Arch!Word
      BY <3>1, WbCode
    <3> QED BY <2>1, <3>2 DEF Cycle, CsrCycle, csr_pc
  <2>2. CASE ~takes_trap
    BY <2>2 DEF Cycle, CsrCycle, insn, EnvOps, ResultInv, RegionInv
  <2> QED BY <2>1, <2>2
<1>10. dpc_q' \in Arch!Word
  <2>1. EVEC \in Arch!Word /\ mepc \in Arch!Word /\ dpc_q \in Arch!Word
    BY PipelineAssumption DEF Arch!Word, RegionInv
  <2>2. enters_debug(in) # "no" => (wb.v /\ ~debug_mode_en_q) \/ csr_halt_ack(in)
    BY DEF enters_debug, insn, EnvOps, csr_retire, ex_i, wb_xcpt
  <2>3. wb.v /\ ~debug_mode_en_q => wb.pc \in Arch!Word /\ pc \in Arch!Word
    BY WbCode
  <2>4. csr_halt_ack(in) => halt_ack(in) /\ pc \in Arch!Word
    BY <1>1 DEF csr_halt_ack, halt_ack, RegionInv, DebugInv, Code, Leaving
  <2>5. enters_debug(in) # "no" => csr_pc(in) \in Arch!Word
    BY <2>2, <2>3, <2>4 DEF csr_pc
  <2>6. dpc_q' \in {dpc_q, EVEC, mepc} \/ (enters_debug(in) # "no" /\ dpc_q' = csr_pc(in))
    BY DEF Cycle, CsrCycle
  <2> QED BY <2>1, <2>5, <2>6
<1>11. state_debug_q' # "HALTING"
  <2>1. state_debug_q = "RUNNING" =>
          state_debug_q' = IF debug_ebreak_q THEN "HALTED" ELSE IF halt_req(in) THEN "HALTING" ELSE "RUNNING"
    BY DEF Cycle, CuCycle
  <2>2. ~halt_req(in)
    BY DEF halt_req, Input, Supported
  <2> QED BY <2>1, <2>2, StateNext DEF RegionInv
<1>12. state_debug_q' \in {"RESET", "HAVERESET", "RESUME"} => ~exception_enable_q' /\ ~csr_enable_q'
  <2> SUFFICES ASSUME state_debug_q' \in {"HAVERESET", "RESUME"} PROVE ~exception_enable_q' /\ ~csr_enable_q'
    BY StateNext DEF DebugState
  <2>1. /\ state_debug_q \in {"RESET", "HAVERESET", "HALTED"} /\ ~wb.v /\ ~debug_ebreak_q
        /\ state_debug_q = "HAVERESET" => ~halt_ack(in)
    BY <1>1, StateNext DEF DebugInv, Past, settled
  <2>2. ~halt_ack(in) /\ ~resume_ack
    BY <2>1 DEF halt_ack, csr_halt_ack, resume_ack
  <2>3. ~wb_xcpt /\ ~mret /\ ~csr_xcpt /\ ~ecall_taken /\ ~stall_csr_fence(wb)
    BY <2>1 DEF wb_xcpt, mret, csr_xcpt, privilege_violation, insn_break_traps, insn, EnvOps, ecall_taken, stall_csr_fence
  <2> QED BY <1>1, <2>1, <2>2, <2>3 DEF exception_enable_d, csr_enable_d, traps_or_returns, csr_eret
<1>13. step_q' => \E a \in Buffer : prog[a].op = "csrstep"
  <2>1. step_q' => step_q \/ (insn("csrstep") /\ debug_mode_en_q)
    BY DEF Cycle, CsrCycle
  <2> QED BY <2>1 DEF RegionInv, insn, EnvOps, op, Code
<1>14. prog \in Programs
  BY DEF RegionInv
<1> QED BY <1>1, <1>2, <1>3, <1>4, <1>5, <1>6, <1>7, <1>8, <1>9, <1>10, <1>11, <1>12, <1>13, <1>14 DEF RegionInv

\* What execution and the register file compute with words is words.
LEMMA ResultsAreWords ==
  ASSUME TypeOK, RegionInv, ResultInv, Supported
  PROVE  /\ exe.v => exe_result \in Arch!Word
         /\ wb.v => data_wb_rr \in Arch!Word
         /\ \A r \in Arch!Reg : ReadReg(r) \in Arch!Word
<1>1. N \in Nat /\ N > 1 /\ 0 \in Arch!Word /\ 1 \in Arch!Word
  BY PipelineAssumption DEF Arch!Word
<1>2. ASSUME NEW a \in Arch!Word, NEW b \in Arch!Word
      PROVE  Arch!Alu(a, b) \in Arch!Word /\ Arch!Quot(a, b) \in Arch!Word
  <2>1. Arch!Alu(a, b) \in Arch!Word
    BY <1>1, <1>2 DEF Arch!Alu, Arch!Word
  <2>2. b # 0 => a \div b \in 0 .. a
    BY <1>1, <1>2, SMTT(60) DEF Arch!Word
  <2> QED BY <1>1, <1>2, <2>1, <2>2 DEF Arch!Quot, Arch!Word
<1>3. exe.a \in Arch!Word /\ exe.b \in Arch!Word /\ div.a \in Arch!Word /\ div.b \in Arch!Word /\ mem \in Arch!Word
  BY DEF TypeOK
<1>4. exe.v => exe_result \in Arch!Word
  <2>1. exe.v /\ op(exe) \in {"jal", "jalr", "branch", "badjump"} => exe.pc \in Arch!Word
    BY DEF RegionInv, Code, Supported, op, Arch!JumpOps
  <2>2. exe.v /\ op(exe) \in {"jal", "jalr", "branch", "badjump"} => Arch!Succ(exe.pc) \in Arch!Word
    BY <2>1, SuccStays
  <2>3. Arch!Alu(exe.a, exe.b) \in Arch!Word /\ Arch!Quot(div.a, div.b) \in Arch!Word
    BY <1>2, <1>3
  <2> QED BY <1>3, <2>2, <2>3 DEF exe_result
<1>5. wb.v => data_wb_rr \in Arch!Word
  BY <1>1 DEF data_wb_rr, csr_rw_rdata, RegionInv, ResultInv
<1>6. ASSUME NEW r \in Arch!Reg PROVE ReadReg(r) \in Arch!Word
  <2>1. x[r] \in Arch!Word
    BY DEF TypeOK
  <2>2. write_enable => wb.v
    BY DEF write_enable
  <2> QED BY <1>1, <1>5, <2>1, <2>2 DEF ReadReg
<1> QED BY <1>4, <1>5, <1>6

\* The registers keep their types.
LEMMA TypeStep ==
  ASSUME NEW in, Input(in), Cycle(in), ControlInv, RegionInv, TypeOK, ResultInv, Supported
  PROVE  TypeOK' /\ ResultInv'
<1>1. /\ Arch!Word \subseteq Arch!Addr /\ Buffer \subseteq Arch!Addr /\ 0 \in Arch!Word /\ 0 \in Arch!Addr
      /\ Code \subseteq Arch!Addr /\ Code' \subseteq Arch!Addr
  BY PipelineAssumption DEF Arch!Word, Arch!Addr, Buffer, Code
<1>2. ASSUME NEW a \in Arch!Addr
      PROVE  prog[a].rd \in Arch!Reg /\ prog[a].rs1 \in Arch!Reg /\ prog[a].rs2 \in Arch!Reg /\ prog[a].tgt \in Arch!Addr
  <2>1. prog[a] \in Arch!Instr
    BY ProgramsAssumption DEF RegionInv
  <2> QED BY <1>1, <2>1 DEF Arch!Instr
<1>3. \A a \in Arch!Addr : Arch!Succ(a) \in Arch!Addr
  BY PipelineAssumption DEF Arch!Addr, Arch!Succ, Supported
<1>4. RegionInv' /\ ControlInv'
  BY RegionStep, SerialStep, RedirectStep, WaitsStep, DebugStep, StepStep, FetchStep DEF ControlInv
<1>5. pc' \in Arch!Addr
  <2>1. pc \in Arch!Addr /\ pc_evec_q \in Arch!Addr /\ pc_next_csr_q \in Arch!Addr /\ id.pc \in Arch!Addr
    BY DEF TypeOK
  <2>2. branch_addr_result \in Arch!Addr
    <3>1. exe.pc \in Arch!Addr /\ exe.a \in Arch!Addr
      BY <1>1 DEF TypeOK
    <3> QED BY <1>2, <1>3, <3>1 DEF branch_addr_result, Arch!Target
  <2>3. Arch!Succ(pc) \in Arch!Addr /\ prog[id.pc].tgt \in Arch!Addr
    BY <1>2, <1>3, <2>1
  <2>4. pc' \in {pc, Arch!Succ(pc), pc_evec_q, pc_next_csr_q, branch_addr_result, prog[id.pc].tgt, 0}
    BY DEF Cycle, FetchCycle, next_pc
  <2> QED BY <1>1, <2>1, <2>2, <2>3, <2>4
<1>6. resp_q' \in BOOLEAN /\ if2' \in [v : BOOLEAN, pc : Arch!Addr, asked : BOOLEAN]
  <2>1. \/ if2' = [if2 EXCEPT !.asked = @ /\ (~in.resp \/ op(if2) = "ipf")]
        \/ if2' = If2Bubble
        \/ if2' = [v |-> TRUE, pc |-> pc, asked |-> prog[pc].op # "ifault"]
    BY DEF Cycle, FetchCycle, Register
  <2>2. If2Bubble \in [v : BOOLEAN, pc : Arch!Addr, asked : BOOLEAN]
    BY <1>1 DEF If2Bubble
  <2>3. [v |-> TRUE, pc |-> pc, asked |-> prog[pc].op # "ifault"] \in [v : BOOLEAN, pc : Arch!Addr, asked : BOOLEAN]
    BY DEF TypeOK
  <2>4. [if2 EXCEPT !.asked = @ /\ (~in.resp \/ op(if2) = "ipf")] \in [v : BOOLEAN, pc : Arch!Addr, asked : BOOLEAN]
    BY DEF TypeOK
  <2>5. resp_q' \in BOOLEAN
    BY DEF Cycle, FetchCycle
  <2> QED BY <2>1, <2>2, <2>3, <2>4, <2>5
<1>7. {id, rr}' \subseteq [v : BOOLEAN, pc : Arch!Addr]
  <2>1. Bubble \in [v : BOOLEAN, pc : Arch!Addr]
    BY <1>1 DEF Bubble
  <2>2. [v |-> TRUE, pc |-> if2.pc] \in [v : BOOLEAN, pc : Arch!Addr]
    BY DEF TypeOK
  <2>3. id' \in {id, Bubble, [v |-> TRUE, pc |-> if2.pc]} /\ rr' \in {rr, id, Bubble}
    BY DEF Cycle, FetchCycle, StageCycle, Register
  <2> QED BY <2>1, <2>2, <2>3 DEF TypeOK
<1>8. exe' \in [v : BOOLEAN, pc : Arch!Addr, a : Arch!Word, b : Arch!Word, intr : BOOLEAN]
  <2> DEFINE ex == [v |-> TRUE, pc |-> rr.pc, a |-> ReadReg(prog[rr.pc].rs1), b |-> ReadReg(prog[rr.pc].rs2), intr |-> interrupt_q]
  <2>1. exe' \in {exe, ExeBubble, ex}
    BY DEF Cycle, StageCycle, Register
  <2>2. ex \in [v : BOOLEAN, pc : Arch!Addr, a : Arch!Word, b : Arch!Word, intr : BOOLEAN]
    <3>1. rr.pc \in Arch!Addr /\ interrupt_q \in BOOLEAN
      BY DEF TypeOK
    <3>2. ReadReg(prog[rr.pc].rs1) \in Arch!Word /\ ReadReg(prog[rr.pc].rs2) \in Arch!Word
      BY <1>2, <3>1, ResultsAreWords
    <3> QED BY <3>1, <3>2
  <2>3. ExeBubble \in [v : BOOLEAN, pc : Arch!Addr, a : Arch!Word, b : Arch!Word, intr : BOOLEAN]
    BY <1>1 DEF ExeBubble
  <2> QED BY <2>1, <2>2, <2>3 DEF TypeOK
<1>9. wb' \in [v : BOOLEAN, pc : Arch!Addr, res : Arch!Addr, xcpt : BOOLEAN] /\ ResultInv'
  <2> DEFINE w == [v |-> TRUE, pc |-> exe.pc, res |-> exe_result, xcpt |-> exe_xcpt]
  <2>1. wb' \in {wb, WbBubble} \/ (exe.v /\ wb' = w)
    BY DEF Cycle, StageCycle, Register
  <2>2. exe.v => exe_result \in Arch!Word
    BY ResultsAreWords
  <2>3. exe_xcpt \in BOOLEAN /\ exe.pc \in Arch!Addr
    BY DEF exe_xcpt, TypeOK
  <2>4. exe.v => w \in [v : BOOLEAN, pc : Arch!Addr, res : Arch!Addr, xcpt : BOOLEAN] /\ w.res \in Arch!Word
    BY <1>1, <2>2, <2>3
  <2>5. WbBubble \in [v : BOOLEAN, pc : Arch!Addr, res : Arch!Addr, xcpt : BOOLEAN] /\ ~WbBubble.v
    BY <1>1 DEF WbBubble
  <2> HIDE DEF w
  <2> QED BY <2>1, <2>4, <2>5 DEF TypeOK, ResultInv
<1>10. /\ exception_enable_q' \in BOOLEAN /\ csr_enable_q' \in BOOLEAN /\ step_inst_in_pipeline' \in BOOLEAN
       /\ mem_state' \in BOOLEAN
  BY DEF Cycle, CuCycle, MemCycle, exception_enable_d, csr_enable_d
<1>11. /\ pc_evec_q' \in Arch!Addr /\ pc_next_csr_q' \in Arch!Addr /\ dpc_q' \in Arch!Addr /\ mepc' \in Arch!Addr
  <2>1. pc_evec_q' \in Arch!Addr
    BY <1>1, EvecStep
  <2>2. wb.pc \in Arch!Addr /\ pc_next_csr_q' = Arch!Succ(wb.pc)
    BY DEF TypeOK, Cycle, CuCycle
  <2> QED BY <1>1, <1>3, <1>4, <2>1, <2>2 DEF RegionInv
<1>12. state_debug_q' \in DebugState
  BY StateNext
<1>13. div' \in [st : {"IDLE", "OP", "DONE"}, n : 0 .. DIV_N, a : Arch!Word, b : Arch!Word]
  <2>1. /\ div \in [st : {"IDLE", "OP", "DONE"}, n : 0 .. DIV_N, a : Arch!Word, b : Arch!Word]
        /\ exe.a \in Arch!Word /\ exe.b \in Arch!Word
    BY DEF TypeOK
  <2>2. \/ div' = [st |-> "OP", n |-> DIV_N, a |-> exe.a, b |-> exe.b] \/ div' = div
        \/ div' = [div EXCEPT !.st = "DONE"] \/ (div.n # 0 /\ div' = [div EXCEPT !.n = @ - 1])
        \/ div' = [div EXCEPT !.st = "IDLE"]
    BY <2>1 DEF Cycle, DivCycle
  <2>3. DIV_N \in Nat /\ DIV_N \in 0 .. DIV_N
    BY PipelineAssumption
  <2>4. div.n # 0 => div.n - 1 \in 0 .. DIV_N
    BY <2>1, <2>3
  <2> QED BY <2>1, <2>2, <2>3, <2>4
<1>14. x' \in [Arch!Reg -> Arch!Word] /\ mem' \in Arch!Word /\ amem' \in Arch!Word
  <2>1. write_enable => wb.v
    BY DEF write_enable
  <2>2. x' \in [Arch!Reg -> Arch!Word]
    BY <2>1, ResultsAreWords DEF Cycle, RegfileCycle, TypeOK
  <2>3. mem' \in Arch!Word
    BY DEF Cycle, MemCycle, TypeOK
  <2>4. amem' \in Arch!Word
    BY DEF Cycle, RegfileCycle, TypeOK, ResultInv, insn, EnvOps, cut_store
  <2> QED BY <2>2, <2>3, <2>4
<1>15. /\ mie' \in BOOLEAN /\ mpie' \in BOOLEAN /\ interrupt_q' \in BOOLEAN /\ wfi_q' \in BOOLEAN
       /\ debug_mode_en_q' \in BOOLEAN /\ debug_ebreak_q' \in BOOLEAN /\ step_q' \in BOOLEAN
  BY DEF Cycle, CsrCycle, TypeOK, debug_ebreak_d
<1>16. stepped' \in 0 .. 2
  BY DEF Cycle, TypeOK
<1>17. orphan' \in BOOLEAN /\ stale' \in BOOLEAN
  BY DEF Cycle, DivHistory, Register, TypeOK
<1> QED BY <1>5, <1>6, <1>7, <1>8, <1>9, <1>10, <1>11, <1>12, <1>13, <1>14, <1>15, <1>16, <1>17 DEF TypeOK

\* What the core starts with.
LEMMA InitRegion == Supported /\ Init => RegionInv /\ TypeOK /\ ResultInv
<1> SUFFICES ASSUME Supported, Init PROVE RegionInv /\ TypeOK /\ ResultInv
  OBVIOUS
<1>1. 0 \in Arch!Word /\ 0 \in Arch!Addr /\ 0 \in 0 .. DIV_N /\ 0 \in 0 .. 2
  BY PipelineAssumption DEF Arch!Word, Arch!Addr
<1>2. RegionInv /\ ResultInv
  BY <1>1 DEF Init, RegionInv, ResultInv, Code, Leaving, Bubble, ExeBubble, WbBubble, If2Bubble
<1>3. /\ pc \in Arch!Addr /\ resp_q \in BOOLEAN
      /\ if2 \in [v : BOOLEAN, pc : Arch!Addr, asked : BOOLEAN]
      /\ {id, rr} \subseteq [v : BOOLEAN, pc : Arch!Addr]
      /\ exe \in [v : BOOLEAN, pc : Arch!Addr, a : Arch!Word, b : Arch!Word, intr : BOOLEAN]
      /\ wb \in [v : BOOLEAN, pc : Arch!Addr, res : Arch!Addr, xcpt : BOOLEAN]
  <2>1. pc \in Arch!Addr /\ resp_q \in BOOLEAN /\ if2 \in [v : BOOLEAN, pc : Arch!Addr, asked : BOOLEAN]
    BY <1>1 DEF Init, If2Bubble
  <2>2. id \in [v : BOOLEAN, pc : Arch!Addr] /\ rr \in [v : BOOLEAN, pc : Arch!Addr]
    BY <1>1 DEF Init, Bubble
  <2>3. exe \in [v : BOOLEAN, pc : Arch!Addr, a : Arch!Word, b : Arch!Word, intr : BOOLEAN]
    BY <1>1 DEF Init, ExeBubble
  <2>4. wb \in [v : BOOLEAN, pc : Arch!Addr, res : Arch!Addr, xcpt : BOOLEAN]
    BY <1>1 DEF Init, WbBubble
  <2> QED BY <2>1, <2>2, <2>3, <2>4
<1>4. /\ {exception_enable_q, csr_enable_q, step_inst_in_pipeline, mem_state} \subseteq BOOLEAN
      /\ {pc_evec_q, pc_next_csr_q, dpc_q} \subseteq Arch!Addr
      /\ state_debug_q \in DebugState
  BY <1>1 DEF Init, DebugState
<1>5. div \in [st : {"IDLE", "OP", "DONE"}, n : 0 .. DIV_N, a : Arch!Word, b : Arch!Word]
  BY <1>1 DEF Init
<1>6. x \in [Arch!Reg -> Arch!Word] /\ {mem, amem} \subseteq Arch!Word /\ mepc \in Arch!Addr /\ stepped \in 0 .. 2
  BY <1>1 DEF Init
<1>7. /\ {mie, mpie, interrupt_q, wfi_q, debug_mode_en_q, debug_ebreak_q, step_q} \subseteq BOOLEAN
      /\ orphan \in BOOLEAN /\ stale \in BOOLEAN
  BY DEF Init
<1> QED BY <1>2, <1>3, <1>4, <1>5, <1>6, <1>7 DEF TypeOK

\* The invariants of regions and types are inductive together.
LEMMA RegionTypeStep ==
  Supported /\ ControlInv /\ RegionInv /\ TypeOK /\ ResultInv /\ [Next]_vars => RegionInv' /\ TypeOK' /\ ResultInv'
<1> SUFFICES ASSUME Supported, ControlInv, RegionInv, TypeOK, ResultInv, [Next]_vars
             PROVE  RegionInv' /\ TypeOK' /\ ResultInv'
  OBVIOUS
<1>1. CASE UNCHANGED vars
  <2>1. UNCHANGED <<prog, fetchVars, stageVars, cuVars, csrVars, div, mem_state, x, mem, amem, stepped, orphan, stale>>
    BY <1>1 DEF vars
  <2>2. RegionInv' /\ ResultInv'
    BY <2>1 DEF fetchVars, stageVars, cuVars, csrVars, RegionInv, ResultInv, Code, Leaving
  <2>3. TypeOK'
    BY <2>1 DEF fetchVars, stageVars, cuVars, csrVars, TypeOK
  <2> QED BY <2>2, <2>3
<1>2. ASSUME NEW in, Input(in), Cycle(in) PROVE RegionInv' /\ TypeOK' /\ ResultInv'
  BY <1>2, RegionStep, TypeStep
<1> QED BY <1>1, <1>2, StepIsCycle

(* Every register of the pipeline keeps its type: a program counter never  *)
(* leaves the program and the program buffer, the iterations the divider   *)
(* counts down (div_unit.sv) never pass zero, and the debug state machine  *)
(* of control_unit.sv never leaves its states.                             *)
THEOREM TypeCorrect == ASSUME Supported PROVE Spec => []TypeOK
<1>1. Init => ControlInv /\ RegionInv /\ TypeOK /\ ResultInv
  BY InitControl, InitRegion
<1>2. ControlInv /\ RegionInv /\ TypeOK /\ ResultInv /\ [Next]_vars
        => ControlInv' /\ RegionInv' /\ TypeOK' /\ ResultInv'
  BY ControlStep, RegionTypeStep
<1> QED BY <1>1, <1>2, PTL DEF Spec

(* A core that resumes with dcsr.step set writes back one instruction and  *)
(* is in debug mode again (control_unit.sv, csr_bsc.sv): the fetches that  *)
(* follow the first are neither delivered nor written back, whatever the   *)
(* caches, the divider and interrupts do in between.                       *)
THEOREM SingleSteps == ASSUME Supported PROVE Spec => []SingleStep
<1>1. Init => ControlInv /\ RegionInv /\ TypeOK /\ ResultInv /\ SingleStep
  <2>1. Init => SingleStep
    BY DEF Init, SingleStep
  <2> QED BY <2>1, InitControl, InitRegion
<1>2. ControlInv /\ RegionInv /\ TypeOK /\ ResultInv /\ SingleStep /\ [Next]_vars => SingleStep'
  <2> SUFFICES ASSUME ControlInv, RegionInv, TypeOK, SingleStep, [Next]_vars PROVE SingleStep'
    OBVIOUS
  <2>1. CASE UNCHANGED vars
    BY <2>1 DEF vars, csrVars, SingleStep
  <2>2. ASSUME NEW in, Input(in), Cycle(in) PROVE SingleStep'
    <3>1. stepped' = IF resume_ack THEN 0 ELSE IF wb.v /\ wb.pc < N /\ step_q /\ stepped < 2 THEN stepped + 1 ELSE stepped
      BY <2>2 DEF Cycle
    <3>2. stepped \in 0 .. 1 /\ (stepped = 1 => debug_mode_en_q)
      BY DEF SingleStep, TypeOK
    <3>3. CASE resume_ack
      BY <3>1, <3>3 DEF SingleStep
    <3>4. CASE ~resume_ack /\ wb.v /\ wb.pc < N /\ step_q
      <4>1. ~debug_mode_en_q
        BY <3>4, PipelineAssumption DEF RegionInv, Code, Buffer
      <4>2. debug_mode_en_q'
        BY <2>2, <3>4, <4>1, StepEnters
      <4> QED BY <3>1, <3>2, <3>4, <4>1, <4>2 DEF SingleStep
    <3>5. CASE ~resume_ack /\ ~(wb.v /\ wb.pc < N /\ step_q)
      <4>1. debug_mode_en_q => debug_mode_en_q'
        BY <2>2, <3>5, DebugModeNext
      <4> QED BY <3>1, <3>2, <3>5, <4>1 DEF SingleStep
    <3> QED BY <3>3, <3>4, <3>5
  <2> QED BY <2>1, <2>2, StepIsCycle
<1>3. ControlInv /\ RegionInv /\ TypeOK /\ ResultInv /\ [Next]_vars
        => ControlInv' /\ RegionInv' /\ TypeOK' /\ ResultInv'
  BY ControlStep, RegionTypeStep
<1> QED BY <1>1, <1>2, <1>3, PTL DEF Spec

-----------------------------------------------------------------------------
(* The pipeline executes its program.                                      *)

\* What is asked for that: the program buffer changes nothing but dcsr.step, and a program
\* that is stepped does not trap.
OnlySteps ==
  \A p \in Programs :
    /\ \A a \in Buffer : p[a].op \in Arch!WriteOps \cup {"store"} => p[a].op = "csrstep" /\ p[a].rd = 0
    /\ (\E a \in Buffer : p[a].op = "csrstep") => \A a \in Arch!Word : p[a].op \notin Arch!TrapOps
Trapping == {"fault", "illegal", "illmem", "ifault", "ipf"}

\* The address fetched after that of an instruction (that of a page fault may be fetched
\* again), and the one executed after it, with these registers.
Fetched(p) == IF prog[p].op = "jal" THEN prog[p].tgt ELSE Arch!Succ(p)
After(p)   == IF prog[p].op = "ipf" THEN {p, Arch!Succ(p)} ELSE {Fetched(p)}
NextOf(p, regs) ==
  LET i == prog[p]
  IN  IF Arch!Taken(i, regs[i.rs1], regs[i.rs2]) THEN Arch!Target(i, regs[i.rs1]) ELSE Fetched(p)

\* What is behind one of these is not executed, and need not be what follows it.
Turns(s) == stall_csr_fence(s) \/ (s.v /\ op(s) \in Arch!JumpOps)
VoidWb   == stall_csr_fence(wb) \/ wb_xcpt
VoidExe  == VoidWb \/ Turns(exe)
VoidRr   == VoidExe \/ Turns(rr)
VoidId   == VoidRr \/ Turns(id) \/ valid_jal

\* The address of the oldest instruction in a stage or behind it.  While the core is
\* stepped, IF2 keeps the instruction it has delivered.
AtIf2 == IF if2.v /\ ~(step_q /\ Spent) THEN if2.pc ELSE pc
AtId  == IF id.v THEN id.pc ELSE AtIf2
AtRr  == IF rr.v THEN rr.pc ELSE AtId
AtExe == IF exe.v THEN exe.pc ELSE AtRr
AtWb  == IF wb.v THEN wb.pc ELSE AtExe

\* The stages hold the program in its order.
Running == ~debug_mode_en_q /\ ~exception_enable_q /\ ~csr_enable_q
OrderInv ==
  Running =>
    /\ if2.v /\ ~VoidId  => pc = Arch!Succ(if2.pc)
    /\ id.v /\ ~VoidId   => AtIf2 \in After(id.pc)
    /\ rr.v /\ ~VoidRr   => AtId \in After(rr.pc)
    /\ exe.v /\ ~VoidExe => AtRr \in After(exe.pc)
    /\ wb.v /\ ~VoidWb   => AtExe = NextOf(wb.pc, x)

\* The operands in EXE are those the instructions before left.
OperandInv ==
  /\ x[0] = 0
  /\ exe.v => /\ exe.a = x[prog[exe.pc].rs1] /\ exe.b = x[prog[exe.pc].rs2]
              /\ \A r \in {prog[exe.pc].rs1, prog[exe.pc].rs2} \ {0} : ~Writes(wb, r)

\* The result in WB is that of its instruction.
ResultOf(p) ==
  LET i == prog[p]
  IN  CASE i.op = "alu" -> Arch!Alu(x[i.rs1], x[i.rs2])
        [] i.op = "div" -> Arch!Quot(x[i.rs1], x[i.rs2])
        [] i.op = "load" -> amem
        [] i.op = "store" -> x[i.rs2]
        [] i.op \in {"jal", "jalr"} -> Arch!Succ(p)
        [] i.op \in Arch!CsrOps -> x[i.rs1]
        [] OTHER -> wb.res
WriteInv ==
  wb.v => /\ wb.xcpt => op(wb) \in Trapping \cup {"badjump"} \/ (mie /\ ~step_q)
          /\ ~wb.xcpt => op(wb) \notin Trapping \cup {"badjump"} /\ (~stale => wb.res = ResultOf(wb.pc))
          /\ stale => op(wb) = "div"

\* An interrupt in the pipeline is still enabled.
IrqInv ==
  /\ rr.v /\ interrupt_q => mie
  /\ exe.v /\ exe.intr => mie
  /\ interrupt_q \/ (exe.v /\ exe.intr) => IRQ /\ ~step_q

\* The divider works for the instruction in EXE, or for one that was flushed.
DivInv ==
  div.st # "IDLE" /\ ~orphan =>
    exe.v /\ op(exe) = "div" /\ div.a = exe.a /\ div.b = exe.b /\ ~wb.v

\* The instruction that is stepped is in the pipeline once; who serialises leaves the
\* address behind it in IF1, where the debugger finds it.
StepOrder ==
  /\ step_inst_in_pipeline =>
       step_q /\ (state_debug_q = "RUNNING" \/ (state_debug_q = "HALTED" /\ exception_enable_q))
  /\ Running /\ step_q =>
       /\ if2.v /\ Spent => Past
       /\ step_inst_in_pipeline /\ if2.v => Spent
       /\ stall_csr_fence(id) => pc = Arch!Succ(id.pc)
       /\ stall_csr_fence(rr) => pc = Arch!Succ(rr.pc)
       /\ stall_csr_fence(exe) => pc = Arch!Succ(exe.pc)
       /\ stall_csr_fence(wb) => pc = Arch!Succ(wb.pc)

IsaInv == OrderInv /\ OperandInv /\ WriteInv /\ IrqInv /\ DivInv /\ StepOrder

\* The instructions have their types.
LEMMA InstrTypes ==
  ASSUME RegionInv, NEW a \in Arch!Addr
  PROVE  /\ prog[a] \in Arch!Instr /\ prog[a].rd \in Arch!Reg /\ prog[a].rs1 \in Arch!Reg /\ prog[a].rs2 \in Arch!Reg
         /\ 0 \in Arch!Reg
<1>1. prog[a] \in Arch!Instr
  BY ProgramsAssumption DEF RegionInv
<1> QED BY <1>1 DEF Arch!Instr, Arch!Reg

\* A program that is stepped does not trap.
LEMMA SteppedCode ==
  ASSUME RegionInv, OnlySteps, step_q, NEW a \in Arch!Word
  PROVE  prog[a].op \notin Arch!TrapOps
BY DEF RegionInv, OnlySteps

\* dcsr.step changes in debug mode, by an instruction that is alone in the pipeline.
LEMMA StepStays ==
  ASSUME NEW in, Input(in), Cycle(in), ControlInv, TypeOK, Past' \/ ~debug_mode_en_q \/ ~wb.v
  PROVE  step_q' = step_q
<1>1. ~(insn("csrstep") /\ debug_mode_en_q)
  BY SerialWbEmpties DEF insn, EnvOps, stall_csr_fence, Arch!CsrOps
<1> QED BY <1>1 DEF Cycle, CsrCycle

\* Whatever changes the interrupt enable flushes the pipeline or ends alone in it.
LEMMA MieStays ==
  ASSUME NEW in, Input(in), Cycle(in), ControlInv, Past'
  PROVE  mie' = mie
<1>1. ~wb_xcpt /\ ~stall_csr_fence(wb)
  BY FlushEmpties, SerialWbEmpties DEF flush_exe, ControlInv
<1>2. ~takes_trap /\ ~mret /\ ~insn("csrmie")
  BY <1>1 DEF takes_trap, ex_i, csr_xcpt, privilege_violation, insn_break_traps, mret, insn, EnvOps, wb_xcpt, stall_csr_fence,
              Arch!CsrOps
<1> QED BY <1>2 DEF Cycle, CsrCycle

\* A register that the instruction in write-back does not write stays.
LEMMA RegisterStays ==
  ASSUME NEW in, Cycle(in), TypeOK, NEW r \in Arch!Reg, r # 0 => ~Writes(wb, r)
  PROVE  x'[r] = x[r] /\ (r # 0 => ReadReg(r) = x[r])
<1>1. x' = IF write_enable /\ prog[wb.pc].rd # 0 THEN [x EXCEPT ![prog[wb.pc].rd] = data_wb_rr] ELSE x
  BY DEF Cycle, RegfileCycle
<1>2. write_enable => Writes(wb, prog[wb.pc].rd)
  BY DEF write_enable, Writes
<1>3. x \in [Arch!Reg -> Arch!Word]
  BY DEF TypeOK
<1> QED BY <1>1, <1>2, <1>3 DEF ReadReg

\* What EXE holds next, with its operands.
LEMMA ExeLoads ==
  ASSUME NEW in, Cycle(in), exe'.v, ~csr_stall, ~exe_stall(in)
  PROVE  /\ rr.v /\ ~data_dependency(in)
         /\ exe' = [v |-> TRUE, pc |-> rr.pc, a |-> ReadReg(prog[rr.pc].rs1), b |-> ReadReg(prog[rr.pc].rs2), intr |-> interrupt_q]
BY Holds, Flushes DEF Cycle, StageCycle, Register, ExeBubble

\* An instruction leaves RR with its operands written.
LEMMA OperandStep ==
  ASSUME NEW in, Input(in), Cycle(in), ControlInv, RegionInv, TypeOK, OperandInv
  PROVE  OperandInv'
<1>1. prog' = prog /\ exe.pc \in Arch!Addr /\ rr.pc \in Arch!Addr
  BY DEF Cycle, TypeOK
<1>2. x'[0] = 0
  BY RegisterStays DEF OperandInv, Arch!Reg
<1>3. CASE exe'.v /\ (csr_stall \/ exe_stall(in)) /\ exe' = exe
  <2>1. exe.v /\ ~csr_stall /\ exe_stall(in)
    BY <1>3 DEF ControlInv, Waits, Past, csr_stall
  <2>2. ~wb'.v
    BY <2>1, WbNext
  <2>3. ASSUME NEW r \in {prog[exe.pc].rs1, prog[exe.pc].rs2} PROVE x'[r] = x[r]
    BY <1>1, <2>1, InstrTypes, RegisterStays DEF OperandInv
  <2> QED BY <1>1, <1>2, <1>3, <2>1, <2>2, <2>3 DEF OperandInv, Writes
<1>4. CASE exe'.v /\ ~csr_stall /\ ~exe_stall(in)
  <2>1. /\ rr.v /\ ~data_dependency(in)
        /\ exe' = [v |-> TRUE, pc |-> rr.pc, a |-> ReadReg(prog[rr.pc].rs1), b |-> ReadReg(prog[rr.pc].rs2), intr |-> interrupt_q]
    BY <1>4, ExeLoads
  <2>2. \A r \in {prog[rr.pc].rs1, prog[rr.pc].rs2} \ {0} : ~Writes(exe, r) /\ ~Writes(wb, r)
    BY <2>1 DEF data_dependency
  <2>3. ASSUME NEW r \in {prog[rr.pc].rs1, prog[rr.pc].rs2} PROVE ReadReg(r) = x'[r]
    <3>1. r \in Arch!Reg
      BY <1>1, InstrTypes
    <3>2. CASE r = 0
      BY <1>2, <3>2 DEF ReadReg
    <3>3. CASE r # 0
      BY <2>2, <3>1, <3>3, RegisterStays
    <3> QED BY <3>2, <3>3
  <2>4. wb'.v => wb'.pc = exe.pc /\ exe.v
    BY <1>4, WbNext
  <2>5. \A r \in {prog[rr.pc].rs1, prog[rr.pc].rs2} \ {0} : ~Writes(wb, r)'
    BY <1>1, <2>2, <2>4 DEF Writes, regfile_we, op, Arch!WriteOps, Arch!CsrOps
  <2>6. exe'.pc = rr.pc /\ exe'.a = ReadReg(prog[rr.pc].rs1) /\ exe'.b = ReadReg(prog[rr.pc].rs2)
    BY <2>1
  <2> QED BY <1>1, <1>2, <2>3, <2>5, <2>6 DEF OperandInv
<1>5. CASE ~exe'.v
  BY <1>2, <1>5 DEF OperandInv
<1> QED BY <1>3, <1>4, <1>5, ExeNext

\* Interrupts are sampled while enabled.
LEMMA IrqStep ==
  ASSUME NEW in, Input(in), Cycle(in), ControlInv, TypeOK, IrqInv
  PROVE  IrqInv'
<1>1. interrupt_q' => mie /\ IRQ /\ ~step_q'
  BY StepStays DEF Cycle, CsrCycle, Input
<1>2. Past' => mie' = mie /\ step_q' = step_q
  BY MieStays, StepStays
<1>3. exe'.v => (exe.v /\ exe'.intr = exe.intr) \/ (rr.v /\ exe'.intr = interrupt_q)
  BY ExeNext, ExeLoads
<1> QED BY <1>1, <1>2, <1>3 DEF IrqInv, Past

\* What write-back takes is what the instruction set says.
LEMMA WriteStep ==
  ASSUME NEW in, Input(in), Cycle(in), ControlInv, RegionInv, TypeOK, MemInv, OperandInv, IrqInv, DivInv
  PROVE  WriteInv'
<1> SUFFICES ASSUME wb'.v
             PROVE  /\ wb'.xcpt => op(wb)' \in Trapping \cup {"badjump"} \/ (mie' /\ ~step_q')
                    /\ ~wb'.xcpt => op(wb)' \notin Trapping \cup {"badjump"} /\ (~stale' => wb'.res = ResultOf(wb.pc)')
                    /\ stale' => op(wb)' = "div"
  BY DEF WriteInv
<1>1. /\ ~csr_stall /\ exe.v /\ ~exe_stall(in)
      /\ wb' = [v |-> TRUE, pc |-> exe.pc, res |-> exe_result, xcpt |-> exe_xcpt]
  <2>1. csr_stall => ~wb.v
    BY DEF ControlInv, Waits, Past, csr_stall
  <2> QED BY <2>1, WbNext
<1>2. wb'.pc = exe.pc /\ wb'.res = exe_result /\ wb'.xcpt = exe_xcpt /\ op(wb)' = op(exe) /\ prog' = prog
  BY <1>1 DEF Cycle, op
<1>3. mie' = mie /\ step_q' = step_q
  BY MieStays, StepStays DEF Past
<1>4. exe_xcpt => op(exe) \in Trapping \cup {"badjump"} \/ (mie /\ ~step_q)
  BY <1>1 DEF exe_xcpt, decode_ex, Trapping, IrqInv
<1>5. ~exe_xcpt => op(exe) \notin Trapping \cup {"badjump"}
  BY DEF exe_xcpt, decode_ex, Trapping
<1> DEFINE i == prog[exe.pc]
<1>6. exe.a = x'[i.rs1] /\ exe.b = x'[i.rs2]
  <2>1. exe.pc \in Arch!Addr
    BY DEF TypeOK
  <2> QED BY <1>1, <2>1, InstrTypes, RegisterStays DEF OperandInv
<1>7. /\ stale' => op(exe) = "div"
      /\ op(exe) = "div" /\ ~stale' => div.a = exe.a /\ div.b = exe.b
  <2>1. ~flush_exe
    BY WbNext
  <2>2. stale' <=> op(exe) = "div" /\ orphan
    BY <1>1, <2>1, Holds, Flushes DEF Cycle, DivHistory, Register
  <2> QED BY <1>1, <2>2 DEF exe_stall, DivInv
<1>8. op(exe) = "load" => mem = amem'
  <2> SUFFICES ASSUME op(exe) = "load" PROVE mem = amem'
    OBVIOUS
  <2>1. ~flush_exe
    BY WbNext
  <2>2. mem_state
    BY <1>1, <2>1 DEF exe_stall, mem_stall, unit_mem, Arch!MemOps
  <2>3. ~wb.v
    BY <2>2 DEF MemInv
  <2> QED BY <2>3 DEF MemInv, Performed, Stored, Cycle, RegfileCycle, insn, EnvOps, cut_store
<1>9. ASSUME ~stale' PROVE wb'.res = ResultOf(wb.pc)'
  <2> DEFINE r == CASE i.op = "alu" -> Arch!Alu(x'[i.rs1], x'[i.rs2])
        [] i.op = "div" -> Arch!Quot(x'[i.rs1], x'[i.rs2])
        [] i.op = "load" -> amem'
        [] i.op = "store" -> x'[i.rs2]
        [] i.op \in {"jal", "jalr"} -> Arch!Succ(exe.pc)
        [] i.op \in Arch!CsrOps -> x'[i.rs1]
        [] OTHER -> wb'.res
  <2>1. ResultOf(wb.pc)' = r
    BY <1>2 DEF ResultOf, Arch!Alu, Arch!Quot, Arch!Succ, Arch!CsrOps
  <2>2. op(exe) = i.op
    BY DEF op
  <2>3. r = exe_result
    BY <1>2, <1>6, <1>7, <1>8, <1>9, <2>2 DEF exe_result, Arch!CsrOps
  <2> QED BY <1>2, <2>1, <2>3
<1> QED BY <1>2, <1>3, <1>4, <1>5, <1>7, <1>9

\* While nothing asks to redirect fetch, what follows is in the pipeline for good.
LEMMA Quiet ==
  ASSUME NEW in, Input(in), Cycle(in), ControlInv, RegionInv, TypeOK, Supported, Running', if2'.v \/ Past'
  PROVE  /\ Running /\ ~VoidWb /\ ~flush_exe /\ ~csr_stall /\ ~on_halt_state(in) /\ ~parked /\ ~retry_fetch
         /\ ~traps_or_returns(in) /\ step_q' = step_q /\ (step_q => ~wb.v)
<1>1. /\ DebugInv /\ FetchInv /\ Waits
      /\ ~exception_enable_d(in) /\ ~csr_enable_d(in) /\ ~debug_mode_en_q'
  BY DEF ControlInv, Cycle, CuCycle, Running
<1>2. ~flush_exe /\ ~stall_csr_fence(wb)
  BY <1>1, FlushEmpties, SerialWbEmpties
<1>3. ~VoidWb /\ ~exception_enable_q /\ ~csr_enable_q /\ ~traps_or_returns(in)
  BY <1>1, <1>2 DEF flush_exe, VoidWb, exception_enable_d
<1>4. ~debug_mode_en_q
  BY <1>1, <1>3, DebugModeNext DEF traps_or_returns, csr_eret
<1>5. ~csr_stall
  <2>1. csr_stall => ~if2.v /\ ~Past /\ held_if1(in)
    BY <1>1 DEF Waits, csr_stall, held_if1
  <2> QED BY <1>1, <2>1, EmptyStays, If2Next
<1>6. ~on_halt_state(in)
  <2>1. CASE state_debug_q = "RESET"
    <3>1. ~if2.v /\ ~Past /\ held_if1(in)
      BY <1>1, <2>1 DEF DebugInv, held_if1, on_halt_state
    <3> QED BY <1>1, <3>1, EmptyStays, If2Next
  <2>2. CASE state_debug_q # "RESET"
    BY <1>1, <1>3, <1>4, <2>2 DEF on_halt_state, DebugInv, RegionInv, traps_or_returns, halt_ack
  <2> QED BY <2>1, <2>2
<1>7. ~parked /\ ~retry_fetch
  BY <1>1, <1>3, <1>4 DEF DebugInv, parked, retry_fetch
<1>8. step_q' = step_q /\ (step_q => ~wb.v)
  BY <1>1, <1>4, StepStays, StepEnters
<1> QED BY <1>2, <1>3, <1>4, <1>5, <1>6, <1>7, <1>8 DEF Running

\* Where the stages then get their instructions.
LEMMA Advance ==
  ASSUME NEW in, Cycle(in), FetchInv, ~flush_exe, ~csr_stall
  PROVE  /\ wb'.v <=> exe.v /\ ~exe_stall(in)
         /\ wb'.v => wb'.pc = exe.pc /\ wb'.xcpt = exe_xcpt
         /\ ~mispredict => /\ exe'.v <=> IF exe_stall(in) THEN exe.v ELSE rr.v /\ ~data_dependency(in)
                           /\ exe'.v => exe'.pc = IF exe_stall(in) THEN exe.pc ELSE rr.pc
                           /\ rr' = IF held_id(in) THEN rr ELSE id
         /\ ~flush_if(in) => /\ IF held_id(in) THEN id' = id ELSE (id'.v <=> answered(in)) /\ (id'.v => id'.pc = if2.pc)
                             /\ IF held_if1(in) THEN (if2'.v <=> if2.v) /\ if2'.pc = if2.pc
                                ELSE (if2'.v <=> ~parked /\ ~retry_fetch) /\ (if2'.v => if2'.pc = pc)
<1>1. /\ wb'.v <=> exe.v /\ ~exe_stall(in)
      /\ wb'.v => wb'.pc = exe.pc /\ wb'.xcpt = exe_xcpt
  BY Holds, Flushes DEF Cycle, StageCycle, Register, WbBubble
<1>2. ASSUME ~mispredict
      PROVE  /\ exe'.v <=> IF exe_stall(in) THEN exe.v ELSE rr.v /\ ~data_dependency(in)
             /\ exe'.v => exe'.pc = IF exe_stall(in) THEN exe.pc ELSE rr.pc
             /\ rr' = IF held_id(in) THEN rr ELSE id
  BY <1>2, Holds, Flushes DEF Cycle, StageCycle, Register, ExeBubble
<1>3. ASSUME ~flush_if(in)
      PROVE  IF held_id(in) THEN id' = id ELSE (id'.v <=> answered(in)) /\ (id'.v => id'.pc = if2.pc)
  BY <1>3, Holds, Flushes DEF Cycle, FetchCycle, Register, Bubble, answered
<1>4. ASSUME ~flush_if(in)
      PROVE  IF held_if1(in) THEN (if2'.v <=> if2.v) /\ if2'.pc = if2.pc
             ELSE (if2'.v <=> ~parked /\ ~retry_fetch) /\ (if2'.v => if2'.pc = pc)
  <2>1. CASE held_if1(in)
    <3>1. if2' = [if2 EXCEPT !.asked = @ /\ (~in.resp \/ op(if2) = "ipf")]
      BY <1>4, <2>1, Holds, Flushes DEF Cycle, FetchCycle, Register
    <3> QED BY <2>1, <3>1 DEF FetchInv
  <2>2. CASE ~held_if1(in)
    BY <1>4, <2>2, Holds, Flushes DEF Cycle, FetchCycle, Register, If2Bubble
  <2> QED BY <2>1, <2>2
<1> QED BY <1>1, <1>2, <1>3, <1>4

\* Where fetch then goes.
LEMMA FetchGoes ==
  ASSUME NEW in, Cycle(in), Running, ~VoidWb, ~traps_or_returns(in)
  PROVE  pc' = IF mispredict THEN branch_addr_result
               ELSE IF valid_jal THEN prog[id.pc].tgt
               ELSE IF held_if1(in) \/ stall_csr_fence(id) \/ stall_csr_fence(exe) \/ (stall_csr_fence(rr) /\ ~data_dependency(in))
               THEN pc ELSE Arch!Succ(pc)
<1>1. jump_enable <=> mispredict \/ valid_jal
  BY DEF traps_or_returns, jump_enable
<1>2. ~(wb.v /\ op(wb) = "fence")
  BY DEF VoidWb, stall_csr_fence, EnvOps
<1> QED BY <1>1, <1>2, Holds DEF Cycle, FetchCycle, next_pc, Running, held_if1

\* Behind a jump in EXE comes what it says.
LEMMA OrderAtJump ==
  ASSUME NEW in, Input(in), Cycle(in), ControlInv, RegionInv, TypeOK, OperandInv, ~flush_exe, mispredict,
         pc' = branch_addr_result
  PROVE  OrderInv'
<1>1. prog' = prog /\ FetchInv /\ exe.v /\ ~csr_stall /\ op(exe) \in Arch!JumpOps /\ exe.pc \in Arch!Addr
  BY DEF Cycle, ControlInv, mispredict, TypeOK
<1>2. ~if2'.v /\ ~id'.v /\ ~rr'.v /\ ~exe'.v
  BY <1>1, If2Next, IdNext, RrNext, ExeNext DEF flush_if
<1>3. wb'.v => wb'.pc = exe.pc
  BY <1>1, Advance
<1> DEFINE i == prog[exe.pc]
<1>4. exe.a = x'[i.rs1] /\ exe.b = x'[i.rs2]
  BY <1>1, InstrTypes, RegisterStays DEF OperandInv
<1>5. NextOf(exe.pc, x') = branch_addr_result
  BY <1>1, <1>4 DEF NextOf, Fetched, branch_addr_result, Arch!JumpOps, op
<1>6. wb'.v => NextOf(wb.pc, x)' = pc'
  <2>1. wb'.v => NextOf(wb.pc, x)' = NextOf(exe.pc, x')
    BY <1>1, <1>3 DEF NextOf, Fetched, Arch!Taken, Arch!Target, Arch!Succ
  <2> QED BY <1>5, <2>1
<1>7. AtExe' = pc'
  BY <1>2 DEF AtExe, AtRr, AtId, AtIf2
<1> QED BY <1>2, <1>6, <1>7 DEF OrderInv

\* The instructions that turn the flow keep doing so as they advance.
LEMMA TurnsMove ==
  ASSUME NEW in, Cycle(in), FetchInv, Running, Running', ~flush_exe, ~csr_stall, ~mispredict
  PROVE  /\ held_id(in) => (Turns(rr)' <=> Turns(rr))
         /\ ~held_id(in) => (Turns(rr)' <=> Turns(id))
         /\ exe_stall(in) => (Turns(exe)' <=> Turns(exe))
         /\ ~held_id(in) => (Turns(exe)' <=> Turns(rr))
         /\ held_id(in) /\ ~flush_if(in) => (Turns(id)' <=> Turns(id)) /\ (valid_jal' <=> valid_jal)
         /\ wb'.v /\ stall_csr_fence(exe) => VoidWb'
         /\ exe.v => op(exe) \notin Arch!JumpOps
<1>1. prog' = prog /\ ~debug_mode_en_q /\ ~debug_mode_en_q'
  BY DEF Cycle, Running
<1>2. held_id(in) <=> exe_stall(in) \/ data_dependency(in)
  BY DEF held_id
<1>3. (held_id(in) => rr' = rr) /\ (~held_id(in) => rr' = id)
  BY Advance
<1>4. (held_id(in) => (Turns(rr)' <=> Turns(rr))) /\ (~held_id(in) => (Turns(rr)' <=> Turns(id)))
  BY <1>1, <1>3 DEF Turns, stall_csr_fence, EnvOps, op, Arch!CsrOps, Arch!JumpOps
<1>5. exe_stall(in) => (exe'.v <=> exe.v) /\ (exe'.v => exe'.pc = exe.pc)
  BY Advance
<1>6. ~held_id(in) => (exe'.v <=> rr.v) /\ (exe'.v => exe'.pc = rr.pc)
  BY <1>2, Advance
<1>7. (exe_stall(in) => (Turns(exe)' <=> Turns(exe))) /\ (~held_id(in) => (Turns(exe)' <=> Turns(rr)))
  BY <1>1, <1>5, <1>6 DEF Turns, stall_csr_fence, EnvOps, op, Arch!CsrOps, Arch!JumpOps
<1>8. held_id(in) /\ ~flush_if(in) => id' = id
  BY Advance
<1>9. held_id(in) /\ ~flush_if(in) => (Turns(id)' <=> Turns(id)) /\ (valid_jal' <=> valid_jal)
  BY <1>1, <1>8 DEF Turns, stall_csr_fence, EnvOps, op, valid_jal, Arch!CsrOps, Arch!JumpOps
<1>10. wb'.v /\ stall_csr_fence(exe) => VoidWb'
  BY <1>1, Advance DEF VoidWb, stall_csr_fence, EnvOps, op, Arch!CsrOps
<1> QED BY <1>4, <1>7, <1>9, <1>10 DEF mispredict

\* What is written back without a trap is followed by what was behind it in EXE.
LEMMA OrderOfWb ==
  ASSUME NEW in, Input(in), Cycle(in), ControlInv, OrderInv, Running, Running', ~VoidWb, ~flush_exe, ~csr_stall,
         ~mispredict, AtExe' = AtRr, wb'.v, ~VoidWb'
  PROVE  AtExe' = NextOf(wb.pc, x)'
<1>1. prog' = prog /\ exe.v /\ wb'.pc = exe.pc /\ wb'.xcpt = exe_xcpt
  BY Advance DEF Cycle, ControlInv
<1>2. ~exe_xcpt
  BY <1>1 DEF VoidWb, wb_xcpt
<1>3. op(exe) \notin Arch!JumpOps \cup {"ipf"} /\ ~Turns(exe)
  BY <1>1, <1>2, TurnsMove DEF exe_xcpt, decode_ex, ControlInv, Turns
<1>4. AtRr \in After(exe.pc)
  BY <1>1, <1>3 DEF OrderInv, VoidExe
<1>5. AtRr = NextOf(exe.pc, x')
  BY <1>1, <1>3, <1>4 DEF op, After, Fetched, NextOf, Arch!Taken, Arch!JumpOps
<1>6. NextOf(exe.pc, x') = NextOf(wb.pc, x)'
  BY <1>1 DEF NextOf, Fetched, Arch!Taken, Arch!Target, Arch!Succ
<1> QED BY <1>5, <1>6

\* An instruction in IF2 is delivered only when ID takes it.
LEMMA SpentHeld ==
  ASSUME NEW in, Input(in), Cycle(in), ControlInv, ~flush_if(in), if2.v, held_id(in) \/ miss_icache(in)
  PROVE  if2'.v /\ (Spent' <=> Spent)
<1>1. FetchInv /\ prog' = prog /\ held_if1(in)
  BY DEF ControlInv, Cycle, held_id, held_if1
<1>2. if2' = [if2 EXCEPT !.asked = @ /\ (~in.resp \/ op(if2) = "ipf")]
  BY <1>1, Holds, Flushes DEF Cycle, FetchCycle, Register
<1>3. if2'.v /\ if2'.pc = if2.pc /\ if2'.asked = (if2.asked /\ (~in.resp \/ op(if2) = "ipf"))
  BY <1>1, <1>2 DEF FetchInv
<1>4. resp_q' <=> in.resp \/ resp_q
  BY Holds, Flushes DEF Cycle, FetchCycle
<1> QED BY <1>1, <1>3, <1>4 DEF Spent, Input, op

\* What fetch has just asked for is still to be delivered.
LEMMA FreshNotSpent ==
  ASSUME NEW in, Cycle(in), ~held_if1(in), if2'.v
  PROVE  ~Spent'
<1>1. prog' = prog /\ if2' = [v |-> TRUE, pc |-> pc, asked |-> prog[pc].op # "ifault"]
  BY Holds, Flushes DEF Cycle, FetchCycle, Register, If2Bubble
<1> QED BY <1>1 DEF Spent, op

\* What is to be delivered next stays so while it is not.
LEMMA NextHeld ==
  ASSUME NEW in, Input(in), Cycle(in), ControlInv, ~flush_if(in), ~flush_exe, ~csr_stall, held_if1(in),
         held_id(in) \/ ~answered(in), pc' = pc, step_q' = step_q
  PROVE  AtIf2' = AtIf2
<1>1. (if2'.v <=> if2.v) /\ if2'.pc = if2.pc
  BY Advance DEF ControlInv
<1>2. if2.v => (Spent' <=> Spent)
  BY SpentHeld DEF answered, miss_icache
<1> QED BY <1>1, <1>2 DEF AtIf2

\* What is to be delivered next is what ID, or IF2, then holds.
LEMMA NextMoves ==
  ASSUME NEW in, Input(in), Cycle(in), ControlInv, StepOrder, Running, ~VoidWb, ~flush_exe, ~csr_stall, ~mispredict,
         ~held_id(in), ~parked, ~retry_fetch, step_q' = step_q,
         ~stall_csr_fence(id), ~stall_csr_fence(rr), ~stall_csr_fence(exe), ~valid_jal,
         pc' = IF held_if1(in) THEN pc ELSE Arch!Succ(pc)
  PROVE  AtId' = AtIf2
<1>1. FetchInv /\ (flush_if(in) => step_inst_in_pipeline)
  BY DEF ControlInv, flush_if, serialising, VoidWb, stall_csr_fence, EnvOps
<1>2. CASE flush_if(in)
  <2>1. ~if2'.v /\ ~id'.v /\ pc' = pc
    BY <1>1, <1>2, If2Next, IdNext DEF held_if1
  <2>2. AtIf2 = pc
    BY <1>1, <1>2 DEF StepOrder, AtIf2
  <2> QED BY <2>1, <2>2 DEF AtId, AtIf2
<1>3. CASE ~flush_if(in) /\ answered(in)
  <2>1. id'.v /\ id'.pc = if2.pc
    BY <1>1, <1>3, Advance
  <2>2. if2.v /\ ~Spent
    BY <1>3 DEF answered, Spent, Input
  <2> QED BY <2>1, <2>2 DEF AtId, AtIf2
<1>4. CASE ~flush_if(in) /\ ~answered(in) /\ held_if1(in)
  <2>1. ~id'.v
    BY <1>1, <1>4, Advance
  <2> QED BY <1>4, <2>1, NextHeld DEF AtId
<1>5. CASE ~flush_if(in) /\ ~answered(in) /\ ~held_if1(in)
  <2>1. ~id'.v /\ ~if2.v /\ if2'.v /\ if2'.pc = pc
    BY <1>1, <1>5, Advance DEF held_if1, answered, miss_icache
  <2>2. ~Spent'
    BY <1>5, <2>1, FreshNotSpent
  <2> QED BY <2>1, <2>2 DEF AtId, AtIf2
<1> QED BY <1>2, <1>3, <1>4, <1>5

\* The stages that are held stay in order.
LEMMA OrderHeld ==
  ASSUME NEW in, Input(in), Cycle(in), ControlInv, OrderInv, Running, Running', ~VoidWb, ~flush_exe, ~csr_stall,
         ~mispredict, held_id(in), pc' = IF valid_jal THEN prog[id.pc].tgt ELSE pc, step_q' = step_q
  PROVE  OrderInv'
<1>1. prog' = prog /\ FetchInv /\ ~flush_if(in) /\ held_if1(in)
  BY DEF Cycle, ControlInv, flush_if, held_if1, held_id
<1>2. id' = id /\ rr' = rr /\ (if2'.v <=> if2.v) /\ if2'.pc = if2.pc
  BY <1>1, Advance
<1>3. /\ Turns(rr)' <=> Turns(rr)
      /\ Turns(id)' <=> Turns(id)
      /\ valid_jal' <=> valid_jal
  BY <1>1, TurnsMove
<1>4. ~valid_jal => pc' = pc /\ AtIf2' = AtIf2
  BY <1>1, NextHeld
<1>5. AtId' = AtId /\ AtRr' = AtRr
  <2>1. ~id.v => AtIf2' = AtIf2
    BY <1>4 DEF valid_jal
  <2> QED BY <1>2, <2>1 DEF AtRr, AtId
<1>6. CASE exe_stall(in)
  <2>1. ~wb'.v /\ (exe'.v <=> exe.v) /\ (exe'.v => exe'.pc = exe.pc) /\ (Turns(exe)' <=> Turns(exe))
    BY <1>1, <1>6, Advance, TurnsMove
  <2>2. ~VoidWb'
    BY <2>1 DEF VoidWb, stall_csr_fence, EnvOps, wb_xcpt
  <2>3. (VoidExe' <=> VoidExe) /\ (VoidRr' <=> VoidRr) /\ (VoidId' <=> VoidId)
    BY <1>3, <2>1, <2>2 DEF VoidExe, VoidRr, VoidId
  <2>4. if2'.v /\ ~VoidId' => pc' = Arch!Succ(if2.pc)'
    BY <1>2, <1>4, <2>3 DEF OrderInv, VoidId, Arch!Succ
  <2>5. id'.v /\ ~VoidId' => AtIf2' \in After(id.pc)'
    BY <1>1, <1>2, <1>4, <2>3 DEF OrderInv, VoidId, After, Fetched, Arch!Succ
  <2>6. rr'.v /\ ~VoidRr' => AtId' \in After(rr.pc)'
    BY <1>1, <1>2, <1>5, <2>3 DEF OrderInv, After, Fetched, Arch!Succ
  <2>7. exe'.v /\ ~VoidExe' => AtRr' \in After(exe.pc)'
    BY <1>1, <1>5, <2>1, <2>3 DEF OrderInv, After, Fetched, Arch!Succ
  <2> QED BY <2>1, <2>4, <2>5, <2>6, <2>7 DEF OrderInv
<1>7. CASE ~exe_stall(in)
  <2>1. ~exe'.v /\ (wb'.v <=> exe.v) /\ AtExe' = AtRr
    <3>1. ~exe'.v /\ (wb'.v <=> exe.v)
      BY <1>1, <1>7, Advance DEF held_id
    <3> QED BY <1>5, <3>1 DEF AtExe
  <2>2. ~VoidWb' => ~VoidExe
    BY <1>1, <2>1, TurnsMove DEF VoidExe, Turns, stall_csr_fence, EnvOps
  <2>3. (~VoidRr' => ~VoidRr) /\ (~VoidId' => ~VoidId)
    BY <1>3, <2>2 DEF VoidExe, VoidRr, VoidId
  <2>4. if2'.v /\ ~VoidId' => pc' = Arch!Succ(if2.pc)'
    BY <1>2, <1>4, <2>3 DEF OrderInv, VoidId, Arch!Succ
  <2>5. id'.v /\ ~VoidId' => AtIf2' \in After(id.pc)'
    BY <1>1, <1>2, <1>4, <2>3 DEF OrderInv, VoidId, After, Fetched, Arch!Succ
  <2>6. rr'.v /\ ~VoidRr' => AtId' \in After(rr.pc)'
    BY <1>1, <1>2, <1>5, <2>3 DEF OrderInv, After, Fetched, Arch!Succ
  <2>7. wb'.v /\ ~VoidWb' => AtExe' = NextOf(wb.pc, x)'
    BY <2>1, OrderOfWb
  <2> QED BY <2>1, <2>4, <2>5, <2>6, <2>7 DEF OrderInv
<1> QED BY <1>6, <1>7

\* The stages advance in order.
LEMMA OrderMoves ==
  ASSUME NEW in, Input(in), Cycle(in), ControlInv, RegionInv, OnlySteps, OrderInv, StepOrder, Running, Running', ~VoidWb,
         ~flush_exe, ~csr_stall, ~mispredict, ~held_id(in), ~parked, ~retry_fetch, ~on_halt_state(in), step_q' = step_q,
         pc' = IF valid_jal THEN prog[id.pc].tgt
               ELSE IF held_if1(in) \/ stall_csr_fence(id) \/ stall_csr_fence(exe) \/ (stall_csr_fence(rr) /\ ~data_dependency(in))
               THEN pc ELSE Arch!Succ(pc)
  PROVE  OrderInv'
<1>1. prog' = prog /\ FetchInv /\ Serial /\ ~exe_stall(in) /\ ~data_dependency(in)
  BY DEF Cycle, ControlInv, held_id
<1>2. /\ wb'.v <=> exe.v
      /\ exe'.v <=> rr.v
      /\ exe'.v => exe'.pc = rr.pc
      /\ rr' = id
  BY <1>1, Advance
<1>3. /\ Turns(rr)' <=> Turns(id)
      /\ Turns(exe)' <=> Turns(rr)
      /\ wb'.v /\ stall_csr_fence(exe) => VoidWb'
      /\ Turns(exe) => stall_csr_fence(exe)
  BY <1>1, TurnsMove DEF Turns
<1>4. /\ ~VoidWb' => ~VoidExe
      /\ ~VoidExe' => ~VoidRr
      /\ ~VoidRr' /\ ~valid_jal => ~VoidId
  BY <1>2, <1>3 DEF VoidExe, VoidRr, VoidId, stall_csr_fence, EnvOps
<1>5. CASE stall_csr_fence(exe)
  <2>1. ~if2.v /\ ~id.v /\ ~rr.v /\ exe.v /\ flush_if(in) /\ ~answered(in)
    BY <1>1, <1>5 DEF Serial, flush_if, serialising, stall_csr_fence, EnvOps, answered
  <2>2. ~if2'.v /\ ~id'.v /\ ~rr'.v /\ ~exe'.v /\ VoidWb'
    BY <1>1, <1>2, <1>3, <1>5, <2>1, If2Next, IdNext
  <2> QED BY <2>2 DEF OrderInv
<1>6. CASE ~stall_csr_fence(exe) /\ (stall_csr_fence(id) \/ stall_csr_fence(rr) \/ valid_jal)
  <2>1. flush_if(in)
    BY <1>1, <1>6 DEF flush_if, serialising
  <2>2. ~if2'.v /\ ~id'.v
    BY <1>1, <2>1, If2Next, IdNext
  <2>3. AtId' = pc' /\ (id.v => AtRr' = AtId) /\ AtExe' = AtRr
    <3>1. AtId' = pc'
      BY <2>2 DEF AtId, AtIf2
    <3>2. id.v => AtRr' = AtId
      BY <1>2 DEF AtRr, AtId
    <3>3. rr.v \/ id.v
      BY <1>6 DEF stall_csr_fence, EnvOps, valid_jal
    <3> QED BY <1>2, <3>1, <3>2, <3>3 DEF AtExe, AtRr
  <2>4. rr'.v /\ ~VoidRr' => AtId' \in After(rr.pc)'
    <3> SUFFICES ASSUME rr'.v, ~VoidRr' PROVE AtId' \in After(rr.pc)'
      OBVIOUS
    <3>1. valid_jal
      BY <1>2, <1>3, <1>6 DEF VoidRr, VoidExe, Turns
    <3>2. pc' = Fetched(id.pc) /\ op(id) # "ipf"
      BY <3>1 DEF valid_jal, Fetched, op
    <3> QED BY <1>1, <1>2, <2>3, <3>2 DEF After, Fetched, Arch!Succ, op
  <2>5. exe'.v /\ ~VoidExe' => AtRr' \in After(exe.pc)'
    <3> SUFFICES ASSUME exe'.v, ~VoidExe' PROVE AtRr' \in After(exe.pc)'
      OBVIOUS
    <3>1. id.v
      BY <1>3, <1>6 DEF VoidExe, Turns, stall_csr_fence, EnvOps, valid_jal
    <3>2. AtId \in After(rr.pc)
      BY <1>2, <1>4 DEF OrderInv
    <3> QED BY <1>1, <1>2, <2>3, <3>1, <3>2 DEF After, Fetched, Arch!Succ
  <2>6. wb'.v /\ ~VoidWb' => AtExe' = NextOf(wb.pc, x)'
    BY <2>3, OrderOfWb
  <2> QED BY <2>2, <2>4, <2>5, <2>6 DEF OrderInv
<1>7. CASE ~stall_csr_fence(exe) /\ ~stall_csr_fence(id) /\ ~stall_csr_fence(rr) /\ ~valid_jal
  <2>1. pc' = IF held_if1(in) THEN pc ELSE Arch!Succ(pc)
    BY <1>7
  <2>2. AtId' = AtIf2 /\ AtRr' = AtId /\ AtExe' = AtRr
    <3>1. AtId' = AtIf2
      BY <1>7, <2>1, NextMoves
    <3>2. AtRr' = AtId
      BY <1>2, <3>1 DEF AtRr, AtId
    <3> QED BY <1>2, <3>1, <3>2 DEF AtExe, AtRr
  <2>3. ~VoidId' => ~VoidId
    BY <1>4, <1>7 DEF VoidId
  <2>4. if2'.v /\ ~VoidId' => pc' = Arch!Succ(if2.pc)'
    <3>1. if2'.v => IF held_if1(in) THEN if2.v /\ if2'.pc = if2.pc ELSE if2'.pc = pc
      BY <1>1, If2Next
    <3> QED BY <2>1, <2>3, <3>1 DEF OrderInv, Arch!Succ
  <2>5. id'.v /\ ~VoidId' => AtIf2' \in After(id.pc)'
    <3> SUFFICES ASSUME id'.v, ~VoidId' PROVE AtIf2' \in After(id.pc)'
      OBVIOUS
    <3>1. if2.v /\ id'.pc = if2.pc /\ answered(in) /\ ~flush_if(in) /\ pc = Arch!Succ(if2.pc)
      BY <2>3, IdNext DEF answered, OrderInv
    <3>2. op(if2) # "jal"
      BY <1>1, <3>1 DEF VoidId, valid_jal, op
    <3>3. AtIf2' = pc => AtIf2' \in After(id.pc)'
      BY <1>1, <3>1, <3>2 DEF After, Fetched, Arch!Succ, op
    <3>4. CASE held_if1(in) /\ ~step_q
      <4>1. op(if2) = "ipf"
        BY <3>1, <3>4 DEF held_if1, answered, miss_icache, Input, VoidWb, held_id, StepOrder, step_inst_in_if2, step_running
      <4>2. if2'.v /\ if2'.pc = if2.pc
        BY <1>1, <3>1, <3>4, Advance
      <4> QED BY <1>1, <3>1, <3>4, <4>1, <4>2 DEF AtIf2, After, op
    <3>5. CASE held_if1(in) /\ step_q
      <4>1. if2'.v
        BY <1>1, <3>1, <3>5, Advance
      <4>2. if2.pc \in Arch!Word
        BY <3>1 DEF RegionInv, Code, Running, ControlInv, DebugInv, Leaving
      <4>3. ~Faulting(if2)
        BY <3>5, <4>2, SteppedCode DEF Faulting, op, Arch!TrapOps
      <4>4. Spent'
        BY <3>1, <3>5, <4>1, <4>3, SpentStays
      <4>5. AtIf2' = pc
        BY <2>1, <3>5, <4>4 DEF AtIf2
      <4> QED BY <3>3, <4>5
    <3>6. CASE ~held_if1(in)
      <4>1. if2'.v /\ if2'.pc = pc
        BY <1>1, <3>1, <3>6, Advance
      <4>2. ~Spent'
        BY <3>6, <4>1, FreshNotSpent
      <4>3. AtIf2' = pc
        BY <4>1, <4>2 DEF AtIf2
      <4> QED BY <3>3, <4>3
    <3> QED BY <3>4, <3>5, <3>6
  <2>6. rr'.v /\ ~VoidRr' => AtId' \in After(rr.pc)'
    BY <1>1, <1>2, <1>4, <1>7, <2>2 DEF OrderInv, After, Fetched, Arch!Succ
  <2>7. exe'.v /\ ~VoidExe' => AtRr' \in After(exe.pc)'
    BY <1>1, <1>2, <1>4, <2>2 DEF OrderInv, After, Fetched, Arch!Succ
  <2>8. wb'.v /\ ~VoidWb' => AtExe' = NextOf(wb.pc, x)'
    BY <2>2, OrderOfWb
  <2> QED BY <2>4, <2>5, <2>6, <2>7, <2>8 DEF OrderInv
<1> QED BY <1>5, <1>6, <1>7

\* The stages hold the program in its order.
LEMMA OrderStep ==
  ASSUME NEW in, Input(in), Cycle(in), ControlInv, RegionInv, TypeOK, Supported, OnlySteps, OrderInv, OperandInv, StepOrder
  PROVE  OrderInv'
<1>1. CASE ~(Running' /\ (if2'.v \/ Past'))
  BY <1>1 DEF OrderInv, Past
<1>2. CASE Running' /\ (if2'.v \/ Past')
  <2>1. /\ Running /\ ~VoidWb /\ ~flush_exe /\ ~csr_stall /\ ~on_halt_state(in) /\ ~parked /\ ~retry_fetch
        /\ ~traps_or_returns(in) /\ step_q' = step_q
    BY <1>2, Quiet
  <2>2. pc' = IF mispredict THEN branch_addr_result
              ELSE IF valid_jal THEN prog[id.pc].tgt
              ELSE IF held_if1(in) \/ stall_csr_fence(id) \/ stall_csr_fence(exe) \/ (stall_csr_fence(rr) /\ ~data_dependency(in))
              THEN pc ELSE Arch!Succ(pc)
    BY <2>1, FetchGoes
  <2>3. CASE mispredict
    BY <2>1, <2>2, <2>3, OrderAtJump
  <2>4. CASE ~mispredict /\ held_id(in)
    <3>1. held_if1(in)
      BY <2>4 DEF held_id, held_if1
    <3> QED BY <1>2, <2>1, <2>2, <2>4, <3>1, OrderHeld
  <2>5. CASE ~mispredict /\ ~held_id(in)
    BY <1>2, <2>1, <2>2, <2>5, OrderMoves
  <2> QED BY <2>3, <2>4, <2>5
<1> QED BY <1>1, <1>2

\* Something in the pipeline goes on to the next stage, or stays.
LEMMA PastStays ==
  ASSUME NEW in, Cycle(in), FetchInv, ~flush_if(in), ~csr_stall, id.v \/ rr.v \/ exe.v
  PROVE  Past'
<1>1. ~flush_exe /\ ~mispredict
  BY DEF flush_if
<1> QED BY <1>1, Advance DEF Past, held_id

\* The instruction that is stepped stays the only one.
LEMMA StepOrderStep ==
  ASSUME NEW in, Input(in), Cycle(in), ControlInv, RegionInv, TypeOK, Supported, OnlySteps, OrderInv, StepOrder
  PROVE  StepOrder'
<1>1. /\ Serial /\ DebugInv /\ FetchInv /\ StepInv /\ prog' = prog
      /\ step_inst_in_pipeline' = (~(wb_xcpt \/ exception_enable_q) /\ (step_inst_in_id \/ step_inst_in_pipeline))
      /\ exception_enable_q' <=> exception_enable_d(in)
  BY DEF ControlInv, Cycle, CuCycle, exception_enable_d
<1>2. ASSUME step_inst_in_pipeline'
      PROVE  step_q' /\ (state_debug_q' = "RUNNING" \/ (state_debug_q' = "HALTED" /\ exception_enable_q'))
  <2>1. step_q /\ state_debug_q = "RUNNING" /\ ~exception_enable_q
    BY <1>1, <1>2 DEF step_inst_in_id, step_running, StepOrder, DebugInv, Past
  <2>2. step_q'
    BY <1>1, <2>1, StepStays DEF DebugInv, Past
  <2>3. state_debug_q' = IF debug_ebreak_q THEN "HALTED" ELSE IF halt_req(in) THEN "HALTING" ELSE "RUNNING"
    BY <2>1 DEF Cycle, CuCycle
  <2>4. ~halt_req(in)
    BY DEF halt_req, Input, Supported
  <2>5. debug_ebreak_q => exception_enable_q'
    BY <1>1, <2>1 DEF exception_enable_d, traps_or_returns
  <2> QED BY <2>2, <2>3, <2>4, <2>5
<1>3. ASSUME Running', step_q', if2'.v \/ Past'
      PROVE  /\ if2'.v /\ Spent' => Past'
             /\ step_inst_in_pipeline' /\ if2'.v => Spent'
             /\ stall_csr_fence(id)' => pc' = Arch!Succ(id.pc)'
             /\ stall_csr_fence(rr)' => pc' = Arch!Succ(rr.pc)'
             /\ stall_csr_fence(exe)' => pc' = Arch!Succ(exe.pc)'
             /\ stall_csr_fence(wb)' => pc' = Arch!Succ(wb.pc)'
  <2>1. /\ Running /\ ~VoidWb /\ ~flush_exe /\ ~csr_stall /\ ~parked /\ ~retry_fetch
        /\ ~traps_or_returns(in) /\ step_q /\ ~wb.v
    BY <1>3, Quiet
  <2>2. ASSUME NEW a \in Arch!Word PROVE prog[a].op \notin {"ifault", "ipf"}
    BY <2>1, SteppedCode DEF Arch!TrapOps
  <2>3. /\ if2.v => if2.pc \in Arch!Word
        /\ id.v => id.pc \in Arch!Word
        /\ rr.v => rr.pc \in Arch!Word
        /\ exe.v => exe.pc \in Arch!Word
    BY <1>1, <2>1 DEF RegionInv, Code, Running, DebugInv, Leaving
  <2>4. /\ if2.v => ~Faulting(if2)
        /\ id.v => ~Faulting(id)
        /\ rr.v => ~Faulting(rr)
        /\ exe.v => ~Faulting(exe)
    BY <2>2, <2>3 DEF Faulting, op
  <2>5. if2.v => Spent \/ (~id.v /\ ~rr.v /\ ~exe.v)
    BY <1>1, <2>1, <2>4 DEF StepInv, OlderFault, Running
  <2>6. state_debug_q = "RUNNING" /\ id.v => if2.v
    BY <1>1, <2>1 DEF StepInv, Running
  <2>7. if2'.v /\ Spent' => Past'
    <3> SUFFICES ASSUME if2'.v, Spent' PROVE Past'
      OBVIOUS
    <3>1. ~flush_if(in) /\ held_if1(in) /\ if2.v
      BY <1>1, If2Next, FreshNotSpent
    <3>2. CASE Spent
      BY <1>1, <2>1, <3>1, <3>2, PastStays DEF StepOrder, Past
    <3>3. CASE ~Spent
      <4>1. ~held_id(in) /\ ~miss_icache(in)
        BY <3>1, <3>3, SpentHeld
      <4>2. id'.v
        BY <1>1, <2>1, <3>1, <4>1, Advance DEF miss_icache, answered
      <4> QED BY <4>2 DEF Past
    <3> QED BY <3>2, <3>3
  <2>8. step_inst_in_pipeline' /\ if2'.v => Spent'
    <3> SUFFICES ASSUME step_inst_in_pipeline', if2'.v PROVE Spent'
      OBVIOUS
    <3>1. step_inst_in_id \/ step_inst_in_pipeline
      BY <1>1
    <3>2. CASE step_inst_in_pipeline
      <4>1. held_if1(in)
        BY <3>2 DEF held_if1
      <4>2. Spent
        BY <1>1, <2>1, <3>2, <4>1, If2Next DEF StepOrder
      <4> QED BY <4>1, <4>2, SpentStays
    <3>3. CASE step_inst_in_id
      <4>1. id.v /\ if2.v /\ step_running
        BY <1>1, <2>6, <3>3 DEF step_inst_in_id, step_running, DebugInv, Past
      <4>2. held_if1(in) /\ Spent
        BY <2>5, <4>1 DEF held_if1, step_inst_in_if2
      <4> QED BY <4>2, SpentStays
    <3> QED BY <3>1, <3>2, <3>3
  <2>9. pc' = IF mispredict THEN branch_addr_result
              ELSE IF valid_jal THEN prog[id.pc].tgt
              ELSE IF held_if1(in) \/ stall_csr_fence(id) \/ stall_csr_fence(exe) \/ (stall_csr_fence(rr) /\ ~data_dependency(in))
              THEN pc ELSE Arch!Succ(pc)
    BY <2>1, FetchGoes
  <2>10. ASSUME ~mispredict, stall_csr_fence(id) \/ stall_csr_fence(rr) \/ stall_csr_fence(exe)
         PROVE  pc' = pc
    <3>1. ~valid_jal
      BY <1>1, <2>10 DEF Serial, valid_jal, stall_csr_fence, EnvOps, Arch!CsrOps
    <3>2. stall_csr_fence(rr) /\ data_dependency(in) => held_if1(in)
      BY DEF held_if1
    <3> QED BY <2>9, <2>10, <3>1, <3>2
  <2>11. stall_csr_fence(id)' => pc' = Arch!Succ(id.pc)'
    <3> SUFFICES ASSUME stall_csr_fence(id)' PROVE pc' = Arch!Succ(id.pc)'
      OBVIOUS
    <3>1. id'.v /\ ~flush_if(in) /\ ~mispredict
      BY IdNext DEF stall_csr_fence, EnvOps, flush_if
    <3>2. CASE id' = id
      <4>1. stall_csr_fence(id)
        BY <1>1, <1>3, <2>1, <3>2 DEF Running, stall_csr_fence, EnvOps, op, Arch!CsrOps
      <4> QED BY <2>1, <2>10, <3>1, <3>2, <4>1 DEF StepOrder, Arch!Succ
    <3>3. CASE answered(in) /\ id'.pc = if2.pc
      <4>1. if2.v /\ ~Spent
        BY <3>3 DEF answered, Spent, Input
      <4>2. ~id.v /\ ~rr.v /\ ~exe.v
        BY <2>5, <4>1
      <4>3. ~VoidId
        BY <2>1, <4>2 DEF VoidId, VoidRr, VoidExe, Turns, valid_jal, stall_csr_fence, EnvOps
      <4>4. pc = Arch!Succ(if2.pc)
        BY <2>1, <4>1, <4>3 DEF OrderInv
      <4>5. held_if1(in)
        BY <1>1, <2>1, <4>1 DEF held_if1, step_inst_in_if2, step_running, DebugInv, DebugState, RegionInv, Running
      <4>6. pc' = pc
        BY <2>9, <3>1, <4>2, <4>5 DEF valid_jal
      <4> QED BY <3>3, <4>4, <4>6 DEF Arch!Succ
    <3> QED BY <3>1, <3>2, <3>3, IdNext
  <2>12. stall_csr_fence(rr)' => pc' = Arch!Succ(rr.pc)'
    <3> SUFFICES ASSUME stall_csr_fence(rr)' PROVE pc' = Arch!Succ(rr.pc)'
      OBVIOUS
    <3>1. rr'.v /\ ~mispredict /\ (rr' = rr \/ rr' = id)
      BY RrNext DEF stall_csr_fence, EnvOps
    <3>2. (rr' = rr /\ stall_csr_fence(rr)) \/ (rr' = id /\ stall_csr_fence(id))
      BY <1>1, <1>3, <2>1, <3>1 DEF Running, stall_csr_fence, EnvOps, op, Arch!CsrOps
    <3> QED BY <2>1, <2>10, <3>1, <3>2 DEF StepOrder, Arch!Succ
  <2>13. stall_csr_fence(exe)' => pc' = Arch!Succ(exe.pc)'
    <3> SUFFICES ASSUME stall_csr_fence(exe)' PROVE pc' = Arch!Succ(exe.pc)'
      OBVIOUS
    <3>1. exe'.v /\ ~mispredict /\ (exe' = exe \/ (rr.v /\ exe'.pc = rr.pc))
      BY ExeNext DEF stall_csr_fence, EnvOps
    <3>2. (exe' = exe /\ stall_csr_fence(exe)) \/ (exe'.pc = rr.pc /\ stall_csr_fence(rr))
      BY <1>1, <1>3, <2>1, <3>1 DEF Running, stall_csr_fence, EnvOps, op, Arch!CsrOps
    <3> QED BY <2>1, <2>10, <3>1, <3>2 DEF StepOrder, Arch!Succ
  <2>14. stall_csr_fence(wb)' => pc' = Arch!Succ(wb.pc)'
    <3> SUFFICES ASSUME stall_csr_fence(wb)' PROVE pc' = Arch!Succ(wb.pc)'
      OBVIOUS
    <3>1. exe.v /\ wb'.pc = exe.pc
      BY <1>1, <2>1, Advance DEF stall_csr_fence, EnvOps
    <3>2. stall_csr_fence(exe) /\ ~mispredict
      BY <1>1, <1>3, <2>1, <3>1 DEF Running, stall_csr_fence, EnvOps, op, mispredict, Arch!CsrOps, Arch!JumpOps
    <3> QED BY <2>1, <2>10, <3>1, <3>2 DEF StepOrder, Arch!Succ
  <2> QED BY <2>7, <2>8, <2>11, <2>12, <2>13, <2>14
<1>4. ~if2'.v /\ ~Past' => ~stall_csr_fence(id)' /\ ~stall_csr_fence(rr)' /\ ~stall_csr_fence(exe)' /\ ~stall_csr_fence(wb)'
  BY DEF Past, stall_csr_fence, EnvOps
<1> QED BY <1>2, <1>3, <1>4 DEF StepOrder

\* The divider gives no quotient of another instruction, but of one that was flushed.
LEMMA DivStep ==
  ASSUME NEW in, Input(in), Cycle(in), ControlInv, TypeOK, DivInv
  PROVE  DivInv'
<1> SUFFICES ASSUME div'.st # "IDLE", ~orphan'
             PROVE  exe'.v /\ op(exe)' = "div" /\ div'.a = exe'.a /\ div'.b = exe'.b /\ ~wb'.v
  BY DEF DivInv
<1>1. /\ prog' = prog /\ Waits /\ DIV_N \in Nat
      /\ div \in [st : {"IDLE", "OP", "DONE"}, n : 0 .. DIV_N, a : Arch!Word, b : Arch!Word]
  BY PipelineAssumption DEF Cycle, ControlInv, TypeOK
<1> DEFINE request == exe.v /\ op(exe) = "div"
<1>2. /\ div.st = "IDLE" => div' = IF request THEN [st |-> "OP", n |-> DIV_N, a |-> exe.a, b |-> exe.b] ELSE div
      /\ div.st = "OP" => div' = IF div.n = 0 THEN [div EXCEPT !.st = "DONE"] ELSE [div EXCEPT !.n = @ - 1]
      /\ div.st = "DONE" => div' = [div EXCEPT !.st = "IDLE"]
  BY DEF Cycle, DivCycle
<1>3. ~orphan /\ (request => ~flush_exe)
  BY Flushes DEF Cycle, DivHistory
<1>4. ASSUME request, div.st # "DONE"
      PROVE  exe' = exe /\ ~wb'.v
  <2>1. ~csr_stall /\ exe_stall(in) /\ ~mispredict
    BY <1>1, <1>4 DEF Waits, Past, csr_stall, exe_stall, mispredict, Arch!JumpOps
  <2> QED BY <1>3, <1>4, <2>1, Holds, Flushes DEF Cycle, StageCycle, Register, WbBubble
<1>5. CASE div.st = "IDLE"
  <2>1. request /\ div' = [st |-> "OP", n |-> DIV_N, a |-> exe.a, b |-> exe.b]
    BY <1>2, <1>5
  <2>2. div'.a = exe.a /\ div'.b = exe.b
    BY <2>1
  <2> QED BY <1>1, <1>4, <1>5, <2>1, <2>2 DEF op
<1>6. CASE div.st = "OP"
  <2>1. request /\ div.a = exe.a /\ div.b = exe.b
    BY <1>3, <1>6 DEF DivInv
  <2>2. div'.a = div.a /\ div'.b = div.b
    BY <1>1, <1>2, <1>6
  <2> QED BY <1>1, <1>4, <1>6, <2>1, <2>2 DEF op
<1>7. div.st # "DONE"
  BY <1>1, <1>2
<1> QED BY <1>1, <1>5, <1>6, <1>7

\* Behind an empty EXE the oldest instruction stays the oldest.
LEMMA OldestBehindExe ==
  ASSUME NEW in, Input(in), Cycle(in), ControlInv, StepOrder, Running, ~flush_exe, ~csr_stall, ~exe.v, ~VoidWb,
         ~parked, ~retry_fetch, step_q' = step_q,
         pc' = IF valid_jal THEN prog[id.pc].tgt
               ELSE IF held_if1(in) \/ stall_csr_fence(id) \/ stall_csr_fence(exe) \/ (stall_csr_fence(rr) /\ ~data_dependency(in))
               THEN pc ELSE Arch!Succ(pc)
  PROVE  AtExe' = AtRr
<1>1. FetchInv /\ ~mispredict /\ ~exe_stall(in) /\ ~stall_csr_fence(exe)
  BY DEF ControlInv, mispredict, exe_stall, stall_csr_fence, EnvOps
<1>2. CASE held_id(in)
  <2>1. ~flush_if(in) /\ held_if1(in) /\ data_dependency(in)
    BY <1>1, <1>2 DEF flush_if, held_if1, held_id
  <2>2. ~exe'.v /\ rr' = rr /\ id' = id
    BY <1>1, <1>2, <2>1, Advance
  <2>3. ~id.v => AtIf2' = AtIf2
    BY <1>2, <2>1, NextHeld DEF valid_jal
  <2> QED BY <2>2, <2>3 DEF AtExe, AtRr, AtId
<1>3. CASE ~held_id(in)
  <2>1. (exe'.v <=> rr.v) /\ (exe'.v => exe'.pc = rr.pc) /\ rr' = id
    BY <1>1, <1>3, Advance DEF held_id
  <2>2. CASE rr.v \/ id.v
    BY <2>1, <2>2 DEF AtExe, AtRr, AtId
  <2>3. CASE ~rr.v /\ ~id.v
    <3>1. ~valid_jal /\ ~stall_csr_fence(id) /\ ~stall_csr_fence(rr)
      BY <2>3 DEF stall_csr_fence, EnvOps, valid_jal
    <3>2. AtId' = AtIf2
      BY <1>1, <1>3, <3>1, NextMoves
    <3> QED BY <2>1, <2>3, <3>2 DEF AtExe, AtRr, AtId
  <2> QED BY <2>2, <2>3
<1> QED BY <1>2, <1>3

\* The instruction behind the one that is written back is the oldest then.
LEMMA OldestStays ==
  ASSUME NEW in, Input(in), Cycle(in), ControlInv, TypeOK, StepOrder, Running, Running', ~VoidWb
  PROVE  AtWb' = AtExe
<1>1. FetchInv /\ Waits /\ DebugInv /\ ~flush_exe /\ ~retry_fetch /\ ~parked /\ ~traps_or_returns(in)
  BY DEF ControlInv, Cycle, CuCycle, Running, VoidWb, flush_exe, retry_fetch, parked, DebugInv, exception_enable_d
<1>2. pc' = IF mispredict THEN branch_addr_result
            ELSE IF valid_jal THEN prog[id.pc].tgt
            ELSE IF held_if1(in) \/ stall_csr_fence(id) \/ stall_csr_fence(exe) \/ (stall_csr_fence(rr) /\ ~data_dependency(in))
            THEN pc ELSE Arch!Succ(pc)
  BY <1>1, FetchGoes
<1>3. CASE csr_stall
  <2>1. ~if2.v /\ ~Past /\ held_if1(in) /\ ~valid_jal /\ ~mispredict
    BY <1>1, <1>3 DEF Waits, csr_stall, held_if1, valid_jal, mispredict, Past
  <2>2. ~if2'.v /\ ~Past' /\ pc' = pc
    BY <1>1, <1>2, <2>1, If2Next, EmptyStays
  <2> QED BY <2>1, <2>2 DEF Past, AtWb, AtExe, AtRr, AtId, AtIf2
<1>4. CASE ~csr_stall /\ exe.v
  <2>1. CASE exe_stall(in)
    <3>1. ~mispredict
      BY <2>1 DEF exe_stall, mispredict, unit_mem, Arch!MemOps, Arch!JumpOps
    <3>2. ~wb'.v /\ exe'.v /\ exe'.pc = exe.pc
      BY <1>1, <1>4, <2>1, <3>1, Advance
    <3> QED BY <1>4, <3>2 DEF AtWb, AtExe
  <2>2. CASE ~exe_stall(in)
    <3>1. wb'.v /\ wb'.pc = exe.pc
      BY <1>1, <1>4, <2>2, Advance
    <3> QED BY <1>4, <3>1 DEF AtWb, AtExe
  <2> QED BY <2>1, <2>2
<1>5. CASE ~csr_stall /\ ~exe.v
  <2>1. ~mispredict /\ ~wb'.v
    BY <1>1, <1>5, Advance DEF mispredict
  <2>2. step_q' = step_q
    BY StepStays DEF Running
  <2>3. AtExe' = AtRr
    BY <1>1, <1>2, <1>5, <2>1, <2>2, OldestBehindExe
  <2> QED BY <1>5, <2>1, <2>3 DEF AtWb, AtExe
<1> QED BY <1>3, <1>4, <1>5

\* While the core runs, the next instruction is the oldest one.
LEMMA NextIsOldest ==
  ASSUME StepOrder, Running
  PROVE  ArchPc = AtWb
<1>1. if2.v /\ step_q /\ Spent => Past
  BY DEF StepOrder
<1> QED BY <1>1 DEF Running, ArchPc, AtWb, AtExe, AtRr, AtId, AtIf2, Past

\* The program buffer has no stores.
LEMMA NoCutStore ==
  ASSUME RegionInv, OnlySteps
  PROVE  ~cut_store
BY DEF RegionInv, OnlySteps, Code, cut_store, op

\* What a cycle that writes nothing back leaves alone.
LEMMA NothingRetired ==
  ASSUME NEW in, Input(in), Cycle(in), ControlInv, RegionInv, TypeOK, OnlySteps, StepOrder, StepOrder', ~wb.v
  PROVE  UNCHANGED Arch!isaVars
<1>1. /\ ~wb_xcpt /\ ~takes_trap /\ ~mret /\ ~csr_xcpt /\ ~ecall_taken /\ ~stall_csr_fence(wb) /\ ~VoidWb
      /\ ~write_enable /\ ~ex_i /\ ~csr_retire
      /\ \A o : ~insn(o)
  BY DEF wb_xcpt, takes_trap, ex_i, csr_xcpt, privilege_violation, insn_break_traps, insn, EnvOps, mret, ecall_taken,
         stall_csr_fence, VoidWb, write_enable, csr_retire
<1>2. prog' = prog /\ x' = x /\ amem' = amem
  BY <1>1, NoCutStore DEF Cycle, RegfileCycle
<1>3. mepc' = mepc /\ mie' = mie /\ mpie' = mpie
  BY <1>1 DEF Cycle, CsrCycle, TypeOK
<1>4. /\ DebugInv /\ FetchInv /\ Redirect /\ state_debug_q # "HALTING"
      /\ state_debug_q \in {"RESET", "HAVERESET", "RESUME"} => ~exception_enable_q /\ ~csr_enable_q
  BY DEF ControlInv, RegionInv
<1>5. /\ exception_enable_q' = exception_enable_d(in) /\ ~csr_enable_q'
      /\ pc_evec_q' = csr_evec(in) /\ pc' = next_pc(in)
  BY <1>1 DEF Cycle, CuCycle, FetchCycle, csr_enable_d
<1>6. ArchPc' = ArchPc
  <2>1. CASE csr_halt_ack(in)
    <3>1. state_debug_q = "HAVERESET" /\ halt_ack(in)
      BY <1>4, <2>1 DEF csr_halt_ack, halt_ack
    <3>2. ~exception_enable_q /\ ~csr_enable_q /\ ~debug_mode_en_q /\ ~if2.v /\ ~Past
      BY <1>4, <3>1 DEF DebugInv
    <3>3. ArchPc = pc
      BY <3>2 DEF ArchPc, Past
    <3>4. debug_mode_en_q' /\ enters_debug(in) = "halt"
      BY <2>1, DebugModeNext
    <3>5. dpc_q' = pc
      BY <3>1, <3>4 DEF Cycle, CsrCycle, csr_pc
    <3> QED BY <3>3, <3>4, <3>5 DEF ArchPc
  <2>2. CASE ~csr_halt_ack(in) /\ debug_mode_en_q
    <3>1. enters_debug(in) = "no"
      BY <1>1, <2>2 DEF enters_debug
    <3>2. CASE resume_ack
      <4>1. ~debug_mode_en_q' /\ ~exception_enable_q
        BY <1>4, <3>1, <3>2, DebugModeNext DEF resume_ack
      <4>2. exception_enable_q'
        BY <1>5, <2>2, <3>2, <4>1 DEF exception_enable_d, traps_or_returns, csr_eret
      <4>3. pc_evec_q' = dpc_q
        BY <1>1, <1>5, <2>2, <3>2 DEF csr_evec
      <4> QED BY <2>2, <4>1, <4>2, <4>3 DEF ArchPc
    <3>3. CASE ~resume_ack
      <4>1. debug_mode_en_q' /\ dpc_q' = dpc_q
        BY <2>2, <3>1, <3>3, DebugModeNext DEF Cycle, CsrCycle
      <4> QED BY <2>2, <4>1 DEF ArchPc
    <3> QED BY <3>2, <3>3
  <2>3. CASE ~csr_halt_ack(in) /\ ~debug_mode_en_q
    <3>1. ~debug_mode_en_q'
      BY <1>1, <2>3, DebugModeNext DEF enters_debug
    <3>2. ~exception_enable_q'
      <4>1. ~debug_ebreak_q /\ state_debug_q # "PROGBUFF"
        BY <1>4, <2>3 DEF DebugInv
      <4> QED BY <1>1, <1>5, <2>3, <4>1 DEF exception_enable_d, traps_or_returns, csr_eret, halt_ack
    <3>3. Running' /\ ArchPc' = AtWb'
      <4>1. Running'
        BY <1>5, <3>1, <3>2 DEF Running
      <4>2. (if2.v /\ step_q /\ Spent)' => Past'
        BY <4>1 DEF StepOrder
      <4> QED BY <4>1, <4>2 DEF Running, ArchPc, AtWb, AtExe, AtRr, AtId, AtIf2, Past
    <3>4. CASE retry_fetch
      <4>1. ~if2'.v /\ ~Past'
        BY <1>4, <3>4, FlushEmpties DEF flush_exe, retry_fetch
      <4>2. pc' = ArchPc
        BY <1>5, <2>3, <3>4 DEF next_pc, retry_fetch, ArchPc
      <4> QED BY <3>3, <4>1, <4>2 DEF Past, AtWb, AtExe, AtRr, AtId, AtIf2
    <3>5. CASE ~retry_fetch
      <4>1. Running /\ ArchPc = AtExe
        BY <2>3, <3>5, NextIsOldest DEF retry_fetch, Running, AtWb
      <4> QED BY <1>1, <3>3, <4>1, OldestStays
    <3> QED BY <3>4, <3>5
  <2> QED BY <2>1, <2>2, <2>3
<1> QED BY <1>2, <1>3, <1>6 DEF Arch!isaVars

\* What the program buffer leaves alone.
LEMMA BufferRetired ==
  ASSUME NEW in, Input(in), Cycle(in), ControlInv, RegionInv, TypeOK, Supported, OnlySteps, wb.v, debug_mode_en_q
  PROVE  UNCHANGED Arch!isaVars
<1>1. op(wb) \in Arch!WriteOps \cup {"store"} => op(wb) = "csrstep" /\ prog[wb.pc].rd = 0
  <2>1. wb.pc \in Buffer /\ prog \in Programs
    BY DEF RegionInv, Code
  <2> QED BY <2>1 DEF OnlySteps, op
<1>2. /\ ~takes_trap /\ ~mret /\ ~insn("store") /\ ~insn("csrmepc") /\ ~insn("csrmie") /\ ~resume_ack
      /\ write_enable => prog[wb.pc].rd = 0
  BY <1>1, WbCode DEF takes_trap, mret, insn, EnvOps, write_enable, regfile_we, Arch!WriteOps, Arch!CsrOps
<1>3. prog' = prog /\ x' = x /\ amem' = amem /\ mepc' = mepc /\ mie' = mie /\ mpie' = mpie
  BY <1>2, NoCutStore DEF Cycle, RegfileCycle, CsrCycle, TypeOK
<1>4. enters_debug(in) = "no"
  BY DebugModeNext DEF enters_debug
<1>5. debug_mode_en_q' /\ dpc_q' = dpc_q
  BY <1>2, <1>4, DebugModeNext DEF Cycle, CsrCycle
<1>6. ArchPc' = ArchPc
  BY <1>5 DEF ArchPc
<1> QED BY <1>3, <1>6 DEF Arch!isaVars

\* Behind an instruction that is stepped, IF1 holds the address of the next one.
LEMMA SteppedNext ==
  ASSUME ControlInv, RegionInv, OnlySteps, OrderInv, StepOrder, Running, wb.v, step_q, ~wb.xcpt
  PROVE  pc = NextOf(wb.pc, x)
<1>1. ~Faulting(wb)
  <2>1. wb.pc \in Arch!Word
    BY DEF RegionInv, Code, Running
  <2> QED BY <2>1, SteppedCode DEF Faulting, op, Arch!TrapOps
<1>2. ~id.v /\ ~rr.v /\ ~exe.v /\ (if2.v => Spent)
  BY <1>1 DEF ControlInv, StepInv, OlderFault, Running
<1>3. CASE stall_csr_fence(wb)
  <2>1. pc = Arch!Succ(wb.pc)
    BY <1>3 DEF StepOrder
  <2> QED BY <1>3, <2>1 DEF NextOf, Fetched, Arch!Taken, stall_csr_fence, EnvOps, op, Arch!CsrOps
<1>4. CASE ~stall_csr_fence(wb)
  <2>1. AtExe = NextOf(wb.pc, x)
    BY <1>4 DEF OrderInv, VoidWb, wb_xcpt
  <2> QED BY <1>2, <2>1 DEF AtExe, AtRr, AtId, AtIf2
<1> QED BY <1>3, <1>4

\* What is written back of the program is a trap, an interrupt, the entry to debug mode, or
\* the instruction.
LEMMA ProgramRetired ==
  ASSUME NEW in, Input(in), Cycle(in), ControlInv, RegionInv, TypeOK, OnlySteps, IsaInv, wb.v, ~debug_mode_en_q
  PROVE  Arch!Next \/ StaleQuotient \/ UNCHANGED Arch!isaVars
<1>1. /\ prog' = prog /\ ~exception_enable_q /\ ~csr_enable_q /\ ~debug_ebreak_q /\ ~csr_stall /\ state_debug_q = "RUNNING"
      /\ wb.pc \in Arch!Word
  BY WbRuns DEF Cycle, RegionInv, Code
<1>2. Running /\ ArchPc = wb.pc
  BY <1>1 DEF Running, ArchPc
<1>3. ~halted /\ ~halt_ack(in) /\ ~csr_halt_ack(in) /\ ~resume_ack /\ csr_pc(in) = IF step_q THEN pc ELSE wb.pc
  BY <1>1 DEF halted, halt_ack, csr_halt_ack, resume_ack, csr_pc
<1> DEFINE i == prog[wb.pc]
<1>4. op(wb) = i.op
  BY DEF op
<1>5. step_q => ~wb.xcpt /\ i.op \notin Arch!TrapOps
  <2>1. step_q => i.op \notin Arch!TrapOps
    BY <1>1, SteppedCode
  <2> QED BY <1>4, <2>1 DEF IsaInv, WriteInv, Trapping, Arch!TrapOps
<1>6. /\ exception_enable_q' = exception_enable_d(in) /\ csr_enable_q' = csr_enable_d(in)
      /\ pc_evec_q' = csr_evec(in) /\ pc_next_csr_q' = Arch!Succ(wb.pc)
      /\ debug_mode_en_q' <=> enters_debug(in) # "no"
  BY DebugModeNext DEF Cycle, CuCycle
<1>7. ASSUME takes_trap PROVE Arch!Enter
  <2>1. wb_xcpt \/ csr_xcpt
    BY <1>7 DEF takes_trap, ex_i
  <2>2. ~step_q
    BY <1>4, <1>5, <2>1 DEF wb_xcpt, csr_xcpt, privilege_violation, insn_break_traps, insn, EnvOps, Arch!TrapOps
  <2>3. ~write_enable /\ ~insn("store") /\ ~(insn("ebreak") /\ EBREAKM)
    BY <2>1 DEF write_enable, wb_xcpt, csr_xcpt, privilege_violation, insn_break_traps, insn, EnvOps
  <2>4. ~debug_mode_en_q'
    BY <1>1, <1>3, <1>6, <2>2, <2>3 DEF enters_debug
  <2>5. exception_enable_q' /\ pc_evec_q' = EVEC
    BY <1>1, <1>6, <1>7, <2>1, <2>2 DEF exception_enable_d, traps_or_returns, csr_evec
  <2>6. ArchPc' = EVEC
    BY <2>4, <2>5 DEF ArchPc
  <2>7. x' = x /\ amem' = amem /\ mepc' = wb.pc /\ mpie' = mie /\ mie' = FALSE
    BY <1>3, <1>7, <2>2, <2>3 DEF Cycle, RegfileCycle, CsrCycle, cut_store
  <2> QED BY <1>1, <1>2, <2>6, <2>7 DEF Arch!Enter
<1>8. CASE wb.xcpt
  <2>1. takes_trap
    BY <1>3, <1>8 DEF takes_trap, ex_i, wb_xcpt
  <2>2. i.op \in Arch!TrapOps \/ mie
    BY <1>4, <1>8 DEF IsaInv, WriteInv, Trapping, Arch!TrapOps
  <2> QED BY <1>2, <1>7, <2>1, <2>2 DEF Arch!Next, Arch!Trap, Arch!Interrupt
<1>9. CASE ~wb.xcpt /\ (i.op \in {"ecall", "csrstep"} \/ (i.op = "ebreak" /\ ~EBREAKM))
  <2>1. takes_trap
    BY <1>4, <1>9 DEF takes_trap, csr_xcpt, privilege_violation, insn_break_traps, insn, EnvOps
  <2>2. i.op \in Arch!TrapOps
    BY <1>9 DEF Arch!TrapOps
  <2> QED BY <1>2, <1>7, <2>1, <2>2 DEF Arch!Next, Arch!Trap
<1>10. CASE ~wb.xcpt /\ i.op = "ebreak" /\ EBREAKM
  <2>1. insn("ebreak") /\ ~takes_trap /\ ~mret /\ ~write_enable /\ ~insn("store") /\ ~insn("csrmepc") /\ ~insn("csrmie")
    BY <1>4, <1>10 DEF insn, EnvOps, takes_trap, ex_i, wb_xcpt, csr_xcpt, privilege_violation, insn_break_traps, mret, write_enable,
                      regfile_we, Arch!WriteOps, Arch!CsrOps
  <2>2. enters_debug(in) = "ebreak"
    BY <1>10, <2>1 DEF enters_debug
  <2>3. debug_mode_en_q' /\ dpc_q' = wb.pc
    BY <1>3, <1>5, <1>6, <1>10, <2>2 DEF Arch!TrapOps, Cycle, CsrCycle
  <2>4. ArchPc' = wb.pc
    BY <2>3 DEF ArchPc
  <2>5. x' = x /\ amem' = amem /\ mepc' = mepc /\ mpie' = mpie /\ mie' = mie
    BY <2>1 DEF Cycle, RegfileCycle, CsrCycle, TypeOK, cut_store
  <2> QED BY <1>1, <1>2, <2>4, <2>5 DEF Arch!isaVars
<1>11. CASE ~wb.xcpt /\ i.op \notin {"ecall", "csrstep", "ebreak"}
  <2>1. i.op \notin Arch!TrapOps
    BY <1>4, <1>11 DEF IsaInv, WriteInv, Trapping, Arch!TrapOps
  <2>2. ~wb_xcpt /\ ~csr_xcpt /\ ~takes_trap /\ ~ecall_taken /\ ~insn("ebreak") /\ ~ex_i
    BY <1>4, <1>11 DEF insn, EnvOps, takes_trap, ex_i, wb_xcpt, csr_xcpt, privilege_violation, insn_break_traps, ecall_taken
  <2>3. \A o : insn(o) <=> i.op = o
    BY <1>4, <1>11 DEF insn, EnvOps
  <2>4. (mret <=> i.op = "mret") /\ (write_enable <=> i.op \in Arch!WriteOps)
    BY <1>4, <1>11, <2>2, <2>3 DEF mret, write_enable, regfile_we
  <2>5. traps_or_returns(in) <=> i.op = "mret"
    BY <1>1, <1>3, <2>2, <2>4 DEF traps_or_returns, csr_eret, ex_i
  <2>6. ArchPc' = CASE i.op = "mret" -> mepc
                    [] i.op = "jal"  -> i.tgt
                    [] OTHER         -> IF Arch!Taken(i, x[i.rs1], x[i.rs2]) THEN Arch!Target(i, x[i.rs1])
                                        ELSE Arch!Succ(wb.pc)
    <3>1. ~step_q => ~debug_mode_en_q'
      BY <1>3, <1>6, <2>2 DEF enters_debug
    <3>2. CASE ~step_q /\ i.op = "mret"
      <4>1. exception_enable_q' /\ pc_evec_q' = mepc
        BY <1>1, <1>6, <2>2, <2>4, <2>5, <3>2 DEF exception_enable_d, csr_evec
      <4> QED BY <3>1, <3>2, <4>1 DEF ArchPc
    <3>3. CASE ~step_q /\ i.op # "mret" /\ stall_csr_fence(wb)
      <4>1. ~exception_enable_q' /\ csr_enable_q'
        BY <1>1, <1>6, <2>5, <3>3 DEF exception_enable_d, csr_enable_d
      <4>2. ArchPc' = Arch!Succ(wb.pc)
        BY <1>6, <3>1, <3>3, <4>1 DEF ArchPc
      <4>3. i.op # "jal" /\ ~Arch!Taken(i, x[i.rs1], x[i.rs2])
        BY <1>4, <3>3 DEF stall_csr_fence, EnvOps, Arch!Taken, Arch!CsrOps
      <4> QED BY <3>3, <4>2, <4>3
    <3>4. CASE ~step_q /\ i.op # "mret" /\ ~stall_csr_fence(wb)
      <4>1. ~exception_enable_q' /\ ~csr_enable_q'
        BY <1>6, <2>5, <3>4 DEF exception_enable_d, csr_enable_d
      <4>2. Running' /\ ArchPc' = AtWb'
        <5>1. Running' /\ ~step_q'
          BY <1>2, <3>1, <3>4, <4>1, StepStays DEF Running
        <5> QED BY <5>1 DEF Running, ArchPc, AtWb, AtExe, AtRr, AtId, AtIf2
      <4>3. ~VoidWb
        BY <2>2, <3>4 DEF VoidWb
      <4>4. AtWb' = AtExe
        BY <1>2, <4>2, <4>3, OldestStays DEF IsaInv
      <4>5. AtExe = NextOf(wb.pc, x)
        BY <1>2, <4>3 DEF IsaInv, OrderInv
      <4>6. i.op = "jal" => ~Arch!Taken(i, x[i.rs1], x[i.rs2])
        BY DEF Arch!Taken
      <4> QED BY <3>4, <4>2, <4>4, <4>5, <4>6 DEF NextOf, Fetched
    <3>5. CASE step_q
      <4>1. enters_debug(in) = "step"
        BY <1>1, <1>3, <1>5, <2>2, <3>5 DEF enters_debug, csr_retire
      <4>2. ArchPc' = IF i.op = "mret" THEN mepc ELSE pc
        <5>1. debug_mode_en_q' /\ dpc_q' = IF i.op = "mret" THEN mepc ELSE pc
          BY <1>3, <1>6, <2>2, <2>4, <3>5, <4>1 DEF Cycle, CsrCycle
        <5> QED BY <5>1 DEF ArchPc
      <4>3. i.op # "mret" => pc = NextOf(wb.pc, x)
        BY <1>2, <1>5, <3>5, SteppedNext DEF IsaInv
      <4>4. i.op \in {"jal", "mret"} => ~Arch!Taken(i, x[i.rs1], x[i.rs2])
        BY DEF Arch!Taken
      <4> QED BY <4>2, <4>3, <4>4 DEF NextOf, Fetched
    <3> QED BY <3>2, <3>3, <3>4, <3>5
  <2>7. (~stale => wb.res = ResultOf(wb.pc)) /\ (stale => i.op = "div")
    BY <1>4, <1>11 DEF IsaInv, WriteInv
  <2>8. x' = IF i.op \in Arch!WriteOps /\ i.rd # 0 THEN [x EXCEPT ![i.rd] = data_wb_rr] ELSE x
    BY <2>4 DEF Cycle, RegfileCycle
  <2>9. amem' = IF i.op = "store" THEN x[i.rs2] ELSE amem
    BY <2>3, <2>7 DEF Cycle, RegfileCycle, ResultOf, Arch!CsrOps, cut_store
  <2>10. mepc' = IF i.op = "csrmepc" THEN x[i.rs1] ELSE mepc
    BY <2>2, <2>3, <2>7 DEF Cycle, CsrCycle, ResultOf, Arch!CsrOps
  <2>11. mie' = CASE i.op = "csrmie" -> x[i.rs1] # 0
                  [] i.op = "mret"   -> mpie
                  [] OTHER           -> mie
    BY <2>2, <2>3, <2>4, <2>7 DEF Cycle, CsrCycle, ResultOf, Arch!CsrOps
  <2>12. mpie' = (mpie \/ i.op = "mret")
    BY <2>2, <2>4 DEF Cycle, CsrCycle
  <2>13. CASE ~stale
    <3>1. i.op \in Arch!WriteOps => data_wb_rr = Arch!Result(i)
      BY <1>2, <1>4, <2>1, <2>7, <2>13 DEF data_wb_rr, csr_rw_rdata, ResultOf, Arch!Result, Arch!WriteOps, Arch!CsrOps,
                                           Arch!TrapOps
    <3>2. x' = IF i.op \in Arch!WriteOps /\ i.rd # 0 THEN [x EXCEPT ![i.rd] = Arch!Result(i)] ELSE x
      BY <2>8, <3>1
    <3>3. Arch!Execute
      BY <1>1, <1>2, <2>1, <2>6, <2>9, <2>10, <2>11, <2>12, <3>2 DEF Arch!Execute
    <3> QED BY <3>3 DEF Arch!Next
  <2>14. CASE stale
    <3>1. insn("div") /\ data_wb_rr = wb.res
      BY <1>4, <2>3, <2>7, <2>14 DEF data_wb_rr, Arch!CsrOps
    <3>2. ArchPc' = Arch!Succ(wb.pc)
      BY <2>6, <2>7, <2>14 DEF Arch!Taken
    <3>3. x' = IF i.rd = 0 THEN x ELSE [x EXCEPT ![i.rd] = wb.res]
      BY <2>7, <2>8, <2>14, <3>1 DEF Arch!WriteOps
    <3>4. amem' = amem /\ mepc' = mepc /\ mie' = mie /\ mpie' = mpie
      BY <2>7, <2>9, <2>10, <2>11, <2>12, <2>14 DEF TypeOK
    <3> QED BY <1>1, <1>2, <2>14, <3>1, <3>2, <3>3, <3>4 DEF StaleQuotient
  <2> QED BY <2>13, <2>14
<1> QED BY <1>8, <1>9, <1>10, <1>11

\* What the core starts with is what the instruction set starts with.
LEMMA InitIsa == Init => IsaInv /\ MemInv /\ Arch!Init
<1> SUFFICES ASSUME Init PROVE IsaInv /\ MemInv /\ Arch!Init
  OBVIOUS
<1>1. MemInv
  BY DEF Init, MemInv, Performed, Stored, ExeBubble, WbBubble
<1>2. OrderInv /\ WriteInv /\ IrqInv /\ DivInv /\ StepOrder
  BY DEF Init, OrderInv, WriteInv, IrqInv, DivInv, StepOrder, wb_xcpt, Bubble, ExeBubble, WbBubble, If2Bubble
<1>3. OperandInv
  BY DEF Init, OperandInv, ExeBubble, Arch!Reg
<1>4. ArchPc = 0
  BY DEF Init, ArchPc, Bubble, ExeBubble, WbBubble, If2Bubble
<1>5. Arch!Init
  BY <1>4 DEF Init, Arch!Init
<1> QED BY <1>1, <1>2, <1>3, <1>5 DEF Init, IsaInv

\* The invariant of the order and of the operands is inductive.
LEMMA IsaStep ==
  ASSUME NEW in, Input(in), Cycle(in), ControlInv, RegionInv, TypeOK, MemInv, Supported, OnlySteps, IsaInv
  PROVE  IsaInv'
<1>1. OrderInv /\ OperandInv /\ WriteInv /\ IrqInv /\ DivInv /\ StepOrder
  BY DEF IsaInv
<1> QED BY <1>1, OrderStep, OperandStep, WriteStep, IrqStep, DivStep, StepOrderStep DEF IsaInv

(* The pipeline implements the instruction set (module Isa): instructions  *)
(* are written back in program order, each once, with the operands and the *)
(* result the ones before it left; what a trap, a jump, a serialising      *)
(* instruction or an interrupt flushes has no effect (control_unit.sv,     *)
(* datapath.sv, div_unit.sv).  For every program, whatever the caches,     *)
(* interrupts and the debugger do, and however long the divider takes,     *)
(* when what is stepped does not trap and the program buffer only sets     *)
(* dcsr.step; with the one exception that a division may get the quotient  *)
(* of a flushed one that the divider had not ended.                        *)
THEOREM RefinesIsa == ASSUME Supported, OnlySteps PROVE Spec => ImplementsIsa
<1> DEFINE Inv == ControlInv /\ RegionInv /\ TypeOK /\ ResultInv /\ MemInv /\ IsaInv
<1>1. Init => Inv /\ Arch!Init
  BY InitControl, InitRegion, InitIsa
<1>2. Inv /\ [Next]_vars => Inv'
  <2> SUFFICES ASSUME Inv, [Next]_vars PROVE Inv'
    OBVIOUS
  <2>1. ControlInv' /\ RegionInv' /\ TypeOK' /\ ResultInv'
    BY ControlStep, RegionTypeStep
  <2>2. CASE UNCHANGED vars
    <3>1. UNCHANGED <<prog, fetchVars, stageVars, cuVars, csrVars, div, mem_state, x, mem, amem, orphan, stale>>
      BY <2>2 DEF vars
    <3>2. MemInv'
      BY <3>1 DEF stageVars, MemInv, Performed, Stored, unit_mem, op, Arch!MemOps
    <3>3. OrderInv'
      BY <3>1 DEF fetchVars, stageVars, cuVars, csrVars, IsaInv, OrderInv, Running, VoidId, VoidRr, VoidExe, VoidWb, Turns,
                  wb_xcpt, valid_jal, stall_csr_fence, EnvOps, op, Spent, AtIf2, AtId, AtRr, AtExe, After, Fetched, NextOf, Arch!CsrOps,
                  Arch!JumpOps, Arch!Succ, Arch!Taken, Arch!Target
    <3>4. OperandInv' /\ IrqInv' /\ DivInv'
      BY <3>1 DEF fetchVars, stageVars, cuVars, csrVars, IsaInv, OperandInv, IrqInv, DivInv, Writes, regfile_we, wb_xcpt, op,
                  Arch!WriteOps, Arch!CsrOps
    <3>5. WriteInv'
      BY <3>1 DEF stageVars, csrVars, IsaInv, WriteInv, ResultOf, Trapping, op, Arch!Alu, Arch!Quot, Arch!Succ, Arch!CsrOps
    <3>6. StepOrder'
      BY <3>1 DEF fetchVars, stageVars, cuVars, csrVars, IsaInv, StepOrder, Running, Spent, Past, stall_csr_fence, EnvOps, op,
                  Arch!CsrOps, Arch!Succ
    <3> QED BY <2>1, <3>2, <3>3, <3>4, <3>5, <3>6 DEF IsaInv
  <2>3. ASSUME NEW in, Input(in), Cycle(in) PROVE MemInv' /\ IsaInv'
    BY <2>3, MemStep, IsaStep
  <2> QED BY <2>1, <2>2, <2>3, StepIsCycle
<1>3. Inv /\ [Next]_vars => [Arch!Next \/ StaleQuotient]_(Arch!isaVars)
  <2> SUFFICES ASSUME Inv, [Next]_vars PROVE Arch!Next \/ StaleQuotient \/ UNCHANGED Arch!isaVars
    OBVIOUS
  <2>1. CASE UNCHANGED vars
    BY <2>1 DEF vars, fetchVars, stageVars, cuVars, csrVars, Arch!isaVars, ArchPc
  <2>2. ASSUME NEW in, Input(in), Cycle(in) PROVE Arch!Next \/ StaleQuotient \/ UNCHANGED Arch!isaVars
    <3>1. StepOrder /\ StepOrder'
      BY <2>2, IsaStep DEF IsaInv
    <3>2. CASE ~wb.v
      BY <2>2, <3>1, <3>2, NothingRetired
    <3>3. CASE wb.v /\ debug_mode_en_q
      BY <2>2, <3>3, BufferRetired
    <3>4. CASE wb.v /\ ~debug_mode_en_q
      BY <2>2, <3>4, ProgramRetired
    <3> QED BY <3>2, <3>3, <3>4
  <2> QED BY <2>1, <2>2, StepIsCycle
<1> QED BY <1>1, <1>2, <1>3, PTL DEF Spec, ImplementsIsa
=============================================================================
