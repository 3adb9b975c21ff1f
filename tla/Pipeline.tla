------------------------------ MODULE Pipeline ------------------------------
(***************************************************************************)
(* The in-order pipeline: IF1, IF2, ID, RR, EXE, WB (datapath.sv), the     *)
(* control unit that stalls, flushes and redirects them and holds the      *)
(* debug state machine (control_unit.sv), the divider, and the part of the *)
(* CSR file that takes traps, returns and debug entries.  No branch        *)
(* prediction and no bypass (BP_ENABLE and BYPASS_ENABLE are not defined). *)
(* A step is one clock cycle.  Registers are variables, wires are          *)
(* operators; both keep the names of the code.                             *)
(*                                                                         *)
(* A stage carries the address of its instruction: fetch delivers the      *)
(* instruction of the address it was asked for (module Fetch), after any   *)
(* time.  The memory unit answers after any time, and performs an access   *)
(* once unless it is flushed in its first cycle (module Lsu).              *)
(***************************************************************************)
EXTENDS Naturals

CONSTANTS
  N, PBUF, EVEC,
  Programs,     \* the programs, on Addr
  DIV_N,        \* iterations of the divider, less one
  EBREAKM,      \* dcsr.ebreakm: an ebreak enters debug mode
  IRQ,          \* interrupts come
  DEBUG         \* what the debugger asks for

ASSUME PipelineAssumption ==
  /\ N \in Nat /\ N > 1 /\ PBUF \in Nat /\ EVEC \in 0 .. N-1
  /\ DIV_N \in Nat /\ EBREAKM \in BOOLEAN /\ IRQ \in BOOLEAN
  /\ DEBUG \subseteq {"halt", "halt_on_reset", "resume", "progbuf"}

VARIABLES
  prog,
  pc,                                     \* IF1
  if2, resp_q,                            \* IF2, and the answer it saved
  id, rr, exe, wb,
  exception_enable_q, csr_enable_q, pc_evec_q, pc_next_csr_q,
  state_debug_q, step_inst_in_pipeline,
  div,                                    \* the divider: state_q, n_q, and its operands
  mem_state,                              \* the memory unit waits for the cache
  x, mem,                                 \* registers, memory
  mepc, mie, mpie, interrupt_q, wfi_q,
  debug_mode_en_q, debug_ebreak_q, dpc_q, step_q,
  amem,                                   \* history: memory as the written-back instructions left it
  stepped,                                \* history: instructions of the program written back since the
                                          \* core resumed with dcsr.step set, at most 2
  orphan, stale                           \* history: the divider works for a division that was flushed; the
                                          \* quotient in WB is of one

fetchVars == <<pc, if2, resp_q>>
stageVars == <<id, rr, exe, wb>>
cuVars    == <<exception_enable_q, csr_enable_q, pc_evec_q, pc_next_csr_q, state_debug_q, step_inst_in_pipeline>>
csrVars   == <<mepc, mie, mpie, interrupt_q, wfi_q, debug_mode_en_q, debug_ebreak_q, dpc_q, step_q>>
vars == <<prog, fetchVars, stageVars, cuVars, div, mem_state, x, mem, csrVars, amem, stepped, orphan, stale>>
-----------------------------------------------------------------------------
(* The oldest instruction that has not been written back, or the address   *)
(* the pipeline is about to fetch; in debug mode, where it will resume.    *)
ArchPc ==
  IF debug_mode_en_q THEN dpc_q
  ELSE IF exception_enable_q THEN pc_evec_q
  ELSE IF csr_enable_q THEN pc_next_csr_q
  ELSE IF wb.v THEN wb.pc ELSE IF exe.v THEN exe.pc ELSE IF rr.v THEN rr.pc
  ELSE IF id.v THEN id.pc ELSE IF if2.v THEN if2.pc ELSE pc

Arch == INSTANCE Isa WITH pc <- ArchPc, mem <- amem

ASSUME ProgramsAssumption == Programs \subseteq [Arch!Addr -> Arch!Instr]

ProgramBuffer == N
Bubble    == [v |-> FALSE, pc |-> 0]
ExeBubble == [v |-> FALSE, pc |-> 0, a |-> 0, b |-> 0, intr |-> FALSE]
WbBubble  == [v |-> FALSE, pc |-> 0, res |-> 0, xcpt |-> FALSE]
If2Bubble == [v |-> FALSE, pc |-> 0, asked |-> FALSE]

DebugState == {"RESET", "HAVERESET", "RESUME", "RUNNING", "HALTING", "HALTED", "PROGBUFF"}

TypeOK ==
  /\ pc \in Arch!Addr /\ resp_q \in BOOLEAN
  /\ if2 \in [v : BOOLEAN, pc : Arch!Addr, asked : BOOLEAN]
  /\ {id, rr} \subseteq [v : BOOLEAN, pc : Arch!Addr]
  /\ exe \in [v : BOOLEAN, pc : Arch!Addr, a : Arch!Word, b : Arch!Word, intr : BOOLEAN]
  /\ wb \in [v : BOOLEAN, pc : Arch!Addr, res : Arch!Addr, xcpt : BOOLEAN]
  /\ {exception_enable_q, csr_enable_q, step_inst_in_pipeline, mem_state} \subseteq BOOLEAN
  /\ {pc_evec_q, pc_next_csr_q, dpc_q} \subseteq Arch!Addr
  /\ state_debug_q \in DebugState
  /\ div \in [st : {"IDLE", "OP", "DONE"}, n : 0 .. DIV_N, a : Arch!Word, b : Arch!Word]
  /\ x \in [Arch!Reg -> Arch!Word] /\ {mem, amem} \subseteq Arch!Word /\ mepc \in Arch!Addr
  /\ {mie, mpie, interrupt_q, wfi_q, debug_mode_en_q, debug_ebreak_q, step_q} \subseteq BOOLEAN
  /\ stepped \in 0 .. 2 /\ orphan \in BOOLEAN /\ stale \in BOOLEAN

Init ==
  /\ prog \in Programs
  /\ pc = 0 /\ if2 = If2Bubble /\ resp_q = FALSE
  /\ id = Bubble /\ rr = Bubble /\ exe = ExeBubble /\ wb = WbBubble
  /\ exception_enable_q = FALSE /\ csr_enable_q = FALSE /\ pc_evec_q = 0 /\ pc_next_csr_q = 0
  /\ state_debug_q = "RESET" /\ step_inst_in_pipeline = FALSE
  /\ div = [st |-> "IDLE", n |-> 0, a |-> 0, b |-> 0] /\ mem_state = FALSE
  /\ x = [r \in Arch!Reg |-> 0] /\ mem = 0 /\ amem = 0
  /\ mepc = 0 /\ mie = FALSE /\ mpie = FALSE /\ interrupt_q = FALSE /\ wfi_q = FALSE
  /\ debug_mode_en_q = FALSE /\ debug_ebreak_q = FALSE /\ dpc_q = 0 /\ step_q = FALSE
  /\ stepped = 0 /\ orphan = FALSE /\ stale = FALSE
-----------------------------------------------------------------------------
(* What the decoder says of an instruction.  In debug mode an ebreak does  *)
(* not serialise, and the other environment instructions do nothing.       *)
op(s) == prog[s.pc].op
EnvOps == {"ecall", "ebreak", "mret", "wfi"}
stall_csr_fence(s) ==
  s.v /\ (op(s) \in Arch!CsrOps \cup {"fence"} \/ (op(s) \in EnvOps /\ ~debug_mode_en_q))
decode_ex(s) == op(s) \in {"illegal", "illmem", "ifault", "ipf"}
regfile_we(s) == op(s) \in Arch!WriteOps
unit_mem(s) == op(s) \in Arch!MemOps
valid_jal == id.v /\ op(id) = "jal"

(* Write-back: what the CSR file is asked for, and what it answers.        *)
halted == state_debug_q \in {"HALTED", "PROGBUFF"}
wb_xcpt == wb.v /\ wb.xcpt
insn(o) == wb.v /\ ~wb.xcpt /\ op(wb) = o /\ (o \in EnvOps \ {"ebreak"} => ~debug_mode_en_q)
ex_i == wb_xcpt /\ ~halted
privilege_violation == insn("csrstep") /\ ~debug_mode_en_q
insn_break_traps == insn("ebreak") /\ ~debug_mode_en_q /\ ~EBREAKM
csr_xcpt == privilege_violation \/ insn("ecall") \/ insn_break_traps
mret == insn("mret")
csr_stall == wfi_q
csr_retire == wb.v /\ ~wb.xcpt /\ ~csr_stall
ecall_taken == wb.v /\ ~halted /\ op(wb) \in {"ecall", "ebreak"}
csr_rw_rdata == CASE op(wb) = "csrmepc" -> mepc
                  [] op(wb) = "csrmie"  -> IF mie THEN 1 ELSE 0
                  [] OTHER              -> 0

(* An operand of the instruction in RR is still to be written.  The fields *)
(* of an empty RR stage are whatever fetch had on its wires.               *)
Writes(s, r) == s.v /\ regfile_we(s) /\ prog[s.pc].rd = r
\* Fault: only the write-back stage is looked at.
data_dependency_WbOnly(in) ==
  IF rr.v THEN \E r \in {prog[rr.pc].rs1, prog[rr.pc].rs2} \ {0} : Writes(wb, r)
  ELSE in.ghost /\ \E r \in Arch!Reg \ {0} : Writes(wb, r)
data_dependency(in) ==
  IF rr.v THEN \E r \in {prog[rr.pc].rs1, prog[rr.pc].rs2} \ {0} : Writes(exe, r) \/ Writes(wb, r)
  ELSE in.ghost /\ \E r \in Arch!Reg \ {0} : Writes(exe, r) \/ Writes(wb, r)

(* The debug state machine's outputs.                                      *)
pipeline_empty(in) == ~(if2.v \/ id.v \/ (rr.v /\ ~data_dependency(in)) \/ exe.v \/ wb.v)
halt_req(in) == in.dbg = "halt"
csr_halt_ack(in) ==
  CASE state_debug_q = "HAVERESET" -> in.dbg \in {"halt", "halt_on_reset"}
    [] state_debug_q = "HALTING"   -> pipeline_empty(in)
    [] OTHER                       -> FALSE
halt_ack(in) ==
  \/ csr_halt_ack(in)
  \/ state_debug_q \in {"RUNNING", "HALTING"} /\ debug_ebreak_q
  \/ state_debug_q = "PROGBUFF" /\ in.dbg # "resume" /\ (debug_ebreak_q \/ exception_enable_q)
resume_ack == state_debug_q = "RESUME"
parked == state_debug_q = "HALTED"
on_halt_state(in) == state_debug_q \in {"RESET", "HALTING", "HALTED"} \/ (state_debug_q = "HAVERESET" /\ csr_halt_ack(in))
csr_eret == (mret /\ ~ex_i /\ ~csr_xcpt) \/ (resume_ack /\ debug_mode_en_q)
\* Fault: only the instructions fetched in the cycle of the resume are counted.
step_running_ResumeOnly == step_q /\ state_debug_q = "RESUME"
step_running == step_q /\ state_debug_q \in {"RUNNING", "RESUME"}
step_inst_in_if2 == if2.v /\ step_running
step_inst_in_id  == id.v /\ step_running
-----------------------------------------------------------------------------
(* Execution.  A flush of its stage stops the memory unit and nothing else. *)
\* Fault: a trap in write-back does not reach the memory unit in its own cycle.
flush_exe_Late == exception_enable_q \/ csr_enable_q
flush_exe == wb_xcpt \/ exception_enable_q \/ csr_enable_q
mem_stall(in) ==
  IF mem_state THEN ~in.mem
  ELSE IF op(exe) = "fault" THEN ~in.mem   \* once translated
  ELSE TRUE
exe_stall(in) ==
  /\ exe.v
  /\ \/ unit_mem(exe) /\ ~flush_exe /\ mem_stall(in)
     \/ op(exe) = "div" /\ div.st # "DONE"

exe_xcpt ==
  \/ decode_ex(exe)
  \/ ~unit_mem(exe) /\ exe.intr
  \/ op(exe) \in {"fault", "badjump"}

exe_result ==
  CASE op(exe) = "alu"  -> Arch!Alu(exe.a, exe.b)
    [] op(exe) = "div"  -> Arch!Quot(div.a, div.b)
    [] op(exe) = "load" -> mem
    [] op(exe) = "store" -> exe.b
    [] op(exe) \in {"jal", "jalr", "branch", "badjump"} -> Arch!Succ(exe.pc)
    [] OTHER -> exe.a

mispredict == exe.v /\ op(exe) \in Arch!JumpOps /\ ~csr_stall
branch_addr_result == IF Arch!Taken(prog[exe.pc], exe.a, exe.b) THEN Arch!Target(prog[exe.pc], exe.a) ELSE Arch!Succ(exe.pc)
-----------------------------------------------------------------------------
(* The control unit.                                                       *)
traps_or_returns(in) == wb_xcpt \/ csr_eret \/ csr_xcpt \/ debug_ebreak_q \/ halt_ack(in) \/ ecall_taken
exception_enable_d(in) == ~exception_enable_q /\ traps_or_returns(in)
csr_enable_d(in) == ~csr_enable_q /\ stall_csr_fence(wb) /\ ~traps_or_returns(in)

jump_enable == wb_xcpt \/ mispredict \/ valid_jal \/ csr_eret \/ csr_xcpt \/ ecall_taken

write_enable == wb.v /\ ~wb.xcpt /\ ~csr_xcpt /\ regfile_we(wb)

miss_icache(in) == if2.v /\ ~(in.resp \/ op(if2) = "ifault" \/ resp_q)

\* Stalls, in the order of the code: each one holds the stages up to one.
stalled(in) ==
  IF csr_stall THEN {"if1", "if2", "id", "rr", "exe"}
  ELSE IF exe_stall(in) THEN {"if1", "if2", "id", "rr"}
  ELSE IF data_dependency(in) THEN {"if1", "if2", "id"}
  ELSE IF miss_icache(in) THEN {"if1", "if2"}
  ELSE IF stall_csr_fence(wb) \/ ~in.ready \/ step_inst_in_pipeline \/ on_halt_state(in) \/ step_inst_in_if2
    THEN {"if1"}
  ELSE {}

serialising == stall_csr_fence(id) \/ stall_csr_fence(exe) \/ stall_csr_fence(wb)

\* Flushes: the registers cleared.
flushed(in) ==
  LET held == data_dependency(in) \/ csr_stall \/ exe_stall(in)
      rr_serial == stall_csr_fence(rr) /\ ~data_dependency(in)
  IN  IF wb_xcpt \/ exception_enable_q \/ csr_enable_q THEN {"if", "id", "rr", "exe"}
      ELSE IF mispredict THEN {"if", "id", "rr"}
      ELSE IF /\ serialising \/ rr_serial \/ step_inst_in_pipeline \/ valid_jal \/ (wb.v /\ op(wb) = "fence")
              /\ ~held THEN {"if"}
      ELSE {}

next_pc(in) ==
  LET fence == wb.v /\ op(wb) = "fence"
      keep == \/ "if1" \in stalled(in) \/ step_inst_in_if2 \/ stall_csr_fence(id) \/ stall_csr_fence(exe)
              \/ (stall_csr_fence(rr) /\ ~data_dependency(in)) \/ step_inst_in_pipeline \/ fence \/ on_halt_state(in)
      pc_jump == IF exception_enable_q THEN pc_evec_q
                 ELSE IF csr_enable_q THEN pc_next_csr_q
                 ELSE IF mispredict THEN branch_addr_result
                 ELSE IF valid_jal THEN prog[id.pc].tgt ELSE 0
  IN  IF jump_enable \/ exception_enable_q \/ csr_enable_q THEN pc_jump
      ELSE IF keep THEN pc ELSE Arch!Succ(pc)

retry_fetch == exception_enable_q \/ csr_enable_q
data_wb_rr == IF op(wb) \in Arch!CsrOps THEN csr_rw_rdata ELSE wb.res
-----------------------------------------------------------------------------
(* The CSR file: debug entry, traps, returns.                              *)
csr_pc(in) == IF step_q \/ halt_ack(in) THEN pc ELSE wb.pc

takes_trap == (ex_i \/ csr_xcpt) /\ ~debug_mode_en_q

\* Entries to debug mode, in the order of the code: an ebreak, a halt, a step.
enters_debug(in) ==
  IF insn("ebreak") /\ ~debug_mode_en_q THEN (IF EBREAKM THEN "ebreak" ELSE "no")
  ELSE IF csr_halt_ack(in) THEN "halt"
  ELSE IF ~debug_mode_en_q /\ step_q /\ (csr_retire \/ ex_i) THEN "step"
  ELSE "no"

debug_ebreak_d(in) == enters_debug(in) \in {"ebreak", "step"} \/ (insn("ebreak") /\ debug_mode_en_q /\ ~csr_halt_ack(in))

csr_evec(in) ==
  IF takes_trap THEN (IF step_q THEN ProgramBuffer ELSE EVEC)
  ELSE IF mret THEN (IF step_q THEN ProgramBuffer ELSE mepc)
  ELSE IF csr_halt_ack(in) THEN ProgramBuffer
  ELSE IF resume_ack THEN dpc_q
  ELSE IF debug_mode_en_q \/ debug_ebreak_d(in) THEN ProgramBuffer
  ELSE mepc

CsrCycle(in) ==
  LET a == wb.res
      entry == enters_debug(in)
  IN  /\ mepc' = IF takes_trap THEN csr_pc(in) ELSE IF insn("csrmepc") THEN a ELSE mepc
      /\ mie' = IF takes_trap THEN FALSE ELSE IF mret THEN mpie ELSE IF insn("csrmie") THEN a # 0 ELSE mie
      /\ mpie' = IF takes_trap THEN mie ELSE mpie \/ mret
      /\ interrupt_q' = (in.irq /\ mie /\ ~debug_mode_en_q /\ ~step_q)
      /\ wfi_q' = (~in.irq /\ ~halt_req(in) /\ (wfi_q \/ insn("wfi")))
      /\ debug_mode_en_q' = (entry # "no" \/ (debug_mode_en_q /\ ~resume_ack))
      /\ debug_ebreak_q' = debug_ebreak_d(in)
      /\ dpc_q' = CASE entry = "no" -> dpc_q
                    [] entry = "step" /\ (ex_i \/ csr_xcpt) -> EVEC
                    [] entry = "step" /\ mret -> mepc
                    [] OTHER -> csr_pc(in)
      /\ step_q' = IF insn("csrstep") /\ debug_mode_en_q THEN ~step_q ELSE step_q
-----------------------------------------------------------------------------
(* A pipeline register: flushed, held or loaded (register.sv).             *)
Register(flush, stall, old, empty, new) == IF flush THEN empty ELSE IF stall THEN old ELSE new

FetchCycle(in) ==
  LET st == stalled(in)
      fl == flushed(in)
      valid == ~parked /\ "if1" \notin st /\ ~retry_fetch
      answered == if2.v /\ (in.resp \/ op(if2) = "ifault" \/ resp_q)
  IN  /\ pc' = next_pc(in)
      /\ if2' = Register("if" \in fl, "if1" \in st, [if2 EXCEPT !.asked = @ /\ (~in.resp \/ op(if2) = "ipf")], If2Bubble,
                         IF valid THEN [v |-> TRUE, pc |-> pc, asked |-> prog[pc].op # "ifault"] ELSE If2Bubble)
      /\ resp_q' = (/\ "if" \notin fl
                    /\ IF in.resp THEN "if2" \in st ELSE resp_q /\ "if2" \in st)
      /\ id' = Register("if" \in fl, "id" \in st, id, Bubble,
                        IF answered THEN [v |-> TRUE, pc |-> if2.pc] ELSE Bubble)

ReadReg(r) == IF r = 0 THEN 0
              ELSE IF write_enable /\ prog[wb.pc].rd = r THEN data_wb_rr ELSE x[r]

StageCycle(in) ==
  LET st == stalled(in)
      fl == flushed(in)
      i == prog[rr.pc]
  IN  /\ rr' = Register("id" \in fl, "id" \in st, rr, Bubble, id)
      /\ exe' = Register("rr" \in fl, "rr" \in st, exe, ExeBubble,
                         IF ~rr.v \/ data_dependency(in) THEN ExeBubble
                         ELSE [v |-> TRUE, pc |-> rr.pc, a |-> ReadReg(i.rs1), b |-> ReadReg(i.rs2), intr |-> interrupt_q])
      /\ wb' = Register("exe" \in fl, "exe" \in st, wb, WbBubble,
                        IF ~exe.v \/ exe_stall(in) THEN WbBubble
                        ELSE [v |-> TRUE, pc |-> exe.pc, res |-> exe_result, xcpt |-> exe_xcpt])

\* kill_div_i is driven by nothing: the divider goes on when its instruction is flushed.
\* Fault: the iteration count is not compared with zero.
DivCycle_Overruns ==
  div' = CASE div.st = "IDLE" -> IF exe.v /\ op(exe) = "div" THEN [st |-> "OP", n |-> DIV_N, a |-> exe.a, b |-> exe.b] ELSE div
           [] div.st = "OP"   -> [div EXCEPT !.n = @ - 1]
           [] div.st = "DONE" -> [div EXCEPT !.st = "IDLE"]

DivCycle ==
  LET request == exe.v /\ op(exe) = "div"
  IN  div' = CASE div.st = "IDLE" /\ request  -> [st |-> "OP", n |-> DIV_N, a |-> exe.a, b |-> exe.b]
               [] div.st = "IDLE" /\ ~request -> div
               [] div.st = "OP"   -> IF div.n = 0 THEN [div EXCEPT !.st = "DONE"] ELSE [div EXCEPT !.n = @ - 1]
               [] div.st = "DONE" -> [div EXCEPT !.st = "IDLE"]

\* The history of the divider.
DivHistory(in) ==
  LET request == exe.v /\ op(exe) = "div"
  IN  /\ orphan' = (div'.st # "IDLE" /\ (orphan \/ (request /\ "rr" \in flushed(in))))
      /\ stale' = Register("exe" \in flushed(in), "exe" \in stalled(in), stale, FALSE, request /\ ~exe_stall(in) /\ orphan)

\* An access is performed when the cache takes it.
MemCycle(in) ==
  LET perform == exe.v /\ unit_mem(exe) /\ op(exe) # "fault" /\ ~mem_state /\ ~flush_exe /\ in.mem
  IN  /\ mem_state' = (~flush_exe /\ exe.v /\ unit_mem(exe) /\ (perform \/ (mem_state /\ ~in.mem)))
      /\ mem' = IF perform /\ op(exe) = "store" THEN exe.b ELSE mem

\* A store behind the ebreak of the program buffer may be flushed when the cache has it.
cut_store == debug_mode_en_q /\ flush_exe /\ exe.v /\ op(exe) = "store" /\ mem_state

RegfileCycle ==
  /\ x' = IF write_enable /\ prog[wb.pc].rd # 0 THEN [x EXCEPT ![prog[wb.pc].rd] = data_wb_rr] ELSE x
  /\ amem' = IF insn("store") THEN wb.res ELSE IF cut_store THEN exe.b ELSE amem

CuCycle(in) ==
  /\ exception_enable_q' = exception_enable_d(in)
  /\ csr_enable_q' = csr_enable_d(in)
  /\ pc_evec_q' = csr_evec(in)
  /\ pc_next_csr_q' = Arch!Succ(wb.pc)
  /\ step_inst_in_pipeline' = (~(wb_xcpt \/ exception_enable_q) /\ (step_inst_in_id \/ step_inst_in_pipeline))
  /\ state_debug_q' =
       CASE state_debug_q = "RESET"     -> "HAVERESET"
         [] state_debug_q = "HAVERESET" -> IF halt_ack(in) THEN "HALTED" ELSE "RESUME"
         [] state_debug_q = "RESUME"    -> "RUNNING"
         [] state_debug_q = "RUNNING"   -> IF debug_ebreak_q THEN "HALTED" ELSE IF halt_req(in) THEN "HALTING" ELSE "RUNNING"
         [] state_debug_q = "HALTING"   -> IF halt_ack(in) THEN "HALTED" ELSE "HALTING"
         [] state_debug_q = "HALTED"    -> IF in.dbg = "resume" THEN "RESUME" ELSE IF in.dbg = "progbuf" THEN "PROGBUFF" ELSE "HALTED"
         [] state_debug_q = "PROGBUFF"  -> IF in.dbg = "resume" THEN "RESUME" ELSE IF halt_ack(in) THEN "HALTED" ELSE "PROGBUFF"

Cycle(in) ==
  /\ FetchCycle(in) /\ StageCycle(in) /\ DivCycle /\ DivHistory(in) /\ MemCycle(in) /\ RegfileCycle
  /\ CsrCycle(in) /\ CuCycle(in)
  /\ stepped' = IF resume_ack THEN 0 ELSE IF wb.v /\ wb.pc < N /\ step_q /\ stepped < 2 THEN stepped + 1 ELSE stepped
  /\ UNCHANGED prog

\* The inputs that can make a difference in a cycle.  The cache answers a fetch
\* once, and is then ready; a page fault it may answer again, and not be ready
\* (ReadyWhenAnswered of Fetch).  The debugger, which speaks through riscv_dm and
\* JTAG, finds a core that has parked and has nothing left to redirect.
Resps == IF if2.v /\ if2.asked THEN BOOLEAN ELSE {FALSE}
Readys(resp) == IF if2.v /\ ~(resp /\ op(if2) = "ipf") THEN {TRUE} ELSE BOOLEAN
Mems == IF exe.v /\ unit_mem(exe) THEN BOOLEAN ELSE {FALSE}
Irqs == IF IRQ /\ (mie \/ wfi_q \/ insn("wfi")) THEN BOOLEAN ELSE {FALSE}
Ghosts == IF ~rr.v /\ \E s \in {exe, wb} : s.v /\ regfile_we(s) THEN BOOLEAN ELSE {FALSE}
settled == ~exception_enable_q /\ ~csr_enable_q /\ ~debug_ebreak_q
Dbgs == {"no"} \cup (DEBUG \cap
  CASE state_debug_q = "HAVERESET" -> {"halt_on_reset"}
    [] state_debug_q = "RUNNING"   -> {"halt"}
    [] state_debug_q = "HALTED"    -> IF settled THEN {"resume", "progbuf"} ELSE {}
    [] OTHER                       -> {})

ClockCycle ==
  \E resp \in Resps, m \in Mems, irq \in Irqs, ghost \in Ghosts, dbg \in Dbgs :
    \E ready \in Readys(resp) :
      Cycle([resp |-> resp, ready |-> ready, mem |-> m, irq |-> irq, ghost |-> ghost, dbg |-> dbg])

Next == ClockCycle
Spec == Init /\ [][Next]_vars

\* The clock runs; the caches answer.
FetchAnswers == if2.asked /\ ClockCycle /\ ~if2'.asked
MemAnswers == exe.v /\ unit_mem(exe) /\ ClockCycle /\ (mem_state' # mem_state \/ exe' # exe)
FairSpec == Spec /\ WF_vars(ClockCycle) /\ WF_vars(FetchAnswers) /\ WF_vars(MemAnswers)
-----------------------------------------------------------------------------
(* The pipeline implements the instruction set: instructions are written   *)
(* back in program order, each once, with the operands the ones before it  *)
(* left; what a trap, a branch, a jump or a serialising instruction        *)
(* flushes has no effect, with one exception: a division may get the       *)
(* quotient of one that was flushed before it, which the divider has not   *)
(* ended.                                                                  *)
StaleQuotient ==
  /\ insn("div") /\ stale
  /\ ArchPc' = Arch!Succ(ArchPc)
  /\ x' = IF prog[ArchPc].rd = 0 THEN x ELSE [x EXCEPT ![prog[ArchPc].rd] = wb.res]
  /\ UNCHANGED <<prog, amem, mepc, mie, mpie>>
ImplementsIsa == Arch!Init /\ [][Arch!Next \/ StaleQuotient]_(Arch!isaVars)

(* The same without the exception: what flush_exe says of itself (Flush    *)
(* instruction in Execution Stage, drac_pkg.sv) holds of the divider too.  *)
ImplementsIsaExactly == Arch!Spec

(* No instruction that is flushed, and none that traps, has written        *)
(* memory: between two stores memory is as the instructions written back   *)
(* left it, and the stores behind the ebreak of a program buffer.          *)
MemoryCommitted ==
  \/ mem = amem
  \/ exe.v /\ op(exe) = "store" /\ mem_state
  \/ wb.v /\ op(wb) = "store"

(* With dcsr.step set, the core that resumes writes back one instruction   *)
(* and is in debug mode again.                                             *)
SingleStep ==
  /\ stepped <= 1
  /\ stepped = 1 => debug_mode_en_q

(* A halt that is requested is acknowledged: the pipeline empties.         *)
HaltEnds == (state_debug_q = "HALTING") ~> (state_debug_q = "HALTED")
=============================================================================
