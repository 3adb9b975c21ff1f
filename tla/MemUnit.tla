------------------------------ MODULE MemUnit -------------------------------
(***************************************************************************)
(* rtl/core/drago/rtl/exe_stage/mem_unit.sv: the unit of the execution     *)
(* stage that translates the address of a load, store or atomic operation, *)
(* sends the request to the data cache and stalls the pipeline until the   *)
(* answer comes.                                                           *)
(*                                                                         *)
(* A step is one clock cycle.  instr is the instruction in the execution   *)
(* stage, a record with fields valid (a valid instruction of this unit),   *)
(* op, page (the virtual page of its address), vm (translation is on) and  *)
(* bad (misaligned, or not a virtual address); tlb what the                *)
(* data TLB answers (tlb_ready, miss, xcpt_ld, xcpt_st, and unmapped: the  *)
(* translated address is outside memory); ready and rspv the data cache    *)
(* interface accepting a request and giving an answer.                     *)
(***************************************************************************)
EXTENDS MmuPkg

CONSTANT TAGS     \* number of tags of requests (2^7)

VARIABLES
  state,
  src_q,                   \* operands sampled in Idle
  tag_id,                  \* tag of the next request
  reg_ready_resp,          \* the cache was ready in the previous cycle
  reg_valid_req,           \* a request was made in the previous cycle
  killed_dcache_req_q,     \* a request is being made again
  stall_after_flush_lsq

muVars == <<state, src_q, tag_id, reg_ready_resp, reg_valid_req,
            killed_dcache_req_q, stall_after_flush_lsq>>

MemOp == {"LOAD", "STORE", "AMO", "LR"}
MuState == {"ResetState", "Idle", "WaitRready", "WaitResponse"}

TypeOK ==
  /\ state \in MuState
  /\ src_q \in Vpn
  /\ tag_id \in 0 .. TAGS-1
  /\ reg_ready_resp \in BOOLEAN /\ reg_valid_req \in BOOLEAN
  /\ killed_dcache_req_q \in BOOLEAN /\ stall_after_flush_lsq \in BOOLEAN

Init ==
  /\ state = "ResetState"
  /\ src_q = ZeroVpn
  /\ tag_id = 0
  /\ reg_ready_resp = FALSE /\ reg_valid_req = FALSE
  /\ killed_dcache_req_q = FALSE /\ stall_after_flush_lsq = FALSE
-----------------------------------------------------------------------------
is_amo(instr)   == instr.op \in {"AMO", "LR"}
is_store(instr) == instr.op = "STORE"

\* src_d: the page of the address the unit works on in this cycle.
vpage(instr, flush) == IF state = "Idle" /\ ~flush THEN instr.page ELSE src_q

\* The request to the data TLB (dtlb_comm_o).
dtlb_req_valid(instr) == instr.valid /\ state = "Idle"
dtlb_req_store(instr) == is_amo(instr) \/ is_store(instr)

\* Fault: the TLB is idle but its miss is not looked at.
translate_enable_IgnoresMiss(instr, tlb) == tlb.tlb_ready /\ instr.valid

translate_enable(instr, tlb) == tlb.tlb_ready /\ ~tlb.miss /\ instr.valid

\* Misaligned address, page fault or access fault.
exception(instr, tlb) ==
  /\ instr.valid
  /\ \/ instr.bad
     \/ tlb.xcpt_st /\ dtlb_req_store(instr) /\ instr.op # "LR"
     \/ tlb.xcpt_ld
     \/ IF instr.vm THEN translate_enable(instr, tlb) /\ tlb.unmapped ELSE tlb.unmapped

\* The instruction can be sent to the cache in this cycle.
can_send(instr, tlb) ==
  /\ instr.valid /\ ~exception(instr, tlb)
  /\ translate_enable(instr, tlb) /\ ~stall_after_flush_lsq

\* A first request (req_cpu_dcache_valid_int).
first_req(instr, flush, tlb) ==
  ~flush /\ state \in {"Idle", "WaitRready"} /\ can_send(instr, tlb)

\* Fault: a request the cache refuses is not made again.
killed_dcache_req_d_Never(instr, flush, tlb) == FALSE

\* A request made again because it was not accepted in the previous cycle.
killed_dcache_req_d(instr, flush, tlb) ==
  ~reg_ready_resp /\ reg_valid_req /\ ~first_req(instr, flush, tlb)

\* The request the cache interface sees.
req_valid(instr, flush, tlb) ==
  first_req(instr, flush, tlb) \/ killed_dcache_req_d(instr, flush, tlb) \/ killed_dcache_req_q

\* A request made again has the type of an addition.
req_type(instr, flush, tlb) ==
  IF killed_dcache_req_d(instr, flush, tlb) THEN "ADD" ELSE instr.op

\* The pipeline waits for this unit.
stall_o(instr, flush, tlb, rspv) ==
  ~flush /\ CASE state = "ResetState"   -> instr.valid
              [] state \in {"Idle", "WaitRready"} -> instr.valid /\ ~exception(instr, tlb)
              [] state = "WaitResponse" -> ~rspv
-----------------------------------------------------------------------------
Flush(flush) ==
  /\ flush
  /\ state' = "Idle"
  /\ UNCHANGED src_q

Reset(flush) ==
  /\ ~flush /\ state = "ResetState"
  /\ state' = "Idle"
  /\ UNCHANGED src_q

NewRequest(instr, flush, tlb) ==
  /\ ~flush /\ state \in {"Idle", "WaitRready"}
  /\ state' = IF first_req(instr, flush, tlb) THEN "WaitResponse"
              ELSE IF instr.valid /\ ~exception(instr, tlb) THEN "WaitRready"
              ELSE "Idle"
  /\ src_q' = vpage(instr, flush)

\* Fault: the answer is not waited for.
WaitAnswer_Early(flush, rspv) ==
  /\ ~flush /\ state = "WaitResponse"
  /\ state' = "Idle"
  /\ UNCHANGED src_q

WaitAnswer(flush, rspv) ==
  /\ ~flush /\ state = "WaitResponse"
  /\ state' = IF rspv THEN "Idle" ELSE "WaitResponse"
  /\ UNCHANGED src_q

\* Fault: the tag does not wrap around.
Tag_NoWrap(valid, ready) ==
  tag_id' = IF valid /\ ready THEN tag_id + 1 ELSE tag_id

Tag(valid, ready) ==
  tag_id' = IF valid /\ ready THEN (tag_id + 1) % TAGS ELSE tag_id

\* Fault: a request that was made again is not forgotten when accepted.
Killed_Stays(instr, flush, tlb, ready) ==
  LET valid  == req_valid(instr, flush, tlb)
      killed == killed_dcache_req_d(instr, flush, tlb)
  IN  /\ killed_dcache_req_q' = (killed \/ killed_dcache_req_q)
      /\ stall_after_flush_lsq' = IF killed THEN flush ELSE stall_after_flush_lsq
      /\ reg_ready_resp' = ready
      /\ reg_valid_req' = valid

Killed(instr, flush, tlb, ready) ==
  LET valid  == req_valid(instr, flush, tlb)
      killed == killed_dcache_req_d(instr, flush, tlb)
  IN  /\ killed_dcache_req_q' = (~(valid /\ ready) /\ (killed \/ killed_dcache_req_q))
      /\ stall_after_flush_lsq' = CASE valid /\ ready               -> FALSE
                                    [] ~(valid /\ ready) /\ killed  -> flush
                                    [] ~(valid /\ ready) /\ ~killed -> stall_after_flush_lsq
      /\ reg_ready_resp' = ready
      /\ reg_valid_req' = valid

Cycle(instr, flush, tlb, ready, rspv) ==
  /\ \/ Flush(flush)
     \/ Reset(flush)
     \/ NewRequest(instr, flush, tlb)
     \/ WaitAnswer(flush, rspv)
  /\ Tag(req_valid(instr, flush, tlb), ready)
  /\ Killed(instr, flush, tlb, ready)
=============================================================================
