-------------------------------- MODULE Lsu ---------------------------------
(***************************************************************************)
(* Loads and stores: the execution stage's register, the memory unit, the  *)
(* data TLB and the data cache interface, as datapath.sv, exe_stage.sv and *)
(* top_tile.sv wire them.  A step is one clock cycle.                      *)
(*                                                                         *)
(* The environment is free: which instructions come, when an older one     *)
(* flushes the stage, when the walker takes a request and answers it, when *)
(* the data cache accepts a request and answers it.                        *)
(***************************************************************************)
EXTENDS Sv39Walk, Sequences, FiniteSets

CONSTANTS
  TAGS,
  Instrs,             \* memory instructions: op, page, vm, bad
  Tables,             \* page table in memory
  SATP,
  MAPPED              \* physical pages inside memory

ASSUME TagsAssumption == TAGS \in Nat /\ TAGS >= 1

VARIABLES
  exe,                \* the instruction in the execution stage
  exe_new,            \* it came in this cycle
  state, src_q, tag_id, reg_ready_resp, reg_valid_req, killed_q, stall_after_flush,
  d_state, d_entries, d_req, d_plru,
  transaction_table,
  inflight,           \* requests the cache has accepted and not answered
  performed,          \* history: what the cache accepted for the instruction in exe
  refused,            \* history: the cache has refused a request of the instruction in exe
  last                \* history: how the last instruction left, and what was done for it

muVars  == <<state, src_q, tag_id, reg_ready_resp, reg_valid_req, killed_q, stall_after_flush>>
tlbVars == <<d_state, d_entries, d_req, d_plru>>
vars == <<exe, exe_new, muVars, tlbVars, transaction_table, inflight, performed, refused, last>>

MU == INSTANCE MemUnit WITH killed_dcache_req_q <- killed_q, stall_after_flush_lsq <- stall_after_flush
DTlb == INSTANCE Tlb WITH current_state <- d_state, tlb_entries <- d_entries,
                          tlb_req_tmp <- d_req, plru_tree_q <- d_plru
DI == INSTANCE DcacheInterface

Bubble == [valid |-> FALSE, op |-> "LOAD", page |-> ZeroVpn, vm |-> FALSE, bad |-> FALSE]
Instr  == [valid : BOOLEAN, op : MU!MemOp, page : Vpn, vm : BOOLEAN, bad : BOOLEAN]

ASSUME InstrsAssumption == Instrs \subseteq {i \in Instr : i.valid}
ASSUME TablesAssumption == \A a \in DOMAIN Tables : Tables[a] \in Pte

CacheRequest == [tag : 0 .. TAGS-1, op : MU!MemOp, ppn : Ppn]

TypeOK ==
  /\ exe \in Instr /\ exe_new \in BOOLEAN
  /\ MU!TypeOK
  /\ DTlb!TypeOK
  /\ DI!TypeOK
  /\ inflight \in SUBSET CacheRequest
  /\ performed \in Seq(CacheRequest)
  /\ refused \in BOOLEAN
  /\ last \in [how : {"none", "done", "fault", "flushed"}, times : Nat,
               refused : BOOLEAN, kept : BOOLEAN]

Init ==
  /\ exe = Bubble /\ exe_new = FALSE
  /\ MU!Init
  /\ DTlb!Init
  /\ DI!Init
  /\ inflight = {}
  /\ performed = <<>>
  /\ refused = FALSE
  /\ last = [how |-> "none", times |-> 0, refused |-> FALSE, kept |-> TRUE]
-----------------------------------------------------------------------------
st == [sum |-> TRUE, mxr |-> FALSE]

\* The memory unit's request to the data TLB, and the answer.
dtlb_rq(flush) == [valid |-> MU!dtlb_req_valid(exe), vpn |-> MU!vpage(exe, flush),
                   store |-> MU!dtlb_req_store(exe), priv |-> TRUE, vm_enable |-> exe.vm]

dtlb_resp(flush) ==
  LET rq == dtlb_rq(flush)
  IN  [tlb_ready |-> DTlb!tlb_ready, miss |-> DTlb!tlb_miss(rq),
       xcpt_ld |-> DTlb!xcpt_ld(rq, st), xcpt_st |-> DTlb!xcpt_st(rq, st),
       unmapped |-> DTlb!resp_ppn(rq) \notin MAPPED]

\* What the walker finds for a page, as Ptw answers it.
WalkerAnswer(vpn) ==
  LET ptes == WalkPtes(Tables, SATP, vpn)
      l    == WalkLevel(ptes)
  IN  [valid |-> TRUE, error |-> ~ptes[l].v, level |-> l,
       pte |-> [ptes[l] EXCEPT !.ppn = [k \in Field |-> IF k <= l+1 THEN ptes[l].ppn[k] ELSE vpn[k]]]]

\* What the data TLB may receive in a cycle.  TLB flushes come from an
\* instruction that lets none follow it before it has ended.
WalkerInputs ==
  [ready : IF d_state = "SEND_REQUEST" THEN BOOLEAN ELSE {FALSE},
   invalidate : IF exe.valid THEN {FALSE} ELSE BOOLEAN,
   resp : {NoResp} \cup (IF d_state \in {"WAIT_RESPONSE", "INVALIDATED_WAIT_RESPONSE"}
                           THEN {WalkerAnswer(d_req.vpn)} ELSE {})]

\* An older instruction is in the write-back stage, and can flush this one, only
\* in the first cycle of this one: a stalled instruction sends bubbles down.
FlushInputs == {flush \in BOOLEAN : flush => exe_new \/ ~exe.valid}

\* The cache may be busy when a request comes.
ReadyInputs(flush) ==
  IF DI!core_req_valid(MU!req_valid(exe, flush, dtlb_resp(flush)), tag_id)
    THEN BOOLEAN ELSE {FALSE}

\* The request the cache sees.
Sent(flush) == [tag |-> tag_id,
                op  |-> DI!CacheOp(MU!req_type(exe, flush, dtlb_resp(flush))),
                ppn |-> DTlb!resp_ppn(dtlb_rq(flush))]

\* What the cache should do for an instruction.
Intended(i, done) ==
  /\ done.op = i.op
  /\ done.ppn = IF i.vm THEN WalkPpn(Tables, SATP, i.page) ELSE i.page
  /\ i.vm => WalkGrants(Tables, SATP, i.page, IF i.op \in {"LOAD", "LR"} THEN "LOAD" ELSE "STORE", TRUE, st)

Left(how, sent) ==
  [how |-> how, times |-> Len(sent), refused |-> refused,
   kept |-> \A k \in 1 .. Len(sent) : Intended(exe, sent[k])]

Cycle(flush, pc, ready, rsp, next) ==
  LET tlb   == dtlb_resp(flush)
      rspv  == rsp # {}
      rtag  == IF rspv THEN (CHOOSE r \in rsp : TRUE).tag ELSE 0
      valid == DI!core_req_valid(MU!req_valid(exe, flush, tlb), tag_id)
      send  == valid /\ ready
      stall == MU!stall_o(exe, flush, tlb, rspv)
      sent  == IF send THEN Append(performed, Sent(flush)) ELSE performed
      leave == exe.valid /\ (flush \/ ~stall)
  IN  /\ MU!Cycle(exe, flush, tlb, DI!resp_ready(ready, tag_id), rspv)
      /\ DTlb!Cycle(dtlb_rq(flush), pc, st)
      /\ DI!Cycle(send, tag_id, rspv, rtag)
      /\ inflight' = (inflight \ rsp) \cup (IF send THEN {Sent(flush)} ELSE {})
      /\ exe' = IF flush THEN Bubble ELSE IF stall THEN exe ELSE next
      /\ exe_new' = (~flush /\ ~stall /\ next.valid)
      /\ refused' = (~leave /\ (refused \/ (valid /\ ~ready)))
      /\ performed' = IF leave THEN <<>> ELSE sent
      /\ last' = IF leave THEN Left(IF flush THEN "flushed"
                                    ELSE IF MU!exception(exe, tlb) THEN "fault" ELSE "done", sent)
                          ELSE last

\* The answers of the cache in a cycle: none, or the one to an accepted request.
RspInputs == {{}} \cup {{r} : r \in inflight}

\* What the register-read stage sends when the execution stage takes it.
NextInstrs(flush, rsp) ==
  IF flush \/ MU!stall_o(exe, flush, dtlb_resp(flush), rsp # {}) THEN {Bubble}
  ELSE Instrs \cup {Bubble}

\* A cycle with one of the given inputs.
CycleWith(walker, rsps, readies) ==
  \E flush \in FlushInputs, pc \in walker, rsp \in rsps :
    \E ready \in ReadyInputs(flush) \cap readies, next \in NextInstrs(flush, rsp) :
      Cycle(flush, pc, ready, rsp, next)

ClockCycle == CycleWith(WalkerInputs, RspInputs, BOOLEAN)

Next == ClockCycle

\* The walker and the cache accept what they are asked for and answer.
WalkerAccepts == CycleWith({pc \in WalkerInputs : pc.ready}, RspInputs, BOOLEAN)
WalkerAnswers == CycleWith({pc \in WalkerInputs : pc.resp.valid}, RspInputs, BOOLEAN)
CacheAccepts  == CycleWith(WalkerInputs, RspInputs, {TRUE})
CacheAnswers  == CycleWith(WalkerInputs, RspInputs \ {{}}, BOOLEAN)

Spec == Init /\ [][Next]_vars
FairSpec == Spec /\ WF_vars(ClockCycle) /\ WF_vars(WalkerAccepts) /\ WF_vars(WalkerAnswers)
                 /\ WF_vars(CacheAccepts) /\ WF_vars(CacheAnswers)
-----------------------------------------------------------------------------
(* The answer the memory unit waits for is its own: the cache has at most  *)
(* one request of the core, made for the instruction that is waiting.  The *)
(* unit never looks at the tag of an answer (mem_unit.sv, WaitResponse).   *)
AnswerIsOwn ==
  inflight # {} => /\ state = "WaitResponse" /\ exe.valid
                   /\ performed # <<>> /\ inflight = {performed[Len(performed)]}

(* The table of tags is the requests in flight: no tag is requested or     *)
(* answered twice (the $fatal of dcache_interface.sv).                     *)
TableTracksCache ==
  /\ {t \in DOMAIN transaction_table : transaction_table[t] = "PENDING"} = {r.tag : r \in inflight}
  /\ Cardinality({r.tag : r \in inflight}) = Cardinality(inflight)

(* An instruction that leaves the stage to be written back was performed   *)
(* by the cache once; one that faults or is flushed was not.               *)
PerformedOnce ==
  CASE last.how = "done"               -> last.times = 1
    [] last.how \in {"fault", "flushed"} -> last.times = 0
    [] last.how = "none"               -> TRUE

(* What the cache performed for an instruction is its operation, on the    *)
(* physical page the page table gives it.                                  *)
RequestKept == last.kept

(* The same, for the instructions whose request the cache has not refused. *)
KeptIfAccepted == last.refused \/ last.kept

(* An instruction does not stay in the stage forever.                      *)
Waiting == exe.valid /\ ~exe_new
MemInstructionEnds == Waiting ~> ~Waiting

(* The same, but for an instruction that waits for an idle TLB without an  *)
(* entry for its page: its request came while the TLB was busy.            *)
RequestLost == state = "WaitRready" /\ DTlb!tlb_ready /\ ~DTlb!hit_cam(src_q)
MemInstructionGoesOn == Waiting ~> (~Waiting \/ RequestLost)
=============================================================================
