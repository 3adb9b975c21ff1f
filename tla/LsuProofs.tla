----------------------------- MODULE LsuProofs ------------------------------
(***************************************************************************)
(* Proofs about loads and stores, for page tables of any depth and width,  *)
(* TLBs of any size, any number of tags, any instructions and any timing   *)
(* of the walker and of the data cache.                                    *)
(***************************************************************************)
EXTENDS Lsu, TLAPS, SequenceTheorems, FiniteSetTheorems

\* The request of the instruction in exe waits to be accepted by the cache.
Refused == reg_valid_req /\ ~reg_ready_resp

\* The tags in use.
Pending == {t \in 0 .. TAGS-1 : transaction_table[t] = "PENDING"}

\* The control of the memory unit: the request of the instruction in exe is made
\* again until the cache takes it, and then only its answer is waited for.
ControlInv ==
  /\ ~stall_after_flush
  /\ exe_new => exe.valid /\ state = "Idle"
  /\ state = "ResetState" => ~exe.valid
  /\ state \in {"WaitRready", "WaitResponse"} => exe.valid /\ src_q = exe.page
  /\ killed_q => Refused
  /\ state # "WaitResponse" => ~Refused /\ performed = <<>> /\ inflight = {}
  /\ state = "WaitResponse" =>
       \/ Refused /\ performed = <<>> /\ inflight = {}
       \/ ~Refused /\ Len(performed) = 1 /\ inflight = {performed[1]}
  /\ Pending = {r.tag : r \in inflight}
-----------------------------------------------------------------------------
\* The PTE at which the walk for a page stops, and its level.
LeafLevel(vpn) == WalkLevel(WalkPtes(Tables, SATP, vpn))
Leaf(vpn)      == WalkPtes(Tables, SATP, vpn)[LeafLevel(vpn)]

\* An entry of the data TLB is what a walk of its page finds.
FromWalk(e) ==
  LET pte == Leaf(e.vpn)
  IN  /\ e.level = LeafLevel(e.vpn)
      /\ e.ppn = WalkPpn(Tables, SATP, e.vpn)
      /\ e.dirty = pte.d /\ e.access = pte.a /\ e.valid = pte.v
      /\ ("sr" \in e.perms \/ "ur" \in e.perms) = (pte.r /\ pte.v)
      /\ ("sw" \in e.perms \/ "uw" \in e.perms) = (pte.w /\ pte.v)

EntriesFromWalk == \A i \in DTlb!Entry : d_entries[i].nempty => FromWalk(d_entries[i])

\* The instruction in exe is one of those that come.
ExeComes == exe.valid => exe \in Instrs

\* The unit does not see a fault while it waits for the answer of the cache.
NoLateFault ==
  state = "WaitResponse" => d_state = "IDLE" /\ ~MU!exception(exe, dtlb_resp(FALSE))

\* A page a load-reserved may read is marked dirty if it may be written.
DirtyForLr ==
  \/ \A i \in Instrs : i.op # "LR"
  \/ \A vpn \in Vpn : Leaf(vpn).w => Leaf(vpn).d

\* Leaves of the page table without reserved bits or encodings, and aligned.
WellFormedTables ==
  \A vpn \in Vpn : LET pte == Leaf(vpn)
                   IN  /\ ~pte.rsv /\ (pte.w => pte.r)
                       /\ \A k \in LeafLevel(vpn)+2 .. LEVELS : pte.ppn[k] = 0

\* What the cache took without having refused it is what the instruction asks for.
TakenAsIntended ==
  /\ Refused => refused
  /\ \A k \in 1 .. Len(performed) : refused \/ Intended(exe, performed[k])
-----------------------------------------------------------------------------
(* Type correctness.                                                       *)

(* The data TLB and the memory unit share the types of MmuPkg.             *)
LEMMA InstanceTypes ==
  /\ DTlb!CacheReq = CacheReq /\ DTlb!PtwComm = PtwComm /\ DTlb!PtwResp = PtwResp
  /\ DTlb!Vpn = Vpn /\ DTlb!Ppn = Ppn /\ DTlb!Level = Level /\ DTlb!Field = Field
  /\ MU!Vpn = Vpn /\ MU!ZeroVpn = ZeroVpn
BY DEF DTlb!CacheReq, DTlb!PtwComm, DTlb!PtwResp, DTlb!Pte, DTlb!Ppn, DTlb!Vpn, DTlb!Level, DTlb!Field,
       MU!Vpn, MU!Field, MU!ZeroVpn,
       CacheReq, PtwComm, PtwResp, Pte, Ppn, Vpn, Level, Field, ZeroVpn

(* Pages of memory fit the physical page number (fetches and accesses      *)
(* without translation).                                                   *)
LEMMA VpnIsPpn == Vpn \subseteq Ppn
BY LevelsAssumption, RadixAssumption, PpnTopAssumption DEF Vpn, Ppn, Field

(* The walk of a page ends at a PTE of some level, and the page it gives   *)
(* is a physical page.                                                     *)
LEMMA LeafType ==
  ASSUME NEW vpn \in Vpn
  PROVE  /\ LeafLevel(vpn) \in Level /\ Leaf(vpn) \in Pte
         /\ WalkPpn(Tables, SATP, vpn) \in Ppn
<1>1. LeafLevel(vpn) \in Level
  BY WalkLevelType DEF LeafLevel
<1>2. Leaf(vpn) \in Pte
  BY <1>1, WalkPtesType, TablesAssumption DEF Leaf
<1>3. Leaf(vpn).ppn \in Ppn
  BY <1>2 DEF Pte
<1>4. WalkPpn(Tables, SATP, vpn) = [k \in Field |-> IF k <= LeafLevel(vpn)+1 THEN Leaf(vpn).ppn[k] ELSE vpn[k]]
  BY DEF WalkPpn, LeafLevel, Leaf
<1>5. QED
  <2> DEFINE p == Leaf(vpn).ppn
             n == LeafLevel(vpn)+1
  <2>1. p \in Ppn
    BY <1>3
  <2> HIDE DEF p, n
  <2>2. [k \in Field |-> IF k <= n THEN p[k] ELSE vpn[k]] \in Ppn
    BY <2>1, VpnIsPpn DEF Ppn
  <2>3. QED
    BY <1>1, <1>2, <1>4, <2>2 DEF p, n

(* What the walker answers is well formed.                                 *)
LEMMA WalkerAnswerType ==
  ASSUME NEW vpn \in Vpn
  PROVE  /\ WalkerAnswer(vpn) \in PtwResp
         /\ WalkerAnswer(vpn) =
              [valid |-> TRUE, error |-> ~Leaf(vpn).v, level |-> LeafLevel(vpn),
               pte |-> [Leaf(vpn) EXCEPT !.ppn = WalkPpn(Tables, SATP, vpn)]]
<1>1. WalkerAnswer(vpn) =
        [valid |-> TRUE, error |-> ~Leaf(vpn).v, level |-> LeafLevel(vpn),
         pte |-> [Leaf(vpn) EXCEPT !.ppn = WalkPpn(Tables, SATP, vpn)]]
  BY DEF WalkerAnswer, WalkPpn, LeafLevel, Leaf
<1>2. [Leaf(vpn) EXCEPT !.ppn = WalkPpn(Tables, SATP, vpn)] \in Pte
  <2> DEFINE q == Leaf(vpn)
             p == WalkPpn(Tables, SATP, vpn)
  <2>1. q \in Pte /\ p \in Ppn
    BY LeafType
  <2> HIDE DEF p, q
  <2>2. [q EXCEPT !.ppn = p] \in Pte
    BY <2>1 DEF Pte
  <2>3. QED
    BY <2>2 DEF p, q
<1>3. QED
  BY <1>1, <1>2, LeafType DEF PtwResp

(* What the data TLB receives in a cycle is well formed.                   *)
LEMMA WalkerInputType ==
  ASSUME TypeOK, NEW pc \in WalkerInputs
  PROVE  /\ pc \in PtwComm
         /\ exe.valid => ~pc.invalidate
         /\ pc.resp.valid => pc.resp = WalkerAnswer(d_req.vpn)
<1>1. d_req.vpn \in Vpn
  BY InstanceTypes DEF TypeOK, DTlb!TypeOK, DTlb!ReqTmp
<1>2. pc.ready \in BOOLEAN /\ pc.invalidate \in BOOLEAN
      /\ pc.resp \in {NoResp, WalkerAnswer(d_req.vpn)} /\ (exe.valid => ~pc.invalidate)
      /\ pc = [ready |-> pc.ready, invalidate |-> pc.invalidate, resp |-> pc.resp]
  BY DEF WalkerInputs
<1>3. pc.resp \in PtwResp
  BY <1>1, <1>2, ZeroTypes, WalkerAnswerType
<1>4. pc \in PtwComm
  BY <1>2, <1>3 DEF PtwComm
<1>5. ~NoResp.valid
  BY DEF NoResp
<1>6. QED
  BY <1>2, <1>4, <1>5

(* The request to the data TLB, and the page it gives.                     *)
LEMMA TlbRequestType ==
  ASSUME TypeOK, NEW flush \in BOOLEAN
  PROVE  dtlb_rq(flush) \in CacheReq /\ DTlb!resp_ppn(dtlb_rq(flush)) \in Ppn
<1>1. exe.page \in Vpn /\ src_q \in Vpn
  BY InstanceTypes DEF TypeOK, Instr, MU!TypeOK
<1>2. dtlb_rq(flush) \in CacheReq
  BY <1>1 DEF dtlb_rq, CacheReq, MU!vpage, MU!dtlb_req_valid, MU!dtlb_req_store, MU!is_amo, MU!is_store,
              TypeOK, Instr
<1>3. DTlb!Selected(dtlb_rq(flush).vpn).ppn \in Ppn
  <2>1. DTlb!Selected(dtlb_rq(flush).vpn) \in DTlb!TlbEntry
    BY DTlb!HitIdxType, LevelsAssumption, RadixAssumption, PpnTopAssumption, TlbEntriesAssumption,
       PtwCacheAssumption DEF DTlb!Selected, TypeOK, DTlb!TypeOK
  <2>2. QED
    BY <2>1, InstanceTypes DEF DTlb!TlbEntry
<1>4. QED
  <2> DEFINE e == DTlb!Selected(dtlb_rq(flush).vpn)
             v == dtlb_rq(flush).vpn
             vm == dtlb_rq(flush).vm_enable
             miss == DTlb!tlb_miss(dtlb_rq(flush))
             hit == DTlb!tlb_translates(dtlb_rq(flush))
  <2>1. v \in Ppn /\ e.ppn \in Ppn /\ (miss \/ hit \/ ~vm)
    BY <1>2, <1>3, VpnIsPpn DEF CacheReq, DTlb!tlb_miss, DTlb!tlb_translates
  <2>2. DTlb!resp_ppn(dtlb_rq(flush)) =
          [k \in Field |-> CASE ~vm -> v[k] [] miss -> 0 [] hit -> IF k <= e.level+1 THEN e.ppn[k] ELSE v[k]]
    BY InstanceTypes DEF DTlb!resp_ppn
  <2> HIDE DEF e, v, vm, miss, hit
  <2>3. [k \in Field |-> CASE ~vm -> v[k] [] miss -> 0 [] hit -> IF k <= e.level+1 THEN e.ppn[k] ELSE v[k]] \in Ppn
    BY <2>1, RadixAssumption, PpnTopAssumption DEF Ppn
  <2>4. QED
    BY <1>2, <2>2, <2>3

(* The stage is empty and well typed after reset.                          *)
LEMMA TypeInit == Init => TypeOK
<1> SUFFICES ASSUME Init PROVE TypeOK
  OBVIOUS
<1>1. exe \in Instr
  BY ZeroTypes DEF Init, Bubble, Instr, MU!MemOp
<1>2. MU!TypeOK
  <2>1. 0 \in 0 .. TAGS-1 /\ MU!ZeroVpn \in MU!Vpn
    BY TagsAssumption, ZeroTypes, InstanceTypes
  <2>2. QED
    BY <2>1, Zenon DEF Init, MU!Init, MU!TypeOK, MU!MuState
<1>3. DTlb!TypeOK
  BY DTlb!TlbTypeInit, LevelsAssumption, RadixAssumption, PpnTopAssumption, TlbEntriesAssumption,
     PtwCacheAssumption DEF Init
<1>4. DI!TypeOK
  BY DEF Init, DI!Init, DI!TypeOK
<1>5. inflight \in SUBSET CacheRequest /\ performed \in Seq(CacheRequest)
  BY DEF Init
<1>6. QED
  BY <1>1, <1>2, <1>3, <1>4, <1>5 DEF Init, TypeOK

(* A cycle keeps the memory unit's registers well typed: the tag wraps     *)
(* around.                                                                 *)
LEMMA MemUnitTypeCycle ==
  ASSUME MU!TypeOK, NEW instr, instr.page \in Vpn, NEW flush \in BOOLEAN, NEW tlb,
         NEW ready \in BOOLEAN, NEW rspv, MU!Cycle(instr, flush, tlb, ready, rspv)
  PROVE  MU!TypeOK'
<1>1. state' \in MU!MuState /\ src_q' \in MU!Vpn
  BY InstanceTypes DEF MU!Cycle, MU!Flush, MU!Reset, MU!NewRequest, MU!WaitAnswer, MU!vpage, MU!TypeOK, MU!MuState
<1>2. tag_id' \in 0 .. TAGS-1
  BY TagsAssumption DEF MU!Cycle, MU!Tag, MU!TypeOK
<1>3. /\ reg_ready_resp' \in BOOLEAN /\ reg_valid_req' \in BOOLEAN
      /\ killed_q' \in BOOLEAN /\ stall_after_flush' \in BOOLEAN
  <2> DEFINE valid == MU!req_valid(instr, flush, tlb)
             killed == MU!killed_dcache_req_d(instr, flush, tlb)
  <2>1. valid \in BOOLEAN /\ killed \in BOOLEAN
    BY DEF MU!req_valid, MU!killed_dcache_req_d, MU!first_req
  <2>2. /\ killed_q' = (~(valid /\ ready) /\ (killed \/ killed_q))
        /\ stall_after_flush' = CASE valid /\ ready               -> FALSE
                                  [] ~(valid /\ ready) /\ killed  -> flush
                                  [] ~(valid /\ ready) /\ ~killed -> stall_after_flush
        /\ reg_ready_resp' = ready /\ reg_valid_req' = valid
    BY DEF MU!Cycle, MU!Killed
  <2> HIDE DEF valid, killed
  <2>3. QED
    BY <2>1, <2>2 DEF MU!TypeOK
<1>4. QED
  BY <1>1, <1>2, <1>3 DEF MU!TypeOK

\* The inputs of a cycle.
InputsOf(flush, pc, ready, rsp, next) ==
  /\ flush \in FlushInputs /\ pc \in WalkerInputs /\ rsp \in RspInputs
  /\ ready \in ReadyInputs(flush) /\ next \in NextInstrs(flush, rsp)

(* The inputs of a cycle are well typed, and a request to the cache too.   *)
LEMMA InputTypes ==
  ASSUME TypeOK, NEW flush, NEW pc, NEW ready, NEW rsp, NEW next, InputsOf(flush, pc, ready, rsp, next)
  PROVE  /\ flush \in BOOLEAN /\ ready \in BOOLEAN
         /\ flush => exe_new \/ ~exe.valid
         /\ next \in Instr
         /\ rsp \subseteq inflight
         /\ Sent(flush) \in CacheRequest
<1>1. flush \in BOOLEAN /\ ready \in BOOLEAN /\ (flush => exe_new \/ ~exe.valid)
  BY DEF InputsOf, FlushInputs, ReadyInputs
<1>2. next \in Instr
  <2>1. Bubble \in Instr
    BY ZeroTypes DEF Bubble, Instr, MU!MemOp
  <2>2. QED
    BY <2>1, InstrsAssumption DEF InputsOf, NextInstrs
<1>3. rsp \subseteq inflight
  BY DEF InputsOf, RspInputs
<1>4. Sent(flush) \in CacheRequest
  <2>1. MU!req_type(exe, flush, dtlb_resp(flush)) \in MU!MemOp \cup {"ADD"}
    BY DEF MU!req_type, TypeOK, Instr
  <2>2. DI!CacheOp(MU!req_type(exe, flush, dtlb_resp(flush))) \in MU!MemOp
    BY <2>1 DEF DI!CacheOp, MU!MemOp
  <2>3. QED
    BY <1>1, <2>2, TlbRequestType DEF Sent, CacheRequest, TypeOK, MU!TypeOK
<1>5. QED
  BY <1>1, <1>2, <1>3, <1>4

(* A cycle keeps the stage well typed.                                     *)
LEMMA TypeCycle ==
  ASSUME TypeOK, NEW flush, NEW pc, NEW ready, NEW rsp, NEW next, InputsOf(flush, pc, ready, rsp, next),
         Cycle(flush, pc, ready, rsp, next)
  PROVE  TypeOK'
<1>1. flush \in BOOLEAN /\ ready \in BOOLEAN /\ next \in Instr /\ rsp \subseteq inflight
      /\ Sent(flush) \in CacheRequest
  BY InputTypes
<1>2. exe' \in Instr /\ exe_new' \in BOOLEAN
  <2>1. Bubble \in Instr
    BY ZeroTypes DEF Bubble, Instr, MU!MemOp
  <2>2. QED
    BY <1>1, <2>1 DEF Cycle, TypeOK
<1>3. MU!TypeOK'
  <2>1. DI!resp_ready(ready, tag_id) \in BOOLEAN /\ exe.page \in Vpn
    BY <1>1 DEF DI!resp_ready, TypeOK, Instr
  <2>2. MU!Cycle(exe, flush, dtlb_resp(flush), DI!resp_ready(ready, tag_id), rsp # {})
    BY DEF Cycle
  <2>3. QED
    BY <1>1, <2>1, <2>2, MemUnitTypeCycle DEF TypeOK
<1>4. DTlb!TypeOK'
  <2>1. DTlb!Cycle(dtlb_rq(flush), pc, st)
    BY DEF Cycle
  <2>2. pc \in DTlb!PtwComm /\ dtlb_rq(flush) \in DTlb!CacheReq
    BY <1>1, InstanceTypes, WalkerInputType, TlbRequestType DEF InputsOf
  <2>3. QED
    BY <2>1, <2>2, DTlb!TlbTypeCycle, LevelsAssumption, RadixAssumption, PpnTopAssumption,
       TlbEntriesAssumption, PtwCacheAssumption DEF TypeOK
<1>5. DI!TypeOK'
  BY DEF Cycle, DI!Cycle, DI!TypeOK, TypeOK
<1>6. inflight' \in SUBSET CacheRequest
  BY <1>1 DEF Cycle, TypeOK
<1> DEFINE sent == IF DI!core_req_valid(MU!req_valid(exe, flush, dtlb_resp(flush)), tag_id) /\ ready
                     THEN Append(performed, Sent(flush)) ELSE performed
<1>7. sent \in Seq(CacheRequest)
  BY <1>1 DEF TypeOK
<1>8. performed' \in Seq(CacheRequest)
  BY <1>7 DEF Cycle
<1>9. refused' \in BOOLEAN
  BY DEF Cycle
<1>10. last' \in [how : {"none", "done", "fault", "flushed"}, times : Nat, refused : BOOLEAN, kept : BOOLEAN]
  <2>1. last' = last \/ \E how \in {"done", "fault", "flushed"} : last' = Left(how, sent)
    BY DEF Cycle
  <2>2. Len(sent) \in Nat
    BY <1>7
  <2> HIDE DEF sent
  <2>3. \A how \in {"done", "fault", "flushed"} :
          Left(how, sent) \in [how : {"none", "done", "fault", "flushed"}, times : Nat, refused : BOOLEAN, kept : BOOLEAN]
    BY <2>2 DEF Left, TypeOK
  <2>4. QED
    BY <2>1, <2>3 DEF TypeOK
<1>11. QED
  BY <1>2, <1>3, <1>4, <1>5, <1>6, <1>8, <1>9, <1>10 DEF TypeOK

(* A step is a cycle with its inputs, or changes nothing.                  *)
LEMMA StepIsCycle ==
  ASSUME [Next]_vars
  PROVE  \/ \E flush, pc, ready, rsp, next :
              InputsOf(flush, pc, ready, rsp, next) /\ Cycle(flush, pc, ready, rsp, next)
         \/ UNCHANGED vars
BY DEF Next, ClockCycle, CycleWith, InputsOf

(* Steps keep the stage well typed.                                        *)
LEMMA TypeStep == TypeOK /\ [Next]_vars => TypeOK'
<1> SUFFICES ASSUME TypeOK, [Next]_vars PROVE TypeOK'
  OBVIOUS
<1>1. CASE UNCHANGED vars
  BY <1>1 DEF vars, muVars, tlbVars, TypeOK, MU!TypeOK, DTlb!TypeOK, DTlb!Plru!TypeOK, DI!TypeOK
<1>2. QED
  BY <1>1, StepIsCycle, TypeCycle

(* Every register of the memory unit, the data TLB and the data cache      *)
(* interface stays within its type (mem_unit.sv, tlb.sv,                   *)
(* dcache_interface.sv).                                                   *)
THEOREM TypeCorrect == Spec => []TypeOK
<1>1. QED
  BY TypeInit, TypeStep, PTL DEF Spec
-----------------------------------------------------------------------------
(* The control of the memory unit.                                         *)

\* The request in a cycle, where first says whether it is made for the first time:
\* made again, made at all, and its tag is not in use.
Again(first) == Refused /\ ~first
Made(first)  == first \/ Again(first) \/ killed_q
Free         == transaction_table[tag_id] # "PENDING"

\* What a cycle does to the request of the instruction, where fault says whether
\* the instruction faults.
ControlStep(flush, ready, rsp, next, first, fault) ==
  LET taken == Made(first) /\ Free /\ ready
      stall == ~flush /\ CASE state = "ResetState" -> exe.valid
                           [] state \in {"Idle", "WaitRready"} -> exe.valid /\ ~fault
                           [] state = "WaitResponse" -> rsp = {}
  IN  /\ killed_q' = (~taken /\ (Again(first) \/ killed_q))
      /\ Refused' = (Made(first) /\ ~taken)
      /\ stall_after_flush' = IF taken THEN FALSE ELSE IF Again(first) THEN flush ELSE stall_after_flush
      /\ inflight' = (inflight \ rsp) \cup (IF taken THEN {Sent(flush)} ELSE {})
      /\ performed' = IF exe.valid /\ (flush \/ ~stall) THEN <<>>
                      ELSE IF taken THEN Append(performed, Sent(flush)) ELSE performed
      /\ exe' = (IF flush THEN Bubble ELSE IF stall THEN exe ELSE next)
      /\ exe_new' = (~flush /\ ~stall /\ next.valid)
      /\ first => /\ ~flush /\ exe.valid /\ ~fault /\ state \in {"Idle", "WaitRready"}
      /\ flush \/ state = "ResetState" => state' = "Idle"
      /\ ~flush /\ state \in {"Idle", "WaitRready"} =>
           /\ src_q' = IF state = "Idle" THEN exe.page ELSE src_q
           /\ state' = IF first THEN "WaitResponse" ELSE IF exe.valid /\ ~fault THEN "WaitRready" ELSE "Idle"
      /\ ~flush /\ state = "WaitResponse" =>
           /\ src_q' = src_q
           /\ state' = IF rsp # {} THEN "Idle" ELSE "WaitResponse"

(* A cycle does that.                                                      *)
LEMMA CycleControl ==
  ASSUME TypeOK, NEW flush, NEW pc, NEW ready, NEW rsp, NEW next, InputsOf(flush, pc, ready, rsp, next),
         Cycle(flush, pc, ready, rsp, next)
  PROVE  ControlStep(flush, ready, rsp, next, MU!first_req(exe, flush, dtlb_resp(flush)),
                     MU!exception(exe, dtlb_resp(flush)))
<1> DEFINE first == MU!first_req(exe, flush, dtlb_resp(flush))
           fault == MU!exception(exe, dtlb_resp(flush))
           taken == Made(first) /\ Free /\ ready
           stall == ~flush /\ CASE state = "ResetState" -> exe.valid
                                [] state \in {"Idle", "WaitRready"} -> exe.valid /\ ~fault
                                [] state = "WaitResponse" -> rsp = {}
<1>1. flush \in BOOLEAN /\ ready \in BOOLEAN
  BY InputTypes
<1>2. /\ state \in MU!MuState /\ killed_q \in BOOLEAN /\ stall_after_flush \in BOOLEAN
      /\ next.valid \in BOOLEAN
  BY InputTypes DEF TypeOK, MU!TypeOK, Instr
<1>3. MU!req_valid(exe, flush, dtlb_resp(flush)) = Made(first)
      /\ MU!killed_dcache_req_d(exe, flush, dtlb_resp(flush)) = Again(first)
  BY DEF MU!req_valid, MU!killed_dcache_req_d, Refused, Made, Again
<1>4. DI!resp_ready(ready, tag_id) = (ready /\ Free)
      /\ DI!core_req_valid(Made(first), tag_id) = (Made(first) /\ Free)
  BY DEF DI!resp_ready, DI!core_req_valid, DI!wait_resp_same_tag, Free
<1>5. first \in BOOLEAN /\ Again(first) \in BOOLEAN /\ Made(first) \in BOOLEAN /\ Free \in BOOLEAN
  BY DEF MU!first_req, Made, Again, Free
<1>6. MU!Cycle(exe, flush, dtlb_resp(flush), ready /\ Free, rsp # {})
  BY <1>4 DEF Cycle
<1>7. /\ killed_q' = (~taken /\ (Again(first) \/ killed_q))
      /\ Refused' = (Made(first) /\ ~taken)
      /\ stall_after_flush' = IF taken THEN FALSE ELSE IF Again(first) THEN flush ELSE stall_after_flush
  <2>1. /\ killed_q' = (~(Made(first) /\ (ready /\ Free)) /\ (Again(first) \/ killed_q))
        /\ reg_ready_resp' = (ready /\ Free) /\ reg_valid_req' = Made(first)
        /\ stall_after_flush' = CASE Made(first) /\ (ready /\ Free)                    -> FALSE
                                  [] ~(Made(first) /\ (ready /\ Free)) /\ Again(first)  -> flush
                                  [] ~(Made(first) /\ (ready /\ Free)) /\ ~Again(first) -> stall_after_flush
    BY <1>3, <1>6 DEF MU!Cycle, MU!Killed
  <2> HIDE DEF first
  <2>2. Refused' = (Made(first) /\ ~(ready /\ Free))
    BY <2>1 DEF Refused
  <2>3. QED
    BY <1>1, <1>2, <1>5, <2>1, <2>2
<1>8. MU!stall_o(exe, flush, dtlb_resp(flush), rsp # {}) = stall
  BY <1>1, <1>2 DEF MU!stall_o, MU!MuState
<1>9. first => ~flush /\ exe.valid /\ ~fault /\ state \in {"Idle", "WaitRready"}
  BY DEF MU!first_req, MU!can_send
<1>10. inflight' = (inflight \ rsp) \cup (IF taken THEN {Sent(flush)} ELSE {})
  BY <1>3, <1>4 DEF Cycle
<1>11. exe' = (IF flush THEN Bubble ELSE IF stall THEN exe ELSE next) /\ exe_new' = (~flush /\ ~stall /\ next.valid)
  BY <1>8 DEF Cycle
<1>12. flush \/ state = "ResetState" => state' = "Idle"
  BY <1>6 DEF MU!Cycle, MU!Flush, MU!Reset, MU!NewRequest, MU!WaitAnswer
<1>13. ~flush /\ state \in {"Idle", "WaitRready"} =>
         /\ src_q' = IF state = "Idle" THEN exe.page ELSE src_q
         /\ state' = IF first THEN "WaitResponse" ELSE IF exe.valid /\ ~fault THEN "WaitRready" ELSE "Idle"
  <2> SUFFICES ASSUME ~flush, state \in {"Idle", "WaitRready"}
               PROVE  /\ src_q' = IF state = "Idle" THEN exe.page ELSE src_q
                      /\ state' = IF first THEN "WaitResponse" ELSE IF exe.valid /\ ~fault THEN "WaitRready" ELSE "Idle"
    OBVIOUS
  <2>1. MU!NewRequest(exe, flush, dtlb_resp(flush))
    BY <1>6 DEF MU!Cycle, MU!Flush, MU!Reset, MU!WaitAnswer
  <2>2. QED
    BY <2>1 DEF MU!NewRequest, MU!vpage
<1>14. ~flush /\ state = "WaitResponse" =>
         src_q' = src_q /\ state' = IF rsp # {} THEN "Idle" ELSE "WaitResponse"
  BY <1>6 DEF MU!Cycle, MU!Flush, MU!Reset, MU!NewRequest, MU!WaitAnswer
<1>15. performed' = IF exe.valid /\ (flush \/ ~stall) THEN <<>>
                    ELSE IF taken THEN Append(performed, Sent(flush)) ELSE performed
  BY <1>3, <1>4, <1>8 DEF Cycle
<1>16. QED
  <2> HIDE DEF first, fault
  <2>1. ControlStep(flush, ready, rsp, next, first, fault)
    BY <1>7, <1>9, <1>10, <1>11, <1>12, <1>13, <1>14, <1>15, Zenon DEF ControlStep
  <2>2. QED
    BY <2>1 DEF first, fault

(* The table of tags after a cycle: the tag of a request that is accepted  *)
(* comes into use, that of an answer is free again.                        *)
LEMMA CycleTable ==
  ASSUME TypeOK, NEW send \in BOOLEAN, NEW receive \in BOOLEAN, NEW tag,
         DI!Cycle(send, tag_id, receive, tag)
  PROVE  /\ ~receive => Pending' = Pending \cup (IF send THEN {tag_id} ELSE {})
         /\ ~send /\ receive => Pending' = Pending \ {tag}
<1>1. /\ tag_id \in 0 .. TAGS-1 /\ TAGS \in Nat
      /\ transaction_table \in [0 .. TAGS-1 -> {"IDLE", "PENDING"}]
  BY TagsAssumption DEF TypeOK, MU!TypeOK, DI!TypeOK
<1>2. \A t \in 0 .. TAGS-1 :
        transaction_table'[t] = IF receive /\ t = tag THEN "IDLE"
                                ELSE IF send /\ t = tag_id THEN "PENDING" ELSE transaction_table[t]
  BY <1>1 DEF DI!Cycle
<1>3. QED
  BY <1>1, <1>2 DEF Pending

(* A cycle keeps the control.  While the instruction waits, no flush can   *)
(* come: an older instruction can be written back only in its first cycle. *)
LEMMA ControlCycle ==
  ASSUME TypeOK, ControlInv, NEW flush, NEW pc, NEW ready, NEW rsp, NEW next,
         InputsOf(flush, pc, ready, rsp, next), Cycle(flush, pc, ready, rsp, next)
  PROVE  ControlInv'
<1> DEFINE first == MU!first_req(exe, flush, dtlb_resp(flush))
           fault == MU!exception(exe, dtlb_resp(flush))
           send == Made(first) /\ Free /\ ready
           rtag == IF rsp # {} THEN (CHOOSE r \in rsp : TRUE).tag ELSE 0
<1>1. /\ flush \in BOOLEAN /\ ready \in BOOLEAN /\ (flush => exe_new \/ ~exe.valid)
      /\ next \in Instr /\ rsp \subseteq inflight /\ Sent(flush).tag = tag_id
      /\ killed_q \in BOOLEAN /\ state \in MU!MuState /\ stall_after_flush \in BOOLEAN
      /\ exe.valid \in BOOLEAN /\ next.valid \in BOOLEAN /\ exe_new \in BOOLEAN
  <2>1. Sent(flush).tag = tag_id
    BY DEF Sent
  <2>2. /\ killed_q \in BOOLEAN /\ state \in MU!MuState /\ stall_after_flush \in BOOLEAN
        /\ exe \in Instr /\ exe_new \in BOOLEAN
    BY DEF TypeOK, MU!TypeOK
  <2>3. QED
    BY <2>1, <2>2, InputTypes DEF Instr
<1>2. DI!Cycle(send, tag_id, rsp # {}, rtag)
  <2>1. MU!req_valid(exe, flush, dtlb_resp(flush)) = Made(first)
    BY DEF MU!req_valid, MU!killed_dcache_req_d, Refused, Made, Again
  <2>2. QED
    BY <2>1 DEF Cycle, DI!core_req_valid, DI!wait_resp_same_tag, Free
<1>3. ControlStep(flush, ready, rsp, next, first, fault)
  BY CycleControl
<1>4. first \in BOOLEAN
  BY DEF MU!first_req
<1> HIDE DEF first, fault
<1> USE DEF Made, Again
<1>5. tag_id \in 0 .. TAGS-1 /\ (Free <=> tag_id \notin Pending)
  BY DEF Pending, Free, TypeOK, MU!TypeOK
<1>6. Bubble.valid = FALSE
  BY DEF Bubble
<1>7. CASE state # "WaitResponse"
  <2>1. ~Refused /\ ~killed_q /\ performed = <<>> /\ inflight = {} /\ rsp = {} /\ Free /\ ~stall_after_flush
    BY <1>1, <1>5, <1>7 DEF ControlInv
  <2>2. Made(first) = first /\ ~Again(first)
    BY <1>4, <2>1
  <2>3. Pending' = {r.tag : r \in inflight'}
    <3>1. Pending = {}
      BY <2>1 DEF ControlInv
    <3>2. Pending' = IF send THEN {tag_id} ELSE {}
      BY <1>2, <2>1, <3>1, CycleTable
    <3>3. inflight' = IF send THEN {Sent(flush)} ELSE {}
      BY <1>3, <2>1 DEF ControlStep
    <3>4. QED
      BY <1>1, <3>2, <3>3
  <2>4. CASE flush
    <3>1. ~first
      BY <1>3, <2>4 DEF ControlStep
    <3>2. /\ ~stall_after_flush' /\ state' = "Idle" /\ ~exe_new' /\ ~killed_q' /\ ~Refused'
          /\ performed' = <<>> /\ inflight' = {}
      BY <1>3, <2>1, <2>2, <2>4, <3>1 DEF ControlStep
    <3>3. QED
      BY <2>3, <3>2 DEF ControlInv
  <2>5. CASE ~flush /\ state = "ResetState"
    <3>1. ~first /\ ~exe.valid
      BY <1>3, <2>5 DEF ControlStep, ControlInv
    <3>2. /\ ~stall_after_flush' /\ state' = "Idle" /\ ~killed_q' /\ ~Refused'
          /\ performed' = <<>> /\ inflight' = {} /\ exe' = next /\ exe_new' = next.valid
      BY <1>1, <1>3, <2>1, <2>2, <2>5, <3>1 DEF ControlStep
    <3>3. QED
      BY <2>3, <3>2 DEF ControlInv
  <2>6. CASE ~flush /\ state \in {"Idle", "WaitRready"} /\ ~first
    <3>1. /\ ~stall_after_flush' /\ ~killed_q' /\ ~Refused' /\ performed' = <<>> /\ inflight' = {}
      BY <1>3, <2>1, <2>2, <2>6 DEF ControlStep
    <3>2. /\ src_q' = IF state = "Idle" THEN exe.page ELSE src_q
          /\ state' = IF exe.valid /\ ~fault THEN "WaitRready" ELSE "Idle"
          /\ IF exe.valid /\ ~fault THEN exe' = exe /\ ~exe_new' ELSE exe' = next /\ exe_new' = next.valid
      BY <1>1, <1>3, <2>6 DEF ControlStep
    <3>3. state = "WaitRready" => src_q = exe.page
      BY DEF ControlInv
    <3>4. QED
      BY <2>3, <2>6, <3>1, <3>2, <3>3 DEF ControlInv
  <2>7. CASE first
    <3>1. ~flush /\ exe.valid /\ ~fault /\ state \in {"Idle", "WaitRready"}
      BY <1>3, <2>7 DEF ControlStep
    <3>2. /\ src_q' = IF state = "Idle" THEN exe.page ELSE src_q
          /\ state' = "WaitResponse" /\ exe' = exe /\ ~exe_new'
          /\ ~stall_after_flush' /\ ~killed_q' /\ Refused' = ~ready
      BY <1>1, <1>3, <2>1, <2>2, <2>7, <3>1 DEF ControlStep
    <3>3. performed' = (IF ready THEN Append(<<>>, Sent(flush)) ELSE <<>>)
          /\ inflight' = (IF ready THEN {Sent(flush)} ELSE {})
      BY <1>3, <2>1, <2>2, <2>7, <3>1 DEF ControlStep
    <3>4. state = "WaitRready" => src_q = exe.page
      BY DEF ControlInv
    <3>5. ready => Len(performed') = 1 /\ inflight' = {performed'[1]}
      BY <3>3
    <3>6. QED
      BY <1>1, <2>3, <3>1, <3>2, <3>3, <3>4, <3>5 DEF ControlInv
  <2>8. QED
    BY <1>1, <1>7, <2>4, <2>5, <2>6, <2>7 DEF MU!MuState
<1>8. CASE state = "WaitResponse"
  <2>1. exe.valid /\ ~exe_new /\ ~flush /\ ~first /\ src_q = exe.page /\ ~stall_after_flush
    BY <1>1, <1>3, <1>8 DEF ControlInv, ControlStep
  <2>2. src_q' = src_q
    BY <1>3, <1>8, <2>1 DEF ControlStep
  <2>3. CASE Refused
    <3>1. performed = <<>> /\ inflight = {} /\ rsp = {} /\ Free
      BY <1>1, <1>5, <1>8, <2>3 DEF ControlInv
    <3>2. Again(first) /\ Made(first)
      BY <2>1, <2>3
    <3>3. /\ state' = "WaitResponse" /\ exe' = exe /\ ~exe_new' /\ ~stall_after_flush'
          /\ killed_q' = ~ready /\ Refused' = ~ready
      BY <1>1, <1>3, <1>8, <2>1, <3>1, <3>2 DEF ControlStep
    <3>4. performed' = (IF ready THEN Append(<<>>, Sent(flush)) ELSE <<>>)
          /\ inflight' = (IF ready THEN {Sent(flush)} ELSE {})
      BY <1>3, <1>8, <2>1, <3>1, <3>2 DEF ControlStep
    <3>5. Pending' = {r.tag : r \in inflight'}
      <4>1. Pending = {}
        BY <3>1 DEF ControlInv
      <4>2. Pending' = IF ready THEN {tag_id} ELSE {}
        BY <1>2, <3>1, <3>2, <4>1, CycleTable
      <4>3. QED
        BY <1>1, <3>4, <4>2
    <3>6. ready => Len(performed') = 1 /\ inflight' = {performed'[1]}
      BY <3>4
    <3>7. QED
      BY <1>1, <2>1, <2>2, <3>3, <3>4, <3>5, <3>6 DEF ControlInv
  <2>4. CASE ~Refused
    <3>1. Len(performed) = 1 /\ inflight = {performed[1]} /\ ~killed_q /\ ~Made(first)
      BY <1>8, <2>1, <2>4 DEF ControlInv
    <3>2. ~stall_after_flush' /\ ~killed_q' /\ ~Refused' /\ inflight' = inflight \ rsp
      BY <1>1, <1>3, <2>1, <3>1 DEF ControlStep
    <3>3. CASE rsp = {}
      <4>1. state' = "WaitResponse" /\ exe' = exe /\ ~exe_new' /\ performed' = performed
        BY <1>3, <1>8, <2>1, <3>1, <3>3 DEF ControlStep
      <4>2. inflight' = inflight
        BY <3>2, <3>3
      <4>3. Pending' = Pending
        BY <1>2, <3>1, <3>3, CycleTable
      <4>4. QED
        BY <2>1, <2>2, <3>1, <3>2, <4>1, <4>2, <4>3 DEF ControlInv
    <3>4. CASE rsp # {}
      <4>1. state' = "Idle" /\ exe' = next /\ exe_new' = next.valid /\ performed' = <<>>
        BY <1>1, <1>3, <1>8, <2>1, <3>1, <3>4 DEF ControlStep
      <4>2. rsp = inflight /\ rtag = performed[1].tag
        BY <1>1, <3>1, <3>4
      <4>3. inflight' = {}
        BY <3>2, <4>2
      <4>4. Pending' = {}
        <5>1. Pending = {performed[1].tag}
          BY <3>1 DEF ControlInv
        <5>2. QED
          BY <1>2, <3>1, <3>4, <4>2, <5>1, CycleTable
      <4>5. QED
        BY <1>1, <3>2, <4>1, <4>3, <4>4 DEF ControlInv
    <3>5. QED
      BY <3>3, <3>4
  <2>5. QED
    BY <2>3, <2>4
<1>9. QED
  BY <1>7, <1>8

(* The control holds after reset, and steps keep it.                       *)
LEMMA ControlInit == Init => ControlInv
<1> SUFFICES ASSUME Init PROVE ControlInv
  OBVIOUS
<1>1. Pending = {}
  BY DEF Init, DI!Init, Pending
<1>2. state = "ResetState" /\ ~stall_after_flush /\ ~killed_q /\ ~Refused
  BY DEF Init, MU!Init, Refused
<1>3. QED
  BY <1>1, <1>2 DEF Init, ControlInv, Bubble

(* Steps keep the control.                                                 *)
LEMMA ControlStepInv == TypeOK /\ ControlInv /\ [Next]_vars => ControlInv'
<1> SUFFICES ASSUME TypeOK, ControlInv, [Next]_vars PROVE ControlInv'
  OBVIOUS
<1>1. CASE UNCHANGED vars
  BY <1>1 DEF vars, muVars, ControlInv, Refused, Pending
<1>2. QED
  BY <1>1, StepIsCycle, ControlCycle

(* The control is an invariant.                                            *)
LEMMA ControlHolds == Spec => [](TypeOK /\ ControlInv)
<1>1. Init => TypeOK /\ ControlInv
  BY TypeInit, ControlInit
<1>2. TypeOK /\ ControlInv /\ [Next]_vars => (TypeOK /\ ControlInv)'
  BY TypeStep, ControlStepInv
<1>3. QED
  BY <1>1, <1>2, PTL DEF Spec

(* The memory unit takes any answer for its own (mem_unit.sv,              *)
(* WaitResponse), and it is: the cache never has a request of another      *)
(* instruction, or of one that was flushed, when one waits.                *)
THEOREM AnswersAreOwn == Spec => []AnswerIsOwn
<1>1. ControlInv => AnswerIsOwn
  BY DEF ControlInv, AnswerIsOwn
<1>2. QED
  BY <1>1, ControlHolds, PTL

(* The table of tags is the requests in flight, so that the $fatal of      *)
(* dcache_interface.sv (an answer or a request for the wrong tag) cannot   *)
(* happen.                                                                 *)
THEOREM TableIsRequests == Spec => []TableTracksCache
<1>1. TypeOK /\ ControlInv => TableTracksCache
  <2> SUFFICES ASSUME TypeOK, ControlInv PROVE TableTracksCache
    OBVIOUS
  <2>1. {t \in DOMAIN transaction_table : transaction_table[t] = "PENDING"} = {r.tag : r \in inflight}
    <3>1. DOMAIN transaction_table = 0 .. TAGS-1
      BY DEF TypeOK, DI!TypeOK
    <3>2. QED
      BY <3>1 DEF ControlInv, Pending
  <2>2. inflight = {} \/ \E q : inflight = {q}
    BY DEF ControlInv, TypeOK, MU!TypeOK
  <2>3. ASSUME NEW q, inflight = {q}
        PROVE  Cardinality({r.tag : r \in inflight}) = Cardinality(inflight)
    <3>1. {r.tag : r \in inflight} = {q.tag}
      BY <2>3
    <3>2. QED
      BY <2>3, <3>1, FS_Singleton
  <2>4. CASE inflight = {}
    <3>1. {r.tag : r \in inflight} = inflight
      BY <2>4
    <3>2. QED
      BY <2>1, <3>1 DEF TableTracksCache
  <2>5. QED
    BY <2>1, <2>2, <2>3, <2>4 DEF TableTracksCache
<1>2. QED
  BY <1>1, ControlHolds, PTL
-----------------------------------------------------------------------------
(* The data TLB.                                                           *)

(* The entry a walk fills is what the walk found.                          *)
LEMMA FilledFromWalk ==
  ASSUME TypeOK
  PROVE  FromWalk(DTlb!FilledEntry(WalkerAnswer(d_req.vpn)))
<1> DEFINE v == d_req.vpn
           q == Leaf(v)
           p == WalkPpn(Tables, SATP, v)
           resp == [valid |-> TRUE, error |-> ~q.v, level |-> LeafLevel(v), pte |-> [q EXCEPT !.ppn = p]]
           e == DTlb!FilledEntry(resp)
<1>1. v \in Vpn
  BY InstanceTypes DEF TypeOK, DTlb!TypeOK, DTlb!ReqTmp
<1>2. WalkerAnswer(v) = resp /\ q \in Pte
  BY <1>1, WalkerAnswerType, LeafType
<1>3. /\ resp.pte.ppn = p /\ resp.pte.d = q.d /\ resp.pte.a = q.a /\ resp.pte.v = q.v
      /\ resp.pte.r = q.r /\ resp.pte.w = q.w /\ resp.pte.u = q.u
      /\ q.r \in BOOLEAN /\ q.w \in BOOLEAN /\ q.u \in BOOLEAN /\ q.v \in BOOLEAN
  <2> HIDE DEF p, q
  <2> QED BY <1>2 DEF Pte
<1>4. /\ e.vpn = v /\ e.level = LeafLevel(v) /\ e.ppn = p
      /\ e.dirty = q.d /\ e.access = q.a /\ e.valid = q.v
  <2> HIDE DEF p, q
  <2> QED BY <1>3 DEF DTlb!FilledEntry
<1>5. /\ ("sr" \in e.perms \/ "ur" \in e.perms) = (q.r /\ q.v)
      /\ ("sw" \in e.perms \/ "uw" \in e.perms) = (q.w /\ q.v)
  <2> HIDE DEF p, q
  <2> QED BY <1>3 DEF DTlb!FilledEntry
<1>6. QED
  <2> HIDE DEF p, resp
  <2> QED BY <1>2, <1>4, <1>5 DEF FromWalk, p

(* A cycle of the TLB removes entries, or writes what a walk found.        *)
LEMMA EntriesCycle ==
  ASSUME TypeOK, EntriesFromWalk, NEW rq, NEW pc \in WalkerInputs, DTlb!Cycle(rq, pc, st)
  PROVE  EntriesFromWalk'
<1>1. pc.resp.valid => pc.resp = WalkerAnswer(d_req.vpn)
  BY WalkerInputType
<1>2. \/ DTlb!UpdateEntries(rq, pc, st, rq.valid, FALSE)
      \/ DTlb!UpdateEntries(rq, pc, st, FALSE, FALSE)
      \/ DTlb!UpdateEntries(rq, pc, st, FALSE, pc.resp.valid)
  BY Zenon DEF DTlb!Cycle, DTlb!Idle, DTlb!SendRequest, DTlb!WaitResponse, DTlb!InvalidatedWaitResponse
<1>3. ASSUME NEW i \in DTlb!Entry
      PROVE  \/ d_entries'[i] = DTlb!EmptyEntry
             \/ d_entries'[i] = d_entries[i]
             \/ d_entries'[i] = DTlb!FilledEntry(WalkerAnswer(d_req.vpn))
  BY <1>1, <1>2 DEF DTlb!UpdateEntries, TypeOK, DTlb!TypeOK
<1>4. ~DTlb!EmptyEntry.nempty
  BY DEF DTlb!EmptyEntry
<1>5. ASSUME NEW i \in DTlb!Entry, d_entries'[i].nempty
      PROVE  FromWalk(d_entries'[i])
  BY <1>3, <1>4, <1>5, FilledFromWalk DEF EntriesFromWalk
<1>6. QED
  BY <1>5 DEF EntriesFromWalk, FromWalk, DTlb!Entry

(* The entry a hit selects is what a walk of its page finds.               *)
LEMMA HitFromWalk ==
  ASSUME TypeOK, EntriesFromWalk, NEW v, DTlb!hit_cam(v)
  PROVE  /\ DTlb!hit_idx(v) \in DTlb!hits_cam(v)
         /\ \A j \in DTlb!hits_cam(v) : DTlb!hit_idx(v) <= j
         /\ DTlb!hit_idx(v) \in DTlb!Entry
         /\ DTlb!Selected(v) \in DTlb!TlbEntry
         /\ FromWalk(DTlb!Selected(v)) /\ DTlb!Covers(DTlb!Selected(v), v)
<1>1. DTlb!First(DTlb!hits_cam(v)) = First(DTlb!hits_cam(v)) /\ DTlb!hits_cam(v) \subseteq Nat
  BY TlbEntriesAssumption DEF DTlb!First, First, DTlb!hits_cam, DTlb!Entry
<1>2. DTlb!hit_idx(v) \in DTlb!hits_cam(v) /\ \A j \in DTlb!hits_cam(v) : DTlb!hit_idx(v) <= j
  BY <1>1, FirstLeast DEF DTlb!hit_idx, DTlb!hit_cam
<1>3. QED
  BY <1>2 DEF DTlb!hits_cam, DTlb!Selected, DTlb!Covers, EntriesFromWalk, TypeOK, DTlb!TypeOK

(* A request in IDLE that translates without a fault does not remove the   *)
(* entry it uses.  A load-reserved may: the TLB takes it for a store, and  *)
(* cleans the entry of a writable page that is not dirty.                  *)
LEMMA EntryStays ==
  ASSUME TypeOK, EntriesFromWalk, ExeComes, DirtyForLr, NEW flush \in BOOLEAN, NEW rq, rq = dtlb_rq(flush),
         rq.vm_enable, DTlb!hit_cam(rq.vpn), exe.valid, ~MU!exception(exe, dtlb_resp(flush))
  PROVE  DTlb!hit_idx(rq.vpn) \notin DTlb!clean_mask(rq, st)
<1> DEFINE e == DTlb!Selected(rq.vpn)
<1>1. e \in DTlb!TlbEntry /\ FromWalk(e)
  BY HitFromWalk
<1>2. e.vpn \in Vpn /\ e.valid \in BOOLEAN
  BY <1>1, InstanceTypes DEF DTlb!TlbEntry
<1>3. rq.store <=> exe.op \in {"STORE", "AMO", "LR"}
  BY DEF dtlb_rq, MU!dtlb_req_store, MU!is_amo, MU!is_store
<1>4. rq.priv /\ st.sum /\ ~st.mxr
  BY DEF dtlb_rq, st
<1>5. ~DTlb!xcpt_ld(rq, st) /\ (DTlb!xcpt_st(rq, st) => ~(rq.store /\ exe.op # "LR"))
  BY DEF MU!exception, dtlb_resp, MU!dtlb_req_store, MU!is_amo, MU!is_store, dtlb_rq
<1>6. ("sr" \in e.perms \/ "ur" \in e.perms => e.valid) /\ ("sw" \in e.perms \/ "uw" \in e.perms => e.valid)
  <2>1. Leaf(e.vpn).v = e.valid
    BY <1>1 DEF FromWalk
  <2>2. QED
    BY <1>1, <2>1 DEF FromWalk
<1>7. DTlb!store_hit(rq, st)
  <2> SUFFICES ASSUME ~DTlb!store_hit(rq, st) PROVE FALSE
    OBVIOUS
  <2>1. rq.store /\ ~e.dirty /\ DTlb!write_ok(e, rq.priv, st)
    BY DEF DTlb!store_hit
  <2>2. "sw" \in e.perms \/ "uw" \in e.perms
    BY <1>4, <2>1 DEF DTlb!write_ok
  <2>3. e.valid
    BY <1>6, <2>2
  <2>4. DTlb!xcpt_st(rq, st)
    BY <2>3 DEF DTlb!xcpt_st, DTlb!tlb_entry_dirty_is_zero
  <2>5. exe.op = "LR"
    BY <1>5, <2>1, <2>4
  <2>6. Leaf(e.vpn).w
    BY <1>1, <2>2 DEF FromWalk
  <2>7. Leaf(e.vpn).d
    BY <1>2, <2>5, <2>6 DEF DirtyForLr, ExeComes
  <2>8. QED
    BY <1>1, <2>1, <2>7 DEF FromWalk
<1>8. e.valid
  <2>1. DTlb!read_ok(e, rq.priv, st)
    BY <1>5, <1>7 DEF DTlb!xcpt_ld, DTlb!tlb_hit
  <2>2. "sr" \in e.perms \/ "ur" \in e.perms
    BY <1>4, <2>1 DEF DTlb!read_ok
  <2>3. QED
    BY <1>6, <2>2
<1>9. QED
  BY <1>7, <1>8 DEF DTlb!clean_mask, DTlb!Selected

(* What the TLB does in a cycle in which the instruction is sent to the    *)
(* cache for the first time: it stays idle, and keeps the entry it used.   *)
LEMMA FirstRequestTlb ==
  ASSUME TypeOK, NEW flush \in BOOLEAN, NEW pc \in WalkerInputs, NEW rq, rq = dtlb_rq(flush),
         DTlb!Cycle(rq, pc, st), exe.valid, d_state = "IDLE", ~DTlb!tlb_miss(rq)
  PROVE  /\ d_state' = "IDLE"
         /\ \A i \in DTlb!Entry : d_entries'[i] = IF rq.valid /\ i \in DTlb!clean_mask(rq, st)
                                                  THEN DTlb!EmptyEntry ELSE d_entries[i]
         /\ ~rq.valid => d_entries' = d_entries
<1>1. ~pc.invalidate
  BY WalkerInputType
<1>2. rq.valid \in BOOLEAN
  BY TlbRequestType DEF CacheReq
<1>3. DTlb!Idle(rq, pc, st)
  BY DEF DTlb!Cycle, DTlb!SendRequest, DTlb!WaitResponse, DTlb!InvalidatedWaitResponse
<1>4. d_entries \in [DTlb!Entry -> DTlb!TlbEntry]
  BY DEF TypeOK, DTlb!TypeOK
<1>5. d_entries' = IF rq.valid THEN [i \in DTlb!Entry |-> IF i \in DTlb!clean_mask(rq, st) THEN DTlb!EmptyEntry
                                                                                      ELSE d_entries[i]]
                   ELSE d_entries
  BY <1>1, <1>2, <1>3 DEF DTlb!Idle, DTlb!UpdateEntries
<1>6. d_state' = "IDLE"
  BY <1>3 DEF DTlb!Idle
<1>7. QED
  BY <1>2, <1>4, <1>5, <1>6

(* The first request of an instruction: no fault appears while its answer  *)
(* is waited for.                                                          *)
LEMMA NoFaultAfterFirst ==
  ASSUME TypeOK, ControlInv, EntriesFromWalk, ExeComes, DirtyForLr,
         NEW flush, NEW pc, NEW ready, NEW rsp, NEW next,
         InputsOf(flush, pc, ready, rsp, next), Cycle(flush, pc, ready, rsp, next),
         MU!first_req(exe, flush, dtlb_resp(flush))
  PROVE  d_state' = "IDLE" /\ ~MU!exception(exe, dtlb_resp(FALSE))'
<1> DEFINE rq == dtlb_rq(flush)
           v == exe.page
           w == dtlb_rq(FALSE).vpn
<1>1. flush \in BOOLEAN /\ pc \in WalkerInputs /\ ~flush
  BY InputTypes DEF InputsOf, MU!first_req
<1>2. /\ exe.valid /\ state \in {"Idle", "WaitRready"} /\ ~MU!exception(exe, dtlb_resp(flush))
      /\ d_state = "IDLE" /\ ~DTlb!tlb_miss(rq)
  BY DEF MU!first_req, MU!can_send, MU!translate_enable, dtlb_resp, DTlb!tlb_ready
<1>3. exe' = exe /\ state' = "WaitResponse" /\ src_q' = exe.page
  BY <1>1, <1>2, CycleControl DEF ControlStep, ControlInv
<1>4. rq.vpn = v /\ rq.vm_enable = exe.vm
  BY <1>1, <1>2 DEF dtlb_rq, MU!vpage, ControlInv
<1>5. DTlb!Cycle(rq, pc, st)
  BY DEF Cycle
<1>6. d_state' = "IDLE"
  BY <1>1, <1>2, <1>5, FirstRequestTlb
<1>7. /\ w' = v /\ dtlb_rq(FALSE)'.vm_enable = exe.vm
      /\ dtlb_rq(FALSE)'.store = rq.store /\ dtlb_rq(FALSE)'.priv = rq.priv
  BY <1>3 DEF dtlb_rq, MU!dtlb_req_store, MU!vpage, MU!is_amo, MU!is_store
<1>8. exe.vm \in BOOLEAN
  BY DEF TypeOK, Instr
<1> HIDE DEF rq
<1>9. CASE ~exe.vm
  <2>1. ~exe.bad /\ DTlb!resp_ppn(rq) \in MAPPED
    BY <1>2, <1>9 DEF MU!exception, dtlb_resp, rq
  <2>2. DTlb!resp_ppn(rq) = [k \in DTlb!Field |-> v[k]]
    BY <1>4, <1>9 DEF DTlb!resp_ppn, DTlb!tlb_miss, DTlb!tlb_translates
  <2>3. DTlb!resp_ppn(dtlb_rq(FALSE))' = [k \in DTlb!Field |-> v[k]]
    BY <1>7, <1>9 DEF DTlb!resp_ppn, DTlb!tlb_miss, DTlb!tlb_translates
  <2>4. ~DTlb!xcpt_ld(dtlb_rq(FALSE), st)' /\ ~DTlb!xcpt_st(dtlb_rq(FALSE), st)'
    BY <1>7, <1>9 DEF DTlb!xcpt_ld, DTlb!xcpt_st
  <2>5. QED
    BY <1>3, <1>6, <1>9, <2>1, <2>2, <2>3, <2>4 DEF MU!exception, dtlb_resp
<1>10. CASE exe.vm
  <2> DEFINE j == DTlb!hit_idx(v)
  <2>1. DTlb!hit_cam(v)
    BY <1>2, <1>4, <1>10 DEF DTlb!tlb_miss
  <2>2. /\ j \in DTlb!hits_cam(v) /\ j \in DTlb!Entry
        /\ \A k \in DTlb!hits_cam(v) : j <= k
    BY <2>1, HitFromWalk
  <2>3. j \notin DTlb!clean_mask(rq, st)
    BY <1>1, <1>2, <1>4, <1>10, <2>1, EntryStays DEF rq
  <2>4. \A k \in DTlb!Entry : d_entries'[k] = d_entries[k] \/ d_entries'[k] = DTlb!EmptyEntry
    BY <1>1, <1>2, <1>5, FirstRequestTlb DEF rq
  <2>5. d_entries'[j] = d_entries[j]
    BY <1>1, <1>2, <1>5, <2>2, <2>3, FirstRequestTlb DEF rq
  <2>6. j \in DTlb!hits_cam(w)' /\ DTlb!hits_cam(w)' \subseteq DTlb!hits_cam(v)
    <3>1. ~DTlb!EmptyEntry.nempty /\ w' = v
      BY <1>7 DEF DTlb!EmptyEntry
    <3>2. DTlb!hits_cam(w)' = {k \in DTlb!Entry : DTlb!Covers(d_entries'[k], v)}
      BY <3>1 DEF DTlb!hits_cam, DTlb!Covers, DTlb!Entry
    <3>3. QED
      BY <2>2, <2>4, <2>5, <3>1, <3>2 DEF DTlb!hits_cam, DTlb!Covers
  <2>7. DTlb!hit_cam(w)' /\ DTlb!hit_idx(w)' = j
    <3> DEFINE H == DTlb!hits_cam(w)'
               f == DTlb!hit_idx(w)'
    <3>1. DTlb!hit_cam(w)'
      BY <2>6 DEF DTlb!hit_cam
    <3>2. f = First(H)
      BY <3>1 DEF DTlb!hit_idx, DTlb!First, First
    <3>3. DTlb!hits_cam(v) \subseteq Nat
      BY TlbEntriesAssumption DEF DTlb!hits_cam, DTlb!Entry
    <3> HIDE DEF H, f
    <3>4. H \subseteq Nat /\ H # {}
      BY <2>6, <3>3 DEF H
    <3>5. f \in H /\ f <= j
      BY <2>6, <3>2, <3>4, FirstLeast DEF H
    <3>6. f = j
      <4>1. j <= f
        BY <2>2, <2>6, <3>5 DEF H
      <4>2. j \in Nat /\ f \in Nat
        BY <2>2, <3>3, <3>4, <3>5
      <4> HIDE DEF j
      <4>3. QED
        BY <3>5, <4>1, <4>2
    <3>7. QED
      BY <3>1, <3>6 DEF f
  <2>8. DTlb!Selected(w)' = DTlb!Selected(v)
    BY <2>5, <2>7 DEF DTlb!Selected
  <2>9. DTlb!store_hit(dtlb_rq(FALSE), st)' = DTlb!store_hit(rq, st)
    BY <1>4, <1>7, <2>8 DEF DTlb!store_hit, st
  <2>10. /\ DTlb!xcpt_ld(dtlb_rq(FALSE), st)' = DTlb!xcpt_ld(rq, st)
         /\ DTlb!xcpt_st(dtlb_rq(FALSE), st)' = DTlb!xcpt_st(rq, st)
    BY <1>4, <1>7, <1>10, <2>1, <2>7, <2>8, <2>9
       DEF DTlb!xcpt_ld, DTlb!xcpt_st, DTlb!tlb_hit, DTlb!tlb_entry_access_is_zero,
           DTlb!tlb_entry_dirty_is_zero, st
  <2>11. DTlb!resp_ppn(dtlb_rq(FALSE))' = DTlb!resp_ppn(rq)
    BY <1>4, <1>7, <1>10, <2>1, <2>7, <2>8 DEF DTlb!resp_ppn, DTlb!tlb_miss, DTlb!tlb_translates
  <2>12. DTlb!tlb_miss(dtlb_rq(FALSE))' = DTlb!tlb_miss(rq)
    BY <1>4, <1>7, <1>10, <2>1, <2>7 DEF DTlb!tlb_miss
  <2>13. QED
    BY <1>2, <1>3, <1>6, <2>10, <2>11, <2>12
       DEF MU!exception, MU!translate_enable, MU!dtlb_req_store, MU!is_amo, MU!is_store, dtlb_resp, rq,
           DTlb!tlb_ready
<1>11. QED
  BY <1>8, <1>9, <1>10

(* What the unit sees of the TLB depends on the entries, the TLB's state,  *)
(* the unit's state and the instruction only.                              *)
LEMMA SameFault ==
  ASSUME exe' = exe, state' = state, src_q' = src_q, d_state' = d_state, d_entries' = d_entries
  PROVE  MU!exception(exe, dtlb_resp(FALSE))' = MU!exception(exe, dtlb_resp(FALSE))
<1> DEFINE w == dtlb_rq(FALSE).vpn
<1>1. dtlb_rq(FALSE)' = dtlb_rq(FALSE)
  BY DEF dtlb_rq, MU!dtlb_req_valid, MU!dtlb_req_store, MU!vpage, MU!is_amo, MU!is_store
<1>2. DTlb!hits_cam(w)' = DTlb!hits_cam(w)
  BY <1>1 DEF DTlb!hits_cam, DTlb!Covers, DTlb!Entry
<1>3. DTlb!hit_cam(w)' = DTlb!hit_cam(w) /\ DTlb!hit_idx(w)' = DTlb!hit_idx(w)
  <2>1. DTlb!hit_cam(w)' = DTlb!hit_cam(w)
    BY <1>2 DEF DTlb!hit_cam
  <2>2. ASSUME NEW H, H = DTlb!hits_cam(w)
        PROVE  DTlb!hit_idx(w)' = DTlb!hit_idx(w)
    <3>1. DTlb!hits_cam(w)' = H
      BY <1>2, <2>2
    <3>2. CASE H = {}
      BY <2>2, <3>1, <3>2 DEF DTlb!hit_idx, DTlb!hit_cam
    <3>3. CASE H # {}
      <4>1. DTlb!hit_idx(w)' = First(H)
        BY <3>1, <3>3 DEF DTlb!hit_idx, DTlb!hit_cam, DTlb!First, First
      <4>2. DTlb!hit_idx(w) = First(H)
        BY <2>2, <3>3 DEF DTlb!hit_idx, DTlb!hit_cam, DTlb!First, First
      <4>3. QED
        BY <4>1, <4>2, Zenon
    <3>4. QED
      BY <3>2, <3>3
  <2>3. QED
    BY <2>1, <2>2
<1>4. DTlb!Selected(w)' = DTlb!Selected(w)
  BY <1>3 DEF DTlb!Selected
<1>5. DTlb!store_hit(dtlb_rq(FALSE), st)' = DTlb!store_hit(dtlb_rq(FALSE), st)
  BY <1>1, <1>4 DEF DTlb!store_hit, st
<1>6. /\ DTlb!xcpt_ld(dtlb_rq(FALSE), st)' = DTlb!xcpt_ld(dtlb_rq(FALSE), st)
      /\ DTlb!xcpt_st(dtlb_rq(FALSE), st)' = DTlb!xcpt_st(dtlb_rq(FALSE), st)
  BY <1>1, <1>3, <1>4, <1>5
     DEF DTlb!xcpt_ld, DTlb!xcpt_st, DTlb!tlb_hit, DTlb!tlb_entry_access_is_zero,
         DTlb!tlb_entry_dirty_is_zero, st
<1>7. DTlb!tlb_miss(dtlb_rq(FALSE))' = DTlb!tlb_miss(dtlb_rq(FALSE))
  BY <1>1, <1>3 DEF DTlb!tlb_miss
<1>8. DTlb!resp_ppn(dtlb_rq(FALSE))' = DTlb!resp_ppn(dtlb_rq(FALSE))
  BY <1>1, <1>3, <1>4 DEF DTlb!resp_ppn, DTlb!tlb_miss, DTlb!tlb_translates
<1>9. DTlb!tlb_ready' = DTlb!tlb_ready
  BY DEF DTlb!tlb_ready
<1>10. dtlb_resp(FALSE)' = dtlb_resp(FALSE)
  BY <1>6, <1>7, <1>8, <1>9 DEF dtlb_resp
<1>11. QED
  BY <1>10 DEF MU!exception, MU!translate_enable, MU!dtlb_req_store, MU!is_amo, MU!is_store

(* While the answer is waited for, the TLB is idle and not asked, and      *)
(* nothing changes what it answers.                                        *)
LEMMA NoFaultCycle ==
  ASSUME TypeOK, ControlInv, EntriesFromWalk, ExeComes, DirtyForLr, NoLateFault,
         NEW flush, NEW pc, NEW ready, NEW rsp, NEW next,
         InputsOf(flush, pc, ready, rsp, next), Cycle(flush, pc, ready, rsp, next)
  PROVE  NoLateFault'
<1> SUFFICES ASSUME state' = "WaitResponse" PROVE d_state' = "IDLE" /\ ~MU!exception(exe, dtlb_resp(FALSE))'
  BY DEF NoLateFault
<1>1. flush \in BOOLEAN /\ pc \in WalkerInputs /\ state \in MU!MuState
  BY InputTypes DEF InputsOf, TypeOK, MU!TypeOK
<1> DEFINE first == MU!first_req(exe, flush, dtlb_resp(flush))
           fault == MU!exception(exe, dtlb_resp(flush))
<1>2. ControlStep(flush, ready, rsp, next, first, fault)
  BY CycleControl
<1>3. CASE first
  BY <1>3, NoFaultAfterFirst
<1>4. CASE ~first
  <2>1. ~flush /\ state = "WaitResponse" /\ rsp = {}
    <3> HIDE DEF first, fault
    <3> QED BY <1>1, <1>2, <1>4 DEF ControlStep, MU!MuState
  <2>2. exe.valid /\ exe' = exe /\ src_q' = src_q
    <3> HIDE DEF first, fault
    <3> QED BY <1>2, <2>1 DEF ControlStep, ControlInv
  <2>3. ~dtlb_rq(flush).valid /\ d_state = "IDLE" /\ ~MU!exception(exe, dtlb_resp(FALSE))
    BY <2>1 DEF dtlb_rq, MU!dtlb_req_valid, NoLateFault
  <2>4. DTlb!Cycle(dtlb_rq(flush), pc, st)
    BY DEF Cycle
  <2>5. d_state' = "IDLE" /\ d_entries' = d_entries
    <3>1. ~pc.invalidate
      BY <1>1, <2>2, WalkerInputType
    <3>2. DTlb!Idle(dtlb_rq(flush), pc, st)
      BY <2>3, <2>4 DEF DTlb!Cycle, DTlb!SendRequest, DTlb!WaitResponse, DTlb!InvalidatedWaitResponse
    <3>3. QED
      BY <2>3, <3>1, <3>2 DEF DTlb!Idle, DTlb!UpdateEntries
  <2>6. MU!exception(exe, dtlb_resp(FALSE))' = MU!exception(exe, dtlb_resp(FALSE))
    BY <2>1, <2>2, <2>3, <2>5, SameFault
  <2>7. QED
    BY <2>3, <2>5, <2>6
<1>5. QED
  BY <1>3, <1>4

(* The instruction in exe is one of those that come.                       *)
LEMMA ExeCycle ==
  ASSUME TypeOK, ExeComes, NEW flush, NEW pc, NEW ready, NEW rsp, NEW next,
         InputsOf(flush, pc, ready, rsp, next), Cycle(flush, pc, ready, rsp, next)
  PROVE  ExeComes'
<1>1. next \in Instrs \cup {Bubble} /\ ~Bubble.valid
  BY DEF InputsOf, NextInstrs, Bubble
<1>2. exe' \in {Bubble, exe, next}
  BY DEF Cycle
<1>3. QED
  BY <1>1, <1>2 DEF ExeComes

(* How an instruction leaves the stage.                                    *)
LEMMA LastCycle ==
  ASSUME TypeOK, ControlInv, NEW flush, NEW pc, NEW ready, NEW rsp, NEW next,
         InputsOf(flush, pc, ready, rsp, next), Cycle(flush, pc, ready, rsp, next)
  PROVE  \/ last' = last
         \/ \E how \in {"fault", "flushed"} : last' = Left(how, <<>>)
         \/ /\ last' = Left(IF MU!exception(exe, dtlb_resp(FALSE)) THEN "fault" ELSE "done", performed)
            /\ Len(performed) = 1 /\ state = "WaitResponse"
<1> DEFINE first == MU!first_req(exe, flush, dtlb_resp(flush))
           fault == MU!exception(exe, dtlb_resp(flush))
           taken == Made(first) /\ Free /\ ready
           stall == MU!stall_o(exe, flush, dtlb_resp(flush), rsp # {})
           sent == IF taken THEN Append(performed, Sent(flush)) ELSE performed
<1>1. /\ flush \in BOOLEAN /\ (flush => exe_new \/ ~exe.valid) /\ rsp \subseteq inflight
      /\ state \in MU!MuState
  BY InputTypes DEF TypeOK, MU!TypeOK
<1>2. ControlStep(flush, ready, rsp, next, first, fault)
  BY CycleControl
<1>3. last' = IF exe.valid /\ (flush \/ ~stall)
                THEN Left(IF flush THEN "flushed" ELSE IF fault THEN "fault" ELSE "done", sent)
                ELSE last
  <2>1. MU!req_valid(exe, flush, dtlb_resp(flush)) = Made(first)
    BY DEF MU!req_valid, MU!killed_dcache_req_d, Refused, Made, Again
  <2>2. QED
    BY <2>1 DEF Cycle, DI!core_req_valid, DI!wait_resp_same_tag, Free
<1> SUFFICES ASSUME exe.valid /\ (flush \/ ~stall)
             PROVE  \/ \E how \in {"fault", "flushed"} : last' = Left(how, <<>>)
                    \/ /\ last' = Left(IF MU!exception(exe, dtlb_resp(FALSE)) THEN "fault" ELSE "done", performed)
                       /\ Len(performed) = 1 /\ state = "WaitResponse"
  BY <1>3
<1>4. CASE flush
  <2>1. ~Made(first) /\ performed = <<>>
    <3> HIDE DEF first, fault
    <3> QED BY <1>1, <1>2, <1>4 DEF ControlStep, ControlInv, Made, Again
  <2>2. QED
    BY <1>3, <1>4, <2>1
<1>5. CASE ~flush /\ state \in {"Idle", "WaitRready"}
  <2>1. fault
    BY <1>5 DEF MU!stall_o
  <2>2. ~Made(first) /\ performed = <<>>
    <3> HIDE DEF first, fault
    <3> QED BY <1>2, <1>5, <2>1 DEF ControlStep, ControlInv, Made, Again
  <2>3. QED
    BY <1>3, <1>5, <2>1, <2>2
<1>6. CASE ~flush /\ state = "WaitResponse"
  <2>1. rsp # {}
    BY <1>6 DEF MU!stall_o
  <2>2. Len(performed) = 1 /\ ~Made(first)
    <3> HIDE DEF first, fault
    <3> QED BY <1>1, <1>2, <1>6, <2>1 DEF ControlStep, ControlInv, Made, Again
  <2>3. flush = FALSE
    BY <1>1, <1>6
  <2>4. QED
    BY <1>3, <1>6, <2>2, <2>3
<1>7. QED
  BY <1>1, <1>4, <1>5, <1>6 DEF MU!MuState, ControlInv

\* What the proof of PerformedOnce rests on.
OnceInv == TypeOK /\ ControlInv /\ EntriesFromWalk /\ ExeComes /\ NoLateFault /\ PerformedOnce

(* It holds after reset.                                                   *)
LEMMA OnceInit == Init => OnceInv
<1> SUFFICES ASSUME Init PROVE OnceInv
  OBVIOUS
<1>1. EntriesFromWalk
  BY DEF Init, DTlb!Init, EntriesFromWalk, DTlb!EmptyEntry
<1>2. ExeComes /\ NoLateFault /\ PerformedOnce
  BY DEF Init, Bubble, ExeComes, MU!Init, NoLateFault, PerformedOnce
<1>3. QED
  BY <1>1, <1>2, TypeInit, ControlInit DEF OnceInv

(* Steps keep it.                                                          *)
LEMMA OnceStep == DirtyForLr /\ OnceInv /\ [Next]_vars => OnceInv'
<1> SUFFICES ASSUME DirtyForLr, OnceInv, [Next]_vars PROVE OnceInv'
  OBVIOUS
<1>1. TypeOK' /\ ControlInv'
  BY TypeStep, ControlStepInv DEF OnceInv
<1>2. ASSUME NEW flush, NEW pc, NEW ready, NEW rsp, NEW next,
             InputsOf(flush, pc, ready, rsp, next), Cycle(flush, pc, ready, rsp, next)
      PROVE  EntriesFromWalk' /\ ExeComes' /\ NoLateFault' /\ PerformedOnce'
  <2>1. EntriesFromWalk'
    BY <1>2, EntriesCycle DEF OnceInv, Cycle, InputsOf
  <2>2. ExeComes' /\ NoLateFault'
    BY <1>2, ExeCycle, NoFaultCycle DEF OnceInv
  <2>3. PerformedOnce'
    <3>1. \/ last' = last
          \/ \E how \in {"fault", "flushed"} : last' = Left(how, <<>>)
          \/ last' = Left("done", performed) /\ Len(performed) = 1
      BY <1>2, LastCycle DEF OnceInv, NoLateFault
    <3>2. Len(<<>>) = 0
      OBVIOUS
    <3>3. CASE last' = last
      BY <3>3 DEF OnceInv, PerformedOnce
    <3>4. CASE \E how \in {"fault", "flushed"} : last' = Left(how, <<>>)
      <4>1. PICK how \in {"fault", "flushed"} : last' = Left(how, <<>>)
        BY <3>4
      <4>2. last'.how = how /\ last'.times = 0
        BY <3>2, <4>1 DEF Left
      <4>3. QED
        BY <4>2 DEF PerformedOnce
    <3>5. CASE last' = Left("done", performed) /\ Len(performed) = 1
      BY <3>5 DEF PerformedOnce, Left
    <3>6. QED
      BY <3>1, <3>3, <3>4, <3>5
  <2>4. QED
    BY <2>1, <2>2, <2>3
<1>3. CASE UNCHANGED vars
  <2>1. EntriesFromWalk' /\ ExeComes' /\ PerformedOnce'
    BY <1>3 DEF OnceInv, vars, tlbVars, EntriesFromWalk, FromWalk, DTlb!Entry, ExeComes, PerformedOnce
  <2>2. NoLateFault'
    BY <1>3, SameFault DEF OnceInv, vars, muVars, tlbVars, NoLateFault
  <2>3. QED
    BY <1>1, <2>1, <2>2 DEF OnceInv
<1>4. QED
  BY <1>1, <1>2, <1>3, StepIsCycle DEF OnceInv

(* A load, store or atomic operation that is written back was performed by *)
(* the cache once, however often its request was refused and made again    *)
(* (mem_unit.sv, killed_dcache_req); one that faults or is flushed was not *)
(* performed, when writable pages are marked dirty wherever an LR may go.  *)
THEOREM EachPerformedOnce ==
  ASSUME DirtyForLr
  PROVE  Spec => []PerformedOnce
<1>1. Init => OnceInv
  BY OnceInit
<1>2. OnceInv /\ [Next]_vars => OnceInv'
  BY OnceStep
<1>3. OnceInv => PerformedOnce
  BY DEF OnceInv
<1>4. QED
  BY <1>1, <1>2, <1>3, PTL DEF Spec
-----------------------------------------------------------------------------
(* What the cache is asked to do.                                          *)

(* The entry a hit selects gives the page the walk of the requested page   *)
(* gives, and has its PTE.                                                 *)
LEMMA HitTranslates ==
  ASSUME TypeOK, EntriesFromWalk, NEW v \in Vpn, DTlb!hit_cam(v), NEW e, e = DTlb!Selected(v)
  PROVE  /\ [k \in Field |-> IF k <= e.level+1 THEN e.ppn[k] ELSE v[k]] = WalkPpn(Tables, SATP, v)
         /\ e.dirty = Leaf(v).d /\ e.access = Leaf(v).a /\ e.valid = Leaf(v).v
         /\ ("sr" \in e.perms \/ "ur" \in e.perms) = (Leaf(v).r /\ Leaf(v).v)
         /\ ("sw" \in e.perms \/ "uw" \in e.perms) = (Leaf(v).w /\ Leaf(v).v)
<1>1. e \in DTlb!TlbEntry /\ FromWalk(e) /\ DTlb!Covers(e, v)
  BY HitFromWalk
<1>2. e.vpn \in Vpn /\ e.level = LeafLevel(e.vpn)
  BY <1>1, InstanceTypes DEF DTlb!TlbEntry, FromWalk
<1>3. \A k \in 1 .. LeafLevel(e.vpn)+1 : e.vpn[k] = v[k]
  BY <1>1, <1>2 DEF DTlb!Covers
<1>4. LeafLevel(v) = LeafLevel(e.vpn) /\ Leaf(v) = Leaf(e.vpn)
  <2>1. LeafLevel(e.vpn) \in Nat
    BY WalkLevelType, LevelsAssumption DEF LeafLevel, Level
  <2>2. LeafLevel(v) = LeafLevel(e.vpn)
        /\ \A l \in 0 .. LeafLevel(e.vpn) : WalkPtes(Tables, SATP, v)[l] = WalkPtes(Tables, SATP, e.vpn)[l]
    BY <1>3, SharedWalk DEF LeafLevel
  <2>3. LeafLevel(e.vpn) \in 0 .. LeafLevel(e.vpn)
    BY <2>1
  <2>4. QED
    BY <2>2, <2>3 DEF Leaf
<1> DEFINE n == LeafLevel(v)+1
           q == Leaf(v).ppn
           u == e.vpn
<1>5. WalkPpn(Tables, SATP, v) = [k \in Field |-> IF k <= n THEN q[k] ELSE v[k]]
  BY DEF WalkPpn, LeafLevel, Leaf
<1>6. WalkPpn(Tables, SATP, u) = [k \in Field |-> IF k <= n THEN q[k] ELSE u[k]]
  BY <1>4 DEF WalkPpn, LeafLevel, Leaf
<1>7. e.ppn = WalkPpn(Tables, SATP, u) /\ e.level+1 = n
  BY <1>1, <1>2, <1>4 DEF FromWalk
<1> HIDE DEF n, q, u
<1>8. [k \in Field |-> IF k <= e.level+1 THEN e.ppn[k] ELSE v[k]] = [k \in Field |-> IF k <= n THEN q[k] ELSE v[k]]
  BY <1>6, <1>7
<1>9. QED
  BY <1>1, <1>4, <1>5, <1>8 DEF FromWalk

(* A first request is the instruction's operation, on the page the walk    *)
(* gives it, and the walk grants it.                                       *)
LEMMA FirstIntended ==
  ASSUME TypeOK, ControlInv, EntriesFromWalk, WellFormedTables, NEW flush \in BOOLEAN,
         MU!first_req(exe, flush, dtlb_resp(flush))
  PROVE  Intended(exe, Sent(flush))
<1> DEFINE rq == dtlb_rq(flush)
           v == exe.page
           type == IF exe.op \in {"LOAD", "LR"} THEN "LOAD" ELSE "STORE"
<1>1. /\ exe.valid /\ state \in {"Idle", "WaitRready"} /\ ~flush
      /\ ~MU!exception(exe, dtlb_resp(flush)) /\ ~DTlb!tlb_miss(rq)
  BY DEF MU!first_req, MU!can_send, MU!translate_enable, dtlb_resp
<1>2. v \in Vpn /\ exe.vm \in BOOLEAN /\ exe.op \in MU!MemOp
  BY DEF TypeOK, Instr
<1>3. rq.vpn = v /\ rq.vm_enable = exe.vm /\ rq.priv /\ (rq.store <=> exe.op \in {"STORE", "AMO", "LR"})
  BY <1>1 DEF dtlb_rq, MU!vpage, ControlInv, MU!dtlb_req_store, MU!is_amo, MU!is_store
<1>4. Sent(flush).op = exe.op
  <2>1. MU!req_type(exe, flush, dtlb_resp(flush)) = exe.op
    BY DEF MU!req_type, MU!killed_dcache_req_d
  <2>2. QED
    BY <1>2, <2>1 DEF Sent, DI!CacheOp, MU!MemOp
<1>5. Sent(flush).ppn = DTlb!resp_ppn(rq)
  BY DEF Sent
<1> HIDE DEF rq
<1>6. CASE ~exe.vm
  <2>1. DTlb!resp_ppn(rq) = [k \in Field |-> v[k]]
    BY <1>3, <1>6, InstanceTypes DEF DTlb!resp_ppn, DTlb!tlb_miss, DTlb!tlb_translates
  <2>2. [k \in Field |-> v[k]] = v
    BY <1>2 DEF Vpn
  <2>3. QED
    BY <1>4, <1>5, <1>6, <2>1, <2>2 DEF Intended
<1>7. CASE exe.vm
  <2> DEFINE e == DTlb!Selected(v)
             q == Leaf(v)
  <2>1. DTlb!hit_cam(v)
    BY <1>1, <1>3, <1>7 DEF DTlb!tlb_miss
  <2>2. /\ [k \in Field |-> IF k <= e.level+1 THEN e.ppn[k] ELSE v[k]] = WalkPpn(Tables, SATP, v)
        /\ e.dirty = q.d /\ e.access = q.a /\ e.valid = q.v
        /\ ("sr" \in e.perms \/ "ur" \in e.perms) = (q.r /\ q.v)
        /\ ("sw" \in e.perms \/ "uw" \in e.perms) = (q.w /\ q.v)
    BY <1>2, <2>1, HitTranslates
  <2>3. DTlb!resp_ppn(rq) = WalkPpn(Tables, SATP, v)
    <3>1. DTlb!resp_ppn(rq) = [k \in Field |-> IF k <= e.level+1 THEN e.ppn[k] ELSE v[k]]
      BY <1>3, <1>7, <2>1, InstanceTypes DEF DTlb!resp_ppn, DTlb!tlb_miss, DTlb!tlb_translates
    <3>2. QED
      BY <2>2, <3>1
  <2>4. q \in Pte /\ ~q.rsv /\ (q.w => q.r) /\ \A k \in LeafLevel(v)+2 .. LEVELS : q.ppn[k] = 0
    BY <1>2, LeafType DEF WellFormedTables
  <2> HIDE DEF e, q
  <2>5. /\ ~DTlb!xcpt_ld(rq, st)
        /\ exe.op \in {"STORE", "AMO"} => ~DTlb!xcpt_st(rq, st)
    BY <1>1, <1>3 DEF MU!exception, dtlb_resp, MU!dtlb_req_store, MU!is_amo, MU!is_store, rq
  <2>6. /\ DTlb!store_hit(rq, st) => DTlb!read_ok(e, rq.priv, st)
        /\ e.access \/ ~e.valid
        /\ exe.op \in {"STORE", "AMO"} =>
             /\ DTlb!store_hit(rq, st) => DTlb!write_ok(e, rq.priv, st)
             /\ DTlb!store_hit(rq, st) \/ ~e.valid
    BY <1>3, <1>7, <2>1, <2>5 DEF DTlb!xcpt_ld, DTlb!xcpt_st, DTlb!tlb_hit, DTlb!tlb_entry_access_is_zero,
                                  DTlb!tlb_entry_dirty_is_zero, e
  <2>7. DTlb!store_hit(rq, st) <=> (rq.store => e.dirty \/ ~DTlb!write_ok(e, rq.priv, st))
    BY <1>3 DEF DTlb!store_hit, e
  <2>8. /\ DTlb!read_ok(e, rq.priv, st) <=> q.r /\ q.v
        /\ DTlb!write_ok(e, rq.priv, st) <=> q.w /\ q.v
    BY <1>3, <2>2 DEF DTlb!read_ok, DTlb!write_ok, st
  <2>9. q.r /\ q.v /\ q.a
    BY <2>2, <2>4, <2>6, <2>7, <2>8
  <2>10. type = "STORE" => q.w /\ q.d
    BY <1>2, <1>3, <2>2, <2>6, <2>7, <2>8, <2>9 DEF MU!MemOp
  <2>11. Permits(q, LeafLevel(v), type, TRUE, st)
    BY <2>4, <2>9, <2>10 DEF Permits, PTE_TABLE, st
  <2>12. WalkGrants(Tables, SATP, v, type, TRUE, st)
    BY <2>11 DEF WalkGrants, Leaf, LeafLevel, q
  <2>13. QED
    BY <1>4, <1>5, <1>7, <2>3, <2>12 DEF Intended
<1>8. QED
  BY <1>2, <1>6, <1>7

(* A cycle keeps what the cache took as intended.  A request that is made  *)
(* again was refused, and nothing is said of it: it has lost its type.     *)
LEMMA TakenCycle ==
  ASSUME TypeOK, ControlInv, EntriesFromWalk, WellFormedTables, TakenAsIntended,
         NEW flush, NEW pc, NEW ready, NEW rsp, NEW next,
         InputsOf(flush, pc, ready, rsp, next), Cycle(flush, pc, ready, rsp, next)
  PROVE  TakenAsIntended'
<1> DEFINE first == MU!first_req(exe, flush, dtlb_resp(flush))
           fault == MU!exception(exe, dtlb_resp(flush))
           stall == MU!stall_o(exe, flush, dtlb_resp(flush), rsp # {})
           leave == exe.valid /\ (flush \/ ~stall)
<1>1. /\ flush \in BOOLEAN /\ ready \in BOOLEAN /\ (flush => exe_new \/ ~exe.valid) /\ rsp \subseteq inflight
      /\ state \in MU!MuState /\ performed \in Seq(CacheRequest) /\ exe.valid \in BOOLEAN
  BY InputTypes DEF TypeOK, MU!TypeOK, Instr
<1>2. ControlStep(flush, ready, rsp, next, first, fault)
  BY CycleControl
<1>3. refused' = (~leave /\ (refused \/ (Made(first) /\ Free /\ ~ready)))
  <2>1. MU!req_valid(exe, flush, dtlb_resp(flush)) = Made(first)
    BY DEF MU!req_valid, MU!killed_dcache_req_d, Refused, Made, Again
  <2>2. QED
    BY <2>1 DEF Cycle, DI!core_req_valid, DI!wait_resp_same_tag, Free
<1>4. stall = (~flush /\ CASE state = "ResetState" -> exe.valid
                           [] state \in {"Idle", "WaitRready"} -> exe.valid /\ ~fault
                           [] state = "WaitResponse" -> rsp = {})
  BY <1>1 DEF MU!stall_o, MU!MuState
<1>5. first => Intended(exe, Sent(flush))
  BY <1>1, FirstIntended
<1>6. ControlInv'
  BY ControlCycle
<1>7. Made(first) => Free /\ ~leave /\ performed = <<>> /\ exe.valid /\ exe' = exe
  <2> SUFFICES ASSUME Made(first) PROVE Free /\ ~leave /\ performed = <<>> /\ exe.valid /\ exe' = exe
    OBVIOUS
  <2> HIDE DEF first, fault, stall
  <2>1. performed = <<>> /\ inflight = {} /\ rsp = {} /\ exe.valid
    BY <1>1, <1>2 DEF ControlInv, ControlStep, Made, Again
  <2>2. Free
    BY <2>1 DEF Free, Pending, ControlInv, TypeOK, MU!TypeOK
  <2>3. stall
    BY <1>1, <1>2, <1>4, <2>1 DEF ControlInv, ControlStep, Made, Again
  <2>4. ~flush
    BY <1>1, <1>2 DEF ControlInv, ControlStep, Made, Again
  <2>5. exe' = exe
    BY <1>2, <1>4, <2>3, <2>4 DEF ControlStep
  <2>6. QED
    BY <2>1, <2>2, <2>3, <2>4, <2>5
<1> HIDE DEF first, fault, stall
<1>8. (Refused => refused)'
  BY <1>2, <1>3, <1>7 DEF ControlStep
<1>9. ASSUME NEW k \in 1 .. Len(performed')
      PROVE  refused' \/ Intended(exe', performed'[k])
  <2>1. CASE leave
    <3>1. performed' = <<>>
      BY <1>2, <1>4, <2>1 DEF ControlStep
    <3>2. QED
      BY <1>9, <3>1
  <2>2. CASE ~leave /\ Made(first) /\ ready
    <3>1. performed' = <<Sent(flush)>> /\ exe' = exe
      <4>1. performed' = Append(performed, Sent(flush))
        BY <1>2, <1>4, <1>7, <2>2 DEF ControlStep
      <4>2. QED
        BY <1>7, <2>2, <4>1
    <3>2. k = 1 /\ performed'[k] = Sent(flush)
      BY <1>9, <3>1
    <3>3. first \/ refused
      BY <2>2, <1>2 DEF Made, Again, ControlStep, TakenAsIntended, ControlInv
    <3>4. QED
      BY <1>3, <1>5, <2>2, <3>1, <3>2, <3>3
  <2>3. CASE ~leave /\ ~(Made(first) /\ ready)
    <3>1. performed' = performed
      BY <1>2, <1>4, <2>3 DEF ControlStep
    <3>2. performed # <<>>
      BY <1>9, <3>1
    <3>3. state = "WaitResponse" /\ exe.valid
      BY <3>2 DEF ControlInv
    <3>4. exe' = exe
      BY <1>1, <1>2, <1>4, <2>3, <3>3 DEF ControlStep
    <3>5. QED
      BY <1>3, <1>9, <2>3, <3>1, <3>4 DEF TakenAsIntended
  <2>4. QED
    BY <2>1, <2>2, <2>3
<1>10. QED
  BY <1>8, <1>9 DEF TakenAsIntended, Intended, st

\* What the proof of KeptIfAccepted rests on.
KeptInv == TypeOK /\ ControlInv /\ EntriesFromWalk /\ TakenAsIntended /\ KeptIfAccepted

(* It holds after reset.                                                   *)
LEMMA KeptInit == Init => KeptInv
<1> SUFFICES ASSUME Init PROVE KeptInv
  OBVIOUS
<1>1. EntriesFromWalk
  BY DEF Init, DTlb!Init, EntriesFromWalk, DTlb!EmptyEntry
<1>2. TakenAsIntended /\ KeptIfAccepted
  BY DEF Init, MU!Init, TakenAsIntended, Refused, KeptIfAccepted
<1>3. QED
  BY <1>1, <1>2, TypeInit, ControlInit DEF KeptInv

(* Steps keep it.                                                          *)
LEMMA KeptStep == WellFormedTables /\ KeptInv /\ [Next]_vars => KeptInv'
<1> SUFFICES ASSUME WellFormedTables, KeptInv, [Next]_vars PROVE KeptInv'
  OBVIOUS
<1>1. TypeOK' /\ ControlInv'
  BY TypeStep, ControlStepInv DEF KeptInv
<1>2. ASSUME NEW flush, NEW pc, NEW ready, NEW rsp, NEW next,
             InputsOf(flush, pc, ready, rsp, next), Cycle(flush, pc, ready, rsp, next)
      PROVE  EntriesFromWalk' /\ TakenAsIntended' /\ KeptIfAccepted'
  <2>1. EntriesFromWalk'
    BY <1>2, EntriesCycle DEF KeptInv, Cycle, InputsOf
  <2>2. TakenAsIntended'
    BY <1>2, TakenCycle DEF KeptInv
  <2>3. KeptIfAccepted'
    <3>1. last' = last \/ \E how : \E done \in {<<>>, performed} : last' = Left(how, done)
      <4>1. \/ last' = last
            \/ \E how \in {"fault", "flushed"} : last' = Left(how, <<>>)
            \/ last' = Left(IF MU!exception(exe, dtlb_resp(FALSE)) THEN "fault" ELSE "done", performed)
        BY <1>2, LastCycle DEF KeptInv
      <4>2. QED
        BY <4>1, Zenon
    <3>2. ASSUME NEW how, NEW done \in {<<>>, performed}
          PROVE  Left(how, done).refused \/ Left(how, done).kept
      <4>1. Len(<<>>) = 0
        OBVIOUS
      <4>2. QED
        BY <4>1 DEF Left, KeptInv, TakenAsIntended
    <3>3. QED
      BY <3>1, <3>2 DEF KeptInv, KeptIfAccepted
  <2>4. QED
    BY <2>1, <2>2, <2>3
<1>3. CASE UNCHANGED vars
  <2>1. EntriesFromWalk' /\ TakenAsIntended' /\ KeptIfAccepted'
    BY <1>3 DEF KeptInv, vars, muVars, tlbVars, EntriesFromWalk, FromWalk, DTlb!Entry, TakenAsIntended, Refused,
                Intended, st, KeptIfAccepted
  <2>2. QED
    BY <1>1, <2>1 DEF KeptInv
<1>4. QED
  BY <1>1, <1>2, <1>3, StepIsCycle DEF KeptInv

(* For leaves without reserved bits, an instruction whose request the      *)
(* cache has not refused does its own operation, on the physical page the  *)
(* page table gives it, and only if the page table allows it (tlb.sv       *)
(* between mem_unit.sv and dcache_interface.sv).                           *)
THEOREM AcceptedAreKept ==
  ASSUME WellFormedTables
  PROVE  Spec => []KeptIfAccepted
<1>1. Init => KeptInv
  BY KeptInit
<1>2. KeptInv /\ [Next]_vars => KeptInv'
  BY KeptStep
<1>3. KeptInv => KeptIfAccepted
  BY DEF KeptInv
<1>4. QED
  BY <1>1, <1>2, <1>3, PTL DEF Spec
=============================================================================
