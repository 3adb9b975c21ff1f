----------------------------- MODULE MmuProofs ------------------------------
(***************************************************************************)
(* Proofs about the memory-management unit for tables of any depth and     *)
(* width, TLBs and PTE caches of any size, and any requests, page tables   *)
(* and timing of the data cache.                                           *)
(***************************************************************************)
EXTENDS Mmu, FiniteSetTheorems, TLAPS

(* A remainder is at most the number and less than the divisor (the slices *)
(* of pte_addr and r_resp_ppn).                                            *)
LEMMA ModType ==
  ASSUME NEW n \in Nat, NEW m \in Nat, m >= 1
  PROVE  n % m \in 0 .. m-1 /\ n % m <= n
<1>1. n % m \in 0 .. m-1
  OBVIOUS
<1>2. n = m * (n \div m) + (n % m) /\ n \div m \in Nat
  OBVIOUS
<1>3. m * (n \div m) \in Nat
  BY <1>2
<1>4. QED
  BY <1>1, <1>2, <1>3

(* A slice of a page number's top field leaves a page number.              *)
LEMMA SliceType ==
  ASSUME NEW p \in Ppn, NEW m \in Nat, m >= 1
  PROVE  [p EXCEPT ![1] = @ % m] \in Ppn
<1>1. 1 \in Field /\ p[1] \in Nat /\ p[1] < PPN_TOP
  BY LevelsAssumption, PpnTopAssumption DEF Field, Ppn
<1>2. p[1] % m \in Nat /\ p[1] % m < PPN_TOP
  <2> DEFINE t == p[1]
  <2>1. t \in Nat
    BY <1>1
  <2>2. t % m \in 0 .. m-1 /\ t % m <= t
    <3> HIDE DEF t
    <3> QED BY <2>1, ModType
  <2>3. QED
    BY <1>1, <2>2, PpnTopAssumption
<1>3. QED
  BY <1>1, <1>2, PpnTopAssumption DEF Ppn, Field

-----------------------------------------------------------------------------
(* The walker.                                                             *)

(* The definitions the walker shares with the rest of the unit.            *)
LEMMA WalkerTypes ==
  /\ Walker!Vpn = Vpn /\ Walker!Ppn = Ppn /\ Walker!Pte = Pte /\ Walker!Level = Level
  /\ Walker!PteAddr = Ppn \X (0 .. RADIX-1)
  /\ Walker!Field = Field
BY DEF Walker!Vpn, Walker!Ppn, Walker!Pte, Walker!Level, Walker!PteAddr, Walker!Field,
       Vpn, Ppn, Pte, Level, Field

(* The address the walker asks for is that of a PTE.                       *)
LEMMA PteAddrType ==
  ASSUME Walker!TypeOK
  PROVE  Walker!pte_addr \in Walker!PteAddr
<1>1. w_pte.ppn \in Ppn /\ w_req \in Vpn /\ w_count + 1 \in Field
  BY WalkerTypes, LevelsAssumption DEF Walker!TypeOK, Pte, Level, Field
<1>2. [w_pte.ppn EXCEPT ![1] = @ % (2*RADIX)] \in Ppn
  <2> DEFINE m == 2 * RADIX
  <2>1. m \in Nat /\ m >= 1
    BY RadixAssumption
  <2>2. [w_pte.ppn EXCEPT ![1] = @ % m] \in Ppn
    <3> HIDE DEF m
    <3> QED BY <1>1, <2>1, SliceType
  <2>3. QED
    BY <2>2
<1>3. w_req[w_count+1] \in 0 .. RADIX-1
  BY <1>1 DEF Vpn
<1>4. QED
  BY <1>2, <1>3, WalkerTypes DEF Walker!pte_addr

(* The walker's answer is well formed.                                     *)
LEMMA RespType ==
  ASSUME Walker!TypeOK
  PROVE  Walker!resp \in PtwResp
<1>1. w_pte \in Pte /\ w_req \in Vpn /\ w_count \in Level
  BY WalkerTypes DEF Walker!TypeOK
<1>2. w_pte.ppn \in Ppn
  BY <1>1 DEF Pte
<1>3. [w_pte.ppn EXCEPT ![1] = @ % RADIX] \in Ppn
  BY <1>2, SliceType, RadixAssumption
<1>4. ASSUME NEW k \in Field
      PROVE  /\ Walker!resp_ppn[k] \in 0 .. PPN_TOP-1
             /\ k # 1 => Walker!resp_ppn[k] < RADIX
  <2>1. CASE k > w_count+1
    BY <2>1, <1>1, WalkerTypes, RadixAssumption, PpnTopAssumption DEF Walker!resp_ppn, Vpn
  <2>2. CASE ~(k > w_count+1) /\ k = 1
    BY <2>2, <1>2, <1>3, WalkerTypes DEF Walker!resp_ppn, Ppn
  <2>3. CASE ~(k > w_count+1) /\ k # 1
    BY <2>3, <1>2, WalkerTypes DEF Walker!resp_ppn, Ppn
  <2>4. QED
    BY <2>1, <2>2, <2>3
<1>5. Walker!resp_ppn \in Ppn
  <2>1. Walker!resp_ppn = [k \in Field |-> Walker!resp_ppn[k]]
    BY WalkerTypes DEF Walker!resp_ppn
  <2>2. QED
    BY <1>4, <2>1 DEF Ppn
<1>6. [w_pte EXCEPT !.ppn = Walker!resp_ppn] \in Pte
  BY <1>1, <1>5 DEF Pte
<1>7. QED
  BY <1>1, <1>6 DEF Walker!resp, PtwResp

(* Slots of the PTE cache: the one a new PTE goes to exists.               *)
LEMMA FillIdxType == Walker!fill_idx \in Walker!Slot
<1> DEFINE unused == {i \in Walker!Slot : ~w_cache[i].valid}
<1>1. Walker!Slot \subseteq Nat /\ 0 \in Walker!Slot
  BY PtwCacheAssumption DEF Walker!Slot
<1>2. CASE unused # {}
  <2>1. First(unused) \in unused
    BY <1>1, <1>2, FirstMember
  <2>2. QED
    BY <1>2, <2>1 DEF Walker!fill_idx, Walker!First, First
<1>3. CASE unused = {}
  <2>1. Walker!Plru!replace_en \subseteq Walker!Slot
    BY DEF Walker!Plru!replace_en, Walker!Plru!Idx, Walker!Slot
  <2>2. Walker!Plru!replace_en # {} => First(Walker!Plru!replace_en) \in Walker!Slot
    BY <1>1, <2>1, FirstMember
  <2>3. Walker!Plru!replacement_idx \in Walker!Slot
    BY <1>1, <2>2 DEF Walker!Plru!replacement_idx, First
  <2>4. QED
    BY <1>3, <2>3 DEF Walker!fill_idx
<1>4. QED
  BY <1>2, <1>3

(* So does the one a hit selects.                                          *)
LEMMA CacheHitIdxType == Walker!hit_idx \in Walker!Slot
<1>1. Walker!hit_vector \subseteq Walker!Slot
      /\ Walker!Slot \subseteq Nat /\ 0 \in Walker!Slot
  BY PtwCacheAssumption DEF Walker!Slot, Walker!hit_vector
<1>2. QED
  BY <1>1, FirstMember DEF Walker!hit_idx, Walker!pte_cache_hit, Walker!First, First

(* One clock cycle of the walker keeps its registers well typed.           *)
LEMMA WalkerTypeCycle ==
  ASSUME Walker!TypeOK,
         NEW treq, treq.valid => treq.vpn \in Vpn,
         NEW dmem, dmem.data \in Pte,
         NEW csr, csr.satp \in Ppn,
         Walker!Cycle(treq, dmem, csr)
  PROVE  Walker!TypeOK'
<1>1. w_pte \in Pte /\ w_req \in Vpn /\ w_count \in Level
      /\ w_cache \in [Walker!Slot -> Walker!CacheEntry]
  BY WalkerTypes DEF Walker!TypeOK
<1>2. w_cache' \in [Walker!Slot -> Walker!CacheEntry]
  <2>1. [valid |-> TRUE, tags |-> Walker!pte_addr, data |-> dmem.data.ppn] \in Walker!CacheEntry
    BY PteAddrType, WalkerTypes DEF Walker!CacheEntry, Pte
  <2>2. ASSUME NEW i \in Walker!Slot
        PROVE  [w_cache[i] EXCEPT !.valid = FALSE] \in Walker!CacheEntry
    BY <1>1 DEF Walker!CacheEntry
  <2>3. QED
    BY <1>1, <2>1, <2>2, FillIdxType DEF Walker!Cycle, Walker!UpdateCache
<1>3. w_hit' \in BOOLEAN
  BY DEF Walker!Cycle, Walker!UpdateCache
<1>4. Walker!Plru!TypeOK'
  BY DEF Walker!Cycle, Walker!UpdateCache, Walker!TypeOK, Walker!Plru!Cycle,
         Walker!Plru!Touched, Walker!Plru!TypeOK
<1>5. /\ w_state' \in {"S_READY", "S_REQ", "S_WAIT", "S_DONE", "S_ERROR"}
      /\ w_count' \in Level
      /\ w_req' \in Vpn
      /\ w_pte' \in Pte
  <2>1. CASE Walker!Ready(treq, csr)
    BY <2>1, <1>1, LevelsAssumption DEF Walker!Ready, Pte, Level
  <2>2. CASE Walker!CacheHit
    <3>1. w_cache[Walker!hit_idx].data \in Ppn
      BY <1>1, CacheHitIdxType, WalkerTypes DEF Walker!CacheEntry
    <3>2. QED
      BY <2>2, <3>1, <1>1, LevelsAssumption DEF Walker!CacheHit, Walker!cache_step, Pte, Level
  <2>3. CASE Walker!Request(dmem)
    BY <2>3, <1>1 DEF Walker!Request
  <2>4. CASE Walker!Wait(dmem)
    <3>1. [dmem.data EXCEPT !.v = Walker!pte_v(dmem.data)] \in Pte
      BY DEF Walker!pte_v, Pte
    <3>2. QED
      BY <2>4, <3>1, <1>1, LevelsAssumption DEF Walker!Wait, Level
  <2>5. CASE Walker!Answer
    BY <2>5, <1>1 DEF Walker!Answer
  <2>6. QED
    BY <2>1, <2>2, <2>3, <2>4, <2>5 DEF Walker!Cycle
<1>6. QED
  BY <1>2, <1>3, <1>4, <1>5, WalkerTypes DEF Walker!TypeOK
-----------------------------------------------------------------------------
(* The wires between the components.                                       *)

(* The definitions the TLBs and the arbiter share with the rest.           *)
LEMMA TlbTypes ==
  /\ ITlb!CacheReq = CacheReq /\ ITlb!PtwComm = PtwComm /\ ITlb!Vpn = Vpn
  /\ DTlb!CacheReq = CacheReq /\ DTlb!PtwComm = PtwComm /\ DTlb!Vpn = Vpn
  /\ Arb!Vpn = Vpn /\ Arb!NoResp = NoResp
BY DEF ITlb!CacheReq, ITlb!PtwComm, ITlb!PtwResp, ITlb!Pte, ITlb!Ppn, ITlb!Vpn, ITlb!Level, ITlb!Field,
       DTlb!CacheReq, DTlb!PtwComm, DTlb!PtwResp, DTlb!Pte, DTlb!Ppn, DTlb!Vpn, DTlb!Level, DTlb!Field,
       Arb!Vpn, Arb!Field, Arb!NoResp, Arb!ZeroPte, Arb!ZeroPpn,
       CacheReq, PtwComm, PtwResp, Pte, Ppn, Vpn, Level, Field, NoResp, ZeroPte, ZeroPpn

(* What the TLBs receive is well formed.                                   *)
LEMMA ToTlbType ==
  ASSUME Walker!TypeOK, NEW flush \in BOOLEAN
  PROVE  /\ ToTlb(Arb!itlb_resp(Walker!resp), flush) \in PtwComm
         /\ ToTlb(Arb!dtlb_resp(Walker!resp), flush) \in PtwComm
<1>1. Arb!itlb_resp(Walker!resp) \in PtwResp /\ Arb!dtlb_resp(Walker!resp) \in PtwResp
  BY RespType, ZeroTypes, TlbTypes DEF Arb!itlb_resp, Arb!dtlb_resp
<1>2. Arb!tlb_ready(ireq, dreq) \in BOOLEAN
  BY DEF Arb!tlb_ready
<1>3. QED
  BY <1>1, <1>2 DEF ToTlb, PtwComm

(* The requests of the TLBs are for pages.                                 *)
LEMMA ReqTypes ==
  ASSUME ITlb!TypeOK, DTlb!TypeOK, Arb!TypeOK
  PROVE  /\ ireq.vpn \in Vpn /\ dreq.vpn \in Vpn
         /\ ireq.valid = (i_state = "SEND_REQUEST")
         /\ dreq.valid = (d_state = "SEND_REQUEST")
         /\ Arb!tlb_ptw_req(ireq, dreq).vpn \in Vpn
<1>1. i_req.vpn \in Vpn /\ d_req.vpn \in Vpn
  BY TlbTypes DEF ITlb!TypeOK, DTlb!TypeOK, ITlb!ReqTmp, DTlb!ReqTmp
<1>2. ireq.vpn \in Vpn /\ dreq.vpn \in Vpn
  BY <1>1, ZeroTypes DEF ireq, dreq, TlbReq
<1>3. Arb!NoReq.vpn \in Vpn
  BY ZeroTypes, TlbTypes DEF Arb!NoReq, Arb!ZeroVpn, Arb!Field, ZeroVpn, Field
<1>4. Arb!tlb_ptw_req(ireq, dreq).vpn \in Vpn
  BY <1>2, <1>3, TlbTypes DEF Arb!tlb_ptw_req, Arb!TypeOK
<1>5. QED
  BY <1>2, <1>4 DEF ireq, dreq, TlbReq, ITlb!send_tlb_req, DTlb!send_tlb_req

(* The data cache's inputs: words of memory, in the states that expect     *)
(* them.                                                                   *)
LEMMA DcacheType ==
  ASSUME TypeOK, NEW dmem \in DcacheInputs
  PROVE  dmem.data \in Pte /\ dmem.valid \in BOOLEAN /\ (dmem.valid => w_state = "S_WAIT")
<1>1. Word(mem, Walker!pte_addr) \in Pte
  BY ZeroTypes, PageTablesAssumption DEF Word, TypeOK
<1>2. QED
  BY <1>1, ZeroTypes DEF DcacheInputs, TypeOK
-----------------------------------------------------------------------------
(* Type correctness of the unit.                                           *)

(* The unit is well typed after reset.                                     *)
LEMMA TypeInit == Init => TypeOK
<1> SUFFICES ASSUME Init PROVE TypeOK
  OBVIOUS
<1>1. ITlb!TypeOK
  BY ITlb!TlbTypeInit, LevelsAssumption, RadixAssumption, PpnTopAssumption, TlbEntriesAssumption,
     PtwCacheAssumption DEF Init
<1>2. DTlb!TypeOK
  BY DTlb!TlbTypeInit, LevelsAssumption, RadixAssumption, PpnTopAssumption, TlbEntriesAssumption,
     PtwCacheAssumption DEF Init
<1>3. Arb!TypeOK
  BY ZeroTypes, TlbTypes DEF Init, Arb!Init, Arb!TypeOK, Arb!ZeroVpn, Arb!Field, ZeroVpn, Field
<1>4. Walker!TypeOK
  <2>1. Walker!ZeroPte = ZeroPte /\ Walker!ZeroVpn = ZeroVpn /\ Walker!ZeroPpn = ZeroPpn
    BY DEF Walker!ZeroPte, Walker!ZeroVpn, Walker!ZeroPpn, Walker!Field, ZeroPte, ZeroVpn, ZeroPpn, Field
  <2>2. [valid |-> FALSE, tags |-> <<ZeroPpn, 0>>, data |-> ZeroPpn] \in Walker!CacheEntry
    BY ZeroTypes, WalkerTypes, RadixAssumption DEF Walker!CacheEntry
  <2>3. 0 \in Level
    BY LevelsAssumption DEF Level
  <2>4. QED
    BY <2>1, <2>2, <2>3, ZeroTypes, WalkerTypes
       DEF Init, Walker!Init, Walker!TypeOK, Walker!Plru!Init, Walker!Plru!TypeOK
<1>5. writes \in 0 .. MAX_WRITES
  BY MaxWritesAssumption DEF Init
<1>6. QED
  BY <1>1, <1>2, <1>3, <1>4, <1>5, ZeroTypes, Zenon DEF Init, TypeOK

(* Clock cycles and writes of software keep it well typed.                 *)
LEMMA TypeStep == TypeOK /\ [Next]_vars => TypeOK'
<1> SUFFICES ASSUME TypeOK, [Next]_vars PROVE TypeOK'
  OBVIOUS
<1>1. ASSUME NEW irq \in IReqs, NEW drq \in DReqs, NEW st \in Statuses,
             NEW flush \in FlushInputs, NEW dmem \in DcacheInputs,
             Cycle(irq, drq, st, flush, dmem)
      PROVE  TypeOK'
  <2>1. flush \in BOOLEAN
    BY DEF FlushInputs
  <2>2. irq \in CacheReq /\ drq \in CacheReq
    BY ReqsAssumption
  <2>3. ITlb!TypeOK'
    BY <1>1, <2>1, <2>2, ITlb!TlbTypeCycle, ToTlbType, TlbTypes, LevelsAssumption, RadixAssumption,
       PpnTopAssumption, TlbEntriesAssumption, PtwCacheAssumption DEF Cycle, TypeOK
  <2>4. DTlb!TypeOK'
    BY <1>1, <2>1, <2>2, DTlb!TlbTypeCycle, ToTlbType, TlbTypes, LevelsAssumption, RadixAssumption,
       PpnTopAssumption, TlbEntriesAssumption, PtwCacheAssumption DEF Cycle, TypeOK
  <2>5. Arb!TypeOK'
    BY <1>1, ReqTypes, TlbTypes
       DEF Cycle, TypeOK, Arb!Cycle, Arb!AcceptBoth, Arb!ResumeWaiting, Arb!AcceptOne, Arb!Serving,
           Arb!TypeOK
  <2>6. Walker!TypeOK'
    BY <1>1, ReqTypes, DcacheType, SatpAssumption, WalkerTypeCycle DEF Cycle, TypeOK
  <2>7. dmem_q' \in Pte
    BY <1>1, DcacheType, ZeroTypes, PageTablesAssumption DEF Cycle, TypeOK, Word
  <2>8. i_old' \in SUBSET ITlb!Entry /\ d_old' \in SUBSET DTlb!Entry
    BY <1>1 DEF Cycle, UpdateHistory, OldEntries, TypeOK, ITlb!TypeOK, DTlb!TypeOK
  <2>9. synced' \in BOOLEAN /\ i_flushed' \in BOOLEAN /\ d_flushed' \in BOOLEAN
    BY <1>1 DEF Cycle, UpdateHistory
  <2>10. QED
    BY <1>1, <2>3, <2>4, <2>5, <2>6, <2>7, <2>8, <2>9 DEF Cycle, TypeOK
<1>2. CASE WriteTable
  <2>1. UNCHANGED <<iVars, dVars, aVars, wVars>>
    BY <1>2 DEF WriteTable
  <2>2. ITlb!TypeOK' /\ DTlb!TypeOK' /\ Arb!TypeOK' /\ Walker!TypeOK'
    BY <2>1 DEF TypeOK, iVars, dVars, aVars, wVars, ITlb!TypeOK, DTlb!TypeOK, Arb!TypeOK,
                Walker!TypeOK, ITlb!Plru!TypeOK, DTlb!Plru!TypeOK, Walker!Plru!TypeOK
  <2>3. writes' \in 0 .. MAX_WRITES /\ mem' \in PageTables
    BY <1>2, MaxWritesAssumption DEF WriteTable, TypeOK
  <2>4. ITlb!Entry' = ITlb!Entry /\ DTlb!Entry' = DTlb!Entry
    BY DEF ITlb!Entry, DTlb!Entry
  <2>5. QED
    BY <1>2, <2>2, <2>3, <2>4, Zenon DEF WriteTable, TypeOK
<1>3. CASE UNCHANGED vars
  <2>1. ITlb!TypeOK' /\ DTlb!TypeOK' /\ Arb!TypeOK' /\ Walker!TypeOK'
    BY <1>3 DEF vars, TypeOK, iVars, dVars, aVars, wVars, ITlb!TypeOK, DTlb!TypeOK, Arb!TypeOK,
                Walker!TypeOK, ITlb!Plru!TypeOK, DTlb!Plru!TypeOK, Walker!Plru!TypeOK
  <2>2. QED
    BY <1>3, <2>1 DEF vars, memVars, histVars, TypeOK
<1>4. QED
  BY <1>1, <1>2, <1>3 DEF Next, ClockCycle

(* Every register of the TLBs, the arbiter and the walker stays within its *)
(* type: priority encoders and replacement trees select entries that       *)
(* exist, the level of a walk stays below LEVELS, and the PPN a walk       *)
(* returns fits the TLB's field (tlb.sv, ptw_arb.sv, ptw.sv).              *)
THEOREM TypeCorrect == Spec => []TypeOK
<1>1. QED
  BY TypeInit, TypeStep, PTL DEF Spec
-----------------------------------------------------------------------------
(* Who waits for which walk.                                               *)

(* The FSM of the instruction TLB: it waits for a walk from the cycle in   *)
(* which the arbiter accepts its request to the cycle of the answer.       *)
LEMMA ITlbFsm ==
  ASSUME TypeOK, NEW rq, NEW pc \in PtwComm, NEW st, ITlb!Cycle(rq, pc, st)
  PROVE  /\ i_state = "IDLE" => i_state' \in {"IDLE", "SEND_REQUEST"}
         /\ i_state = "SEND_REQUEST" =>
              /\ pc.ready => IWaiting'
              /\ ~pc.ready => i_state' \in {"IDLE", "SEND_REQUEST"}
         /\ IWaiting =>
              /\ pc.resp.valid => i_state' = "IDLE"
              /\ ~pc.resp.valid => IWaiting'
         /\ i_state # "IDLE" => i_req' = i_req
BY DEF ITlb!Cycle, ITlb!Idle, ITlb!SendRequest, ITlb!WaitResponse,
       ITlb!InvalidatedWaitResponse, IWaiting, TypeOK, ITlb!TypeOK, ITlb!FsmState, PtwComm, PtwResp

(* The same of the data TLB.                                               *)
LEMMA DTlbFsm ==
  ASSUME TypeOK, NEW rq, NEW pc \in PtwComm, NEW st, DTlb!Cycle(rq, pc, st)
  PROVE  /\ d_state = "IDLE" => d_state' \in {"IDLE", "SEND_REQUEST"}
         /\ d_state = "SEND_REQUEST" =>
              /\ pc.ready => DWaiting'
              /\ ~pc.ready => d_state' \in {"IDLE", "SEND_REQUEST"}
         /\ DWaiting =>
              /\ pc.resp.valid => d_state' = "IDLE"
              /\ ~pc.resp.valid => DWaiting'
         /\ d_state # "IDLE" => d_req' = d_req
BY DEF DTlb!Cycle, DTlb!Idle, DTlb!SendRequest, DTlb!WaitResponse,
       DTlb!InvalidatedWaitResponse, DWaiting, TypeOK, DTlb!TypeOK, DTlb!FsmState, PtwComm, PtwResp

(* The walker between two requests: it leaves S_READY with the page of a   *)
(* request, keeps that page, and comes back after its answer.              *)
LEMMA WalkerFsm ==
  ASSUME TypeOK, NEW treq, treq.valid \in BOOLEAN, NEW dmem, NEW csr, Walker!Cycle(treq, dmem, csr)
  PROVE  /\ w_state = "S_READY" /\ treq.valid => w_state' # "S_READY" /\ w_req' = treq.vpn
         /\ w_state = "S_READY" /\ ~treq.valid => w_state' = "S_READY"
         /\ w_state # "S_READY" => w_req' = w_req
         /\ Walker!resp.valid => w_state # "S_READY" /\ w_state' = "S_READY"
         /\ w_state # "S_READY" /\ ~Walker!resp.valid => w_state' # "S_READY"
BY DEF Walker!Cycle, Walker!Ready, Walker!CacheHit, Walker!cache_step, Walker!Request, Walker!Wait,
       Walker!Answer, Walker!resp, TypeOK, Walker!TypeOK

(* One clock cycle keeps requests, walks and answers matched.              *)
LEMMA OwnershipCycle ==
  ASSUME TypeOK, WalkOwnership,
         NEW irq \in IReqs, NEW drq \in DReqs, NEW st \in Statuses,
         NEW flush \in FlushInputs, NEW dmem \in DcacheInputs,
         Cycle(irq, drq, st, flush, dmem)
  PROVE  WalkOwnership'
<1> DEFINE ipc == ToTlb(Arb!itlb_resp(Walker!resp), flush)
           dpc == ToTlb(Arb!dtlb_resp(Walker!resp), flush)
           treq == Arb!tlb_ptw_req(ireq, dreq)
<1>1. ipc \in PtwComm /\ dpc \in PtwComm
  BY ToTlbType DEF FlushInputs, TypeOK
<1>2. ITlb!Cycle(irq, ipc, st) /\ DTlb!Cycle(drq, dpc, st)
      /\ Arb!Cycle(ireq, dreq, Walker!resp)
      /\ Walker!Cycle(treq, dmem, [satp |-> SATP, flush |-> flush])
  BY DEF Cycle
<1>3. /\ ipc.ready = Arb!tlb_ready(ireq, dreq) /\ dpc.ready = Arb!tlb_ready(ireq, dreq)
      /\ ipc.resp.valid = (a_state = "SERVING_iTLB" /\ Walker!resp.valid)
      /\ dpc.resp.valid = (a_state = "SERVING_dTLB" /\ Walker!resp.valid)
  BY RespType, TlbTypes
     DEF ToTlb, Arb!itlb_resp, Arb!dtlb_resp, NoResp, PtwResp, TypeOK
<1>4. /\ ireq.valid = (i_state = "SEND_REQUEST") /\ dreq.valid = (d_state = "SEND_REQUEST")
      /\ ireq.valid => ireq.vpn = i_req.vpn
      /\ dreq.valid => dreq.vpn = d_req.vpn
  BY DEF ireq, dreq, TlbReq, ITlb!send_tlb_req, DTlb!send_tlb_req
<1>5. treq.valid \in BOOLEAN
  BY <1>4 DEF Arb!tlb_ptw_req, Arb!NoReq, TypeOK, Arb!TypeOK
<1>6. Walker!resp.valid \in BOOLEAN
  BY DEF Walker!resp
<1>7. /\ i_state = "IDLE" => i_state' \in {"IDLE", "SEND_REQUEST"}
      /\ i_state = "SEND_REQUEST" => IF ipc.ready THEN IWaiting' ELSE i_state' \in {"IDLE", "SEND_REQUEST"}
      /\ IWaiting => IF ipc.resp.valid THEN i_state' = "IDLE" ELSE IWaiting'
      /\ i_state # "IDLE" => i_req' = i_req
  <2> HIDE DEF ipc
  <2> QED BY <1>1, <1>2, ITlbFsm
<1>8. /\ d_state = "IDLE" => d_state' \in {"IDLE", "SEND_REQUEST"}
      /\ d_state = "SEND_REQUEST" => IF dpc.ready THEN DWaiting' ELSE d_state' \in {"IDLE", "SEND_REQUEST"}
      /\ DWaiting => IF dpc.resp.valid THEN d_state' = "IDLE" ELSE DWaiting'
      /\ d_state # "IDLE" => d_req' = d_req
  <2> HIDE DEF dpc
  <2> QED BY <1>1, <1>2, DTlbFsm
<1>9. /\ w_state = "S_READY" /\ treq.valid => w_state' # "S_READY" /\ w_req' = treq.vpn
      /\ w_state = "S_READY" /\ ~treq.valid => w_state' = "S_READY"
      /\ w_state # "S_READY" => w_req' = w_req
      /\ Walker!resp.valid => w_state # "S_READY" /\ w_state' = "S_READY"
      /\ w_state # "S_READY" /\ ~Walker!resp.valid => w_state' # "S_READY"
  <2> HIDE DEF treq
  <2> QED BY <1>2, <1>5, WalkerFsm
<1>10. i_state \in ITlb!FsmState /\ d_state \in DTlb!FsmState
       /\ a_state \in {"IDLE", "SERVING_iTLB", "SERVING_dTLB"} /\ a_waiting \in BOOLEAN
  BY DEF TypeOK, ITlb!TypeOK, DTlb!TypeOK, Arb!TypeOK
<1>11. CASE a_state = "IDLE"
  <2>1. ~DWaiting /\ (IWaiting <=> a_waiting) /\ w_state = "S_READY"
    BY <1>11 DEF WalkOwnership
  <2>2. ~Walker!resp.valid
    BY <2>1, <1>9
  <2>3. CASE dreq.valid /\ ireq.valid
    <3>1. a_state' = "SERVING_dTLB" /\ a_waiting' /\ a_req' = ireq.vpn
      BY <1>2, <1>11, <2>3
         DEF Arb!Cycle, Arb!AcceptBoth, Arb!ResumeWaiting, Arb!AcceptOne, Arb!Serving
    <3>2. treq = dreq /\ Arb!tlb_ready(ireq, dreq)
      BY <1>11, <2>3 DEF Arb!tlb_ptw_req, Arb!tlb_ready
    <3>3. DWaiting' /\ IWaiting' /\ i_req' = i_req /\ d_req' = d_req
      BY <1>3, <1>4, <1>7, <1>8, <2>3, <3>2
    <3>4. w_state' # "S_READY" /\ w_req' = d_req.vpn
      BY <1>4, <1>9, <2>1, <2>3, <3>2
    <3>5. QED
      BY <3>1, <3>3, <3>4, <1>4, <2>3 DEF WalkOwnership
  <2>4. CASE ~(dreq.valid /\ ireq.valid) /\ a_waiting
    <3>1. a_state' = "SERVING_iTLB" /\ a_waiting' = a_waiting /\ a_req' = a_req
      BY <1>2, <1>11, <2>4
         DEF Arb!Cycle, Arb!AcceptBoth, Arb!ResumeWaiting, Arb!AcceptOne, Arb!Serving
    <3>2. ~treq.valid /\ ~Arb!tlb_ready(ireq, dreq)
      BY <1>4, <1>10, <1>11, <2>1, <2>4
         DEF Arb!tlb_ptw_req, Arb!tlb_ready, Arb!NoReq, IWaiting, ITlb!FsmState
    <3>3. IWaiting' /\ ~DWaiting' /\ i_req' = i_req
      BY <1>3, <1>7, <1>8, <1>10, <1>11, <2>1, <2>4, <3>2
         DEF IWaiting, DWaiting, ITlb!FsmState, DTlb!FsmState
    <3>4. w_state' = "S_READY"
      BY <1>9, <2>1, <3>2
    <3>5. QED
      BY <3>1, <3>3, <3>4, <2>4, <1>10 DEF WalkOwnership
  <2>5. CASE ~(dreq.valid /\ ireq.valid) /\ ~a_waiting
    <3>1. /\ a_waiting' = a_waiting
          /\ a_state' = IF dreq.valid THEN "SERVING_dTLB"
                        ELSE IF ireq.valid THEN "SERVING_iTLB" ELSE "IDLE"
      BY <1>2, <1>4, <1>11, <2>5
         DEF Arb!Cycle, Arb!AcceptBoth, Arb!ResumeWaiting, Arb!AcceptOne, Arb!Serving
    <3>2. treq = (IF dreq.valid THEN dreq ELSE ireq) /\ Arb!tlb_ready(ireq, dreq)
      BY <1>11, <2>5 DEF Arb!tlb_ptw_req, Arb!tlb_ready
    <3>3. DWaiting' <=> dreq.valid
      BY <1>3, <1>4, <1>8, <1>10, <2>1, <3>2 DEF DWaiting, DTlb!FsmState
    <3>4. IWaiting' <=> ireq.valid
      BY <1>3, <1>4, <1>7, <1>10, <2>1, <2>5, <3>2 DEF IWaiting, ITlb!FsmState
    <3>5. /\ dreq.valid => w_state' # "S_READY" /\ w_req' = d_req'.vpn
          /\ ~dreq.valid /\ ireq.valid => w_state' # "S_READY" /\ w_req' = i_req'.vpn
          /\ ~dreq.valid /\ ~ireq.valid => w_state' = "S_READY"
      BY <1>4, <1>7, <1>8, <1>9, <2>1, <3>2
    <3>6. QED
      BY <3>1, <3>3, <3>4, <3>5, <2>5, <1>4 DEF WalkOwnership
  <2>6. QED
    BY <2>3, <2>4, <2>5
<1>12. CASE a_state = "SERVING_dTLB"
  <2>1. DWaiting /\ (IWaiting <=> a_waiting) /\ w_state # "S_READY" /\ w_req = d_req.vpn
    BY <1>12 DEF WalkOwnership
  <2>2. /\ a_state' = IF Walker!resp.valid THEN "IDLE" ELSE "SERVING_dTLB"
        /\ a_waiting' = a_waiting /\ a_req' = a_req
    BY <1>2, <1>6, <1>10, <1>12
       DEF Arb!Cycle, Arb!AcceptBoth, Arb!ResumeWaiting, Arb!AcceptOne, Arb!Serving
  <2>3. ~Arb!tlb_ready(ireq, dreq)
    BY <1>12 DEF Arb!tlb_ready
  <2>4. IF Walker!resp.valid THEN d_state' = "IDLE" /\ w_state' = "S_READY"
                             ELSE DWaiting' /\ w_state' # "S_READY" /\ d_req' = d_req /\ w_req' = w_req
    BY <1>3, <1>8, <1>9, <1>12, <2>1 DEF DWaiting
  <2>5. (IWaiting' <=> IWaiting) /\ (IWaiting => i_req' = i_req)
    BY <1>3, <1>7, <1>10, <1>12, <2>3 DEF IWaiting, ITlb!FsmState
  <2>6. QED
    BY <2>1, <2>2, <2>4, <2>5 DEF WalkOwnership, DWaiting
<1>13. CASE a_state = "SERVING_iTLB"
  <2>1. /\ IWaiting /\ ~DWaiting
        /\ IF w_state = "S_READY" THEN a_waiting /\ a_req = i_req.vpn ELSE w_req = i_req.vpn
    BY <1>13 DEF WalkOwnership
  <2>2. /\ a_state' = IF Walker!resp.valid THEN "IDLE" ELSE "SERVING_iTLB"
        /\ a_waiting' = (a_waiting /\ ~Walker!resp.valid) /\ a_req' = a_req
    BY <1>2, <1>6, <1>10, <1>13
       DEF Arb!Cycle, Arb!AcceptBoth, Arb!ResumeWaiting, Arb!AcceptOne, Arb!Serving
  <2>3. ~Arb!tlb_ready(ireq, dreq)
    BY <1>13 DEF Arb!tlb_ready
  <2>4. IF Walker!resp.valid THEN i_state' = "IDLE" ELSE IWaiting' /\ i_req' = i_req
    BY <1>3, <1>7, <1>13, <2>1 DEF IWaiting
  <2>5. ~DWaiting'
    BY <1>3, <1>8, <1>10, <1>13, <2>1, <2>3 DEF DWaiting, DTlb!FsmState
  <2>6. a_waiting => treq.valid /\ treq.vpn = a_req
    BY <1>13 DEF Arb!tlb_ptw_req
  <2>7. IF Walker!resp.valid THEN w_state' = "S_READY" ELSE w_state' # "S_READY" /\ w_req' = i_req.vpn
    BY <1>9, <2>1, <2>6
  <2>8. a_waiting => a_req = i_req.vpn
    BY DEF WalkOwnership
  <2>9. QED
    BY <1>6, <1>10, <2>1, <2>2, <2>4, <2>5, <2>7, <2>8 DEF WalkOwnership, IWaiting
<1>14. QED
  BY <1>10, <1>11, <1>12, <1>13

(* The arbiter, the TLBs and the walker agree on whose walk is in progress *)
(* and for which page, whatever the order of misses, flushes and answers.  *)
THEOREM WalkOwned == Spec => []WalkOwnership
<1>1. Init => WalkOwnership
  BY DEF Init, WalkOwnership, ITlb!Init, DTlb!Init, Arb!Init, Walker!Init, IWaiting, DWaiting
<1>2. TypeOK /\ WalkOwnership /\ [Next]_vars => WalkOwnership'
  <2> SUFFICES ASSUME TypeOK, WalkOwnership, [Next]_vars PROVE WalkOwnership'
    OBVIOUS
  <2>1. CASE ClockCycle
    BY <2>1, OwnershipCycle DEF ClockCycle
  <2>2. CASE WriteTable \/ UNCHANGED vars
    BY <2>2 DEF WriteTable, vars, iVars, dVars, aVars, wVars, WalkOwnership, IWaiting, DWaiting
  <2>3. QED
    BY <2>1, <2>2 DEF Next
<1>3. QED
  BY <1>1, <1>2, TypeCorrect, PTL DEF Spec
-----------------------------------------------------------------------------
(* What a flush overtakes is not allocated.                                *)

(* The strengthening that makes NoStaleAllocation inductive: a TLB that    *)
(* may still allocate the answer to its miss has seen no flush since.      *)
FlushInv ==
  /\ NoStaleAllocation
  /\ i_state \in {"SEND_REQUEST", "WAIT_RESPONSE"} => ~i_flushed
  /\ d_state \in {"SEND_REQUEST", "WAIT_RESPONSE"} => ~d_flushed

(* One clock cycle of the instruction TLB.                                *)
LEMMA ITlbFlush ==
  ASSUME TypeOK, FlushInv, TLB_ENTRIES <= 8,
         NEW rq, NEW pc \in PtwComm, NEW st, ITlb!Cycle(rq, pc, st)
  PROVE  /\ OldEntries(i_entries, i_entries', i_old, i_flushed, pc.invalidate) = {}
         /\ i_state' \in {"SEND_REQUEST", "WAIT_RESPONSE"} =>
              ~(i_state # "IDLE" /\ (i_flushed \/ pc.invalidate))
<1>1. i_entries \in [ITlb!Entry -> ITlb!TlbEntry] /\ i_old = {} /\ i_flushed \in BOOLEAN
  BY DEF TypeOK, ITlb!TypeOK, FlushInv, NoStaleAllocation
<1>2. ASSUME NEW k \in ITlb!Entry, i_entries'[k].nempty
      PROVE  /\ ~pc.invalidate
             /\ i_entries'[k] # i_entries[k] => ~i_flushed
  <2>1. ITlb!EmptyEntry.nempty = FALSE
    BY DEF ITlb!EmptyEntry
  <2>2. ASSUME NEW clean, NEW write, ITlb!UpdateEntries(rq, pc, st, clean, write)
        PROVE  ~pc.invalidate /\ (i_entries'[k] # i_entries[k] => write)
    <3>1. k \in ITlb!invalidate_mask
      BY TlbEntriesAssumption DEF ITlb!Entry, ITlb!invalidate_mask
    <3>2. QED
      BY <1>1, <1>2, <2>1, <2>2, <3>1 DEF ITlb!UpdateEntries
  <2>3. CASE ITlb!WaitResponse(rq, pc, st)
    BY <2>2, <2>3 DEF ITlb!WaitResponse, FlushInv
  <2>4. CASE ~ITlb!WaitResponse(rq, pc, st)
    <3>1. \E clean : ITlb!UpdateEntries(rq, pc, st, clean, FALSE)
      BY <2>4 DEF ITlb!Cycle, ITlb!Idle, ITlb!SendRequest, ITlb!InvalidatedWaitResponse
    <3>2. QED
      BY <2>2, <3>1
  <2>5. QED
    BY <2>3, <2>4
<1>3. OldEntries(i_entries, i_entries', i_old, i_flushed, pc.invalidate) = {}
  BY <1>1, <1>2 DEF OldEntries
<1>4. i_state' \in {"SEND_REQUEST", "WAIT_RESPONSE"} =>
        ~(i_state # "IDLE" /\ (i_flushed \/ pc.invalidate))
  BY <1>1 DEF ITlb!Cycle, ITlb!Idle, ITlb!SendRequest, ITlb!WaitResponse,
              ITlb!InvalidatedWaitResponse, FlushInv, PtwComm, PtwResp
<1>5. QED
  BY <1>3, <1>4

(* One clock cycle of the data TLB.                                       *)
LEMMA DTlbFlush ==
  ASSUME TypeOK, FlushInv, TLB_ENTRIES <= 8,
         NEW rq, NEW pc \in PtwComm, NEW st, DTlb!Cycle(rq, pc, st)
  PROVE  /\ OldEntries(d_entries, d_entries', d_old, d_flushed, pc.invalidate) = {}
         /\ d_state' \in {"SEND_REQUEST", "WAIT_RESPONSE"} =>
              ~(d_state # "IDLE" /\ (d_flushed \/ pc.invalidate))
<1>1. d_entries \in [DTlb!Entry -> DTlb!TlbEntry] /\ d_old = {} /\ d_flushed \in BOOLEAN
  BY DEF TypeOK, DTlb!TypeOK, FlushInv, NoStaleAllocation
<1>2. ASSUME NEW k \in DTlb!Entry, d_entries'[k].nempty
      PROVE  /\ ~pc.invalidate
             /\ d_entries'[k] # d_entries[k] => ~d_flushed
  <2>1. DTlb!EmptyEntry.nempty = FALSE
    BY DEF DTlb!EmptyEntry
  <2>2. ASSUME NEW clean, NEW write, DTlb!UpdateEntries(rq, pc, st, clean, write)
        PROVE  ~pc.invalidate /\ (d_entries'[k] # d_entries[k] => write)
    <3>1. k \in DTlb!invalidate_mask
      BY TlbEntriesAssumption DEF DTlb!Entry, DTlb!invalidate_mask
    <3>2. QED
      BY <1>1, <1>2, <2>1, <2>2, <3>1 DEF DTlb!UpdateEntries
  <2>3. CASE DTlb!WaitResponse(rq, pc, st)
    BY <2>2, <2>3 DEF DTlb!WaitResponse, FlushInv
  <2>4. CASE ~DTlb!WaitResponse(rq, pc, st)
    <3>1. \E clean : DTlb!UpdateEntries(rq, pc, st, clean, FALSE)
      BY <2>4 DEF DTlb!Cycle, DTlb!Idle, DTlb!SendRequest, DTlb!InvalidatedWaitResponse
    <3>2. QED
      BY <2>2, <3>1
  <2>5. QED
    BY <2>3, <2>4
<1>3. OldEntries(d_entries, d_entries', d_old, d_flushed, pc.invalidate) = {}
  BY <1>1, <1>2 DEF OldEntries
<1>4. d_state' \in {"SEND_REQUEST", "WAIT_RESPONSE"} =>
        ~(d_state # "IDLE" /\ (d_flushed \/ pc.invalidate))
  BY <1>1 DEF DTlb!Cycle, DTlb!Idle, DTlb!SendRequest, DTlb!WaitResponse,
              DTlb!InvalidatedWaitResponse, FlushInv, PtwComm, PtwResp
<1>5. QED
  BY <1>3, <1>4

(* No entry of a TLB of at most eight entries was obtained by a walk that  *)
(* was requested before the last flush: sfence.vma and a change of satp    *)
(* are never undone by a walk in progress (tlb.sv).  Beyond eight entries  *)
(* the flush mask of the code, 'hFF, does not reach them all.              *)
THEOREM NoStaleEntries ==
  ASSUME TLB_ENTRIES <= 8
  PROVE  Spec => []NoStaleAllocation
<1>1. Init => FlushInv
  BY DEF Init, FlushInv, NoStaleAllocation, ITlb!Init, DTlb!Init
<1>2. TypeOK /\ FlushInv /\ [Next]_vars => FlushInv'
  <2> SUFFICES ASSUME TypeOK, FlushInv, [Next]_vars PROVE FlushInv'
    OBVIOUS
  <2>1. ASSUME NEW irq \in IReqs, NEW drq \in DReqs, NEW st \in Statuses,
               NEW flush \in FlushInputs, NEW dmem \in DcacheInputs,
               Cycle(irq, drq, st, flush, dmem)
        PROVE  FlushInv'
    <3> DEFINE ipc == ToTlb(Arb!itlb_resp(Walker!resp), flush)
               dpc == ToTlb(Arb!dtlb_resp(Walker!resp), flush)
    <3>1. ipc \in PtwComm /\ dpc \in PtwComm
      BY ToTlbType DEF FlushInputs, TypeOK
    <3>2. ipc.invalidate = flush /\ dpc.invalidate = flush
      BY DEF ToTlb
    <3>3. ITlb!Cycle(irq, ipc, st) /\ DTlb!Cycle(drq, dpc, st) /\ UpdateHistory(flush)
      BY <2>1 DEF Cycle
    <3> HIDE DEF ipc, dpc
    <3>4. i_old' = {} /\ (i_state' \in {"SEND_REQUEST", "WAIT_RESPONSE"} => ~i_flushed')
      BY <3>1, <3>2, <3>3, ITlbFlush DEF UpdateHistory
    <3>5. d_old' = {} /\ (d_state' \in {"SEND_REQUEST", "WAIT_RESPONSE"} => ~d_flushed')
      BY <3>1, <3>2, <3>3, DTlbFlush DEF UpdateHistory
    <3>6. QED
      BY <3>4, <3>5 DEF FlushInv, NoStaleAllocation
  <2>2. CASE WriteTable \/ UNCHANGED vars
    BY <2>2 DEF WriteTable, vars, iVars, dVars, histVars, FlushInv, NoStaleAllocation
  <2>3. QED
    BY <2>1, <2>2 DEF Next, ClockCycle
<1>3. FlushInv => NoStaleAllocation
  BY DEF FlushInv
<1>4. QED
  BY <1>1, <1>2, <1>3, TypeCorrect, PTL DEF Spec
-----------------------------------------------------------------------------
(* The PTE cache.                                                          *)

(* The PTE cache never holds the same table address twice, so that a hit   *)
(* selects one entry: a PTE is stored only when its address, which cannot  *)
(* change while it is being read, does not hit (ptw.sv, hit_vector).       *)
THEOREM PteCacheTagsUnique == Spec => []PteCacheUnique
<1>1. Init => PteCacheUnique
  BY DEF Init, Walker!Init, PteCacheUnique
<1>2. TypeOK /\ PteCacheUnique /\ [Next]_vars => PteCacheUnique'
  <2> SUFFICES ASSUME TypeOK, PteCacheUnique, [Next]_vars PROVE PteCacheUnique'
    OBVIOUS
  <2>1. w_cache \in [Walker!Slot -> Walker!CacheEntry]
    BY DEF TypeOK, Walker!TypeOK
  <2>2. ASSUME NEW dmem, NEW csr, Walker!UpdateCache(dmem, csr)
        PROVE  PteCacheUnique'
    <3>1. CASE Walker!cache_fill(dmem)
      <4> DEFINE e == [valid |-> TRUE, tags |-> Walker!pte_addr, data |-> dmem.data.ppn]
      <4>1. w_cache' = [w_cache EXCEPT ![Walker!fill_idx] = e]
        BY <2>2, <3>1 DEF Walker!UpdateCache
      <4>2. \A k \in Walker!Slot : ~(w_cache[k].valid /\ w_cache[k].tags = Walker!pte_addr)
        BY <3>1 DEF Walker!cache_fill, Walker!pte_cache_hit, Walker!hit_vector
      <4>3. QED
        BY <2>1, <4>1, <4>2, FillIdxType DEF PteCacheUnique
    <3>2. CASE ~Walker!cache_fill(dmem)
      <4>1. ASSUME NEW k \in Walker!Slot
            PROVE  w_cache'[k].tags = w_cache[k].tags /\ (w_cache'[k].valid => w_cache[k].valid)
        BY <2>1, <2>2, <3>2 DEF Walker!UpdateCache, Walker!CacheEntry
      <4>2. QED
        BY <4>1 DEF PteCacheUnique
    <3>3. QED
      BY <3>1, <3>2
  <2>3. CASE ClockCycle
    BY <2>2, <2>3 DEF ClockCycle, Cycle, Walker!Cycle
  <2>4. CASE WriteTable \/ UNCHANGED vars
    BY <2>4 DEF WriteTable, vars, wVars, PteCacheUnique
  <2>5. QED
    BY <2>3, <2>4 DEF Next
<1>3. QED
  BY <1>1, <1>2, TypeCorrect, PTL DEF Spec

-----------------------------------------------------------------------------
(* What the TLBs say of a page is what the reference walk says.            *)

\* What is asked of page tables: no reserved bit and no reserved combination of bits is
\* set in a PTE that is valid, and physical memory ends below the virtual address space
\* (pte_addr and r_resp_ppn are cut to its size).
SupportedPte(pte) ==
  /\ pte.ppn[1] < RADIX
  /\ pte.v => ~pte.rsv /\ (pte.w => pte.r) /\ (PTE_TABLE(pte) => ~pte.d /\ ~pte.a /\ ~pte.u)
SupportedTables ==
  /\ SATP[1] < RADIX
  /\ \A m \in PageTables : \A a \in DOMAIN m : SupportedPte(m[a])

\* The tables do not change, or software flushes between walks only and the flush
\* reaches every entry.
StaticTables == MAX_WRITES = 0
FlushBetweenWalks == FLUSH_STATES \subseteq {"S_READY"} /\ TLB_ENTRIES <= 8

\* The walk of a page, and the PTE it ends at.
Ptes(vpn) == WalkPtes(mem, SATP, vpn)
LeafLevel(vpn) == WalkLevel(Ptes(vpn))
IsLeaf(pte, level) == pte.v /\ (pte.r \/ pte.w \/ pte.x) /\ \A k \in level+2 .. LEVELS : pte.ppn[k] = 0

\* An entry holds what the walk of its page ends at.
PermsOf(perms, pte) ==
  /\ "ur" \in perms <=> pte.r /\ pte.u
  /\ "uw" \in perms <=> pte.w /\ pte.u
  /\ "ux" \in perms <=> pte.x /\ pte.u
  /\ "sr" \in perms <=> pte.r /\ ~pte.u
  /\ "sw" \in perms <=> pte.w /\ ~pte.u
  /\ "sx" \in perms <=> pte.x /\ ~pte.u
AgreesOn(e, vpn) ==
  LET l   == LeafLevel(vpn)
      pte == Ptes(vpn)[l]
  IN  /\ e.level = l
      /\ IF IsLeaf(pte, l)
           THEN /\ e.valid /\ e.access = pte.a /\ e.dirty = pte.d
                /\ PermsOf(e.perms, pte) /\ \A k \in 1 .. l+1 : e.ppn[k] = pte.ppn[k]
           ELSE ~e.valid /\ e.perms = {}
Agrees(e) == AgreesOn(e, e.vpn)

\* The PTE cache holds tables as they are in memory.
CacheAgrees ==
  \A i \in Walker!Slot : w_cache[i].valid =>
    PTE_TABLE(Word(mem, w_cache[i].tags)) /\ w_cache[i].data = Word(mem, w_cache[i].tags).ppn

\* The walker is on the reference walk of its page.
WalkAgrees ==
  w_state # "S_READY" =>
    /\ \A l \in 0 .. w_count-1 : Descends(Ptes(w_req)[l])
    /\ w_state \in {"S_REQ", "S_WAIT"} => w_pte.ppn = IF w_count = 0 THEN SATP ELSE Ptes(w_req)[w_count-1].ppn
    /\ w_state = "S_WAIT" => dmem_q = Ptes(w_req)[w_count]
    /\ w_state = "S_DONE" => IsLeaf(w_pte, w_count) /\ w_pte = Ptes(w_req)[w_count]
    /\ w_state = "S_ERROR" =>
         /\ ~Descends(Ptes(w_req)[w_count]) \/ w_count = LEVELS-1
         /\ ~IsLeaf(Ptes(w_req)[w_count], w_count)
         /\ ~(w_pte.v /\ (w_pte.r \/ w_pte.w \/ w_pte.x))

AgreeInv ==
  /\ StaticTables => synced
  /\ synced =>
       /\ CacheAgrees /\ WalkAgrees
       /\ \A i \in ITlb!Entry : i_entries[i].nempty => Agrees(i_entries[i])
       /\ \A i \in DTlb!Entry : d_entries[i].nempty => Agrees(d_entries[i])

(* A number below the divisor is its own remainder.                        *)
LEMMA ModSmall ==
  ASSUME NEW n \in Nat, NEW m \in Nat, n < m
  PROVE  n % m = n
<1>1. n = m * (n \div m) + (n % m) /\ n \div m \in Nat /\ n % m \in 0 .. m-1
  OBVIOUS
<1> DEFINE q == n \div m
<1>2. q = 0
  <2> SUFFICES ASSUME q >= 1 PROVE FALSE
    BY <1>1
  <2>1. m * q = m + m * (q - 1) /\ m * (q - 1) \in Nat
    <3> HIDE DEF q
    <3> QED BY <1>1 DEF q
  <2> QED BY <1>1, <2>1
<1> QED BY <1>1, <1>2

(* What a walk finds at a level is a PTE of the tables.                    *)
LEMMA PtesSupported ==
  ASSUME TypeOK, SupportedTables, NEW vpn, NEW l \in Level
  PROVE  Ptes(vpn)[l] \in Pte /\ SupportedPte(Ptes(vpn)[l])
<1>1. mem \in PageTables
  BY DEF TypeOK
<1>2. Ptes(vpn)[l] \in Pte
  BY <1>1, PageTablesAssumption, WalkPtesType DEF Ptes
<1>3. SupportedPte(ZeroPte)
  BY LevelsAssumption, RadixAssumption DEF SupportedPte, ZeroPte, ZeroPpn, Field
<1>4. \A a : SupportedPte(Word(mem, a))
  BY <1>1, <1>3 DEF SupportedTables, Word
<1> DEFINE addr == <<IF l = 0 THEN SATP ELSE Ptes(vpn)[l-1].ppn, vpn[l+1]>>
<1>5. Ptes(vpn)[l] = Word(mem, addr)
  BY WalkPteAt DEF Ptes
<1> HIDE DEF addr
<1> QED BY <1>2, <1>4, <1>5

(* The address the walker reads is that of the PTE the reference reads.    *)
LEMMA PteAddrAgrees ==
  ASSUME TypeOK, SupportedTables, WalkAgrees, w_state \in {"S_REQ", "S_WAIT"}
  PROVE  Word(mem, Walker!pte_addr) = Ptes(w_req)[w_count]
<1> DEFINE t == IF w_count = 0 THEN SATP ELSE Ptes(w_req)[w_count-1].ppn
<1>1. w_pte.ppn = t /\ w_count \in Level
  BY WalkerTypes DEF WalkAgrees, TypeOK, Walker!TypeOK
<1>2. t \in Ppn /\ t[1] < RADIX
  <2>1. CASE w_count = 0
    BY <2>1, SatpAssumption DEF SupportedTables
  <2>2. CASE w_count # 0
    <3>1. w_count-1 \in Level
      BY <1>1, <2>2, LevelsAssumption DEF Level
    <3>2. Ptes(w_req)[w_count-1] \in Pte /\ SupportedPte(Ptes(w_req)[w_count-1])
      BY <3>1, PtesSupported
    <3> QED BY <2>2, <3>2 DEF Pte, SupportedPte
  <2> QED BY <2>1, <2>2
<1> HIDE DEF t
<1>3. 1 \in Field /\ t[1] \in Nat /\ t \in [Field -> 0 .. PPN_TOP-1]
  BY <1>2, LevelsAssumption, PpnTopAssumption DEF Field, Ppn
<1>4. [t EXCEPT ![1] = @ % (2*RADIX)] = t
  <2> DEFINE m == 2 * RADIX
             n == t[1]
  <2>1. m \in Nat /\ n \in Nat /\ n < m
    BY <1>2, <1>3, RadixAssumption
  <2>2. n % m = n
    <3> HIDE DEF m, n
    <3> QED BY <2>1, ModSmall
  <2>3. t[1] % (2*RADIX) = t[1]
    BY <2>2
  <2> QED BY <1>3, <2>3
<1>5. Walker!pte_addr = <<t, w_req[w_count+1]>>
  BY <1>1, <1>4 DEF Walker!pte_addr
<1>6. Ptes(w_req)[w_count] = Word(mem, <<t, w_req[w_count+1]>>)
  BY <1>1, WalkPteAt DEF Ptes, t
<1> QED BY <1>5, <1>6

(* A PTE that is a table is followed by the reference walk.                *)
LEMMA TablesDescend ==
  ASSUME NEW pte, SupportedPte(pte), PTE_TABLE(pte)
  PROVE  Descends(pte)
BY DEF SupportedPte, PTE_TABLE, Descends

(* The cache answers with the PTE the reference reads.                     *)
LEMMA AnswerAgrees ==
  ASSUME TypeOK, SupportedTables, WalkAgrees, NEW dmem \in DcacheInputs, dmem.valid
  PROVE  w_state = "S_WAIT" /\ dmem.data = Ptes(w_req)[w_count]
<1>1. w_state = "S_WAIT" /\ dmem.data \in {dmem_q, Word(mem, Walker!pte_addr)}
  BY DEF DcacheInputs
<1> QED BY <1>1, PteAddrAgrees DEF WalkAgrees

(* The PTE cache stays as memory is.                                       *)
LEMMA CacheCycle ==
  ASSUME TypeOK, SupportedTables, WalkAgrees, CacheAgrees, NEW dmem \in DcacheInputs, NEW csr,
         Walker!UpdateCache(dmem, csr), mem' = mem
  PROVE  CacheAgrees'
<1>1. w_cache \in [Walker!Slot -> Walker!CacheEntry]
  BY DEF TypeOK, Walker!TypeOK
<1>2. CASE Walker!cache_fill(dmem)
  <2> DEFINE e == [valid |-> TRUE, tags |-> Walker!pte_addr, data |-> dmem.data.ppn]
  <2>1. w_cache' = [w_cache EXCEPT ![Walker!fill_idx] = e]
    BY <1>2 DEF Walker!UpdateCache
  <2>2. dmem.data = Word(mem, Walker!pte_addr)
    BY <1>2, AnswerAgrees, PteAddrAgrees DEF Walker!cache_fill
  <2>3. PTE_TABLE(dmem.data)
    BY <1>2 DEF Walker!cache_fill, Walker!is_pte_table, Walker!pte_v, Walker!HasPerm, PTE_TABLE
  <2>4. e.valid /\ e.tags = Walker!pte_addr /\ e.data = dmem.data.ppn
    OBVIOUS
  <2> HIDE DEF e
  <2>5. ASSUME NEW i \in Walker!Slot, w_cache'[i].valid
        PROVE  PTE_TABLE(Word(mem, w_cache'[i].tags)) /\ w_cache'[i].data = Word(mem, w_cache'[i].tags).ppn
    <3>1. CASE i = Walker!fill_idx
      <4>1. w_cache'[i] = e
        BY <1>1, <2>1, <3>1
      <4> QED BY <2>2, <2>3, <2>4, <4>1
    <3>2. CASE i # Walker!fill_idx
      <4>1. w_cache'[i] = w_cache[i]
        BY <1>1, <2>1, <3>2
      <4> QED BY <2>5, <4>1 DEF CacheAgrees
    <3> QED BY <3>1, <3>2
  <2> QED BY <2>5 DEF CacheAgrees, Walker!Slot
<1>3. CASE ~Walker!cache_fill(dmem)
  <2>1. ASSUME NEW i \in Walker!Slot
        PROVE  /\ w_cache'[i].tags = w_cache[i].tags /\ w_cache'[i].data = w_cache[i].data
               /\ w_cache'[i].valid => w_cache[i].valid
    BY <1>1, <1>3 DEF Walker!UpdateCache, Walker!CacheEntry
  <2> QED BY <2>1 DEF CacheAgrees, Walker!Slot
<1> QED BY <1>2, <1>3

(* The walker stays on the walk.                                           *)
LEMMA WalkCycle ==
  ASSUME TypeOK, SupportedTables, WalkAgrees, w_state # "S_READY" => CacheAgrees,
         NEW treq, NEW dmem \in DcacheInputs, NEW flush,
         Walker!Cycle(treq, dmem, [satp |-> SATP, flush |-> flush]),
         mem' = mem,
         dmem_q' = IF w_state = "S_REQ" /\ w_state' = "S_WAIT" THEN Word(mem, Walker!pte_addr)
                   ELSE IF dmem.valid THEN ZeroPte ELSE dmem_q
  PROVE  WalkAgrees'
<1>1. /\ w_pte \in Pte /\ w_count \in Level /\ w_count \in Nat /\ LEVELS \in Nat
      /\ w_state \in {"S_READY", "S_REQ", "S_WAIT", "S_DONE", "S_ERROR"}
  BY WalkerTypes, LevelsAssumption DEF TypeOK, Walker!TypeOK, Level
<1> DEFINE P == Ptes(w_req)
           Q == WalkPtes(mem, SATP, w_req')
<1> USE DEF WalkAgrees
<1>2. WalkAgrees' <=>
        (w_state' # "S_READY" =>
          /\ \A l \in 0 .. w_count'-1 : Descends(Q[l])
          /\ w_state' \in {"S_REQ", "S_WAIT"} => w_pte'.ppn = IF w_count' = 0 THEN SATP ELSE Q[w_count'-1].ppn
          /\ w_state' = "S_WAIT" => dmem_q' = Q[w_count']
          /\ w_state' = "S_DONE" => IsLeaf(w_pte', w_count') /\ w_pte' = Q[w_count']
          /\ w_state' = "S_ERROR" =>
               /\ ~Descends(Q[w_count']) \/ w_count' = LEVELS-1
               /\ ~IsLeaf(Q[w_count'], w_count')
               /\ ~(w_pte'.v /\ (w_pte'.r \/ w_pte'.w \/ w_pte'.x)))
  BY DEF Ptes, IsLeaf, Descends, PTE_TABLE
<1>3. w_req' = w_req => Q = P
  BY DEF Ptes
<1>4. P[w_count] \in Pte /\ SupportedPte(P[w_count])
  BY <1>1, PtesSupported
<1>5. w_state \in {"S_REQ", "S_WAIT"} => Word(mem, Walker!pte_addr) = P[w_count]
  BY PteAddrAgrees
<1>6. CASE Walker!Ready(treq, [satp |-> SATP, flush |-> flush])
  <2>1. w_state' = "S_READY" \/ (w_state' = "S_REQ" /\ w_count' = 0 /\ w_pte' = [w_pte EXCEPT !.ppn = SATP])
    BY <1>6 DEF Walker!Ready
  <2>2. [w_pte EXCEPT !.ppn = SATP].ppn = SATP
    BY <1>1 DEF Pte
  <2> HIDE DEF P, Q
  <2>3. w_state' = "S_REQ" => \A l \in 0 .. w_count'-1 : Descends(Q[l])
    BY <2>1
  <2> HIDE DEF WalkAgrees
  <2>4. w_state' = "S_REQ" => w_pte'.ppn = IF w_count' = 0 THEN SATP ELSE Q[w_count'-1].ppn
    BY <2>1, <2>2
  <2> QED BY <1>2, <2>1, <2>3, <2>4
<1>7. CASE Walker!CacheHit
  <2>1. /\ w_state = "S_REQ" /\ Walker!pte_cache_hit /\ w_count' = w_count + 1
        /\ w_pte' = [w_pte EXCEPT !.ppn = w_cache[Walker!hit_idx].data] /\ w_state' = w_state /\ w_req' = w_req
    BY <1>7 DEF Walker!CacheHit, Walker!cache_step
  <2>2. Walker!hit_idx \in Walker!hit_vector
    <3>1. Walker!hit_vector \subseteq Nat /\ Walker!hit_vector # {}
      BY <2>1, PtwCacheAssumption DEF Walker!hit_vector, Walker!Slot, Walker!pte_cache_hit
    <3> QED BY <2>1, <3>1, FirstMember DEF Walker!hit_idx, Walker!First, First
  <2>3. PTE_TABLE(P[w_count]) /\ w_cache[Walker!hit_idx].data = P[w_count].ppn
    BY <1>5, <2>1, <2>2 DEF Walker!hit_vector, CacheAgrees
  <2>4. Descends(P[w_count])
    BY <1>4, <2>3, TablesDescend
  <2>5. w_pte'.ppn = P[w_count].ppn
    BY <1>1, <2>1, <2>3 DEF Pte
  <2>6. Q = P
    BY <1>3, <2>1
  <2> HIDE DEF P, Q
  <2>7. \A l \in 0 .. w_count'-1 : Descends(P[l])
    <3> SUFFICES ASSUME NEW l \in 0 .. w_count'-1 PROVE Descends(P[l])
      OBVIOUS
    <3>1. l = w_count \/ l \in 0 .. w_count-1
      BY <1>1, <2>1
    <3> QED BY <2>1, <2>4, <3>1 DEF P
  <2>8. w_count' # 0 /\ w_count'-1 = w_count
    BY <1>1, <2>1
  <2> QED BY <1>2, <2>1, <2>5, <2>6, <2>7, <2>8
<1>8. CASE Walker!Request(dmem)
  <2>1. /\ w_state = "S_REQ" /\ w_state' \in {"S_REQ", "S_WAIT"} /\ w_count' = w_count /\ w_req' = w_req /\ w_pte' = w_pte
    BY <1>8 DEF Walker!Request
  <2>2. Q = P
    BY <1>3, <2>1
  <2>3. w_state' = "S_WAIT" => dmem_q' = P[w_count]
    BY <1>5, <2>1
  <2>4. (\A l \in 0 .. w_count-1 : Descends(P[l])) /\ w_pte.ppn = IF w_count = 0 THEN SATP ELSE P[w_count-1].ppn
    BY <2>1
  <2> HIDE DEF P, Q
  <2> QED BY <1>2, <2>1, <2>2, <2>3, <2>4
<1>9. CASE Walker!Wait(dmem)
  <2>1. w_state = "S_WAIT" /\ w_req' = w_req /\ Q = P
    BY <1>3, <1>9 DEF Walker!Wait
  <2>2. (\A l \in 0 .. w_count-1 : Descends(P[l])) /\ w_pte.ppn = IF w_count = 0 THEN SATP ELSE P[w_count-1].ppn
    BY <2>1
  <2>3. CASE ~dmem.valid
    <3>1. w_state' = w_state /\ w_count' = w_count /\ w_pte' = w_pte /\ dmem_q' = dmem_q /\ dmem_q = P[w_count]
      BY <1>9, <2>1, <2>3 DEF Walker!Wait
    <3> HIDE DEF P, Q
    <3> QED BY <1>2, <2>1, <2>2, <3>1
  <2>4. CASE dmem.valid
    <3> DEFINE p == P[w_count]
               n == [p EXCEPT !.v = Walker!pte_v(p)]
               descend == ~Walker!invalid_pte(p) /\ Walker!is_pte_table(p) /\ w_count < LEVELS-1
               done == ~Walker!invalid_pte(p) /\ Walker!is_pte_leaf(p)
    <3>1. dmem.data = p
      BY <2>4, AnswerAgrees
    <3>2. /\ w_pte' = n /\ w_count' = IF descend THEN w_count + 1 ELSE w_count
          /\ w_state' = IF descend THEN "S_REQ" ELSE IF done THEN "S_DONE" ELSE "S_ERROR"
      BY <1>9, <2>4, <3>1 DEF Walker!Wait
    <3>3. /\ n.ppn = p.ppn /\ n.r = p.r /\ n.w = p.w /\ n.x = p.x /\ n.v = Walker!pte_v(p)
          /\ p.v /\ Walker!pte_v(p) => n = p
      <4>1. p \in Pte /\ Walker!pte_v(p) \in BOOLEAN
        BY <1>4 DEF Walker!pte_v
      <4> HIDE DEF p
      <4> QED BY <4>1 DEF Pte
    <3>4. Walker!is_pte_table(p) => PTE_TABLE(p) /\ Descends(p)
      <4>1. Walker!is_pte_table(p) => PTE_TABLE(p)
        BY DEF Walker!is_pte_table, Walker!pte_v, Walker!HasPerm, PTE_TABLE
      <4> QED BY <1>4, <4>1, TablesDescend
    <3>5. Walker!is_pte_leaf(p) <=> IsLeaf(p, w_count)
      BY DEF Walker!is_pte_leaf, Walker!pte_v, Walker!HasPerm, IsLeaf
    <3>6. p.v => ~Walker!invalid_pte(p)
      BY <1>4, <3>4 DEF Walker!invalid_pte, SupportedPte, Descends
    <3>7. Walker!is_pte_leaf(p) => p.v /\ Walker!pte_v(p) /\ (p.r \/ p.w \/ p.x)
      BY DEF Walker!is_pte_leaf, Walker!pte_v, Walker!HasPerm
    <3>8. Descends(p) => Walker!is_pte_table(p) /\ p.v
      BY DEF Descends, PTE_TABLE, Walker!is_pte_table, Walker!pte_v, Walker!HasPerm
    <3>9. CASE descend
      <4>1. Descends(p) /\ w_pte'.ppn = p.ppn /\ w_count' = w_count + 1 /\ w_state' = "S_REQ"
        BY <3>2, <3>3, <3>4, <3>9
      <4> HIDE DEF n, descend, done, Q, P
      <4>2. w_count'-1 = w_count /\ w_count' # 0
        BY <1>1, <4>1
      <4>3. \A l \in 0 .. w_count'-1 : Descends(P[l])
        <5> SUFFICES ASSUME NEW l \in 0 .. w_count'-1 PROVE Descends(P[l])
          OBVIOUS
        <5>1. l = w_count \/ l \in 0 .. w_count-1
          BY <1>1, <4>1
        <5> QED BY <2>2, <4>1, <5>1
      <4> QED BY <1>2, <2>1, <4>1, <4>2, <4>3
    <3>10. CASE ~descend /\ done
      <4>1. w_state' = "S_DONE" /\ w_count' = w_count /\ w_pte' = p /\ IsLeaf(p, w_count)
        BY <3>2, <3>3, <3>5, <3>7, <3>10
      <4> HIDE DEF n, descend, done, Q, P
      <4> QED BY <1>2, <2>1, <2>2, <4>1
    <3>11. CASE ~descend /\ ~done
      <4>1. w_state' = "S_ERROR" /\ w_count' = w_count /\ w_pte' = n
        BY <3>2, <3>11
      <4>2. ~IsLeaf(p, w_count)
        BY <3>5, <3>6, <3>7, <3>11
      <4>3. ~Descends(p) \/ w_count = LEVELS-1
        BY <1>1, <3>6, <3>8, <3>11 DEF Level
      <4>4. ~(n.v /\ (n.r \/ n.w \/ n.x))
        BY <3>3, <3>5, <4>2 DEF Walker!is_pte_leaf, Walker!HasPerm
      <4> HIDE DEF n, descend, done, Q, P
      <4> QED BY <1>2, <2>1, <2>2, <4>1, <4>2, <4>3, <4>4
    <3> QED BY <3>9, <3>10, <3>11
  <2> QED BY <2>3, <2>4
<1>10. CASE Walker!Answer
  BY <1>2, <1>10 DEF Walker!Answer
<1> QED BY <1>6, <1>7, <1>8, <1>9, <1>10 DEF Walker!Cycle

(* The level at which the walker answers is the one at which the reference *)
(* walk stops.                                                             *)
LEMMA AnswerLevel ==
  ASSUME TypeOK, WalkAgrees, w_state \in {"S_DONE", "S_ERROR"}
  PROVE  LeafLevel(w_req) = w_count
<1> DEFINE P == Ptes(w_req)
           L == WalkLevel(P)
<1>1. L \in Level /\ (~Descends(P[L]) \/ L = LEVELS-1) /\ \A l \in Level : ~Descends(P[l]) \/ l = LEVELS-1 => L <= l
  BY WalkLevelType
<1>2. w_count \in Level /\ Level \subseteq Nat /\ LEVELS \in Nat
  BY WalkerTypes, LevelsAssumption DEF TypeOK, Walker!TypeOK, Level
<1>3. ~Descends(P[w_count]) \/ w_count = LEVELS-1
  BY DEF WalkAgrees, IsLeaf, Descends, PTE_TABLE
<1>4. \A l \in 0 .. w_count-1 : Descends(P[l])
  BY DEF WalkAgrees
<1>5. L <= w_count
  BY <1>1, <1>2, <1>3
<1> HIDE DEF P, L
<1>6. ~(L < w_count)
  <2> SUFFICES ASSUME L < w_count PROVE FALSE
    OBVIOUS
  <2>1. L \in 0 .. w_count-1 /\ L # LEVELS-1
    BY <1>1, <1>2 DEF Level
  <2> QED BY <1>1, <1>4, <2>1
<1>7. L = w_count
  BY <1>1, <1>2, <1>5, <1>6
<1> QED BY <1>7 DEF LeafLevel, L, P

(* An entry that an answer of the walker fills holds what the reference    *)
(* walk ends at.                                                           *)
LEMMA FilledAgrees ==
  ASSUME TypeOK, SupportedTables, WalkAgrees, w_state \in {"S_DONE", "S_ERROR"}, NEW e,
         e.vpn = w_req, e.level = w_count, e.valid = ~Walker!resp.error, e.ppn = Walker!resp_ppn,
         e.access = w_pte.a, e.dirty = w_pte.d,
         e.perms \subseteq ITlb!Perm,
         "ur" \in e.perms <=> w_pte.v /\ w_pte.r /\ w_pte.u,
         "uw" \in e.perms <=> w_pte.v /\ w_pte.w /\ w_pte.u,
         "ux" \in e.perms <=> w_pte.v /\ w_pte.x /\ w_pte.u,
         "sr" \in e.perms <=> w_pte.v /\ w_pte.r /\ ~w_pte.u,
         "sw" \in e.perms <=> w_pte.v /\ w_pte.w /\ ~w_pte.u,
         "sx" \in e.perms <=> w_pte.v /\ w_pte.x /\ ~w_pte.u
  PROVE  Agrees(e)
<1> DEFINE pte == Ptes(w_req)[w_count]
<1>1. LeafLevel(w_req) = w_count
  BY AnswerLevel
<1>2. w_count \in Level /\ Level \subseteq Nat /\ w_pte \in Pte /\ pte \in Pte /\ SupportedPte(pte)
  <2>1. w_count \in Level /\ w_pte \in Pte
    BY WalkerTypes DEF TypeOK, Walker!TypeOK
  <2>2. Level \subseteq Nat
    BY LevelsAssumption DEF Level
  <2> QED BY <2>1, <2>2, PtesSupported
<1>3. Agrees(e) <=>
        IF IsLeaf(pte, w_count)
          THEN /\ e.valid /\ e.access = pte.a /\ e.dirty = pte.d
               /\ PermsOf(e.perms, pte) /\ \A k \in 1 .. w_count+1 : e.ppn[k] = pte.ppn[k]
          ELSE ~e.valid /\ e.perms = {}
  BY <1>1 DEF Agrees, AgreesOn
<1>4. CASE w_state = "S_DONE"
  <2>1. w_pte = pte /\ IsLeaf(pte, w_count)
    BY <1>4 DEF WalkAgrees
  <2>2. e.valid
    BY <1>4 DEF Walker!resp
  <2> HIDE DEF pte
  <2>3. PermsOf(e.perms, pte)
    BY <2>1 DEF PermsOf, IsLeaf
  <2>4. ASSUME NEW k \in 1 .. w_count+1 PROVE e.ppn[k] = pte.ppn[k]
    <3>1. k \in Field /\ ~(k > w_count+1) /\ k \in Nat
      BY <1>2, LevelsAssumption DEF Field, Level
    <3>2. e.ppn[k] = IF k = 1 THEN pte.ppn[1] % RADIX ELSE pte.ppn[k]
      BY <2>1, <3>1, WalkerTypes DEF Walker!resp_ppn
    <3>3. pte.ppn[1] % RADIX = pte.ppn[1]
      <4>1. pte.ppn[1] \in Nat /\ RADIX \in Nat /\ pte.ppn[1] < RADIX
        BY <1>2, LevelsAssumption, RadixAssumption, PpnTopAssumption DEF Pte, Ppn, Field, SupportedPte
      <4> QED BY <4>1, ModSmall
    <3> QED BY <3>2, <3>3
  <2> QED BY <1>3, <2>1, <2>2, <2>3, <2>4
<1>5. CASE w_state = "S_ERROR"
  <2>1. ~e.valid
    BY <1>5 DEF Walker!resp
  <2>2. ~IsLeaf(pte, w_count) /\ ~(w_pte.v /\ (w_pte.r \/ w_pte.w \/ w_pte.x))
    BY <1>5 DEF WalkAgrees
  <2>3. e.perms = {}
    BY <2>2 DEF ITlb!Perm
  <2> QED BY <1>3, <2>1, <2>2, <2>3
<1> QED BY <1>4, <1>5

(* One clock cycle of the instruction TLB: what it fills agrees.           *)
LEMMA ITlbAgrees ==
  ASSUME TypeOK, WalkOwnership, SupportedTables, WalkAgrees,
         NEW rq, NEW st, NEW flush \in BOOLEAN,
         ITlb!Cycle(rq, ToTlb(Arb!itlb_resp(Walker!resp), flush), st),
         NEW i \in ITlb!Entry, i_entries'[i].nempty,
         i_entries[i].nempty => Agrees(i_entries[i])
  PROVE  Agrees(i_entries'[i])
<1> DEFINE pc == ToTlb(Arb!itlb_resp(Walker!resp), flush)
<1>1. pc \in PtwComm /\ pc.resp = Arb!itlb_resp(Walker!resp)
  BY ToTlbType DEF TypeOK, ToTlb
<1>2. ITlb!TypeOK /\ ITlb!PtwComm = PtwComm /\ ITlb!PtwResp = PtwResp
  BY TlbTypes DEF TypeOK, ITlb!PtwResp, ITlb!Pte, ITlb!Ppn, ITlb!Level, ITlb!Field, PtwResp, Pte, Ppn, Level, Field
<1>3. \/ i_entries'[i] = i_entries[i]
      \/ i_state = "WAIT_RESPONSE" /\ pc.resp.valid /\ i_entries'[i] = ITlb!FilledEntry(pc.resp)
  <2> HIDE DEF pc
  <2>1. ITlb!Cycle(rq, pc, st)
    BY DEF pc
  <2> QED BY <1>1, <1>2, <2>1, ITlb!EntriesNext, LevelsAssumption, RadixAssumption, PpnTopAssumption,
             TlbEntriesAssumption, PtwCacheAssumption
<1>4. CASE i_entries'[i] = i_entries[i]
  BY <1>4
<1>5. CASE i_state = "WAIT_RESPONSE" /\ pc.resp.valid /\ i_entries'[i] = ITlb!FilledEntry(pc.resp)
  <2>1. a_state = "SERVING_iTLB" /\ pc.resp = Walker!resp
    BY <1>1, <1>5, TlbTypes DEF Arb!itlb_resp, NoResp
  <2>2. w_state \in {"S_DONE", "S_ERROR"}
    <3>1. Walker!resp.valid
      BY <1>5, <2>1
    <3> QED BY <3>1 DEF Walker!resp
  <2>3. w_req = i_req.vpn
    BY <2>1, <2>2 DEF WalkOwnership
  <2> DEFINE resp == Walker!resp
             e == ITlb!FilledEntry(resp)
  <2>4. resp \in PtwResp
    BY RespType DEF TypeOK
  <2>5. w_pte \in Pte
    BY WalkerTypes DEF TypeOK, Walker!TypeOK
  <2>6. /\ resp.level = w_count /\ resp.pte.ppn = Walker!resp_ppn /\ resp.pte.a = w_pte.a /\ resp.pte.d = w_pte.d
        /\ resp.pte.v = w_pte.v /\ resp.pte.r = w_pte.r /\ resp.pte.w = w_pte.w /\ resp.pte.x = w_pte.x
        /\ resp.pte.u = w_pte.u
    BY <2>5 DEF Walker!resp, Pte
  <2> HIDE DEF resp
  <2>7. /\ e.vpn = w_req /\ e.level = w_count /\ e.valid = ~resp.error /\ e.ppn = Walker!resp_ppn
        /\ e.access = w_pte.a /\ e.dirty = w_pte.d
    BY <2>3, <2>6 DEF ITlb!FilledEntry
  <2>8. /\ "ur" \in e.perms <=> w_pte.v /\ w_pte.r /\ w_pte.u
        /\ "uw" \in e.perms <=> w_pte.v /\ w_pte.w /\ w_pte.u
        /\ "ux" \in e.perms <=> w_pte.v /\ w_pte.x /\ w_pte.u
        /\ "sr" \in e.perms <=> w_pte.v /\ w_pte.r /\ ~w_pte.u
        /\ "sw" \in e.perms <=> w_pte.v /\ w_pte.w /\ ~w_pte.u
        /\ "sx" \in e.perms <=> w_pte.v /\ w_pte.x /\ ~w_pte.u
        /\ e.perms \subseteq ITlb!Perm
    BY <1>2, <2>4, <2>6, ITlb!FilledPerms, LevelsAssumption, RadixAssumption, PpnTopAssumption,
       TlbEntriesAssumption, PtwCacheAssumption
  <2> HIDE DEF e
  <2>9. Agrees(e)
    BY <2>2, <2>7, <2>8, FilledAgrees DEF resp
  <2> QED BY <1>5, <2>1, <2>9 DEF e, resp
<1> QED BY <1>3, <1>4, <1>5

(* One clock cycle of the data TLB: what it fills agrees.                  *)
LEMMA DTlbAgrees ==
  ASSUME TypeOK, WalkOwnership, SupportedTables, WalkAgrees,
         NEW rq, NEW st, NEW flush \in BOOLEAN,
         DTlb!Cycle(rq, ToTlb(Arb!dtlb_resp(Walker!resp), flush), st),
         NEW i \in DTlb!Entry, d_entries'[i].nempty,
         d_entries[i].nempty => Agrees(d_entries[i])
  PROVE  Agrees(d_entries'[i])
<1> DEFINE pc == ToTlb(Arb!dtlb_resp(Walker!resp), flush)
<1>1. pc \in PtwComm /\ pc.resp = Arb!dtlb_resp(Walker!resp)
  BY ToTlbType DEF TypeOK, ToTlb
<1>2. DTlb!TypeOK /\ DTlb!PtwComm = PtwComm /\ DTlb!PtwResp = PtwResp
  BY TlbTypes DEF TypeOK, DTlb!PtwResp, DTlb!Pte, DTlb!Ppn, DTlb!Level, DTlb!Field, PtwResp, Pte, Ppn, Level, Field
<1>3. \/ d_entries'[i] = d_entries[i]
      \/ d_state = "WAIT_RESPONSE" /\ pc.resp.valid /\ d_entries'[i] = DTlb!FilledEntry(pc.resp)
  <2> HIDE DEF pc
  <2>1. DTlb!Cycle(rq, pc, st)
    BY DEF pc
  <2> QED BY <1>1, <1>2, <2>1, DTlb!EntriesNext, LevelsAssumption, RadixAssumption, PpnTopAssumption,
             TlbEntriesAssumption, PtwCacheAssumption
<1>4. CASE d_entries'[i] = d_entries[i]
  BY <1>4
<1>5. CASE d_state = "WAIT_RESPONSE" /\ pc.resp.valid /\ d_entries'[i] = DTlb!FilledEntry(pc.resp)
  <2>1. a_state = "SERVING_dTLB" /\ pc.resp = Walker!resp
    BY <1>1, <1>5, TlbTypes DEF Arb!dtlb_resp, NoResp
  <2>2. w_state \in {"S_DONE", "S_ERROR"}
    <3>1. Walker!resp.valid
      BY <1>5, <2>1
    <3> QED BY <3>1 DEF Walker!resp
  <2>3. w_req = d_req.vpn
    BY <2>1, <2>2 DEF WalkOwnership
  <2> DEFINE resp == Walker!resp
             e == DTlb!FilledEntry(resp)
  <2>4. resp \in PtwResp
    BY RespType DEF TypeOK
  <2>5. w_pte \in Pte
    BY WalkerTypes DEF TypeOK, Walker!TypeOK
  <2>6. /\ resp.level = w_count /\ resp.pte.ppn = Walker!resp_ppn /\ resp.pte.a = w_pte.a /\ resp.pte.d = w_pte.d
        /\ resp.pte.v = w_pte.v /\ resp.pte.r = w_pte.r /\ resp.pte.w = w_pte.w /\ resp.pte.x = w_pte.x
        /\ resp.pte.u = w_pte.u
    BY <2>5 DEF Walker!resp, Pte
  <2> HIDE DEF resp
  <2>7. /\ e.vpn = w_req /\ e.level = w_count /\ e.valid = ~resp.error /\ e.ppn = Walker!resp_ppn
        /\ e.access = w_pte.a /\ e.dirty = w_pte.d
    BY <2>3, <2>6 DEF DTlb!FilledEntry
  <2>8. /\ "ur" \in e.perms <=> w_pte.v /\ w_pte.r /\ w_pte.u
        /\ "uw" \in e.perms <=> w_pte.v /\ w_pte.w /\ w_pte.u
        /\ "ux" \in e.perms <=> w_pte.v /\ w_pte.x /\ w_pte.u
        /\ "sr" \in e.perms <=> w_pte.v /\ w_pte.r /\ ~w_pte.u
        /\ "sw" \in e.perms <=> w_pte.v /\ w_pte.w /\ ~w_pte.u
        /\ "sx" \in e.perms <=> w_pte.v /\ w_pte.x /\ ~w_pte.u
        /\ e.perms \subseteq DTlb!Perm
    BY <1>2, <2>4, <2>6, DTlb!FilledPerms, LevelsAssumption, RadixAssumption, PpnTopAssumption,
       TlbEntriesAssumption, PtwCacheAssumption
  <2> HIDE DEF e
  <2>9. Agrees(e)
    <3>1. e.perms \subseteq ITlb!Perm
      BY <2>8 DEF ITlb!Perm, DTlb!Perm
    <3> QED BY <2>2, <2>7, <2>8, <3>1, FilledAgrees DEF resp
  <2> QED BY <1>5, <2>1, <2>9 DEF e, resp
<1> QED BY <1>3, <1>4, <1>5

(* A flush between walks leaves nothing behind: neither in the TLBs, which *)
(* are no larger than its mask, nor in the PTE cache.                      *)
LEMMA FlushEmpties ==
  ASSUME TypeOK, FlushBetweenWalks, NEW irq, NEW drq, NEW st, NEW dmem \in DcacheInputs, TRUE \in FlushInputs,
         Cycle(irq, drq, st, TRUE, dmem)
  PROVE  /\ w_state = "S_READY"
         /\ \A i \in Walker!Slot : ~w_cache'[i].valid
         /\ \A i \in ITlb!Entry : ~i_entries'[i].nempty
         /\ \A i \in DTlb!Entry : ~d_entries'[i].nempty
<1> DEFINE ipc == ToTlb(Arb!itlb_resp(Walker!resp), TRUE)
           dpc == ToTlb(Arb!dtlb_resp(Walker!resp), TRUE)
<1>1. w_state = "S_READY"
  BY DEF FlushInputs, FlushBetweenWalks
<1>2. \A i \in Walker!Slot : ~w_cache'[i].valid
  <2>1. Walker!UpdateCache(dmem, [satp |-> SATP, flush |-> TRUE])
    BY DEF Cycle, Walker!Cycle
  <2>2. ~Walker!cache_fill(dmem)
    BY <1>1 DEF DcacheInputs, Walker!cache_fill
  <2>3. w_cache \in [Walker!Slot -> Walker!CacheEntry]
    BY DEF TypeOK, Walker!TypeOK
  <2> QED BY <1>1, <2>1, <2>2, <2>3 DEF Walker!UpdateCache, Walker!CacheEntry
<1>3. ipc \in PtwComm /\ ipc.invalidate /\ dpc \in PtwComm /\ dpc.invalidate
  BY ToTlbType DEF TypeOK, ToTlb
<1>4. ITlb!Cycle(irq, ipc, st) /\ DTlb!Cycle(drq, dpc, st)
  BY DEF Cycle
<1> HIDE DEF ipc, dpc
<1>5. ASSUME NEW i \in ITlb!Entry PROVE ~i_entries'[i].nempty
  <2>1. i \in ITlb!invalidate_mask
    BY TlbEntriesAssumption DEF FlushBetweenWalks, ITlb!invalidate_mask, ITlb!Entry
  <2>2. ITlb!TypeOK
    BY DEF TypeOK
  <2> QED BY <1>3, <1>4, <2>1, <2>2, TlbTypes, ITlb!EntriesNext, LevelsAssumption, RadixAssumption, PpnTopAssumption,
             TlbEntriesAssumption, PtwCacheAssumption
<1>6. ASSUME NEW i \in DTlb!Entry PROVE ~d_entries'[i].nempty
  <2>1. i \in DTlb!invalidate_mask
    BY TlbEntriesAssumption DEF FlushBetweenWalks, DTlb!invalidate_mask, DTlb!Entry
  <2>2. DTlb!TypeOK
    BY DEF TypeOK
  <2> QED BY <1>3, <1>4, <2>1, <2>2, TlbTypes, DTlb!EntriesNext, LevelsAssumption, RadixAssumption, PpnTopAssumption,
             TlbEntriesAssumption, PtwCacheAssumption
<1> QED BY <1>1, <1>2, <1>5, <1>6

(* Entries, the PTE cache and the walk in progress agree with the tables   *)
(* whenever software has flushed since it last wrote.                      *)
LEMMA AgreeInit == Init => AgreeInv
<1> SUFFICES ASSUME Init PROVE AgreeInv
  OBVIOUS
<1>1. w_state = "S_READY" /\ synced
  BY DEF Init, Walker!Init
<1>2. CacheAgrees /\ WalkAgrees
  BY <1>1 DEF Init, Walker!Init, CacheAgrees, WalkAgrees
<1>3. \A i \in ITlb!Entry : ~i_entries[i].nempty
  BY DEF Init, ITlb!Init, ITlb!EmptyEntry
<1>4. \A i \in DTlb!Entry : ~d_entries[i].nempty
  BY DEF Init, DTlb!Init, DTlb!EmptyEntry
<1> QED BY <1>1, <1>2, <1>3, <1>4 DEF AgreeInv

(* Every step keeps that.                                                  *)
LEMMA AgreeStep ==
  ASSUME TypeOK, WalkOwnership, AgreeInv, SupportedTables, StaticTables \/ FlushBetweenWalks, [Next]_vars
  PROVE  AgreeInv'
<1>1. CASE WriteTable
  BY <1>1, MaxWritesAssumption DEF WriteTable, AgreeInv, StaticTables, TypeOK
<1>2. CASE UNCHANGED vars
  BY <1>2 DEF vars, iVars, dVars, wVars, memVars, histVars, AgreeInv, CacheAgrees, WalkAgrees, Agrees, AgreesOn, LeafLevel, Ptes,
              ITlb!Entry, DTlb!Entry, Walker!Slot
<1>3. ASSUME NEW irq \in IReqs, NEW drq \in DReqs, NEW st \in Statuses,
             NEW flush \in FlushInputs, NEW dmem \in DcacheInputs,
             Cycle(irq, drq, st, flush, dmem)
      PROVE  AgreeInv'
  <2>1. flush \in BOOLEAN /\ mem' = mem /\ synced' = (synced \/ flush)
    BY <1>3 DEF FlushInputs, Cycle, UpdateHistory
  <2>2. ASSUME CacheAgrees', WalkAgrees',
               \A i \in ITlb!Entry : i_entries'[i].nempty => Agrees(i_entries'[i]),
               \A i \in DTlb!Entry : d_entries'[i].nempty => Agrees(d_entries'[i])
        PROVE  AgreeInv'
    <3>1. /\ \A i \in ITlb!Entry : Agrees(i_entries[i])' <=> Agrees(i_entries'[i])
          /\ \A i \in DTlb!Entry : Agrees(d_entries[i])' <=> Agrees(d_entries'[i])
      BY <2>1 DEF Agrees, AgreesOn, LeafLevel, Ptes
    <3>2. StaticTables => synced'
      BY <2>1 DEF AgreeInv
    <3> QED BY <2>2, <3>1, <3>2 DEF AgreeInv, StaticTables
  <2>3. /\ Walker!Cycle(Arb!tlb_ptw_req(ireq, dreq), dmem, [satp |-> SATP, flush |-> flush])
        /\ Walker!UpdateCache(dmem, [satp |-> SATP, flush |-> flush])
        /\ dmem_q' = IF w_state = "S_REQ" /\ w_state' = "S_WAIT" THEN Word(mem, Walker!pte_addr)
                     ELSE IF dmem.valid THEN ZeroPte ELSE dmem_q
        /\ ITlb!Cycle(irq, ToTlb(Arb!itlb_resp(Walker!resp), flush), st)
        /\ DTlb!Cycle(drq, ToTlb(Arb!dtlb_resp(Walker!resp), flush), st)
    BY <1>3 DEF Cycle, Walker!Cycle
  <2>4. CASE synced
    <3>1. /\ CacheAgrees /\ WalkAgrees
          /\ \A i \in ITlb!Entry : i_entries[i].nempty => Agrees(i_entries[i])
          /\ \A i \in DTlb!Entry : d_entries[i].nempty => Agrees(d_entries[i])
      BY <2>4 DEF AgreeInv
    <3>2. CacheAgrees'
      BY <2>1, <2>3, <3>1, CacheCycle
    <3>3. WalkAgrees'
      BY <2>1, <2>3, <3>1, WalkCycle
    <3>4. \A i \in ITlb!Entry : i_entries'[i].nempty => Agrees(i_entries'[i])
      BY <2>1, <2>3, <3>1, ITlbAgrees
    <3>5. \A i \in DTlb!Entry : d_entries'[i].nempty => Agrees(d_entries'[i])
      BY <2>1, <2>3, <3>1, DTlbAgrees
    <3> QED BY <2>2, <3>2, <3>3, <3>4, <3>5
  <2>5. CASE ~synced /\ flush
    <3>1. FlushBetweenWalks /\ flush = TRUE
      BY <2>5, <2>1 DEF AgreeInv
    <3>2. /\ w_state = "S_READY"
          /\ \A i \in Walker!Slot : ~w_cache'[i].valid
          /\ \A i \in ITlb!Entry : ~i_entries'[i].nempty
          /\ \A i \in DTlb!Entry : ~d_entries'[i].nempty
      BY <1>3, <3>1, FlushEmpties
    <3>3. CacheAgrees'
      BY <3>2 DEF CacheAgrees, Walker!Slot
    <3>4. WalkAgrees'
      <4>1. WalkAgrees
        BY <3>2 DEF WalkAgrees
      <4> QED BY <2>1, <2>3, <3>2, <4>1, WalkCycle
    <3> QED BY <2>2, <3>2, <3>3, <3>4
  <2>6. CASE ~synced /\ ~flush
    BY <2>1, <2>6 DEF AgreeInv, StaticTables
  <2> QED BY <2>4, <2>5, <2>6
<1> QED BY <1>1, <1>2, <1>3 DEF Next, ClockCycle

-----------------------------------------------------------------------------
(* An entry answers for every page it covers as the reference walk does.   *)

(* An entry that agrees with the walk of its page agrees with that of any  *)
(* page it covers.                                                         *)
LEMMA CoveredAgrees ==
  ASSUME NEW e, Agrees(e), NEW vpn, \A k \in 1 .. e.level+1 : e.vpn[k] = vpn[k]
  PROVE  AgreesOn(e, vpn)
<1> DEFINE L == LeafLevel(e.vpn)
           P == Ptes(e.vpn)
           Q == Ptes(vpn)
<1>1. e.level = L /\ L \in Nat
  BY WalkLevelType, LevelsAssumption DEF Agrees, AgreesOn, LeafLevel, Level
<1>2. LeafLevel(vpn) = L /\ \A l \in 0 .. L : Q[l] = P[l]
  BY <1>1, SharedWalk DEF Ptes, LeafLevel
<1>3. Q[L] = P[L]
  BY <1>1, <1>2
<1> QED BY <1>2, <1>3 DEF Agrees, AgreesOn

(* Whether the reference walk grants an access.                            *)
LEMMA GrantedLeaf ==
  ASSUME TypeOK, SupportedTables, NEW vpn, NEW type \in Access, NEW priv \in BOOLEAN, NEW st \in Status
  PROVE  LET l   == LeafLevel(vpn)
             pte == Ptes(vpn)[l]
         IN  WalkGrants(mem, SATP, vpn, type, priv, st) <=>
               /\ IsLeaf(pte, l) /\ pte.a
               /\ IF pte.u THEN priv => type # "FETCH" /\ st.sum ELSE priv
               /\ type = "FETCH" => pte.x
               /\ type = "LOAD" => pte.r \/ (st.mxr /\ pte.x)
               /\ type = "STORE" => pte.w /\ pte.d
<1> DEFINE l   == LeafLevel(vpn)
           pte == Ptes(vpn)[l]
<1>1. l \in Level
  BY WalkLevelType DEF LeafLevel
<1>2. SupportedPte(pte)
  BY <1>1, PtesSupported
<1>3. WalkGrants(mem, SATP, vpn, type, priv, st) <=> Permits(pte, l, type, priv, st)
  BY DEF WalkGrants, LeafLevel, Ptes
<1> HIDE DEF l, pte
<1>4. Permits(pte, l, type, priv, st) <=>
        /\ IsLeaf(pte, l) /\ pte.a
        /\ IF pte.u THEN priv => type # "FETCH" /\ st.sum ELSE priv
        /\ type = "FETCH" => pte.x
        /\ type = "LOAD" => pte.r \/ (st.mxr /\ pte.x)
        /\ type = "STORE" => pte.w /\ pte.d
  BY <1>2 DEF Permits, IsLeaf, SupportedPte, PTE_TABLE, Access
<1> QED BY <1>3, <1>4 DEF l, pte

(* A fetch that hits an entry which agrees with the tables.                *)
LEMMA FetchAnswer ==
  ASSUME TypeOK, SupportedTables, \A i \in ITlb!Entry : i_entries[i].nempty => Agrees(i_entries[i]),
         NEW rq \in Probes, NEW st \in Status, ~rq.store, ~ITlb!tlb_miss(rq)
  PROVE  /\ FetchFault(rq, st) <=> ~WalkGrants(mem, SATP, rq.vpn, "FETCH", rq.priv, st)
         /\ ~FetchFault(rq, st) => ITlb!resp_ppn(rq) = WalkPpn(mem, SATP, rq.vpn)
<1> DEFINE e == ITlb!Selected(rq.vpn)
           l == LeafLevel(rq.vpn)
           pte == Ptes(rq.vpn)[l]
<1>1. rq.vm_enable /\ rq.priv \in BOOLEAN /\ ITlb!hit_cam(rq.vpn)
  BY DEF Probes, CacheReq, ITlb!tlb_miss
<1>2. AgreesOn(e, rq.vpn)
  <2>1. PICK i \in ITlb!Entry : e = i_entries[i] /\ ITlb!Covers(i_entries[i], rq.vpn)
    BY <1>1, ITlb!HitCovers, LevelsAssumption, RadixAssumption, PpnTopAssumption,
       TlbEntriesAssumption, PtwCacheAssumption
  <2>2. Agrees(e) /\ \A k \in 1 .. e.level+1 : e.vpn[k] = rq.vpn[k]
    BY <2>1 DEF ITlb!Covers
  <2> HIDE DEF e
  <2> QED BY <2>2, CoveredAgrees
<1>3. FetchFault(rq, st) <=> ~ITlb!exec_ok(e, rq.priv) \/ (~e.access /\ e.valid)
  BY <1>1 DEF FetchFault, ITlb!xcpt_if, ITlb!tlb_hit, ITlb!store_hit, ITlb!tlb_entry_access_is_zero
<1>4. pte \in Pte /\ l \in Level /\ l \in Nat
  BY WalkLevelType, PtesSupported, LevelsAssumption DEF LeafLevel, Level
<1>5. /\ e.level = l
      /\ IsLeaf(pte, l) => /\ e.valid /\ e.access = pte.a /\ PermsOf(e.perms, pte)
                           /\ \A k \in 1 .. l+1 : e.ppn[k] = pte.ppn[k]
      /\ ~IsLeaf(pte, l) => ~e.valid /\ e.perms = {}
  BY <1>2 DEF AgreesOn
<1>6. WalkGrants(mem, SATP, rq.vpn, "FETCH", rq.priv, st) <=>
        IsLeaf(pte, l) /\ pte.a /\ (IF pte.u THEN ~rq.priv ELSE rq.priv) /\ pte.x
  BY <1>1, GrantedLeaf DEF Access
<1>7. ITlb!resp_ppn(rq) = [k \in Field |-> IF k <= e.level+1 THEN e.ppn[k] ELSE rq.vpn[k]]
  BY <1>1 DEF ITlb!resp_ppn, ITlb!tlb_miss, ITlb!tlb_translates, ITlb!Field, Field
<1>8. WalkPpn(mem, SATP, rq.vpn) = [k \in Field |-> IF k <= l+1 THEN pte.ppn[k] ELSE rq.vpn[k]]
  BY DEF WalkPpn, Ptes, LeafLevel
<1> HIDE DEF e, l, pte
<1>9. FetchFault(rq, st) <=> ~WalkGrants(mem, SATP, rq.vpn, "FETCH", rq.priv, st)
  BY <1>1, <1>3, <1>4, <1>5, <1>6 DEF ITlb!exec_ok, PermsOf, Pte
<1>10. ASSUME ~FetchFault(rq, st) PROVE ITlb!resp_ppn(rq) = WalkPpn(mem, SATP, rq.vpn)
  <2>1. IsLeaf(pte, l)
    BY <1>6, <1>9, <1>10
  <2>2. \A k \in Field : k <= l+1 => e.ppn[k] = pte.ppn[k]
    BY <1>4, <1>5, <2>1 DEF Field
  <2> QED BY <1>5, <1>7, <1>8, <2>2
<1> QED BY <1>9, <1>10

(* A load or a store that hits an entry which agrees with the tables.      *)
LEMMA DataAnswer ==
  ASSUME TypeOK, SupportedTables, \A i \in DTlb!Entry : d_entries[i].nempty => Agrees(d_entries[i]),
         NEW rq \in Probes, NEW st \in Status, ~DTlb!tlb_miss(rq)
  PROVE  /\ DataFault(rq, st) <=> ~WalkGrants(mem, SATP, rq.vpn, DataType(rq), rq.priv, st)
         /\ ~DataFault(rq, st) => DTlb!resp_ppn(rq) = WalkPpn(mem, SATP, rq.vpn)
<1> DEFINE e == DTlb!Selected(rq.vpn)
           l == LeafLevel(rq.vpn)
           pte == Ptes(rq.vpn)[l]
           wok == DTlb!write_ok(e, rq.priv, st)
           rok == DTlb!read_ok(e, rq.priv, st)
<1>1. rq.vm_enable /\ rq.priv \in BOOLEAN /\ rq.store \in BOOLEAN /\ DTlb!hit_cam(rq.vpn)
      /\ st.sum \in BOOLEAN /\ st.mxr \in BOOLEAN
  BY DEF Probes, CacheReq, DTlb!tlb_miss, Status
<1>2. AgreesOn(e, rq.vpn)
  <2>1. PICK i \in DTlb!Entry : e = d_entries[i] /\ DTlb!Covers(d_entries[i], rq.vpn)
    BY <1>1, DTlb!HitCovers, LevelsAssumption, RadixAssumption, PpnTopAssumption,
       TlbEntriesAssumption, PtwCacheAssumption
  <2>2. Agrees(e) /\ \A k \in 1 .. e.level+1 : e.vpn[k] = rq.vpn[k]
    BY <2>1 DEF DTlb!Covers
  <2> HIDE DEF e
  <2> QED BY <2>2, CoveredAgrees
<1>3. /\ ~rq.store => (DataFault(rq, st) <=> ~rok \/ (~e.access /\ e.valid))
      /\ rq.store => (DataFault(rq, st) <=>
                        \/ (e.dirty \/ ~wok) /\ ~(wok /\ rok)
                        \/ ~e.access /\ e.valid
                        \/ ~(e.dirty \/ ~wok) /\ e.valid)
  BY <1>1 DEF DataFault, DTlb!xcpt_ld, DTlb!xcpt_st, DTlb!tlb_hit, DTlb!store_hit,
              DTlb!tlb_entry_access_is_zero, DTlb!tlb_entry_dirty_is_zero
<1>4. pte \in Pte /\ SupportedPte(pte) /\ l \in Level /\ l \in Nat
  BY WalkLevelType, PtesSupported, LevelsAssumption DEF LeafLevel, Level
<1>5. /\ e.level = l
      /\ IsLeaf(pte, l) => /\ e.valid /\ e.access = pte.a /\ e.dirty = pte.d /\ PermsOf(e.perms, pte)
                           /\ \A k \in 1 .. l+1 : e.ppn[k] = pte.ppn[k]
      /\ ~IsLeaf(pte, l) => ~e.valid /\ e.perms = {}
  BY <1>2 DEF AgreesOn
<1>6. WalkGrants(mem, SATP, rq.vpn, DataType(rq), rq.priv, st) <=>
        /\ IsLeaf(pte, l) /\ pte.a
        /\ IF pte.u THEN rq.priv => st.sum ELSE rq.priv
        /\ ~rq.store => pte.r \/ (st.mxr /\ pte.x)
        /\ rq.store => pte.w /\ pte.d
  BY <1>1, GrantedLeaf DEF Access, DataType
<1>7. DTlb!resp_ppn(rq) = [k \in Field |-> IF k <= e.level+1 THEN e.ppn[k] ELSE rq.vpn[k]]
  BY <1>1 DEF DTlb!resp_ppn, DTlb!tlb_miss, DTlb!tlb_translates, DTlb!Field, Field
<1>8. WalkPpn(mem, SATP, rq.vpn) = [k \in Field |-> IF k <= l+1 THEN pte.ppn[k] ELSE rq.vpn[k]]
  BY DEF WalkPpn, Ptes, LeafLevel
<1> HIDE DEF e, l, pte
<1>9. DataFault(rq, st) <=> ~WalkGrants(mem, SATP, rq.vpn, DataType(rq), rq.priv, st)
  <2>1. CASE IsLeaf(pte, l)
    <3>1. wok <=> pte.w /\ (IF pte.u THEN rq.priv => st.sum ELSE rq.priv)
      BY <1>1, <1>4, <1>5, <2>1 DEF DTlb!write_ok, PermsOf, Pte
    <3>2. rok <=> (pte.r \/ (st.mxr /\ pte.x)) /\ (IF pte.u THEN rq.priv => st.sum ELSE rq.priv)
      BY <1>1, <1>4, <1>5, <2>1 DEF DTlb!read_ok, PermsOf, Pte
    <3>3. pte.w => pte.r
      BY <1>4, <2>1 DEF SupportedPte, IsLeaf
    <3> HIDE DEF wok, rok
    <3> QED BY <1>1, <1>3, <1>4, <1>5, <1>6, <2>1, <3>1, <3>2, <3>3 DEF Pte
  <2>2. CASE ~IsLeaf(pte, l)
    <3>1. ~wok /\ ~rok
      BY <1>5, <2>2 DEF DTlb!write_ok, DTlb!read_ok
    <3> HIDE DEF wok, rok
    <3> QED BY <1>1, <1>3, <1>5, <1>6, <2>2, <3>1
  <2> QED BY <2>1, <2>2
<1>10. ASSUME ~DataFault(rq, st) PROVE DTlb!resp_ppn(rq) = WalkPpn(mem, SATP, rq.vpn)
  <2>1. IsLeaf(pte, l)
    BY <1>6, <1>9, <1>10
  <2>2. \A k \in Field : k <= l+1 => e.ppn[k] = pte.ppn[k]
    BY <1>4, <1>5, <2>1 DEF Field
  <2> QED BY <1>5, <1>7, <1>8, <2>2
<1> QED BY <1>9, <1>10

(* Once software has flushed after its last write of the tables, a fetch   *)
(* that does not miss is granted exactly when the walk of Spike grants it, *)
(* and goes to the same physical page: the walker, its PTE cache, the      *)
(* arbiter and the TLB together compute the reference walk (ptw.sv,        *)
(* tlb.sv).                                                                *)
THEOREM FetchTranslated ==
  ASSUME SupportedTables, StaticTables \/ FlushBetweenWalks
  PROVE  Spec => []FetchCorrect
<1>1. TypeOK /\ WalkOwnership /\ AgreeInv /\ [Next]_vars => AgreeInv'
  BY AgreeStep
<1>2. TypeOK /\ AgreeInv => FetchCorrect
  BY FetchAnswer DEF FetchCorrect, AgreeInv
<1> QED BY <1>1, <1>2, AgreeInit, TypeCorrect, WalkOwned, PTL DEF Spec

(* The same of loads and stores, the dirty bit included.                   *)
THEOREM DataTranslated ==
  ASSUME SupportedTables, StaticTables \/ FlushBetweenWalks
  PROVE  Spec => []DataCorrect
<1>1. TypeOK /\ WalkOwnership /\ AgreeInv /\ [Next]_vars => AgreeInv'
  BY AgreeStep
<1>2. TypeOK /\ AgreeInv => DataCorrect
  BY DataAnswer DEF DataCorrect, AgreeInv
<1> QED BY <1>1, <1>2, AgreeInit, TypeCorrect, WalkOwned, PTL DEF Spec

-----------------------------------------------------------------------------
(* At most one entry maps a page.                                          *)

\* No two entries map one page, and none maps the page a walk is to be or is being made
\* for.
ITlbDistinct ==
  /\ \A i, j \in ITlb!Entry, vpn \in Vpn :
       ITlb!Covers(i_entries[i], vpn) /\ ITlb!Covers(i_entries[j], vpn) => i = j
  /\ i_state \in {"SEND_REQUEST", "WAIT_RESPONSE"} =>
       \A i \in ITlb!Entry : ~ITlb!Covers(i_entries[i], i_req.vpn)
DTlbDistinct ==
  /\ \A i, j \in DTlb!Entry, vpn \in Vpn :
       DTlb!Covers(d_entries[i], vpn) /\ DTlb!Covers(d_entries[j], vpn) => i = j
  /\ d_state \in {"SEND_REQUEST", "WAIT_RESPONSE"} =>
       \A i \in DTlb!Entry : ~DTlb!Covers(d_entries[i], d_req.vpn)

DistinctInv == synced => ITlbDistinct /\ DTlbDistinct

(* Entries that agree with the tables and share a page map the same pages. *)
LEMMA SharedCover ==
  ASSUME NEW e, NEW f, Agrees(e), Agrees(f), NEW vpn,
         \A k \in 1 .. e.level+1 : e.vpn[k] = vpn[k],
         \A k \in 1 .. f.level+1 : f.vpn[k] = vpn[k]
  PROVE  \A k \in 1 .. f.level+1 : f.vpn[k] = e.vpn[k]
<1>1. AgreesOn(e, vpn) /\ AgreesOn(f, vpn)
  BY CoveredAgrees
<1>2. e.level = f.level
  BY <1>1 DEF AgreesOn
<1> QED BY <1>2

(* One clock cycle of the instruction TLB.                                 *)
LEMMA ITlbUnique ==
  ASSUME TypeOK, WalkOwnership, SupportedTables, WalkAgrees,
         NEW rq, NEW st, NEW flush \in BOOLEAN,
         ITlb!Cycle(rq, ToTlb(Arb!itlb_resp(Walker!resp), flush), st),
         \A i \in ITlb!Entry : i_entries[i].nempty => Agrees(i_entries[i]),
         ITlbDistinct
  PROVE  ITlbDistinct'
<1> DEFINE pc == ToTlb(Arb!itlb_resp(Walker!resp), flush)
           Kept(i) == i_entries'[i] = i_entries[i]
           Filled(i) == /\ i_state = "WAIT_RESPONSE" /\ pc.resp.valid
                        /\ i_entries'[i] = ITlb!FilledEntry(pc.resp)
                        /\ \A j \in ITlb!Entry \ {i} : i_entries'[j] = i_entries[j]
<1>1. pc \in PtwComm /\ ITlb!Cycle(rq, pc, st)
  BY ToTlbType DEF TypeOK
<1>2. ITlb!TypeOK /\ ITlb!PtwComm = PtwComm
  BY TlbTypes DEF TypeOK
<1>3. \A i \in ITlb!Entry : i_entries'[i].nempty => Agrees(i_entries'[i])
  BY ITlbAgrees
<1> HIDE DEF pc
<1>4. ASSUME NEW i \in ITlb!Entry, i_entries'[i].nempty
      PROVE  Kept(i) \/ Filled(i)
  BY <1>1, <1>2, <1>4, ITlb!EntriesNext, LevelsAssumption, RadixAssumption, PpnTopAssumption,
     TlbEntriesAssumption, PtwCacheAssumption
<1>5. ASSUME NEW i \in ITlb!Entry, NEW j \in ITlb!Entry, NEW vpn \in Vpn, i # j, Filled(i),
             ITlb!Covers(i_entries'[i], vpn), ITlb!Covers(i_entries'[j], vpn)
      PROVE  FALSE
  <2> DEFINE e == i_entries'[i]
             f == i_entries[j]
  <2>1. i_entries'[j] = f /\ i_state = "WAIT_RESPONSE"
    BY <1>5
  <2>2. e.vpn = i_req.vpn
    BY <1>5 DEF ITlb!FilledEntry
  <2>3. ITlb!Covers(e, vpn) /\ ITlb!Covers(f, vpn)
    BY <1>5, <2>1
  <2>4. Agrees(e) /\ Agrees(f)
    BY <1>3, <2>1, <2>3 DEF ITlb!Covers
  <2>5. ITlb!Covers(f, e.vpn)
    <3> HIDE DEF e, f
    <3> QED BY <2>3, <2>4, SharedCover DEF ITlb!Covers
  <2> QED BY <2>1, <2>2, <2>5 DEF ITlbDistinct
<1>6. ASSUME NEW i \in ITlb!Entry, NEW j \in ITlb!Entry, NEW vpn \in Vpn, i # j,
             ITlb!Covers(i_entries'[i], vpn), ITlb!Covers(i_entries'[j], vpn)
      PROVE  FALSE
  <2>1. i_entries'[i].nempty /\ i_entries'[j].nempty
    BY <1>6 DEF ITlb!Covers
  <2>2. ~Filled(i) /\ ~Filled(j)
    <3> HIDE DEF Filled
    <3> QED BY <1>5, <1>6
  <2>3. Kept(i) /\ Kept(j)
    BY <1>4, <2>1, <2>2
  <2> QED BY <1>6, <2>3 DEF ITlbDistinct
<1>7. ASSUME i_state' \in {"SEND_REQUEST", "WAIT_RESPONSE"}, NEW i \in ITlb!Entry,
             ITlb!Covers(i_entries'[i], i_req'.vpn)
      PROVE  FALSE
  <2>1. i_entries'[i].nempty
    BY <1>7 DEF ITlb!Covers
  <2>2. /\ ~(i_state = "WAIT_RESPONSE" /\ pc.resp.valid)
        /\ \/ i_state \in {"SEND_REQUEST", "WAIT_RESPONSE"} /\ i_req' = i_req
           \/ ~ITlb!hit_cam(i_req'.vpn)
    <3>1. CASE ITlb!Idle(rq, pc, st)
      <4>1. i_state = "IDLE" /\ ITlb!tlb_miss(rq) /\ i_req'.vpn = rq.vpn
        BY <1>7, <3>1 DEF ITlb!Idle
      <4> QED BY <4>1 DEF ITlb!tlb_miss
    <3>2. CASE ITlb!SendRequest(rq, pc, st)
      BY <3>2 DEF ITlb!SendRequest
    <3>3. CASE ITlb!WaitResponse(rq, pc, st)
      BY <1>7, <3>3 DEF ITlb!WaitResponse
    <3>4. CASE ITlb!InvalidatedWaitResponse(rq, pc, st)
      BY <1>7, <3>4 DEF ITlb!InvalidatedWaitResponse
    <3> QED BY <1>1, <3>1, <3>2, <3>3, <3>4 DEF ITlb!Cycle
  <2>3. Kept(i)
    BY <1>4, <2>1, <2>2
  <2>4. ITlb!Covers(i_entries[i], i_req'.vpn)
    BY <1>7, <2>3
  <2> QED BY <2>2, <2>4 DEF ITlbDistinct, ITlb!hit_cam, ITlb!hits_cam
<1> QED BY <1>6, <1>7 DEF ITlbDistinct, ITlb!Entry

(* One clock cycle of the data TLB.                                        *)
LEMMA DTlbUnique ==
  ASSUME TypeOK, WalkOwnership, SupportedTables, WalkAgrees,
         NEW rq, NEW st, NEW flush \in BOOLEAN,
         DTlb!Cycle(rq, ToTlb(Arb!dtlb_resp(Walker!resp), flush), st),
         \A i \in DTlb!Entry : d_entries[i].nempty => Agrees(d_entries[i]),
         DTlbDistinct
  PROVE  DTlbDistinct'
<1> DEFINE pc == ToTlb(Arb!dtlb_resp(Walker!resp), flush)
           Kept(i) == d_entries'[i] = d_entries[i]
           Filled(i) == /\ d_state = "WAIT_RESPONSE" /\ pc.resp.valid
                        /\ d_entries'[i] = DTlb!FilledEntry(pc.resp)
                        /\ \A j \in DTlb!Entry \ {i} : d_entries'[j] = d_entries[j]
<1>1. pc \in PtwComm /\ DTlb!Cycle(rq, pc, st)
  BY ToTlbType DEF TypeOK
<1>2. DTlb!TypeOK /\ DTlb!PtwComm = PtwComm
  BY TlbTypes DEF TypeOK
<1>3. \A i \in DTlb!Entry : d_entries'[i].nempty => Agrees(d_entries'[i])
  BY DTlbAgrees
<1> HIDE DEF pc
<1>4. ASSUME NEW i \in DTlb!Entry, d_entries'[i].nempty
      PROVE  Kept(i) \/ Filled(i)
  BY <1>1, <1>2, <1>4, DTlb!EntriesNext, LevelsAssumption, RadixAssumption, PpnTopAssumption,
     TlbEntriesAssumption, PtwCacheAssumption
<1>5. ASSUME NEW i \in DTlb!Entry, NEW j \in DTlb!Entry, NEW vpn \in Vpn, i # j, Filled(i),
             DTlb!Covers(d_entries'[i], vpn), DTlb!Covers(d_entries'[j], vpn)
      PROVE  FALSE
  <2> DEFINE e == d_entries'[i]
             f == d_entries[j]
  <2>1. d_entries'[j] = f /\ d_state = "WAIT_RESPONSE"
    BY <1>5
  <2>2. e.vpn = d_req.vpn
    BY <1>5 DEF DTlb!FilledEntry
  <2>3. DTlb!Covers(e, vpn) /\ DTlb!Covers(f, vpn)
    BY <1>5, <2>1
  <2>4. Agrees(e) /\ Agrees(f)
    BY <1>3, <2>1, <2>3 DEF DTlb!Covers
  <2>5. DTlb!Covers(f, e.vpn)
    <3> HIDE DEF e, f
    <3> QED BY <2>3, <2>4, SharedCover DEF DTlb!Covers
  <2> QED BY <2>1, <2>2, <2>5 DEF DTlbDistinct
<1>6. ASSUME NEW i \in DTlb!Entry, NEW j \in DTlb!Entry, NEW vpn \in Vpn, i # j,
             DTlb!Covers(d_entries'[i], vpn), DTlb!Covers(d_entries'[j], vpn)
      PROVE  FALSE
  <2>1. d_entries'[i].nempty /\ d_entries'[j].nempty
    BY <1>6 DEF DTlb!Covers
  <2>2. ~Filled(i) /\ ~Filled(j)
    <3> HIDE DEF Filled
    <3> QED BY <1>5, <1>6
  <2>3. Kept(i) /\ Kept(j)
    BY <1>4, <2>1, <2>2
  <2> QED BY <1>6, <2>3 DEF DTlbDistinct
<1>7. ASSUME d_state' \in {"SEND_REQUEST", "WAIT_RESPONSE"}, NEW i \in DTlb!Entry,
             DTlb!Covers(d_entries'[i], d_req'.vpn)
      PROVE  FALSE
  <2>1. d_entries'[i].nempty
    BY <1>7 DEF DTlb!Covers
  <2>2. /\ ~(d_state = "WAIT_RESPONSE" /\ pc.resp.valid)
        /\ \/ d_state \in {"SEND_REQUEST", "WAIT_RESPONSE"} /\ d_req' = d_req
           \/ ~DTlb!hit_cam(d_req'.vpn)
    <3>1. CASE DTlb!Idle(rq, pc, st)
      <4>1. d_state = "IDLE" /\ DTlb!tlb_miss(rq) /\ d_req'.vpn = rq.vpn
        BY <1>7, <3>1 DEF DTlb!Idle
      <4> QED BY <4>1 DEF DTlb!tlb_miss
    <3>2. CASE DTlb!SendRequest(rq, pc, st)
      BY <3>2 DEF DTlb!SendRequest
    <3>3. CASE DTlb!WaitResponse(rq, pc, st)
      BY <1>7, <3>3 DEF DTlb!WaitResponse
    <3>4. CASE DTlb!InvalidatedWaitResponse(rq, pc, st)
      BY <1>7, <3>4 DEF DTlb!InvalidatedWaitResponse
    <3> QED BY <1>1, <3>1, <3>2, <3>3, <3>4 DEF DTlb!Cycle
  <2>3. Kept(i)
    BY <1>4, <2>1, <2>2
  <2>4. DTlb!Covers(d_entries[i], d_req'.vpn)
    BY <1>7, <2>3
  <2> QED BY <2>2, <2>4 DEF DTlbDistinct, DTlb!hit_cam, DTlb!hits_cam
<1> QED BY <1>6, <1>7 DEF DTlbDistinct, DTlb!Entry

(* Every step keeps the entries distinct.                                  *)
LEMMA DistinctStep ==
  ASSUME TypeOK, WalkOwnership, AgreeInv, DistinctInv, SupportedTables,
         StaticTables \/ FlushBetweenWalks, [Next]_vars
  PROVE  DistinctInv'
<1>1. CASE WriteTable
  BY <1>1 DEF WriteTable, DistinctInv
<1>2. CASE UNCHANGED vars
  BY <1>2 DEF vars, iVars, dVars, histVars, DistinctInv, ITlbDistinct, DTlbDistinct, ITlb!Entry, DTlb!Entry
<1>3. ASSUME NEW irq \in IReqs, NEW drq \in DReqs, NEW st \in Statuses,
             NEW flush \in FlushInputs, NEW dmem \in DcacheInputs,
             Cycle(irq, drq, st, flush, dmem)
      PROVE  DistinctInv'
  <2>1. flush \in BOOLEAN /\ synced' = (synced \/ flush)
    BY <1>3 DEF FlushInputs, Cycle, UpdateHistory
  <2>2. /\ ITlb!Cycle(irq, ToTlb(Arb!itlb_resp(Walker!resp), flush), st)
        /\ DTlb!Cycle(drq, ToTlb(Arb!dtlb_resp(Walker!resp), flush), st)
    BY <1>3 DEF Cycle
  <2>3. CASE synced
    <3>1. /\ WalkAgrees /\ ITlbDistinct /\ DTlbDistinct
          /\ \A i \in ITlb!Entry : i_entries[i].nempty => Agrees(i_entries[i])
          /\ \A i \in DTlb!Entry : d_entries[i].nempty => Agrees(d_entries[i])
      BY <2>3 DEF AgreeInv, DistinctInv
    <3>2. ITlbDistinct'
      BY <2>1, <2>2, <3>1, ITlbUnique
    <3>3. DTlbDistinct'
      BY <2>1, <2>2, <3>1, DTlbUnique
    <3> QED BY <3>2, <3>3 DEF DistinctInv
  <2>4. CASE ~synced /\ flush
    <3>1. FlushBetweenWalks /\ flush = TRUE
      BY <2>1, <2>4 DEF AgreeInv
    <3>2. /\ \A i \in ITlb!Entry : ~i_entries'[i].nempty
          /\ \A i \in DTlb!Entry : ~d_entries'[i].nempty
      BY <1>3, <3>1, FlushEmpties
    <3>3. ITlbDistinct'
      BY <3>2 DEF ITlbDistinct, ITlb!Covers, ITlb!Entry
    <3>4. DTlbDistinct'
      BY <3>2 DEF DTlbDistinct, DTlb!Covers, DTlb!Entry
    <3> QED BY <3>3, <3>4 DEF DistinctInv
  <2>5. CASE ~synced /\ ~flush
    BY <2>1, <2>5 DEF DistinctInv
  <2> QED BY <2>3, <2>4, <2>5
<1> QED BY <1>1, <1>2, <1>3 DEF Next, ClockCycle

(* A set whose members are all the same has at most one.                   *)
LEMMA AtMostOne ==
  ASSUME NEW S, \A i, j \in S : i = j
  PROVE  Cardinality(S) <= 1
<1>1. CASE S = {}
  BY <1>1, FS_EmptySet
<1>2. CASE S # {}
  <2>1. PICK i : S = {i}
    BY <1>2
  <2>2. Cardinality(S) = 1
    BY <2>1, FS_Singleton, Zenon
  <2> QED BY <2>2
<1> QED BY <1>1, <1>2

(* Entries are distinct after reset.                                       *)
LEMMA DistinctInit == Init => DistinctInv
<1> SUFFICES ASSUME Init PROVE DistinctInv
  OBVIOUS
<1>1. \A i \in ITlb!Entry : ~i_entries[i].nempty
  BY DEF Init, ITlb!Init, ITlb!EmptyEntry
<1>2. \A i \in DTlb!Entry : ~d_entries[i].nempty
  BY DEF Init, DTlb!Init, DTlb!EmptyEntry
<1> QED BY <1>1, <1>2 DEF DistinctInv, ITlbDistinct, DTlbDistinct, ITlb!Covers, DTlb!Covers

(* Distinct entries: at most one hits.                                     *)
LEMMA DistinctHits == ITlbDistinct /\ DTlbDistinct => CamUnique
<1> SUFFICES ASSUME ITlbDistinct, DTlbDistinct, NEW vpn \in Vpn
             PROVE  Cardinality(ITlb!hits_cam(vpn)) <= 1 /\ Cardinality(DTlb!hits_cam(vpn)) <= 1
  BY DEF CamUnique
<1>1. \A i, j \in ITlb!hits_cam(vpn) : i = j
  BY DEF ITlbDistinct, ITlb!hits_cam
<1>2. \A i, j \in DTlb!hits_cam(vpn) : i = j
  BY DEF DTlbDistinct, DTlb!hits_cam
<1> QED BY <1>1, <1>2, AtMostOne

(* While the tables stay as they are, at most one entry of a TLB matches a *)
(* page, superpages included: a miss is walked only when no entry maps its *)
(* page, and none comes to before the answer (tlb.sv, hits_cam).           *)
THEOREM OneEntryHits ==
  ASSUME SupportedTables, StaticTables
  PROVE  Spec => []CamUnique
<1>1. TypeOK /\ WalkOwnership /\ AgreeInv /\ [Next]_vars => AgreeInv'
  BY AgreeStep
<1>2. TypeOK /\ WalkOwnership /\ AgreeInv /\ DistinctInv /\ [Next]_vars => DistinctInv'
  BY DistinctStep
<1>3. AgreeInv /\ DistinctInv => CamUnique
  BY DistinctHits DEF AgreeInv, DistinctInv
<1> QED BY <1>1, <1>2, <1>3, AgreeInit, DistinctInit, TypeCorrect, WalkOwned, PTL DEF Spec

(* When they change, the same holds from the flush on.                     *)
THEOREM OneEntryHitsSynced ==
  ASSUME SupportedTables, FlushBetweenWalks
  PROVE  Spec => [](synced => CamUnique)
<1>1. TypeOK /\ WalkOwnership /\ AgreeInv /\ [Next]_vars => AgreeInv'
  BY AgreeStep
<1>2. TypeOK /\ WalkOwnership /\ AgreeInv /\ DistinctInv /\ [Next]_vars => DistinctInv'
  BY DistinctStep
<1>3. DistinctInv => (synced => CamUnique)
  BY DistinctHits DEF DistinctInv
<1> QED BY <1>1, <1>2, <1>3, AgreeInit, DistinctInit, TypeCorrect, WalkOwned, PTL DEF Spec

-----------------------------------------------------------------------------
(* A walk answers the miss it was made for.                                *)

(* The answer to a miss of the instruction TLB, when no flush comes with   *)
(* it, leaves an entry for its page.                                       *)
LEMMA IMissAnswered ==
  ASSUME TypeOK, NEW rq, NEW pc \in PtwComm, NEW st, ITlb!Cycle(rq, pc, st),
         i_state = "WAIT_RESPONSE", i_state' = "IDLE", ~pc.invalidate
  PROVE  ITlb!hit_cam(i_req.vpn)'
<1>1. ITlb!WaitResponse(rq, pc, st)
  BY DEF ITlb!Cycle, ITlb!Idle, ITlb!SendRequest, ITlb!InvalidatedWaitResponse
<1>2. pc.resp.valid \in BOOLEAN
  BY DEF PtwComm, PtwResp
<1>3. pc.resp.valid /\ i_req' = i_req /\ ITlb!UpdateEntries(rq, pc, st, FALSE, TRUE)
  BY <1>1, <1>2 DEF ITlb!WaitResponse
<1>4. i_entries' = [i_entries EXCEPT ![i_req.write_idx] = ITlb!FilledEntry(pc.resp)]
  BY <1>3 DEF ITlb!UpdateEntries
<1>5. i_req.write_idx \in ITlb!Entry /\ i_entries'[i_req.write_idx] = ITlb!FilledEntry(pc.resp)
  BY <1>4 DEF TypeOK, ITlb!TypeOK, ITlb!ReqTmp
<1>6. ITlb!Covers(ITlb!FilledEntry(pc.resp), i_req.vpn)
  BY DEF ITlb!Covers, ITlb!FilledEntry
<1>7. ITlb!Covers(i_entries'[i_req.write_idx], i_req'.vpn)
  BY <1>3, <1>5, <1>6
<1> QED BY <1>5, <1>7 DEF ITlb!hit_cam, ITlb!hits_cam, ITlb!Entry

(* The answer to a miss of the data TLB, when no flush comes with it,      *)
(* leaves an entry for its page.                                           *)
LEMMA DMissAnswered ==
  ASSUME TypeOK, NEW rq, NEW pc \in PtwComm, NEW st, DTlb!Cycle(rq, pc, st),
         d_state = "WAIT_RESPONSE", d_state' = "IDLE", ~pc.invalidate
  PROVE  DTlb!hit_cam(d_req.vpn)'
<1>1. DTlb!WaitResponse(rq, pc, st)
  BY DEF DTlb!Cycle, DTlb!Idle, DTlb!SendRequest, DTlb!InvalidatedWaitResponse
<1>2. pc.resp.valid \in BOOLEAN
  BY DEF PtwComm, PtwResp
<1>3. pc.resp.valid /\ d_req' = d_req /\ DTlb!UpdateEntries(rq, pc, st, FALSE, TRUE)
  BY <1>1, <1>2 DEF DTlb!WaitResponse
<1>4. d_entries' = [d_entries EXCEPT ![d_req.write_idx] = DTlb!FilledEntry(pc.resp)]
  BY <1>3 DEF DTlb!UpdateEntries
<1>5. d_req.write_idx \in DTlb!Entry /\ d_entries'[d_req.write_idx] = DTlb!FilledEntry(pc.resp)
  BY <1>4 DEF TypeOK, DTlb!TypeOK, DTlb!ReqTmp
<1>6. DTlb!Covers(DTlb!FilledEntry(pc.resp), d_req.vpn)
  BY DEF DTlb!Covers, DTlb!FilledEntry
<1>7. DTlb!Covers(d_entries'[d_req.write_idx], d_req'.vpn)
  BY <1>3, <1>5, <1>6
<1> QED BY <1>5, <1>7 DEF DTlb!hit_cam, DTlb!hits_cam, DTlb!Entry

(* A walk that no flush overtook ends with an entry for the page that      *)
(* missed, so the request, made again, is answered: no cleaning beats the  *)
(* write of the answer (tlb.sv, WAIT_RESPONSE).                            *)
THEOREM MissAnswered == Spec => WalkAnswersMiss
<1> DEFINE Answered ==
      /\ i_state = "WAIT_RESPONSE" /\ i_state' = "IDLE" /\ ~i_flushed' => ITlb!hit_cam(i_req.vpn)'
      /\ d_state = "WAIT_RESPONSE" /\ d_state' = "IDLE" /\ ~d_flushed' => DTlb!hit_cam(d_req.vpn)'
<1>1. TypeOK /\ [Next]_vars => [Answered]_vars
  <2> SUFFICES ASSUME TypeOK, Next PROVE [Answered]_vars
    OBVIOUS
  <2>1. ASSUME NEW irq \in IReqs, NEW drq \in DReqs, NEW st \in Statuses,
               NEW flush \in FlushInputs, NEW dmem \in DcacheInputs,
               Cycle(irq, drq, st, flush, dmem)
        PROVE  Answered
    <3> DEFINE ipc == ToTlb(Arb!itlb_resp(Walker!resp), flush)
               dpc == ToTlb(Arb!dtlb_resp(Walker!resp), flush)
    <3>1. ipc \in PtwComm /\ dpc \in PtwComm
      BY ToTlbType DEF FlushInputs, TypeOK
    <3>2. ipc.invalidate = flush /\ dpc.invalidate = flush
      BY DEF ToTlb
    <3>3. ITlb!Cycle(irq, ipc, st) /\ DTlb!Cycle(drq, dpc, st)
      BY <2>1 DEF Cycle
    <3>4. /\ i_state = "WAIT_RESPONSE" /\ ~i_flushed' => ~flush
          /\ d_state = "WAIT_RESPONSE" /\ ~d_flushed' => ~flush
      BY <2>1 DEF Cycle, UpdateHistory
    <3> HIDE DEF ipc, dpc
    <3>5. i_state = "WAIT_RESPONSE" /\ i_state' = "IDLE" /\ ~i_flushed' => ITlb!hit_cam(i_req.vpn)'
      BY <3>1, <3>2, <3>3, <3>4, IMissAnswered
    <3>6. d_state = "WAIT_RESPONSE" /\ d_state' = "IDLE" /\ ~d_flushed' => DTlb!hit_cam(d_req.vpn)'
      BY <3>1, <3>2, <3>3, <3>4, DMissAnswered
    <3> QED BY <3>5, <3>6
  <2>2. CASE WriteTable
    BY <2>2 DEF WriteTable, iVars, dVars
  <2> QED BY <2>1, <2>2 DEF Next, ClockCycle
<1> QED BY <1>1, TypeCorrect, PTL DEF Spec, WalkAnswersMiss
=============================================================================
