-------------------------------- MODULE Mmu ---------------------------------
(***************************************************************************)
(* The memory-management unit as rtl/top_tile.sv wires it: the instruction *)
(* TLB, the data TLB, the arbiter and the page-table walker, with the data *)
(* cache the walker reads and the page tables software keeps in memory.    *)
(* All four components are clocked together, so a step is one clock cycle  *)
(* (Cycle) in which each of them takes one of its own steps; software      *)
(* writes its tables between cycles (WriteTable).                          *)
(*                                                                         *)
(* Every input of the MMU is free in every cycle: the requests of the      *)
(* instruction cache and of the memory unit, mstatus, the flush of the CSR *)
(* file, and when the data cache accepts and answers.                      *)
(***************************************************************************)
EXTENDS Sv39Walk, FiniteSets

CONSTANTS
  IReqs, DReqs,    \* requests the instruction cache and the memory unit make
  Statuses,        \* values of mstatus
  PageTables,      \* contents of memory: functions from PTE addresses to PTEs
  SATP,            \* page of the root table
  FLUSH_STATES,    \* walker states in which a flush may come
  MAX_WRITES       \* bound on the number of times software changes its tables

ASSUME ReqsAssumption == IReqs \subseteq CacheReq /\ DReqs \subseteq CacheReq
ASSUME StatusesAssumption == Statuses \subseteq Status
ASSUME SatpAssumption == SATP \in Ppn
ASSUME PageTablesAssumption == \A m \in PageTables : \A a \in DOMAIN m : m[a] \in Pte
ASSUME MaxWritesAssumption == MAX_WRITES \in Nat

VARIABLES
  i_state, i_entries, i_req, i_plru,                              \* instruction TLB
  d_state, d_entries, d_req, d_plru,                              \* data TLB
  a_state, a_waiting, a_req,                                      \* arbiter
  w_state, w_count, w_req, w_pte, w_cache, w_hit, w_plru,         \* walker
  mem,           \* page tables in memory
  dmem_q,        \* word the data cache read for the walker's accepted request
  writes,        \* number of writes of software to its tables
  synced,        \* history: a flush came after the last write
  i_flushed, d_flushed,   \* history: a flush came after the TLB's last miss
  i_old, d_old   \* history: entries obtained by walks requested before the last flush

iVars == <<i_state, i_entries, i_req, i_plru>>
dVars == <<d_state, d_entries, d_req, d_plru>>
aVars == <<a_state, a_waiting, a_req>>
wVars == <<w_state, w_count, w_req, w_pte, w_cache, w_hit, w_plru>>
memVars  == <<mem, dmem_q, writes>>
histVars == <<synced, i_flushed, d_flushed, i_old, d_old>>
vars == <<iVars, dVars, aVars, wVars, memVars, histVars>>

ITlb == INSTANCE Tlb WITH current_state <- i_state, tlb_entries <- i_entries,
                          tlb_req_tmp <- i_req, plru_tree_q <- i_plru
DTlb == INSTANCE Tlb WITH current_state <- d_state, tlb_entries <- d_entries,
                          tlb_req_tmp <- d_req, plru_tree_q <- d_plru
Arb == INSTANCE PtwArb WITH current_state <- a_state, is_req_waiting_q <- a_waiting,
                            itlb_req_waiting_q <- a_req
Walker == INSTANCE Ptw WITH current_state <- w_state, count_q <- w_count, r_req <- w_req,
                            r_pte <- w_pte, ptecache_entry <- w_cache, access_hit <- w_hit,
                            plru_tree_q <- w_plru

TypeOK ==
  /\ ITlb!TypeOK
  /\ DTlb!TypeOK
  /\ Arb!TypeOK
  /\ Walker!TypeOK
  /\ mem \in PageTables
  /\ dmem_q \in Pte
  /\ writes \in 0 .. MAX_WRITES
  /\ synced \in BOOLEAN
  /\ i_flushed \in BOOLEAN /\ d_flushed \in BOOLEAN
  /\ i_old \in SUBSET ITlb!Entry /\ d_old \in SUBSET DTlb!Entry

Init ==
  /\ ITlb!Init
  /\ DTlb!Init
  /\ Arb!Init
  /\ Walker!Init
  /\ mem \in PageTables
  /\ dmem_q = ZeroPte
  /\ writes = 0
  /\ synced = TRUE
  /\ i_flushed = FALSE /\ d_flushed = FALSE
  /\ i_old = {} /\ d_old = {}
-----------------------------------------------------------------------------
\* The requests of the TLBs to the walker.
TlbReq(send, tmp) == [valid |-> send, vpn |-> IF send THEN tmp.vpn ELSE ZeroVpn]
ireq == TlbReq(ITlb!send_tlb_req, i_req)
dreq == TlbReq(DTlb!send_tlb_req, d_req)

\* What the TLBs receive: readiness and answers from the arbiter, the flush
\* straight from the CSR file.
ToTlb(resp, flush) == [ready |-> Arb!tlb_ready(ireq, dreq), invalidate |-> flush, resp |-> resp]

\* The data cache on the walker's port: it accepts a request when it likes and
\* answers an accepted one when it likes, with the word as it was when accepted
\* or as it is now.
DcacheInputs ==
  IF w_state = "S_WAIT"
    THEN [ready : {FALSE}, valid : {FALSE}, data : {ZeroPte}]
         \cup [ready : {FALSE}, valid : {TRUE}, data : {dmem_q, Word(mem, Walker!pte_addr)}]
    ELSE [ready : BOOLEAN, valid : {FALSE}, data : {ZeroPte}]

FlushInputs == IF w_state \in FLUSH_STATES THEN BOOLEAN ELSE {FALSE}

\* The entries of a TLB that hold a translation asked for before the last flush.
OldEntries(entries, nextEntries, old, flushed, flush) ==
  {i \in DOMAIN entries :
     /\ nextEntries[i].nempty
     /\ flush \/ (IF nextEntries[i] = entries[i] THEN i \in old ELSE flushed)}

UpdateHistory(flush) ==
  /\ synced' = (synced \/ flush)
  /\ i_flushed' = (i_state # "IDLE" /\ (i_flushed \/ flush))
  /\ d_flushed' = (d_state # "IDLE" /\ (d_flushed \/ flush))
  /\ i_old' = OldEntries(i_entries, i_entries', i_old, i_flushed, flush)
  /\ d_old' = OldEntries(d_entries, d_entries', d_old, d_flushed, flush)

Cycle(irq, drq, st, flush, dmem) ==
  /\ ITlb!Cycle(irq, ToTlb(Arb!itlb_resp(Walker!resp), flush), st)
  /\ DTlb!Cycle(drq, ToTlb(Arb!dtlb_resp(Walker!resp), flush), st)
  /\ Arb!Cycle(ireq, dreq, Walker!resp)
  /\ Walker!Cycle(Arb!tlb_ptw_req(ireq, dreq), dmem, [satp |-> SATP, flush |-> flush])
  /\ dmem_q' = IF w_state = "S_REQ" /\ w_state' = "S_WAIT" THEN Word(mem, Walker!pte_addr)
               ELSE IF dmem.valid THEN ZeroPte ELSE dmem_q
  /\ UNCHANGED <<mem, writes>>
  /\ UpdateHistory(flush)

ClockCycle ==
  \E irq \in IReqs, drq \in DReqs, st \in Statuses, flush \in FlushInputs, dmem \in DcacheInputs :
    Cycle(irq, drq, st, flush, dmem)

\* Software installs other page tables; it flushes later.
WriteTable ==
  /\ writes < MAX_WRITES
  /\ \E m \in PageTables \ {mem} : mem' = m
  /\ writes' = writes + 1
  /\ synced' = FALSE
  /\ UNCHANGED <<iVars, dVars, aVars, wVars, dmem_q, i_flushed, d_flushed, i_old, d_old>>

Next == ClockCycle \/ WriteTable

\* The data cache eventually accepts a request that is held, and answers an
\* accepted one.
MemAccepts == w_state = "S_REQ" /\ ClockCycle /\ w_state' = "S_WAIT"
MemAnswers == w_state = "S_WAIT" /\ ClockCycle /\ w_state' # "S_WAIT"

Fairness == WF_vars(ClockCycle) /\ WF_vars(MemAccepts) /\ WF_vars(MemAnswers)

Spec == Init /\ [][Next]_vars
FairSpec == Spec /\ Fairness
-----------------------------------------------------------------------------
(* What the requesters see.                                                *)

\* The instruction cache takes xcpt.fetch as a page fault; the memory unit
\* takes xcpt.store for a store and xcpt.load for any access.
FetchFault(rq, st) == ITlb!xcpt_if(rq, st)
DataFault(rq, st)  == (rq.store /\ DTlb!xcpt_st(rq, st)) \/ DTlb!xcpt_ld(rq, st)

DataType(rq) == IF rq.store THEN "STORE" ELSE "LOAD"

\* Every request a requester may make with translation on.
Probes == {rq \in CacheReq : rq.valid /\ rq.vm_enable}

IWaiting == i_state \in {"WAIT_RESPONSE", "INVALIDATED_WAIT_RESPONSE"}
DWaiting == d_state \in {"WAIT_RESPONSE", "INVALIDATED_WAIT_RESPONSE"}
-----------------------------------------------------------------------------
(* Safety.                                                                 *)

(* Whoever waits for a walk has exactly one, and it is for the page it     *)
(* asked for: the arbiter's state, the TLBs' and the walker's stay in step *)
(* through simultaneous requests and flushes (ptw_arb.sv, tlb.sv, ptw.sv). *)
WalkOwnership ==
  /\ DWaiting <=> a_state = "SERVING_dTLB"
  /\ IWaiting <=> (a_state = "SERVING_iTLB" \/ a_waiting)
  /\ a_waiting => a_req = i_req.vpn
  /\ a_state = "IDLE" => w_state = "S_READY"
  /\ a_state = "SERVING_dTLB" => w_state # "S_READY" /\ w_req = d_req.vpn
  /\ a_state = "SERVING_iTLB" => IF w_state = "S_READY" THEN a_waiting ELSE w_req = i_req.vpn

(* No TLB entry holds a translation whose walk was requested before the    *)
(* last flush: the flush empties the TLBs, and a walk it overtakes is not  *)
(* allocated (tlb.sv, INVALIDATED_WAIT_RESPONSE).                          *)
NoStaleAllocation == i_old = {} /\ d_old = {}

(* At most one entry of a TLB matches a page: the hit index, the PPN and   *)
(* the permissions come from one entry (tlb.sv, hits_cam).                 *)
CamUnique ==
  \A vpn \in Vpn : Cardinality(ITlb!hits_cam(vpn)) <= 1 /\ Cardinality(DTlb!hits_cam(vpn)) <= 1

(* The PTE cache holds a table address at most once (ptw.sv, hit_vector).  *)
PteCacheUnique ==
  \A i, j \in Walker!Slot :
    w_cache[i].valid /\ w_cache[j].valid /\ w_cache[i].tags = w_cache[j].tags => i = j

(* Once software has flushed after its last write, a fetch of any page     *)
(* that does not miss is granted exactly when the reference walk of the    *)
(* tables grants it, and goes to the same page.                            *)
FetchCorrect ==
  synced => \A rq \in Probes, st \in Status :
    ~rq.store /\ ~ITlb!tlb_miss(rq) =>
      /\ FetchFault(rq, st) <=> ~WalkGrants(mem, SATP, rq.vpn, "FETCH", rq.priv, st)
      /\ ~FetchFault(rq, st) => ITlb!resp_ppn(rq) = WalkPpn(mem, SATP, rq.vpn)

(* The same for any load or store, the dirty bit of stores included.       *)
DataCorrect ==
  synced => \A rq \in Probes, st \in Status :
    ~DTlb!tlb_miss(rq) =>
      /\ DataFault(rq, st) <=> ~WalkGrants(mem, SATP, rq.vpn, DataType(rq), rq.priv, st)
      /\ ~DataFault(rq, st) => DTlb!resp_ppn(rq) = WalkPpn(mem, SATP, rq.vpn)

(* The page faults the memory unit reports, a miss in progress or not, are *)
(* faults of the reference walk (mem_unit.sv, exception treatment).        *)
PageFaultIsReal ==
  synced => \A rq \in Probes, st \in Status :
    DataFault(rq, st) => ~WalkGrants(mem, SATP, rq.vpn, DataType(rq), rq.priv, st)
-----------------------------------------------------------------------------
(* Action properties.                                                      *)

(* A walk that no flush overtook ends with an entry for the page that      *)
(* missed, so that the request, made again, is answered.                   *)
WalkAnswersMiss ==
  [][/\ i_state = "WAIT_RESPONSE" /\ i_state' = "IDLE" /\ ~i_flushed' => ITlb!hit_cam(i_req.vpn)'
     /\ d_state = "WAIT_RESPONSE" /\ d_state' = "IDLE" /\ ~d_flushed' => DTlb!hit_cam(d_req.vpn)']_vars
-----------------------------------------------------------------------------
(* Liveness.                                                               *)

(* A miss of the instruction TLB ends, whatever the data TLB asks for.     *)
FetchMissEnds == i_state # "IDLE" ~> i_state = "IDLE"

(* A miss of the data TLB ends, whatever the instruction TLB asks for.     *)
DataMissEnds == d_state # "IDLE" ~> d_state = "IDLE"
=============================================================================
