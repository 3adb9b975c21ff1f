-------------------------------- MODULE Tlb ---------------------------------
(***************************************************************************)
(* rtl/mmu/rtl/tlb/tlb.sv: a fully associative TLB.  The tile has two, one *)
(* for fetches (requests from the instruction cache) and one for loads and *)
(* stores (requests from the memory unit).                                 *)
(*                                                                         *)
(* The answer to a request is combinational (hit, miss, exceptions and PPN *)
(* below are functions of the registers and of the request).  A miss in    *)
(* IDLE stores the request and starts the FSM that obtains the translation *)
(* from the page-table walker.  A step is one clock cycle: rq is the       *)
(* request of the cycle, pc what the walker's arbiter drives, st mstatus.  *)
(***************************************************************************)
EXTENDS MmuPkg, FiniteSets

VARIABLES
  current_state,   \* the FSM
  tlb_entries,     \* the CAM
  tlb_req_tmp,     \* the request that missed, with the entry it will fill
  plru_tree_q      \* the replacement tree

tlbVars == <<current_state, tlb_entries, tlb_req_tmp, plru_tree_q>>

Plru == INSTANCE PseudoLru WITH ENTRIES <- TLB_ENTRIES

Entry == 0 .. TLB_ENTRIES-1

FsmState == {"IDLE", "SEND_REQUEST", "WAIT_RESPONSE", "INVALIDATED_WAIT_RESPONSE"}

Perm == {"ur", "uw", "ux", "sr", "sw", "sx"}

TlbEntry == [vpn : Vpn, ppn : Ppn, level : Level, dirty : BOOLEAN, access : BOOLEAN,
             perms : SUBSET Perm, valid : BOOLEAN, nempty : BOOLEAN]

EmptyEntry == [vpn |-> ZeroVpn, ppn |-> ZeroPpn, level |-> 0, dirty |-> FALSE, access |-> FALSE,
               perms |-> {}, valid |-> FALSE, nempty |-> FALSE]

ReqTmp == [vpn : Vpn, store : BOOLEAN, write_idx : Entry]

TypeOK ==
  /\ current_state \in FsmState
  /\ tlb_entries \in [Entry -> TlbEntry]
  /\ tlb_req_tmp \in ReqTmp
  /\ Plru!TypeOK

Init ==
  /\ current_state = "IDLE"
  /\ tlb_entries = [i \in Entry |-> EmptyEntry]
  /\ tlb_req_tmp = [vpn |-> ZeroVpn, store |-> FALSE, write_idx |-> 0]
  /\ Plru!Init
-----------------------------------------------------------------------------
(* The CAM.  An entry of level l maps the pages that share its l+1 top     *)
(* fields.                                                                 *)

Covers(e, vpn) == e.nempty /\ \A k \in 1 .. e.level+1 : e.vpn[k] = vpn[k]

hits_cam(vpn) == {i \in Entry : Covers(tlb_entries[i], vpn)}
hit_cam(vpn)  == hits_cam(vpn) # {}
hit_idx(vpn)  == IF hit_cam(vpn) THEN First(hits_cam(vpn)) ELSE 0

\* The entry every check below reads: entry 0 when nothing hits.
Selected(vpn) == tlb_entries[hit_idx(vpn)]
-----------------------------------------------------------------------------
(* Permissions.  "s" permissions are those of supervisor pages.            *)

read_ok(e, priv, st) ==
  \/ (IF priv THEN "sr" ELSE "ur") \in e.perms
  \/ priv /\ st.sum /\ "ur" \in e.perms
  \/ st.mxr /\ (IF priv THEN "sx" ELSE "ux") \in e.perms
  \/ priv /\ st.sum /\ st.mxr /\ "ux" \in e.perms

write_ok(e, priv, st) ==
  \/ (IF priv THEN "sw" ELSE "uw") \in e.perms
  \/ priv /\ st.sum /\ "uw" \in e.perms

exec_ok(e, priv) == (IF priv THEN "sx" ELSE "ux") \in e.perms

\* A store to a writable page that is not marked dirty does not hit.
store_hit(rq, st) ==
  LET e == Selected(rq.vpn)
  IN  rq.store => e.dirty \/ ~write_ok(e, rq.priv, st)
-----------------------------------------------------------------------------
(* The answer to the request of the cycle.                                 *)

tlb_ready == current_state = "IDLE"

tlb_hit(rq, st) == rq.vm_enable /\ hit_cam(rq.vpn) /\ store_hit(rq, st)
tlb_miss(rq)    == rq.vm_enable /\ ~hit_cam(rq.vpn)
tlb_translates(rq) == rq.vm_enable /\ hit_cam(rq.vpn)

tlb_entry_access_is_zero(rq)    == ~Selected(rq.vpn).access /\ Selected(rq.vpn).valid
tlb_entry_dirty_is_zero(rq, st) == ~store_hit(rq, st) /\ Selected(rq.vpn).valid

xcpt_if(rq, st) ==
  rq.vm_enable /\ \/ tlb_hit(rq, st) /\ ~exec_ok(Selected(rq.vpn), rq.priv)
                  \/ tlb_entry_access_is_zero(rq)

xcpt_ld(rq, st) ==
  rq.vm_enable /\ \/ tlb_hit(rq, st) /\ ~read_ok(Selected(rq.vpn), rq.priv, st)
                  \/ tlb_entry_access_is_zero(rq)

xcpt_st(rq, st) ==
  rq.vm_enable /\ \/ tlb_hit(rq, st) /\ ~write_ok(Selected(rq.vpn), rq.priv, st)
                  \/ tlb_entry_access_is_zero(rq)
                  \/ tlb_entry_dirty_is_zero(rq, st)

\* The fields below the page size come from the virtual address.  (The code ORs
\* the PPNs of the page sizes that hit: the same thing when one entry hits.)
resp_ppn(rq) ==
  LET e == Selected(rq.vpn)
  IN  [k \in Field |-> CASE ~rq.vm_enable   -> rq.vpn[k]
                         [] tlb_miss(rq)    -> 0
                         [] tlb_translates(rq) -> IF k <= e.level+1 THEN e.ppn[k] ELSE rq.vpn[k]]
-----------------------------------------------------------------------------
(* The registers.                                                          *)

\* What the walker's answer leaves in the entry the request reserved.
FilledEntry(resp) ==
  LET ok(p, bit, user) == IF bit /\ resp.pte.u = user /\ resp.pte.v THEN {p} ELSE {}
  IN  [vpn    |-> tlb_req_tmp.vpn,
       ppn    |-> resp.pte.ppn,
       level  |-> resp.level,
       dirty  |-> resp.pte.d,
       access |-> resp.pte.a,
       perms  |-> UNION {ok("ur", resp.pte.r, TRUE),  ok("uw", resp.pte.w, TRUE),
                         ok("ux", resp.pte.x, TRUE),  ok("sr", resp.pte.r, FALSE),
                         ok("sw", resp.pte.w, FALSE), ok("sx", resp.pte.x, FALSE)},
       valid  |-> ~resp.error,
       nempty |-> TRUE]

\* Entries a request in IDLE removes: walks that failed, and the entry of a
\* page that is not dirty when a store needs it.
clean_mask(rq, st) ==
  {i \in Entry : \/ ~tlb_entries[i].valid
                 \/ i = hit_idx(rq.vpn) /\ hit_cam(rq.vpn) /\ ~store_hit(rq, st)}

\* Entries an invalidation removes: the mask is the literal 'hFF.
invalidate_mask == Entry \cap 0 .. 7

\* Clearing has priority over writing, invalidation over cleaning.
UpdateEntries(rq, pc, st, clean, write) ==
  tlb_entries' =
    IF pc.invalidate THEN [i \in Entry |-> IF i \in invalidate_mask THEN EmptyEntry
                                                                   ELSE tlb_entries[i]]
    ELSE IF clean    THEN [i \in Entry |-> IF i \in clean_mask(rq, st) THEN EmptyEntry
                                                                       ELSE tlb_entries[i]]
    ELSE IF write    THEN [tlb_entries EXCEPT ![tlb_req_tmp.write_idx] = FilledEntry(pc.resp)]
    ELSE tlb_entries

\* The entry to evict: an unused one if there is one, else the PLRU choice.
eviction_idx ==
  LET unused == {i \in Entry : ~tlb_entries[i].nempty}
  IN  IF unused # {} THEN First(unused) ELSE Plru!replacement_idx

\* Fault: a store to a page that is not dirty starts a walk but the entry stays.
Idle_KeepsClean(rq, pc, st) ==
  LET stale == rq.vm_enable /\ hit_cam(rq.vpn) /\ ~store_hit(rq, st)
      miss  == rq.valid /\ (tlb_miss(rq) \/ stale)
  IN  /\ current_state = "IDLE"
      /\ UpdateEntries(rq, pc, st, rq.valid /\ ~stale, FALSE)
      /\ current_state' = IF miss THEN "SEND_REQUEST" ELSE "IDLE"
      /\ tlb_req_tmp' = IF miss THEN [vpn |-> rq.vpn, store |-> rq.store, write_idx |-> eviction_idx]
                                ELSE tlb_req_tmp

Idle(rq, pc, st) ==
  LET miss == rq.valid /\ tlb_miss(rq)
  IN  /\ current_state = "IDLE"
      /\ UpdateEntries(rq, pc, st, rq.valid, FALSE)
      /\ current_state' = IF miss THEN "SEND_REQUEST" ELSE "IDLE"
      /\ tlb_req_tmp' = IF miss THEN [vpn |-> rq.vpn, store |-> rq.store, write_idx |-> eviction_idx]
                                ELSE tlb_req_tmp

\* Fault: a flush in the cycle the walker accepts the request goes unnoticed.
SendRequest_FlushUnnoticed(rq, pc, st) ==
  /\ current_state = "SEND_REQUEST"
  /\ UpdateEntries(rq, pc, st, FALSE, FALSE)
  /\ current_state' = CASE pc.ready                     -> "WAIT_RESPONSE"
                        [] ~pc.ready /\ pc.invalidate  -> "IDLE"
                        [] ~pc.ready /\ ~pc.invalidate -> "SEND_REQUEST"
  /\ UNCHANGED tlb_req_tmp

SendRequest(rq, pc, st) ==
  /\ current_state = "SEND_REQUEST"
  /\ UpdateEntries(rq, pc, st, FALSE, FALSE)
  /\ current_state' = CASE pc.ready /\ pc.invalidate   -> "INVALIDATED_WAIT_RESPONSE"
                        [] pc.ready /\ ~pc.invalidate  -> "WAIT_RESPONSE"
                        [] ~pc.ready /\ pc.invalidate  -> "IDLE"
                        [] ~pc.ready /\ ~pc.invalidate -> "SEND_REQUEST"
  /\ UNCHANGED tlb_req_tmp

\* Fault: a request made during the walk cleans entries, which beats the write.
WaitResponse_Cleans(rq, pc, st) ==
  /\ current_state = "WAIT_RESPONSE"
  /\ UpdateEntries(rq, pc, st, rq.valid, pc.resp.valid)
  /\ current_state' = CASE pc.resp.valid                    -> "IDLE"
                        [] ~pc.resp.valid /\ pc.invalidate  -> "INVALIDATED_WAIT_RESPONSE"
                        [] ~pc.resp.valid /\ ~pc.invalidate -> "WAIT_RESPONSE"
  /\ UNCHANGED tlb_req_tmp

WaitResponse(rq, pc, st) ==
  /\ current_state = "WAIT_RESPONSE"
  /\ UpdateEntries(rq, pc, st, FALSE, pc.resp.valid)
  /\ current_state' = CASE pc.resp.valid                    -> "IDLE"
                        [] ~pc.resp.valid /\ pc.invalidate  -> "INVALIDATED_WAIT_RESPONSE"
                        [] ~pc.resp.valid /\ ~pc.invalidate -> "WAIT_RESPONSE"
  /\ UNCHANGED tlb_req_tmp

InvalidatedWaitResponse(rq, pc, st) ==
  /\ current_state = "INVALIDATED_WAIT_RESPONSE"
  /\ UpdateEntries(rq, pc, st, FALSE, FALSE)
  /\ current_state' = IF pc.resp.valid THEN "IDLE" ELSE current_state
  /\ UNCHANGED tlb_req_tmp

Cycle(rq, pc, st) ==
  /\ \/ Idle(rq, pc, st)
     \/ SendRequest(rq, pc, st)
     \/ WaitResponse(rq, pc, st)
     \/ InvalidatedWaitResponse(rq, pc, st)
  /\ Plru!Cycle(rq.valid /\ tlb_hit(rq, st), hit_idx(rq.vpn))

\* The request to the walker (tlb_ptw_comm_o): the stored one, in SEND_REQUEST.
send_tlb_req == current_state = "SEND_REQUEST"
-----------------------------------------------------------------------------
(* Type correctness.  The memory-management unit has two instances of this *)
(* module, and uses these lemmas for both.                                 *)

(* The registers are well typed after reset.                               *)
LEMMA TlbTypeInit == Init => TypeOK
BY LevelsAssumption, RadixAssumption, PpnTopAssumption, TlbEntriesAssumption
   DEF Init, TypeOK, FsmState, Entry, TlbEntry, EmptyEntry, ReqTmp, ZeroVpn, ZeroPpn, Vpn, Ppn, Field, Level,
       Plru!Init, Plru!TypeOK

(* The entry a hit selects exists.                                         *)
LEMMA HitIdxType == ASSUME NEW vpn PROVE hit_idx(vpn) \in Entry
<1>1. hits_cam(vpn) \subseteq Entry /\ Entry \subseteq Nat /\ 0 \in Entry
  BY TlbEntriesAssumption DEF hits_cam, Entry
<1>2. QED
  BY <1>1, FirstMember DEF hit_idx, hit_cam

(* The entry a miss reserves exists.                                       *)
LEMMA EvictionIdxType == eviction_idx \in Entry
<1> DEFINE unused == {i \in Entry : ~tlb_entries[i].nempty}
<1>1. Entry \subseteq Nat /\ 0 \in Entry
  BY TlbEntriesAssumption DEF Entry
<1>2. CASE unused # {}
  <2>1. First(unused) \in unused
    BY <1>1, <1>2, FirstMember
  <2>2. QED
    BY <1>2, <2>1 DEF eviction_idx
<1>3. CASE unused = {}
  <2>1. Plru!replace_en \subseteq Entry
    BY DEF Plru!replace_en, Plru!Idx, Entry
  <2>2. Plru!replacement_idx \in Entry
    <3>1. CASE Plru!replace_en = {}
      BY <1>1, <3>1 DEF Plru!replacement_idx
    <3>2. CASE Plru!replace_en # {}
      <4>1. First(Plru!replace_en) \in Plru!replace_en
        BY <1>1, <2>1, <3>2, FirstMember
      <4>2. Plru!replacement_idx = First(Plru!replace_en)
        BY <3>2 DEF Plru!replacement_idx, First
      <4>3. QED
        BY <2>1, <4>1, <4>2
    <3>3. QED
      BY <3>1, <3>2
  <2>3. QED
    BY <1>3, <2>2 DEF eviction_idx
<1>4. QED
  BY <1>2, <1>3

(* What the walker's answer leaves in an entry is an entry.                *)
LEMMA FilledEntryType ==
  ASSUME TypeOK, NEW resp \in PtwResp
  PROVE  FilledEntry(resp) \in TlbEntry
<1> DEFINE ok(p, bit, user) == IF bit /\ resp.pte.u = user /\ resp.pte.v THEN {p} ELSE {}
<1>1. UNION {ok("ur", resp.pte.r, TRUE),  ok("uw", resp.pte.w, TRUE),
             ok("ux", resp.pte.x, TRUE),  ok("sr", resp.pte.r, FALSE),
             ok("sw", resp.pte.w, FALSE), ok("sx", resp.pte.x, FALSE)} \in SUBSET Perm
  BY DEF Perm
<1>2. QED
  BY <1>1 DEF FilledEntry, TypeOK, TlbEntry, ReqTmp, PtwResp, Pte

(* A cleared entry is an entry.                                            *)
LEMMA EmptyEntryType == EmptyEntry \in TlbEntry
BY LevelsAssumption, RadixAssumption, PpnTopAssumption
   DEF EmptyEntry, TlbEntry, ZeroVpn, ZeroPpn, Vpn, Ppn, Field, Level

(* Clearing and writing keep the CAM well typed.                           *)
LEMMA UpdateEntriesType ==
  ASSUME TypeOK, NEW rq, NEW pc \in PtwComm, NEW st, NEW clean, NEW write,
         UpdateEntries(rq, pc, st, clean, write)
  PROVE  tlb_entries' \in [Entry -> TlbEntry]
<1>1. pc.resp \in PtwResp
  BY DEF PtwComm
<1>2. tlb_entries \in [Entry -> TlbEntry] /\ tlb_req_tmp.write_idx \in Entry
  BY DEF TypeOK, ReqTmp
<1>3. QED
  BY <1>1, <1>2, EmptyEntryType, FilledEntryType DEF UpdateEntries

(* One clock cycle of the TLB keeps its registers well typed.              *)
LEMMA TlbTypeCycle ==
  ASSUME TypeOK, NEW rq \in CacheReq, NEW pc \in PtwComm, NEW st, Cycle(rq, pc, st)
  PROVE  TypeOK'
<1>1. current_state' \in FsmState /\ tlb_req_tmp' \in ReqTmp
      /\ tlb_entries' \in [Entry -> TlbEntry]
  <2>1. CASE Idle(rq, pc, st)
    BY <2>1, UpdateEntriesType, EvictionIdxType DEF Idle, TypeOK, FsmState, ReqTmp, CacheReq
  <2>2. CASE SendRequest(rq, pc, st)
    BY <2>2, UpdateEntriesType DEF SendRequest, TypeOK, FsmState, PtwComm
  <2>3. CASE WaitResponse(rq, pc, st)
    BY <2>3, UpdateEntriesType DEF WaitResponse, TypeOK, FsmState, PtwComm, PtwResp
  <2>4. CASE InvalidatedWaitResponse(rq, pc, st)
    BY <2>4, UpdateEntriesType DEF InvalidatedWaitResponse, TypeOK, FsmState
  <2>5. QED
    BY <2>1, <2>2, <2>3, <2>4 DEF Cycle
<1>2. Plru!TypeOK'
  BY DEF Cycle, TypeOK, Plru!Cycle, Plru!Touched, Plru!TypeOK
<1>3. QED
  BY <1>1, <1>2 DEF TypeOK

-----------------------------------------------------------------------------
(* What a cycle leaves in the CAM, and what a request finds there.         *)

(* An entry in use was there before, and no flush came, or is the answer   *)
(* to the miss.                                                            *)
LEMMA EntriesNext ==
  ASSUME TypeOK, NEW rq, NEW pc \in PtwComm, NEW st, Cycle(rq, pc, st), NEW i \in Entry, tlb_entries'[i].nempty
  PROVE  \/ /\ tlb_entries'[i] = tlb_entries[i]
            /\ ~(pc.invalidate /\ i \in invalidate_mask)
         \/ /\ ~pc.invalidate /\ current_state = "WAIT_RESPONSE" /\ pc.resp.valid
            /\ i = tlb_req_tmp.write_idx /\ tlb_entries'[i] = FilledEntry(pc.resp)
            /\ \A j \in Entry \ {i} : tlb_entries'[j] = tlb_entries[j]
<1>1. tlb_entries \in [Entry -> TlbEntry] /\ tlb_req_tmp.write_idx \in Entry /\ ~EmptyEntry.nempty
  BY DEF TypeOK, ReqTmp, EmptyEntry
<1>2. ASSUME NEW clean, UpdateEntries(rq, pc, st, clean, FALSE)
      PROVE  tlb_entries'[i] = tlb_entries[i] /\ ~(pc.invalidate /\ i \in invalidate_mask)
  BY <1>1, <1>2 DEF UpdateEntries
<1>3. CASE WaitResponse(rq, pc, st)
  <2>1. UpdateEntries(rq, pc, st, FALSE, pc.resp.valid) /\ current_state = "WAIT_RESPONSE"
    BY <1>3 DEF WaitResponse
  <2>2. CASE pc.invalidate \/ ~pc.resp.valid
    BY <1>1, <2>1, <2>2 DEF UpdateEntries
  <2>3. CASE ~pc.invalidate /\ pc.resp.valid
    <3>1. tlb_entries' = [tlb_entries EXCEPT ![tlb_req_tmp.write_idx] = FilledEntry(pc.resp)]
      BY <2>1, <2>3 DEF UpdateEntries
    <3> QED BY <1>1, <2>1, <2>3, <3>1
  <2> QED BY <2>2, <2>3
<1>4. CASE ~WaitResponse(rq, pc, st)
  <2>1. \E clean : UpdateEntries(rq, pc, st, clean, FALSE)
    BY <1>4 DEF Cycle, Idle, SendRequest, InvalidatedWaitResponse
  <2> QED BY <1>2, <2>1
<1> QED BY <1>3, <1>4

(* The permissions of an answer.                                           *)
LEMMA FilledPerms ==
  ASSUME NEW resp \in PtwResp
  PROVE  LET pte == resp.pte
             perms == FilledEntry(resp).perms
         IN  /\ "ur" \in perms <=> pte.v /\ pte.r /\ pte.u
             /\ "uw" \in perms <=> pte.v /\ pte.w /\ pte.u
             /\ "ux" \in perms <=> pte.v /\ pte.x /\ pte.u
             /\ "sr" \in perms <=> pte.v /\ pte.r /\ ~pte.u
             /\ "sw" \in perms <=> pte.v /\ pte.w /\ ~pte.u
             /\ "sx" \in perms <=> pte.v /\ pte.x /\ ~pte.u
             /\ perms \subseteq Perm
<1> DEFINE ok(p, bit, user) == IF bit /\ resp.pte.u = user /\ resp.pte.v THEN {p} ELSE {}
<1>1. resp.pte \in Pte
  BY DEF PtwResp
<1>2. {resp.pte.v, resp.pte.r, resp.pte.w, resp.pte.x, resp.pte.u} \subseteq BOOLEAN
  BY <1>1 DEF Pte
<1>3. FilledEntry(resp).perms =
        UNION {ok("ur", resp.pte.r, TRUE),  ok("uw", resp.pte.w, TRUE),
               ok("ux", resp.pte.x, TRUE),  ok("sr", resp.pte.r, FALSE),
               ok("sw", resp.pte.w, FALSE), ok("sx", resp.pte.x, FALSE)}
  BY DEF FilledEntry
<1> QED BY <1>2, <1>3 DEF Perm

(* A request that hits reads an entry that maps its page.                  *)
LEMMA HitCovers ==
  ASSUME NEW vpn, hit_cam(vpn)
  PROVE  \E i \in Entry : Selected(vpn) = tlb_entries[i] /\ Covers(tlb_entries[i], vpn)
<1>1. hits_cam(vpn) \subseteq Nat /\ hits_cam(vpn) # {}
  BY TlbEntriesAssumption DEF hits_cam, Entry, hit_cam
<1>2. hit_idx(vpn) \in hits_cam(vpn)
  BY <1>1, FirstMember DEF hit_idx, hit_cam
<1> QED BY <1>2 DEF Selected, hits_cam
=============================================================================
