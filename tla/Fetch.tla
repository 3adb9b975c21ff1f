------------------------------- MODULE Fetch --------------------------------
(***************************************************************************)
(* Instruction fetch: the stages IF1 and IF2 (if_stage_1.sv, if_stage_2.sv),*)
(* the buffer of non-cacheable fetches (nc_icache_buffer.sv), the interface *)
(* of the instruction cache (icache_interface.sv) and the cache            *)
(* (sargantana_top_icache.sv, sargantana_icache_ctrl.sv).  The instruction *)
(* TLB, the level-2 cache and the control unit are the environment.        *)
(*                                                                         *)
(* A step is one clock cycle.  An address is a number: a page, which is    *)
(* also a line of the cache and a double word of the buffer, has two       *)
(* words.  The cache has one set.  Stores change memory all the time: a    *)
(* line of the cache is old once a fence.i has passed it, a line of the    *)
(* buffer once a redirection (a kill of the fetches in flight) has.        *)
(***************************************************************************)
EXTENDS Naturals

CONSTANTS
  Addr,         \* the addresses of instructions; page 0 has none
  RESET,        \* reset_addr_i
  Targets,      \* the ones jumped to
  NC,           \* pages outside cacheable memory
  FAULTY,       \* pages whose translation faults
  UNACCESSED,   \* those of them that do so because the A bit of their PTE is 0
  BAD,          \* addresses that IF1 finds misaligned or outside memory, with translation and without
  TLB_ENTRIES,
  Way,          \* ways of the cache
  CuKinds       \* what the control unit does

ASSUME FetchAssumption ==
  /\ Addr \subseteq Nat /\ Targets \subseteq Addr /\ RESET \in Addr /\ \A a \in Addr : a > 1
  /\ UNACCESSED \subseteq FAULTY /\ TLB_ENTRIES \in Nat \ {0}
  /\ CuKinds \subseteq {"stall1", "stall2", "jump", "held_jump", "serial", "trap", "csr", "fencei"}

VARIABLES
  pc, if2, resp_icache_cpu_q,
  state_q, valid_ireq_q, ireq_kill_q, is_flush_q, addr_q, mmu_tresp_q, cline_tag_q, ifill_req_was_sent_q,
  ways, rd,                                     \* tags, valid bits and lines; their output registers
  state_nc, icache_ncline_q, buffer_paddr_q, paddr_infly_q, nc_rsp_valid_q, req_nc_valid_q, nc_kill_q,
  en_translation, retry_fetch,                  \* from the CSR file and the control unit
  past,                                         \* what is past IF2: nothing, code, a page fault
  tlb, walk,                                    \* the pages of the TLB's entries; the page being walked, the
                                                \* entry for it, and whether the walker has been asked
  l2,                                           \* requests the level-2 cache has not answered
  dropped                                       \* history: the refill for the instruction in IF2 was given up

if_vars == <<pc, if2, resp_icache_cpu_q>>
ic_vars == <<state_q, valid_ireq_q, ireq_kill_q, is_flush_q, addr_q, mmu_tresp_q, cline_tag_q, ifill_req_was_sent_q, ways, rd>>
nc_vars == <<state_nc, icache_ncline_q, buffer_paddr_q, paddr_infly_q, nc_rsp_valid_q, req_nc_valid_q, nc_kill_q>>
env_vars == <<en_translation, retry_fetch, past, tlb, walk, l2, dropped>>
vars == <<if_vars, ic_vars, nc_vars, env_vars>>

Page(a) == a \div 2
Pages   == {0} \cup {Page(a) : a \in Addr}
NoPage  == 1000
\* That no walk is made is told apart from a walk for a page.
ASSUME SentinelAssumption == NoPage \notin Pages
Entry   == 0 .. TLB_ENTRIES - 1
NoWalk  == [page |-> NoPage, idx |-> 0, sent |-> FALSE]
Empty   == [v |-> FALSE, pc |-> RESET, ex |-> FALSE]
Succ(a) == LET above == {b \in Addr : b > a}
           IN  IF above = {} THEN RESET ELSE CHOOSE b \in above : \A c \in above : b <= c

\* A line is what the level-2 cache gave; an answer names the word taken from it.
Line     == [page : Pages, old : BOOLEAN]
NoAnswer == [v |-> FALSE, fault |-> FALSE, on_miss |-> FALSE, a |-> 0, old |-> FALSE]
Word(line, a) == [v |-> TRUE, fault |-> FALSE, on_miss |-> FALSE, a |-> 2 * line.page + (a % 2), old |-> line.old]
Fault(on_miss) == [v |-> TRUE, fault |-> TRUE, on_miss |-> on_miss, a |-> 0, old |-> FALSE]
Answer   == [v : BOOLEAN, fault : BOOLEAN, on_miss : BOOLEAN, a : Nat, old : BOOLEAN]
EmptyWay == [v |-> FALSE, tag |-> 0, line |-> [page |-> 0, old |-> FALSE]]
Aged(line, passed) == [line EXCEPT !.old = @ \/ passed]

States == {"NO_REQ", "READ", "MISS", "TLB_MISS", "REPLAY", "KILL", "REPLAY_TLB", "KILL_TLB"}

Types ==
  /\ pc \in Addr /\ if2 \in [v : BOOLEAN, pc : Addr, ex : BOOLEAN] /\ resp_icache_cpu_q \in Answer
  /\ state_q \in States /\ addr_q \in Addr /\ cline_tag_q \in Pages
  /\ {valid_ireq_q, ireq_kill_q, is_flush_q, ifill_req_was_sent_q} \subseteq BOOLEAN
  /\ mmu_tresp_q \in [miss : BOOLEAN, ptw_v : BOOLEAN, xcpt : BOOLEAN, ppn : Pages]
  /\ {ways, rd} \subseteq [Way -> [v : BOOLEAN, tag : Pages, line : Line]]
  /\ state_nc \in {"idle", "wait", "kill"} /\ icache_ncline_q \in Line
  /\ buffer_paddr_q \in Pages /\ paddr_infly_q \in Addr
  /\ {nc_rsp_valid_q, req_nc_valid_q, nc_kill_q, en_translation, retry_fetch} \subseteq BOOLEAN
  /\ past \in {"nothing", "code", "fault"}
  /\ tlb \in [Entry -> Pages \cup {NoPage}] /\ walk \in [page : Pages \cup {NoPage}, idx : Entry, sent : BOOLEAN]
  /\ l2 \subseteq [nc : BOOLEAN, page : Pages, old : BOOLEAN] /\ dropped \in BOOLEAN

\* The registers have their types, and the level-2 cache, whose answers carry no name, at
\* most one request of the cache and the buffer.
TypeOK == Types /\ \A r, s \in l2 : r = s

Init ==
  /\ pc = RESET /\ if2 = Empty /\ resp_icache_cpu_q = NoAnswer
  /\ state_q = "NO_REQ" /\ addr_q = RESET /\ cline_tag_q = 0
  /\ valid_ireq_q = FALSE /\ ireq_kill_q = FALSE /\ is_flush_q = FALSE /\ ifill_req_was_sent_q = FALSE
  /\ mmu_tresp_q = [miss |-> FALSE, ptw_v |-> FALSE, xcpt |-> FALSE, ppn |-> 0]
  /\ ways = [w \in Way |-> EmptyWay] /\ rd = ways
  /\ state_nc = "idle" /\ icache_ncline_q = [page |-> 0, old |-> FALSE]
  /\ buffer_paddr_q = 0 /\ paddr_infly_q = RESET
  /\ nc_rsp_valid_q = FALSE /\ req_nc_valid_q = FALSE /\ nc_kill_q = FALSE
  /\ en_translation = FALSE /\ retry_fetch = FALSE /\ past = "nothing"
  /\ tlb = [i \in Entry |-> NoPage] /\ walk = NoWalk /\ l2 = {} /\ dropped = FALSE
-----------------------------------------------------------------------------
(* The cache controller's outputs.  in.grant is the answer of the level-2  *)
(* cache: a set of at most one line.                                       *)
granted(in) == in.grant # {}
new_request(in) == valid_ireq_q /\ ~granted(in)
is_flush_or_kill == is_flush_q \/ ireq_kill_q
hits == {w \in Way : rd[w].v /\ rd[w].tag = mmu_tresp_q.ppn}
is_hit == hits # {}
miss == mmu_tresp_q.miss
xcpt == mmu_tresp_q.xcpt

\* Fault: not ready in the cycle of an answer.
ctrl_ready_AfterAnswer(in) ==
  state_q = "READ" /\ (is_flush_or_kill \/ ~new_request(in))
ctrl_ready(in) ==
  state_q = "READ" /\ (is_flush_or_kill \/ ~new_request(in) \/ ((is_hit \/ xcpt) /\ ~miss))

iresp_valid(in) ==
  \/ state_q = "READ" /\ ((is_hit /\ ~miss) \/ xcpt) /\ ~is_flush_or_kill /\ new_request(in)
  \/ state_q \in {"TLB_MISS", "REPLAY", "REPLAY_TLB"} /\ xcpt

\* retry_fetch is the kill of the current cycle.
ifill_req_valid(in) ==
  state_q = "READ" /\ ~is_hit /\ ~xcpt /\ ~miss /\ ~is_flush_or_kill /\ new_request(in) /\ ~retry_fetch

replay_valid == (state_q = "REPLAY" /\ ~is_flush_or_kill /\ ~xcpt) \/ state_q = "REPLAY_TLB"
cache_wr_ena(in) == state_q = "MISS" /\ granted(in) /\ ~is_flush_or_kill
ifill_req_was_sent_d(in) == ifill_req_valid(in) \/ (ifill_req_was_sent_q /\ ~granted(in))

(* The buffer's outputs.                                                   *)
same_addr_req == Page(paddr_infly_q) = buffer_paddr_q
is_in_buffer  == req_nc_valid_q /\ same_addr_req
req_nc_valid  == state_nc = "idle" /\ req_nc_valid_q /\ ~same_addr_req
waiting       == req_nc_valid \/ state_nc # "idle"
nc_rsp_valid_d(in) == state_nc = "wait" /\ ~nc_kill_q /\ granted(in)

(* What fetch sees.  A page fault is answered even when it is killed, and  *)
(* when the TLB missed.  For an exception of IF1 nothing is asked.         *)
ready(in) == ctrl_ready(in) /\ ~waiting
resp(in) ==
  IF nc_rsp_valid_q \/ is_in_buffer THEN Word(icache_ncline_q, paddr_infly_q)
  ELSE IF iresp_valid(in) /\ xcpt THEN Fault(miss)
  ELSE IF iresp_valid(in) /\ ~retry_fetch THEN Word(rd[CHOOSE w \in hits : TRUE].line, addr_q)
  ELSE NoAnswer
answered(in) == resp(in).v \/ if2.ex \/ resp_icache_cpu_q.v
answer(in)   == IF if2.ex THEN Fault(FALSE) ELSE IF resp_icache_cpu_q.v THEN resp_icache_cpu_q ELSE resp(in)
-----------------------------------------------------------------------------
(* The control unit.  A jump of a branch or of a JAL flushes IF but does   *)
(* not kill the request of the cache; a trap, a CSR instruction and a      *)
(* fence.i in write-back do, one cycle later (retry_fetch), and redirect   *)
(* fetch then, whatever a jump in the same cycle did.                      *)
flush_if(in) == retry_fetch \/ in.cu \in {"jump", "serial", "trap", "csr", "fencei"}
stall_if_2(in) == in.cu \in {"stall2", "held_jump"} \/ (if2.v /\ ~answered(in))
stall_if_1(in) == in.cu \in {"stall1", "csr", "fencei"} \/ ~ready(in) \/ stall_if_2(in)
jumps(in) == retry_fetch \/ in.cu \in {"jump", "held_jump"}
invalidate_icache(in) == in.cu = "fencei"

fetch_valid(in) == ~stall_if_1(in) /\ ~retry_fetch
is_nc(a) == Page(a) \in NC /\ ~en_translation
is_bad(a) == a \in BAD[en_translation]
request_valid(in) == fetch_valid(in) /\ ~is_bad(pc)
do_icache_request(in) == request_valid(in) /\ ~is_nc(pc) /\ ctrl_ready(in)
nc_kill_d(in) == retry_fetch \/ invalidate_icache(in)
req_nc_valid_d(in) == request_valid(in) /\ is_nc(pc) /\ ~nc_kill_d(in)

SaveAnswer(in) ==
  resp_icache_cpu_q' = IF flush_if(in) THEN NoAnswer
                       ELSE IF resp(in).v /\ stall_if_2(in) THEN resp(in)
                       ELSE IF ~stall_if_2(in) THEN NoAnswer
                       ELSE resp_icache_cpu_q

IfCycle(in) ==
  /\ pc' = IF jumps(in) THEN in.target
           ELSE IF in.cu = "serial" \/ stall_if_1(in) THEN pc ELSE Succ(pc)
  /\ if2' = IF flush_if(in) THEN Empty
            ELSE IF stall_if_1(in) THEN if2
            ELSE IF fetch_valid(in) THEN [v |-> TRUE, pc |-> pc, ex |-> is_bad(pc)]
            ELSE Empty
  /\ SaveAnswer(in)
-----------------------------------------------------------------------------
\* Fault: a refill is written although its request was killed.
Refill_IgnoresKill(in) ==
  ways' = IF invalidate_icache(in) THEN [w \in Way |-> [ways[w] EXCEPT !.v = FALSE, !.line.old = TRUE]]
          ELSE IF state_q \in {"MISS", "KILL"} /\ granted(in)
            THEN [ways EXCEPT ![in.way] = [v |-> TRUE, tag |-> cline_tag_q, line |-> CHOOSE l \in in.grant : TRUE]]
          ELSE ways
Refill(in) ==
  ways' = IF invalidate_icache(in) THEN [w \in Way |-> [ways[w] EXCEPT !.v = FALSE, !.line.old = TRUE]]
          ELSE IF cache_wr_ena(in)
            THEN [ways EXCEPT ![in.way] = [v |-> ~retry_fetch /\ ~ireq_kill_q, tag |-> cline_tag_q, line |-> CHOOSE l \in in.grant : TRUE]]
          ELSE ways

\* Faults: a killed refill waits for an answer, also for one that has come; or for none.
kill_done_WaitsAnswer(in) == granted(in)
kill_done_AtOnce(in) == TRUE
kill_done(in) == ~ifill_req_was_sent_d(in)

ControllerCycle(in) ==
  state_q' =
    CASE state_q = "READ" ->
           (IF is_flush_or_kill \/ ~new_request(in) THEN "READ"
            ELSE IF miss THEN "TLB_MISS" ELSE IF is_hit \/ xcpt THEN "READ" ELSE "MISS")
      [] state_q = "MISS" ->
           (IF is_flush_or_kill \/ xcpt THEN "KILL" ELSE IF granted(in) THEN "REPLAY" ELSE "MISS")
      [] state_q = "TLB_MISS" ->
           (IF is_flush_or_kill /\ ~mmu_tresp_q.ptw_v THEN "KILL_TLB"
            ELSE IF xcpt \/ is_flush_or_kill THEN "READ"
            ELSE IF mmu_tresp_q.ptw_v THEN "REPLAY_TLB" ELSE "TLB_MISS")
      [] state_q = "KILL" -> (IF kill_done(in) THEN "READ" ELSE "KILL")
      [] state_q = "KILL_TLB" -> (IF mmu_tresp_q.ptw_v THEN "READ" ELSE "KILL_TLB")
      [] OTHER -> "READ"      \* NO_REQ, REPLAY, REPLAY_TLB: the memory sends no invalidations

\* The instruction TLB: a miss starts a walk, which takes a cycle to be asked for and
\* whose answer fills the entry chosen at the miss; while it lasts no other is started.
\* A request may clean entries that fault, but not those of pages with A = 0.
\* The entry is the first empty one, or when there is none any (pseudoLRU).
Evictable == {i \in Entry : \A j \in Entry : tlb[j] = NoPage => tlb[i] = NoPage /\ i <= j}
ItlbCycle(in, valid, page, absent) ==
  /\ walk' \in IF in.ptw THEN {NoWalk}
               ELSE IF walk # NoWalk THEN {[walk EXCEPT !.sent = TRUE]}
               ELSE IF valid /\ absent THEN {[page |-> page, idx |-> i, sent |-> FALSE] : i \in Evictable} ELSE {NoWalk}
  /\ tlb' = IF in.ptw THEN [tlb EXCEPT ![walk.idx] = walk.page]
            ELSE IF in.clean /\ valid THEN [i \in Entry |-> IF tlb[i] \in FAULTY \ UNACCESSED THEN NoPage ELSE tlb[i]]
            ELSE tlb

\* When no entry hits, the exception is that of entry 0, if its page has A = 0.
mmu_tresp_d(in, page, absent) ==
  [miss |-> absent, ptw_v |-> in.ptw, ppn |-> IF absent THEN 0 ELSE page,
   xcpt |-> en_translation /\ (IF absent THEN tlb[0] \in UNACCESSED ELSE page \in FAULTY)]

IcacheCycle(in) ==
  LET addr_d == IF do_icache_request(in) THEN pc ELSE addr_q
      valid_ireq_d == do_icache_request(in) \/ replay_valid
      page == Page(addr_d)
      absent == en_translation /\ \A i \in Entry : tlb[i] # page
  IN  /\ ControllerCycle(in)
      /\ addr_q' = addr_d
      /\ valid_ireq_q' = valid_ireq_d
      /\ ireq_kill_q' = retry_fetch
      /\ is_flush_q' = invalidate_icache(in)
      /\ ifill_req_was_sent_q' = ifill_req_was_sent_d(in)
      /\ mmu_tresp_q' = mmu_tresp_d(in, page, absent)
      /\ cline_tag_q' = mmu_tresp_q.ppn
      /\ Refill(in)
      /\ rd' = IF invalidate_icache(in) THEN [w \in Way |-> [rd[w] EXCEPT !.v = FALSE, !.line.old = TRUE]]
               ELSE IF valid_ireq_d THEN ways ELSE rd
      /\ ItlbCycle(in, valid_ireq_d, page, absent)
-----------------------------------------------------------------------------
\* A killed request empties the buffer: it then has address 0.
BufferFill(in) ==
  buffer_paddr_q' = IF nc_kill_q THEN 0
                    ELSE IF nc_rsp_valid_d(in) THEN Page(paddr_infly_q) ELSE buffer_paddr_q

NcBufferCycle(in) ==
  /\ state_nc' = CASE state_nc = "idle" -> (IF req_nc_valid THEN "wait" ELSE "idle")
                   [] state_nc = "wait" -> (IF granted(in) THEN "idle" ELSE IF nc_kill_q THEN "kill" ELSE "wait")
                   [] state_nc = "kill" -> (IF granted(in) THEN "idle" ELSE "kill")
  /\ icache_ncline_q' = Aged(IF nc_rsp_valid_d(in) THEN CHOOSE l \in in.grant : TRUE ELSE icache_ncline_q, retry_fetch)
  /\ BufferFill(in)
  /\ paddr_infly_q' = IF req_nc_valid_d(in) THEN pc ELSE paddr_infly_q
  /\ nc_rsp_valid_q' = nc_rsp_valid_d(in)
  /\ req_nc_valid_q' = req_nc_valid_d(in)
  /\ nc_kill_q' = nc_kill_d(in)

\* The level-2 cache answers a request with memory as it is, or as it was when the
\* request came; the answers carry no name.
L2Cycle(in) ==
  l2' = {Aged(r, IF r.nc THEN retry_fetch ELSE invalidate_icache(in)) : r \in l2 \ {in.answers}}
        \cup (IF ifill_req_valid(in) THEN {[nc |-> FALSE, page |-> mmu_tresp_q.ppn, old |-> FALSE]} ELSE {})
        \cup (IF req_nc_valid THEN {[nc |-> TRUE, page |-> Page(paddr_infly_q), old |-> FALSE]} ELSE {})

ControlCycle(in) ==
  /\ retry_fetch' = (in.cu \in {"trap", "csr", "fencei"})
  /\ en_translation' = in.en

\* What is past IF2, and the history variable.
PastCycle(in) ==
  /\ past' = IF retry_fetch THEN "nothing"
             ELSE IF ~flush_if(in) /\ ~stall_if_2(in) /\ if2.v
               THEN (IF answer(in).fault THEN "fault" ELSE IF past = "fault" THEN past ELSE "code")
             ELSE IF flush_if(in) /\ past = "fault" THEN "code" ELSE past
  /\ dropped' = (~flush_if(in) /\ (dropped \/ (if2.v /\ state_q = "MISS" /\ xcpt /\ ~is_flush_or_kill)))

Cycle(in) ==
  /\ ControlCycle(in) /\ L2Cycle(in) /\ IfCycle(in) /\ PastCycle(in)
  /\ IcacheCycle(in) /\ NcBufferCycle(in)

\* Inputs.  Instructions past IF2 stall, flush and redirect fetch; IF1 is stalled
\* alone only when IF2 is empty.
None == [nc |-> FALSE, page |-> NoPage, old |-> FALSE]
Cus == IF retry_fetch \/ past = "nothing" THEN {"go"} ELSE {"go"} \cup {k \in CuKinds : k = "stall1" => ~if2.v}
TargetsOf(cu) == IF retry_fetch \/ cu \in {"jump", "held_jump"} THEN Targets ELSE {RESET}
Grants(r) == IF r = None THEN {{}} ELSE {{[page |-> r.page, old |-> o]} : o \in {r.old, FALSE}}

\* A cycle in which one of `answering' is answered, and whether the walk ends is one of
\* `walking'.
CycleWith(answering, walking) ==
  \E cu \in Cus, r \in answering, w \in Way :
    \E target \in TargetsOf(cu), grant \in Grants(r), ptw \in walking,
       clean \in (IF walk = NoWalk /\ \E i \in Entry : tlb[i] \in FAULTY \ UNACCESSED THEN BOOLEAN ELSE {FALSE}),
       en \in (IF cu \in {"trap", "csr"} THEN BOOLEAN ELSE {en_translation}) :
      Cycle([cu |-> cu, target |-> target, grant |-> grant, answers |-> r, way |-> w,
             ptw |-> ptw, clean |-> clean, en |-> en])

PtwInputs  == IF walk.sent THEN BOOLEAN ELSE {FALSE}
ClockCycle == CycleWith(l2 \cup {None}, PtwInputs)

Next == ClockCycle
Spec == Init /\ [][Next]_vars

\* The clock runs; the level-2 cache answers; walks end (FetchMissEnds of Mmu).
L2Answers  == CycleWith(l2, PtwInputs)
WalkEnds   == walk.sent /\ CycleWith(l2 \cup {None}, {TRUE})
FairSpec == Spec /\ WF_vars(ClockCycle) /\ WF_vars(L2Answers) /\ WF_vars(WalkEnds)
-----------------------------------------------------------------------------
Granting(r) == [grant |-> IF r = None THEN {} ELSE {[page |-> r.page, old |-> r.old]}]

(* What IF2 takes for an address is the instruction at that address, or a  *)
(* fault if the address or its page faults, and was not read before the    *)
(* last fence.i (if it came through the cache) or than the last            *)
(* redirection (if it came through the buffer): no answer of a flushed,    *)
(* killed or replayed request is taken for it.  The exception is a page    *)
(* fault answered on a miss of the TLB, for a page that need not fault,    *)
(* which only pages with A = 0 bring about.                                *)
RightInstruction ==
  \A r \in l2 \cup {None} : if2.v /\ answered(Granting(r)) =>
    LET ans == answer(Granting(r))
    IN  IF is_bad(if2.pc) \/ (en_translation /\ Page(if2.pc) \in FAULTY) THEN ans.fault
        ELSE \/ ~ans.fault /\ ans.a = if2.pc /\ ~ans.old
             \/ ans.fault /\ ans.on_miss /\ en_translation /\ UNACCESSED # {}

(* An answer that IF2 takes finds the cache and the buffer ready, unless   *)
(* it is a page fault: IF1 then moves with IF2, which would otherwise keep *)
(* an instruction it has delivered and wait for it again.                  *)
ReadyWhenAnswered ==
  \A r \in l2 \cup {None} :
    if2.v /\ answered(Granting(r)) => ready(Granting(r)) \/ answer(Granting(r)).fault

(* The cache waits for the answer of a walk that nobody does: its request  *)
(* missed in the cycle in which the TLB, busy with a walk for a request    *)
(* killed before, got the answer of that one.                              *)
WalkLost == state_q \in {"TLB_MISS", "KILL_TLB"} /\ walk = NoWalk /\ ~mmu_tresp_q.ptw_v

(* Fetch goes on: IF2 does not wait forever for an answer, nor IF1 for the *)
(* cache and the buffer to be ready, whatever was killed, refilled or      *)
(* replayed before, unless a walk is lost, or a refill is dropped because  *)
(* the page left the TLB and entry 0 then had a page with A = 0.  (When a  *)
(* fault is past IF2, its trap will flush.)                                *)
Blocked == IF if2.v THEN ~answered(Granting(None)) ELSE ~ready(Granting(None))
FetchGoesOn == Blocked ~> (~Blocked \/ WalkLost \/ dropped \/ past = "fault")
=============================================================================
