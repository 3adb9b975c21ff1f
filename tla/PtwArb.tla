------------------------------- MODULE PtwArb -------------------------------
(***************************************************************************)
(* rtl/mmu/rtl/ptw/ptw_arb.sv: the arbiter that lets the two TLBs share    *)
(* the page-table walker.  The data TLB wins when both ask in the same     *)
(* cycle; the instruction TLB's request is then kept in a register, told   *)
(* it was accepted, and served next.                                       *)
(*                                                                         *)
(* ireq and dreq are the TLBs' requests of the cycle, records with fields  *)
(* valid and vpn; resp is the walker's answer.                             *)
(***************************************************************************)
EXTENDS MmuPkg

VARIABLES
  current_state,       \* whose walk is in progress
  is_req_waiting_q,    \* an instruction-TLB request is kept
  itlb_req_waiting_q   \* the page of that request

arbVars == <<current_state, is_req_waiting_q, itlb_req_waiting_q>>

TypeOK ==
  /\ current_state \in {"IDLE", "SERVING_iTLB", "SERVING_dTLB"}
  /\ is_req_waiting_q \in BOOLEAN
  /\ itlb_req_waiting_q \in Vpn

Init ==
  /\ current_state = "IDLE"
  /\ is_req_waiting_q = FALSE
  /\ itlb_req_waiting_q = ZeroVpn

NoReq == [valid |-> FALSE, vpn |-> ZeroVpn]

\* ptw_ready towards both TLBs: withheld in the cycle in which the kept request
\* is taken up.
tlb_ready(ireq, dreq) ==
  /\ current_state = "IDLE"
  /\ (dreq.valid /\ ireq.valid) \/ ~is_req_waiting_q

\* Fault: the data TLB is not answered while a request is kept.
dtlb_resp_NotWhileWaiting(resp) ==
  IF current_state = "SERVING_dTLB" /\ ~is_req_waiting_q THEN resp ELSE NoResp

\* The walker's answer goes to the TLB being served.
itlb_resp(resp) == IF current_state = "SERVING_iTLB" THEN resp ELSE NoResp
dtlb_resp(resp) == IF current_state = "SERVING_dTLB" THEN resp ELSE NoResp

\* The request forwarded to the walker (tlb_ptw_comm_o).
tlb_ptw_req(ireq, dreq) ==
  CASE current_state = "SERVING_dTLB" -> dreq
    [] current_state = "SERVING_iTLB" ->
         IF is_req_waiting_q THEN [valid |-> TRUE, vpn |-> itlb_req_waiting_q] ELSE ireq
    [] current_state = "IDLE" ->
         IF dreq.valid /\ (ireq.valid \/ ~is_req_waiting_q) THEN dreq
         ELSE IF is_req_waiting_q THEN NoReq ELSE ireq

\* Fault: the instruction TLB's request is accepted but not kept.
AcceptBoth_Drops(ireq, dreq) ==
  /\ current_state = "IDLE" /\ dreq.valid /\ ireq.valid
  /\ current_state' = "SERVING_dTLB"
  /\ UNCHANGED <<is_req_waiting_q, itlb_req_waiting_q>>

\* Both ask: the data TLB is served, the instruction TLB's request is kept.
AcceptBoth(ireq, dreq) ==
  /\ current_state = "IDLE" /\ dreq.valid /\ ireq.valid
  /\ current_state' = "SERVING_dTLB"
  /\ is_req_waiting_q' = TRUE
  /\ itlb_req_waiting_q' = ireq.vpn

ResumeWaiting(ireq, dreq) ==
  /\ current_state = "IDLE" /\ ~(dreq.valid /\ ireq.valid) /\ is_req_waiting_q
  /\ current_state' = "SERVING_iTLB"
  /\ UNCHANGED <<is_req_waiting_q, itlb_req_waiting_q>>

AcceptOne(ireq, dreq) ==
  /\ current_state = "IDLE" /\ ~(dreq.valid /\ ireq.valid) /\ ~is_req_waiting_q
  /\ current_state' = CASE dreq.valid                -> "SERVING_dTLB"
                        [] ~dreq.valid /\ ireq.valid  -> "SERVING_iTLB"
                        [] ~dreq.valid /\ ~ireq.valid -> "IDLE"
  /\ UNCHANGED <<is_req_waiting_q, itlb_req_waiting_q>>

Serving(resp) ==
  /\ current_state \in {"SERVING_iTLB", "SERVING_dTLB"}
  /\ current_state' = IF resp.valid THEN "IDLE" ELSE current_state
  /\ is_req_waiting_q' = (is_req_waiting_q /\ ~(resp.valid /\ current_state = "SERVING_iTLB"))
  /\ UNCHANGED itlb_req_waiting_q

Cycle(ireq, dreq, resp) ==
  \/ AcceptBoth(ireq, dreq)
  \/ ResumeWaiting(ireq, dreq)
  \/ AcceptOne(ireq, dreq)
  \/ Serving(resp)
=============================================================================
