--------------------------- MODULE DcacheInterface --------------------------
(***************************************************************************)
(* rtl/interface_dcache/rtl/dcache_interface.sv: between the memory unit   *)
(* and the data cache.  It translates the instruction's type into the      *)
(* cache's operation and keeps the tags that are in use, so that a tag is  *)
(* not used again before its answer.                                       *)
(***************************************************************************)
EXTENDS Naturals

CONSTANT TAGS

VARIABLE transaction_table    \* tag -> "IDLE" or "PENDING"

TypeOK == transaction_table \in [0 .. TAGS-1 -> {"IDLE", "PENDING"}]

Init == transaction_table = [t \in 0 .. TAGS-1 |-> "IDLE"]

\* The cache's operation: a type that is no memory operation is a load.
CacheOp(type) == CASE type = "STORE" -> "STORE"
                   [] type = "AMO"   -> "AMO"
                   [] type = "LR"    -> "LR"
                   [] type \in {"LOAD", "ADD"} -> "LOAD"

wait_resp_same_tag(tag) == transaction_table[tag] = "PENDING"

core_req_valid(valid, tag)   == valid /\ ~wait_resp_same_tag(tag)
resp_ready(dcache_ready, tag) == dcache_ready /\ ~wait_resp_same_tag(tag)

\* Fault: the tag of an answer stays in use.
Cycle_KeepsTag(send, tag, receive, rsp_tag) ==
  transaction_table' =
    [t \in 0 .. TAGS-1 |-> IF send /\ t = tag THEN "PENDING" ELSE transaction_table[t]]

\* The answer is recorded after the request.
Cycle(send, tag, receive, rsp_tag) ==
  transaction_table' =
    [t \in 0 .. TAGS-1 |-> CASE receive /\ t = rsp_tag -> "IDLE"
                             [] ~(receive /\ t = rsp_tag) /\ send /\ t = tag -> "PENDING"
                             [] OTHER -> transaction_table[t]]
=============================================================================
