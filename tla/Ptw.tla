-------------------------------- MODULE Ptw ---------------------------------
(***************************************************************************)
(* rtl/mmu/rtl/ptw/ptw.sv: the page-table walker and its PTE cache.        *)
(*                                                                         *)
(* treq is the request the arbiter forwards in the cycle, dmem what the    *)
(* data cache answers on the walker's port (a record with fields ready,    *)
(* valid and data, a Pte), csr the fields satp and flush the CSR file      *)
(* drives.  nack is tied to 0 in the tile; the privilege level, the store  *)
(* and the fetch flag of the request only feed perm_ok, which nothing uses.*)
(***************************************************************************)
EXTENDS MmuPkg

VARIABLES
  current_state,
  count_q,          \* level of the walk
  r_req,            \* page being translated
  r_pte,            \* last PTE read; at first, its ppn is the root of the table
  ptecache_entry,   \* the PTE cache: non-leaf PTEs by their address
  access_hit,       \* a PTE-cache hit in the previous cycle
  plru_tree_q

ptwVars == <<current_state, count_q, r_req, r_pte, ptecache_entry, access_hit, plru_tree_q>>

Plru == INSTANCE PseudoLru WITH ENTRIES <- PTW_CACHE_SIZE

Slot == 0 .. PTW_CACHE_SIZE-1

\* The address of a PTE: the page of its table and its index there.
PteAddr == Ppn \X (0 .. RADIX-1)

CacheEntry == [valid : BOOLEAN, tags : PteAddr, data : Ppn]

TypeOK ==
  /\ current_state \in {"S_READY", "S_REQ", "S_WAIT", "S_DONE", "S_ERROR"}
  /\ count_q \in Level
  /\ r_req \in Vpn
  /\ r_pte \in Pte
  /\ ptecache_entry \in [Slot -> CacheEntry]
  /\ access_hit \in BOOLEAN
  /\ Plru!TypeOK

Init ==
  /\ current_state = "S_READY"
  /\ count_q = 0
  /\ r_req = ZeroVpn
  /\ r_pte = ZeroPte
  /\ ptecache_entry = [i \in Slot |-> [valid |-> FALSE, tags |-> <<ZeroPpn, 0>>, data |-> ZeroPpn]]
  /\ access_hit = FALSE
  /\ Plru!Init
-----------------------------------------------------------------------------
(* Address of the PTE of the current level.  pte_addr has SIZE_VADDR+1     *)
(* bits, one more than LEVELS fields and the page offset.                  *)

pte_addr == <<[r_pte.ppn EXCEPT ![1] = @ % (2*RADIX)], r_req[count_q+1]>>

hit_vector    == {i \in Slot : ptecache_entry[i].valid /\ ptecache_entry[i].tags = pte_addr}
pte_cache_hit == hit_vector # {}
hit_idx       == IF pte_cache_hit THEN First(hit_vector) ELSE 0

\* A hit is used on every level but the last.
cache_step == current_state = "S_REQ" /\ pte_cache_hit /\ count_q < LEVELS-1
-----------------------------------------------------------------------------
(* Decoding of the PTE the data cache returns.                             *)

HasPerm(data) == data.r \/ data.w \/ data.x

\* Fault: the alignment of superpages is not checked.
pte_v_Misaligned(data) == data.v

\* A superpage must be aligned: otherwise its valid bit is taken as 0.
pte_v(data) == data.v /\ (HasPerm(data) => \A k \in count_q+2 .. LEVELS : data.ppn[k] = 0)

is_pte_table(data) == pte_v(data) /\ ~HasPerm(data)
is_pte_leaf(data)  == pte_v(data) /\ HasPerm(data)
invalid_pte(data)  == data.rsv \/ (is_pte_table(data) /\ (data.d \/ data.a \/ data.u))
-----------------------------------------------------------------------------
(* The answer to the TLB.  The PPN is cut to SIZE_VADDR bits; the fields   *)
(* below the page size are those of the virtual page.                      *)

resp_ppn == [k \in Field |-> IF k > count_q+1 THEN r_req[k]
                             ELSE IF k = 1 THEN r_pte.ppn[1] % RADIX
                             ELSE r_pte.ppn[k]]

resp == [valid |-> current_state \in {"S_DONE", "S_ERROR"},
         error |-> current_state = "S_ERROR",
         pte   |-> [r_pte EXCEPT !.ppn = resp_ppn],
         level |-> count_q]
-----------------------------------------------------------------------------
(* The registers.                                                          *)

\* The slot a new PTE goes to.
fill_idx == LET unused == {i \in Slot : ~ptecache_entry[i].valid}
            IN  IF unused = {} THEN Plru!replacement_idx ELSE First(unused)

\* Fault: a PTE is cached again though its address hits.
cache_fill_Twice(dmem) == dmem.valid /\ is_pte_table(dmem.data)

cache_fill(dmem) == dmem.valid /\ is_pte_table(dmem.data) /\ ~pte_cache_hit

\* Fault: the flush does not reach the PTE cache.
UpdateCache_NoFlush(dmem, csr) ==
  /\ ptecache_entry' =
       IF cache_fill(dmem)
         THEN [ptecache_entry EXCEPT ![fill_idx] =
                 [valid |-> TRUE, tags |-> pte_addr, data |-> dmem.data.ppn]]
         ELSE ptecache_entry
  /\ access_hit' = (~cache_fill(dmem) /\ pte_cache_hit /\ current_state = "S_REQ")
  /\ Plru!Cycle(access_hit, hit_idx)

\* A fill has priority over recording a hit, and both over the flush.
UpdateCache(dmem, csr) ==
  /\ ptecache_entry' =
       IF cache_fill(dmem)
         THEN [ptecache_entry EXCEPT ![fill_idx] =
                 [valid |-> TRUE, tags |-> pte_addr, data |-> dmem.data.ppn]]
       ELSE IF pte_cache_hit /\ current_state = "S_REQ" THEN ptecache_entry
       ELSE IF csr.flush THEN [i \in Slot |-> [ptecache_entry[i] EXCEPT !.valid = FALSE]]
       ELSE ptecache_entry
  /\ access_hit' = (~cache_fill(dmem) /\ pte_cache_hit /\ current_state = "S_REQ")
  /\ Plru!Cycle(access_hit, hit_idx)

Ready(treq, csr) ==
  /\ current_state = "S_READY"
  /\ current_state' = IF treq.valid THEN "S_REQ" ELSE "S_READY"
  /\ count_q' = 0
  /\ r_req' = IF treq.valid THEN treq.vpn ELSE r_req
  /\ r_pte' = IF treq.valid THEN [r_pte EXCEPT !.ppn = csr.satp] ELSE r_pte

CacheHit ==
  /\ cache_step
  /\ count_q' = count_q + 1
  /\ r_pte' = [r_pte EXCEPT !.ppn = ptecache_entry[hit_idx].data]
  /\ UNCHANGED <<current_state, r_req>>

Request(dmem) ==
  /\ current_state = "S_REQ" /\ ~cache_step
  /\ current_state' = IF dmem.ready THEN "S_WAIT" ELSE "S_REQ"
  /\ UNCHANGED <<count_q, r_req, r_pte>>

\* Fault: a table is followed on the last level too.
Wait_NoBound(dmem) ==
  LET descend == ~invalid_pte(dmem.data) /\ is_pte_table(dmem.data)
      done    == ~invalid_pte(dmem.data) /\ is_pte_leaf(dmem.data)
  IN  /\ current_state = "S_WAIT"
      /\ IF dmem.valid
           THEN /\ r_pte' = [dmem.data EXCEPT !.v = pte_v(dmem.data)]
                /\ count_q' = IF descend THEN count_q + 1 ELSE count_q
                /\ current_state' = IF descend THEN "S_REQ" ELSE IF done THEN "S_DONE" ELSE "S_ERROR"
           ELSE UNCHANGED <<current_state, count_q, r_pte>>
      /\ UNCHANGED r_req

Wait(dmem) ==
  LET descend == ~invalid_pte(dmem.data) /\ is_pte_table(dmem.data) /\ count_q < LEVELS-1
      done    == ~invalid_pte(dmem.data) /\ is_pte_leaf(dmem.data)
  IN  /\ current_state = "S_WAIT"
      /\ IF dmem.valid
           THEN /\ r_pte' = [dmem.data EXCEPT !.v = pte_v(dmem.data)]
                /\ count_q' = IF descend THEN count_q + 1 ELSE count_q
                /\ current_state' = IF descend THEN "S_REQ" ELSE IF done THEN "S_DONE" ELSE "S_ERROR"
           ELSE UNCHANGED <<current_state, count_q, r_pte>>
      /\ UNCHANGED r_req

Answer ==
  /\ current_state \in {"S_DONE", "S_ERROR"}
  /\ current_state' = "S_READY"
  /\ UNCHANGED <<count_q, r_req, r_pte>>

Cycle(treq, dmem, csr) ==
  /\ \/ Ready(treq, csr)
     \/ CacheHit
     \/ Request(dmem)
     \/ Wait(dmem)
     \/ Answer
  /\ UpdateCache(dmem, csr)
=============================================================================
