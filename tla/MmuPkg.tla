------------------------------- MODULE MmuPkg -------------------------------
(***************************************************************************)
(* The data the TLBs, the page-table walker and the page tables in memory  *)
(* exchange: the records of rtl/mmu/includes/mmu_pkg.sv.                   *)
(*                                                                         *)
(* A virtual page number is a sequence of LEVELS fields, most significant  *)
(* first; a field is one 9-bit index of the code (PAGE_LVL_BITS).  A       *)
(* physical page number has the same fields, its top one wider.  The       *)
(* address-space identifier is left out: both TLBs of the tile tie it to 0.*)
(***************************************************************************)
EXTENDS Naturals, WellFoundedInduction, TLAPS

CONSTANTS
  LEVELS,   \* levels of the page table (3)
  RADIX,    \* entries of one table, i.e. values of one VPN field (2^9)
  PPN_TOP,  \* values of the top field of a PPN (2^26 in a PPN of 44 bits)
  TLB_ENTRIES,      \* entries of a TLB (8)
  PTW_CACHE_SIZE    \* entries of the walker's PTE cache (3)

ASSUME LevelsAssumption == LEVELS \in Nat /\ LEVELS >= 1
ASSUME RadixAssumption  == RADIX \in Nat /\ RADIX >= 1
ASSUME PpnTopAssumption == PPN_TOP \in Nat /\ PPN_TOP >= RADIX
ASSUME TlbEntriesAssumption == TLB_ENTRIES \in Nat /\ TLB_ENTRIES >= 2
ASSUME PtwCacheAssumption == PTW_CACHE_SIZE \in Nat /\ PTW_CACHE_SIZE >= 2

Level == 0 .. LEVELS-1      \* 0 is GIGA_PAGE, LEVELS-1 is KILO_PAGE
Field == 1 .. LEVELS        \* positions in a page number, 1 the top field

Vpn == [Field -> 0 .. RADIX-1]
Ppn == {p \in [Field -> 0 .. PPN_TOP-1] : \A k \in Field \ {1} : p[k] < RADIX}

ZeroVpn == [k \in Field |-> 0]
ZeroPpn == [k \in Field |-> 0]

\* A page-table entry as the 64-bit word in memory: rsv stands for any of the
\* bits above the PPN (N, PBMT, Reserved) being set.
Pte == [v : BOOLEAN, r : BOOLEAN, w : BOOLEAN, x : BOOLEAN, u : BOOLEAN,
        a : BOOLEAN, d : BOOLEAN, rsv : BOOLEAN, ppn : Ppn]

ZeroPte == [v |-> FALSE, r |-> FALSE, w |-> FALSE, x |-> FALSE, u |-> FALSE,
            a |-> FALSE, d |-> FALSE, rsv |-> FALSE, ppn |-> ZeroPpn]

\* A word of memory; what is not a page table holds invalid PTEs.
Word(m, addr) == IF addr \in DOMAIN m THEN m[addr] ELSE ZeroPte

\* ptw_tlb_resp_t, the answer of the walker.
PtwResp == [valid : BOOLEAN, error : BOOLEAN, pte : Pte, level : Level]

NoResp == [valid |-> FALSE, error |-> FALSE, pte |-> ZeroPte, level |-> 0]

\* A request of a cache or of the memory unit to its TLB (cache_tlb_comm_t).
\* priv is FALSE in user mode; passthrough is tied to 0 in the tile.
CacheReq == [valid : BOOLEAN, vpn : Vpn, store : BOOLEAN,
             priv : BOOLEAN, vm_enable : BOOLEAN]

\* The two bits of mstatus the permission check reads.
Status == [sum : BOOLEAN, mxr : BOOLEAN]

\* What a TLB receives from the arbiter in a cycle (ptw_tlb_comm_t).
PtwComm == [ready : BOOLEAN, invalidate : BOOLEAN, resp : PtwResp]

\* Index of a priority encoder: the lowest member of a non-empty set.
First(S) == CHOOSE i \in S : \A j \in S : i <= j

(* A priority encoder returns the lowest member of the set it looks at     *)
(* (the loops that compute hit_idx, invalid_idx and priorityEncoder_idx).  *)
LEMMA FirstLeast ==
  ASSUME NEW S, S \subseteq Nat, S # {}
  PROVE  First(S) \in S /\ \A j \in S : First(S) <= j
<1> DEFINE Less == {p \in Nat \X Nat : p[1] < p[2]}
<1>1. IsWellFoundedOn(Less, Nat)
  BY NatLessThanWellFounded, Zenon DEF OpToRel
<1>2. \E i \in S : \A j \in S : ~(<<j, i>> \in Less)
  <2> HIDE DEF Less
  <2> QED BY <1>1, WFMin, Zenon
<1>3. \E i \in S : \A j \in S : i <= j
  <2>1. PICK i \in S : \A j \in S : ~(<<j, i>> \in Less)
    BY <1>2
  <2>2. ASSUME NEW j \in S
        PROVE  i <= j
    <3>1. ~(j < i)
      <4>1. SUFFICES ASSUME j < i PROVE <<j, i>> \in Less
        BY <2>1
      <4>2. <<j, i>> \in Nat \X Nat
        OBVIOUS
      <4>3. QED
        BY <4>1, <4>2
    <3>2. QED
      BY <3>1
  <2>3. QED
    BY <2>2
<1>4. QED
  BY <1>3 DEF First

(* It returns a member of the set.                                         *)
LEMMA FirstMember ==
  ASSUME NEW S, S \subseteq Nat, S # {}
  PROVE  First(S) \in S
BY FirstLeast

(* Constants of the reset state are well typed.                            *)
LEMMA ZeroTypes == ZeroVpn \in Vpn /\ ZeroPpn \in Ppn /\ ZeroPte \in Pte /\ NoResp \in PtwResp
BY LevelsAssumption, RadixAssumption, PpnTopAssumption
   DEF ZeroVpn, ZeroPpn, ZeroPte, NoResp, Vpn, Ppn, Pte, PtwResp, Level, Field
=============================================================================
