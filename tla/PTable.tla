------------------------------- MODULE PTable -------------------------------
(***************************************************************************)
(* The page table of src/base/ptable.c, a hash table with chaining that    *)
(* only grows, and the byte accesses of mem.c and the loader on it.  A     *)
(* table is a function from buckets to chains, newest page first.  The     *)
(* hash is any function: nothing depends on how ptable_hash mixes bytes.   *)
(* Protection bits are left out, since nothing reads them.                 *)
(***************************************************************************)
EXTENDS Integers, Sequences

CONSTANTS
  PageSize,    \* PAGESIZE
  PageNumbers, \* 0 .. 2^52 - 1
  Buckets,     \* 0 .. HASHSIZE - 1
  Hash(_),     \* ptable_hash
  Bytes        \* what a byte may hold

ASSUME PTableAssumption ==
  /\ PageSize \in Nat \ {0}
  /\ PageNumbers \subseteq Nat
  /\ 0 \in Bytes
  /\ \A pnum \in PageNumbers : Hash(pnum) \in Buckets

Offsets == 0 .. PageSize - 1

PageNumber(addr) == addr \div PageSize
PageOffset(addr) == addr % PageSize

InSpace(addr) == addr \in Nat /\ PageNumber(addr) \in PageNumbers

Pages == [p_num : PageNumbers, p_data : [Offsets -> Bytes]]

EmptyTable == [h \in Buckets |-> <<>>]

(* The places of a chain whose page has the number.                        *)
Holding(chain, pnum) == {k \in DOMAIN chain : chain[k].p_num = pnum}

NULL == 0   \* no place in a chain

(* Seeded fault: the head of the chain is passed over.                     *)
get_pageNotHead(pt, pnum) ==
  LET found == Holding(pt[Hash(pnum)], pnum) \ {1}
  IN  IF found = {} THEN NULL ELSE CHOOSE k \in found : \A j \in found : k <= j

(* The loop along the chain stops at the first page with the number.       *)
get_page(pt, pnum) ==
  LET found == Holding(pt[Hash(pnum)], pnum)
  IN  IF found = {} THEN NULL ELSE CHOOSE k \in found : \A j \in found : k <= j

Present(pt, pnum) == get_page(pt, pnum) # NULL

FreshPage(pnum) == [p_num |-> pnum, p_data |-> [o \in Offsets |-> 0]]

(* Seeded fault: the rest of the chain is lost.                            *)
add_pageAlone(pt, pnum) == [pt EXCEPT ![Hash(pnum)] = <<FreshPage(pnum)>>]

add_page(pt, pnum) == [pt EXCEPT ![Hash(pnum)] = <<FreshPage(pnum)>> \o @]

(* What every access does first: a page that is missing is added.          *)
Materialize(pt, pnum) == IF Present(pt, pnum) THEN pt ELSE add_page(pt, pnum)

(* The byte an access at addr finds; a page yet to be added reads as zero. *)
ByteAt(pt, addr) ==
  LET pnum == PageNumber(addr)
  IN  IF Present(pt, pnum)
        THEN pt[Hash(pnum)][get_page(pt, pnum)].p_data[PageOffset(addr)]
        ELSE 0

(* The table after a byte has been stored.                                 *)
WithByte(pt, addr, byte) ==
  LET pnum == PageNumber(addr)
      t    == Materialize(pt, pnum)
  IN  [t EXCEPT ![Hash(pnum)][get_page(t, pnum)].p_data[PageOffset(addr)] = byte]

-----------------------------------------------------------------------------
(* A table whose every page is in the chain of its number, once.           *)

WellFormed(pt) ==
  /\ pt \in [Buckets -> Seq(Pages)]
  /\ \A h \in Buckets : \A k \in DOMAIN pt[h] :
       /\ Hash(pt[h][k].p_num) = h
       /\ \A j \in DOMAIN pt[h] : pt[h][j].p_num = pt[h][k].p_num => j = k
=============================================================================
