---------------------------- MODULE MemoryProofs ----------------------------
(***************************************************************************)
(* The guest's memory is sound in every run of the emulator, whatever the  *)
(* hash function, the file, the command line and the guest.  Emulator      *)
(* makes only steps of GuestMemory (ImplementsGuestMemory), so its         *)
(* properties follow from those of MemSpec.                                *)
(***************************************************************************)
EXTENDS Emulator, TLAPS

-----------------------------------------------------------------------------
(* The page table.                                                         *)

(* Numbers and offsets of an address.                                      *)
LEMMA AddressParts ==
  ASSUME NEW addr, InSpace(addr)
  PROVE  /\ PageNumber(addr) \in PageNumbers
         /\ PageOffset(addr) \in Offsets
         /\ Hash(PageNumber(addr)) \in Buckets
<1>1. addr \in Nat /\ PageNumber(addr) \in PageNumbers
  BY DEF InSpace
<1>2. Hash(PageNumber(addr)) \in Buckets
  BY <1>1, PTableAssumption
<1>3. PageSize \in Nat /\ PageSize > 0
  BY PTableAssumption
<1>4. addr % PageSize \in 0 .. PageSize - 1
  BY <1>1, <1>3, SMT
<1> QED
  BY <1>1, <1>2, <1>4 DEF PageOffset, Offsets

LEMMA SamePartsSameAddress ==
  ASSUME NEW a, NEW b, InSpace(a), InSpace(b),
         PageNumber(a) = PageNumber(b), PageOffset(a) = PageOffset(b)
  PROVE  a = b
BY PTableAssumption, SMT DEF InSpace, PageOffset, PageNumber

(* The page a number is found at is the page with the number.              *)
LEMMA FoundPage ==
  ASSUME NEW pt, WellFormed(pt), NEW pnum \in PageNumbers,
         NEW k \in DOMAIN pt[Hash(pnum)], pt[Hash(pnum)][k].p_num = pnum
  PROVE  get_page(pt, pnum) = k /\ Present(pt, pnum)
<1>1. Hash(pnum) \in Buckets
  BY PTableAssumption
<1>2. Holding(pt[Hash(pnum)], pnum) = {k}
  BY <1>1 DEF WellFormed, Holding
<1>3. k \in Nat \ {0}
  BY <1>1 DEF WellFormed
<1>4. (CHOOSE n \in {k} : \A m \in {k} : n <= m) = k
  BY <1>3
<1>5. get_page(pt, pnum) = k
  BY <1>2, <1>4 DEF get_page
<1> QED
  BY <1>3, <1>5 DEF Present, NULL

LEMMA PresentPage ==
  ASSUME NEW pt, WellFormed(pt), NEW pnum \in PageNumbers, Present(pt, pnum)
  PROVE  /\ get_page(pt, pnum) \in DOMAIN pt[Hash(pnum)]
         /\ pt[Hash(pnum)][get_page(pt, pnum)].p_num = pnum
<1>1. PICK k \in DOMAIN pt[Hash(pnum)] : pt[Hash(pnum)][k].p_num = pnum
  BY DEF Present, get_page, Holding, NULL
<1> QED
  BY <1>1, FoundPage

LEMMA AbsentPage ==
  ASSUME NEW pt, WellFormed(pt), NEW pnum \in PageNumbers, ~Present(pt, pnum)
  PROVE  \A k \in DOMAIN pt[Hash(pnum)] : pt[Hash(pnum)][k].p_num # pnum
BY FoundPage

LEMMA FreshPageType == \A pnum \in PageNumbers : FreshPage(pnum) \in Pages
BY PTableAssumption DEF FreshPage, Pages

(* A chain with a page in front.                                           *)
LEMMA InFront ==
  ASSUME NEW chain \in Seq(Pages), NEW page \in Pages
  PROVE  /\ <<page>> \o chain \in Seq(Pages)
         /\ DOMAIN (<<page>> \o chain) = 1 .. Len(chain) + 1
         /\ DOMAIN chain = 1 .. Len(chain)
         /\ Len(chain) \in Nat
         /\ (<<page>> \o chain)[1] = page
         /\ \A k \in DOMAIN chain : (<<page>> \o chain)[k + 1] = chain[k]
         /\ \A k \in DOMAIN (<<page>> \o chain) :
              k # 1 => k - 1 \in DOMAIN chain /\ (<<page>> \o chain)[k] = chain[k - 1]
OBVIOUS

-----------------------------------------------------------------------------
(* add_page of a number that has no page.                                  *)
LEMMA AddPageSound ==
  ASSUME NEW pt, WellFormed(pt), NEW pnum \in PageNumbers, ~Present(pt, pnum)
  PROVE  /\ WellFormed(add_page(pt, pnum))
         /\ Present(add_page(pt, pnum), pnum)
<1> DEFINE h == Hash(pnum)
           t == add_page(pt, pnum)
           page == FreshPage(pnum)
<1>1. h \in Buckets /\ pt \in [Buckets -> Seq(Pages)] /\ page \in Pages
  BY PTableAssumption, FreshPageType DEF WellFormed
<1>2. /\ t \in [Buckets -> Seq(Pages)]
      /\ t[h] = <<page>> \o pt[h]
      /\ \A g \in Buckets : g # h => t[g] = pt[g]
  BY <1>1, InFront DEF add_page
<1>3. page.p_num = pnum
  BY DEF FreshPage
<1>4. ASSUME NEW g \in Buckets, NEW k \in DOMAIN t[g]
      PROVE  /\ Hash(t[g][k].p_num) = g
             /\ \A n \in DOMAIN t[g] : t[g][n].p_num = t[g][k].p_num => n = k
  <2>1. CASE g # h
    BY <1>2, <1>4, <2>1 DEF WellFormed
  <2>2. CASE g = h
    <3> HIDE DEF h, t, page
    <3>1. \A n \in DOMAIN t[h] : n # 1 => n - 1 \in DOMAIN pt[h] /\ t[h][n] = pt[h][n - 1]
      BY <1>1, <1>2, InFront
    <3>2. t[h][1] = page
      BY <1>1, <1>2, InFront
    <3>3. \A n \in DOMAIN pt[h] : pt[h][n].p_num # pnum /\ Hash(pt[h][n].p_num) = h
      BY <1>1, AbsentPage DEF WellFormed, h
    <3>4. \A n, m \in DOMAIN pt[h] : pt[h][n].p_num = pt[h][m].p_num => n = m
      BY <1>1 DEF WellFormed
    <3>5. DOMAIN t[h] \subseteq Nat
      BY <1>1, <1>2
    <3>6. Hash(t[h][k].p_num) = h
      BY <1>3, <1>4, <2>2, <3>1, <3>2, <3>3 DEF h
    <3>7. ASSUME NEW n \in DOMAIN t[h], t[h][n].p_num = t[h][k].p_num
          PROVE  n = k
      <4>1. CASE n = 1 \/ k = 1
        BY <1>3, <1>4, <2>2, <3>1, <3>2, <3>3, <3>7, <4>1
      <4>2. CASE n # 1 /\ k # 1
        <5>1. n - 1 = k - 1
          BY <1>4, <2>2, <3>1, <3>4, <3>7, <4>2
        <5> QED
          BY <1>4, <2>2, <3>5, <3>7, <5>1
      <4> QED
        BY <4>1, <4>2
    <3> QED
      BY <2>2, <3>6, <3>7
  <2> QED
    BY <2>1, <2>2
<1>5. WellFormed(t)
  BY <1>2, <1>4 DEF WellFormed
<1>6. 1 \in DOMAIN t[h] /\ t[h][1].p_num = pnum
  BY <1>1, <1>2, <1>3, InFront
<1> QED
  BY <1>5, <1>6, FoundPage

(* It changes no byte: the new page reads as zeros, as no page does.       *)
LEMMA AddPageReads ==
  ASSUME NEW pt, WellFormed(pt), NEW pnum \in PageNumbers, ~Present(pt, pnum),
         NEW addr, InSpace(addr)
  PROVE  ByteAt(add_page(pt, pnum), addr) = ByteAt(pt, addr)
<1> DEFINE h == Hash(pnum)
           t == add_page(pt, pnum)
           page == FreshPage(pnum)
           q == PageNumber(addr)
<1>1. h \in Buckets /\ pt \in [Buckets -> Seq(Pages)] /\ page \in Pages
  BY PTableAssumption, FreshPageType DEF WellFormed
<1>2. /\ t[h] = <<page>> \o pt[h]
      /\ \A g \in Buckets : g # h => t[g] = pt[g]
  BY <1>1 DEF add_page
<1>3. q \in PageNumbers /\ PageOffset(addr) \in Offsets /\ Hash(q) \in Buckets
  BY AddressParts
<1>4. WellFormed(t) /\ Present(t, pnum)
  BY AddPageSound
<1>5. CASE q = pnum
  <2>1. 1 \in DOMAIN t[h] /\ t[h][1] = page /\ page.p_num = pnum
    BY <1>1, <1>2, InFront DEF FreshPage
  <2>2. get_page(t, q) = 1 /\ Present(t, q)
    BY <1>4, <1>5, <2>1, FoundPage
  <2>3. page.p_data[PageOffset(addr)] = 0
    BY <1>3 DEF FreshPage
  <2> QED
    BY <1>5, <2>1, <2>2, <2>3 DEF ByteAt
<1>6. CASE q # pnum /\ Hash(q) # h
  <2>1. t[Hash(q)] = pt[Hash(q)]
    BY <1>2, <1>3, <1>6
  <2> QED
    BY <2>1 DEF ByteAt, Present, get_page
<1>7. CASE q # pnum /\ Hash(q) = h
  <2>1. CASE Present(pt, q)
    <3>1. PICK k \in DOMAIN pt[h] : k = get_page(pt, q) /\ pt[h][k].p_num = q
      BY <1>3, <1>7, <2>1, PresentPage
    <3>2. k + 1 \in DOMAIN t[h] /\ t[h][k + 1] = pt[h][k]
      BY <1>1, <1>2, <3>1, InFront
    <3>3. get_page(t, q) = k + 1 /\ Present(t, q)
      BY <1>3, <1>4, <1>7, <3>1, <3>2, FoundPage
    <3> QED
      BY <1>7, <2>1, <3>1, <3>2, <3>3 DEF ByteAt
  <2>2. CASE ~Present(pt, q)
    <3>1. ~Present(t, q)
      <4>1. SUFFICES ASSUME Present(t, q) PROVE FALSE
        OBVIOUS
      <4>2. PICK k \in DOMAIN t[h] : t[h][k].p_num = q
        BY <1>3, <1>4, <1>7, <4>1, PresentPage
      <4>3. k # 1
        BY <1>1, <1>2, <1>7, <4>2, InFront DEF FreshPage
      <4>4. k - 1 \in DOMAIN pt[h] /\ pt[h][k - 1].p_num = q
        BY <1>1, <1>2, <4>2, <4>3, InFront
      <4> QED
        BY <1>3, <1>7, <2>2, <4>4, AbsentPage
    <3> QED
      BY <2>2, <3>1 DEF ByteAt
  <2> QED
    BY <2>1, <2>2
<1> QED
  BY <1>5, <1>6, <1>7

LEMMA MaterializeSound ==
  ASSUME NEW pt, WellFormed(pt), NEW pnum \in PageNumbers
  PROVE  /\ WellFormed(Materialize(pt, pnum))
         /\ Present(Materialize(pt, pnum), pnum)
         /\ \A addr : InSpace(addr) =>
              ByteAt(Materialize(pt, pnum), addr) = ByteAt(pt, addr)
BY AddPageSound, AddPageReads DEF Materialize

-----------------------------------------------------------------------------
(* A byte stored in a page that is there.                                  *)
StoreAt(pt, h, k, o, byte) == [pt EXCEPT ![h][k].p_data[o] = byte]

LEMMA StoreKeeps ==
  ASSUME NEW pt, WellFormed(pt), NEW h \in Buckets, NEW k \in DOMAIN pt[h],
         NEW o \in Offsets, NEW byte \in Bytes,
         NEW t, t = StoreAt(pt, h, k, o, byte)
  PROVE  /\ t \in [Buckets -> Seq(Pages)]
         /\ \A g \in Buckets : DOMAIN t[g] = DOMAIN pt[g]
         /\ \A g \in Buckets : \A n \in DOMAIN pt[g] :
              /\ t[g][n].p_num = pt[g][n].p_num
              /\ \A q \in Offsets :
                   t[g][n].p_data[q] = IF g = h /\ n = k /\ q = o THEN byte
                                       ELSE pt[g][n].p_data[q]
<1>1. pt \in [Buckets -> Seq(Pages)] /\ pt[h][k] \in Pages
  BY DEF WellFormed
<1> DEFINE page == [pt[h][k] EXCEPT !.p_data[o] = byte]
           chain == [pt[h] EXCEPT ![k] = page]
<1>2. /\ page \in Pages /\ page.p_num = pt[h][k].p_num
      /\ \A q \in Offsets : page.p_data[q] = IF q = o THEN byte ELSE pt[h][k].p_data[q]
  BY <1>1 DEF Pages
<1>3. /\ chain \in Seq(Pages) /\ DOMAIN chain = DOMAIN pt[h] /\ chain[k] = page
      /\ \A n \in DOMAIN pt[h] : n # k => chain[n] = pt[h][n]
  BY <1>1, <1>2
<1>4. t = [pt EXCEPT ![h] = chain]
  BY DEF StoreAt
<1>5. /\ t \in [Buckets -> Seq(Pages)] /\ t[h] = chain
      /\ \A g \in Buckets : g # h => t[g] = pt[g]
  BY <1>1, <1>3, <1>4
<1> HIDE DEF page, chain
<1> QED
  BY <1>2, <1>3, <1>5

LEMMA StoreSound ==
  ASSUME NEW pt, WellFormed(pt), NEW addr, InSpace(addr), NEW byte \in Bytes
  PROVE  /\ WellFormed(WithByte(pt, addr, byte))
         /\ \A a : InSpace(a) =>
              ByteAt(WithByte(pt, addr, byte), a) = IF a = addr THEN byte ELSE ByteAt(pt, a)
<1> DEFINE p == PageNumber(addr)
           h == Hash(p)
           o == PageOffset(addr)
           m == Materialize(pt, p)
           k == get_page(m, p)
           t == WithByte(pt, addr, byte)
<1>1. p \in PageNumbers /\ o \in Offsets /\ h \in Buckets
  BY AddressParts
<1>2. /\ WellFormed(m) /\ Present(m, p)
      /\ \A a : InSpace(a) => ByteAt(m, a) = ByteAt(pt, a)
  BY <1>1, MaterializeSound
<1>3. k \in DOMAIN m[h] /\ m[h][k].p_num = p
  BY <1>1, <1>2, PresentPage
<1>4. t = StoreAt(m, h, k, o, byte)
  BY DEF WithByte, StoreAt
<1> HIDE DEF t, m, k, p, h, o
<1>5. /\ t \in [Buckets -> Seq(Pages)]
      /\ \A g \in Buckets : DOMAIN t[g] = DOMAIN m[g]
      /\ \A g \in Buckets : \A n \in DOMAIN m[g] :
           /\ t[g][n].p_num = m[g][n].p_num
           /\ \A q \in Offsets :
                t[g][n].p_data[q] = IF g = h /\ n = k /\ q = o THEN byte
                                    ELSE m[g][n].p_data[q]
  BY <1>1, <1>2, <1>3, <1>4, StoreKeeps
<1>6. WellFormed(t)
  BY <1>2, <1>5 DEF WellFormed
<1>7. ASSUME NEW a, InSpace(a)
      PROVE  ByteAt(t, a) = IF a = addr THEN byte ELSE ByteAt(m, a)
  <2> DEFINE r == PageNumber(a)
             g == Hash(r)
             q == PageOffset(a)
  <2>1. r \in PageNumbers /\ q \in Offsets /\ g \in Buckets
    BY <1>7, AddressParts
  <2>2. a = addr <=> r = p /\ q = o
    BY <1>7, SamePartsSameAddress DEF p, o
  <2>3. CASE Present(m, r)
    <3>1. PICK n \in DOMAIN m[g] : n = get_page(m, r) /\ m[g][n].p_num = r
      BY <1>2, <2>1, <2>3, PresentPage
    <3>2. get_page(t, r) = n /\ Present(t, r)
      <4>1. n \in DOMAIN t[g] /\ t[g][n].p_num = r
        BY <1>5, <2>1, <3>1
      <4> QED
        BY <1>6, <2>1, <4>1, FoundPage
    <3>3. ByteAt(t, a) = t[g][n].p_data[q] /\ ByteAt(m, a) = m[g][n].p_data[q]
      BY <2>3, <3>1, <3>2 DEF ByteAt
    <3>4. g = h /\ n = k <=> r = p
      <4>1. g = h /\ n = k => r = p
        BY <1>3, <3>1
      <4>2. r = p => g = h /\ n = k
        BY <3>1 DEF h, k
      <4> QED
        BY <4>1, <4>2
    <3>5. t[g][n].p_data[q] = IF g = h /\ n = k /\ q = o THEN byte ELSE m[g][n].p_data[q]
      BY <1>5, <2>1, <3>1
    <3> QED
      BY <2>2, <3>3, <3>4, <3>5
  <2>4. CASE ~Present(m, r)
    <3>1. r # p
      BY <1>2, <2>4
    <3>2. ~Present(t, r)
      <4>1. SUFFICES ASSUME Present(t, r) PROVE FALSE
        OBVIOUS
      <4>2. PICK n \in DOMAIN t[g] : t[g][n].p_num = r
        BY <1>6, <2>1, <4>1, PresentPage
      <4>3. n \in DOMAIN m[g] /\ m[g][n].p_num = r
        BY <1>5, <2>1, <4>2
      <4> QED
        BY <1>2, <2>1, <2>4, <4>3, AbsentPage
    <3> QED
      BY <2>2, <2>4, <3>1, <3>2 DEF ByteAt
  <2> QED
    BY <2>3, <2>4
<1> QED
  BY <1>2, <1>6, <1>7 DEF t, m, p

(* The empty table.                                                        *)
LEMMA EmptyTableSound ==
  /\ WellFormed(EmptyTable)
  /\ \A addr : InSpace(addr) => ByteAt(EmptyTable, addr) = 0
<1>1. WellFormed(EmptyTable)
  BY DEF WellFormed, EmptyTable
<1>2. \A pnum \in PageNumbers : ~Present(EmptyTable, pnum)
  BY <1>1, PTableAssumption, PresentPage DEF EmptyTable
<1> QED
  BY <1>1, <1>2, AddressParts DEF ByteAt

LEMMA ByteType ==
  ASSUME NEW pt, WellFormed(pt), NEW addr, InSpace(addr)
  PROVE  ByteAt(pt, addr) \in Bytes
<1> DEFINE p == PageNumber(addr)
<1>1. p \in PageNumbers /\ PageOffset(addr) \in Offsets /\ Hash(p) \in Buckets
  BY AddressParts
<1>2. CASE Present(pt, p)
  <2>1. pt[Hash(p)][get_page(pt, p)] \in Pages
    BY <1>1, <1>2, PresentPage DEF WellFormed
  <2> QED
    BY <1>1, <1>2, <2>1 DEF ByteAt, Pages
<1>3. CASE ~Present(pt, p)
  BY <1>3, PTableAssumption DEF ByteAt
<1> QED
  BY <1>2, <1>3

-----------------------------------------------------------------------------
(* No page is ever lost: not when one is added, not when a byte is stored, *)
(* and the page of the byte is there then.                                 *)
LEMMA AddPageKeepsPages ==
  ASSUME NEW pt, WellFormed(pt), NEW pnum \in PageNumbers, ~Present(pt, pnum),
         NEW q \in PageNumbers, Present(pt, q)
  PROVE  Present(add_page(pt, pnum), q)
<1> DEFINE h == Hash(pnum)
           g == Hash(q)
           t == add_page(pt, pnum)
           page == FreshPage(pnum)
<1>1. h \in Buckets /\ g \in Buckets /\ pt \in [Buckets -> Seq(Pages)] /\ page \in Pages
  BY PTableAssumption, FreshPageType DEF WellFormed
<1>2. /\ t[h] = <<page>> \o pt[h]
      /\ g # h => t[g] = pt[g]
  BY <1>1 DEF add_page
<1>3. PICK k \in DOMAIN pt[g] : pt[g][k].p_num = q
  BY PresentPage
<1>4. WellFormed(t)
  BY AddPageSound
<1> HIDE DEF t, page
<1>5. \E n \in DOMAIN t[g] : t[g][n].p_num = q
  <2>1. CASE g = h
    <3> HIDE DEF g, h
    <3>1. k + 1 \in DOMAIN t[h] /\ t[h][k + 1] = pt[h][k]
      BY <1>1, <1>2, <1>3, <2>1, InFront
    <3> QED
      BY <1>3, <2>1, <3>1
  <2>2. CASE g # h
    BY <1>2, <1>3, <2>2
  <2> QED
    BY <2>1, <2>2
<1> QED
  BY <1>4, <1>5, FoundPage DEF t

LEMMA MaterializeKeepsPages ==
  ASSUME NEW pt, WellFormed(pt), NEW pnum \in PageNumbers,
         NEW q \in PageNumbers, Present(pt, q)
  PROVE  Present(Materialize(pt, pnum), q)
BY AddPageKeepsPages DEF Materialize

LEMMA StoreKeepsPages ==
  ASSUME NEW pt, WellFormed(pt), NEW addr, InSpace(addr), NEW byte \in Bytes,
         NEW q \in PageNumbers, q = PageNumber(addr) \/ Present(pt, q)
  PROVE  Present(WithByte(pt, addr, byte), q)
<1> DEFINE p == PageNumber(addr)
           h == Hash(p)
           o == PageOffset(addr)
           m == Materialize(pt, p)
           k == get_page(m, p)
           t == WithByte(pt, addr, byte)
<1>1. p \in PageNumbers /\ o \in Offsets /\ h \in Buckets /\ Hash(q) \in Buckets
  BY AddressParts, PTableAssumption
<1>2. WellFormed(m) /\ Present(m, p) /\ Present(m, q)
  BY <1>1, MaterializeSound, MaterializeKeepsPages
<1>3. k \in DOMAIN m[h]
  BY <1>1, <1>2, PresentPage
<1>4. t = StoreAt(m, h, k, o, byte) /\ WellFormed(t)
  BY StoreSound DEF WithByte, StoreAt
<1>5. PICK n \in DOMAIN m[Hash(q)] : m[Hash(q)][n].p_num = q
  BY <1>2, PresentPage
<1> HIDE DEF t, m, k, h, o
<1>6. n \in DOMAIN t[Hash(q)] /\ t[Hash(q)][n].p_num = q
  BY <1>1, <1>2, <1>3, <1>4, <1>5, StoreKeeps
<1> QED
  BY <1>4, <1>6, FoundPage DEF t

-----------------------------------------------------------------------------
(* Memory.                                                                 *)

LEMMA GuestFacts ==
  /\ Width \in Nat \ {0}
  /\ Addresses \subseteq Nat
  /\ \A addr \in Addresses : \A k \in 0 .. Width-1 : InSpace(addr + k)
  /\ None \notin Accesses
BY GuestAssumption

(* What the loops of mem.c have done so far: a read holds the bytes from   *)
(* its position on, a write has stored those before it.                    *)
AccessSoFar ==
  access # None =>
    /\ access.kind = "read" =>
         \A k \in 0 .. Width-1 : k < Width - access.i =>
           access.val[k] = ByteAt(ptable, access.addr + access.i + k)
    /\ access.kind = "write" =>
         \A k \in 0 .. Width-1 : k < access.i =>
           access.val[k] = ByteAt(ptable, access.addr + k)

MemInv ==
  /\ WellFormed(ptable)
  /\ file \in Files
  /\ j \in Nat
  /\ part \in {"file", "bss", "done"}
  /\ part = "bss" => AtHeader /\ H.load
  /\ access = None \/ access \in Accesses
  /\ last = None \/ last \in Accesses
  /\ access # None => Loaded /\ last = None
  /\ ~Loaded => last = None

LEMMA HeaderFacts ==
  ASSUME NEW f \in Files, NEW n \in DOMAIN f.headers
  PROVE  LET h == f.headers[n] IN
         /\ h.vaddr \in Nat /\ h.filesz \in Nat /\ h.memsz \in Nat
         /\ Copied(h) \in Nat
         /\ \A k \in Nat : k < Copied(h) => h.bytes[k] \in Bytes /\ InSpace(h.vaddr + k)
         /\ \A k \in Nat : k < BssLength(h) =>
              PageNumber(h.vaddr + f_align(h) + k) \in PageNumbers
         /\ \A k \in 0 .. h.memsz - 1 : InSpace(h.vaddr + k)
<1> DEFINE h == f.headers[n]
<1>1. Header(h)
  BY GuestAssumption
<1>2. h.vaddr \in Nat /\ h.filesz \in Nat /\ h.memsz \in Nat
  BY <1>1 DEF Header
<1>3. h.vaddr % PageSize \in Nat
  BY <1>2, PTableAssumption, SMT
<1>4. Copied(h) \in Nat
  BY <1>2, <1>3 DEF Copied, v_align
<1>5. BssLength(h) \in Nat
  BY <1>2 DEF BssLength
<1>6. \A k \in 0 .. Copied(h) - 1 : h.bytes[k] \in Bytes /\ InSpace(h.vaddr + k)
  BY <1>1 DEF Header
<1>7. \A k \in 0 .. BssLength(h) - 1 : InSpace(h.vaddr + f_align(h) + k)
  BY <1>1 DEF Header
<1>8. \A k \in 0 .. h.memsz - 1 : InSpace(h.vaddr + k)
  BY <1>1 DEF Header
<1>9. \A k \in Nat : k < BssLength(h) => k \in 0 .. BssLength(h) - 1
  BY <1>5
<1>10. \A k \in Nat : k < Copied(h) => k \in 0 .. Copied(h) - 1
  BY <1>4
<1> QED
  BY <1>2, <1>4, <1>6, <1>7, <1>8, <1>9, <1>10 DEF InSpace

(* A step either leaves the table, adds a page to it or stores a byte.     *)
LEMMA TableStep ==
  ASSUME MemInv, [MemNext]_memVars
  PROVE  \/ ptable' = ptable
         \/ \E pnum \in PageNumbers : ptable' = Materialize(ptable, pnum)
         \/ /\ part = "file" \/ (access # None /\ access.kind = "write")
            /\ InSpace(Target)
            /\ \E byte \in Bytes : ptable' = WithByte(ptable, Target, byte)
<1>1. CASE CopyByte
  <2>1. H.bytes[j] \in Bytes /\ InSpace(H.vaddr + j)
    BY <1>1, HeaderFacts DEF MemInv, CopyByte, AtHeader, H
  <2> QED
    BY <1>1, <2>1 DEF CopyByte, Target
<1>2. CASE EndOfFilePart \/ NextHeader \/ ReadSections
  BY <1>2 DEF EndOfFilePart, NextHeader, ReadSections
<1>3. CASE MapBss
  <2>1. PageNumber(H.vaddr + f_align(H) + j) \in PageNumbers
    BY <1>3, HeaderFacts DEF MemInv, MapBss, AtHeader, H
  <2> QED
    BY <1>3, <2>1 DEF MapBss
<1>4. CASE \E addr \in Addresses : BeginRead(addr) \/ \E val \in Word : BeginWrite(addr, val)
  BY <1>4 DEF BeginRead, BeginWrite
<1>5. CASE _mem_read_byte
  <2>1. access \in Accesses /\ access.i > 0
    BY <1>5 DEF _mem_read_byte, MemInv
  <2>2. access.addr \in Addresses /\ access.i - 1 \in 0 .. Width-1
    BY <2>1, GuestFacts DEF Accesses
  <2>3. InSpace(access.addr + (access.i - 1))
    BY <2>2, GuestFacts
  <2>4. access.addr + (access.i - 1) = access.addr + access.i - 1
    BY <2>1, <2>2, GuestFacts DEF Accesses, InSpace
  <2>5. PageNumber(access.addr + access.i - 1) \in PageNumbers
    BY <2>3, <2>4 DEF InSpace
  <2> QED
    BY <1>5, <2>5 DEF _mem_read_byte
<1>6. CASE _mem_write_byte
  <2>1. access \in Accesses /\ access.i < Width /\ Loaded
    BY <1>6 DEF _mem_write_byte, MemInv
  <2>2. access.addr \in Addresses /\ access.i \in 0 .. Width-1 /\ access.val \in Word
    BY <2>1, GuestFacts DEF Accesses
  <2>3. InSpace(access.addr + access.i) /\ access.val[access.i] \in Bytes
    BY <2>2, GuestFacts DEF Word
  <2> QED
    BY <1>6, <2>1, <2>3 DEF _mem_write_byte, StoreAddress, Target, Loaded
<1>7. CASE EndAccess
  BY <1>7 DEF EndAccess
<1>8. CASE UNCHANGED memVars
  BY <1>8 DEF memVars
<1> QED
  BY <1>1, <1>2, <1>3, <1>4, <1>5, <1>6, <1>7, <1>8 DEF MemNext, Load, AccessStep

LEMMA TableStaysSound ==
  ASSUME MemInv, [MemNext]_memVars
  PROVE  WellFormed(ptable)'
<1>1. CASE ptable' = ptable
  BY <1>1 DEF MemInv
<1>2. ASSUME NEW pnum \in PageNumbers, ptable' = Materialize(ptable, pnum)
      PROVE  WellFormed(ptable)'
  BY <1>2, MaterializeSound DEF MemInv
<1>3. ASSUME InSpace(Target), NEW byte \in Bytes, ptable' = WithByte(ptable, Target, byte)
      PROVE  WellFormed(ptable)'
  BY <1>3, StoreSound DEF MemInv
<1> QED
  BY <1>1, <1>2, <1>3, TableStep

(* No byte of memory changes but the one that the step stores.             *)
LEMMA OthersKept ==
  ASSUME MemInv, [MemNext]_memVars, NEW addr, InSpace(addr),
         ByteAt(ptable', addr) # ByteAt(ptable, addr)
  PROVE  /\ part = "file" \/ (access # None /\ access.kind = "write")
         /\ addr = Target
<1>1. CASE ptable' = ptable
  BY <1>1
<1>2. ASSUME NEW pnum \in PageNumbers, ptable' = Materialize(ptable, pnum)
      PROVE  FALSE
  BY <1>2, MaterializeSound DEF MemInv
<1>3. ASSUME InSpace(Target), NEW byte \in Bytes, ptable' = WithByte(ptable, Target, byte)
      PROVE  addr = Target
  BY <1>3, StoreSound DEF MemInv
<1> QED
  BY <1>1, <1>2, <1>3, TableStep

LEMMA MemInvInit == MemInit => MemInv
BY EmptyTableSound DEF MemInit, MemInv, Loaded

(* An access that begins, or goes on, is one.                              *)
LEMMA BeginType ==
  ASSUME NEW addr \in Addresses,
         BeginRead(addr) \/ \E val \in Word : BeginWrite(addr, val)
  PROVE  access' \in Accesses
<1>1. CASE BeginRead(addr)
  BY <1>1, PTableAssumption, GuestFacts DEF BeginRead, Accesses, Word
<1>2. CASE \E val \in Word : BeginWrite(addr, val)
  BY <1>2, GuestFacts DEF BeginWrite, Accesses
<1> QED
  BY <1>1, <1>2

LEMMA AccessGoesOn ==
  ASSUME MemInv, _mem_read_byte \/ _mem_write_byte
  PROVE  access' \in Accesses
<1>1. CASE _mem_read_byte
  <2> DEFINE addr == access.addr + access.i - 1
             shifted == Shifted(access.val, ByteAt(ptable, addr))
  <2>1. access \in Accesses /\ access.i > 0
    BY <1>1 DEF _mem_read_byte, MemInv
  <2>2. access.addr \in Addresses /\ access.i - 1 \in 0 .. Width-1 /\ access.val \in Word
    BY <2>1, GuestFacts DEF Accesses
  <2>3. addr = access.addr + (access.i - 1) /\ InSpace(access.addr + (access.i - 1))
    BY <2>1, <2>2, GuestFacts DEF Accesses, InSpace
  <2>4. ByteAt(ptable, addr) \in Bytes
    BY <2>3, ByteType DEF MemInv
  <2>5. shifted \in Word
    BY <2>2, <2>4, GuestFacts DEF Shifted, Word
  <2>6. access' = [access EXCEPT !.i = @ - 1, !.val = shifted]
    BY <1>1 DEF _mem_read_byte
  <2> HIDE DEF shifted, addr
  <2>7. access.i - 1 \in 0 .. Width /\ access.kind \in {"read", "write"}
    BY <2>1, <2>2, GuestFacts DEF Accesses
  <2>8. access' = [kind |-> access.kind, addr |-> access.addr,
                   i |-> access.i - 1, val |-> shifted]
    BY <2>1, <2>6 DEF Accesses
  <2> QED
    BY <2>2, <2>5, <2>7, <2>8 DEF Accesses
<1>2. CASE _mem_write_byte
  <2>1. access \in Accesses /\ access.i < Width
    BY <1>2 DEF _mem_write_byte, MemInv
  <2> QED
    BY <1>2, <2>1, GuestFacts DEF _mem_write_byte, Accesses
<1> QED
  BY <1>1, <1>2

LEMMA MemInvStep ==
  ASSUME MemInv, [MemNext]_memVars
  PROVE  MemInv'
<1>0. WellFormed(ptable)'
  BY TableStaysSound
<1>1. CASE CopyByte
  BY <1>0, <1>1 DEF MemInv, CopyByte, Loaded
<1>2. CASE EndOfFilePart
  BY <1>0, <1>2 DEF MemInv, EndOfFilePart, Loaded, AtHeader, H
<1>3. CASE MapBss
  BY <1>0, <1>3 DEF MemInv, MapBss, Loaded, AtHeader, H
<1>4. CASE NextHeader
  BY <1>0, <1>4 DEF MemInv, NextHeader, Loaded
<1>5. CASE ReadSections
  BY <1>0, <1>5 DEF MemInv, ReadSections, Loaded
<1>6. CASE \E addr \in Addresses : BeginRead(addr) \/ \E val \in Word : BeginWrite(addr, val)
  BY <1>0, <1>6, BeginType DEF MemInv, BeginRead, BeginWrite, Loaded, loadVars, AtHeader, H
<1>7. CASE _mem_read_byte \/ _mem_write_byte
  BY <1>0, <1>7, AccessGoesOn
     DEF MemInv, _mem_read_byte, _mem_write_byte, Loaded, loadVars, AtHeader, H
<1>8. CASE EndAccess
  BY <1>0, <1>8 DEF MemInv, EndAccess, Loaded, loadVars, AtHeader, H
<1>9. CASE UNCHANGED memVars
  BY <1>0, <1>9 DEF MemInv, memVars, Loaded, AtHeader, H
<1> QED
  BY <1>1, <1>2, <1>3, <1>4, <1>5, <1>6, <1>7, <1>8, <1>9
     DEF MemNext, Load, AccessStep

-----------------------------------------------------------------------------
(* The bytes of an access.                                                 *)

ReadsInv == MemInv /\ AccessSoFar /\ AccessesMeanBytes

LEMMA AccessedInSpace ==
  ASSUME NEW a \in Accesses, NEW k \in 0 .. Width-1
  PROVE  InSpace(a.addr + k) /\ a.addr \in Nat
<1>1. a.addr \in Addresses
  BY DEF Accesses
<1>2. InSpace(a.addr + k)
  BY <1>1, GuestFacts
<1>3. a.addr \in Nat
  BY <1>1, GuestFacts
<1> QED
  BY <1>2, <1>3

LEMMA ReadsStep ==
  ASSUME ReadsInv, [MemNext]_memVars
  PROVE  AccessSoFar' /\ AccessesMeanBytes'
<1> USE DEF ReadsInv
<1>0. MemInv'
  BY MemInvStep
<1>1. CASE Load
  <2>1. ~Loaded /\ access = None /\ last = None
    BY <1>1 DEF Load, CopyByte, EndOfFilePart, MapBss, NextHeader, ReadSections, MemInv, Loaded
  <2>2. access' = None /\ last' = None
    BY <1>1, <2>1 DEF Load, CopyByte, EndOfFilePart, MapBss, NextHeader, ReadSections
  <2> QED
    BY <2>2 DEF AccessSoFar, AccessesMeanBytes
<1>2. ASSUME NEW addr \in Addresses, BeginRead(addr)
      PROVE  AccessSoFar' /\ AccessesMeanBytes'
  BY <1>2, GuestFacts DEF BeginRead, AccessSoFar, AccessesMeanBytes
<1>3. ASSUME NEW addr \in Addresses, NEW val \in Word, BeginWrite(addr, val)
      PROVE  AccessSoFar' /\ AccessesMeanBytes'
  BY <1>3, GuestFacts DEF BeginWrite, AccessSoFar, AccessesMeanBytes
<1>4. CASE _mem_read_byte
  <2>1. /\ access \in Accesses /\ access.kind = "read" /\ access.i > 0
        /\ access.i \in 0 .. Width /\ access.val \in Word /\ last = None
    BY <1>4 DEF _mem_read_byte, MemInv, Accesses
  <2>2. access.i - 1 \in 0 .. Width-1 /\ access.addr \in Nat
    BY <2>1, AccessedInSpace, GuestFacts
  <2> DEFINE addr == access.addr + access.i - 1
             shifted == Shifted(access.val, ByteAt(ptable, addr))
  <2>3. /\ access' = [access EXCEPT !.i = @ - 1, !.val = shifted]
        /\ last' = None
        /\ ptable' = Materialize(ptable, PageNumber(addr))
    BY <1>4, <2>1 DEF _mem_read_byte
  <2>4. InSpace(addr)
    <3>1. addr = access.addr + (access.i - 1)
      BY <2>1, <2>2
    <3> QED
      BY <2>1, <2>2, <3>1, AccessedInSpace
  <2>5. \A a : InSpace(a) => ByteAt(ptable', a) = ByteAt(ptable, a)
    BY <2>3, <2>4, MaterializeSound DEF InSpace, MemInv
  <2>6. /\ access'.kind = "read" /\ access'.addr = access.addr
        /\ access'.i = access.i - 1 /\ access'.val = shifted
    BY <2>1, <2>3 DEF Accesses
  <2>7. ASSUME NEW k \in 0 .. Width-1, k < Width - access'.i
        PROVE  access'.val[k] = ByteAt(ptable', access'.addr + access'.i + k)
    <3>1. access'.i + k \in 0 .. Width-1
      BY <2>1, <2>6, <2>7, GuestFacts
    <3>2. access'.addr + access'.i + k = access.addr + (access'.i + k)
      BY <2>2, <2>6, <3>1, GuestFacts
    <3>3. ByteAt(ptable', access'.addr + access'.i + k)
            = ByteAt(ptable, access'.addr + access'.i + k)
      BY <2>1, <2>5, <3>1, <3>2, AccessedInSpace
    <3>4. CASE k = 0
      <4>1. shifted[k] = ByteAt(ptable, addr)
        BY <2>7, <3>4 DEF Shifted
      <4>2. access'.addr + access'.i + k = addr
        BY <2>2, <2>6, <3>4, GuestFacts
      <4> QED
        BY <2>6, <3>3, <4>1, <4>2
    <3>5. CASE k # 0
      <4>1. shifted[k] = access.val[k - 1]
        BY <2>7, <3>5 DEF Shifted
      <4>2. k - 1 \in 0 .. Width-1 /\ k - 1 < Width - access.i
        BY <2>1, <2>6, <2>7, <3>5, GuestFacts
      <4>3. access.val[k - 1] = ByteAt(ptable, access.addr + access.i + (k - 1))
        BY <1>4, <2>1, <4>2 DEF AccessSoFar, _mem_read_byte
      <4>4. access.addr + access.i + (k - 1) = access'.addr + access'.i + k
        <5>1. k \in Int /\ access.i \in Int /\ access.addr \in Int
          BY <2>1, <2>2, <2>7, GuestFacts
        <5> QED
          BY <2>6, <5>1
      <4> QED
        BY <2>6, <3>3, <4>1, <4>3, <4>4
    <3> QED
      BY <3>4, <3>5
  <2> QED
    BY <2>3, <2>6, <2>7 DEF AccessSoFar, AccessesMeanBytes
<1>5. CASE _mem_write_byte
  <2>1. /\ access \in Accesses /\ access.kind = "write" /\ access.i < Width
        /\ access.i \in 0 .. Width /\ access.val \in Word /\ last = None
    BY <1>5 DEF _mem_write_byte, MemInv, Accesses
  <2>2. access.i \in 0 .. Width-1 /\ access.addr \in Nat /\ InSpace(access.addr + access.i)
    BY <2>1, AccessedInSpace, GuestFacts
  <2>3. /\ access' = [access EXCEPT !.i = @ + 1]
        /\ last' = None
        /\ ptable' = WithByte(ptable, access.addr + access.i, access.val[access.i])
    BY <1>5, <2>1 DEF _mem_write_byte, StoreAddress
  <2>4. access.val[access.i] \in Bytes
    BY <2>1, <2>2 DEF Word
  <2>5. \A a : InSpace(a) =>
          ByteAt(ptable', a) = IF a = access.addr + access.i THEN access.val[access.i]
                               ELSE ByteAt(ptable, a)
    BY <2>2, <2>3, <2>4, StoreSound DEF MemInv
  <2>6. /\ access'.kind = "write" /\ access'.addr = access.addr
        /\ access'.i = access.i + 1 /\ access'.val = access.val
    BY <2>1, <2>3 DEF Accesses
  <2>7. ASSUME NEW k \in 0 .. Width-1, k < access'.i
        PROVE  access'.val[k] = ByteAt(ptable', access'.addr + k)
    <3>1. InSpace(access.addr + k)
      BY <2>1, AccessedInSpace
    <3>2. CASE k = access.i
      BY <2>5, <2>6, <3>1, <3>2
    <3>3. CASE k # access.i
      <4>1. k < access.i /\ access.addr + k # access.addr + access.i
        BY <2>2, <2>6, <2>7, <3>3, GuestFacts
      <4>2. access.val[k] = ByteAt(ptable, access.addr + k)
        BY <1>5, <2>1, <4>1 DEF AccessSoFar, _mem_write_byte
      <4> QED
        BY <2>5, <2>6, <3>1, <4>1, <4>2
    <3> QED
      BY <3>2, <3>3
  <2> QED
    BY <2>3, <2>6, <2>7 DEF AccessSoFar, AccessesMeanBytes
<1>6. CASE EndAccess
  <2>1. /\ access \in Accesses /\ last' = access /\ access' = None /\ ptable' = ptable
        /\ access.i = IF access.kind = "read" THEN 0 ELSE Width
        /\ access # None /\ access.addr \in Nat
    BY <1>6, AccessedInSpace, GuestFacts DEF EndAccess, MemInv
  <2>2. ASSUME NEW k \in 0 .. Width-1
        PROVE  access.val[k] = ByteAt(ptable, access.addr + k)
    <3>1. CASE access.kind = "read"
      <4>1. access.i = 0 /\ k < Width - access.i
        BY <2>1, <3>1, GuestFacts
      <4>2. access.val[k] = ByteAt(ptable, access.addr + access.i + k)
        BY <2>1, <3>1, <4>1 DEF AccessSoFar
      <4> QED
        BY <2>1, <4>1, <4>2
    <3>2. CASE access.kind # "read"
      <4>1. access.kind = "write" /\ access.i = Width /\ k < access.i
        BY <2>1, <3>2, GuestFacts DEF Accesses
      <4> QED
        BY <2>1, <4>1 DEF AccessSoFar
    <3> QED
      BY <3>1, <3>2
  <2> QED
    BY <2>1, <2>2 DEF AccessSoFar, AccessesMeanBytes
<1>7. CASE UNCHANGED memVars
  BY <1>7 DEF memVars, AccessSoFar, AccessesMeanBytes
<1> QED
  BY <1>1, <1>2, <1>3, <1>4, <1>5, <1>6, <1>7 DEF MemNext, AccessStep

-----------------------------------------------------------------------------
(* Loading.                                                                *)

(* How many bytes of segment n the copy loop has stored.                   *)
Filled(n) ==
  IF n = seg /\ part = "file" THEN j
  ELSE IF n <= seg THEN Copied(file.headers[n]) ELSE 0

Pristine == access = None /\ last = None

ImageSoFar ==
  Pristine =>
    /\ part = "file" /\ AtHeader /\ H.load => j <= Copied(H)
    /\ part = "done" => seg = Len(file.headers) + 1
    /\ \A n \in DOMAIN file.headers :
         file.headers[n].load =>
           \A k \in 0 .. file.headers[n].memsz - 1 :
             ByteAt(ptable, file.headers[n].vaddr + k) =
               IF k < Filled(n) THEN file.headers[n].bytes[k] ELSE 0

LoadInv ==
  /\ MemInv
  /\ seg \in 1 .. Len(file.headers) + 1
  /\ ImageSoFar

(* What the loop stores at is not in another segment.                      *)
LEMMA SegmentsApart ==
  ASSUME NEW f \in Files, NEW n \in DOMAIN f.headers, NEW m \in DOMAIN f.headers, n # m,
         f.headers[n].load, f.headers[m].load,
         NEW k \in Nat, k < f.headers[n].memsz,
         NEW i \in Nat, i < Copied(f.headers[m])
  PROVE  f.headers[n].vaddr + k # f.headers[m].vaddr + i
<1> DEFINE h == f.headers[n]
           g == f.headers[m]
<1>1. /\ h.vaddr \in Nat /\ h.memsz \in Nat /\ Copied(h) \in Nat
      /\ g.vaddr \in Nat /\ g.memsz \in Nat /\ Copied(g) \in Nat
  BY HeaderFacts
<1>2. /\ h.vaddr + k \in h.vaddr .. h.vaddr + Copied(h) + h.memsz
      /\ g.vaddr + i \in g.vaddr .. g.vaddr + Copied(g) + g.memsz
  BY <1>1
<1>3. n \in Nat /\ m \in Nat
  BY GuestAssumption
<1>4. CASE n < m
  <2>1. Apart(h, g)
    BY <1>4, GuestAssumption
  <2>2. PageNumber(h.vaddr + k) < PageNumber(g.vaddr + i)
    BY <1>2, <2>1 DEF Apart
  <2>3. PageNumber(h.vaddr + k) \in Int
    BY <1>1, PTableAssumption DEF PageNumber
  <2> HIDE DEF h, g
  <2>4. h.vaddr + k # g.vaddr + i
    BY <2>2, <2>3
  <2> QED
    BY <2>4 DEF h, g
<1>5. CASE m < n
  <2>1. Apart(g, h)
    BY <1>5, GuestAssumption
  <2>2. PageNumber(g.vaddr + i) < PageNumber(h.vaddr + k)
    BY <1>2, <2>1 DEF Apart
  <2>3. PageNumber(h.vaddr + k) \in Int
    BY <1>1, PTableAssumption DEF PageNumber
  <2> HIDE DEF h, g
  <2>4. h.vaddr + k # g.vaddr + i
    BY <2>2, <2>3
  <2> QED
    BY <2>4 DEF h, g
<1> QED
  BY <1>3, <1>4, <1>5

LEMMA LoadInvStep ==
  ASSUME LoadInv, [MemNext]_memVars
  PROVE  LoadInv'
<1> USE DEF LoadInv
<1>0. MemInv' /\ file \in Files /\ j \in Nat
  BY MemInvStep DEF MemInv
<1>1. /\ Len(file.headers) \in Nat /\ DOMAIN file.headers = 1 .. Len(file.headers)
      /\ seg \in Nat
  BY <1>0, GuestAssumption
<1>2. CASE CopyByte
  <2>1. /\ seg \in DOMAIN file.headers /\ H.load /\ j < Copied(H) /\ part = "file"
        /\ ptable' = WithByte(ptable, H.vaddr + j, H.bytes[j])
        /\ j' = j + 1 /\ UNCHANGED <<file, seg, part, access, last>>
    BY <1>2 DEF CopyByte, AtHeader
  <2>2. InSpace(H.vaddr + j) /\ H.bytes[j] \in Bytes /\ H.vaddr \in Nat /\ Copied(H) \in Nat
    BY <1>0, <2>1, HeaderFacts DEF H
  <2>3. \A a : InSpace(a) =>
          ByteAt(ptable', a) = IF a = H.vaddr + j THEN H.bytes[j] ELSE ByteAt(ptable, a)
    BY <2>1, <2>2, StoreSound DEF MemInv
  <2>4. ASSUME Pristine, NEW n \in DOMAIN file.headers, file.headers[n].load,
               NEW k \in 0 .. file.headers[n].memsz - 1
        PROVE  ByteAt(ptable', file.headers[n].vaddr + k) =
                 IF k < Filled(n)' THEN file.headers[n].bytes[k] ELSE 0
    <3>1. /\ InSpace(file.headers[n].vaddr + k) /\ file.headers[n].vaddr \in Nat
          /\ file.headers[n].memsz \in Nat
      BY <1>0, <2>4, HeaderFacts
    <3>2. ByteAt(ptable, file.headers[n].vaddr + k) =
            IF k < Filled(n) THEN file.headers[n].bytes[k] ELSE 0
      BY <2>4 DEF ImageSoFar
    <3>3. CASE n = seg
      <4>1. Filled(n) = j /\ Filled(n)' = j + 1 /\ H = file.headers[n]
        BY <2>1, <3>3 DEF Filled, H
      <4>2. CASE k = j
        <5>1. k < j + 1
          BY <1>0, <4>2
        <5>2. ByteAt(ptable', file.headers[n].vaddr + k) = H.bytes[j]
          BY <2>3, <3>1, <4>1, <4>2
        <5> QED
          BY <4>1, <4>2, <5>1, <5>2
      <4>3. CASE k # j
        <5>1. k < j + 1 <=> k < j
          BY <1>0, <2>4, <3>1, <4>3
        <5>2. file.headers[n].vaddr + k # H.vaddr + j
          BY <1>0, <2>4, <3>1, <4>1, <4>3
        <5> QED
          BY <2>3, <3>1, <3>2, <4>1, <5>1, <5>2
      <4> QED
        BY <4>2, <4>3
    <3>4. CASE n # seg
      <4>1. Filled(n)' = Filled(n)
        BY <2>1, <3>4 DEF Filled
      <4>2. k \in Nat /\ k < file.headers[n].memsz
        BY <2>4, <3>1
      <4>3. file.headers[n].vaddr + k # H.vaddr + j
        BY <1>0, <2>1, <2>4, <3>4, <4>2, SegmentsApart DEF H
      <4> QED
        BY <2>3, <3>1, <3>2, <4>1, <4>3
    <3> QED
      BY <3>3, <3>4
  <2>5. H' = H /\ AtHeader' /\ j' <= Copied(H) /\ part' = "file"
    BY <1>0, <2>1, <2>2 DEF H, AtHeader
  <2>6. ImageSoFar'
    BY <2>1, <2>4, <2>5 DEF ImageSoFar, Pristine
  <2> QED
    BY <1>0, <2>1, <2>6
<1>3. CASE EndOfFilePart
  <2>1. /\ seg \in DOMAIN file.headers /\ H.load /\ j >= Copied(H) /\ part = "file"
        /\ part' = "bss" /\ UNCHANGED <<ptable, file, seg, access, last>>
    BY <1>3 DEF EndOfFilePart, AtHeader
  <2>2. Copied(H) \in Nat
    BY <1>0, <2>1, HeaderFacts DEF H
  <2>3. ASSUME Pristine, NEW n \in DOMAIN file.headers PROVE Filled(n)' = Filled(n)
    <3>1. j = Copied(H)
      BY <1>0, <2>1, <2>2, <2>3 DEF ImageSoFar, AtHeader
    <3> QED
      BY <1>1, <2>1, <3>1 DEF Filled, H
  <2> QED
    BY <1>0, <2>1, <2>3 DEF ImageSoFar, Pristine
<1>4. CASE MapBss
  <2>1. /\ seg \in DOMAIN file.headers /\ part = "bss"
        /\ ptable' = Materialize(ptable, PageNumber(H.vaddr + f_align(H) + j))
        /\ j < BssLength(H) /\ UNCHANGED <<file, seg, part, access, last>>
    BY <1>4 DEF MapBss, MemInv, AtHeader
  <2>2. PageNumber(H.vaddr + f_align(H) + j) \in PageNumbers
    BY <1>0, <2>1, HeaderFacts DEF H
  <2>3. \A a : InSpace(a) => ByteAt(ptable', a) = ByteAt(ptable, a)
    BY <2>1, <2>2, MaterializeSound DEF MemInv
  <2>4. \A n \in DOMAIN file.headers : Filled(n)' = Filled(n)
    BY <2>1 DEF Filled
  <2>5. \A n \in DOMAIN file.headers : \A k \in 0 .. file.headers[n].memsz - 1 :
          InSpace(file.headers[n].vaddr + k)
    BY <1>0, HeaderFacts
  <2> QED
    BY <1>0, <2>1, <2>3, <2>4, <2>5 DEF ImageSoFar, Pristine
<1>5. CASE NextHeader
  <2>1. /\ seg \in DOMAIN file.headers /\ part' = "file" /\ j' = 0 /\ seg' = seg + 1
        /\ part = "bss" \/ (part = "file" /\ ~H.load)
        /\ UNCHANGED <<ptable, file, access, last>>
    BY <1>5 DEF NextHeader, MemInv, AtHeader
  <2>2. seg' \in 1 .. Len(file.headers) + 1
    BY <1>1, <2>1
  <2>3. ASSUME NEW n \in DOMAIN file.headers, file.headers[n].load
        PROVE  Filled(n)' = Filled(n)
    <3>1. n \in Nat
      BY <1>1
    <3>2. n = seg => part = "bss"
      BY <2>1, <2>3 DEF H
    <3> QED
      BY <1>1, <2>1, <3>1, <3>2 DEF Filled
  <2>4. \A n \in DOMAIN file.headers : 0 <= Copied(file.headers[n])
    BY <1>0, HeaderFacts
  <2>5. ImageSoFar'
    BY <2>1, <2>3, <2>4 DEF ImageSoFar, Pristine, AtHeader, H
  <2> QED
    BY <1>0, <2>1, <2>2, <2>5
<1>6. CASE ReadSections
  <2>1. /\ seg \notin DOMAIN file.headers /\ part = "file" /\ part' = "done"
        /\ UNCHANGED <<ptable, file, seg, access, last>>
    BY <1>6 DEF ReadSections, AtHeader
  <2>2. seg = Len(file.headers) + 1
    BY <1>1, <2>1
  <2>3. \A n \in DOMAIN file.headers : Filled(n)' = Filled(n)
    BY <2>1 DEF Filled
  <2> QED
    BY <1>0, <2>1, <2>2, <2>3 DEF ImageSoFar, Pristine
<1>7. CASE \E addr \in Addresses : BeginRead(addr) \/ \E val \in Word : BeginWrite(addr, val)
  <2>1. UNCHANGED <<file, seg>> /\ access' # None
    BY <1>7, BeginType, GuestFacts DEF BeginRead, BeginWrite, loadVars
  <2> QED
    BY <1>0, <2>1 DEF ImageSoFar, Pristine
<1>8. CASE AccessStep
  <2>1. UNCHANGED <<file, seg>> /\ access # None
    BY <1>8 DEF AccessStep, _mem_read_byte, _mem_write_byte, EndAccess, loadVars
  <2>2. access' # None \/ last' # None
    BY <1>8, <2>1, AccessGoesOn, GuestFacts DEF AccessStep, EndAccess
  <2> QED
    BY <1>0, <2>1, <2>2 DEF ImageSoFar, Pristine
<1>9. CASE UNCHANGED memVars
  <2>1. UNCHANGED <<ptable, file, seg, part, j, access, last>>
    BY <1>9 DEF memVars
  <2>2. \A n \in DOMAIN file.headers : Filled(n)' = Filled(n)
    BY <2>1 DEF Filled
  <2> QED
    BY <1>0, <2>1, <2>2 DEF ImageSoFar, Pristine, AtHeader, H
<1> QED
  BY <1>2, <1>3, <1>4, <1>5, <1>6, <1>7, <1>8, <1>9 DEF MemNext, Load

-----------------------------------------------------------------------------
(* Everything the emulator does to the guest's memory is a step of         *)
(* GuestMemory.                                                            *)
THEOREM ImplementsGuestMemory == Spec => MemSpec
<1>1. Init => MemInit
  BY DEF Init
<1>2. ASSUME [Next]_vars PROVE [MemNext]_memVars
  <2>1. CASE SetUp
    BY <2>1 DEF SetUp
  <2>2. CASE loadElf
    BY <2>2 DEF loadElf, MemNext
  <2>3. ASSUME NEW addr \in Addresses, Read(addr)
        PROVE  [MemNext]_memVars
    BY <2>3 DEF Read, MemNext
  <2>4. ASSUME NEW addr \in Addresses, NEW word \in Words, Write(addr, word)
        PROVE  [MemNext]_memVars
    BY <2>4, EmulatorAssumption DEF Write, MemNext
  <2>5. CASE ReadNull \/ ReadChar \/ ReadCheckpoint
    BY <2>5 DEF ReadNull, ReadChar, ReadCheckpoint
  <2>6. CASE WriteNull \/ WriteChar \/ WriteCheckpoint
    BY <2>6 DEF WriteNull, WriteChar, WriteCheckpoint
  <2>7. CASE ContinueAccess
    BY <2>7 DEF ContinueAccess, MemNext
  <2>8. CASE Latch \/ finalize
    BY <2>8 DEF Latch, finalize
  <2>9. CASE log_machine_state
    BY <2>9 DEF log_machine_state, LogPage, LogNextSection, EndLog
  <2>10. CASE Ended \/ UNCHANGED vars
    BY <2>10 DEF Ended, vars
  <2> QED
    BY <1>2, <2>1, <2>2, <2>3, <2>4, <2>5, <2>6, <2>7, <2>8, <2>9, <2>10 DEF Next, Step
<1> QED
  BY <1>1, <1>2, PTL DEF Spec, MemSpec

THEOREM MemReads == MemSpec => []ReadsInv
<1>1. MemInit => ReadsInv
  BY MemInvInit DEF MemInit, ReadsInv, AccessSoFar, AccessesMeanBytes
<1>2. ReadsInv /\ [MemNext]_memVars => ReadsInv'
  BY MemInvStep, ReadsStep DEF ReadsInv
<1> QED
  BY <1>1, <1>2, PTL DEF MemSpec

(* A page number never has two pages, nor a page the wrong bucket: no      *)
(* access can meet another page than the one that holds its byte.          *)
THEOREM EmulatorTableSound == Spec => []TableSound
<1>1. ReadsInv => TableSound
  BY DEF ReadsInv, MemInv, TableSound
<1> QED
  BY <1>1, ImplementsGuestMemory, MemReads, PTL

(* Reads return and writes leave the bytes that memory holds, also across  *)
(* pages and with any colliding hashes.                                    *)
THEOREM EmulatorAccesses == Spec => []AccessesMeanBytes
<1>1. ReadsInv => AccessesMeanBytes
  BY DEF ReadsInv
<1> QED
  BY <1>1, ImplementsGuestMemory, MemReads, PTL

(* No byte changes but the one that a store or the loader names.           *)
THEOREM EmulatorTarget == Spec => ChangesOnlyTarget
<1>1. ASSUME MemInv, [MemNext]_memVars
      PROVE  [\A addr \in Addresses :
                ByteAt(ptable', addr) # ByteAt(ptable, addr) =>
                  /\ part = "file" \/ (access # None /\ access.kind = "write")
                  /\ addr = Target]_memVars
  <2>1. \A addr \in Addresses : InSpace(addr)
    <3>1. ASSUME NEW addr \in Addresses PROVE InSpace(addr)
      <4>1. addr \in Nat /\ 0 \in 0 .. Width-1
        BY GuestFacts
      <4>2. InSpace(addr + 0)
        BY <4>1, GuestFacts
      <4> QED
        BY <4>1, <4>2
    <3> QED
      BY <3>1
  <2> QED
    BY <1>1, <2>1, OthersKept
<1>2. ReadsInv => MemInv
  BY DEF ReadsInv
<1> QED
  BY <1>1, <1>2, ImplementsGuestMemory, MemReads, PTL DEF ChangesOnlyTarget, MemSpec

THEOREM MemLoads == MemSpec => []LoadInv
<1>1. ASSUME MemInit PROVE LoadInv
  <2>1. MemInv /\ file \in Files
    BY <1>1, MemInvInit DEF MemInv
  <2>2. /\ ptable = EmptyTable /\ seg = 1 /\ part = "file" /\ j = 0
        /\ Len(file.headers) \in Nat /\ DOMAIN file.headers = 1 .. Len(file.headers)
    BY <1>1, <2>1, GuestAssumption DEF MemInit
  <2>3. \A n \in DOMAIN file.headers :
          /\ Filled(n) = 0 /\ 0 <= Copied(file.headers[n])
          /\ \A k \in 0 .. file.headers[n].memsz - 1 :
               ~(k < 0) /\ ByteAt(ptable, file.headers[n].vaddr + k) = 0
    <3>1. ASSUME NEW n \in DOMAIN file.headers
          PROVE  /\ Filled(n) = 0 /\ Copied(file.headers[n]) \in Nat
                 /\ file.headers[n].memsz \in Nat
                 /\ \A k \in 0 .. file.headers[n].memsz - 1 :
                      InSpace(file.headers[n].vaddr + k)
      <4>1. Filled(n) = 0
        BY <2>2, <3>1 DEF Filled
      <4> QED
        BY <2>1, <3>1, <4>1, HeaderFacts
    <3> QED
      BY <2>2, <3>1, EmptyTableSound
  <2> QED
    BY <2>1, <2>2, <2>3 DEF LoadInv, ImageSoFar, AtHeader, H
<1>2. LoadInv /\ [MemNext]_memVars => LoadInv'
  BY LoadInvStep
<1> QED
  BY <1>1, <1>2, PTL DEF MemSpec

(* When loading is done every byte of every segment is what the file says, *)
(* or zero behind the copied part, for any file whose segments lie apart.  *)
THEOREM EmulatorImageLoaded == Spec => []ImageLoaded
<1>1. ASSUME LoadInv PROVE ImageLoaded
  <2>1. SUFFICES ASSUME Loaded, access = None, last = None,
                        NEW n \in DOMAIN file.headers, file.headers[n].load,
                        NEW k \in 0 .. file.headers[n].memsz - 1
                 PROVE  ByteAt(ptable, file.headers[n].vaddr + k) =
                          IF k < Copied(file.headers[n]) THEN file.headers[n].bytes[k]
                          ELSE 0
    BY DEF ImageLoaded
  <2>2. file \in Files
    BY <1>1 DEF LoadInv, MemInv
  <2>3. Len(file.headers) \in Nat /\ DOMAIN file.headers = 1 .. Len(file.headers)
    BY <2>2, GuestAssumption
  <2>4. seg = Len(file.headers) + 1 /\ part = "done"
    BY <1>1, <2>1 DEF LoadInv, ImageSoFar, Pristine, Loaded
  <2>5. Filled(n) = Copied(file.headers[n])
    BY <2>1, <2>3, <2>4 DEF Filled
  <2> QED
    BY <1>1, <2>1, <2>5 DEF LoadInv, ImageSoFar, Pristine
<1> QED
  BY <1>1, ImplementsGuestMemory, MemLoads, PTL

-----------------------------------------------------------------------------
(* The pages of the program's file.                                        *)

(* What has been copied is on pages that are there, and stay, whatever the *)
(* guest does; the sections are known once loading is done.                *)
PagesInv ==
  /\ MemInv
  /\ seg \in 1 .. Len(file.headers) + 1
  /\ part = "file" /\ AtHeader /\ H.load => j <= Copied(H)
  /\ Loaded => seg = Len(file.headers) + 1
  /\ \A n \in DOMAIN file.headers : file.headers[n].load =>
       \A k \in Nat : k < Filled(n) =>
         Present(ptable, PageNumber(file.headers[n].vaddr + k))
  /\ seg_start_addr \in [Segments -> Nat]
  /\ Loaded /\ file.data # None => seg_start_addr["DATA"] = file.data

LEMMA PagesStay ==
  ASSUME MemInv, [MemNext]_memVars, NEW q \in PageNumbers, Present(ptable, q)
  PROVE  Present(ptable', q)
<1>1. WellFormed(ptable)
  BY DEF MemInv
<1> QED
  BY <1>1, TableStep, MaterializeKeepsPages, StoreKeepsPages

LEMMA PagesInvStep ==
  ASSUME PagesInv, [MemNext]_memVars
  PROVE  PagesInv'
<1> DEFINE There(n) == \A k \in Nat : k < Filled(n) =>
                         Present(ptable, PageNumber(file.headers[n].vaddr + k))
<1>0. MemInv /\ MemInv' /\ file' = file /\ file \in Files /\ j \in Nat
  <2>1. MemInv /\ MemInv'
    BY MemInvStep DEF PagesInv
  <2>2. file' = file
    BY DEF MemNext, memVars, Load, CopyByte, EndOfFilePart, MapBss, NextHeader, ReadSections,
           BeginRead, BeginWrite, AccessStep, _mem_read_byte, _mem_write_byte, EndAccess,
           loadVars
  <2> QED
    BY <2>1, <2>2 DEF MemInv
<1>1. /\ Len(file.headers) \in Nat /\ DOMAIN file.headers = 1 .. Len(file.headers)
      /\ seg \in Nat /\ seg \in 1 .. Len(file.headers) + 1
      /\ seg_start_addr \in [Segments -> Nat]
  BY <1>0, GuestAssumption DEF PagesInv
<1>2. \A n \in DOMAIN file.headers :
        /\ Copied(file.headers[n]) \in Nat
        /\ \A k \in Nat : k < Copied(file.headers[n]) =>
             /\ InSpace(file.headers[n].vaddr + k)
             /\ file.headers[n].bytes[k] \in Bytes
             /\ PageNumber(file.headers[n].vaddr + k) \in PageNumbers
  <2>1. ASSUME NEW n \in DOMAIN file.headers
        PROVE  /\ Copied(file.headers[n]) \in Nat
               /\ \A k \in Nat : k < Copied(file.headers[n]) =>
                    InSpace(file.headers[n].vaddr + k) /\ file.headers[n].bytes[k] \in Bytes
    BY <1>0, HeaderFacts
  <2> QED
    BY <2>1 DEF InSpace
<1>3. \A n \in DOMAIN file.headers : file.headers[n].load =>
        Filled(n) \in Nat /\ Filled(n) <= Copied(file.headers[n])
  BY <1>0, <1>1, <1>2 DEF PagesInv, Filled, AtHeader, H
<1>4. \A n \in DOMAIN file.headers : file.headers[n].load =>
        \A k \in Nat : k < Filled(n) =>
          Present(ptable', PageNumber(file.headers[n].vaddr + k))
  <2>1. ASSUME NEW n \in DOMAIN file.headers, file.headers[n].load,
               NEW k \in Nat, k < Filled(n)
        PROVE  Present(ptable', PageNumber(file.headers[n].vaddr + k))
    <3>1. PageNumber(file.headers[n].vaddr + k) \in PageNumbers
      BY <1>2, <1>3, <2>1
    <3>2. Present(ptable, PageNumber(file.headers[n].vaddr + k))
      BY <2>1 DEF PagesInv
    <3> QED
      BY <1>0, <3>1, <3>2, PagesStay
  <2> QED
    BY <2>1
<1>5. CASE CopyByte
  <2>1. /\ seg \in DOMAIN file.headers /\ H.load /\ j < Copied(H) /\ part = "file"
        /\ ptable' = WithByte(ptable, H.vaddr + j, H.bytes[j]) /\ WellFormed(ptable)
        /\ j' = j + 1 /\ UNCHANGED <<file, seg, part, seg_start_addr>>
    BY <1>0, <1>5 DEF CopyByte, AtHeader, MemInv
  <2>2. /\ InSpace(H.vaddr + j) /\ H.bytes[j] \in Bytes
        /\ PageNumber(H.vaddr + j) \in PageNumbers /\ Copied(H) \in Nat
    BY <1>0, <1>2, <2>1 DEF H
  <2>3. Present(ptable', PageNumber(H.vaddr + j))
    BY <2>1, <2>2, StoreKeepsPages
  <2>4. \A n \in DOMAIN file.headers : Filled(n)' = IF n = seg THEN j + 1 ELSE Filled(n)
    BY <1>1, <2>1 DEF Filled
  <2>5. \A k \in Nat : k < j + 1 => k < j \/ k = j
    BY <1>0
  <2>6. Filled(seg) = j /\ H = file.headers[seg]
    BY <2>1 DEF Filled, H
  <2>7. \A n \in DOMAIN file.headers : file.headers[n].load =>
          \A k \in Nat : k < Filled(n)' =>
            Present(ptable', PageNumber(file.headers[n].vaddr + k))
    BY <1>4, <2>3, <2>4, <2>5, <2>6
  <2>8. H' = H /\ j' <= Copied(H) /\ ~Loaded' /\ file' = file
    BY <1>0, <2>1, <2>2 DEF H, Loaded
  <2> QED
    BY <1>0, <1>1, <2>1, <2>7, <2>8 DEF PagesInv
<1>6. ASSUME UNCHANGED <<file, seg, part, j, seg_start_addr>> PROVE PagesInv'
  <2>1. \A n : Filled(n)' = Filled(n)
    BY <1>6 DEF Filled
  <2> QED
    BY <1>0, <1>4, <1>6, <2>1 DEF PagesInv, AtHeader, H, Loaded
<1>7. CASE EndOfFilePart
  <2>1. /\ seg \in DOMAIN file.headers /\ H.load /\ j >= Copied(H) /\ part = "file"
        /\ part' = "bss" /\ UNCHANGED <<seg, seg_start_addr>>
    BY <1>7 DEF EndOfFilePart, AtHeader
  <2>2. j = Copied(H)
    BY <1>0, <1>2, <2>1 DEF PagesInv, AtHeader, H
  <2>3. \A n \in DOMAIN file.headers : Filled(n)' = Filled(n)
    BY <1>0, <1>1, <2>1, <2>2 DEF Filled, H
  <2> QED
    BY <1>0, <1>1, <1>4, <2>1, <2>3 DEF PagesInv, Loaded
<1>8. CASE MapBss
  <2>1. part = "bss" /\ UNCHANGED <<seg, part, seg_start_addr>>
    BY <1>8 DEF MapBss
  <2>2. \A n \in DOMAIN file.headers : Filled(n)' = Filled(n)
    BY <1>0, <2>1 DEF Filled
  <2> QED
    BY <1>0, <1>1, <1>4, <2>1, <2>2 DEF PagesInv, Loaded
<1>9. CASE NextHeader
  <2>1. /\ seg \in DOMAIN file.headers /\ part' = "file" /\ j' = 0 /\ seg' = seg + 1
        /\ part = "bss" \/ (part = "file" /\ ~H.load)
        /\ seg_start_addr' = seg_start_addr
    BY <1>0, <1>9 DEF NextHeader, MemInv, AtHeader
  <2>2. seg' \in 1 .. Len(file.headers) + 1
    BY <1>1, <2>1
  <2>3. \A n \in DOMAIN file.headers : file.headers[n].load => Filled(n)' = Filled(n)
    <3>1. ASSUME NEW n \in DOMAIN file.headers, file.headers[n].load
          PROVE  Filled(n)' = Filled(n)
      <4>1. n \in Nat
        BY <1>1
      <4>2. n = seg => part = "bss"
        BY <2>1, <3>1 DEF H
      <4> QED
        BY <1>0, <1>1, <2>1, <4>1, <4>2 DEF Filled
    <3> QED
      BY <3>1
  <2>4. \A n \in DOMAIN file.headers : 0 <= Copied(file.headers[n])
    BY <1>2
  <2> QED
    BY <1>0, <1>1, <1>4, <2>1, <2>2, <2>3, <2>4 DEF PagesInv, Loaded, AtHeader, H
<1>10. CASE ReadSections
  <2>1. /\ seg \notin DOMAIN file.headers /\ part = "file" /\ part' = "done" /\ seg' = seg
        /\ seg_start_addr' =
             [seg_start_addr EXCEPT
                !["TEXT"] = IF file.text = None THEN @ ELSE file.text,
                !["DATA"] = IF file.data = None THEN @ ELSE file.data]
    BY <1>10 DEF ReadSections, AtHeader
  <2>2. seg = Len(file.headers) + 1
    BY <1>1, <2>1
  <2>3. \A n \in DOMAIN file.headers : Filled(n)' = Filled(n)
    BY <1>0, <1>1, <2>1 DEF Filled
  <2>4. file.text \in Nat \cup {None} /\ file.data \in Nat \cup {None}
    BY <1>0, GuestAssumption
  <2>5. /\ seg_start_addr' \in [Segments -> Nat]
        /\ file.data # None => seg_start_addr'["DATA"] = file.data
    BY <1>1, <2>1, <2>4 DEF Segments
  <2> QED
    BY <1>0, <1>1, <1>4, <2>1, <2>2, <2>3, <2>5 DEF PagesInv, Loaded
<1>11. CASE \/ \E addr \in Addresses : BeginRead(addr) \/ \E val \in Word : BeginWrite(addr, val)
            \/ AccessStep \/ UNCHANGED memVars
  BY <1>6, <1>11 DEF BeginRead, BeginWrite, AccessStep, _mem_read_byte, _mem_write_byte,
                     EndAccess, loadVars, memVars
<1> QED
  BY <1>5, <1>7, <1>8, <1>9, <1>10, <1>11 DEF MemNext, Load

THEOREM MemPages == MemSpec => []PagesInv
<1>1. ASSUME MemInit PROVE PagesInv
  <2>1. MemInv /\ file \in Files /\ seg_start_addr \in [Segments -> Nat]
    BY <1>1, MemInvInit, GuestAssumption DEF MemInv, MemInit
  <2>2. /\ seg = 1 /\ part = "file" /\ j = 0
        /\ Len(file.headers) \in Nat /\ DOMAIN file.headers = 1 .. Len(file.headers)
    BY <1>1, <2>1, GuestAssumption DEF MemInit
  <2>3. \A n \in DOMAIN file.headers : Filled(n) = 0 /\ 0 <= Copied(file.headers[n])
    <3>1. ASSUME NEW n \in DOMAIN file.headers
          PROVE  Filled(n) = 0 /\ Copied(file.headers[n]) \in Nat
      BY <2>1, <2>2, <3>1, HeaderFacts DEF Filled
    <3> QED
      BY <3>1
  <2> QED
    BY <2>1, <2>2, <2>3 DEF PagesInv, AtHeader, H, Loaded
<1>2. PagesInv /\ [MemNext]_memVars => PagesInv'
  BY PagesInvStep
<1> QED
  BY <1>1, <1>2, PTL DEF MemSpec
=============================================================================
