---------------------------- MODULE GuestMemory -----------------------------
(***************************************************************************)
(* The guest's memory from an empty page table to the end of the run: the  *)
(* loops of loadElf (src/base/elf_loader.c), which fill it from the        *)
(* program's file, and those of _mem_read_LE and _mem_write_LE (mem.c),    *)
(* which are all that the guest does to it when there is no cache.  One    *)
(* step is one iteration of a loop, on one byte.                           *)
(***************************************************************************)
EXTENDS PTable

CONSTANTS
  Files,       \* the ELF files a run may be given
  Width,       \* bytes of a word, 8 for mem_read_L
  seg_starts,  \* TEXT, DATA, HEAP, STACK and KERNEL before loading
  Addresses,   \* the addresses the guest uses
  None         \* no access under way; no such section

Word == [0 .. Width-1 -> Bytes]

Accesses == [kind : {"read", "write"}, addr : Addresses, i : 0 .. Width, val : Word]

Segments == {"TEXT", "DATA", "HEAP", "STACK", "KERNEL"}

(* A program header, with the bytes of the file from p_offset on.          *)
v_align(h) == h.vaddr % PageSize
f_align(h) == h.filesz + (PageSize - ((h.filesz + h.vaddr) % PageSize))

(* Bytes the copy loop takes from the file.                                *)
Copied(h) == h.filesz + v_align(h)

BssLength(h) == IF h.memsz > h.filesz THEN h.memsz - h.filesz ELSE 0

Header(h) ==
  /\ h.vaddr \in Nat /\ h.filesz \in Nat /\ h.memsz \in Nat
  /\ h.load \in BOOLEAN
  /\ \A k \in 0 .. h.memsz - 1 : InSpace(h.vaddr + k)
  /\ \A k \in 0 .. Copied(h) - 1 : h.bytes[k] \in Bytes /\ InSpace(h.vaddr + k)
  /\ \A k \in 0 .. BssLength(h) - 1 : InSpace(h.vaddr + f_align(h) + k)

(* Of two segments the first is the lower one, and the pages the loader    *)
(* uses for them are apart: no page holds bytes of one, its bss and what   *)
(* the copy loop takes beyond the file part included, and bytes of the     *)
(* other.  The linker aligns segments to 64 KiB; a page has 4 KiB.         *)
Apart(h, g) ==
  \A a \in h.vaddr .. h.vaddr + Copied(h) + h.memsz,
     b \in g.vaddr .. g.vaddr + Copied(g) + g.memsz :
    PageNumber(a) < PageNumber(b)

ASSUME GuestAssumption ==
  /\ Width \in Nat \ {0}
  /\ seg_starts \in [Segments -> Nat]
  /\ Addresses \subseteq Nat
  /\ \A addr \in Addresses : \A k \in 0 .. Width-1 : InSpace(addr + k)
  /\ \A f \in Files :
       /\ Len(f.headers) \in Nat /\ DOMAIN f.headers = 1 .. Len(f.headers)
       /\ \A n \in DOMAIN f.headers : Header(f.headers[n])
       /\ \A n, k \in DOMAIN f.headers :
            n < k /\ f.headers[n].load /\ f.headers[k].load
              => Apart(f.headers[n], f.headers[k])
       /\ f.text \in Nat \cup {None} /\ f.data \in Nat \cup {None}
  /\ None \notin Nat \cup Accesses

VARIABLES
  ptable,
  file,            \* the program, never changed
  seg,             \* loadElf: the program header it is at
  part,            \* which of its loops runs: "file", "bss", or "done"
  j,               \* and the counter of that loop
  seg_start_addr,  \* guest.mem->seg_start_addr
  access,          \* the LE loop that runs, or None
  last             \* history: the access that has ended last, or None

memVars == <<ptable, file, seg, part, j, seg_start_addr, access, last>>
loadVars == <<file, seg, part, j, seg_start_addr>>

MemInit ==
  /\ ptable = EmptyTable
  /\ file \in Files
  /\ seg = 1 /\ part = "file" /\ j = 0
  /\ seg_start_addr = seg_starts
  /\ access = None /\ last = None

-----------------------------------------------------------------------------
(* loadElf.                                                                *)

H == file.headers[seg]

AtHeader == seg \in DOMAIN file.headers

CopyByte ==
  /\ part = "file" /\ AtHeader /\ H.load
  /\ j < Copied(H)
  /\ ptable' = WithByte(ptable, H.vaddr + j, H.bytes[j])
  /\ j' = j + 1
  /\ UNCHANGED <<file, seg, part, seg_start_addr, access, last>>

EndOfFilePart ==
  /\ part = "file" /\ AtHeader /\ H.load
  /\ j >= Copied(H)
  /\ part' = "bss" /\ j' = 0
  /\ UNCHANGED <<ptable, file, seg, seg_start_addr, access, last>>

(* Pages for bss are added from the page behind the file part on, and hold *)
(* zeros from calloc.                                                      *)
MapBss ==
  /\ part = "bss"
  /\ j < BssLength(H)
  /\ ptable' = Materialize(ptable, PageNumber(H.vaddr + f_align(H) + j))
  /\ j' = j + 1
  /\ UNCHANGED <<file, seg, part, seg_start_addr, access, last>>

NextHeader ==
  /\ \/ part = "bss" /\ j >= BssLength(H)
     \/ part = "file" /\ AtHeader /\ ~H.load
  /\ seg' = seg + 1 /\ part' = "file" /\ j' = 0
  /\ UNCHANGED <<ptable, file, seg_start_addr, access, last>>

(* The section headers, once the program headers are through.              *)
ReadSections ==
  /\ part = "file" /\ ~AtHeader
  /\ seg_start_addr' =
       [seg_start_addr EXCEPT
          !["TEXT"] = IF file.text = None THEN @ ELSE file.text,
          !["DATA"] = IF file.data = None THEN @ ELSE file.data]
  /\ part' = "done"
  /\ UNCHANGED <<ptable, file, seg, j, access, last>>

Load == CopyByte \/ EndOfFilePart \/ MapBss \/ NextHeader \/ ReadSections

Loaded == part = "done"

-----------------------------------------------------------------------------
(* mem.c.                                                                  *)

(* _mem_read_LE: from the last byte to the first, each shifted under the   *)
(* ones before.                                                            *)
BeginRead(addr) ==
  /\ Loaded /\ access = None
  /\ access' = [kind |-> "read", addr |-> addr, i |-> Width,
                val |-> [k \in 0 .. Width-1 |-> 0]]
  /\ last' = None
  /\ UNCHANGED <<ptable, loadVars>>

Shifted(val, byte) == [k \in 0 .. Width-1 |-> IF k = 0 THEN byte ELSE val[k - 1]]

_mem_read_byte ==
  /\ access # None /\ access.kind = "read" /\ access.i > 0
  /\ LET addr == access.addr + access.i - 1
     IN  /\ ptable' = Materialize(ptable, PageNumber(addr))
         /\ access' = [access EXCEPT !.i = @ - 1,
                                     !.val = Shifted(@, ByteAt(ptable, addr))]
  /\ UNCHANGED <<loadVars, last>>

(* _mem_write_LE: from the first byte to the last.                         *)
BeginWrite(addr, val) ==
  /\ Loaded /\ access = None
  /\ access' = [kind |-> "write", addr |-> addr, i |-> 0, val |-> val]
  /\ last' = None
  /\ UNCHANGED <<ptable, loadVars>>

(* Seeded fault: every byte goes to the page of the first.                 *)
StoreAddressOnePage(a) ==
  PageNumber(a.addr) * PageSize + PageOffset(a.addr + a.i)

StoreAddress(a) == a.addr + a.i

_mem_write_byte ==
  /\ access # None /\ access.kind = "write" /\ access.i < Width
  /\ ptable' = WithByte(ptable, StoreAddress(access), access.val[access.i])
  /\ access' = [access EXCEPT !.i = @ + 1]
  /\ UNCHANGED <<loadVars, last>>

EndAccess ==
  /\ access # None
  /\ access.i = IF access.kind = "read" THEN 0 ELSE Width
  /\ last' = access
  /\ access' = None
  /\ UNCHANGED <<ptable, loadVars>>

AccessStep == _mem_read_byte \/ _mem_write_byte \/ EndAccess

MemNext ==
  \/ Load
  \/ \E addr \in Addresses : BeginRead(addr) \/ \E val \in Word : BeginWrite(addr, val)
  \/ AccessStep

MemSpec == MemInit /\ [][MemNext]_memVars

-----------------------------------------------------------------------------
(* Properties.                                                             *)

(* A page number has one page, and the bucket of its hash holds it: a      *)
(* second page would hide what the first one holds (ptable.c:37-55).       *)
TableSound == WellFormed(ptable)

(* After loading, every byte of a segment is the file's up to v_align      *)
(* bytes behind the file part, which the copy loop runs over, and zero     *)
(* from there to the end of bss, whatever other segments there are and     *)
(* whatever pages collide (elf_loader.c:66-98).                            *)
ImageLoaded ==
  Loaded /\ access = None /\ last = None =>
    \A i \in DOMAIN file.headers :
      LET h == file.headers[i]
      IN  h.load =>
            \A k \in 0 .. h.memsz - 1 :
              ByteAt(ptable, h.vaddr + k) = IF k < Copied(h) THEN h.bytes[k] ELSE 0

(* The address the running loop stores to.                                 *)
Target == IF part = "file" THEN H.vaddr + j ELSE access.addr + access.i

(* No step changes a byte other than the one it stores: not adding a page, *)
(* not reading, not mapping bss (mem.c:64-71, 107-116, elf_loader.c:77-97).*)
ChangesOnlyTarget ==
  [][\A addr \in Addresses :
       ByteAt(ptable', addr) # ByteAt(ptable, addr) =>
         /\ part = "file" \/ (access # None /\ access.kind = "write")
         /\ addr = Target]_memVars

(* A finished read has returned, and a finished write has left, the bytes  *)
(* that memory holds from its address on, lowest first, also when they lie *)
(* on two pages of which one or both were missing (mem.c:73-78, 118-124).  *)
AccessesMeanBytes ==
  last # None =>
    \A k \in 0 .. Width-1 : last.val[k] = ByteAt(ptable, last.addr + k)

(* What elf_loader.c:88 says of bss: "initialization to 0 happens          *)
(* indirectly through calloc()".                                           *)
BssIsZero ==
  Loaded /\ access = None /\ last = None =>
    \A i \in DOMAIN file.headers :
      LET h == file.headers[i]
      IN  h.load => \A k \in h.filesz .. h.memsz - 1 : ByteAt(ptable, h.vaddr + k) = 0
=============================================================================
