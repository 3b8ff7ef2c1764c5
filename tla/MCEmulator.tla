----------------------------- MODULE MCEmulator -----------------------------
(***************************************************************************)
(* An instance of Emulator: pages of four bytes, words of two, two buckets *)
(* with pages of text, data, heap and stack in both, and three files.      *)
(***************************************************************************)
EXTENDS Emulator

MCHash(pnum) == pnum % 2

MCseg_starts == [s \in Segments |->
                   CASE s = "TEXT" -> 8 [] s = "DATA" -> 24 [] s = "HEAP" -> 36
                     [] s = "STACK" -> 60 [] s = "KERNEL" -> 72]

(* Bytes of the file from p_offset on, v_align of them behind the segment. *)
Contents(n) == [k \in 0 .. n - 1 |-> IF k % 3 = 2 THEN 2 ELSE 1]

Segment(vaddr, filesz, memsz) ==
  [load |-> TRUE, vaddr |-> vaddr, filesz |-> filesz, memsz |-> memsz,
   bytes |-> Contents(filesz + (vaddr % PageSize))]

Note == [Segment(0, 2, 2) EXCEPT !.load = FALSE]

MCFiles == {
  \* .data in the middle of a page, and bss up to the second page behind it
  [headers |-> <<Segment(8, 3, 3), Segment(21, 3, 9)>>, text |-> 8, data |-> 21],
  \* a note, no data
  [headers |-> <<Note, Segment(8, 6, 6)>>, text |-> 8, data |-> None],
  \* data that ends with its page, so bss leaves a page out
  [headers |-> <<Segment(10, 1, 1), Segment(20, 4, 9), Note>>, text |-> 10, data |-> 20]}

O(name, arg) == [name |-> name, arg |-> arg]

Shape(a, b, c, delay) == <<O("A", a), O("B", b), O("C", c), O("d", delay)>>

MCCommandLines ==
  LET i == <<O("i", 1)>>
      short == <<O("l", 1)>>
  IN  {i \o <<O("l", -1), O("c", 1)>>,              \* the highest limit
       i \o <<O("l", 0), O("v", 5), O("c", 1)>>,
       <<O("l", 2), O("o", 1), O("?", 0)>> \o i,
       i \o <<O("c", 0), O("v", 2)>>,                \* an open that fails
       <<O("c", 1)>> \o i \o short \o <<O("c", 0), O("i", 0)>>,
       <<O("o", 0)>> \o i, <<O("i", 0)>>, <<O("c", 1)>>, <<O("h", 0)>>,
       i \o <<O("v", 1), O("h", 0), O("d", 3)>>}
      \cup
      \* shapes: whole, invalid, with a parameter missing or given twice
      {i \o short \o Shape(s[1], s[2], s[3], s[4]) :
         s \in {-1, 0, 1, 2} \X {-1, 4, 8, 12} \X {-1, 8, 24, 32} \X {-1, 3}}
      \cup
      \* shapes that do not fit: a set's size that wraps, to zero, to a negative int
      \* and to a positive one, and numbers below zero
      {i \o short \o Shape(s[1], s[2], s[3], s[4]) :
         s \in {<<16, 8, 24, 3>>, <<8, 8, 32, 3>>, <<17, 8, 16, 3>>, <<1, 8, 16, -2>>,
                <<-2, 8, 32, 3>>, <<-2, 8, -32, 3>>, <<-2, 8, -16, 3>>, <<1, 8, -16, 3>>}}
      \cup
      {short \o Shape(1, 8, 16, s) \o <<O("c", 1), O("C", c)>> \o i :
         s \in {-1, 0, 3}, c \in {-1, 16, 24}}
      \cup
      {i \o short \o SubSeq(Shape(1, 8, 16, 3), 1, n) \o <<O("o", f)>>
         \o SubSeq(Shape(0, 8, 32, 3), n, 4) : n \in 1 .. 4, f \in {0, 1}}

(* Words that lie across two pages, on the heap, in bss and on the stack.  *)
MCAddresses == {11, 12, 20, 22, 23, 28, 36, 56, 59}

MCWords == {[k \in 0 .. 1 |-> k + 1], [k \in 0 .. 1 |-> 0]}
=============================================================================
