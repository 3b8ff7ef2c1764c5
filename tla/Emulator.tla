------------------------------ MODULE Emulator ------------------------------
(***************************************************************************)
(* One run of the program se, from its command line to its end: main of    *)
(* src/base/archsim.c with the modules it calls, CommandLine for           *)
(* handle_args and init, and GuestMemory for loadElf and the bytes.  The   *)
(* guest is any program: in every cycle of runElf it makes one access or   *)
(* none (what a pipeline makes of its instructions is module Pipeline), and *)
(* after any cycle it may stop.  Accesses through a cache are module       *)
(* MemCache and do not happen here.  log_machine_state takes a step for a  *)
(* page.  The program is one thread, so it is weakly fair.                 *)
(***************************************************************************)
EXTENDS GuestMemory, CommandLine

CONSTANTS
  IO_CHAR_ADDR,
  CHECKPOINT_ADDR,
  Words,   \* the words the guest stores
  NoWalk   \* log_machine_state is not running

NULL_ADDR == 0

SpecialAddresses == {NULL_ADDR, IO_CHAR_ADDR, CHECKPOINT_ADDR}

Walks == [sec : {"text", "data", "heap", "stack"}, addr : Int, pnum : Int]

ASSUME EmulatorAssumption ==
  /\ IO_CHAR_ADDR \in Nat \ {NULL_ADDR}
  /\ CHECKPOINT_ADDR \in Nat \ {NULL_ADDR, IO_CHAR_ADDR}
  /\ Words \subseteq Word
  /\ PageSize % Width = 0
  /\ NoWalk \notin Walks

VARIABLES
  num_instr,
  accessed,  \* the memory stage of this cycle has made its access
  walk,      \* section, address and page number log_machine_state is at
  log,       \* the words in the latest record of the checkpoint file
  sent,      \* history: words the guest has stored at IO_CHAR_ADDR
  printed    \* and those of them that logging has printed

runVars  == <<num_instr, accessed, walk, log, sent, printed>>
vars     == <<memVars, argVars, runVars>>

Init ==
  /\ MemInit /\ ArgInit
  /\ num_instr = 0 /\ accessed = FALSE
  /\ walk = NoWalk /\ log = {}
  /\ sent = 0 /\ printed = 0

-----------------------------------------------------------------------------
(* The parts of main before the run.                                       *)

SetUp == (handle_args \/ init) /\ UNCHANGED <<memVars, runVars>>

Goto(to) == pc' = to /\ UNCHANGED <<argv, optind, settings, announced, cache>>

loadElf ==
  /\ pc = "loadElf"
  /\ \/ infile_name \in {NoFile, 0} /\ Goto("exited") /\ UNCHANGED memVars
     \/ infile_name \notin {NoFile, 0} /\ Load /\ UNCHANGED argVars
     \/ Loaded /\ Goto("runElf") /\ UNCHANGED memVars
  /\ UNCHANGED runVars

-----------------------------------------------------------------------------
(* log_machine_state, which CHECKPOINT_ADDR and finalize call.             *)

RoundDown(addr) == addr - (addr % PageSize)

At(sec, addr, pnum) == [sec |-> sec, addr |-> addr, pnum |-> pnum]

(* Seeded fault: the address is not rounded down to its page.              *)
StartUnaligned(sec, addr) == At(sec, addr, PageNumber(addr))

Start(sec, addr) == At(sec, RoundDown(addr), PageNumber(addr))

BeginLog == walk' = Start("text", seg_start_addr["TEXT"]) /\ log' = {}

WordAt(pt, addr) == [k \in 0 .. Width-1 |-> ByteAt(pt, addr + k)]

ZeroWord == [k \in 0 .. Width-1 |-> 0]

(* The words of the page that are not zero.                                *)
WordsOf(w) ==
  {<<w.sec, w.addr + o, WordAt(ptable, w.pnum * PageSize + o)>> :
     o \in {o \in w.addr % PageSize .. PageSize - 1 :
              /\ (o - (w.addr % PageSize)) % Width = 0
              /\ WordAt(ptable, w.pnum * PageSize + o) # ZeroWord}}

(* Seeded fault: the page number is not computed again.                    *)
OnwardSamePage(w) == [w EXCEPT !.addr = IF w.sec = "stack" THEN @ ELSE @ % PageSize]

Onward(w) ==
  LET addr == IF w.sec = "stack" THEN w.addr - PageSize ELSE w.addr + PageSize
  IN  At(w.sec, addr, PageNumber(addr))

OnPage == walk.pnum \in PageNumbers /\ Present(ptable, walk.pnum)

LogPage ==
  /\ walk # NoWalk /\ OnPage
  /\ log' = log \cup WordsOf(walk)
  /\ walk' = Onward(walk)
  /\ UNCHANGED <<memVars, argVars, num_instr, accessed, sent, printed>>

(* The heap starts with the page number the walk over .data has ended at.  *)
LogNextSection ==
  /\ walk # NoWalk /\ ~OnPage /\ walk.sec # "stack"
  /\ walk' = CASE walk.sec = "text" -> Start("data", seg_start_addr["DATA"])
               [] walk.sec = "data" -> At("heap", seg_start_addr["HEAP"], walk.pnum)
               [] walk.sec = "heap" -> Start("stack", seg_start_addr["STACK"] - PageSize)
  /\ UNCHANGED <<memVars, argVars, num_instr, accessed, log, sent, printed>>

(* The number of misses is a quotient by d.                                *)
EndLog ==
  /\ walk # NoWalk /\ ~OnPage /\ walk.sec = "stack"
  /\ walk' = NoWalk
  /\ \/ /\ cache # NoCache /\ cache.d = 0
        /\ Goto("crashed")
     \/ /\ ~(cache # NoCache /\ cache.d = 0)
        /\ Goto(IF pc = "log" THEN "returned" ELSE pc)
  /\ UNCHANGED <<memVars, num_instr, accessed, log, sent, printed>>

log_machine_state == LogPage \/ LogNextSection \/ EndLog

-----------------------------------------------------------------------------
(* runElf: accesses and cycles.                                            *)

Idle == pc = "runElf" /\ access = None /\ walk = NoWalk

StartAccess ==
  /\ Idle /\ ~accessed
  /\ accessed' = TRUE
  /\ UNCHANGED num_instr

Uncached(addr) == cache = NoCache \/ addr < seg_start_addr["DATA"]

Read(addr) ==
  /\ StartAccess
  /\ addr \notin SpecialAddresses /\ Uncached(addr)
  /\ BeginRead(addr)
  /\ UNCHANGED <<argVars, walk, log, sent, printed>>

Write(addr, word) ==
  /\ StartAccess
  /\ addr \notin SpecialAddresses /\ Uncached(addr)
  /\ BeginWrite(addr, word)
  /\ UNCHANGED <<argVars, walk, log, sent, printed>>

(* A fatal message and exit.                                               *)
ReadNull ==
  /\ StartAccess
  /\ terminate' = TRUE
  /\ pc' = "exited"
  /\ UNCHANGED <<memVars, argv, optind, infile_name, outfile, checkpoint, cycle_max,
                 debug_level, shape, announced, cache, walk, log, sent, printed>>

ReadChar ==
  /\ StartAccess
  /\ UNCHANGED <<memVars, argVars, walk, log, sent, printed>>

ReadCheckpoint ==
  /\ StartAccess
  /\ IF checkpoint THEN BeginLog ELSE UNCHANGED <<walk, log>>
  /\ UNCHANGED <<memVars, argVars, sent, printed>>

(* Seeded fault: the message about it is fatal.                            *)
WriteNullFatal ==
  /\ StartAccess
  /\ terminate' = TRUE
  /\ UNCHANGED <<memVars, pc, argv, optind, infile_name, outfile, checkpoint, cycle_max,
                 debug_level, shape, announced, cache, walk, log, sent, printed>>

WriteNull ==
  /\ StartAccess
  /\ UNCHANGED <<memVars, argVars, walk, log, sent, printed>>

WriteChar ==
  /\ StartAccess
  /\ sent' = sent + 1
  /\ printed' = IF terminate THEN printed ELSE printed + 1
  /\ UNCHANGED <<memVars, argVars, walk, log>>

(* An assertion: CHECKPOINT_ADDR cannot be written.                        *)
WriteCheckpoint ==
  /\ StartAccess
  /\ Goto("crashed")
  /\ UNCHANGED <<memVars, walk, log, sent, printed>>

ContinueAccess ==
  /\ AccessStep
  /\ UNCHANGED <<argVars, runVars>>

(* The end of a cycle; there is always a first one.                        *)
Latch ==
  /\ Idle
  /\ num_instr' = num_instr + 1
  /\ accessed' = FALSE
  /\ \/ num_instr' < cycle_max /\ UNCHANGED pc
     \/ pc' = "finalize"
  /\ UNCHANGED <<memVars, argv, optind, settings, announced, cache, walk, log, sent, printed>>

finalize ==
  /\ pc = "finalize"
  /\ IF checkpoint THEN BeginLog /\ Goto("log")
                   ELSE Goto("returned") /\ UNCHANGED <<walk, log>>
  /\ UNCHANGED <<memVars, num_instr, accessed, sent, printed>>

Over == pc \in {"exited", "crashed", "returned"}

Ended == Over /\ UNCHANGED vars

Step ==
  \/ SetUp \/ loadElf
  \/ \E addr \in Addresses : Read(addr) \/ \E word \in Words : Write(addr, word)
  \/ ReadNull \/ ReadChar \/ ReadCheckpoint
  \/ WriteNull \/ WriteChar \/ WriteCheckpoint
  \/ ContinueAccess \/ Latch \/ log_machine_state \/ finalize

Next == Step \/ Ended

Spec == Init /\ [][Next]_vars /\ WF_vars(Step)

-----------------------------------------------------------------------------
(* Properties.                                                             *)

(* The settings, counters and loop positions stay in their ranges.         *)
TypeOK ==
  /\ ptable \in [Buckets -> Seq(Pages)]
  /\ part \in {"file", "bss", "done"} /\ j \in Nat /\ seg \in Nat
  /\ access # None => access.i \in 0 .. Width /\ access.val \in Word
  /\ debug_level \in 0 .. 3
  /\ num_instr \in Nat /\ printed \in 0 .. sent
  /\ \A l \in log : l[2] \in Nat /\ l[3] \in Word \ {ZeroWord}

(* Every word the guest prints comes out, as long as all files could be    *)
(* opened: in particular no message of a store to the null address or of a *)
(* checkpoint silences logging (err_handler.c:49-71, mem.c:126-149).       *)
OutputKept == printed = IF OpenFailed THEN 0 ELSE sent

(* The record at the end of the run is what memory then holds: it has every *)
(* word that is not zero of the file's part of the segment that holds .data *)
(* and of the highest page of the stack, and a line of it that is about    *)
(* text, data or stack tells the word at its address (machine.c:97-200).   *)
CheckpointShowsMemory ==
  pc = "returned" /\ checkpoint =>
    /\ \A l \in log : l[1] # "heap" => l[3] = WordAt(ptable, l[2])
    /\ \A addr \in Addresses :
         LET w     == WordAt(ptable, addr)
             under == {h \in {file.headers[k] : k \in DOMAIN file.headers} :
                         h.load /\ file.data \in h.vaddr .. h.vaddr + Copied(h) - 1}
         IN  addr % Width = 0 /\ w # ZeroWord =>
               /\ \A h \in under :
                    PageNumber(addr) \in PageNumber(file.data) ..
                                         PageNumber(h.vaddr + Copied(h) - 1)
                      => <<"data", addr, w>> \in log
               /\ PageNumber(addr) = PageNumber(seg_start_addr["STACK"] - PageSize)
                    => <<"stack", addr, w>> \in log

(* Every run ends, whatever the guest does: the cycle limit bounds runElf, *)
(* and no walk of log_machine_state goes on for ever                       *)
(* (proc.c:190-191, machine.c:131-187).                                    *)
RunEnds == <>Over

(* What machine.c:158 announces: the heap's words are in the record.       *)
CheckpointShowsHeap ==
  pc = "returned" /\ checkpoint =>
    \A addr \in Addresses :
      addr % Width = 0 /\ PageNumber(addr) = PageNumber(seg_start_addr["HEAP"])
        /\ WordAt(ptable, addr) # ZeroWord
      => \E sec \in {"data", "heap"} : <<sec, addr, WordAt(ptable, addr)>> \in log
=============================================================================
