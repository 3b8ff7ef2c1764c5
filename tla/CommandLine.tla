---------------------------- MODULE CommandLine ----------------------------
(***************************************************************************)
(* From the command line to the machine: handle_args, whose loop over the  *)
(* options leaves the file-scope settings behind, init and init_machine,   *)
(* which read them, and the severity of a message in logging.  One step is *)
(* one option.  An option's argument is a number; for -i, -o and -c it is  *)
(* 1 when the file can be opened and 0 when it cannot.  The parameters of  *)
(* the cache are ints: handle_args multiplies and divides them as such,    *)
(* create_cache as unsigned ints.  A product that leaves the range of int  *)
(* wraps, as it does in the build of the Makefiles, which optimises        *)
(* nothing.                                                                *)
(***************************************************************************)
EXTENDS Integers, Sequences

CONSTANTS
  CommandLines,    \* sequences of options
  MAX_NUM_INSTR,   \* the limit without -l
  IntWrap,         \* where an unsigned int wraps, 2^32
  LongWrap,        \* where an unsigned long wraps, 2^64
  NoFile,          \* infile_name without -i
  NoCache          \* guest.cache is NULL

Params == {"A", "B", "C", "d"}

Ints == -(IntWrap \div 2) .. IntWrap \div 2 - 1

Options == [name : {"h", "i", "o", "c", "l", "v", "?"}, arg : Int]
             \cup [name : Params, arg : Ints]

ASSUME CommandLineAssumption ==
  /\ MAX_NUM_INSTR \in Nat
  /\ IntWrap \in Nat \ {0, 1} /\ LongWrap \in Nat \ {0}
  /\ NoFile \notin Int
  /\ CommandLines \subseteq Seq(Options)
  /\ NoCache \notin [A : Nat, S : Nat, d : Nat]

VARIABLES
  pc,           \* which of main's calls runs, or how the program ended
  argv,         \* the command line, never changed
  optind,       \* the next option
  infile_name, outfile, checkpoint,
  cycle_max, debug_level,
  shape,        \* A, B, C and d, -1 when not given
  terminate,    \* a fatal message has been logged
  announced,    \* history: what handle_args said about the cache
  cache         \* guest.cache

settings == <<infile_name, outfile, checkpoint, cycle_max, debug_level, shape, terminate>>
argVars  == <<pc, argv, optind, settings, announced, cache>>

ArgInit ==
  /\ pc = "handle_args"
  /\ argv \in CommandLines
  /\ optind = 1
  /\ infile_name = NoFile
  /\ outfile = "stdout"
  /\ checkpoint = FALSE
  /\ cycle_max = MAX_NUM_INSTR
  /\ debug_level = 0
  /\ shape = [p \in Params |-> -1]
  /\ terminate = FALSE
  /\ announced = "nothing"
  /\ cache = NoCache

-----------------------------------------------------------------------------
(* handle_args.                                                            *)

Parsing(name) ==
  /\ pc = "handle_args"
  /\ optind \in DOMAIN argv
  /\ argv[optind].name = name

Arg == argv[optind].arg

Advance(to) ==
  /\ optind' = optind + 1
  /\ pc' = to
  /\ UNCHANGED <<argv, announced, cache>>

(* Usage is printed and the program ends, with success.                    *)
Help ==
  /\ Parsing("h")
  /\ Advance("exited")
  /\ UNCHANGED settings

Input ==
  /\ Parsing("i")
  /\ infile_name' = Arg
  /\ Advance("handle_args")
  /\ UNCHANGED <<outfile, checkpoint, cycle_max, debug_level, shape, terminate>>

(* A file that cannot be opened is fatal only by name: handle_args returns,*)
(* main goes on, and logging stays silent from now on.                     *)
OpenFails ==
  /\ Parsing("o") \/ Parsing("c")
  /\ Arg = 0
  /\ terminate' = TRUE
  /\ IF Parsing("o") THEN outfile' = "NULL" /\ UNCHANGED checkpoint
                     ELSE checkpoint' = FALSE /\ UNCHANGED outfile
  /\ Advance("init")
  /\ UNCHANGED <<infile_name, cycle_max, debug_level, shape>>

Output ==
  /\ Parsing("o") /\ Arg # 0
  /\ outfile' = "file"
  /\ Advance("handle_args")
  /\ UNCHANGED <<infile_name, checkpoint, cycle_max, debug_level, shape, terminate>>

Checkpoint ==
  /\ Parsing("c") /\ Arg # 0
  /\ checkpoint' = TRUE
  /\ Advance("handle_args")
  /\ UNCHANGED <<infile_name, outfile, cycle_max, debug_level, shape, terminate>>

(* cycle_max is unsigned: a negative limit is a high one.                  *)
Limit ==
  /\ Parsing("l")
  /\ cycle_max' = Arg % LongWrap
  /\ Advance("handle_args")
  /\ UNCHANGED <<infile_name, outfile, checkpoint, debug_level, shape, terminate>>

(* Seeded fault: any number is taken for a level.                          *)
LevelUnchecked(n) == n

Level(n) == IF n \in 0 .. 3 THEN n ELSE 1

Verbose ==
  /\ Parsing("v")
  /\ debug_level' = Level(Arg)
  /\ Advance("handle_args")
  /\ UNCHANGED <<infile_name, outfile, checkpoint, cycle_max, shape, terminate>>

PowerOf2(n) == n > 0 /\ \E k \in 0 .. n : 2 ^ k = n

(* The program exits at once on a block size it cannot use.                *)
BadBlockSize(p, n) == p = "B" /\ n # -1 /\ ~(n >= 8 /\ PowerOf2(n))

CacheOption ==
  /\ \E p \in Params :
       /\ Parsing(p)
       /\ shape' = [shape EXCEPT ![p] = Arg]
       /\ Advance(IF BadBlockSize(p, Arg) THEN "exited" ELSE "handle_args")
  /\ UNCHANGED <<infile_name, outfile, checkpoint, cycle_max, debug_level, terminate>>

Unknown ==
  /\ Parsing("?")
  /\ Advance("handle_args")
  /\ UNCHANGED settings

Complete == \A p \in Params : shape[p] # -1

Unsigned(n) == n % IntWrap

Signed(n) == IF Unsigned(n) \in Ints THEN Unsigned(n) ELSE Unsigned(n) - IntWrap

Abs(n) == IF n < 0 THEN -n ELSE n

(* The quotient of C, which drops the fraction whatever the signs.         *)
Quotient(a, b) ==
  LET q == Abs(a) \div Abs(b)
  IN  IF (a < 0) = (b < 0) THEN q ELSE -q

NumSets(s) == Quotient(s["C"], Signed(s["A"] * s["B"]))

(* No associativity, or one so high that a set's size wraps to zero.       *)
DividesByZero == Complete /\ Unsigned(shape["A"] * shape["B"]) = 0

(* Behind the loop: usage and failure without -i; otherwise the shape of   *)
(* the cache is judged.                                                    *)
Judge ==
  /\ pc = "handle_args" /\ optind \notin DOMAIN argv
  /\ \/ /\ infile_name = NoFile
        /\ pc' = "exited" /\ UNCHANGED announced
     \/ /\ infile_name # NoFile /\ DividesByZero
        /\ pc' = "crashed" /\ UNCHANGED announced
     \/ /\ infile_name # NoFile /\ ~DividesByZero
        /\ pc' = "init"
        /\ announced' = IF ~Complete THEN "missing"
                        ELSE IF ~PowerOf2(NumSets(shape)) THEN "invalid" ELSE "running"
  /\ UNCHANGED <<argv, optind, settings, cache>>

handle_args == \/ Help \/ Input \/ OpenFails \/ Output \/ Checkpoint \/ Limit
               \/ Verbose \/ CacheOption \/ Unknown \/ Judge

-----------------------------------------------------------------------------
(* init.                                                                   *)

(* The members of the cache are unsigned, so its sets are counted anew.    *)
create_cache(s) ==
  [A |-> Unsigned(s["A"]), d |-> Unsigned(s["d"]),
   S |-> Unsigned(s["C"]) \div Unsigned(s["A"] * s["B"])]

(* Seeded fault: the delay is not asked for.                               *)
init_machineNoDelay ==
  IF \A p \in Params \ {"d"} : shape[p] # -1 THEN create_cache(shape) ELSE NoCache

(* create_cache is called whatever handle_args thought of the shape.       *)
init_machine == IF Complete THEN create_cache(shape) ELSE NoCache

(* init also forgets the file that -o opened.  A shape that divides by     *)
(* zero gets here after an open has failed.                                *)
init ==
  /\ pc = "init"
  /\ outfile' = "stdout"
  /\ \/ /\ DividesByZero
        /\ pc' = "crashed" /\ UNCHANGED cache
     \/ /\ ~DividesByZero
        /\ pc' = "loadElf"
        /\ cache' = init_machine
  /\ UNCHANGED <<argv, optind, infile_name, checkpoint, cycle_max, debug_level,
                 shape, terminate, announced>>

-----------------------------------------------------------------------------
(* Properties.                                                             *)

Parsed == SubSeq(argv, 1, optind - 1)

(* What the command line says of a parameter as far as it has been read:   *)
(* the last argument counts.                                               *)
LastGiven(p) ==
  LET places == {k \in DOMAIN Parsed : Parsed[k].name = p}
  IN  IF places = {} THEN -1
      ELSE Parsed[CHOOSE k \in places : \A n \in places : n <= k].arg

OpenFailed == \E k \in DOMAIN Parsed : Parsed[k].name \in {"o", "c"} /\ Parsed[k].arg = 0

Started == pc \in {"loadElf", "runElf", "finalize", "returned"}

(* Once the machine is set up it has a cache iff all four parameters were  *)
(* given, with the values given last, in whatever order options, repeats   *)
(* and failures came (handle_args.c:55-141, machine.c:65-74).  The user was *)
(* told: "running" means a cache, with a number of sets that is a power of *)
(* two unless the capacity is negative (the division of ints at            *)
(* handle_args.c:144 and the unsigned one at cache.c:70 part there),       *)
(* "missing" means none, and no word at all means that a file could not be *)
(* opened.  ("invalid" means a cache as well: RunsWithoutInvalidCache.)    *)
CacheAsGiven ==
  Started =>
    /\ (cache # NoCache) <=> \A p \in Params : LastGiven(p) # -1
    /\ cache # NoCache =>
         /\ cache.A = Unsigned(LastGiven("A")) /\ cache.d = Unsigned(LastGiven("d"))
         /\ cache.S = Unsigned(LastGiven("C"))
                       \div Unsigned(LastGiven("A") * LastGiven("B"))
    /\ announced = "running" =>
         cache # NoCache /\ (LastGiven("C") >= 0 => PowerOf2(cache.S))
    /\ announced = "missing" => cache = NoCache
    /\ announced = "nothing" => OpenFailed

(* What usage says at handle_args.c:37: with a configuration that is not   *)
(* valid "se will run without a cache".                                    *)
RunsWithoutInvalidCache == Started /\ announced = "invalid" => cache = NoCache

(* What usage says at handle_args.c:25: -o writes "the ouput of se to the  *)
(* specified file".                                                        *)
OutputGoesToFile ==
  Started /\ (\E k \in DOMAIN Parsed : Parsed[k].name = "o" /\ Parsed[k].arg # 0)
    => outfile = "file"
=============================================================================
