--------------------------- MODULE EmulatorProofs ---------------------------
(***************************************************************************)
(* What is true of every run of se, whatever its command line, its file    *)
(* and its guest: the machine is the one the command line asks for, and    *)
(* the guest's output comes out.                                           *)
(***************************************************************************)
EXTENDS MemoryProofs

-----------------------------------------------------------------------------
(* The loop over the options.                                              *)

Places(p) == {k \in DOMAIN Parsed : Parsed[k].name = p}

(* The options read so far are those before optind.                        *)
LEMMA ParsedOptions ==
  ASSUME argv \in Seq(Options), optind \in 1 .. Len(argv) + 1
  PROVE  /\ DOMAIN Parsed = 1 .. optind - 1
         /\ \A k \in 1 .. optind - 1 : Parsed[k] = argv[k] /\ argv[k] \in Options
  BY DEF Parsed

(* What the loop has made of them: a parameter has the value given last,   *)
(* and there is a last one.                                                *)
ArgsRead ==
  /\ argv \in Seq(Options)
  /\ optind \in 1 .. Len(argv) + 1
  /\ \A p \in Params : Places(p) # {} =>
       \E k \in Places(p) : \A n \in Places(p) : n <= k
  /\ shape \in [Params -> Ints]
  /\ \A p \in Params : shape[p] = LastGiven(p)

(* One more option has been read.                                          *)
LEMMA NextOption ==
  ASSUME ArgsRead, optind \in DOMAIN argv, argv' = argv, optind' = optind + 1
  PROVE  /\ optind' \in 1 .. Len(argv') + 1
         /\ argv[optind].name \in Params => Arg \in Ints
         /\ OpenFailed' <=> \/ OpenFailed
                            \/ argv[optind].name \in {"o", "c"} /\ Arg = 0
         /\ \A p \in Params :
              /\ LastGiven(p)' = IF argv[optind].name = p THEN Arg ELSE LastGiven(p)
              /\ Places(p)' # {} => \E k \in Places(p)' : \A n \in Places(p)' : n <= k
<1>1. /\ argv \in Seq(Options) /\ optind \in 1 .. Len(argv) + 1
      /\ optind \in 1 .. Len(argv) /\ Len(argv) \in Nat
  BY DEF ArgsRead
<1>2. optind' \in 1 .. Len(argv') + 1 /\ argv' \in Seq(Options)
  BY <1>1
<1>3. argv[optind].name \in Params => Arg \in Ints
  <2>1. argv[optind] \in Options
    BY <1>1
  <2>2. QED
    BY <2>1 DEF Arg, Options, Params
<1>4. /\ DOMAIN Parsed = 1 .. optind - 1
      /\ \A k \in 1 .. optind - 1 : Parsed[k] = argv[k]
  BY <1>1, ParsedOptions
<1>5. /\ DOMAIN Parsed' = 1 .. optind
      /\ \A k \in 1 .. optind : Parsed'[k] = argv[k]
  <2>1. Parsed' = SubSeq(argv, 1, optind)
    <3>1. optind' - 1 = optind
      BY <1>1
    <3>2. QED
      BY <3>1 DEF Parsed
  <2>2. QED
    BY <1>1, <2>1
<1>6. 1 .. optind = (1 .. optind - 1) \cup {optind} /\ optind \notin 1 .. optind - 1
  BY <1>1
<1>7. OpenFailed' <=> OpenFailed \/ (argv[optind].name \in {"o", "c"} /\ Arg = 0)
  BY <1>4, <1>5, <1>6 DEF OpenFailed, Arg
<1>8. ASSUME NEW p \in Params
      PROVE  /\ LastGiven(p)' = IF argv[optind].name = p THEN Arg ELSE LastGiven(p)
             /\ Places(p)' # {} => \E k \in Places(p)' : \A n \in Places(p)' : n <= k
  <2>1. Places(p)' = Places(p) \cup (IF argv[optind].name = p THEN {optind} ELSE {})
    BY <1>4, <1>5, <1>6 DEF Places
  <2>2. \A k \in Places(p) : k \in 1 .. optind - 1
    BY <1>4 DEF Places
  <2>3. LastGiven(p)' = IF Places(p)' = {} THEN -1
        ELSE Parsed'[CHOOSE k \in Places(p)' : \A n \in Places(p)' : n <= k].arg
    BY DEF LastGiven, Places
  <2>4. LastGiven(p) = IF Places(p) = {} THEN -1
        ELSE Parsed[CHOOSE k \in Places(p) : \A n \in Places(p) : n <= k].arg
    BY DEF LastGiven, Places
  <2>5. CASE argv[optind].name = p
    <3> DEFINE P == Places(p)'
    <3>1. optind \in P /\ \A n \in P : n <= optind /\ n \in Nat
      BY <1>1, <2>1, <2>2, <2>5
    <3> HIDE DEF P
    <3>2. (CHOOSE k \in P : \A n \in P : n <= k) = optind
      BY <1>1, <3>1
    <3>3. LastGiven(p)' = Parsed'[optind].arg
      BY <2>3, <3>1, <3>2 DEF P
    <3>4. QED
      BY <1>1, <1>5, <2>5, <3>1, <3>3 DEF P, Arg
  <2>6. CASE argv[optind].name # p
    <3>1. Places(p)' = Places(p)
      BY <2>1, <2>6
    <3>2. Places(p) # {} =>
            (CHOOSE k \in Places(p) : \A n \in Places(p) : n <= k) \in Places(p)
      BY DEF ArgsRead
    <3>3. \A k \in Places(p) : Parsed'[k] = Parsed[k]
      BY <1>4, <1>5, <1>6, <2>2
    <3>4. QED
      BY <2>3, <2>4, <2>6, <3>1, <3>2, <3>3 DEF ArgsRead
  <2>7. QED
    BY <2>5, <2>6
<1>9. QED
  BY <1>2, <1>3, <1>7, <1>8

(* Both divisions are of numbers in range, and where neither the capacity  *)
(* nor their quotient as ints is negative, they agree.                     *)
LEMMA UnsignedSets ==
  /\ \A n \in Int : Unsigned(n) \in 0 .. IntWrap - 1
  /\ \A c, n \in Int : Unsigned(n) # 0 => Unsigned(c) \div Unsigned(n) \in Nat
  /\ \A c \in Ints, n \in Int :
       c >= 0 /\ Unsigned(n) # 0 /\ Quotient(c, Signed(n)) > 0
         => Quotient(c, Signed(n)) = Unsigned(c) \div Unsigned(n)
<1>1. \A n \in Int : Unsigned(n) \in 0 .. IntWrap - 1
  BY CommandLineAssumption DEF Unsigned
<1>2. \A a \in Nat, b \in Nat \ {0} : a \div b \in Nat
  OBVIOUS
<1>3. \A c, n \in Int : Unsigned(n) # 0 => Unsigned(c) \div Unsigned(n) \in Nat
  BY <1>1, <1>2, CommandLineAssumption
<1>4. ASSUME NEW c \in Ints, NEW n \in Int, c >= 0, Unsigned(n) # 0,
             Quotient(c, Signed(n)) > 0
      PROVE  Quotient(c, Signed(n)) = Unsigned(c) \div Unsigned(n)
  <2>1. c \in 0 .. IntWrap - 1 /\ Unsigned(c) = c
    BY <1>4, CommandLineAssumption DEF Unsigned, Ints
  <2>2. Unsigned(n) \in 0 .. IntWrap - 1
    BY <1>1
  <2>3. CASE Unsigned(n) \in Ints
    <3>1. Signed(n) = Unsigned(n) /\ Abs(c) = c /\ Abs(Unsigned(n)) = Unsigned(n)
          /\ ~(Unsigned(n) < 0) /\ ~(c < 0)
      BY <2>1, <2>2, <2>3 DEF Signed, Abs
    <3> QED
      BY <2>1, <3>1 DEF Quotient
  <2>4. CASE Unsigned(n) \notin Ints
    <3>1. Signed(n) = Unsigned(n) - IntWrap /\ Signed(n) \in Int /\ Signed(n) < 0
      BY <2>2, <2>4, CommandLineAssumption DEF Signed
    <3>2. Abs(Signed(n)) \in Nat \ {0} /\ Abs(c) \in Nat /\ ~(c < 0)
      BY <2>1, <3>1 DEF Abs
    <3>3. Abs(c) \div Abs(Signed(n)) \in Nat
      BY <1>2, <3>2
    <3>4. Quotient(c, Signed(n)) = -(Abs(c) \div Abs(Signed(n)))
      BY <3>1, <3>2 DEF Quotient
    <3> QED
      BY <1>4, <3>3, <3>4
  <2> QED
    BY <2>3, <2>4
<1> QED
  BY <1>1, <1>3, <1>4

(* The phases of a run behind handle_args, and those with a machine.       *)
Running == {"loadElf", "runElf", "finalize", "log", "returned"}

(* The inductive invariant.  CacheAsGiven speaks of the machine; it rests  *)
(* on what the loop has read, on what was announced of it, and on a size   *)
(* of zero and a bad block size having ended the program before.           *)
ArgInv ==
  /\ ArgsRead
  /\ announced \in {"nothing", "missing", "invalid", "running"}
  /\ pc = "handle_args" => announced = "nothing" /\ ~OpenFailed
  /\ pc # "exited" => /\ terminate <=> OpenFailed
                      /\ ~BadBlockSize("B", shape["B"])
  /\ pc \in {"init"} \cup Running /\ announced = "nothing" => OpenFailed
  /\ announced = "running" => Complete /\ PowerOf2(NumSets(shape))
  /\ announced = "missing" => ~Complete
  /\ pc \in Running => cache = init_machine /\ ~DividesByZero

(* An option that is not the last word of handle_args keeps the invariant: *)
(* it reads its argument, and changes the shape only by what it says.      *)
LEMMA OptionRead ==
  ASSUME ArgInv, pc = "handle_args", optind \in DOMAIN argv,
         UNCHANGED <<argv, announced, cache>>, optind' = optind + 1,
         shape' = [p \in Params |-> IF argv[optind].name = p THEN Arg ELSE shape[p]],
         terminate' \in BOOLEAN, terminate \in BOOLEAN,
         pc' \in {"handle_args", "init", "exited"},
         LET fails == argv[optind].name \in {"o", "c"} /\ Arg = 0
             bad   == argv[optind].name = "B" /\ BadBlockSize("B", Arg)
         IN  /\ terminate' = (terminate \/ fails)
             /\ pc' = "init" <=> fails
             /\ pc' = "handle_args" => ~bad
  PROVE  ArgInv'
<1>1. /\ ArgsRead /\ announced = "nothing" /\ ~OpenFailed /\ (terminate <=> OpenFailed)
      /\ ~BadBlockSize("B", shape["B"])
  BY DEF ArgInv
<1>2. ArgsRead'
  <2>1. shape' \in [Params -> Ints]
    BY <1>1, NextOption DEF ArgsRead
  <2>2. \A p \in Params : shape'[p] = LastGiven(p)'
    BY <1>1, NextOption DEF ArgsRead
  <2>3. QED
    BY <1>1, <2>1, <2>2, NextOption DEF ArgsRead
<1>3. OpenFailed' <=> argv[optind].name \in {"o", "c"} /\ Arg = 0
  BY <1>1, NextOption
<1>4. pc' \notin Running
  BY DEF Running
<1>5. pc' # "exited" => ~BadBlockSize("B", shape["B"])'
  <2>1. ASSUME pc' # "exited"
        PROVE  ~BadBlockSize("B", shape'["B"])
    <3>1. CASE argv[optind].name = "B"
      <4>1. shape'["B"] = Arg /\ pc' = "handle_args"
        BY <2>1, <3>1 DEF Params
      <4>2. QED
        BY <3>1, <4>1
    <3>2. CASE argv[optind].name # "B"
      <4>1. shape'["B"] = shape["B"]
        BY <3>2 DEF Params
      <4>2. QED
        BY <1>1, <4>1
    <3>3. QED
      BY <3>1, <3>2
  <2>2. QED
    BY <2>1 DEF BadBlockSize, PowerOf2
<1>6. QED
  BY <1>1, <1>2, <1>3, <1>4, <1>5 DEF ArgInv

(* One turn of the loop, whichever option it reads.                        *)
LEMMA ArgInvOption ==
  ASSUME ArgInv, terminate \in BOOLEAN,
         Help \/ Input \/ OpenFails \/ Output \/ Checkpoint \/ Limit
           \/ Verbose \/ CacheOption \/ Unknown
  PROVE  ArgInv' /\ terminate' \in BOOLEAN
<1> DEFINE name == argv[optind].name
           Kept == [p \in Params |-> IF name = p THEN Arg ELSE shape[p]]
<1>1. shape \in [Params -> Ints] /\ Params = {"A", "B", "C", "d"}
  BY DEF ArgInv, ArgsRead, Params
<1>2. ASSUME name \notin Params, shape' = shape PROVE shape' = Kept
  BY <1>1, <1>2
<1>3. CASE OpenFails
  <2>1. /\ pc = "handle_args" /\ optind \in DOMAIN argv /\ name \in {"o", "c"} /\ Arg = 0
        /\ pc' = "init" /\ shape' = shape /\ terminate' = TRUE
        /\ UNCHANGED <<argv, announced, cache>> /\ optind' = optind + 1
    BY <1>3 DEF OpenFails, Parsing, Advance
  <2>2. shape' = Kept
    BY <1>1, <1>2, <2>1
  <2> QED
    BY <2>1, <2>2, OptionRead
<1>4. CASE CacheOption
  <2>1. PICK p \in Params :
          /\ pc = "handle_args" /\ optind \in DOMAIN argv /\ name = p
          /\ shape' = [shape EXCEPT ![p] = Arg]
          /\ pc' = IF BadBlockSize(p, Arg) THEN "exited" ELSE "handle_args"
          /\ UNCHANGED <<argv, announced, cache, terminate>> /\ optind' = optind + 1
    BY <1>4 DEF CacheOption, Parsing, Advance
  <2>2. shape' = Kept
    BY <1>1, <2>1
  <2>3. name \notin {"o", "c"}
    BY <1>1, <2>1
  <2>4. pc' = "handle_args" => ~(name = "B" /\ BadBlockSize("B", Arg))
    BY <2>1
  <2> QED
    BY <2>1, <2>2, <2>3, <2>4, OptionRead
<1>5. CASE Help \/ Input \/ Output \/ Checkpoint \/ Limit \/ Verbose \/ Unknown
  <2>1. /\ pc = "handle_args" /\ optind \in DOMAIN argv /\ name \notin Params
        /\ ~(name \in {"o", "c"} /\ Arg = 0) /\ pc' \in {"handle_args", "exited"}
        /\ UNCHANGED <<argv, announced, cache, shape, terminate>> /\ optind' = optind + 1
    BY <1>1, <1>5 DEF Help, Input, Output, Checkpoint, Limit, Verbose, Unknown,
                      Parsing, Advance, settings
  <2>2. shape' = Kept
    BY <1>2, <2>1
  <2>3. name # "B"
    BY <1>1, <2>1
  <2> QED
    BY <2>1, <2>2, <2>3, OptionRead
<1> QED
  BY <1>3, <1>4, <1>5

LEMMA ArgInvInit == ArgInit => ArgInv /\ terminate \in BOOLEAN
<1> SUFFICES ASSUME ArgInit PROVE ArgInv /\ terminate \in BOOLEAN
  OBVIOUS
<1>1. argv \in Seq(Options) /\ optind = 1 /\ Len(argv) \in Nat
  BY CommandLineAssumption DEF ArgInit
<1>2. DOMAIN Parsed = {}
  BY <1>1, ParsedOptions
<1>3. \A p \in Params : Places(p) = {} /\ LastGiven(p) = -1
  BY <1>2 DEF Places, LastGiven
<1>4. shape \in [Params -> Ints] /\ \A p \in Params : shape[p] = -1
  BY CommandLineAssumption DEF ArgInit, Ints
<1>5. ArgsRead
  BY <1>1, <1>3, <1>4 DEF ArgsRead
<1>6. ~OpenFailed
  BY <1>2 DEF OpenFailed
<1>7. shape["B"] = -1
  BY <1>4 DEF Params
<1> QED
  BY <1>5, <1>6, <1>7 DEF ArgInv, ArgInit, BadBlockSize, Running

(* What runElf, the walk of log_machine_state and the ends of a run leave  *)
(* as handle_args and init have left it.                                   *)
ArgsKept == UNCHANGED <<argv, optind, shape>>

LEMMA ArgsReadKept ==
  ASSUME ArgsKept
  PROVE  /\ ArgsRead' <=> ArgsRead
         /\ OpenFailed' <=> OpenFailed
         /\ Complete' <=> Complete
         /\ DividesByZero' <=> DividesByZero
         /\ NumSets(shape)' = NumSets(shape)
         /\ BadBlockSize("B", shape["B"])' <=> BadBlockSize("B", shape["B"])
         /\ init_machine' = init_machine
         /\ \A p \in Params : LastGiven(p)' = LastGiven(p)
<1>1. Parsed' = Parsed
  BY DEF ArgsKept, Parsed
<1>2. \A p : Places(p)' = Places(p) /\ LastGiven(p)' = LastGiven(p)
  BY <1>1 DEF Places, LastGiven
<1>3. ArgsRead' <=> ArgsRead
  BY <1>2 DEF ArgsRead, ArgsKept
<1>4. (OpenFailed' <=> OpenFailed) /\ (Complete' <=> Complete)
  BY <1>1 DEF OpenFailed, Complete, ArgsKept
<1>5. /\ NumSets(shape)' = NumSets(shape) /\ init_machine' = init_machine
      /\ DividesByZero' <=> DividesByZero
  BY <1>4 DEF NumSets, Signed, Quotient, Abs, Unsigned, DividesByZero, create_cache,
              init_machine, ArgsKept
<1>6. BadBlockSize("B", shape["B"])' <=> BadBlockSize("B", shape["B"])
  BY DEF BadBlockSize, PowerOf2, ArgsKept
<1> QED
  BY <1>2, <1>3, <1>4, <1>5, <1>6

(* Steps that change none of it: pc may move on among the phases.          *)
LEMMA ArgInvKept ==
  ASSUME ArgInv, ArgsKept, UNCHANGED <<announced, cache>>,
         pc' # "exited" => pc # "exited" /\ terminate' = terminate,
         pc' = "handle_args" => pc = "handle_args",
         pc' \in {"init"} \cup Running => pc' = pc \/ {pc, pc'} \subseteq Running
  PROVE  ArgInv'
<1>1. /\ (PowerOf2(NumSets(shape)))' <=> PowerOf2(NumSets(shape))
      /\ shape' = shape
  BY ArgsReadKept DEF ArgsKept, PowerOf2
<1> QED
  BY <1>1, ArgsReadKept DEF ArgInv

LEMMA ArgInvJudge ==
  ASSUME ArgInv, Judge
  PROVE  ArgInv'
<1>1. ArgsKept /\ terminate' = terminate /\ pc = "handle_args" /\ ~OpenFailed
      /\ announced = "nothing" /\ cache' = cache
  BY DEF Judge, ArgsKept, settings, ArgInv
<1>2. pc' \in {"exited", "crashed"} => announced' = "nothing"
  BY <1>1 DEF Judge
<1>3. CASE pc' \in {"exited", "crashed"}
  <2>1. announced' = announced
    BY <1>1, <1>2, <1>3
  <2> QED
    BY <1>1, <1>3, <2>1, ArgInvKept DEF Running
<1>4. CASE pc' \notin {"exited", "crashed"}
  <2>1. /\ pc' = "init"
        /\ announced' = IF ~Complete THEN "missing"
                        ELSE IF ~PowerOf2(NumSets(shape)) THEN "invalid" ELSE "running"
    BY <1>4 DEF Judge
  <2>2. (PowerOf2(NumSets(shape)))' <=> PowerOf2(NumSets(shape))
    BY <1>1, ArgsReadKept DEF PowerOf2
  <2> QED
    BY <1>1, <2>1, <2>2, ArgsReadKept DEF ArgInv, Running
<1> QED
  BY <1>3, <1>4

LEMMA ArgInvMachine ==
  ASSUME ArgInv, init
  PROVE  ArgInv'
<1>1. /\ ArgsKept /\ shape' = shape /\ UNCHANGED <<announced, terminate>>
      /\ pc = "init"
      /\ \/ pc' = "crashed"
         \/ pc' = "loadElf" /\ cache' = init_machine /\ ~DividesByZero
  BY DEF init, ArgsKept
<1>2. (PowerOf2(NumSets(shape)))' <=> PowerOf2(NumSets(shape))
  BY <1>1, ArgsReadKept DEF PowerOf2
<1> QED
  BY <1>1, <1>2, ArgsReadKept DEF ArgInv, Running

-----------------------------------------------------------------------------
(* The run.                                                                *)

(* Output is kept because what silences logging is known before the first  *)
(* store: no open fails behind handle_args, and no other message that is   *)
(* fatal lets the program go on.  A checkpoint is written in runElf or at  *)
(* the end, so its own end cannot call the program back to another phase.  *)
RunInv ==
  /\ ArgInv
  /\ terminate \in BOOLEAN
  /\ walk # NoWalk => pc \in {"runElf", "log"}
  /\ sent \in Nat
  /\ pc = "handle_args" => sent = 0
  /\ OutputKept

(* The actions that neither parse nor set up.                              *)
RunStep ==
  \/ loadElf
  \/ \E addr \in Addresses : Read(addr) \/ \E word \in Words : Write(addr, word)
  \/ ReadNull \/ ReadChar \/ ReadCheckpoint
  \/ WriteNull \/ WriteChar \/ WriteCheckpoint
  \/ ContinueAccess \/ Latch \/ log_machine_state \/ finalize

LEMMA RunStepKeeps ==
  ASSUME RunStep, walk # NoWalk => pc \in {"runElf", "log"}
  PROVE  /\ ArgsKept
         /\ UNCHANGED <<announced, cache>>
         /\ pc' # "exited" => pc # "exited" /\ terminate' = terminate
         /\ pc' = "handle_args" => pc = "handle_args"
         /\ pc' \in {"init"} \cup Running => pc' = pc \/ {pc, pc'} \subseteq Running
         /\ terminate' \in {terminate, TRUE}
         /\ walk' # NoWalk => pc' \in {"runElf", "log"}
<1> DEFINE Goal ==
         /\ ArgsKept
         /\ UNCHANGED <<announced, cache>>
         /\ pc' # "exited" => pc # "exited" /\ terminate' = terminate
         /\ pc' = "handle_args" => pc = "handle_args"
         /\ pc' \in {"init"} \cup Running => pc' = pc \/ {pc, pc'} \subseteq Running
         /\ terminate' \in {terminate, TRUE}
         /\ walk' # NoWalk => pc' \in {"runElf", "log"}
<1>1. ASSUME UNCHANGED <<argVars, walk>>, pc # "exited" PROVE Goal
  BY <1>1 DEF argVars, settings, ArgsKept
<1>2. CASE loadElf
  <2>1. pc = "loadElf" /\ walk' = walk /\ walk = NoWalk
    BY <1>2 DEF loadElf, runVars
  <2> QED
    BY <1>1, <1>2, <2>1 DEF loadElf, Goto, settings, ArgsKept, Running
<1>3. CASE \/ \E addr \in Addresses : Read(addr) \/ \E word \in Words : Write(addr, word)
           \/ ReadChar \/ WriteNull \/ WriteChar
  <2>1. pc = "runElf" /\ UNCHANGED <<argVars, walk>>
    BY <1>3 DEF Read, Write, ReadChar, WriteNull, WriteChar, StartAccess, Idle
  <2> QED
    BY <1>1, <2>1
<1>4. CASE ReadCheckpoint
  <2>1. pc = "runElf" /\ UNCHANGED argVars
    BY <1>4 DEF ReadCheckpoint, StartAccess, Idle
  <2> QED
    BY <2>1 DEF argVars, settings, ArgsKept
<1>5. CASE ReadNull
  <2>1. /\ pc = "runElf" /\ pc' = "exited" /\ walk' = NoWalk /\ terminate' = TRUE
        /\ UNCHANGED <<argv, optind, shape, announced, cache>>
    BY <1>5 DEF ReadNull, StartAccess, Idle
  <2> QED
    BY <2>1 DEF ArgsKept, Running
<1>6. CASE WriteCheckpoint \/ Latch
  <2>1. /\ pc = "runElf" /\ pc' \in {"crashed", "runElf", "finalize"} /\ walk' = NoWalk
        /\ UNCHANGED <<argv, optind, shape, terminate, announced, cache>>
    BY <1>6 DEF WriteCheckpoint, Latch, StartAccess, Idle, Goto, settings
  <2> QED
    BY <2>1 DEF ArgsKept, Running
<1>7. CASE ContinueAccess
  BY <1>7 DEF ContinueAccess, argVars, runVars, settings, ArgsKept
<1>8. CASE log_machine_state
  <2>1. CASE LogPage \/ LogNextSection
    BY <2>1, <1>1 DEF LogPage, LogNextSection, argVars, settings, ArgsKept
  <2>2. CASE EndLog
    BY <2>2 DEF EndLog, Goto, settings, ArgsKept, Running
  <2> QED
    BY <1>8, <2>1, <2>2 DEF log_machine_state
<1>9. CASE finalize
  <2>1. /\ pc = "finalize" /\ walk = NoWalk
        /\ UNCHANGED <<argv, optind, shape, terminate, announced, cache>>
        /\ pc' = "log" \/ (pc' = "returned" /\ walk' = walk)
    BY <1>9 DEF finalize, Goto, settings
  <2> QED
    BY <2>1 DEF ArgsKept, Running
<1> QED
  BY <1>2, <1>3, <1>4, <1>5, <1>6, <1>7, <1>8, <1>9 DEF RunStep

LEMMA RunInvStep ==
  ASSUME RunInv, [Next]_vars
  PROVE  RunInv'
<1>1. ArgInv /\ terminate \in BOOLEAN /\ sent \in Nat /\ OutputKept
  BY DEF RunInv
<1>2. CASE SetUp
  <2>1. pc \in {"handle_args", "init"} /\ UNCHANGED runVars
    BY <1>2 DEF SetUp, handle_args, init, Help, Input, OpenFails, Output, Checkpoint,
                Limit, Verbose, CacheOption, Unknown, Judge, Parsing
  <2>2. walk' = NoWalk /\ sent' = sent /\ printed' = printed
    BY <2>1 DEF RunInv, runVars
  <2>3. CASE init
    <3>1. ArgInv' /\ terminate' = terminate
      BY <1>1, <2>3, ArgInvMachine DEF init
    <3>2. (OpenFailed' <=> OpenFailed) /\ pc' # "handle_args"
      BY <2>3, ArgsReadKept DEF init, ArgsKept
    <3> QED
      BY <1>1, <2>2, <3>1, <3>2 DEF RunInv, OutputKept
  <2>4. CASE handle_args
    <3>1. pc = "handle_args" /\ sent = 0
      BY <2>4 DEF RunInv, handle_args, Help, Input, OpenFails, Output, Checkpoint,
                  Limit, Verbose, CacheOption, Unknown, Judge, Parsing
    <3>2. ArgInv' /\ terminate' \in BOOLEAN
      <4>1. CASE Judge
        BY <1>1, <4>1, ArgInvJudge DEF Judge, settings
      <4>2. CASE ~Judge
        BY <1>1, <2>4, <4>2, ArgInvOption DEF handle_args
      <4> QED
        BY <4>1, <4>2
    <3>3. printed = 0
      BY <1>1, <3>1 DEF OutputKept
    <3> QED
      BY <1>1, <2>2, <3>1, <3>2, <3>3 DEF RunInv, OutputKept
  <2> QED
    BY <1>2, <2>3, <2>4 DEF SetUp
<1>3. CASE RunStep
  <2>1. /\ ArgsKept /\ terminate' \in {terminate, TRUE}
        /\ pc' = "handle_args" => pc = "handle_args"
        /\ walk' # NoWalk => pc' \in {"runElf", "log"}
    BY <1>3, RunStepKeeps DEF RunInv
  <2>2. ArgInv'
    BY <1>1, <1>3, RunStepKeeps, ArgInvKept DEF RunInv
  <2>3. OpenFailed' <=> OpenFailed
    BY <2>1, ArgsReadKept
  <2>4. CASE WriteChar
    <3>1. pc = "runElf" /\ pc' = "runElf" /\ sent' = sent + 1
          /\ printed' = (IF terminate THEN printed ELSE printed + 1)
      BY <2>4 DEF WriteChar, StartAccess, Idle, argVars
    <3>2. terminate <=> OpenFailed
      BY <1>1, <3>1 DEF ArgInv
    <3>3. OutputKept'
      BY <1>1, <2>3, <3>1, <3>2 DEF OutputKept
    <3>4. terminate' \in BOOLEAN
      BY <1>1, <2>1
    <3>5. sent' \in Nat /\ pc' # "handle_args"
      BY <1>1, <3>1
    <3> QED
      BY <2>1, <2>2, <3>3, <3>4, <3>5 DEF RunInv
  <2>5. CASE ~WriteChar
    <3>1. UNCHANGED <<sent, printed>>
      BY <1>3, <2>5 DEF RunStep, loadElf, Read, Write, ReadNull, ReadChar, ReadCheckpoint,
           WriteNull, WriteCheckpoint, ContinueAccess, Latch, log_machine_state, LogPage,
           LogNextSection, EndLog, finalize, runVars
    <3>2. OutputKept'
      BY <1>1, <2>3, <3>1 DEF OutputKept
    <3>3. pc' = "handle_args" => sent' = 0
      BY <2>1, <3>1 DEF RunInv
    <3>4. terminate' \in BOOLEAN /\ sent' \in Nat
      BY <1>1, <2>1, <3>1
    <3> QED
      BY <2>1, <2>2, <3>2, <3>3, <3>4 DEF RunInv
  <2> QED
    BY <2>4, <2>5
<1>4. CASE Ended \/ UNCHANGED vars
  <2>1. UNCHANGED <<argVars, runVars>>
    BY <1>4 DEF Ended, vars
  <2>2. ArgsKept /\ UNCHANGED <<pc, announced, cache, terminate, walk, sent, printed>>
    BY <2>1 DEF argVars, settings, runVars, ArgsKept
  <2> QED
    BY <1>1, <2>2, ArgsReadKept, ArgInvKept DEF RunInv, OutputKept
<1> QED
  BY <1>2, <1>3, <1>4 DEF Next, Step, RunStep

THEOREM EmulatorRuns == Spec => []RunInv
<1>1. Init => RunInv
  BY ArgInvInit DEF Init, ArgInit, RunInv, OutputKept
<1>2. RunInv /\ [Next]_vars => RunInv'
  BY RunInvStep
<1> QED
  BY <1>1, <1>2, PTL DEF Spec

(* The guest's output comes out in every run in which all files could be   *)
(* opened, and none of it in any other.                                    *)
THEOREM OutputComesOut == Spec => []OutputKept
<1>1. RunInv => OutputKept
  BY DEF RunInv
<1> QED
  BY <1>1, EmulatorRuns, PTL

(* The machine has the cache that any command line asks for, parameter by  *)
(* parameter, whatever its options, their order and their repeats; and     *)
(* what the user was told about it is so.                                  *)
THEOREM MachineAsGiven == Spec => []CacheAsGiven
<1>1. ASSUME RunInv PROVE CacheAsGiven
  <2> SUFFICES ASSUME Started PROVE CacheAsGiven
    BY DEF CacheAsGiven
  <2>1. /\ pc \in Running /\ pc # "exited" /\ ArgsRead
        /\ cache = init_machine /\ ~DividesByZero
        /\ ~BadBlockSize("B", shape["B"])
        /\ announced = "nothing" => OpenFailed
        /\ announced = "running" => Complete /\ PowerOf2(NumSets(shape))
        /\ announced = "missing" => ~Complete
    BY <1>1 DEF RunInv, ArgInv, Started, Running
  <2>2. /\ \A p \in Params : shape[p] = LastGiven(p) /\ shape[p] \in Ints
        /\ Params = {"A", "B", "C", "d"}
    BY <2>1 DEF ArgsRead, Params
  <2>3. Complete <=> \A p \in Params : LastGiven(p) # -1
    BY <2>2 DEF Complete
  <2>4. CASE ~Complete
    <3>1. cache = NoCache
      BY <2>1, <2>4 DEF init_machine
    <3> QED
      BY <2>1, <2>3, <2>4, <3>1 DEF CacheAsGiven
  <2>5. CASE Complete
    <3> DEFINE AB == shape["A"] * shape["B"]
    <3>1. shape["A"] \in Int /\ shape["B"] \in Int /\ shape["C"] \in Ints /\ shape["d"] \in Int
      BY <2>2, CommandLineAssumption DEF Ints
    <3>2. AB \in Int /\ Unsigned(AB) # 0
      BY <2>1, <2>5, <3>1 DEF DividesByZero
    <3>3. cache = create_cache(shape)
      BY <2>1, <2>5 DEF init_machine
    <3>4. /\ cache = [A |-> Unsigned(shape["A"]), d |-> Unsigned(shape["d"]),
                      S |-> Unsigned(shape["C"]) \div Unsigned(AB)]
          /\ cache \in [A : Nat, S : Nat, d : Nat]
      <4>1. /\ cache.A = Unsigned(shape["A"]) /\ cache.d = Unsigned(shape["d"])
            /\ cache.S = Unsigned(shape["C"]) \div Unsigned(AB)
            /\ cache = [A |-> cache.A, d |-> cache.d, S |-> cache.S]
        BY <3>3 DEF create_cache
      <4>2. cache.A \in Nat /\ cache.d \in Nat /\ cache.S \in Nat
        <5>1. shape["C"] \in Int
          BY <2>2, CommandLineAssumption DEF Ints
        <5>2. cache.S \in Nat
          BY <3>2, <4>1, <5>1, UnsignedSets
        <5>3. Unsigned(shape["A"]) \in 0 .. IntWrap - 1 /\ Unsigned(shape["d"]) \in 0 .. IntWrap - 1
          BY <3>1, UnsignedSets
        <5> QED
          BY <4>1, <5>2, <5>3, CommandLineAssumption
      <4> QED
        BY <4>1, <4>2
    <3>5. cache # NoCache
      BY <3>4, CommandLineAssumption
    <3>6. /\ cache.A = Unsigned(LastGiven("A")) /\ cache.d = Unsigned(LastGiven("d"))
          /\ cache.S = Unsigned(LastGiven("C")) \div Unsigned(LastGiven("A") * LastGiven("B"))
      BY <2>2, <3>4
    <3>7. ASSUME announced = "running", LastGiven("C") >= 0
          PROVE  PowerOf2(cache.S)
      <4>1. PowerOf2(NumSets(shape)) /\ shape["C"] >= 0
        BY <2>1, <2>2, <3>7
      <4>2. NumSets(shape) = Quotient(shape["C"], Signed(AB)) /\ NumSets(shape) > 0
        BY <4>1 DEF NumSets, PowerOf2
      <4>3. NumSets(shape) = cache.S
        BY <3>1, <3>2, <3>4, <4>1, <4>2, UnsignedSets
      <4> QED
        BY <4>1, <4>3
    <3> QED
      BY <2>1, <2>3, <2>5, <3>5, <3>6, <3>7 DEF CacheAsGiven
  <2> QED
    BY <2>4, <2>5
<1> QED
  BY <1>1, EmulatorRuns, PTL

-----------------------------------------------------------------------------
(* The record of the checkpoint file.                                      *)

(* Nothing loads, and nothing but log_machine_state runs, while it walks.  *)
PhaseInv ==
  /\ pc \in {"runElf", "finalize", "log", "returned"} => Loaded
  /\ access # None => pc = "runElf" /\ walk = NoWalk
  /\ walk # NoWalk => pc \in {"runElf", "log"}
  /\ pc = "log" => walk # NoWalk

(* Where the walk is.  On the heap it is never on a page: the number it    *)
(* starts with is that of the page missing behind .data.                   *)
WalkInv ==
  walk # NoWalk =>
    /\ walk \in Walks
    /\ walk.sec # "heap" => walk.addr = walk.pnum * PageSize
    /\ walk.sec = "heap" => ~OnPage

StackPage == PageNumber(seg_start_addr["STACK"] - PageSize)

(* The record has all words of page p that are not zero.                   *)
Logged(sec, p) ==
  \A addr \in Nat :
    /\ InSpace(addr) /\ addr % Width = 0 /\ PageNumber(addr) = p
    /\ WordAt(ptable, addr) # ZeroWord
    => <<sec, addr, WordAt(ptable, addr)>> \in log

DataPages(h) == PageNumber(file.data) .. PageNumber(h.vaddr + Copied(h) - 1)

DataLogged ==
  \A n \in DOMAIN file.headers :
    LET h == file.headers[n]
    IN  h.load /\ file.data \in h.vaddr .. h.vaddr + Copied(h) - 1
          => \A p \in DataPages(h) : Logged("data", p)

Recorded == pc = "returned" /\ checkpoint

(* What the walk has recorded when it gets to where it is.                 *)
RecordInv ==
  /\ \A l \in log : l[2] \in Nat /\ l[3] \in Word \ {ZeroWord}
  /\ walk # NoWalk \/ Recorded => \A l \in log : l[3] = WordAt(ptable, l[2])
  /\ walk # NoWalk /\ walk.sec = "data" =>
       /\ PageNumber(seg_start_addr["DATA"]) <= walk.pnum
       /\ \A p \in PageNumber(seg_start_addr["DATA"]) .. walk.pnum - 1 : Logged("data", p)
  /\ (walk # NoWalk /\ walk.sec \in {"heap", "stack"}) \/ Recorded => DataLogged
  /\ walk # NoWalk /\ walk.sec = "stack" =>
       walk.pnum = StackPage \/ Logged("stack", StackPage)
  /\ Recorded => Logged("stack", StackPage)

CheckInv == PhaseInv /\ WalkInv /\ RecordInv

LEMMA DivisionBy ==
  ASSUME NEW m \in Nat \ {0}, NEW a \in Int
  PROVE  /\ a \div m \in Int /\ a % m \in 0 .. m - 1
         /\ a = (a \div m) * m + (a % m)
         /\ \A o \in 0 .. m - 1 : (a * m + o) \div m = a /\ (a * m + o) % m = o
         /\ (a * m) \div m = a /\ (a * m) % m = 0
<1>1. a % m \in 0 .. m - 1
  OBVIOUS
<1>2. a \div m \in Int
  OBVIOUS
<1>3. a = (a \div m) * m + (a % m)
  OBVIOUS
<1>4. \A o \in 0 .. m - 1 : (a * m + o) \div m = a /\ (a * m + o) % m = o
  OBVIOUS
<1>5. 0 \in 0 .. m - 1 /\ a * m + 0 = a * m
  OBVIOUS
<1> QED
  BY <1>1, <1>2, <1>3, <1>4, <1>5

LEMMA MultipleOf ==
  ASSUME NEW m \in Nat \ {0}, NEW a \in Int, a % m = 0
  PROVE  \E q \in Int : a = q * m
<1>1. a = (a \div m) * m + (a % m) /\ a \div m \in Int
  BY DivisionBy
<1>2. (a \div m) * m \in Int
  BY <1>1
<1>3. a = (a \div m) * m
  BY <1>1, <1>2
<1> QED
  BY <1>1, <1>3

LEMMA Multiples ==
  ASSUME NEW m \in Nat, NEW a \in Int, NEW b \in Int, a < b
  PROVE  a * m + m <= b * m
OBVIOUS

(* An address and its page.                                                *)
LEMMA PageParts ==
  ASSUME NEW a \in Int
  PROVE  /\ PageNumber(a) \in Int /\ PageOffset(a) \in Offsets
         /\ a = PageNumber(a) * PageSize + PageOffset(a)
         /\ RoundDown(a) = PageNumber(a) * PageSize
<1>1. /\ a \div PageSize \in Int /\ a % PageSize \in 0 .. PageSize - 1
      /\ a = (a \div PageSize) * PageSize + (a % PageSize)
  BY PTableAssumption, DivisionBy
<1>2. (a \div PageSize) * PageSize \in Int /\ a % PageSize \in Int
  BY <1>1, PTableAssumption
<1>3. a - (a % PageSize) = (a \div PageSize) * PageSize
  BY <1>1, <1>2
<1> QED
  BY <1>1, <1>3 DEF PageNumber, PageOffset, Offsets, RoundDown

LEMMA OnPageOf ==
  ASSUME NEW p \in Int, NEW o \in Offsets
  PROVE  PageNumber(p * PageSize + o) = p /\ PageOffset(p * PageSize + o) = o
BY PTableAssumption, DivisionBy DEF Offsets, PageNumber, PageOffset

(* A page holds whole words, and an aligned word lies on one page.         *)
LEMMA WordsFit ==
  ASSUME NEW o \in Offsets, o % Width = 0, NEW k \in 0 .. Width-1
  PROVE  o + k \in Offsets
<1>1. /\ Width \in Nat \ {0} /\ PageSize \in Nat /\ PageSize % Width = 0
      /\ o \in 0 .. PageSize - 1 /\ o \in Int /\ PageSize \in Int
  BY GuestAssumption, PTableAssumption, EmulatorAssumption DEF Offsets
<1>2. PICK q \in Int : o = q * Width
  BY <1>1, MultipleOf
<1>3. PICK r \in Int : PageSize = r * Width
  BY <1>1, MultipleOf
<1>4. q < r
  <2>1. SUFFICES ASSUME r <= q PROVE FALSE
    BY <1>2, <1>3
  <2>2. CASE r = q
    BY <1>1, <1>2, <1>3, <2>2
  <2>3. CASE r < q
    <3>1. r * Width + Width <= q * Width
      BY <1>1, <2>3, Multiples
    <3> QED
      BY <1>1, <1>2, <1>3, <3>1
  <2> QED
    BY <2>1, <2>2, <2>3
<1>5. q * Width + Width <= r * Width
  BY <1>1, <1>4, Multiples
<1> QED
  BY <1>1, <1>2, <1>3, <1>5 DEF Offsets

LEMMA AlignedOffset ==
  ASSUME NEW a \in Int, a % Width = 0
  PROVE  PageOffset(a) % Width = 0
<1>1. Width \in Nat \ {0} /\ PageSize \in Int /\ PageSize % Width = 0
  BY GuestAssumption, PTableAssumption, EmulatorAssumption
<1>2. PICK q \in Int : a = q * Width
  BY <1>1, MultipleOf
<1>3. PICK r \in Int : PageSize = r * Width
  BY <1>1, MultipleOf
<1>4. PageNumber(a) \in Int /\ PageOffset(a) \in Int /\ a = PageNumber(a) * PageSize + PageOffset(a)
  BY PageParts DEF Offsets
<1> DEFINE p == PageNumber(a)
           o == PageOffset(a)
<1> HIDE DEF p, o
<1>5. q * Width = p * (r * Width) + o /\ p \in Int /\ o \in Int
  BY <1>2, <1>3, <1>4 DEF p, o
<1>6. q * Width - p * (r * Width) = (q - p * r) * Width
  BY <1>1, <1>5
<1>7. o = (q - p * r) * Width
  BY <1>1, <1>5, <1>6
<1>8. q - p * r \in Int
  BY <1>5
<1>9. o % Width = 0
  BY <1>1, <1>7, <1>8, DivisionBy
<1> QED
  BY <1>9 DEF o

LEMMA WordOnPage ==
  ASSUME NEW a \in Int, a % Width = 0, NEW k \in 0 .. Width-1
  PROVE  PageNumber(a + k) = PageNumber(a)
<1>1. PageOffset(a) % Width = 0 /\ PageOffset(a) \in Offsets /\ PageNumber(a) \in Int
  BY AlignedOffset, PageParts
<1>2. PageOffset(a) + k \in Offsets
  BY <1>1, WordsFit
<1>3. a + k = PageNumber(a) * PageSize + (PageOffset(a) + k)
  <2>1. a = PageNumber(a) * PageSize + PageOffset(a) /\ PageOffset(a) \in Int /\ k \in Int
    BY PageParts DEF Offsets
  <2>2. PageNumber(a) * PageSize \in Int
    BY <1>1, PTableAssumption
  <2> QED
    BY <2>1, <2>2
<1> QED
  BY <1>1, <1>2, <1>3, OnPageOf

LEMMA WordsOnPages ==
  ASSUME WellFormed(ptable), NEW a \in Nat, a % Width = 0
  PROVE  /\ PageNumber(a) \in PageNumbers => WordAt(ptable, a) \in Word
         /\ ~Present(ptable, PageNumber(a)) => WordAt(ptable, a) = ZeroWord
<1>1. \A k \in 0 .. Width-1 : PageNumber(a + k) = PageNumber(a) /\ a + k \in Nat
  BY WordOnPage
<1>2. ASSUME PageNumber(a) \in PageNumbers PROVE WordAt(ptable, a) \in Word
  <2>1. \A k \in 0 .. Width-1 : ByteAt(ptable, a + k) \in Bytes
    BY <1>1, <1>2, ByteType DEF InSpace
  <2> QED
    BY <2>1 DEF WordAt, Word
<1>3. ASSUME ~Present(ptable, PageNumber(a)) PROVE WordAt(ptable, a) = ZeroWord
  <2>1. \A k \in 0 .. Width-1 : ByteAt(ptable, a + k) = 0
    BY <1>1, <1>3 DEF ByteAt
  <2> QED
    BY <2>1 DEF WordAt, ZeroWord
<1> QED
  BY <1>2, <1>3

(* What a page adds to the record: only words that are at their addresses, *)
(* and all that are not zero.                                              *)
LEMMA PageWords ==
  ASSUME WellFormed(ptable), NEW p \in PageNumbers, NEW w, NEW sec,
         w = At(sec, p * PageSize, p)
  PROVE  /\ \A l \in WordsOf(w) : /\ l[2] \in Nat /\ l[3] \in Word \ {ZeroWord}
                                  /\ l[3] = WordAt(ptable, l[2])
         /\ \A addr \in Nat :
              /\ addr % Width = 0 /\ PageNumber(addr) = p
              /\ WordAt(ptable, addr) # ZeroWord
              => <<sec, addr, WordAt(ptable, addr)>> \in WordsOf(w)
<1>1. /\ p \in Nat /\ PageSize \in Nat \ {0} /\ Width \in Nat \ {0} /\ p * PageSize \in Nat
      /\ w.sec = sec /\ w.addr = p * PageSize /\ w.pnum = p
  BY PTableAssumption, GuestAssumption DEF At
<1>2. w.addr % PageSize = 0
  BY <1>1, DivisionBy
<1>3. \A o \in 0 .. PageSize - 1 : o \in Int /\ o - 0 = o /\ p * PageSize + o \in Nat
  BY <1>1
<1>4. WordsOf(w) = {<<sec, p * PageSize + o, WordAt(ptable, p * PageSize + o)>> :
                      o \in {o \in 0 .. PageSize - 1 :
                               /\ o % Width = 0
                               /\ WordAt(ptable, p * PageSize + o) # ZeroWord}}
  <2>1. WordsOf(w) = {<<w.sec, w.addr + o, WordAt(ptable, w.pnum * PageSize + o)>> :
                        o \in {o \in 0 .. PageSize - 1 :
                                 /\ (o - 0) % Width = 0
                                 /\ WordAt(ptable, w.pnum * PageSize + o) # ZeroWord}}
    BY <1>2 DEF WordsOf
  <2>2. {o \in 0 .. PageSize - 1 : /\ (o - 0) % Width = 0
                                   /\ WordAt(ptable, w.pnum * PageSize + o) # ZeroWord}
        = {o \in 0 .. PageSize - 1 : /\ o % Width = 0
                                     /\ WordAt(ptable, p * PageSize + o) # ZeroWord}
    BY <1>1, <1>3
  <2> QED
    BY <1>1, <2>1, <2>2
<1>5. ASSUME NEW o \in 0 .. PageSize - 1, o % Width = 0
      PROVE  WordAt(ptable, p * PageSize + o) \in Word
  <2>1. \A k \in 0 .. Width-1 :
          PageNumber((p * PageSize + o) + k) = p /\ (p * PageSize + o) + k \in Nat
    <3>1. SUFFICES ASSUME NEW k \in 0 .. Width-1
                   PROVE  PageNumber((p * PageSize + o) + k) = p
                          /\ (p * PageSize + o) + k \in Nat
      OBVIOUS
    <3>2. o + k \in Offsets
      BY <1>5, WordsFit DEF Offsets
    <3>3. (p * PageSize + o) + k = p * PageSize + (o + k) /\ k \in Nat
      BY <1>1, <1>3
    <3>4. PageNumber(p * PageSize + (o + k)) = p
      BY <1>1, <3>2, OnPageOf
    <3> QED
      BY <1>3, <3>3, <3>4
  <2>2. \A k \in 0 .. Width-1 : ByteAt(ptable, (p * PageSize + o) + k) \in Bytes
    BY <2>1, ByteType DEF InSpace
  <2> QED
    BY <2>2 DEF WordAt, Word
<1>6. \A l \in WordsOf(w) : /\ l[2] \in Nat /\ l[3] \in Word \ {ZeroWord}
                            /\ l[3] = WordAt(ptable, l[2])
  BY <1>3, <1>4, <1>5
<1>7. ASSUME NEW addr \in Nat, addr % Width = 0, PageNumber(addr) = p,
             WordAt(ptable, addr) # ZeroWord
      PROVE  <<sec, addr, WordAt(ptable, addr)>> \in WordsOf(w)
  <2>1. PageOffset(addr) % Width = 0 /\ PageOffset(addr) \in 0 .. PageSize - 1
    BY <1>7, AlignedOffset, PageParts DEF Offsets
  <2>2. addr = p * PageSize + PageOffset(addr)
    BY <1>7, PageParts
  <2> QED
    BY <1>4, <1>7, <2>1, <2>2
<1> QED
  BY <1>6, <1>7

-----------------------------------------------------------------------------
(* The walk.                                                               *)

LEMMA WalkStarts ==
  ASSUME NEW sec \in {"text", "data", "heap", "stack"}, NEW a \in Int
  PROVE  /\ Start(sec, a) \in Walks /\ Start(sec, a).sec = sec
         /\ Start(sec, a).pnum = PageNumber(a)
         /\ Start(sec, a).addr = Start(sec, a).pnum * PageSize
<1>1. PageNumber(a) \in Int /\ RoundDown(a) = PageNumber(a) * PageSize
  BY PageParts
<1>2. PageNumber(a) * PageSize \in Int
  BY <1>1, PTableAssumption
<1> QED
  BY <1>1, <1>2 DEF Start, At, Walks

LEMMA WalkGoesOn ==
  ASSUME NEW w \in Walks, w.addr = w.pnum * PageSize
  PROVE  /\ Onward(w) \in Walks /\ Onward(w).sec = w.sec
         /\ Onward(w).pnum = IF w.sec = "stack" THEN w.pnum - 1 ELSE w.pnum + 1
         /\ Onward(w).addr = Onward(w).pnum * PageSize
<1>1. w.pnum \in Int /\ w.sec \in {"text", "data", "heap", "stack"} /\ PageSize \in Nat \ {0}
  BY PTableAssumption DEF Walks
<1> DEFINE n == IF w.sec = "stack" THEN w.pnum - 1 ELSE w.pnum + 1
           a == IF w.sec = "stack" THEN w.addr - PageSize ELSE w.addr + PageSize
<1>2. n \in Int /\ a = n * PageSize /\ a \in Int
  BY <1>1
<1> HIDE DEF n, a
<1>3. PageNumber(a) = n
  BY <1>1, <1>2, DivisionBy DEF PageNumber
<1>4. Onward(w) = [sec |-> w.sec, addr |-> a, pnum |-> n]
  BY <1>3 DEF Onward, At, a
<1> QED
  BY <1>1, <1>2, <1>4 DEF Walks, n

(* The steps of the program as the record meets them: a walk begins, goes  *)
(* on or ends; or there is none, and nothing is over that has one.         *)
LEMMA CheckSteps ==
  ASSUME PhaseInv, [Next]_vars
  PROVE  \/ /\ walk = NoWalk /\ BeginLog /\ Loaded
            /\ UNCHANGED memVars /\ pc' \in {"runElf", "log"} /\ access = None
         \/ log_machine_state
         \/ /\ walk = NoWalk /\ UNCHANGED <<walk, log>> /\ ~Recorded'
            /\ PhaseInv'
         \/ UNCHANGED <<pc, checkpoint, walk, log, memVars>>
<1> USE DEF PhaseInv
<1>1. CASE SetUp
  <2>1. /\ pc \in {"handle_args", "init"} /\ UNCHANGED <<memVars, runVars>>
        /\ pc' \in {"handle_args", "init", "loadElf", "exited", "crashed"}
    BY <1>1 DEF SetUp, handle_args, init, Help, Input, OpenFails, Output, Checkpoint,
                Limit, Verbose, CacheOption, Unknown, Judge, Parsing, Advance
  <2> QED
    BY <2>1 DEF memVars, runVars, Recorded, Loaded
<1>2. CASE loadElf
  <2>1. /\ pc = "loadElf" /\ UNCHANGED runVars
        /\ \/ pc' \in {"exited", "loadElf"}
           \/ pc' = "runElf" /\ Loaded /\ UNCHANGED memVars
    BY <1>2 DEF loadElf, Goto, argVars
  <2>2. access' = access
    BY <1>2 DEF loadElf, Load, CopyByte, EndOfFilePart, MapBss, NextHeader, ReadSections, memVars
  <2> QED
    BY <2>1, <2>2 DEF memVars, runVars, Recorded, Loaded
<1>3. CASE \E addr \in Addresses : Read(addr) \/ \E word \in Words : Write(addr, word)
  <2>1. pc = "runElf" /\ walk = NoWalk /\ UNCHANGED <<argVars, walk, log, part>>
    BY <1>3 DEF Read, Write, StartAccess, Idle, BeginRead, BeginWrite, loadVars
  <2> QED
    BY <2>1 DEF argVars, Recorded, Loaded
<1>4. CASE ReadNull \/ ReadChar \/ WriteNull \/ WriteChar \/ WriteCheckpoint \/ Latch
  <2>1. /\ pc = "runElf" /\ walk = NoWalk /\ UNCHANGED <<memVars, walk, log>> /\ access = None
        /\ pc' \in {"runElf", "exited", "crashed", "finalize"}
    BY <1>4 DEF ReadNull, ReadChar, WriteNull, WriteChar, WriteCheckpoint, Latch, StartAccess,
                Idle, Goto, argVars
  <2> QED
    BY <2>1 DEF memVars, Recorded, Loaded
<1>5. CASE ReadCheckpoint
  <2>1. /\ pc = "runElf" /\ pc' = pc /\ access = None /\ walk = NoWalk /\ UNCHANGED memVars
        /\ BeginLog \/ UNCHANGED <<walk, log>>
    BY <1>5 DEF ReadCheckpoint, StartAccess, Idle, argVars
  <2> QED
    BY <2>1 DEF memVars, Recorded, Loaded
<1>6. CASE ContinueAccess
  <2>1. access # None /\ UNCHANGED <<argVars, walk, log, part>>
    BY <1>6 DEF ContinueAccess, AccessStep, _mem_read_byte, _mem_write_byte, EndAccess,
                runVars, loadVars
  <2> QED
    BY <2>1 DEF argVars, Recorded, Loaded
<1>7. CASE finalize
  <2>1. /\ pc = "finalize" /\ access = None /\ walk = NoWalk /\ UNCHANGED memVars
        /\ \/ BeginLog /\ pc' = "log"
           \/ ~checkpoint /\ pc' = "returned" /\ UNCHANGED <<walk, log, checkpoint>>
    BY <1>7 DEF finalize, Goto, settings
  <2> QED
    BY <2>1 DEF memVars, Recorded, Loaded
<1>8. CASE Ended \/ UNCHANGED vars
  BY <1>8 DEF Ended, vars, argVars, settings, runVars
<1> QED
  BY <1>1, <1>2, <1>3, <1>4, <1>5, <1>6, <1>7, <1>8 DEF Next, Step

CheckFacts == CheckInv /\ PagesInv

LEMMA CheckTypes ==
  ASSUME CheckFacts
  PROVE  /\ WellFormed(ptable) /\ file \in Files
         /\ \A s \in Segments : seg_start_addr[s] \in Nat
         /\ PageSize \in Nat \ {0} /\ StackPage \in Int
         /\ PageNumber(seg_start_addr["DATA"]) \in Int
         /\ seg_start_addr["STACK"] - PageSize \in Int
<1>1. /\ WellFormed(ptable) /\ file \in Files /\ seg_start_addr \in [Segments -> Nat]
      /\ PageSize \in Nat \ {0}
  BY PTableAssumption DEF CheckFacts, PagesInv, MemInv
<1>2. seg_start_addr["STACK"] \in Nat /\ seg_start_addr["DATA"] \in Nat
  BY <1>1 DEF Segments
<1>3. seg_start_addr["STACK"] - PageSize \in Int
  BY <1>1, <1>2
<1> QED
  BY <1>1, <1>2, <1>3, PageParts DEF StackPage

(* The record only grows within a walk, and its lines stay true.           *)
LEMMA RecordGrows ==
  ASSUME UNCHANGED <<ptable, file, seg_start_addr>>, log \subseteq log'
  PROVE  /\ \A sec, p : Logged(sec, p) => Logged(sec, p)'
         /\ DataLogged => DataLogged'
         /\ StackPage' = StackPage
         /\ Logged("stack", StackPage) => Logged("stack", StackPage)'
<1>1. \A addr : WordAt(ptable, addr)' = WordAt(ptable, addr)
  BY DEF WordAt
<1>2. \A sec, p : Logged(sec, p) => Logged(sec, p)'
  BY <1>1 DEF Logged
<1>3. file' = file
  OBVIOUS
<1>4. DataLogged => DataLogged'
  BY <1>2, <1>3 DEF DataLogged, DataPages
<1>5. StackPage' = StackPage
  BY DEF StackPage
<1>6. Logged("stack", StackPage) => Logged("stack", StackPage)'
  BY <1>1, <1>5 DEF Logged
<1> QED
  BY <1>2, <1>4, <1>5, <1>6

LEMMA CheckBegins ==
  ASSUME CheckFacts, walk = NoWalk, BeginLog, Loaded, UNCHANGED memVars,
         pc' \in {"runElf", "log"}, access = None
  PROVE  CheckInv'
<1>1. seg_start_addr["TEXT"] \in Int
  BY CheckTypes DEF Segments
<1>2. /\ walk' \in Walks /\ walk'.sec = "text" /\ walk'.pnum \in Int
      /\ walk'.addr = walk'.pnum * PageSize /\ log' = {} /\ walk' # NoWalk
  <2>1. walk' = Start("text", seg_start_addr["TEXT"]) /\ log' = {}
    BY DEF BeginLog
  <2>2. /\ walk' \in Walks /\ walk'.sec = "text" /\ walk'.addr = walk'.pnum * PageSize
    BY <1>1, <2>1, WalkStarts
  <2> QED
    BY <2>1, <2>2, EmulatorAssumption DEF Walks
<1>3. PhaseInv'
  BY <1>2 DEF PhaseInv, memVars, Loaded
<1>4. WalkInv'
  BY <1>2 DEF WalkInv
<1>5. RecordInv'
  BY <1>2 DEF RecordInv, Recorded
<1> QED
  BY <1>3, <1>4, <1>5 DEF CheckInv

LEMMA CheckPage ==
  ASSUME CheckFacts, LogPage
  PROVE  CheckInv'
<1>1. /\ walk # NoWalk /\ OnPage /\ log' = log \cup WordsOf(walk) /\ walk' = Onward(walk)
      /\ UNCHANGED <<memVars, pc, checkpoint>>
  BY DEF LogPage, argVars, settings
<1>2. /\ PhaseInv /\ WalkInv /\ RecordInv /\ pc \in {"runElf", "log"} /\ WellFormed(ptable)
      /\ StackPage \in Int /\ PageNumber(seg_start_addr["DATA"]) \in Int
  BY <1>1, CheckTypes DEF CheckFacts, CheckInv, PhaseInv
<1>0. PICK sec, p : sec = walk.sec /\ p = walk.pnum
  OBVIOUS
<1>3. /\ walk \in Walks /\ sec \in {"text", "data", "stack"} /\ p \in PageNumbers /\ p \in Int
      /\ walk.addr = p * PageSize
  BY <1>0, <1>1, <1>2 DEF WalkInv, Walks, OnPage
<1>4. walk = At(sec, p * PageSize, p)
  BY <1>0, <1>3 DEF Walks, At
<1>5. /\ walk' \in Walks /\ walk'.sec = sec /\ walk' # NoWalk
      /\ walk'.pnum = IF sec = "stack" THEN p - 1 ELSE p + 1
      /\ walk'.addr = walk'.pnum * PageSize
  <2>1. Onward(walk) \in Walks
    BY <1>0, <1>3, WalkGoesOn
  <2> QED
    BY <1>0, <1>1, <1>3, <2>1, WalkGoesOn, EmulatorAssumption
<1>6. /\ \A l \in log' : /\ l[2] \in Nat /\ l[3] \in Word \ {ZeroWord}
                         /\ l[3] = WordAt(ptable, l[2])
      /\ Logged(sec, p)'
  <2>1. \A l \in log : /\ l[2] \in Nat /\ l[3] \in Word \ {ZeroWord}
                       /\ l[3] = WordAt(ptable, l[2])
    BY <1>1, <1>2 DEF RecordInv
  <2>2. ptable' = ptable
    BY <1>1 DEF memVars
  <2>3. /\ \A l \in WordsOf(walk) : /\ l[2] \in Nat /\ l[3] \in Word \ {ZeroWord}
                                    /\ l[3] = WordAt(ptable, l[2])
        /\ \A addr \in Nat :
             /\ addr % Width = 0 /\ PageNumber(addr) = p
             /\ WordAt(ptable, addr) # ZeroWord
             => <<sec, addr, WordAt(ptable, addr)>> \in WordsOf(walk)
    BY <1>2, <1>3, <1>4, PageWords
  <2>4. \A addr : WordAt(ptable, addr)' = WordAt(ptable, addr)
    BY <2>2 DEF WordAt
  <2> QED
    BY <1>1, <2>1, <2>3, <2>4 DEF Logged
<1>7. /\ \A s, q : Logged(s, q) => Logged(s, q)'
      /\ DataLogged => DataLogged'
      /\ StackPage' = StackPage
      /\ \A addr : WordAt(ptable, addr)' = WordAt(ptable, addr)
      /\ seg_start_addr' = seg_start_addr
  BY <1>1, RecordGrows DEF memVars, WordAt
<1>8. PhaseInv'
  BY <1>1, <1>2, <1>5 DEF PhaseInv, memVars, Loaded
<1>9. WalkInv'
  BY <1>0, <1>3, <1>5 DEF WalkInv
<1>10. sec = "data" =>
         /\ PageNumber(seg_start_addr["DATA"]) <= walk'.pnum
         /\ \A q \in PageNumber(seg_start_addr["DATA"]) .. walk'.pnum - 1 : Logged("data", q)'
  <2>1. ASSUME sec = "data"
        PROVE  /\ PageNumber(seg_start_addr["DATA"]) <= p /\ walk'.pnum = p + 1
               /\ \A q \in PageNumber(seg_start_addr["DATA"]) .. p - 1 : Logged("data", q)'
    BY <1>0, <1>1, <1>2, <1>3, <1>5, <1>7, <2>1 DEF RecordInv
  <2>2. \A d \in Int : d <= p => \A q \in d .. (p + 1) - 1 : q = p \/ q \in d .. p - 1
    BY <1>3
  <2> QED
    BY <1>2, <1>3, <1>6, <2>1, <2>2
<1>11. sec = "stack" => Logged("stack", StackPage)'
  BY <1>0, <1>1, <1>2, <1>6, <1>7 DEF RecordInv
<1>12. ~Recorded'
  BY <1>1, <1>2 DEF Recorded
<1>13. RecordInv'
  <2>1. sec \in {"heap", "stack"} => DataLogged'
    BY <1>0, <1>1, <1>2, <1>7 DEF RecordInv
  <2> QED
    BY <1>5, <1>6, <1>7, <1>10, <1>11, <1>12, <2>1 DEF RecordInv
<1> QED
  BY <1>8, <1>9, <1>13 DEF CheckInv

(* The file's part of the segment with .data has all its pages, so the     *)
(* walk over .data gets to the end of it.                                  *)
LEMMA FilePages ==
  ASSUME PagesInv, Loaded, NEW n \in DOMAIN file.headers, file.headers[n].load,
         file.data \in file.headers[n].vaddr
                       .. file.headers[n].vaddr + Copied(file.headers[n]) - 1,
         NEW p \in DataPages(file.headers[n])
  PROVE  p \in PageNumbers /\ Present(ptable, p)
<1> DEFINE h == file.headers[n]
           end == h.vaddr + Copied(h) - 1
<1>1. /\ file \in Files /\ Len(file.headers) \in Nat /\ DOMAIN file.headers = 1 .. Len(file.headers)
      /\ seg = Len(file.headers) + 1
  BY GuestAssumption DEF PagesInv, MemInv
<1>2. /\ h.vaddr \in Nat /\ Copied(h) \in Nat
      /\ \A k \in Nat : k < Copied(h) => InSpace(h.vaddr + k)
  BY <1>1, HeaderFacts
<1>3. Filled(n) = Copied(h)
  BY <1>1 DEF Filled, Loaded
<1>4. \A k \in Nat : k < Copied(h) => /\ PageNumber(h.vaddr + k) \in PageNumbers
                                      /\ Present(ptable, PageNumber(h.vaddr + k))
  BY <1>2, <1>3 DEF PagesInv, InSpace
<1>5. \E x \in h.vaddr .. end : PageNumber(x) = p
  <2>1. /\ file.data \in Int /\ h.vaddr <= file.data /\ file.data <= end /\ end \in Int
        /\ PageSize \in Nat \ {0}
    BY <1>2, PTableAssumption
  <2>2. /\ PageNumber(file.data) \in Int /\ PageNumber(end) \in Int
    BY <2>1, PageParts
  <2>3. p \in Int /\ PageNumber(file.data) <= p /\ p <= PageNumber(end)
    BY <2>2 DEF DataPages
  <2>4. CASE p = PageNumber(file.data)
    BY <2>1, <2>4
  <2>5. CASE p # PageNumber(file.data)
    <3> DEFINE d == PageNumber(file.data)
               e == PageNumber(end)
    <3>1. /\ file.data = d * PageSize + PageOffset(file.data)
          /\ end = e * PageSize + PageOffset(end)
          /\ PageOffset(file.data) \in 0 .. PageSize - 1 /\ PageOffset(end) \in 0 .. PageSize - 1
      BY <2>1, PageParts DEF Offsets
    <3>2. d \in Int /\ e \in Int /\ d < p /\ p <= e
      BY <2>2, <2>3, <2>5
    <3> HIDE DEF d, e
    <3>3. d * PageSize + PageSize <= p * PageSize /\ p * PageSize <= e * PageSize
      <4>1. d * PageSize + PageSize <= p * PageSize
        BY <2>1, <2>3, <3>2, Multiples
      <4>2. p < e => p * PageSize + PageSize <= e * PageSize
        BY <2>1, <2>3, <3>2, Multiples
      <4>3. p < e \/ p = e
        BY <2>3, <3>2
      <4> QED
        BY <2>1, <2>3, <3>2, <4>1, <4>2, <4>3
    <3>4. p * PageSize \in Int /\ d * PageSize \in Int /\ e * PageSize \in Int
      BY <2>1, <2>3, <3>2
    <3> DEFINE x == p * PageSize
    <3>5. file.data < x /\ x <= end /\ x \in Int
      BY <2>1, <3>1, <3>3, <3>4
    <3>6. PageNumber(x) = p
      BY <2>1, <2>3, DivisionBy DEF PageNumber
    <3> HIDE DEF x
    <3>7. x \in h.vaddr .. end
      BY <1>2, <2>1, <3>5
    <3> QED
      BY <3>6, <3>7
  <2> QED
    BY <2>4, <2>5
<1>6. PICK x \in h.vaddr .. end : PageNumber(x) = p
  BY <1>5
<1> DEFINE k == x - h.vaddr
<1>7. k \in Nat /\ k < Copied(h) /\ h.vaddr + k = x
  BY <1>2
<1> QED
  BY <1>4, <1>6, <1>7

LEMMA DataWalked ==
  ASSUME CheckFacts, walk # NoWalk, walk.sec = "data", ~OnPage
  PROVE  DataLogged
<1>1. /\ PagesInv /\ Loaded /\ walk.pnum \in Int
      /\ PageNumber(seg_start_addr["DATA"]) <= walk.pnum
      /\ \A p \in PageNumber(seg_start_addr["DATA"]) .. walk.pnum - 1 : Logged("data", p)
  BY DEF CheckFacts, CheckInv, PhaseInv, WalkInv, RecordInv, Walks
<1>2. SUFFICES ASSUME NEW n \in DOMAIN file.headers, file.headers[n].load,
                      file.data \in file.headers[n].vaddr
                                    .. file.headers[n].vaddr + Copied(file.headers[n]) - 1,
                      NEW p \in DataPages(file.headers[n])
               PROVE  Logged("data", p)
  BY DEF DataLogged
<1> DEFINE h == file.headers[n]
           d == PageNumber(file.data)
           e == PageNumber(h.vaddr + Copied(h) - 1)
<1>3. /\ file \in Files /\ h.vaddr \in Nat /\ Copied(h) \in Nat
  BY <1>1, HeaderFacts DEF PagesInv, MemInv
<1>4. file.data \in Nat /\ h.vaddr + Copied(h) - 1 \in Int
  BY <1>2, <1>3
<1>5. seg_start_addr["DATA"] = file.data /\ d \in Int /\ e \in Int /\ p \in d .. e
  <2>1. file.data # None
    BY <1>4, GuestAssumption
  <2>2. seg_start_addr["DATA"] = file.data
    BY <1>1, <2>1 DEF PagesInv
  <2>3. d \in Int /\ e \in Int
    BY <1>4, PageParts
  <2>4. p \in d .. e
    BY <1>2 DEF DataPages
  <2> QED
    BY <2>2, <2>3, <2>4
<1>6. walk.pnum \notin d .. e
  BY <1>1, <1>2, FilePages DEF OnPage, DataPages
<1> HIDE DEF d, e
<1>7. d <= walk.pnum
  BY <1>1, <1>5 DEF d
<1>8. p \in d .. walk.pnum - 1
  BY <1>1, <1>5, <1>6, <1>7
<1> QED
  BY <1>1, <1>5, <1>8 DEF d

LEMMA CheckNextSection ==
  ASSUME CheckFacts, LogNextSection
  PROVE  CheckInv'
<1>1. /\ walk # NoWalk /\ ~OnPage /\ walk.sec # "stack" /\ log' = log
      /\ walk' = CASE walk.sec = "text" -> Start("data", seg_start_addr["DATA"])
                   [] walk.sec = "data" -> At("heap", seg_start_addr["HEAP"], walk.pnum)
                   [] walk.sec = "heap" -> Start("stack", seg_start_addr["STACK"] - PageSize)
      /\ UNCHANGED <<memVars, pc, checkpoint>>
  BY DEF LogNextSection, argVars, settings
<1>2. /\ PhaseInv /\ WalkInv /\ RecordInv /\ pc \in {"runElf", "log"} /\ ~Recorded'
      /\ walk.sec \in {"text", "data", "heap"} /\ walk.pnum \in Int
  BY <1>1 DEF CheckFacts, CheckInv, PhaseInv, WalkInv, Walks, Recorded
<1>3. /\ seg_start_addr["DATA"] \in Int /\ seg_start_addr["HEAP"] \in Int
      /\ seg_start_addr["STACK"] - PageSize \in Int
      /\ PageNumber(seg_start_addr["DATA"]) \in Int
  BY CheckTypes DEF Segments
<1>4. /\ walk' \in Walks /\ walk' # NoWalk
      /\ walk'.sec # "heap" => walk'.addr = walk'.pnum * PageSize
      /\ walk.sec = "text" => /\ walk'.sec = "data"
                              /\ walk'.pnum = PageNumber(seg_start_addr["DATA"])
      /\ walk.sec = "data" => walk'.sec = "heap" /\ walk'.pnum = walk.pnum
      /\ walk.sec = "heap" => walk'.sec = "stack" /\ walk'.pnum = StackPage
  <2>1. CASE walk.sec = "text"
    <3>1. walk' = Start("data", seg_start_addr["DATA"])
      BY <1>1, <2>1
    <3> QED
      BY <1>3, <2>1, <3>1, WalkStarts, EmulatorAssumption
  <2>2. CASE walk.sec = "data"
    <3>1. walk' = At("heap", seg_start_addr["HEAP"], walk.pnum)
      BY <1>1, <2>2
    <3>2. walk' \in Walks /\ walk'.sec = "heap" /\ walk'.pnum = walk.pnum
      BY <1>2, <1>3, <3>1 DEF At, Walks
    <3> QED
      BY <2>2, <3>2, EmulatorAssumption
  <2>3. CASE walk.sec = "heap"
    <3>1. walk' = Start("stack", seg_start_addr["STACK"] - PageSize)
      BY <1>1, <2>3
    <3> QED
      BY <1>3, <2>3, <3>1, WalkStarts, EmulatorAssumption DEF StackPage
  <2> QED
    BY <1>2, <2>1, <2>2, <2>3
<1>5. /\ DataLogged => DataLogged'
      /\ StackPage' = StackPage
      /\ \A addr : WordAt(ptable, addr)' = WordAt(ptable, addr)
      /\ seg_start_addr' = seg_start_addr
  BY <1>1, RecordGrows DEF memVars, WordAt
<1>6. PhaseInv'
  BY <1>1, <1>2, <1>4 DEF PhaseInv, memVars, Loaded
<1>7. WalkInv'
  BY <1>1, <1>2, <1>4 DEF WalkInv, OnPage, memVars
<1>8. walk'.sec \in {"heap", "stack"} => DataLogged'
  BY <1>1, <1>2, <1>4, <1>5, DataWalked DEF RecordInv
<1>9. walk'.sec = "data" =>
        /\ walk'.pnum = PageNumber(seg_start_addr["DATA"])
        /\ PageNumber(seg_start_addr["DATA"]) <= walk'.pnum
        /\ PageNumber(seg_start_addr["DATA"]) .. walk'.pnum - 1 = {}
  BY <1>2, <1>3, <1>4
<1>10. walk'.sec = "stack" => walk'.pnum = StackPage'
  BY <1>2, <1>4, <1>5
<1>11. RecordInv'
  BY <1>1, <1>2, <1>4, <1>5, <1>8, <1>9, <1>10 DEF RecordInv
<1> QED
  BY <1>6, <1>7, <1>11 DEF CheckInv

LEMMA CheckEnds ==
  ASSUME CheckFacts, EndLog
  PROVE  CheckInv'
<1>1. /\ walk # NoWalk /\ ~OnPage /\ walk.sec = "stack" /\ log' = log /\ walk' = NoWalk
      /\ pc' \in {"crashed", IF pc = "log" THEN "returned" ELSE pc}
      /\ UNCHANGED <<memVars, checkpoint>>
  BY DEF EndLog, Goto, settings
<1>2. /\ PhaseInv /\ WalkInv /\ RecordInv /\ pc \in {"runElf", "log"} /\ Loaded
  BY <1>1 DEF CheckFacts, CheckInv, PhaseInv
<1>3. Logged("stack", StackPage)
  <2>1. CASE walk.pnum = StackPage
    <3>1. ~Present(ptable, StackPage) \/ StackPage \notin PageNumbers
      BY <1>1, <2>1 DEF OnPage
    <3>2. ASSUME NEW addr \in Nat, InSpace(addr), addr % Width = 0, PageNumber(addr) = StackPage,
                 WordAt(ptable, addr) # ZeroWord
          PROVE  FALSE
      <4>1. Present(ptable, StackPage)
        BY <3>2, CheckTypes, WordsOnPages
      <4> QED
        BY <3>1, <3>2, <4>1 DEF InSpace
    <3> QED
      BY <3>2 DEF Logged
  <2>2. CASE walk.pnum # StackPage
    BY <1>1, <1>2, <2>2 DEF RecordInv
  <2> QED
    BY <2>1, <2>2
<1>4. /\ Logged("stack", StackPage) => Logged("stack", StackPage)'
      /\ DataLogged => DataLogged'
      /\ \A addr : WordAt(ptable, addr)' = WordAt(ptable, addr)
  <2>1. ptable' = ptable
    BY <1>1 DEF memVars
  <2>2. \A addr : WordAt(ptable, addr)' = WordAt(ptable, addr)
    BY <2>1 DEF WordAt
  <2> QED
    BY <1>1, <2>2, RecordGrows DEF memVars
<1>5. PhaseInv'
  BY <1>1, <1>2 DEF PhaseInv, memVars, Loaded
<1>6. WalkInv'
  BY <1>1 DEF WalkInv
<1>7. RecordInv'
  BY <1>1, <1>2, <1>3, <1>4 DEF RecordInv
<1> QED
  BY <1>5, <1>6, <1>7 DEF CheckInv

(* Everything else.                                                        *)
LEMMA CheckSkips ==
  ASSUME CheckFacts,
         \/ walk = NoWalk /\ UNCHANGED <<walk, log>> /\ ~Recorded' /\ PhaseInv'
         \/ UNCHANGED <<pc, checkpoint, walk, log, memVars>>
  PROVE  CheckInv'
<1>1. PhaseInv /\ WalkInv /\ RecordInv
  BY DEF CheckFacts, CheckInv
<1>2. CASE walk = NoWalk /\ UNCHANGED <<walk, log>> /\ ~Recorded' /\ PhaseInv'
  BY <1>1, <1>2 DEF CheckInv, WalkInv, RecordInv
<1>3. CASE UNCHANGED <<pc, checkpoint, walk, log, memVars>>
  <2>1. UNCHANGED <<ptable, part, seg_start_addr, file, access>>
    BY <1>3 DEF memVars
  <2>2. PhaseInv'
    BY <1>1, <1>3, <2>1 DEF PhaseInv, Loaded
  <2>3. WalkInv'
    BY <1>1, <1>3, <2>1 DEF WalkInv, OnPage
  <2>4. /\ \A sec, p : Logged(sec, p)' <=> Logged(sec, p)
        /\ StackPage' = StackPage
        /\ \A addr : WordAt(ptable, addr)' = WordAt(ptable, addr)
        /\ Recorded' <=> Recorded
        /\ seg_start_addr' = seg_start_addr
    BY <1>3, <2>1 DEF Logged, WordAt, StackPage, Recorded
  <2>5. DataLogged' <=> DataLogged
    BY <2>1, <2>4 DEF DataLogged, DataPages
  <2>6. Logged("stack", StackPage)' <=> Logged("stack", StackPage)
    BY <1>3, <2>1, <2>4 DEF Logged
  <2>7. RecordInv'
    BY <1>1, <1>3, <2>4, <2>5, <2>6 DEF RecordInv
  <2> QED
    BY <2>2, <2>3, <2>7 DEF CheckInv
<1> QED
  BY <1>2, <1>3

THEOREM EmulatorChecks == Spec => []CheckInv
<1>1. Init => CheckInv
  BY DEF Init, MemInit, ArgInit, CheckInv, PhaseInv, WalkInv, RecordInv, Recorded
<1>2. CheckInv /\ PagesInv /\ [Next]_vars => CheckInv'
  <2>1. SUFFICES ASSUME CheckInv, PagesInv, [Next]_vars PROVE CheckInv'
    OBVIOUS
  <2>2. CheckFacts /\ PhaseInv
    BY <2>1 DEF CheckFacts, CheckInv
  <2>3. CASE log_machine_state
    BY <2>2, <2>3, CheckPage, CheckNextSection, CheckEnds DEF log_machine_state
  <2> QED
    BY <2>1, <2>2, <2>3, CheckSteps, CheckBegins, CheckSkips
<1> QED
  BY <1>1, <1>2, ImplementsGuestMemory, MemPages, PTL DEF Spec

(* The record that a run leaves shows memory as it is at the end, in every *)
(* run: the line of a word tells the word, no word of .data is missing that *)
(* lies within the file's part of its segment, and none of the highest     *)
(* page of the stack.                                                      *)
THEOREM CheckpointIsMemory == Spec => []CheckpointShowsMemory
<1>1. ASSUME CheckFacts PROVE CheckpointShowsMemory
  <2> SUFFICES ASSUME Recorded PROVE CheckpointShowsMemory
    BY DEF CheckpointShowsMemory, Recorded
  <2>1. /\ \A l \in log : l[3] = WordAt(ptable, l[2])
        /\ DataLogged /\ Logged("stack", StackPage)
    BY <1>1 DEF CheckFacts, CheckInv, RecordInv
  <2>2. ASSUME NEW addr \in Addresses, addr % Width = 0, WordAt(ptable, addr) # ZeroWord,
               NEW n \in DOMAIN file.headers, file.headers[n].load,
               file.data \in file.headers[n].vaddr
                             .. file.headers[n].vaddr + Copied(file.headers[n]) - 1,
               PageNumber(addr) \in DataPages(file.headers[n])
        PROVE  <<"data", addr, WordAt(ptable, addr)>> \in log
    <3>1. addr \in Nat /\ InSpace(addr)
      <4>1. addr \in Nat /\ 0 \in 0 .. Width-1 /\ addr + 0 = addr
        BY GuestFacts
      <4> QED
        BY <4>1, GuestFacts
    <3>2. Logged("data", PageNumber(addr))
      BY <2>1, <2>2 DEF DataLogged
    <3> QED
      BY <2>2, <3>1, <3>2 DEF Logged
  <2>3. ASSUME NEW addr \in Addresses, addr % Width = 0, WordAt(ptable, addr) # ZeroWord,
               PageNumber(addr) = StackPage
        PROVE  <<"stack", addr, WordAt(ptable, addr)>> \in log
    <3>1. addr \in Nat /\ InSpace(addr)
      <4>1. addr \in Nat /\ 0 \in 0 .. Width-1 /\ addr + 0 = addr
        BY GuestFacts
      <4> QED
        BY <4>1, GuestFacts
    <3> QED
      BY <2>1, <2>3, <3>1 DEF Logged
  <2> QED
    BY <2>1, <2>2, <2>3 DEF CheckpointShowsMemory, DataPages, StackPage
<1>2. CheckInv /\ PagesInv => CheckFacts
  BY DEF CheckFacts
<1> QED
  BY <1>1, <1>2, EmulatorChecks, ImplementsGuestMemory, MemPages, PTL

(* The settings and counters that no other invariant speaks of.            *)
CountsInv == num_instr \in Nat /\ debug_level \in 0 .. 3

LEMMA CountsStep ==
  ASSUME CountsInv, [Next]_vars
  PROVE  CountsInv'
<1> USE DEF CountsInv
<1>1. CASE SetUp
  <2>1. num_instr' = num_instr
    BY <1>1 DEF SetUp, runVars
  <2>2. CASE Verbose
    BY <2>1, <2>2 DEF Verbose, Level
  <2>3. CASE ~Verbose
    <3>1. debug_level' = debug_level
      BY <1>1, <2>3 DEF SetUp, handle_args, init, Help, Input, OpenFails, Output, Checkpoint,
                        Limit, CacheOption, Unknown, Judge, settings
    <3> QED
      BY <2>1, <3>1
  <2> QED
    BY <2>2, <2>3
<1>2. CASE Latch
  BY <1>2 DEF Latch, settings
<1>3. CASE RunStep /\ ~Latch
  BY <1>3 DEF RunStep, loadElf, Read, Write, ReadNull, ReadChar, ReadCheckpoint, WriteNull,
       WriteChar, WriteCheckpoint, ContinueAccess, log_machine_state, LogPage, LogNextSection,
       EndLog, finalize, StartAccess, Goto, runVars, argVars, settings
<1>4. CASE Ended \/ UNCHANGED vars
  BY <1>4 DEF Ended, vars, runVars, argVars, settings
<1> QED
  BY <1>1, <1>2, <1>3, <1>4 DEF Next, Step, RunStep

THEOREM EmulatorTypeCorrect == Spec => []TypeOK
<1>1. Init => CountsInv
  BY DEF Init, ArgInit, CountsInv
<1>2. CountsInv /\ [Next]_vars => CountsInv'
  BY CountsStep
<1>3. ASSUME CountsInv, RunInv, CheckInv, PagesInv PROVE TypeOK
  <2>1. /\ WellFormed(ptable) /\ part \in {"file", "bss", "done"} /\ j \in Nat
        /\ access = None \/ access \in Accesses
    BY <1>3 DEF PagesInv, MemInv
  <2>2. seg \in Nat
    <3>1. file \in Files /\ seg \in 1 .. Len(file.headers) + 1
      BY <1>3 DEF PagesInv, MemInv
    <3>2. Len(file.headers) \in Nat
      BY <3>1, GuestAssumption
    <3> QED
      BY <3>1, <3>2
  <2>3. access # None => access.i \in 0 .. Width /\ access.val \in Word
    BY <2>1 DEF Accesses
  <2>4. printed \in 0 .. sent
    BY <1>3 DEF RunInv, OutputKept
  <2>5. \A l \in log : l[2] \in Nat /\ l[3] \in Word \ {ZeroWord}
    BY <1>3 DEF CheckInv, RecordInv
  <2> QED
    BY <1>3, <2>1, <2>2, <2>3, <2>4, <2>5 DEF TypeOK, CountsInv, WellFormed
<1> QED
  BY <1>1, <1>2, <1>3, EmulatorRuns, EmulatorChecks, ImplementsGuestMemory, MemPages, PTL DEF Spec
=============================================================================
