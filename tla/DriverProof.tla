------------------------------ MODULE DriverProof ------------------------------
(***************************************************************************)
(* Proofs about Driver.tla: what the process forthc has done when it ends. *)
(*                                                                         *)
(* The inductive invariant says how far the command line has been read,    *)
(* what became of the sources that had their turn, and, for a source that  *)
(* shares its name with no other, what the files hold at each phase of its *)
(* compilation.                                                            *)
(***************************************************************************)
EXTENDS Driver, SequenceTheorems, TLAPS

Flags      == {"g", "p", "f", "w", "O", "P", "S", "M", "X", "#"}
Phases     == {"getopt", "names", "build", "listing", "opening", "as", "unlink"} \cup Ended
Outcomes   == {"ok", "build", "listing", "opening", "as"}
LowerNames == {Lower[x] : x \in DOMAIN Lower}
Files      == [kind : {"none", "old", "forth", "listing", "assembly", "object"},
               of : Sources \cup {NoPath}, whole : BOOLEAN]

(* The phases in which a source is being compiled. *)
InSource == {"listing", "opening", "as", "unlink"}

(* Every variable keeps its type. *)
Typing ==
  /\ argv \in CommandLines /\ optind \in 1..(Len(argv) + 1)
  /\ options \subseteq Flags
  /\ definitions \subseteq LowerNames
  /\ arguments \in Seq(Sources)
  /\ phase \in Phases
  /\ exit_status \in {SUCCESS, FAILURE}
  /\ outcome \in Seq(Outcomes) /\ Len(outcome) <= Len(arguments)
  /\ printed \in Seq([mode : {"M", "X"}, name : Sources]) /\ Len(printed) <= Len(arguments)
  /\ program \in Sources \cup {NoPath}
  /\ fs \in [Paths -> Files]

(* What the phase tells of the options and of the sources' turns. *)
Phased ==
  /\ phase \in {"getopt", "names"} => outcome = <<>>
  /\ phase = "getopt" => printed = <<>>
  /\ phase = "names" => options \cap Modes # {}
  /\ phase \in {"build"} \cup InSource => options \cap Modes = {} /\ optind = Len(argv) + 1
  /\ phase \in {"names", "returned"} => optind = Len(argv) + 1
  /\ printed # <<>> => options \cap Modes # {}
  /\ phase = "listing" => "P" \in options
  /\ phase \in InSource => Len(outcome) < Len(arguments)
  /\ phase = "returned" /\ options \cap Modes = {} => Len(outcome) = Len(arguments)

(* What main will return tells what became of the sources so far. *)
Told ==
  phase \notin {"exited", "internal"} =>
    (exit_status = SUCCESS <=> \A k \in DOMAIN outcome : outcome[k] = "ok")

(* The source at k has not been touched. *)
Untouched(k) == fs[arguments[k]] \in {Absent, Forth(arguments[k])}

(* The sources whose turn has not come, as far as they are alone. *)
Waiting ==
  /\ phase = "getopt" => \A p \in Sources : fs[p] \in {Absent, Forth(p)}
  /\ phase \in {"build"} \cup InSource =>
       \A k \in DOMAIN arguments : Alone(k) /\ k > Len(outcome) + 1 => Untouched(k)
  /\ phase = "build" =>
       \A k \in DOMAIN arguments : Alone(k) /\ k = Len(outcome) + 1 => Untouched(k)

(* How far the source is compiled whose turn it is, if it is alone. *)
Underway ==
  /\ phase \in {"listing", "opening"} /\ Alone(Len(outcome) + 1) => program = Source
  /\ phase = "as" /\ Alone(Len(outcome) + 1) => fs[Output(Source, ".s")].of = Source
  /\ phase = "unlink" /\ Alone(Len(outcome) + 1) => HasObject(Len(outcome) + 1)

(* The sources that were compiled have their objects. *)
Made == \A k \in DOMAIN outcome : outcome[k] = "ok" /\ Alone(k) => HasObject(k)

(* Word j of the command line was read, is opt, and names x. *)
Said(j, opt, x) ==
  /\ j \in DOMAIN argv /\ j < optind
  /\ argv[j].opt = opt /\ Lower[argv[j].arg] = x

(* What is defined so far is what -D was said of last. *)
Defined ==
  \A x \in LowerNames :
    x \in definitions <=> \E j : Said(j, "D", x) /\ \A i : Said(i, "U", x) => i < j

(* Only what has the extension of an object is one. *)
ObjectsNamed == \A p \in Paths : fs[p].kind = "object" => p.ext = ".o"

(* Outputs are paths, and those of different extensions differ. *)
LEMMA OutputPaths ==
  /\ \A p \in Sources : p \in Paths
  /\ \A p \in Sources, x \in Exts : Output(p, x) \in Paths
  /\ \A p, q \in Sources : \A x, y \in Exts :
       Output(p, x) = Output(q, y) => p.name = q.name /\ x = y
  /\ \A p, q \in Sources : \A x \in Exts : p = Output(q, x) => p.name = q.name /\ p.ext = x
  <1>1. \A p \in Sources : p \in Paths
    BY DEF Paths
  <1>2. \A p \in Sources, x \in Exts : Output(p, x) \in Paths
    BY DEF Paths
  <1>3. \A p, x : Output(p, x).name = p.name /\ Output(p, x).ext = x
    BY DEF Output
  <1>4. \A p, q \in Sources : \A x, y \in Exts :
          Output(p, x) = Output(q, y) => p.name = q.name /\ x = y
    <2>1. SUFFICES ASSUME NEW p \in Sources, NEW q \in Sources, NEW x \in Exts, NEW y \in Exts,
                          Output(p, x) = Output(q, y)
                   PROVE  p.name = q.name /\ x = y
      OBVIOUS
    <2>2. QED
      BY <2>1, <1>3
  <1>5. \A p, q \in Sources : \A x \in Exts : p = Output(q, x) => p.name = q.name /\ p.ext = x
    <2>1. SUFFICES ASSUME NEW p \in Sources, NEW q \in Sources, NEW x \in Exts, p = Output(q, x)
                   PROVE  p.name = q.name /\ p.ext = x
      OBVIOUS
    <2>2. QED
      BY <2>1, <1>3
  <1>6. QED
    BY <1>1, <1>2, <1>4, <1>5

(* The source whose turn it is. *)
LEMMA SourceTyped ==
  ASSUME Typing, Len(outcome) < Len(arguments)
  PROVE  /\ Len(outcome) \in Nat /\ Len(outcome) + 1 \in DOMAIN arguments
         /\ Source = arguments[Len(outcome) + 1] /\ Source \in Sources
  <1>1. /\ arguments \in Seq(Sources) /\ outcome \in Seq(Outcomes)
    BY DEF Typing
  <1>2. /\ Len(arguments) \in Nat /\ Len(outcome) \in Nat /\ DOMAIN arguments = 1..Len(arguments)
    BY <1>1, LenProperties
  <1>3. Len(outcome) + 1 \in DOMAIN arguments
    BY <1>2
  <1>4. QED
    BY <1>1, <1>2, <1>3, ElementOfSeq DEF Source

(* How the outcomes grow. *)
LEMMA OutcomeNext ==
  ASSUME Typing, Len(outcome) < Len(arguments), NEW how \in Outcomes,
         outcome' = Append(outcome, how)
  PROVE  /\ outcome' \in Seq(Outcomes) /\ Len(outcome') = Len(outcome) + 1
         /\ Len(outcome') <= Len(arguments)
         /\ DOMAIN outcome' = DOMAIN outcome \cup {Len(outcome) + 1}
         /\ Len(outcome) + 1 \notin DOMAIN outcome
         /\ \A k \in DOMAIN outcome : outcome'[k] = outcome[k]
         /\ outcome'[Len(outcome) + 1] = how
  <1>1. outcome \in Seq(Outcomes) /\ arguments \in Seq(Sources)
    BY DEF Typing
  <1>2. /\ outcome' \in Seq(Outcomes) /\ Len(outcome') = Len(outcome) + 1
        /\ \A k \in 1..Len(outcome) : outcome'[k] = outcome[k]
        /\ outcome'[Len(outcome) + 1] = how
    BY <1>1, AppendProperties
  <1>3. /\ DOMAIN outcome = 1..Len(outcome) /\ DOMAIN outcome' = 1..Len(outcome')
        /\ Len(outcome) \in Nat /\ Len(arguments) \in Nat
    BY <1>1, <1>2, LenProperties
  <1>4. /\ 1..(Len(outcome) + 1) = 1..Len(outcome) \cup {Len(outcome) + 1}
        /\ Len(outcome) + 1 \notin 1..Len(outcome)
        /\ Len(outcome) + 1 <= Len(arguments)
    BY <1>3
  <1>5. QED
    BY <1>2, <1>3, <1>4

(* What the sources' compilation does to the files: only outputs change.   *)
LEMMA FileWritten ==
  ASSUME Typing, NEW path \in Paths, NEW c \in Files, fs' = [fs EXCEPT ![path] = c]
  PROVE  /\ fs' \in [Paths -> Files] /\ fs'[path] = c
         /\ \A p \in Paths : p # path => fs'[p] = fs[p]
  BY DEF Typing


(* The word of the command line that is next. *)
LEMMA NextWord ==
  ASSUME Typing, optind <= Len(argv)
  PROVE  /\ Len(argv) \in Nat /\ DOMAIN argv = 1..Len(argv) /\ optind \in DOMAIN argv
         /\ optind + 1 \in 1..(Len(argv) + 1)
         /\ argv[optind].opt = "" => argv[optind].arg \in Sources
         /\ argv[optind].opt \in {"D", "U"} => argv[optind].arg \in DOMAIN Lower
  <1>1. argv \in CommandLines /\ optind \in 1..(Len(argv) + 1)
    BY DEF Typing
  <1>2. Len(argv) \in Nat /\ DOMAIN argv = 1..Len(argv)
    BY <1>1, DriverAssumption
  <1>3. optind \in DOMAIN argv /\ optind + 1 \in 1..(Len(argv) + 1)
    BY <1>1, <1>2
  <1>4. /\ argv[optind].opt = "" => argv[optind].arg \in Sources
        /\ argv[optind].opt \in {"D", "U"} => argv[optind].arg \in DOMAIN Lower
    <2>1. \A c \in CommandLines : \A i \in DOMAIN c :
            /\ c[i].opt = "" => c[i].arg \in Sources
            /\ c[i].opt \in {"D", "U"} => c[i].arg \in DOMAIN Lower
      BY DriverAssumption
    <2>2. QED
      BY <2>1, <1>1, <1>3
  <1>5. QED
    BY <1>2, <1>3, <1>4

(* What files hold are contents. *)
LEMMA Contents ==
  /\ Absent \in Files /\ Stale \in Files
  /\ \A p \in Sources : Forth(p) \in Files
  /\ \A p \in Sources \cup {NoPath}, whole \in BOOLEAN :
       \A kind \in {"listing", "assembly", "object"} : Content(kind, p, whole) \in Files
  BY DEF Absent, Stale, Forth, Content, Files

(* The files change only where the source that is compiled has its outputs:
   the listing, the assembly, and the object, which alone may be one.       *)
LEMMA FilesStep ==
  ASSUME Typing, Phased, [DriverNext]_vars
  PROVE  \/ fs' = fs
         \/ /\ phase \in InSource
            /\ \E x \in Exts, c \in Files :
                 /\ fs' = [fs EXCEPT ![Output(Source, x)] = c]
                 /\ x = ".p" => phase = "listing"
                 /\ c.kind = "object" => x = ".o" \/ c = fs[Output(Source, x)]
  <1>1. CASE UNCHANGED vars
    BY <1>1 DEF vars
  <1>2. CASE CommandLine
    BY <1>2 DEF CommandLine, help, usage, exit, Flag, Define, Undefine, Argument, NoArguments,
                Checked, getopt
  <1>3. CASE Mangle \/ InternalError \/ Aborted \/ Return
    BY <1>3 DEF Mangle, InternalError, Aborted, Return
  <1>4. CASE BuildFails \/ build \/ OpenFails
    BY <1>4 DEF BuildFails, build, OpenFails
  <1>5. ASSUME NEW p \in Sources \cup {NoPath}, NEW whole \in BOOLEAN
        PROVE  /\ Content("listing", p, whole) \in Files /\ Content("assembly", p, whole) \in Files
               /\ Content("listing", p, whole).kind # "object"
               /\ Content("assembly", p, whole).kind # "object"
    <2>1. Content("listing", p, whole) \in Files /\ Content("assembly", p, whole) \in Files
      BY Contents
    <2>2. QED
      BY <2>1 DEF Content
  <1>6. program \in Sources \cup {NoPath} /\ fs \in [Paths -> Files]
    BY DEF Typing
  <1>7. CASE create_listing
    <2>1. PICK whole \in BOOLEAN :
            fs' = [fs EXCEPT ![Output(Source, ".p")] = Content("listing", program, whole)]
      BY <1>7 DEF create_listing, Wrote
    <2>2. phase = "listing"
      BY <1>7 DEF create_listing
    <2>3. QED
      BY <2>1, <2>2, <1>5, <1>6 DEF Exts, InSource
  <1>8. CASE generate
    <2>1. PICK whole \in BOOLEAN :
            fs' = [fs EXCEPT ![Output(Source, ".s")] = Content("assembly", program, whole)]
      BY <1>8 DEF generate, Wrote
    <2>2. phase = "opening"
      BY <1>8 DEF generate
    <2>3. QED
      BY <2>1, <2>2, <1>5, <1>6 DEF Exts, InSource
  <1>9. phase \in InSource =>
          /\ Source \in Sources
          /\ \A x \in Exts : Output(Source, x) \in Paths /\ fs[Output(Source, x)] \in Files
    BY SourceTyped, OutputPaths, <1>6 DEF Phased
  <1>10. CASE as
    <2>1. phase = "as" /\ ".o" \in Exts /\ ".s" \in Exts /\ phase \in InSource
      BY <1>10 DEF as, Exts, InSource
    <2> DEFINE s == fs[Output(Source, ".s")]
    <2>2. s \in Files
      BY <2>1, <1>9
    <2>3. s.of \in Sources \cup {NoPath} /\ s.whole \in BOOLEAN
      BY <2>2 DEF Files
    <2>4. Content("object", s.of, s.whole) \in Files
      BY <2>3, Contents
    <2>5. fs' = [fs EXCEPT ![Output(Source, ".o")] = Content("object", s.of, s.whole)]
      BY <1>10 DEF as
    <2>6. QED
      BY <2>1, <2>4, <2>5
  <1>11. CASE AsFails
    <2>1. phase = "as" /\ ".o" \in Exts /\ phase \in InSource
      BY <1>11 DEF AsFails, Exts, InSource
    <2>2. PICK left \in {Absent, fs[Output(Source, ".o")]} :
            fs' = [fs EXCEPT ![Output(Source, ".o")] = left]
      BY <1>11 DEF AsFails
    <2>3. left \in Files
      BY <2>1, <2>2, <1>9, Contents
    <2>4. QED
      BY <2>1, <2>2, <2>3
  <1>12. CASE unlink
    <2>1. phase = "unlink" /\ ".s" \in Exts /\ phase \in InSource
      BY <1>12 DEF unlink, Exts, InSource
    <2>2. fs' = fs \/ fs' = [fs EXCEPT ![Output(Source, ".s")] = Absent]
      BY <1>12 DEF unlink
    <2>3. Absent \in Files /\ Absent.kind # "object"
      BY Contents DEF Absent, Content
    <2>4. QED
      BY <2>1, <2>2, <2>3
  <1>13. QED
    BY <1>1, <1>2, <1>3, <1>4, <1>7, <1>8, <1>10, <1>11, <1>12 DEF DriverNext, main, compile


(* A step either adds what became of one more source, and goes on to the next
   one, or leaves the outcomes.                                             *)
LEMMA OutcomeStep ==
  ASSUME Typing, Phased, [DriverNext]_vars
  PROVE  \/ outcome' = outcome
         \/ /\ phase \in {"build"} \cup InSource /\ Len(outcome) < Len(arguments)
            /\ phase' = "build" /\ arguments' = arguments
            /\ options' = options /\ argv' = argv /\ optind' = optind /\ printed' = printed
            /\ \E how \in Outcomes :
                 /\ outcome' = Append(outcome, how)
                 /\ how = "ok" => phase = "unlink" /\ exit_status' = exit_status
                 /\ how # "ok" => exit_status' = FAILURE
  <1>1. CASE UNCHANGED vars
    BY <1>1 DEF vars
  <1>2. CASE CommandLine
    BY <1>2 DEF CommandLine, help, usage, exit, Flag, Define, Undefine, Argument, NoArguments,
                Checked, getopt
  <1>3. CASE Mangle \/ InternalError \/ Aborted \/ Return
    BY <1>3 DEF Mangle, InternalError, Aborted, Return
  <1>4. CASE build \/ create_listing \/ generate \/ as
    BY <1>4 DEF build, create_listing, generate, as
  <1>5. CASE BuildFails
    BY <1>5 DEF BuildFails, Compiling, Fails, Returns, cmdline, Outcomes
  <1>6. CASE OpenFails
    BY <1>6 DEF OpenFails, Fails, Returns, cmdline, Outcomes, Phased, InSource
  <1>7. CASE AsFails
    BY <1>7 DEF AsFails, Fails, Returns, cmdline, Outcomes, Phased, InSource
  <1>8. CASE unlink
    BY <1>8 DEF unlink, Returns, cmdline, Outcomes, Phased, InSource
  <1>9. QED
    BY <1>1, <1>2, <1>3, <1>4, <1>5, <1>6, <1>7, <1>8 DEF DriverNext, main, compile

(* Initially the types hold. *)
LEMMA TypingInit == DriverInit => Typing /\ Phased /\ Told
  <1>1. SUFFICES ASSUME DriverInit PROVE Typing /\ Phased /\ Told
    OBVIOUS
  <1>2. Len(argv) \in Nat
    BY <1>1, DriverAssumption DEF DriverInit
  <1>3. optind \in 1..(Len(argv) + 1)
    BY <1>1, <1>2 DEF DriverInit
  <1>4. PICK missing \in SUBSET {p \in Sources : Named(p)}, old \in {Absent, Stale} :
          fs = [p \in Paths |-> IF p \notin Sources THEN old
                                ELSE IF p \in missing THEN Absent ELSE Forth(p)]
    BY <1>1 DEF DriverInit
  <1>5. fs \in [Paths -> Files]
    BY <1>4, Contents
  <1>6. /\ arguments \in Seq(Sources) /\ outcome \in Seq(Outcomes)
        /\ printed \in Seq([mode : {"M", "X"}, name : Sources])
        /\ Len(arguments) = 0 /\ Len(outcome) = 0 /\ Len(printed) = 0
    BY <1>1, EmptySeq DEF DriverInit
  <1>7. Typing
    BY <1>1, <1>3, <1>5, <1>6 DEF DriverInit, Typing, Phases
  <1>8. Phased
    BY <1>1 DEF DriverInit, Phased, InSource
  <1>9. Told
    BY <1>1, <1>6, LenProperties DEF DriverInit, Told
  <1>10. QED
    BY <1>7, <1>8, <1>9

(* What the command line leaves as it is. *)
LEMMA CommandLineKeeps ==
  ASSUME CommandLine
  PROVE  /\ argv' = argv /\ fs' = fs /\ program' = program
         /\ outcome' = outcome /\ printed' = printed /\ phase = "getopt"
  BY DEF CommandLine, help, usage, exit, cmdline, Flag, Define, Undefine, Argument, NoArguments,
         Checked, getopt

(* What compiling leaves as it is. *)
LEMMA MainKeeps ==
  ASSUME main
  PROVE  argv' = argv /\ optind' = optind /\ options' = options /\ definitions' = definitions
         /\ arguments' = arguments
  <1>1. CASE Mangle \/ InternalError \/ Aborted \/ Return
    BY <1>1 DEF Mangle, InternalError, Aborted, Return, cmdline
  <1>2. CASE build \/ create_listing \/ generate \/ as \/ unlink
    BY <1>2 DEF build, create_listing, generate, as, unlink, cmdline
  <1>3. CASE BuildFails \/ OpenFails \/ AsFails
    BY <1>3 DEF BuildFails, OpenFails, AsFails, Fails, cmdline
  <1>4. QED
    BY <1>1, <1>2, <1>3 DEF main, compile

(* Every step keeps the types. *)
LEMMA TypingStep ==
  ASSUME Typing, Phased, [DriverNext]_vars
  PROVE  Typing'
  <1>1. fs' \in [Paths -> Files]
    <2>1. CASE fs' = fs
      BY <2>1 DEF Typing
    <2>2. CASE fs' # fs
      <3>1. phase \in InSource
        BY <2>2, FilesStep
      <3>2. PICK x \in Exts, c \in Files : fs' = [fs EXCEPT ![Output(Source, x)] = c]
        BY <2>2, FilesStep
      <3>3. Output(Source, x) \in Paths
        BY <3>1, SourceTyped, OutputPaths DEF Phased
      <3>4. QED
        BY <3>2, <3>3, FileWritten
    <2>3. QED
      BY <2>1, <2>2
  <1>2. CASE UNCHANGED vars
    BY <1>2 DEF vars, Typing
  <1>3. CASE CommandLine
    <2>1. /\ argv' = argv /\ fs' = fs /\ program' = program
          /\ outcome' = outcome /\ printed' = printed /\ phase = "getopt"
      BY <1>3, CommandLineKeeps
    <2>2. arguments \in Seq(Sources) /\ Len(outcome) = 0 /\ Len(printed) = 0
      BY <2>1 DEF Typing, Phased
    <2>3. CASE help \/ usage \/ NoArguments
      BY <2>3, <2>1, <1>1 DEF help, usage, NoArguments, exit, cmdline, Typing, Phases, Ended
    <2>4. CASE Flag
      <3>1. optind <= Len(argv)
        BY <2>4 DEF Flag, getopt
      <3>2. optind' \in 1..(Len(argv) + 1)
        BY <2>4, <3>1, NextWord DEF Flag, getopt
      <3>3. options' \subseteq Flags
        BY <2>4 DEF Flag, getopt, Flags, Typing
      <3>4. QED
        BY <2>4, <2>1, <3>2, <3>3, <1>1 DEF Flag, getopt, Typing
    <2>5. CASE Define
      <3>1. optind <= Len(argv) /\ argv[optind].opt = "D"
        BY <2>5 DEF Define, getopt
      <3>2. optind' \in 1..(Len(argv) + 1)
        BY <2>5, <3>1, NextWord DEF Define, getopt
      <3>3. definitions' \subseteq LowerNames
        BY <2>5, <3>1, NextWord DEF Define, LowerNames, Typing
      <3>4. QED
        BY <2>5, <2>1, <3>2, <3>3, <1>1 DEF Define, getopt, Typing
    <2>6. CASE Undefine
      <3>1. optind <= Len(argv)
        BY <2>6 DEF Undefine, getopt
      <3>2. optind' \in 1..(Len(argv) + 1)
        BY <2>6, <3>1, NextWord DEF Undefine, getopt
      <3>3. definitions' \subseteq LowerNames
        BY <2>6 DEF Undefine, Typing
      <3>4. QED
        BY <2>6, <2>1, <3>2, <3>3, <1>1 DEF Undefine, getopt, Typing
    <2>7. CASE Argument
      <3>1. optind <= Len(argv) /\ argv[optind].opt = ""
        BY <2>7 DEF Argument, getopt
      <3>2. optind' \in 1..(Len(argv) + 1)
        BY <2>7, <3>1, NextWord DEF Argument, getopt
      <3>3. arguments' \in Seq(Sources) /\ Len(arguments') = Len(arguments) + 1
        BY <2>7, <2>2, <3>1, NextWord, AppendProperties DEF Argument
      <3>4. 0 <= Len(arguments')
        BY <3>3, LenProperties
      <3>5. QED
        BY <2>7, <2>1, <2>2, <3>2, <3>3, <3>4, <1>1 DEF Argument, getopt, Typing
    <2>8. CASE Checked
      <3>1. options' \subseteq options
        BY <2>8 DEF Checked, OneMode, ModeAlone, Debugging
      <3>2. QED
        BY <2>8, <2>1, <3>1, <1>1 DEF Checked, Typing, Phases
    <2>9. QED
      BY <1>3, <2>3, <2>4, <2>5, <2>6, <2>7, <2>8 DEF CommandLine
  <1>4. CASE main
    <2>1. /\ argv' = argv /\ optind' = optind /\ options' = options
          /\ definitions' = definitions /\ arguments' = arguments
      BY <1>4, MainKeeps
    <2>2. outcome' \in Seq(Outcomes) /\ Len(outcome') <= Len(arguments)
      <3>1. CASE outcome' = outcome
        BY <3>1 DEF Typing
      <3>2. CASE outcome' # outcome
        <4>1. Len(outcome) < Len(arguments)
          BY <3>2, OutcomeStep
        <4>2. PICK how \in Outcomes : outcome' = Append(outcome, how)
          BY <3>2, OutcomeStep
        <4>3. QED
          BY <4>1, <4>2, OutcomeNext
      <3>3. QED
        BY <3>1, <3>2
    <2>3. /\ printed' \in Seq([mode : {"M", "X"}, name : Sources])
          /\ Len(printed') <= Len(arguments)
      <3>1. CASE Mangle
        <4>1. /\ printed \in Seq([mode : {"M", "X"}, name : Sources])
              /\ arguments \in Seq(Sources) /\ Len(printed) < Len(arguments)
          BY <3>1 DEF Mangle, Typing
        <4>2. Len(printed) \in Nat /\ Len(arguments) \in Nat
          BY <4>1, LenProperties
        <4>3. Len(printed) + 1 \in 1..Len(arguments) /\ Len(printed) + 1 <= Len(arguments)
          BY <4>1, <4>2
        <4>4. arguments[Len(printed) + 1] \in Sources
          BY <4>1, <4>3, ElementOfSeq
        <4> DEFINE item == [mode |-> IF "M" \in options THEN "M" ELSE "X",
                            name |-> arguments[Len(printed) + 1]]
        <4>5. item \in [mode : {"M", "X"}, name : Sources]
          BY <4>4
        <4>6. printed' = Append(printed, item)
          BY <3>1 DEF Mangle
        <4> HIDE DEF item
        <4>7. /\ printed' \in Seq([mode : {"M", "X"}, name : Sources])
              /\ Len(printed') = Len(printed) + 1
          BY <4>1, <4>5, <4>6, AppendProperties
        <4>8. QED
          BY <4>3, <4>7
      <3>2. CASE ~Mangle
        <4>1. printed' = printed
          <5>1. CASE InternalError \/ Aborted \/ Return
            BY <5>1 DEF InternalError, Aborted, Return
          <5>2. CASE build \/ create_listing \/ generate \/ as \/ unlink
            BY <5>2 DEF build, create_listing, generate, as, unlink
          <5>3. CASE BuildFails \/ OpenFails \/ AsFails
            BY <5>3 DEF BuildFails, OpenFails, AsFails, Fails
          <5>4. QED
            BY <1>4, <3>2, <5>1, <5>2, <5>3 DEF main, compile
        <4>2. QED
          BY <4>1 DEF Typing
      <3>3. QED
        BY <3>1, <3>2
    <2>4. program' \in Sources \cup {NoPath}
      <3>1. CASE build
        <4>1. program' = fs[Source].of /\ Len(outcome) < Len(arguments)
          BY <3>1 DEF build, Compiling
        <4>2. Source \in Paths
          BY <4>1, SourceTyped, OutputPaths
        <4>3. fs[Source] \in Files
          BY <4>2 DEF Typing
        <4>4. QED
          BY <4>1, <4>3 DEF Files
      <3>2. CASE ~build
        <4>1. program' = program
          <5>1. CASE InternalError \/ Aborted \/ Return \/ Mangle
            BY <5>1 DEF InternalError, Aborted, Return, Mangle
          <5>2. CASE create_listing \/ generate \/ as \/ unlink
            BY <5>2 DEF create_listing, generate, as, unlink
          <5>3. CASE BuildFails \/ OpenFails \/ AsFails
            BY <5>3 DEF BuildFails, OpenFails, AsFails
          <5>4. QED
            BY <1>4, <3>2, <5>1, <5>2, <5>3 DEF main, compile
        <4>2. QED
          BY <4>1 DEF Typing
      <3>3. QED
        BY <3>1, <3>2
    <2>5. phase' \in Phases /\ exit_status' \in {SUCCESS, FAILURE}
      <3>1. phase \in Phases /\ exit_status \in {SUCCESS, FAILURE}
        BY DEF Typing
      <3>2. CASE InternalError \/ Aborted \/ Return \/ Mangle
        BY <3>1, <3>2 DEF InternalError, Aborted, Return, Mangle, Phases, Ended
      <3>3. CASE build \/ create_listing \/ generate \/ as \/ unlink
        BY <3>1, <3>3 DEF build, create_listing, generate, as, unlink, Returns, Phases
      <3>4. CASE BuildFails \/ OpenFails \/ AsFails
        BY <3>1, <3>4 DEF BuildFails, OpenFails, AsFails, Fails, Returns, Phases
      <3>5. QED
        BY <1>4, <3>2, <3>3, <3>4 DEF main, compile
    <2>6. QED
      BY <1>1, <2>1, <2>2, <2>3, <2>4, <2>5 DEF Typing
  <1>5. QED
    BY <1>2, <1>3, <1>4 DEF DriverNext

(* Every step keeps what its phase tells. *)
LEMMA PhasedStep ==
  ASSUME Typing, Phased, [DriverNext]_vars
  PROVE  Phased'
  <1>1. CASE UNCHANGED vars
    BY <1>1 DEF vars, Phased
  <1>2. CASE help \/ usage \/ NoArguments
    BY <1>2 DEF help, usage, NoArguments, exit, cmdline, Phased, InSource
  <1>3. CASE Flag \/ Define \/ Undefine \/ Argument
    BY <1>3 DEF Flag, Define, Undefine, Argument, getopt, Phased, InSource
  <1>4. CASE Checked
    <2>1. /\ optind' = Len(argv) + 1 /\ argv' = argv
      <3>1. optind > Len(argv) /\ optind \in 1..(Len(argv) + 1) /\ argv \in CommandLines
        BY <1>4 DEF Checked, Typing
      <3>2. Len(argv) \in Nat
        BY <3>1, DriverAssumption
      <3>3. optind = Len(argv) + 1
        BY <3>1, <3>2
      <3>4. QED
        BY <3>3, <1>4 DEF Checked
    <2>2. outcome' = <<>> /\ printed' = <<>>
      BY <1>4 DEF Checked, Phased
    <2>3. phase' = IF options' \cap Modes # {} THEN "names" ELSE "build"
      BY <1>4 DEF Checked
    <2>4. QED
      BY <2>1, <2>2, <2>3 DEF Phased, InSource
  <1>5. ASSUME main
        PROVE  argv' = argv /\ optind' = optind /\ options' = options /\ arguments' = arguments
    BY <1>5, MainKeeps
  <1>6. CASE Mangle
    BY <1>6, <1>5 DEF Mangle, main, Phased, InSource
  <1>7. CASE InternalError
    BY <1>7, <1>5 DEF InternalError, main, Phased, InSource
  <1>8. CASE Aborted
    BY <1>8, <1>5 DEF Aborted, main, Phased, InSource
  <1>9. CASE Return
    BY <1>9, <1>5 DEF Return, main, Phased, InSource
  <1>10. CASE build
    BY <1>10, <1>5 DEF build, Compiling, main, compile, Phased, InSource
  <1>11. CASE create_listing
    BY <1>11, <1>5 DEF create_listing, main, compile, Phased, InSource
  <1>12. CASE generate
    BY <1>12, <1>5 DEF generate, main, compile, Phased, InSource
  <1>13. CASE as
    BY <1>13, <1>5 DEF as, main, compile, Phased, InSource
  <1>14. CASE BuildFails \/ OpenFails \/ AsFails \/ unlink
    <2>1. phase' = "build"
      BY <1>14 DEF BuildFails, OpenFails, AsFails, unlink, Fails, Returns
    <2>2. printed' = printed
      BY <1>14 DEF BuildFails, OpenFails, AsFails, unlink, Fails, Returns
    <2>3. phase \in {"build"} \cup InSource
      BY <1>14 DEF BuildFails, OpenFails, AsFails, unlink, Compiling, InSource
    <2>4. main
      BY <1>14 DEF main, compile
    <2>5. QED
      BY <2>1, <2>2, <2>3, <2>4, <1>5 DEF Phased, InSource
  <1>15. QED
    BY <1>1, <1>2, <1>3, <1>4, <1>6, <1>7, <1>8, <1>9, <1>10, <1>11, <1>12, <1>13, <1>14
       DEF DriverNext, CommandLine, main, compile

(* Every step keeps the exit status true: it is only ever set to failure, and
   with each source that fails. *)
LEMMA ToldStep ==
  ASSUME Typing, Phased, Told, [DriverNext]_vars
  PROVE  Told'
  <1>1. CASE outcome' = outcome /\ exit_status' = exit_status /\ phase' \notin {"exited", "internal"}
    <2>1. phase \notin {"exited", "internal"}
      <3>1. CASE UNCHANGED vars
        BY <3>1, <1>1 DEF vars
      <3>2. CASE CommandLine
        BY <3>2, CommandLineKeeps
      <3>3. CASE Mangle \/ InternalError \/ Aborted \/ Return
        BY <3>3 DEF Mangle, InternalError, Aborted, Return, Compiling
      <3>4. CASE build \/ create_listing \/ generate \/ as \/ unlink
        BY <3>4 DEF build, create_listing, generate, as, unlink, Compiling
      <3>5. CASE BuildFails \/ OpenFails \/ AsFails
        BY <3>5 DEF BuildFails, OpenFails, AsFails, Compiling
      <3>6. QED
        BY <3>1, <3>2, <3>3, <3>4, <3>5 DEF DriverNext, main, compile
    <2>2. QED
      BY <1>1, <2>1 DEF Told
  <1>2. CASE phase' \in {"exited", "internal"}
    BY <1>2 DEF Told
  <1>3. CASE outcome' # outcome
    <2>1. /\ phase \in {"build"} \cup InSource /\ Len(outcome) < Len(arguments)
      BY <1>3, OutcomeStep
    <2>2. PICK how \in Outcomes :
            /\ outcome' = Append(outcome, how)
            /\ how = "ok" => exit_status' = exit_status
            /\ how # "ok" => exit_status' = FAILURE
      BY <1>3, OutcomeStep
    <2>3. /\ DOMAIN outcome' = DOMAIN outcome \cup {Len(outcome) + 1}
          /\ \A k \in DOMAIN outcome : outcome'[k] = outcome[k]
          /\ outcome'[Len(outcome) + 1] = how
      BY <2>1, <2>2, OutcomeNext
    <2>4. exit_status = SUCCESS <=> \A k \in DOMAIN outcome : outcome[k] = "ok"
      BY <2>1 DEF Told, InSource
    <2>5. (\A k \in DOMAIN outcome' : outcome'[k] = "ok")
            <=> (\A k \in DOMAIN outcome : outcome[k] = "ok") /\ how = "ok"
      BY <2>3
    <2>6. SUCCESS # FAILURE
      BY DEF SUCCESS, FAILURE
    <2>7. exit_status' = SUCCESS <=> \A k \in DOMAIN outcome' : outcome'[k] = "ok"
      BY <2>2, <2>4, <2>5, <2>6
    <2>8. QED
      BY <2>7 DEF Told
  <1>4. CASE outcome' = outcome /\ exit_status' # exit_status /\ phase' \notin {"exited", "internal"}
    <2>1. CASE UNCHANGED vars
      BY <2>1, <1>4 DEF vars
    <2>2. CASE CommandLine
      BY <2>2, <1>4 DEF CommandLine, help, usage, exit, Flag, Define, Undefine, Argument,
                        NoArguments, Checked, getopt
    <2>3. CASE Mangle \/ InternalError \/ Aborted \/ Return
      BY <2>3, <1>4 DEF Mangle, InternalError, Aborted, Return
    <2>4. CASE build \/ create_listing \/ generate \/ as \/ unlink
      BY <2>4, <1>4 DEF build, create_listing, generate, as, unlink
    <2>5. CASE BuildFails \/ OpenFails \/ AsFails
      <3>1. PICK how : outcome' = Append(outcome, how)
        BY <2>5 DEF BuildFails, OpenFails, AsFails, Fails, Returns
      <3>2. outcome \in Seq(Outcomes)
        BY DEF Typing
      <3>3. Len(Append(outcome, how)) = Len(outcome) + 1 /\ Len(outcome) \in Nat
        BY <3>2, LenProperties
      <3>4. QED
        BY <3>1, <3>3, <1>4
    <2>6. QED
      BY <2>1, <2>2, <2>3, <2>4, <2>5 DEF DriverNext, main, compile
  <1>5. QED
    BY <1>1, <1>2, <1>3, <1>4


(* Compiling a source leaves the files of the others that share no name with
   it.                                                                      *)
LEMMA OthersKept ==
  ASSUME Typing, Phased, [DriverNext]_vars,
         NEW k \in DOMAIN arguments, Alone(k), k # Len(outcome) + 1
  PROVE  /\ fs'[arguments[k]] = fs[arguments[k]]
         /\ \A x \in Exts : fs'[Output(arguments[k], x)] = fs[Output(arguments[k], x)]
  <1>1. CASE fs' = fs
    BY <1>1
  <1>2. CASE fs' # fs
    <2>1. Len(outcome) < Len(arguments)
      BY <1>2, FilesStep DEF Phased
    <2>2. PICK x \in Exts, c \in Files : fs' = [fs EXCEPT ![Output(Source, x)] = c]
      BY <1>2, FilesStep
    <2>3. /\ Len(outcome) + 1 \in DOMAIN arguments
          /\ Source = arguments[Len(outcome) + 1] /\ Source \in Sources
      BY <2>1, SourceTyped
    <2>4. arguments[k] \in Sources
      <3>1. arguments \in Seq(Sources)
        BY DEF Typing
      <3>2. k \in 1..Len(arguments)
        BY <3>1, LenProperties
      <3>3. QED
        BY <3>1, <3>2, ElementOfSeq
    <2>5. Source.name # arguments[k].name
      BY <2>3 DEF Alone
    <2>6. Output(Source, x) \in Paths /\ arguments[k] \in Paths
      BY <2>3, <2>4, OutputPaths
    <2>7. \A p \in Paths : p # Output(Source, x) => fs'[p] = fs[p]
      BY <2>2, <2>6, FileWritten
    <2>8. arguments[k] # Output(Source, x)
      BY <2>3, <2>4, <2>5, OutputPaths
    <2>9. \A y \in Exts : /\ Output(arguments[k], y) \in Paths
                          /\ Output(arguments[k], y) # Output(Source, x)
      BY <2>3, <2>4, <2>5, OutputPaths
    <2>10. QED
      BY <2>6, <2>7, <2>8, <2>9
  <1>3. QED
    BY <1>1, <1>2

(* The extension of no object is that of an assembly. *)
LEMMA ObjectApart ==
  ASSUME NEW p \in Sources
  PROVE  Output(p, ".o") # Output(p, ".s") /\ Output(p, ".o") \in Paths /\ Output(p, ".s") \in Paths
  <1>1. ".o" \in Exts /\ ".s" \in Exts /\ ".o" # ".s"
    BY DEF Exts
  <1>2. QED
    BY <1>1, OutputPaths

(* Initially no source was touched. *)
LEMMA ObjectsInit == DriverInit => Waiting /\ Underway /\ Made
  <1>1. SUFFICES ASSUME DriverInit PROVE Waiting /\ Underway /\ Made
    OBVIOUS
  <1>2. phase = "getopt" /\ outcome = <<>>
    BY <1>1 DEF DriverInit
  <1>3. PICK missing \in SUBSET {p \in Sources : Named(p)}, old \in {Absent, Stale} :
          fs = [p \in Paths |-> IF p \notin Sources THEN old
                                ELSE IF p \in missing THEN Absent ELSE Forth(p)]
    BY <1>1 DEF DriverInit
  <1>4. \A p \in Sources : fs[p] \in {Absent, Forth(p)}
    BY <1>3, OutputPaths
  <1>5. Waiting
    BY <1>2, <1>4 DEF Waiting, InSource
  <1>6. Underway /\ Made
    BY <1>2 DEF Underway, Made
  <1>7. QED
    BY <1>5, <1>6

(* Compiling one source does not touch those that wait for their turn. *)
LEMMA WaitingStep ==
  ASSUME Typing, Phased, Waiting, [DriverNext]_vars
  PROVE  Waiting'
  <1>1. CASE UNCHANGED vars
    BY <1>1 DEF vars, Waiting, Alone, Untouched
  <1>2. CASE CommandLine
    <2>1. fs' = fs /\ outcome' = outcome /\ phase = "getopt"
      BY <1>2, CommandLineKeeps
    <2>2. \A p \in Sources : fs'[p] \in {Absent, Forth(p)}
      BY <2>1 DEF Waiting
    <2>3. \A k \in DOMAIN arguments' : Untouched(k)'
      <3>1. arguments' \in Seq(Sources)
        BY TypingStep DEF Typing
      <3>2. \A k \in DOMAIN arguments' : arguments'[k] \in Sources
        BY <3>1, LenProperties, ElementOfSeq
      <3>3. QED
        BY <2>2, <3>2 DEF Untouched
    <2>4. QED
      BY <2>2, <2>3 DEF Waiting
  <1>3. CASE main
    <2>1. arguments' = arguments /\ phase # "getopt" /\ phase' # "getopt"
      <3>1. arguments' = arguments
        BY <1>3, MainKeeps
      <3>2. CASE Mangle \/ InternalError \/ Aborted \/ Return
        BY <3>1, <3>2 DEF Mangle, InternalError, Aborted, Return, Compiling
      <3>3. CASE build \/ create_listing \/ generate \/ as \/ unlink
        BY <3>1, <3>3 DEF build, create_listing, generate, as, unlink, Compiling, Returns
      <3>4. CASE BuildFails \/ OpenFails \/ AsFails
        BY <3>1, <3>4 DEF BuildFails, OpenFails, AsFails, Compiling, Fails, Returns
      <3>5. QED
        BY <1>3, <3>2, <3>3, <3>4 DEF main, compile
    <2>2. phase' \in {"build"} \cup InSource => phase \in {"build"} \cup InSource
      <3>1. CASE Mangle \/ InternalError \/ Aborted \/ Return
        BY <3>1 DEF Mangle, InternalError, Aborted, Return, InSource
      <3>2. CASE build \/ create_listing \/ generate \/ as \/ unlink
        BY <3>2 DEF build, create_listing, generate, as, unlink, Compiling, InSource
      <3>3. CASE BuildFails \/ OpenFails \/ AsFails
        BY <3>3 DEF BuildFails, OpenFails, AsFails, Compiling, InSource
      <3>4. QED
        BY <1>3, <3>1, <3>2, <3>3 DEF main, compile
    <2>3. Len(outcome) \in Nat /\ DOMAIN arguments = 1..Len(arguments)
      BY LenProperties DEF Typing
    <2> DEFINE Later(k) == k > Len(outcome) + 1
    <2>6. phase \in {"build"} \cup InSource =>
            \A k \in DOMAIN arguments : Alone(k) /\ Later(k) => Untouched(k)
      BY DEF Waiting
    <2>4. ASSUME phase' \in {"build"} \cup InSource, NEW k \in DOMAIN arguments, Alone(k),
                 k > Len(outcome') + 1 \/ (k = Len(outcome') + 1 /\ phase' = "build")
          PROVE  fs'[arguments[k]] \in {Absent, Forth(arguments[k])}
      <3>1. phase \in {"build"} \cup InSource
        BY <2>2, <2>4
      <3>2. CASE outcome' # outcome
        <4>1. /\ Len(outcome) < Len(arguments) /\ \E how \in Outcomes : outcome' = Append(outcome, how)
          BY <3>2, OutcomeStep
        <4>2. Len(outcome') = Len(outcome) + 1
          BY <4>1, OutcomeNext
        <4>3. k > Len(outcome) + 1
          BY <2>3, <2>4, <4>2
        <4>4. k # Len(outcome) + 1
          BY <4>3, <2>3
        <4>5. Untouched(k)
          <5>1. Later(k)
            BY <4>3
          <5>2. Alone(k) /\ k \in DOMAIN arguments
            BY <2>4
          <5> HIDE DEF Later
          <5>3. QED
            BY <5>1, <5>2, <3>1, <2>6
        <4>6. QED
          BY <2>4, <4>4, <4>5, OthersKept DEF Untouched
      <3>3. CASE outcome' = outcome /\ k > Len(outcome) + 1
        <4>1. k # Len(outcome) + 1
          BY <3>3, <2>3
        <4>2. Untouched(k)
          <5>1. Later(k)
            BY <3>3
          <5>2. Alone(k) /\ k \in DOMAIN arguments
            BY <2>4
          <5> HIDE DEF Later
          <5>3. QED
            BY <5>1, <5>2, <3>1, <2>6
        <4>3. QED
          BY <2>4, <4>1, <4>2, OthersKept DEF Untouched
      <3>4. CASE outcome' = outcome /\ k = Len(outcome) + 1 /\ phase' = "build"
        <4>1. phase = "build"
          <5>1. CASE Mangle \/ InternalError \/ Aborted \/ Return
            BY <5>1, <3>4 DEF Mangle, InternalError, Aborted, Return
          <5>2. CASE build \/ create_listing \/ generate \/ as
            BY <5>2, <3>4 DEF build, create_listing, generate, as, Compiling
          <5>3. CASE BuildFails \/ OpenFails \/ AsFails \/ unlink
            <6>1. PICK how : outcome' = Append(outcome, how)
              BY <5>3 DEF BuildFails, OpenFails, AsFails, Fails, Returns, unlink
            <6>2. outcome \in Seq(Outcomes)
              BY DEF Typing
            <6>3. Len(Append(outcome, how)) = Len(outcome) + 1
              BY <6>2, LenProperties
            <6>4. QED
              BY <6>1, <6>3, <3>4, <2>3
          <5>4. QED
            BY <1>3, <5>1, <5>2, <5>3 DEF main, compile
        <4>2. Untouched(k)
          BY <2>4, <3>4, <4>1 DEF Waiting
        <4>3. fs' = fs
          BY <4>1, FilesStep DEF InSource
        <4>4. QED
          BY <4>2, <4>3 DEF Untouched
      <3>5. QED
        BY <2>4, <3>2, <3>3, <3>4
    <2>5. QED
      BY <2>1, <2>4 DEF Waiting, Alone, Untouched
  <1>4. QED
    BY <1>1, <1>2, <1>3 DEF DriverNext

(* The source at hand becomes a program, an assembly and an object, in this
   order, and nothing else does. *)
LEMMA UnderwayStep ==
  ASSUME Typing, Phased, Waiting, Underway, [DriverNext]_vars
  PROVE  Underway'
  <1>1. CASE UNCHANGED vars
    BY <1>1 DEF vars, Underway, Alone, Source, HasObject
  <1>2. CASE CommandLine
    <2>1. phase' \notin InSource
      BY <1>2 DEF CommandLine, help, usage, exit, Flag, Define, Undefine, Argument, NoArguments,
                  Checked, getopt, InSource
    <2>2. QED
      BY <2>1 DEF Underway, InSource
  <1>3. CASE Mangle \/ InternalError \/ Aborted \/ Return
    BY <1>3 DEF Mangle, InternalError, Aborted, Return, Underway
  <1>4. CASE BuildFails \/ OpenFails \/ AsFails \/ unlink
    BY <1>4 DEF BuildFails, OpenFails, AsFails, Fails, Returns, unlink, Underway
  <1>5. ASSUME main, outcome' = outcome
        PROVE  arguments' = arguments /\ Source' = Source
               /\ (Alone(Len(outcome) + 1)' <=> Alone(Len(outcome) + 1))
    BY <1>5, MainKeeps DEF Source, Alone
  <1>6. CASE build
    <2>1. /\ phase = "build" /\ Len(outcome) < Len(arguments) /\ fs[Source] # Absent
          /\ program' = fs[Source].of /\ phase' \in {"listing", "opening"} /\ outcome' = outcome
      BY <1>6 DEF build, Compiling
    <2>2. main
      BY <1>6 DEF main, compile
    <2>3. ASSUME Alone(Len(outcome) + 1) PROVE program' = Source
      <3>1. Len(outcome) + 1 \in DOMAIN arguments /\ Source = arguments[Len(outcome) + 1]
        BY <2>1, SourceTyped
      <3>2. Untouched(Len(outcome) + 1)
        BY <2>1, <2>3, <3>1 DEF Waiting
      <3>3. fs[Source] = Forth(Source)
        BY <2>1, <3>1, <3>2 DEF Untouched
      <3>4. QED
        BY <2>1, <3>3 DEF Forth, Content
    <2>4. QED
      BY <2>1, <2>2, <2>3, <1>5 DEF Underway
  <1>7. CASE create_listing
    <2>1. phase = "listing" /\ phase' = "opening" /\ outcome' = outcome /\ program' = program
      BY <1>7 DEF create_listing
    <2>2. main
      BY <1>7 DEF main, compile
    <2>3. QED
      BY <2>1, <2>2, <1>5 DEF Underway
  <1>8. CASE generate
    <2>1. phase = "opening" /\ phase' = "as" /\ outcome' = outcome
      BY <1>8 DEF generate
    <2>2. main
      BY <1>8 DEF main, compile
    <2>3. PICK whole \in BOOLEAN :
            fs' = [fs EXCEPT ![Output(Source, ".s")] = Content("assembly", program, whole)]
      BY <1>8 DEF generate, Wrote
    <2>4. Output(Source, ".s") \in Paths
      BY <2>1, SourceTyped, ObjectApart DEF Phased, InSource
    <2>5. program \in Sources \cup {NoPath}
      BY DEF Typing
    <2>6. Content("assembly", program, whole) \in Files
      BY <2>5, Contents
    <2>7. fs'[Output(Source, ".s")] = Content("assembly", program, whole)
      BY <2>3, <2>4, <2>6, FileWritten
    <2>8. fs'[Output(Source, ".s")].of = program
      BY <2>7 DEF Content
    <2>9. Source' = Source /\ (Alone(Len(outcome) + 1)' <=> Alone(Len(outcome) + 1))
      BY <2>1, <2>2, <1>5
    <2>10. Alone(Len(outcome) + 1) => program = Source
      BY <2>1 DEF Underway
    <2>11. (fs[Output(Source, ".s")].of)' = fs'[Output(Source, ".s")].of
      BY <2>9 DEF Output
    <2>12. QED
      BY <2>1, <2>8, <2>9, <2>10, <2>11 DEF Underway
  <1>9. CASE as
    <2>1. phase = "as" /\ phase' = "unlink" /\ outcome' = outcome
      BY <1>9 DEF as
    <2>2. main
      BY <1>9 DEF main, compile
    <2> DEFINE s == fs[Output(Source, ".s")]
    <2>3. fs' = [fs EXCEPT ![Output(Source, ".o")] = Content("object", s.of, s.whole)]
      BY <1>9 DEF as
    <2>4. /\ Output(Source, ".o") \in Paths /\ Output(Source, ".s") \in Paths
          /\ Source = arguments[Len(outcome) + 1]
      BY <2>1, SourceTyped, ObjectApart DEF Phased, InSource
    <2>5. fs'[Output(Source, ".o")] = Content("object", s.of, s.whole)
      BY <2>3, <2>4 DEF Typing
    <2>6. fs'[Output(Source, ".o")].kind = "object" /\ fs'[Output(Source, ".o")].of = s.of
      BY <2>5 DEF Content
    <2>7. Alone(Len(outcome) + 1) => s.of = Source
      BY <2>1 DEF Underway
    <2>8. /\ arguments' = arguments
          /\ (Alone(Len(outcome) + 1)' <=> Alone(Len(outcome) + 1))
      BY <2>1, <2>2, <1>5
    <2> HIDE DEF s
    <2>9. Alone(Len(outcome) + 1) => HasObject(Len(outcome) + 1)'
      BY <2>1, <2>4, <2>6, <2>7, <2>8 DEF HasObject, Output
    <2>10. QED
      BY <2>1, <2>8, <2>9 DEF Underway
  <1>10. QED
    BY <1>1, <1>2, <1>3, <1>4, <1>6, <1>7, <1>8, <1>9 DEF DriverNext, main, compile

(* An object that was made is not touched again. *)
LEMMA MadeStep ==
  ASSUME Typing, Phased, Underway, Made, [DriverNext]_vars
  PROVE  Made'
  <1>1. CASE UNCHANGED vars
    BY <1>1 DEF vars, Made, Alone, HasObject
  <1>2. CASE CommandLine
    <2>1. outcome' = <<>>
      BY <1>2, CommandLineKeeps DEF Phased
    <2>2. QED
      BY <2>1 DEF Made
  <1>3. CASE main
    <2>1. arguments' = arguments
      BY <1>3, MainKeeps
    <2>2. /\ DOMAIN outcome \subseteq DOMAIN arguments
          /\ Len(outcome) + 1 \notin DOMAIN outcome /\ Len(outcome) \in Nat
      <3>1. /\ Len(outcome) \in Nat /\ DOMAIN outcome = 1..Len(outcome)
            /\ Len(arguments) \in Nat /\ DOMAIN arguments = 1..Len(arguments)
            /\ Len(outcome) <= Len(arguments)
        BY LenProperties DEF Typing
      <3>2. QED
        BY <3>1
    <2>3. ASSUME NEW k \in DOMAIN outcome, outcome[k] = "ok", Alone(k)
          PROVE  HasObject(k)'
      <3>1. HasObject(k) /\ k \in DOMAIN arguments /\ k # Len(outcome) + 1
        BY <2>2, <2>3 DEF Made
      <3>2. ".o" \in Exts
        BY DEF Exts
      <3>3. fs'[Output(arguments[k], ".o")] = fs[Output(arguments[k], ".o")]
        BY <2>3, <3>1, <3>2, OthersKept
      <3>4. QED
        BY <2>1, <3>1, <3>3 DEF HasObject, Output
    <2>4. CASE outcome' = outcome
      BY <2>1, <2>3, <2>4 DEF Made, Alone
    <2>5. CASE outcome' # outcome
      <3>1. Len(outcome) < Len(arguments)
        BY <2>5, OutcomeStep
      <3>2. PICK how \in Outcomes :
              outcome' = Append(outcome, how) /\ (how = "ok" => phase = "unlink")
        BY <2>5, OutcomeStep
      <3>3. /\ DOMAIN outcome' = DOMAIN outcome \cup {Len(outcome) + 1}
            /\ \A k \in DOMAIN outcome : outcome'[k] = outcome[k]
            /\ outcome'[Len(outcome) + 1] = how
        BY <3>1, <3>2, OutcomeNext
      <3>4. ASSUME how = "ok", Alone(Len(outcome) + 1),
                   NEW k \in DOMAIN arguments, k = Len(outcome) + 1
            PROVE  HasObject(k)'
        <4>1. phase = "unlink" /\ HasObject(Len(outcome) + 1)
          BY <3>2, <3>4 DEF Underway
        <4>2. fs' = fs \/ fs' = [fs EXCEPT ![Output(Source, ".s")] = Absent]
          <5>1. unlink
            <6>1. phase' = "build" /\ phase' # phase
              BY <4>1, <2>5, OutcomeStep
            <6>2. ~(Mangle \/ InternalError \/ Aborted \/ Return)
              BY <4>1 DEF Mangle, InternalError, Aborted, Return, Compiling
            <6>3. ~(BuildFails \/ build \/ create_listing \/ generate \/ OpenFails \/ as \/ AsFails)
              BY <4>1 DEF BuildFails, build, create_listing, generate, OpenFails, as, AsFails,
                          Compiling
            <6>4. QED
              BY <1>3, <6>2, <6>3 DEF main, compile
          <5>2. QED
            BY <5>1 DEF unlink
        <4>3. /\ Output(Source, ".o") \in Paths /\ Output(Source, ".s") \in Paths
              /\ Output(Source, ".o") # Output(Source, ".s")
              /\ Source = arguments[Len(outcome) + 1]
          BY <3>1, SourceTyped, ObjectApart
        <4>4. fs'[Output(Source, ".o")] = fs[Output(Source, ".o")]
          BY <4>2, <4>3 DEF Typing
        <4>5. arguments[k] = Source
          BY <4>3, <3>4
        <4>6. fs[Output(arguments[k], ".o")].kind = "object" /\ fs[Output(arguments[k], ".o")].of = Source
          BY <4>1, <4>3, <4>5 DEF HasObject
        <4>7. QED
          BY <2>1, <4>4, <4>5, <4>6 DEF HasObject, Output
      <3>5. \A k : Alone(k)' <=> Alone(k)
        BY <2>1 DEF Alone
      <3>6. ASSUME NEW k \in DOMAIN outcome', outcome'[k] = "ok", Alone(k)
            PROVE  HasObject(k)'
        <4>1. CASE k \in DOMAIN outcome
          BY <4>1, <3>3, <3>6, <2>3
        <4>2. CASE k = Len(outcome) + 1
          <5>1. how = "ok" /\ Alone(Len(outcome) + 1)
            BY <4>2, <3>3, <3>6
          <5>2. k \in DOMAIN arguments
            BY <4>2, <3>1, SourceTyped
          <5>3. QED
            BY <4>2, <5>1, <5>2, <3>4
        <4>3. QED
          BY <4>1, <4>2, <3>3
      <3>7. QED
        BY <3>5, <3>6 DEF Made
    <2>6. QED
      BY <2>4, <2>5
  <1>4. QED
    BY <1>1, <1>2, <1>3 DEF DriverNext

(* Every word of the command line keeps the definitions those said last. *)
LEMMA DefinedStep ==
  ASSUME Typing, Defined, [DriverNext]_vars
  PROVE  Defined'
  <1>1. CASE /\ argv' = argv /\ optind' = optind /\ definitions' = definitions
    BY <1>1 DEF Defined, Said
  <1>2. CASE UNCHANGED vars
    BY <1>2, <1>1 DEF vars
  <1>3. CASE main
    BY <1>3, <1>1, MainKeeps
  <1>4. CASE help \/ usage \/ NoArguments \/ Checked
    BY <1>4, <1>1 DEF help, usage, NoArguments, exit, cmdline, Checked
  <1>5. CASE Flag \/ Define \/ Undefine \/ Argument
    <2>1. argv' = argv /\ optind' = optind + 1 /\ optind <= Len(argv)
      BY <1>5 DEF Flag, Define, Undefine, Argument, getopt
    <2>2. /\ Len(argv) \in Nat /\ DOMAIN argv = 1..Len(argv) /\ optind \in DOMAIN argv
          /\ argv[optind].opt \in {"D", "U"} => argv[optind].arg \in DOMAIN Lower
      BY <2>1, NextWord
    <2>3. \A j \in DOMAIN argv : j < optind + 1 <=> j < optind \/ j = optind
      BY <2>2
    <2>4. ~(optind < optind) /\ \A j \in DOMAIN argv : j < optind => ~(optind < j)
      BY <2>2
    <2>5. ASSUME NEW j, NEW opt, NEW x
          PROVE  Said(j, opt, x)' <=>
                   Said(j, opt, x) \/ (j = optind /\ argv[j].opt = opt /\ Lower[argv[j].arg] = x)
      BY <2>1, <2>2, <2>3 DEF Said
    <2>6. CASE Flag \/ Argument
      <3>1. argv[optind].opt \notin {"D", "U"} /\ definitions' = definitions
        BY <2>6 DEF Flag, Argument, getopt
      <3>2. \A j, x : /\ Said(j, "D", x)' <=> Said(j, "D", x)
                      /\ Said(j, "U", x)' <=> Said(j, "U", x)
        BY <2>5, <3>1
      <3>3. QED
        BY <3>1, <3>2 DEF Defined
    <2>7. CASE Define
      <3>1. argv[optind].opt = "D" /\ definitions' = definitions \cup {Lower[argv[optind].arg]}
        BY <2>7 DEF Define, getopt
      <3>2. \A j, x : Said(j, "U", x)' <=> Said(j, "U", x)
        BY <2>5, <3>1
      <3>3. \A j, x : Said(j, "D", x)' <=>
              Said(j, "D", x) \/ (j = optind /\ Lower[argv[optind].arg] = x)
        BY <2>5, <3>1
      <3>4. ASSUME NEW x \in LowerNames, x = Lower[argv[optind].arg]
            PROVE  x \in definitions' /\ \E j : Said(j, "D", x)' /\ \A i : Said(i, "U", x)' => i < j
        <4>1. x \in definitions'
          BY <3>1, <3>4
        <4>2. \E j : j = optind /\ Said(j, "D", x)'
          BY <3>3, <3>4
        <4>3. \A i : Said(i, "U", x) => i < optind
          BY DEF Said
        <4>4. \A i : Said(i, "U", x)' => i < optind
          BY <4>3, <3>2
        <4>5. QED
          BY <4>1, <4>2, <4>4
      <3>5. ASSUME NEW x \in LowerNames, x # Lower[argv[optind].arg]
            PROVE  (x \in definitions' <=> x \in definitions)
                   /\ \A j : Said(j, "D", x)' <=> Said(j, "D", x)
        BY <3>1, <3>3, <3>5
      <3>6. ASSUME NEW x \in LowerNames
            PROVE  x \in definitions' <=> \E j : Said(j, "D", x)' /\ \A i : Said(i, "U", x)' => i < j
        <4>1. CASE x = Lower[argv[optind].arg]
          BY <4>1, <3>4
        <4>2. CASE x # Lower[argv[optind].arg]
          <5>1. x \in definitions <=> \E j : Said(j, "D", x) /\ \A i : Said(i, "U", x) => i < j
            BY DEF Defined
          <5>2. QED
            BY <5>1, <4>2, <3>2, <3>5
        <4>3. QED
          BY <4>1, <4>2
      <3>7. QED
        BY <3>6 DEF Defined, LowerNames
    <2>8. CASE Undefine
      <3>1. argv[optind].opt = "U" /\ definitions' = definitions \ {Lower[argv[optind].arg]}
        BY <2>8 DEF Undefine, getopt
      <3>2. \A j, x : Said(j, "D", x)' <=> Said(j, "D", x)
        BY <2>5, <3>1
      <3>3. \A j, x : Said(j, "U", x)' <=>
              Said(j, "U", x) \/ (j = optind /\ Lower[argv[optind].arg] = x)
        BY <2>5, <3>1
      <3>4. ASSUME NEW x \in LowerNames, x = Lower[argv[optind].arg]
            PROVE  x \notin definitions' /\ ~ \E j : Said(j, "D", x)' /\ \A i : Said(i, "U", x)' => i < j
        <4>1. x \notin definitions'
          BY <3>1, <3>4
        <4>2. \E i : i = optind /\ Said(i, "U", x)'
          BY <3>3, <3>4
        <4>3. \A j : Said(j, "D", x) => ~(optind < j)
          BY <2>4 DEF Said
        <4>4. \A j : Said(j, "D", x)' => ~(optind < j)
          BY <4>3, <3>2
        <4>5. QED
          BY <4>1, <4>2, <4>4
      <3>5. ASSUME NEW x \in LowerNames, x # Lower[argv[optind].arg]
            PROVE  (x \in definitions' <=> x \in definitions)
                   /\ \A j : Said(j, "U", x)' <=> Said(j, "U", x)
        BY <3>1, <3>3, <3>5
      <3>6. ASSUME NEW x \in LowerNames
            PROVE  x \in definitions' <=> \E j : Said(j, "D", x)' /\ \A i : Said(i, "U", x)' => i < j
        <4>1. CASE x = Lower[argv[optind].arg]
          BY <4>1, <3>4
        <4>2. CASE x # Lower[argv[optind].arg]
          <5>1. x \in definitions <=> \E j : Said(j, "D", x) /\ \A i : Said(i, "U", x) => i < j
            BY DEF Defined
          <5>2. QED
            BY <5>1, <4>2, <3>2, <3>5
        <4>3. QED
          BY <4>1, <4>2
      <3>7. QED
        BY <3>6 DEF Defined, LowerNames
    <2>9. QED
      BY <1>5, <2>6, <2>7, <2>8
  <1>6. QED
    BY <1>2, <1>3, <1>4, <1>5 DEF DriverNext, CommandLine

(* Only the assembler makes objects. *)
LEMMA ObjectsNamedStep ==
  ASSUME Typing, Phased, ObjectsNamed, [DriverNext]_vars
  PROVE  ObjectsNamed'
  <1>1. CASE fs' = fs
    BY <1>1 DEF ObjectsNamed
  <1>2. CASE fs' # fs
    <2>1. phase \in InSource
      BY <1>2, FilesStep
    <2>2. PICK x \in Exts, c \in Files :
            /\ fs' = [fs EXCEPT ![Output(Source, x)] = c]
            /\ c.kind = "object" => x = ".o" \/ c = fs[Output(Source, x)]
      BY <1>2, FilesStep
    <2>3. Output(Source, x) \in Paths
      BY <2>1, SourceTyped, OutputPaths DEF Phased
    <2>4. fs'[Output(Source, x)] = c /\ \A p \in Paths : p # Output(Source, x) => fs'[p] = fs[p]
      BY <2>2, <2>3, FileWritten
    <2>5. Output(Source, x).ext = x
      BY DEF Output
    <2>6. c.kind = "object" => Output(Source, x).ext = ".o"
      BY <2>2, <2>3, <2>5 DEF ObjectsNamed
    <2>7. QED
      BY <2>4, <2>6 DEF ObjectsNamed
  <1>3. QED
    BY <1>1, <1>2

-----------------------------------------------------------------------------

(* The inductive invariant. *)
DriverInv == Typing /\ Phased /\ Told /\ Waiting /\ Underway /\ Made /\ Defined /\ ObjectsNamed
(* The inductive invariant holds when the process starts. *)
LEMMA DriverInvInit == DriverInit => DriverInv
  <1>1. SUFFICES ASSUME DriverInit PROVE Defined /\ ObjectsNamed
    BY TypingInit, ObjectsInit DEF DriverInv
  <1>2. Defined
    <2>1. argv \in CommandLines /\ optind = 1 /\ definitions = {}
      BY <1>1 DEF DriverInit
    <2>2. DOMAIN argv = 1..Len(argv) /\ Len(argv) \in Nat
      BY <2>1, DriverAssumption
    <2>3. \A j \in DOMAIN argv : ~(j < optind)
      BY <2>1, <2>2
    <2>4. QED
      BY <2>1, <2>3 DEF Defined, Said
  <1>3. ObjectsNamed
    <2>1. PICK missing \in SUBSET {p \in Sources : Named(p)}, old \in {Absent, Stale} :
            fs = [p \in Paths |-> IF p \notin Sources THEN old
                                  ELSE IF p \in missing THEN Absent ELSE Forth(p)]
      BY <1>1 DEF DriverInit
    <2>2. \A p : Forth(p).kind # "object" /\ Absent.kind # "object" /\ Stale.kind # "object"
      BY DEF Forth, Absent, Stale, Content
    <2>3. QED
      BY <2>1, <2>2 DEF ObjectsNamed
  <1>4. QED
    BY <1>2, <1>3

(* Every step of the process keeps the inductive invariant. *)
LEMMA DriverInvStep == DriverInv /\ [DriverNext]_vars => DriverInv'
  BY TypingStep, PhasedStep, ToldStep, WaitingStep, UnderwayStep, MadeStep, DefinedStep,
     ObjectsNamedStep DEF DriverInv

(* cmdline.cc and compiler.cc: every state that the process can be in is one
   that the inductive invariant describes.                                  *)
THEOREM DriverInvariant == DriverSpec => []DriverInv
  <1>1. QED
    BY DriverInvInit, DriverInvStep, PTL DEF DriverSpec

(* Every variable keeps its type, and nothing but an object has its name. *)
THEOREM DriverTypes == DriverSpec => []TypeOK
  <1>1. DriverInv => TypeOK
    <2>1. SUFFICES ASSUME DriverInv PROVE TypeOK
      OBVIOUS
    <2>2. Typing /\ Phased /\ ObjectsNamed
      BY <2>1 DEF DriverInv
    <2>3. /\ argv \in CommandLines /\ optind \in 1..(Len(argv) + 1)
          /\ options \subseteq {"g", "p", "f", "w", "O", "P", "S", "M", "X", "#"}
          /\ definitions \subseteq {Lower[x] : x \in DOMAIN Lower}
          /\ phase \in {"getopt", "names", "build", "listing", "opening", "as", "unlink"} \cup Ended
          /\ exit_status \in {SUCCESS, FAILURE}
          /\ Len(outcome) <= Len(arguments) /\ Len(printed) <= Len(arguments)
      BY <2>2 DEF Typing, Flags, LowerNames, Phases
    <2>4. arguments \in Seq(Sources)
      BY <2>2 DEF Typing
    <2>5. \A p \in Paths : fs[p].kind = "object" => p.ext = ".o"
      BY <2>2 DEF ObjectsNamed
    <2>6. options \cap {"M", "X"} # {} \/ printed = <<>>
      BY <2>2 DEF Phased, Modes
    <2>7. QED
      BY <2>3, <2>4, <2>5, <2>6 DEF TypeOK
  <1>2. QED
    BY <1>1, DriverInvariant, PTL

(* main returns success if, and only if, it compiled every source, and each
   had its turn when it returns.                                            *)
THEOREM StatusTold == DriverSpec => []StatusTells
  <1>1. DriverInv => StatusTells
    BY DEF DriverInv, Phased, Told, StatusTells
  <1>2. QED
    BY <1>1, DriverInvariant, PTL

(* A name is defined when the sources are compiled if the last that the
   command line says of it, in any case of its letters, is -D.              *)
THEOREM DefinitionsOrdered == DriverSpec => []DefinitionsInOrder
  <1>1. DriverInv => DefinitionsInOrder
    <2>1. SUFFICES ASSUME DriverInv, phase \in {"build", "names", "returned"},
                          NEW x \in {Lower[y] : y \in DOMAIN Lower}
                   PROVE  x \in definitions <=>
                            \E j \in {h \in DOMAIN argv : argv[h].opt = "D" /\ Lower[argv[h].arg] = x} :
                              \A i \in {h \in DOMAIN argv : argv[h].opt = "U" /\ Lower[argv[h].arg] = x} :
                                i < j
      BY DEF DefinitionsInOrder
    <2>2. argv \in CommandLines /\ optind = Len(argv) + 1
      BY <2>1 DEF DriverInv, Typing, Phased
    <2>3. DOMAIN argv = 1..Len(argv) /\ Len(argv) \in Nat
      BY <2>2, DriverAssumption
    <2>4. \A j \in DOMAIN argv : j < optind
      BY <2>2, <2>3
    <2>5. \A j, opt : Said(j, opt, x) <=>
                        j \in {i \in DOMAIN argv : argv[i].opt = opt /\ Lower[argv[i].arg] = x}
      BY <2>4 DEF Said
    <2>6. x \in definitions <=> \E j : Said(j, "D", x) /\ \A i : Said(i, "U", x) => i < j
      BY <2>1 DEF DriverInv, Defined, LowerNames
    <2>7. QED
      BY <2>5, <2>6
  <1>2. QED
    BY <1>1, DriverInvariant, PTL

(* If main returns success it left behind an object of every source that
   shares its name with no other.                                           *)
THEOREM ObjectsLeft == DriverSpec => []ObjectsMade
  <1>1. DriverInv => ObjectsMade
    <2>1. SUFFICES ASSUME DriverInv, Succeeded, NEW k \in DOMAIN arguments, Alone(k)
                   PROVE  HasObject(k)
      BY DEF ObjectsMade
    <2>2. phase = "returned" /\ exit_status = SUCCESS /\ options \cap Modes = {}
      BY <2>1 DEF Succeeded
    <2>3. Len(outcome) = Len(arguments) /\ \A i \in DOMAIN outcome : outcome[i] = "ok"
      BY <2>1, <2>2 DEF DriverInv, Phased, Told
    <2>4. DOMAIN outcome = 1..Len(outcome) /\ DOMAIN arguments = 1..Len(arguments)
      BY <2>1, LenProperties DEF DriverInv, Typing
    <2>5. k \in DOMAIN outcome /\ outcome[k] = "ok"
      BY <2>3, <2>4
    <2>6. QED
      BY <2>1, <2>5 DEF DriverInv, Made
  <1>2. QED
    BY <1>1, DriverInvariant, PTL

(* forthc changes a source only if its extension is one that forthc gives,
   and, for that of a listing, only with -P.                                *)
THEOREM SourcesStay == DriverSpec => SourcesKept
  <1>1. DriverInv /\ [DriverNext]_vars =>
          [\A p \in Sources : fs'[p] # fs[p] =>
             /\ p.ext \in Exts
             /\ p.ext = ".p" => "P" \in options]_vars
    <2>1. SUFFICES ASSUME DriverInv, [DriverNext]_vars, NEW p \in Sources, fs'[p] # fs[p]
                   PROVE  /\ p.ext \in Exts
                          /\ p.ext = ".p" => "P" \in options
      OBVIOUS
    <2>2. Typing /\ Phased
      BY <2>1 DEF DriverInv
    <2>3. phase \in InSource
      BY <2>1, <2>2, FilesStep
    <2>4. PICK x \in Exts, c \in Files :
            /\ fs' = [fs EXCEPT ![Output(Source, x)] = c]
            /\ x = ".p" => phase = "listing"
      BY <2>1, <2>2, FilesStep
    <2>5. Source \in Sources
      BY <2>2, <2>3, SourceTyped DEF Phased
    <2>6. Output(Source, x) \in Paths /\ p \in Paths
      BY <2>5, OutputPaths
    <2>7. p = Output(Source, x)
      BY <2>1, <2>2, <2>4, <2>6, FileWritten
    <2>8. p.ext = x
      BY <2>5, <2>7, OutputPaths
    <2>9. QED
      BY <2>2, <2>4, <2>8 DEF Phased
  <1>2. QED
    BY <1>1, DriverInvariant, PTL DEF DriverSpec, SourcesKept
=============================================================================
