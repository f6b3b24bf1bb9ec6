------------------------------- MODULE Driver -------------------------------
(***************************************************************************)
(* The process forthc: the command line of cmdline.cc, and main and        *)
(* compile of compiler.cc with the files they read, write and remove.      *)
(*                                                                         *)
(* Parsing a source is one step with any outcome; modules Parser to        *)
(* Assembly look into it.  A path is a name and an extension.  Only the    *)
(* assembler changes files besides forthc.                                 *)
(***************************************************************************)
EXTENDS Naturals, Sequences, FiniteSets

CONSTANTS
  CommandLines,   \* what a command line may be, as getopt tells it
  Sources,        \* the paths of sources
  Lower           \* the lower case of the names that -D and -U are given

ASSUME DriverAssumption ==
  /\ \A c \in CommandLines : Len(c) \in Nat /\ DOMAIN c = 1..Len(c)
  /\ \A c \in CommandLines : \A i \in DOMAIN c :
       /\ c[i].opt = "" => c[i].arg \in Sources
       /\ c[i].opt \in {"D", "U"} => c[i].arg \in DOMAIN Lower
  /\ \A p \in Sources : p.ext \in STRING
  /\ \A x \in DOMAIN Lower : Lower[x] \in DOMAIN Lower /\ Lower[Lower[x]] = Lower[x]

VARIABLES
  argv,        \* the command line: [opt, arg], opt "" for what is no option
  optind,      \* the next of it
  options,     \* the flags that are set
  definitions, \* the names defined for [IFDEF]
  arguments,   \* what is no option, in order
  phase,       \* what comes next, or how the process ended
  exit_status, \* what it returns, or will return
  fs,          \* the files
  program,     \* the source of which the program in memory was made
  outcome,     \* history: what became of each source so far
  printed      \* the arguments that were mangled or demangled

cmdline == <<argv, optind, options, definitions, arguments>>
vars    == <<argv, optind, options, definitions, arguments, phase, exit_status, fs,
             program, outcome, printed>>

SUCCESS == "EXIT_SUCCESS"
FAILURE == "EXIT_FAILURE"

NoPath == [name |-> "", ext |-> ""]

\* A file: its kind, the source it comes from, and is it complete?
Content(kind, path, whole) == [kind |-> kind, of |-> path, whole |-> whole]
Absent   == Content("none", NoPath, TRUE)
Stale    == Content("old", NoPath, TRUE)
Forth(p) == Content("forth", p, TRUE)

Exts == {".p", ".s", ".o"}

\* Only what follows the last dot of the last component goes.
Output(source, ext) == [name |-> source.name, ext |-> ext]

Paths == Sources \cup {Output(p, x) : p \in Sources, x \in Exts}

Named(p) == \E i \in DOMAIN argv : argv[i] = [opt |-> "", arg |-> p]

\* Any of the sources that the command line names may be missing.
DriverInit ==
  /\ argv \in CommandLines
  /\ optind = 1
  /\ options = {} /\ definitions = {} /\ arguments = <<>>
  /\ phase = "getopt"
  /\ exit_status = SUCCESS
  /\ \E missing \in SUBSET {p \in Sources : Named(p)}, old \in {Absent, Stale} :
       fs = [p \in Paths |-> IF p \notin Sources THEN old
                             ELSE IF p \in missing THEN Absent ELSE Forth(p)]
  /\ program = NoPath
  /\ outcome = <<>>
  /\ printed = <<>>

-----------------------------------------------------------------------------
\* The constructor of CommandLine.

exit(status) ==
  /\ phase' = "exited"
  /\ exit_status' = status
  /\ UNCHANGED <<cmdline, fs, program, outcome, printed>>

\* --help is known only if it stands alone.
LongHelp == Len(argv) = 1 /\ argv[1].opt = "--help"

\* getopt finds options also behind arguments.
getopt(opts) ==
  /\ phase = "getopt" /\ ~LongHelp
  /\ optind <= Len(argv)
  /\ argv[optind].opt \in opts
  /\ optind' = optind + 1
  /\ UNCHANGED <<argv, phase, exit_status, fs, program, outcome, printed>>

help ==
  \/ phase = "getopt" /\ LongHelp /\ exit(SUCCESS)
  \/ /\ phase = "getopt" /\ ~LongHelp /\ optind <= Len(argv)
     /\ argv[optind].opt \in {"h", "v"}
     /\ exit(SUCCESS)

\* Unknown options, those without the argument they need, and -p and -f with
\* another than they know.
usage ==
  /\ phase = "getopt" /\ ~LongHelp /\ optind <= Len(argv)
  /\ LET o == argv[optind] IN
     \/ o.opt \in {"?", ":", "--help"}
     \/ o.opt = "p" /\ o.arg \notin {"", "g"}
     \/ o.opt = "f" /\ o.arg \notin {"PIC", "pic"}
  /\ exit(FAILURE)

Accepted(o) ==
  /\ o.opt = "p" => o.arg \in {"", "g"}
  /\ o.opt = "f" => o.arg \in {"PIC", "pic"}

\* -s is -S.
Flag ==
  /\ getopt({"g", "p", "f", "w", "O", "P", "s", "S", "M", "X", "#"})
  /\ Accepted(argv[optind])
  /\ options' = options \cup {IF argv[optind].opt = "s" THEN "S" ELSE argv[optind].opt}
  /\ UNCHANGED <<definitions, arguments>>

Define ==
  /\ getopt({"D"})
  /\ definitions' = definitions \cup {Lower[argv[optind].arg]}
  /\ UNCHANGED <<options, arguments>>

\* Slip: the name is not made lower case.
UndefineSlip ==
  /\ getopt({"U"})
  /\ definitions' = definitions \ {argv[optind].arg}
  /\ UNCHANGED <<options, arguments>>

Undefine ==
  /\ getopt({"U"})
  /\ definitions' = definitions \ {Lower[argv[optind].arg]}
  /\ UNCHANGED <<options, arguments>>

Argument ==
  /\ getopt({""})
  /\ arguments' = Append(arguments, argv[optind].arg)
  /\ UNCHANGED <<options, definitions>>

Modes == {"M", "X"}

\* -g has its way over -p.
Debugging(opts) == IF "g" \in opts THEN opts \ {"p"} ELSE opts

\* -M and -X give way to nearly every other option.
ModeAlone(opts, defs) ==
  IF opts \cap {"g", "p", "f", "O", "P", "S"} # {} \/ defs # {} THEN opts \ Modes ELSE opts

\* -X gives way to -M.
OneMode(opts) == IF Modes \subseteq opts THEN opts \ {"X"} ELSE opts

NoArguments ==
  /\ phase = "getopt" /\ optind > Len(argv)
  /\ arguments = <<>>
  /\ exit(FAILURE)

Checked ==
  /\ phase = "getopt" /\ optind > Len(argv)
  /\ arguments # <<>>
  /\ options' = OneMode(ModeAlone(Debugging(options), definitions))
  /\ phase' = IF options' \cap Modes # {} THEN "names" ELSE "build"
  /\ UNCHANGED <<argv, optind, definitions, arguments, exit_status, fs, program, outcome, printed>>

CommandLine == help \/ usage \/ Flag \/ Define \/ Undefine \/ Argument \/ NoArguments \/ Checked

-----------------------------------------------------------------------------
\* main and compile.

Source == arguments[Len(outcome) + 1]

Mangle ==
  /\ phase = "names"
  /\ Len(printed) < Len(arguments)
  /\ printed' = Append(printed, [mode |-> IF "M" \in options THEN "M" ELSE "X",
                                 name |-> arguments[Len(printed) + 1]])
  /\ UNCHANGED <<cmdline, phase, exit_status, fs, program, outcome>>

\* compile returns, and for_each goes on.
Returns(how) ==
  /\ outcome' = Append(outcome, how)
  /\ phase' = "build"

\* Slip: a source that is missing is passed over.
FailsSlip(how) ==
  /\ Returns(how)
  /\ exit_status' = IF how = "build" THEN exit_status ELSE FAILURE
  /\ UNCHANGED <<cmdline, printed>>

\* Slip: the process ends at the first failure.
FailsAtOnce(how) ==
  /\ outcome' = Append(outcome, how)
  /\ phase' = "returned"
  /\ exit_status' = FAILURE
  /\ UNCHANGED <<cmdline, printed>>

Fails(how) ==
  /\ Returns(how)
  /\ exit_status' = FAILURE
  /\ UNCHANGED <<cmdline, printed>>

Compiling == phase = "build" /\ Len(outcome) < Len(arguments)

\* A source that cannot be opened, or has errors.
BuildFails ==
  /\ Compiling
  /\ Fails("build")
  /\ UNCHANGED <<fs, program>>

build ==
  /\ Compiling
  /\ fs[Source] # Absent
  /\ program' = fs[Source].of
  /\ phase' = IF "P" \in options THEN "listing" ELSE "opening"
  /\ UNCHANGED <<cmdline, exit_status, fs, outcome, printed>>

\* What forthc writes is complete unless the disk is full, which it does not
\* look at.
Wrote(path, kind) ==
  \E whole \in BOOLEAN :
    fs' = [fs EXCEPT ![path] = Content(kind, program, whole)]

create_listing ==
  /\ phase = "listing"
  /\ Wrote(Output(Source, ".p"), "listing")
  /\ phase' = "opening"
  /\ UNCHANGED <<cmdline, exit_status, outcome, program, printed>>

\* Slip: the extension is not put on.
generateSlip ==
  /\ phase = "opening"
  /\ Wrote(Source, "assembly")
  /\ phase' = "as"
  /\ UNCHANGED <<cmdline, exit_status, outcome, program, printed>>

generate ==
  /\ phase = "opening"
  /\ Wrote(Output(Source, ".s"), "assembly")
  /\ phase' = "as"
  /\ UNCHANGED <<cmdline, exit_status, outcome, program, printed>>

\* Slip: whether the assembly could be opened is not looked at.
OpenFailsSlip ==
  /\ phase = "opening"
  /\ phase' = "as"
  /\ UNCHANGED <<cmdline, exit_status, fs, program, outcome, printed>>

\* The listing or the assembly cannot be opened.
OpenFails ==
  /\ phase \in {"listing", "opening"}
  /\ Fails(phase)
  /\ UNCHANGED <<fs, program>>

\* as makes an object of all that is in the file.
as ==
  /\ phase = "as"
  /\ LET s == fs[Output(Source, ".s")] IN
     fs' = [fs EXCEPT ![Output(Source, ".o")] = Content("object", s.of, s.whole)]
  /\ phase' = "unlink"
  /\ UNCHANGED <<cmdline, exit_status, outcome, program, printed>>

\* It may be missing, be interrupted, or find errors, and then removes the
\* object if it was that far.
AsFails ==
  /\ phase = "as"
  /\ LET o == Output(Source, ".o") IN
     \E left \in {Absent, fs[o]} : fs' = [fs EXCEPT ![o] = left]
  /\ Fails("as")
  /\ UNCHANGED program

unlink ==
  /\ phase = "unlink"
  /\ fs' = IF "S" \in options THEN fs ELSE [fs EXCEPT ![Output(Source, ".s")] = Absent]
  /\ Returns("ok")
  /\ UNCHANGED <<cmdline, exit_status, program, printed>>

compile == BuildFails \/ build \/ create_listing \/ generate \/ OpenFails \/ as \/ AsFails \/ unlink

\* An exception that main catches, for want of memory.
InternalError ==
  /\ phase \in {"build", "listing", "opening"}
  /\ phase' = "internal"
  /\ exit_status' = FAILURE
  /\ UNCHANGED <<cmdline, fs, program, outcome, printed>>

\* An assertion that fails while a source is parsed.
Aborted ==
  /\ Compiling
  /\ phase' = "aborted"
  /\ UNCHANGED <<cmdline, exit_status, fs, program, outcome, printed>>

Return ==
  /\ \/ phase = "build" /\ Len(outcome) = Len(arguments)
     \/ phase = "names" /\ Len(printed) = Len(arguments)
  /\ phase' = "returned"
  /\ UNCHANGED <<cmdline, exit_status, fs, program, outcome, printed>>

main == Mangle \/ compile \/ InternalError \/ Aborted \/ Return

DriverNext == CommandLine \/ main

DriverSpec == DriverInit /\ [][DriverNext]_vars

(***************************************************************************)
(* The process runs on, and as ends.                                       *)
(***************************************************************************)
FairDriver == DriverSpec /\ WF_vars(DriverNext)

Ended == {"exited", "returned", "internal", "aborted"}

-----------------------------------------------------------------------------
\* Types.
TypeOK ==
  /\ argv \in CommandLines /\ optind \in 1..(Len(argv) + 1)
  /\ options \subseteq {"g", "p", "f", "w", "O", "P", "S", "M", "X", "#"}
  /\ definitions \subseteq {Lower[x] : x \in DOMAIN Lower}
  /\ arguments \in Seq(Sources)
  /\ phase \in {"getopt", "names", "build", "listing", "opening", "as", "unlink"} \cup Ended
  /\ exit_status \in {SUCCESS, FAILURE}
  /\ \A p \in Paths : fs[p].kind = "object" => p.ext = ".o"
  /\ Len(outcome) <= Len(arguments) /\ Len(printed) <= Len(arguments)
  /\ (outcome # <<>> \/ printed # <<>>) => options \cap {"M", "X"} # {} \/ printed = <<>>

\* No other source shares its outputs with the one at k.
Alone(k) == \A j \in DOMAIN arguments \ {k} : arguments[j].name # arguments[k].name

\* The object of the source at k is there.
HasObject(k) ==
  LET o == fs[Output(arguments[k], ".o")] IN o.kind = "object" /\ o.of = arguments[k]

\* forthc.1:47: forthc "compiles VNPForth source files into object files".  A
\* process that returned success left behind an object of every source, as
\* far as the names of the sources differ in more than their extensions.
Succeeded   == phase = "returned" /\ exit_status = SUCCESS /\ options \cap Modes = {}
ObjectsMade == Succeeded => \A k \in DOMAIN arguments : Alone(k) => HasObject(k)

\* The same of all sources, and of all that an object should hold; neither is
\* so.
AllObjectsMade == Succeeded => \A k \in DOMAIN arguments : HasObject(k)
WholeObjectsMade ==
  Succeeded => \A k \in DOMAIN arguments : fs[Output(arguments[k], ".o")].whole

\* What main returns tells if every source was compiled, and it returns only
\* when each had its turn.
StatusTells ==
  phase = "returned" /\ options \cap Modes = {} =>
    /\ Len(outcome) = Len(arguments)
    /\ (exit_status = SUCCESS) <=> (\A k \in DOMAIN outcome : outcome[k] = "ok")

\* forthc never writes over a source, nor removes it, unless its extension is
\* one that forthc itself gives.
SourcesKept ==
  [][\A p \in Sources : fs'[p] # fs[p] =>
       /\ p.ext \in Exts
       /\ p.ext = ".p" => "P" \in options]_vars

\* forthc.1:118: "-D and -U options are handled in the order in which they are
\* given": a name is defined if the last that is said of it, in any case of
\* its letters, is -D.
DefinitionsInOrder ==
  phase \in {"build", "names", "returned"} =>
    \A x \in {Lower[y] : y \in DOMAIN Lower} :
      LET says(opt) == {j \in DOMAIN argv : argv[j].opt = opt /\ Lower[argv[j].arg] = x}
      IN  x \in definitions <=> \E j \in says("D") : \A i \in says("U") : i < j

\* cmdline.cc:147: "-M cannot be used with other flags".
NamesAlone == phase = "names" => options \subseteq Modes

\* The process ends, and has compiled or printed everything if it returns.
ProcessEnds == <>(phase \in Ended /\ (phase = "returned" => Len(outcome) + Len(printed) = Len(arguments)))
=============================================================================
