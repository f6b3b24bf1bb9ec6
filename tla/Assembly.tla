------------------------------ MODULE Assembly ------------------------------
(***************************************************************************)
(* The assembly that is generated for the code of a source file            *)
(* (compiler/codegen.cc), with the options for debugging, profiling and    *)
(* position independent code: its labels, its line numbers, and what it    *)
(* does to the registers that belong to the caller.                        *)
(***************************************************************************)
EXTENDS Integers, FiniteSets, Sequences, SequencesExt

CONSTANTS
  Programs,   \* sequences of opcodes [op, line, n]
  Codewords,  \* the ids of the symbols that are CODE words
  main        \* the id of the symbol main

VARIABLES
  options,
  program,
  next,                      \* the opcode to generate
  current_definition,
  current_line,
  output,
  phase

vars == <<options, program, next, current_definition, current_line, output, phase>>

None == -1

\* The number of the opcode in the table: current_opcode_sequence.
Sequence == next - 1

-----------------------------------------------------------------------------
(***************************************************************************)
(* Lines of assembly: a label, a use of one, an entry of the line table    *)
(* for the code at a label, or an instruction.                             *)
(***************************************************************************)

Item(op, name, n, line) == [op |-> op, name |-> name, n |-> n, line |-> line]

Def(name, n)         == Item("label", name, n, 0)
Use(name, n)         == Item("use", name, n, 0)
Entry(name, n, line) == <<Item("entry", name, n, line), Def(name, n)>>
Push(reg)            == Item("push", reg, 0, 0)
Pop(reg)             == Item("pop", reg, 0, 0)
SetGot               == Item("set", "ebx", 0, 0)
NeedsGot             == Item("needs", "ebx", 0, 0)
Instructions(i)      == Item("instructions", "", i, 0)
Clobbers             == Item("clobber", "", 0, 0)
Leave                == Item("leave", "", 0, 0)

If(option, items) == IF options[option] THEN items ELSE << >>

generate_preamble == If("debug", <<Use("Ltext0", 0), Use("Ltext0", 0), Def("Ltext0", 0)>>)

generate_postamble == If("debug", <<Use("Letext", 0), Def("Letext", 0)>>)

\* CODE words keep all registers of the caller, others only the one they use.
Kept(id) == IF id \in Codewords THEN <<"ebx", "edi", "esi">> ELSE <<"ebx">>

Restored(id) == [i \in DOMAIN Kept(id) |-> Kept(id)[Len(Kept(id)) + 1 - i]]

\* The address of the table of globals, relative to a label of its own.
GlobalOffset(id) ==
  <<Use("Lpic", id), Push("eip"), Def("Lpic", id), Pop("ebx"), Use("Lpic", id), SetGot>>

Arguments == If("pic", <<NeedsGot>>)

Profile(id) ==
  <<Def("LP", id), Push("edx"), Use("LP", id)>> \o If("pic", <<NeedsGot>>) \o <<Pop("edx")>>

DefineOpcode(o, seq) ==
  <<Item("symbol", "", o.n, 0)>>
    \o If("debug", Entry("LMa", seq, o.line))
    \o <<Push("ebp")>> \o [i \in DOMAIN Kept(o.n) |-> Push(Kept(o.n)[i])]
    \o If("pic", GlobalOffset(o.n))
    \o (IF o.n = main THEN Arguments ELSE << >>)
    \o If("profile", Profile(o.n))
    \o If("debug", Entry("LMb", seq, o.line) \o <<Def("LBB", o.n)>>)

EndDefineUnnumbered(o, seq) ==
  If("debug", <<Def("LBE", o.n)>> \o Entry("LM", o.n, o.line))
    \o [i \in DOMAIN Restored(o.n) |-> Pop(Restored(o.n)[i])]
    \o <<Leave, Def("Lfe", o.n), Use("Lfe", o.n)>>
    \o If("debug", <<Use("LBB", o.n), Use("LBE", o.n), Def("Lscope", o.n), Use("Lscope", o.n)>>)

EndDefineOpcode(o, seq) ==
  If("debug", <<Def("LBE", o.n)>> \o Entry("LM", seq, o.line))
    \o [i \in DOMAIN Restored(o.n) |-> Pop(Restored(o.n)[i])]
    \o <<Leave, Def("Lfe", o.n), Use("Lfe", o.n)>>
    \o If("debug", <<Use("LBB", o.n), Use("LBE", o.n), Def("Lscope", o.n), Use("Lscope", o.n)>>)

\* What an opcode is generated as.  Code that loads a symbol, loads a string or
\* calls needs the table of globals if it is to be position independent.
generate(o, seq) ==
  CASE o.op = "define"    -> DefineOpcode(o, seq)
    [] o.op = "enddefine" -> EndDefineOpcode(o, seq)
    [] o.op = "label"     -> <<Def("L", o.n)>>
    [] o.op = "jump"      -> <<Instructions(seq), Use("L", o.n)>>
    [] o.op = "assembly"  -> <<Clobbers>>
    [] o.op = "load"      -> If("pic", <<NeedsGot>>) \o <<Instructions(seq)>>
    [] o.op = "noop"      -> << >>

requires_debug(o) == o.op \notin {"label", "noop", "define", "enddefine", "assembly"}

-----------------------------------------------------------------------------
AssemblyInit ==
  /\ options \in [{"debug", "profile", "pic"} -> BOOLEAN]
  /\ ~(options["debug"] /\ options["profile"])
  /\ program \in Programs
  /\ next = 1 /\ current_definition = None /\ current_line = None
  /\ output = << >> /\ phase = "start"

GeneratePreamble ==
  /\ phase = "start"
  /\ output' = generate_preamble
  /\ phase' = "code"
  /\ UNCHANGED <<options, program, next, current_definition, current_line>>

\* An entry is due when the line is another one than that of the last opcode.
EntryDueSlip(o) == options["debug"] /\ requires_debug(o) /\ current_line < o.line

EntryDue(o) == options["debug"] /\ requires_debug(o) /\ current_line # o.line

\* The definition that an opcode begins or ends.
Definition(o) ==
  CASE o.op = "define"    -> o.n
    [] o.op = "enddefine" -> None
    [] OTHER              -> current_definition

\* assert (current_definition) where an entry is due.
GenerateOpcode ==
  LET o == program[next] IN
  /\ phase = "code" /\ next <= Len(program)
  /\ phase' = IF EntryDue(o) /\ current_definition = None THEN "aborted" ELSE phase
  /\ output' = output \o (IF EntryDue(o) THEN Entry("LM", Sequence, o.line) ELSE << >>)
                      \o generate(o, Sequence)
  /\ current_definition' = Definition(o)
  /\ current_line' = o.line
  /\ next' = next + 1
  /\ UNCHANGED <<options, program>>

GeneratePostamble ==
  /\ phase = "code" /\ next > Len(program)
  /\ output' = output \o generate_postamble
  /\ phase' = "done"
  /\ UNCHANGED <<options, program, next, current_definition, current_line>>

AssemblyNext == GeneratePreamble \/ GenerateOpcode \/ GeneratePostamble

AssemblySpec == AssemblyInit /\ [][AssemblyNext]_vars

-----------------------------------------------------------------------------
(***************************************************************************)
(* What a processor does with it.  A state has the registers and the       *)
(* stack, whose top is at the end.                                         *)
(***************************************************************************)

Entered == [regs |-> [r \in {"ebp", "ebx", "edi", "esi", "edx"} |-> r], stack |-> << >>, ok |-> TRUE]

Executed(m, item) ==
  CASE item.op = "push" ->
         [m EXCEPT !.stack = Append(@, IF item.name = "eip" THEN "eip" ELSE m.regs[item.name])]
    [] item.op = "pop" ->
         [m EXCEPT !.regs[item.name] = Last(m.stack), !.stack = Front(m.stack)]
    [] item.op = "set"     -> [m EXCEPT !.regs["ebx"] = "GOT"]
    [] item.op = "needs"   -> [m EXCEPT !.ok = @ /\ m.regs["ebx"] = "GOT"]
    [] item.op = "clobber" -> [m EXCEPT !.regs = [r \in DOMAIN @ |-> IF r = "ebp" THEN @[r] ELSE "?"]]
    [] item.op = "symbol"  -> Entered
    [] item.op = "leave"   ->
         [m EXCEPT !.ok = @ /\ m.stack = <<"ebp">> /\ \A r \in {"ebx", "edi", "esi"} : m.regs[r] = r]
    [] OTHER -> m

ExecutedAll ==
  LET m[i \in 0..Len(output)] == IF i = 0 THEN Entered ELSE Executed(m[i - 1], output[i])
  IN \A i \in DOMAIN output : m[i].ok

Places(name, n) == {i \in DOMAIN output : output[i] = Def(name, n)}

\* The line that the table has for the code at a place.
EntriesBefore(i) == {j \in 1..i : output[j].op = "entry"}

LineAt(i) == output[CHOOSE j \in EntriesBefore(i) : \A k \in EntriesBefore(i) : k <= j].line

Generated(i) == CHOOSE k \in DOMAIN output : output[k] = Instructions(i - 1)

\* An opcode without an entry of its own, before another one of the same line.
HiddenBy(i) ==
  \E j \in 1..i - 1 :
    /\ program[j].op \in {"label", "noop", "assembly"}
    /\ \A k \in j..i : program[k].line = program[i].line

\* The variables have their types (codegen.cc: OpcodeTable::generate).
TypeOK ==
  /\ next \in 1..Len(program) + 1
  /\ phase \in {"start", "code", "done", "aborted"}
  /\ current_definition \in {None} \cup {program[i].n : i \in DOMAIN program}
  /\ \A i \in DOMAIN output : output[i].n \in Nat

\* Every local label that is used is there, once, and no label is there twice:
\* the assembler accepts the file (codegen.cc: all of generate).
LabelsResolve ==
  phase = "done" =>
    \A i \in DOMAIN output :
      /\ output[i].op \in {"use", "entry"} => Places(output[i].name, output[i].n) # {}
      /\ output[i].op = "label" => Places(output[i].name, output[i].n) = {i}

\* The registers that belong to the caller have their values again when a word
\* returns, and the table of globals is at hand wherever code needs it
\* (codegen.cc: DefineOpcode::generate, EndDefineOpcode::generate).
RegistersKept == phase = "done" => ExecutedAll

\* No code needs an entry where there is no definition it could be relative to:
\* "assert (current_definition)" (codegen.cc).
NoAssertFails == phase # "aborted"

\* With -g, code is found at its own line, unless a label, a no-op or assembly
\* comes before it on that line (codegen.cc: OpcodeTable::generate).
LinesFound ==
  (phase = "done" /\ options["debug"]) =>
    \A i \in DOMAIN program :
      (program[i].op \in {"load", "jump"} /\ ~HiddenBy(i)) => LineAt(Generated(i)) = program[i].line

\* The same of all code: "The compiler adds source-line based debugging
\* information" (forthc.1, -g).
AllLinesFound ==
  (phase = "done" /\ options["debug"]) =>
    \A i \in DOMAIN program :
      program[i].op \in {"load", "jump"} => LineAt(Generated(i)) = program[i].line
=============================================================================
