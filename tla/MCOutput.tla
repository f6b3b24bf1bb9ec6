------------------------------ MODULE MCOutput ------------------------------
(***************************************************************************)
(* What is written for a source file, for TLC: the symbols of its names,   *)
(* its tables of symbols and strings, and its code.  The three share no    *)
(* state, and each run of the specification is about one of them.          *)
(***************************************************************************)
EXTENDS Integers, FiniteSets, Sequences, TLC

VARIABLES
  part,                                                   \* "names", "tables" or "code"
  name, symbol, left, demangled, status,                  \* Mangler
  symbols, symbolCount, symbolInstances,                  \* Tables
  segments, dataCount, dataInstances, loaded,
  written, stage,
  options, program, next, current_definition,             \* Assembly
  current_line, output, phase

nameVars == <<name, symbol, left, demangled, status>>
tableVars == <<symbols, symbolCount, symbolInstances, segments, dataCount,
               dataInstances, loaded, written, stage>>
codeVars == <<options, program, next, current_definition, current_line, output, phase>>
vars == <<part, nameVars, tableVars, codeVars>>

Words(chars, n) == UNION {[1..k -> chars] : k \in 0..n}

-----------------------------------------------------------------------------
(***************************************************************************)
(* A small alphabet: letters, digits, three characters with a name and     *)
(* four with a code.  The codes that the two digits spell are 11, 12, 21   *)
(* and 22: two control characters, ! and ".                                *)
(***************************************************************************)
MCEntity == ("|" :> <<"O", "r">>) @@ ("!" :> <<"S", "t", "o", "r", "e">>)
              @@ ("\"" :> <<"Q", "u", "o", "t", "e">>)

MCCode == ("DC1" :> <<"1", "1">>) @@ ("DC2" :> <<"1", "2">>) @@ ("!" :> <<"2", "1">>)
            @@ ("\"" :> <<"2", "2">>)

MCLower == ("O" :> "o") @@ ("A" :> "a") @@ ("S" :> "s") @@ ("Q" :> "q")

MCStart == <<"_", "s", "t", "a", "r", "t">>

\* Names of any characters, names in which an entity is spelt, and the names
\* of symbols of C, also of those that look as if Forth had made them.
MCNames ==
  Words({"x", "z", "1", "2", "_", "|", "DC2"}, 5)
    \cup Words({"O", "r", "_", "|", "!"}, 4)
    \cup {<<"_", "_">> \o w : w \in Words({"O", "r", "1", "|", "_"}, 3)}
    \cup {<<"_", "_", "v", "4", "_">> \o w : w \in Words({"O", "r", "1", "|"}, 2)}
    \cup {MCStart, <<"_", "_">> \o MCStart, <<"m", "a", "i", "n">>}

Mangling ==
  INSTANCE Mangler WITH Names <- MCNames, Entity <- MCEntity, Code <- MCCode,
    Lower <- MCLower, Digits <- {"1", "2"}, HighWater <- 9

ASSUME NamesAssumption == Mangling!CodeAssumption /\ Mangling!EntityAssumption

-----------------------------------------------------------------------------
(***************************************************************************)
(* Short strings, of characters whose codes 6, 19, 61 and 9 spell the same *)
(* digits when they are not filled up, and with a backslash.  Counts of 2  *)
(* and 3 stand for 34 and 92, so that short strings meet the special ones. *)
(***************************************************************************)
MCCountChar == <<"SOH", "\"", "\\">> @@ (0 :> "NUL")

MCHexDigits == ("ACK" :> <<" ", "6">>) @@ ("EM" :> <<"1", "9">>) @@ ("a" :> <<"6", "1">>)
                 @@ ("TAB" :> <<" ", "9">>) @@ ("\\" :> <<"5", "c">>)

MCTexts == Words({"a", "TAB"}, 2)
             \cup {<<"ACK", "EM">>, <<"\\">>, <<"a", "\\">>, <<"a", "a", "TAB">>}

Tabling ==
  INSTANCE Tables WITH
    Named <- {<<"named", "a">>, <<"named", "b">>}, Texts <- MCTexts,
    Unprintable <- {"NUL", "SOH", "ACK", "TAB", "EM"}, HexDigits <- MCHexDigits,
    CountChar <- MCCountChar, Sizes <- {1, 3},
    IntBits <- 8, MaxSymbols <- 2, MaxData <- 3, output <- written, phase <- stage

-----------------------------------------------------------------------------
(***************************************************************************)
(* Programs of two definitions, with up to three opcodes each, on one or   *)
(* more lines.                                                             *)
(***************************************************************************)

\* The opcodes of a body, each some lines after the one before.
Spread(ops, steps, n) == Words(ops \X steps, n)

Opc(op, line, n) == [op |-> op, line |-> line, n |-> n]

\* The line after the first k opcodes of a body that begins on a line.
After(body, k, line) ==
  line + Cardinality({i \in 1..k : body[i][2] = 1}) - Cardinality({i \in 1..k : body[i][2] = -1})

\* All jumps of a word go to a label at its end, which has the number of the
\* word, and other labels have numbers of their own.
Colon(id, body, line) ==
  LET end == After(body, Len(body), line)
      jumps == \E i \in DOMAIN body : body[i][1] = "jump"
  IN <<Opc("define", line, id)>>
       \o [i \in DOMAIN body |->
             Opc(body[i][1], After(body, i, line),
                 IF body[i][1] = "label" THEN 10 * (id + 1) + i ELSE id)]
       \o (IF jumps THEN <<Opc("label", end, id)>> ELSE << >>)
       \o <<Opc("enddefine", end, id)>>

MCOps == {"load", "label", "jump", "noop"}

\* A word or CODE word, and then the main program, which may have code on the
\* lines between and before; and code inlined from earlier lines.
MCPrograms ==
  {Colon(1, b, 2) \o Colon(0, m, l) :
      b \in Spread(MCOps, {0, 1}, 1), m \in Spread(MCOps, {0, 1}, 2), l \in {1, 3}}
    \cup {Colon(2, b, 2) \o Colon(0, m, 4) :
            b \in Spread({"assembly"}, {0, 1}, 2), m \in Spread(MCOps, {0, 1}, 2)}
    \cup {Colon(0, m, 4) : m \in Spread({"load", "noop"}, {-1, 0, 1}, 3)}

Coding ==
  INSTANCE Assembly WITH Programs <- MCPrograms, Codewords <- {2}, main <- 0

-----------------------------------------------------------------------------
\* The parts that a behaviour is not about stand still.
NoNames == name = 0 /\ symbol = 0 /\ left = 0 /\ demangled = 0 /\ status = 0

NoTables ==
  /\ symbols = 0 /\ symbolCount = 0 /\ symbolInstances = 0
  /\ segments = 0 /\ dataCount = 0 /\ dataInstances = 0 /\ loaded = 0
  /\ written = 0 /\ stage = 0

NoCode ==
  /\ options = 0 /\ program = 0 /\ next = 0 /\ current_definition = 0
  /\ current_line = 0 /\ output = 0 /\ phase = 0

MCInit ==
  \/ part = "names" /\ Mangling!ManglerInit /\ NoTables /\ NoCode
  \/ part = "tables" /\ Tabling!TablesInit /\ NoNames /\ NoCode
  \/ part = "code" /\ Coding!AssemblyInit /\ NoNames /\ NoTables

Naming == part = "names" /\ Mangling!ManglerNext /\ UNCHANGED <<part, tableVars, codeVars>>

Filling == part = "tables" /\ Tabling!TablesNext /\ UNCHANGED <<part, nameVars, codeVars>>

Generating == part = "code" /\ Coding!AssemblyNext /\ UNCHANGED <<part, nameVars, tableVars>>

MCSpec == MCInit /\ [][Naming \/ Filling \/ Generating]_vars

-----------------------------------------------------------------------------
\* -X gives back the name that -M was given, what it gives serves as the name,
\* and symbols are valid (mangler.cc: mangle, demangle): see Mangler.
NamesComeBack ==
  part = "names" =>
    Mangling!NamesComeBack /\ Mangling!PrintedNamesServe /\ Mangling!SymbolsAreValid

\* Code that loads a string finds it at its label, equal strings are stored
\* once, and the numbers of labels start anew with each file (dattable.cc,
\* data.cc, symbol.cc): see Tables.
DataAtLabel ==
  part = "tables" => Tabling!DataAtLabel /\ Tabling!StoredOnce /\ Tabling!NumbersStartAnew

\* The labels of the assembly resolve, and it keeps the registers of the
\* caller (codegen.cc: generate of the opcodes): see Assembly.
LabelsResolve == part = "code" => Coding!LabelsResolve /\ Coding!RegistersKept

\* The table of lines has code at its own line, and its assert holds
\* (codegen.cc: OpcodeTable::generate): see Assembly.
LinesFound == part = "code" => Coding!LinesFound /\ Coding!NoAssertFails
=============================================================================
