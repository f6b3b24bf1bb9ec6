------------------------------- MODULE Tables -------------------------------
(***************************************************************************)
(* The symbol table and the table of strings of one source file after the  *)
(* other (compiler/symbol.cc, symtable.cc, data.cc, dattable.cc), and what *)
(* the code generator writes for them.  Objects take their numbers from    *)
(* counters that all files share, which start anew when no object is left. *)
(*                                                                         *)
(* A symbol is its mangled name: <<"named", w>>, or <<"v4", n>> for v4_n,  *)
(* the names of words without one.                                         *)
(***************************************************************************)
EXTENDS Integers, FiniteSets, Sequences, SequencesExt

CONSTANTS
  Named,        \* the symbols of names that a source file may define or use
  Texts,        \* the strings, sequences of characters
  Unprintable,  \* the characters that are written as an octal number
  HexDigits,    \* the code of each character, as two digits or a space and one
  CountChar,    \* the character whose code is a number
  Sizes,        \* the sizes of arrays, in cells
  IntBits,      \* the width of an int
  MaxSymbols, MaxData   \* bounds on the objects of a file

CELL_SIZE == 4

Types == {"string", "cstring"}

Kinds == {"variable", "constant", "callable"}

VARIABLES
  symbols,        \* SymbolTable: an id, a kind and a size for each name
  symbolCount,    \* Symbol::count and instances
  symbolInstances,
  segments,       \* DataTable: the ids of the data with a signature
  dataCount,      \* Data::count and instances
  dataInstances,
  loaded,         \* the data that code loads, with its id
  output,         \* what has been generated
  phase

symbolVars == <<symbols, symbolCount, symbolInstances>>
dataVars == <<segments, dataCount, dataInstances, loaded>>
vars == <<symbolVars, dataVars, output, phase>>

NoTable == [x \in {} |-> {}]

TablesInit ==
  /\ symbols = NoTable /\ symbolCount = 0 /\ symbolInstances = 0
  /\ segments = NoTable /\ dataCount = 0 /\ dataInstances = 0
  /\ loaded = {} /\ output = << >> /\ phase = "parsing"

-----------------------------------------------------------------------------
(***************************************************************************)
(* Objects are made while a file is parsed.                                *)
(***************************************************************************)

\* SymbolTable::add asserts that the name is not there.
Add(n, kind, size) ==
  /\ symbolCount' = symbolCount + 1
  /\ symbolInstances' = symbolInstances + 1
  /\ IF n \in DOMAIN symbols
       THEN phase' = "aborted" /\ UNCHANGED symbols
       ELSE /\ symbols' = (n :> [id |-> symbolCount, kind |-> kind, size |-> size]) @@ symbols
            /\ UNCHANGED phase
  /\ UNCHANGED <<dataVars, output>>

\* The parser looks a name up before it makes a symbol of it.
NewSymbol ==
  /\ phase = "parsing" /\ symbolCount < MaxSymbols
  /\ \E n \in Named, kind \in Kinds, size \in Sizes :
       /\ n \notin DOMAIN symbols
       /\ kind # "variable" => size = 1
       /\ Add(n, kind, size)

AnonName == <<"v4", symbolCount>>

\* A word without a name is called after its number, without looking.
NewAnonword ==
  /\ phase = "parsing" /\ symbolCount < MaxSymbols
  /\ Add(AnonName, "callable", 1)

\* The type and the codes of the characters, with nothing in between.
TypeName(type) == IF type = "cstring" THEN <<"c", "string">> ELSE <<"string">>

\* Slip: a code of one digit is not filled up to two places.
NotASpace(digit) == digit # " "
SignatureSlip(type, text) ==
  TypeName(type)
    \o FlattenSeq([i \in DOMAIN text |-> SelectSeq(HexDigits[text[i]], NotASpace)])

Signature(type, text) ==
  TypeName(type) \o FlattenSeq([i \in DOMAIN text |-> HexDigits[text[i]]])

\* Equal data get numbers of their own; the first is the one written.
NewData ==
  /\ phase = "parsing" /\ dataCount < MaxData
  /\ \E type \in Types, text \in Texts :
       LET s == Signature(type, text)
           others == IF s \in DOMAIN segments THEN segments[s].ids ELSE << >> IN
       /\ segments' = (s :> [type |-> IF others = << >> THEN type ELSE segments[s].type, text |-> text,
                             ids |-> Append(others, dataCount)]) @@ segments
       /\ loaded' = loaded \cup {[id |-> dataCount, type |-> type, text |-> text]}
  /\ dataCount' = dataCount + 1
  /\ dataInstances' = dataInstances + 1
  /\ UNCHANGED <<symbolVars, output, phase>>

-----------------------------------------------------------------------------
(***************************************************************************)
(* The assembly of a file.  A line is a label, a string or an area.        *)
(***************************************************************************)

Line(op, id, text) == [op |-> op, id |-> id, text |-> text]

Char(c) == <<"char", c>>

Octal(c) == <<"octal", c>>

data_to_string(chunk) ==
  FlattenSeq([i \in DOMAIN chunk |->
    IF chunk[i] \in Unprintable THEN <<Char("\\"), Octal(chunk[i])>> ELSE <<Char(chunk[i])>>])

Counted(text) == <<CountChar[Len(text)]>> \o text

\* A counted string has its size in front.
StringLine(segment) ==
  Line(".string", 0, IF segment.type = "cstring"
                       THEN data_to_string(<<CountChar[Len(segment.text)]>>) \o data_to_string(segment.text)
                       ELSE data_to_string(segment.text))

\* All numbers of a segment label its one string.
SegmentLines(segment) ==
  [i \in DOMAIN segment.ids |-> Line("label", segment.ids[i], << >>)] \o <<StringLine(segment)>>

\* The bytes of an area are an int.
Wrapped(n) == LET m == n % (2 ^ IntBits) IN IF m >= 2 ^ (IntBits - 1) THEN m - 2 ^ IntBits ELSE m

Areas ==
  SetToSeq({Line(".comm", Wrapped(symbols[n].size * CELL_SIZE), n) :
              n \in {m \in DOMAIN symbols : symbols[m].kind \in {"variable", "constant"}}})

Generate ==
  /\ phase = "parsing"
  /\ output' = FlattenSeq(SetToSeq({SegmentLines(segments[s]) : s \in DOMAIN segments})) \o Areas
  /\ phase' = "generated"
  /\ UNCHANGED <<symbolVars, dataVars>>

\* When a program is done with, or has errors, its tables are cleared: each
\* object that goes counts down, and the last one resets the counter.
Reset(count, left) == IF left = 0 THEN 0 ELSE count

Clear ==
  /\ phase \in {"parsing", "generated"}
  /\ symbols' = NoTable
  /\ symbolInstances' = symbolInstances - Cardinality(DOMAIN symbols)
  /\ symbolCount' = Reset(symbolCount, symbolInstances')
  /\ segments' = NoTable
  /\ dataInstances' = dataInstances - Cardinality(UNION {Range(segments[s].ids) : s \in DOMAIN segments})
  /\ dataCount' = Reset(dataCount, dataInstances')
  /\ loaded' = {} /\ output' = << >> /\ phase' = "parsing"

TablesNext == NewSymbol \/ NewAnonword \/ NewData \/ Generate \/ Clear

TablesSpec == TablesInit /\ [][TablesNext]_vars

-----------------------------------------------------------------------------
(***************************************************************************)
(* What the assembler makes of it: \ and an octal number are a character,  *)
(* \n is a new line, \ and another character is that character, and " ends *)
(* the string.                                                             *)
(***************************************************************************)

Escaped(t) == IF t = Char("n") THEN "LF" ELSE t[2]

Assembled(text) ==
  LET bytes[i \in 1..Len(text) + 1] ==
        CASE i > Len(text) -> <<"NUL">>
          [] i <= Len(text) /\ text[i] = Char("\"") -> <<"error">>
          [] i <= Len(text) /\ text[i] = Char("\\") ->
               IF i = Len(text) THEN <<"error">> ELSE <<Escaped(text[i + 1])>> \o bytes[i + 2]
          [] OTHER -> <<text[i][2]>> \o bytes[i + 1]
  IN bytes[1]

Labels(id) == {i \in DOMAIN output : output[i].op = "label" /\ output[i].id = id}

\* The first string after a place, of which each label has one, and its bytes.
StringFrom(i) ==
  LET strings == {j \in i..Len(output) : output[j].op = ".string"}
  IN output[CHOOSE j \in strings : \A k \in strings : j <= k]

BytesFrom(i) == Assembled(StringFrom(i).text)

\* The variables have their types (symtable.h, dattable.h).
TypeOK ==
  /\ \A n \in DOMAIN symbols : symbols[n] \in [id : Nat, kind : Kinds, size : Sizes \cup {1}]
  /\ \A s \in DOMAIN segments : segments[s].type \in Types /\ segments[s].ids \in Seq(Nat) \ {<< >>}
  /\ {symbolCount, symbolInstances, dataCount, dataInstances} \subseteq Nat
  /\ phase \in {"parsing", "generated", "aborted"}

\* The numbers of a file's objects, which its local labels are made of, depend
\* on that file alone, whatever was compiled before it (symbol.cc, data.cc:
\* the counters): they are those from 0 on, each once.
NumbersStartAnew ==
  phase # "aborted" =>
    /\ {symbols[n].id : n \in DOMAIN symbols} = 0..symbolCount - 1
    /\ Cardinality(DOMAIN symbols) = symbolCount
    /\ {d.id : d \in loaded} = 0..dataCount - 1

\* The bytes that code expects of a string.
Bytes(d) == IF d.type = "cstring" THEN Counted(d.text) ELSE d.text

\* A quote or a backslash among them, the count included, is written as it is.
Special == {"\"", "\\"}
WrittenPlain(d) == Range(Bytes(d)) \cap Special = {}

\* Code that loads a string finds at its label what the source has there
\* (dattable.cc: add; codegen.cc: DataTable::generate, data_to_string); but of
\* a string with a backslash, or counted as 34 or 92 characters, it finds the
\* line that was meant, whose bytes the assembler makes something else of.
DataAtLabel ==
  phase = "generated" =>
    \A d \in loaded :
      /\ Cardinality(Labels(d.id)) = 1
      /\ \A i \in Labels(d.id) :
           /\ WrittenPlain(d) => BytesFrom(i) = Bytes(d) \o <<"NUL">>
           /\ StringFrom(i) = StringLine([type |-> d.type, text |-> d.text])

\* Equal strings are stored once (dattable.cc: add, set_synonym_of).
StoredOnce ==
  phase = "generated" =>
    Cardinality({i \in DOMAIN output : output[i].op = ".string"})
      = Cardinality({<<d.type, d.text>> : d \in loaded})

\* The assertion of SymbolTable::add holds: "symbols_.find (symbol->get_name
\* ()) == symbols_.end ()" (symtable.cc).
AddAsserts == phase # "aborted"

\* An array has the size that was asked for (codegen.cc:
\* VariableSymbol::generate).
ArraysHaveTheirSize ==
  phase = "generated" =>
    \A n \in DOMAIN symbols :
      symbols[n].kind = "variable" =>
        \E i \in DOMAIN output : output[i] = Line(".comm", symbols[n].size * CELL_SIZE, n)
=============================================================================
