------------------------------ MODULE MCLibrary -----------------------------
(***************************************************************************)
(* Words of the runtime library, for TLC: those that compute with numbers  *)
(* and with strings, those that rearrange the stacks, the conversions of   *)
(* numbers and texts, and input and output.  They share no state, and each *)
(* run of the specification is about one of them.                          *)
(***************************************************************************)
EXTENDS Integers, Sequences, TLC

VARIABLES
  part,                                             \* what the run is about
  word, args, left, ends, before, memory,           \* Words
  stacks, called, was,                              \* StackWords
  mode, base, given, ud, text, at, float, printed,  \* Conversion
  input, output, running, buffer, size, errno,      \* Streams
  status, whole, answer, accepted, typed, short

wordVars == <<word, args, left, ends, before, memory>>
stackVars == <<stacks, called, was>>
textVars == <<mode, base, given, ud, text, at, float, printed>>
streamVars == <<input, output, running, buffer, size, errno,
                status, whole, answer, accepted, typed, short>>
vars == <<part, wordVars, stackVars, textVars, streamVars>>

Strings(chars, n) == UNION {[1 .. k -> chars] : k \in 0 .. n}

-----------------------------------------------------------------------------
\* All cells of four bits; strings of a blank and a letter in
\* both cases.
Counting ==
  INSTANCE Words WITH CellBits <- 4, Size <- 1, Characters <- {32}

Spelling ==
  INSTANCE Words WITH CellBits <- 2, Size <- 4, Characters <- {32, 65, 97}

\* The values are also the counts of PICK and ROLL.
Stacking ==
  INSTANCE StackWords WITH
    DataCells <- 7, ReturnCells <- 4, Values <- {0, 2}, Below <- 0, word <- called

\* The first and last of the digits and letters, and what is beside them.
MCNumbers ==
  Strings({47, 48, 49, 57, 58, 64, 65, 90, 91, 96, 97, 122, 123}, 2)
    \cup Strings({49, 57}, 3)

Printing ==
  INSTANCE Conversion WITH
    CellBits <- 8, Bases <- {2, 10, 16, 36}, NumberTexts <- MCNumbers,
    Doubles <- {<<0, 0>>, <<255, 0>>, <<7, 1>>, <<1, 9>>},
    FloatTexts <- {<<>>}, ExponentLimit <- 100

\* Signs, a point, an E of each case, digits and a blank.
MCFloats == Strings({43, 45, 46, 101, 50, 32}, 4) \cup Strings({45, 46, 69, 57}, 5)

Floating ==
  INSTANCE Conversion WITH
    CellBits <- 6, Bases <- {10}, NumberTexts <- {<<>>}, Doubles <- {<<0, 0>>},
    FloatTexts <- MCFloats, ExponentLimit <- 20

\* Lines shorter than a buffer, as long and longer, empty lines and a last
\* line without an end.
Reading ==
  INSTANCE Streams WITH
    Inputs <- Strings({97, 10}, 4), Newline <- 10, Lengths <- 0 .. 3,
    Texts <- {<<>>, <<98>>, <<99, 100>>}, Errors <- {1, 2, 125},
    ShortWrites <- TRUE, MaxCalls <- 3

ASSUME LibraryAssumption ==
  /\ Counting!CellAssumption /\ Counting!MemoryAssumption
  /\ Spelling!CellAssumption /\ Spelling!MemoryAssumption
  /\ Stacking!StackAssumption
  /\ Printing!ConversionAssumption /\ Floating!ConversionAssumption
  /\ Reading!StreamsAssumption

-----------------------------------------------------------------------------
\* The parts that a behaviour is not about stand still.
NoWords == word = 0 /\ args = 0 /\ left = 0 /\ ends = 0 /\ before = 0 /\ memory = 0

NoStacks == stacks = 0 /\ called = 0 /\ was = 0

NoTexts ==
  /\ mode = 0 /\ base = 0 /\ given = 0 /\ ud = 0 /\ text = 0 /\ at = 0
  /\ float = 0 /\ printed = 0

NoStreams ==
  /\ input = 0 /\ output = 0 /\ running = 0 /\ buffer = 0 /\ size = 0
  /\ errno = 0 /\ status = 0 /\ whole = 0 /\ answer = 0 /\ accepted = 0
  /\ typed = 0 /\ short = 0

MCInit ==
  \/ part = "numbers" /\ Counting!WordsInit /\ NoStacks /\ NoTexts /\ NoStreams
  \/ part = "strings" /\ Spelling!WordsInit /\ NoStacks /\ NoTexts /\ NoStreams
  \/ part = "stacks" /\ Stacking!StackInit /\ NoWords /\ NoTexts /\ NoStreams
  \/ part = "printing" /\ Printing!ConversionInit /\ NoWords /\ NoStacks /\ NoStreams
  \/ part = "floats" /\ Floating!ConversionInit /\ NoWords /\ NoStacks /\ NoStreams
  \/ part = "streams" /\ Reading!StreamsInit /\ NoWords /\ NoStacks /\ NoTexts

CallNumber ==
  /\ part = "numbers" /\ Counting!WordsNext
  /\ UNCHANGED <<part, stackVars, textVars, streamVars>>

CallString ==
  /\ part = "strings" /\ Spelling!WordsNext
  /\ UNCHANGED <<part, stackVars, textVars, streamVars>>

CallStack ==
  /\ part = "stacks" /\ Stacking!StackNext
  /\ UNCHANGED <<part, wordVars, textVars, streamVars>>

Convert ==
  /\ \/ part = "printing" /\ Printing!ConversionNext
     \/ part = "floats" /\ Floating!ConversionNext
  /\ UNCHANGED <<part, wordVars, stackVars, streamVars>>

Stream ==
  /\ part = "streams" /\ Reading!StreamsNext
  /\ UNCHANGED <<part, wordVars, stackVars, textVars>>

MCSpec ==
  MCInit /\ [][CallNumber \/ CallString \/ CallStack \/ Convert \/ Stream]_vars

-----------------------------------------------------------------------------
\* Comparisons but U>, U<= and U>=, double-cell arithmetic and divisions but
\* FM/MOD at the least cell are those of the numbers; copies, comparisons and
\* searches those of the strings, but for MOVE to overlapping strings
\* (compare.ft, maths.ft, memory.ft, strings.ft): see Words, which says what
\* these words do instead.
WordsExact ==
  /\ part = "numbers" =>
       Counting!ComparisonsTell /\ Counting!DoublesExact /\ Counting!DivisionsExact
  /\ part = "strings" =>
       /\ Spelling!CopiesExact /\ Spelling!ComparesInOrder
       /\ Spelling!SearchFindsFirst /\ Spelling!TrailingTaken

\* Words that rearrange the stacks do what their comments say, throw when they
\* lack operands that they pop, and overflow only on a stack that is nearly
\* full (dstack.ft, rstack.ft): see StackWords.
StacksRearranged ==
  part = "stacks" =>
    Stacking!CommentsKept /\ Stacking!RoomSuffices /\ Stacking!PopsUnderflow

\* What is printed reads back as the same number, and >NUMBER and >FLOAT take
\* all of a number and nothing else; # may trap, and >FLOAT may take blanks or
\* not (io.ft, floatio.ft): see Conversion.
NumbersReadBack ==
  /\ part = "printing" =>
       Printing!DigitsRead /\ Printing!PrintedReadsBack /\ Printing!DoublesSpelt
  /\ part = "floats" => Floating!FloatsRead

\* No character of the input is lost between calls of ACCEPT, the output is
\* what TYPE told unless the host wrote a part of it, and a failed call tells
\* its error number unless that is 1 (io.ft, coreio.ft, syscall.ft): see
\* Streams.
StreamsKept ==
  part = "streams" =>
    /\ Reading!InputKept /\ Reading!LinesAccepted
    /\ Reading!TypedWhole /\ Reading!ErrnoTells
=============================================================================
