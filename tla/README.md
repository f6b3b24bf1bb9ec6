# A TLA+ verification of VNPForth

VNPForth is a Forth compiler written in C++ (`compiler/`) that produces x86
assembly, with a runtime library written in Forth and assembly (`runtime/`).
This directory holds models of the compiler, from its command line and its
scanner to the assembly it writes, and of the runtime library: memory
allocation, exceptions, stacks, numbers, strings and streams. With them are the
TLC configurations that check the models, and proofs about the scanner, the
parser, the optimizer, the driver, exceptions and the allocator. Paths below are
relative to the repository.

## 1. Inventory

Everything runs in one thread and nothing is persistent: what is hard here is
not concurrency but *state that several parts keep about the same thing*, and
*steps that stop in their middle*. The grammar knows the nesting of a program,
and the handlers keep it a second time on stacks of their own. The value of a
token is an address in a buffer that the scanner goes on to change. Eight
optimizer passes rewrite code that each of them reads. An exception cuts off
words that have changed half of what they had to change; the system calls below
them may fail, or do less than asked, at any time.

| Component | State | Operations | Works with |
|---|---|---|---|
| Driver (`compiler.cc`, `cmdline.cc`, `srcfile.cc`) | options, files, the exit status | `main`, `compile`, options | the assembler, `Program` |
| Lexer (`forth.l`, `forth.cc`) | the buffer, the start condition, the line | a token at a time, refilling | called by the grammar |
| Grammar (`forth.y`) | yyparse's stack | reductions, error recovery, the macros `MNE` and `P` | calls a handler per reduction |
| Parser (`parser.cc`) | `label_stack_`, `break_stack_`, `cond_stack_`, `exit_label_`, `label_sequence_`, `current_definition_`, `implicit_main_`, `error_count_` | a handler per construct, `detect_main`, `parse_cleanup` | adds symbols, data and opcodes |
| Symbol table (`symtable.cc`, `symbol.cc`) | symbols by mangled name, a counter | `add`, which asserts that the name is new, and `lookup` | parser, code generator |
| Data table (`dattable.cc`, `data.cc`) | strings by signature, a counter | `add` | parser, code generator |
| Mangler (`mangler.cc`) | none | names to assembler symbols and back | symbol table, optimizer, `-M`, `-X` |
| Opcode table (`optable.cc`, `opcode.h`) | the sequence of opcodes | `add`, `unreachable_check`, `synthesize_main` | parser, optimizer |
| Optimizer (`optimize.cc`) | the sequence of opcodes | eight passes, `optimize_code` | opcode table |
| Code generator (`codegen.cc`) | `current_definition`, the current line | `generate` of each opcode and table | opcode table |
| Allocator (`alloc.ft`) | the arena, a list of blocks closed by a zero | `ALLOCATE`, `FREE`, `RESIZE` | the brk system call, exceptions |
| Exceptions (`except.ft`) | the chain of handlers, a flag for double exceptions | `CATCH`, `THROW` | all three stacks, output |
| Stacks (`stack.ft`, `dstack.ft`, `rstack.ft`) | data, return and float stacks, with guards | push, pop, the words that rearrange them | generated code, exceptions |
| Memory, strings, numbers (`memory.ft`, `strings.ft`, `compare.ft`, `maths.ft`) | none | pure words, and MOVE | everything |
| Input, output, conversion (`coreio.ft`, `io.ft`, `syscall.ft`, `floatio.ft`) | file ids, `ERRNO`, the conversion buffer | KEY, ACCEPT, TYPE, `#`, `>NUMBER`, `>FLOAT` | the kernel, exceptions |
| Floating point arithmetic, start-up, C linkage | x87 registers | instructions | not modelled |

What makes each of them correct:

- *Driver*: an object for each source that was compiled, made of that source,
  and of all of it unless it is overwritten or cut off; the status tells every
  failure; sources stay as they are; the process ends.
- *Lexer*: comments are skipped and nothing else, CODE words are told in their
  order and with their lines, and a rule that uses the text of an earlier token
  finds that text.
- *Grammar and parser*: the handlers' stacks follow the nesting, whatever was
  refused and whatever a conditional hides; no assert fails; each branch has one
  target, in its own definition; all paths to a label agree on the return stack.
- *Symbol and data table, mangler*: a name is entered once; implicit main and a
  definition of `main` exclude each other; a label leads to the bytes that the
  code expects; a printed name serves as the name.
- *Opcode table and optimizer*: the optimized program does what the program did;
  the optimizer ends; no pass loses a label or the end of a definition.
- *Code generator*: labels resolve, the caller's registers come back, lines are
  found; counted loops make the turns they should.
- *Allocator*: the blocks tile the arena up to the closing zero; no two
  allocated blocks overlap; what a program stored stays.
- *Exceptions and stacks*: after a `THROW` the three stacks are as deep as at
  the `CATCH`, and no flag is left up; an uncaught exception ends the program.
- *Words of the library*: agreement with a reference definition.

`PROJECT.json` lists the hazards of this code, each at its line, with the
properties that would notice it.

## 2. Modules

```
Driver  <- MCDriver, DriverProof                     (the process forthc)
  Lexer <- MCLexer, LexerProof
    | tokens
    Opcodes <- Parser    <---- Program <- ProgramMeaning <- MCProgram
       ^          ^ MCParser      |    ^       |
       |                          |     \------|------ Loops <- MCLoops
       +------ Optimizer <--------+            |         |
                  ^---------- Machine <--------+---------+
    Parser <- ParserProof <- ParserLabels <- ParserBranches
    Program, ParserBranches  <- ProgramProof
  Mangler, Tables, Assembly                          <- MCOutput

Heap     <= Allocator    <- MCAllocator, AllocatorProof   (the runtime library)
Catching <= Exceptions   <- MCExceptions, ExceptionsProof
CellNumbers <- Words, Conversion;  StackWords, Streams   <- MCLibrary
```

`<-` is EXTENDS or INSTANCE, `<=` a refinement. The proofs from tokens to optimized
code are a chain of modules, each of which extends the one before: `ParserProof`,
`ParserLabels`, `ParserBranches`, `ProgramProof`. Components that share no state but
are cheap to check together share an MC module (`MCOutput`, `MCLibrary`): a variable
says which of them a behaviour is about, and the others stand still.

### Parser

The input is *any sequence of tokens*. One action is one reduction of the grammar
that ends with a token, and contains all that happens then:

1. the macro `MNE`: after `MAX_ALLOWED_ERRORS` errors yyparse gives up (`GiveUp`);
2. the nesting: `nest` stands for the part of yyparse's stack that matters, the
   constructs that are open;
3. the macro `P`: the handler runs only if every open `[IFDEF]` is true. The
   directives themselves are never suppressed;
4. the handler, with all the calls it makes.

`f_...` operators have the names of the handlers. Three shapes cover them:
`Compile` (announce implicit main, write opcodes), `Structure` (the same while
the label stacks change) and `Asserting`, which models the `assert` at the top of
a handler: if it fails the process is gone (`status = "asserted"`). Where a
handler looks a name up before it calls `detect_main`, and where after, the model
keeps the order, since `detect_main` may define the very name (`UseWord`,
`CompileCall`, `DefinedConstant`).

A syntax error may come at any token (`SyntaxError`). Bison then drops its stack,
but the handlers' stacks stay as they are, and parsing goes on after the next
word (`Recover`) or ends (`EndInRecovery`).

Two history variables exist for the properties, and no guard reads them. A frame
of `nest` remembers whether it was opened in active code and how deep the two
stacks were; `split` becomes true when a construct is opened and closed in
different conditional states.

The symbol table has an assert of its own, that a name is new. All handlers look
names up but that of `:NONAME`, whose name is made of a number: if the source has
written that name, the process is gone (`status = "collided"`).

Abstracted: names are already mangled; numbers and strings have no value, only
"in range" or not; text, line numbers and messages are left out. A `WORD` that
`CREATE` reads is `ALLOT` or not (`valid`).

### Optimizer

Every pass is an operator from code to code, and `Optimized` applies one by its
name. The source scans with iterators, replaces what it has passed, and never
looks back; so each place of the result depends on the given code alone, and the
passes are written as functions of it. A pass of the source returns a count; it
is nonzero exactly if the code changed, and `Program` uses that.

### Program

`Program::build`: the parser's steps (`Parse`), then `Refuse` or `Synthesize`,
then the passes (`RunPass`) and the end of an iteration (`Iterate`). The eight
passes are operands of `+`, which C++ may evaluate in any order. The constant
`EvaluationOrder` holds the pairs whose order the compiler guarantees: the
instance `LeftToRight` is the order of the source, `AnyOrder` guarantees
nothing. Whether the option for optimization is set is a choice in `Synthesize`.

### Machine

What opcodes do when they run, from the instructions that `codegen.cc` writes:
two registers, three stacks, wrapping cells, return addresses apart from the
return stack. Words of other files are external: a call of one is an event that
shows all three stacks, clobbers the registers, and pushes the next of a given
sequence of inputs. When the inputs are used up, or a pop finds an empty stack,
the run ends. `Meaning` collects, for each definition and each sequence of
inputs, how the run ends, the events, and the final stacks and memory. Runs of
more than `Fuel` opcodes count as diverging; of them only the events are compared.
`Machine` uses a RECURSIVE operator, so it stays apart from modules to prove about.

### Loops

`Loops` composes parser, optimizer and machine for one question that none of
them can answer: how often does a counted loop turn? The definition of a loop is
read, optimized or not, and then run opcode by opcode for each limit and index.
The body is a word of another file: a call of it is a step that leaves an
increment or a flag.

### Driver

`getopt` takes one option at a time in any order; the checks that follow are one
action each, with the flags that each of them changes. `compile` is a sequence
of actions, one for each thing that may fail: opening and parsing the source,
opening and writing the intermediate file and the assembly, running the
assembler, removing files. A path is a name and an extension, since outputs are
named by what is left of a source's path; a file has a kind, a source that it
comes from, and may be cut off. Parsing is one step with any outcome.

### Lexer

The scanner that flex makes: the buffer with its end marks, `yy_get_next_buffer`
with the bounds of buffer and read, start conditions, and the longest match
before the order of rules. What tokens hand to the grammar is an address; the
string there ends where the *current* token ends. The rules of the grammar that
read such an address after the scanner went on are in the model with their
look-ahead. Blanks, newlines and whole words are one character each.

An error drops the tokens of the rule and all that follow up to a WORD; there the
parser gives up if it has met as many errors as are allowed, and else goes on.
What the rules read, and comments, are told for files with errors too; CODE words
only for those without, as an error may fall in the middle of one.

The scanner is global and outlives a file. A history variable, `dropped`, tells that
the file before this one was given up in its middle; then the start condition, the
look-ahead and the names in the buffer may still be those of that file (section 5,
*After giving up*), and `CommentsSkipped` and `CodeTold` make no claim.

### Mangler, Tables, Assembly

`Mangler` has `mangle` in one step and the loop of `demangle` turn by turn. `Tables`
enters symbols and strings in any order over several files, with the counters they
share, and then reads the assembly as the assembler does: `loaded` says what each
label should lead to. A signature is the sequence that the source puts together,
type and hexadecimal codes without separators, so that two could coincide.
`Assembly` generates one opcode at a time, with all combinations of `-g`, `-p` and
`-fPIC`; its properties follow the instructions that were written along the path
that a call takes.

### Heap and Allocator

`Allocator` has the arena as it is in memory, header by header, with the break,
the pages that exist below it, and signed cells. A call is one step: nothing
interrupts it but the exception of a failing brk, which leaves what was written
so far. The program may pass any address it ever got, and store any value in
blocks that it holds. `Heap` is what it may rely on: a set of blocks that do not
overlap, with their contents. The refinement mapping reads the list.

### Catching and Exceptions

`Exceptions` has the depths of the data and float stack, and the contents of the
return stack, where CATCH keeps its frames. A word is a sequence of pushes and
pops, of which any may overflow or underflow and throw, so that a word stops in
its middle; the guards are off while `_stackeh` is set. A CATCH makes its frame
before it looks for the word to run: without one, it underflows with the frame in
place, THROW finds nothing to drop, and that is a double exception. `Catching` has no
memory, only the depths that each CATCH found. The mapping hides frames, flags
and reserve.

### CellNumbers, Words, StackWords, Conversion, Streams

Each word is an operator from arguments to results, translated word by word, or,
where it has a loop, an action for each turn. The references they are checked
against are stated on mathematical integers, sequences and strings. The width of
a cell is a constant. In `Streams` the kernel chooses what each call returns: all
that was asked, less, or an error; a history variable, `short`, tells that a write
was cut.

## 3. Runs

| Run | Question | Result |
|---|---|---|
| `ParserControl` | Do nested conditionals, loops and CASE, three deep, with their breaks and EXIT, compile to code whose branches have one target in their own definition (`JumpsResolve`, `LabelsPlacedOnce`, `BranchesStayInDefinition`) and do all ways to a label, and the ends of definitions, agree on the return stack (`ReturnStackBalanced`)? | holds |
| `ParserErrors` | Do the handlers survive refused duplicates, syntax errors at any token and nested `[IFDEF]` (`FramesFit`, `AssertionsHold`, `NoInternalErrors`), and do code and names stay in order (`DefinitionsDelimited`, `NamesSettled`)? | holds |
| `ParserSplitCode` | Is inactive code as good as absent, also if a conditional splits a construct (`CompiledCodeIsComplete`)? | violated |
| `ProgramMeaning` | From source to optimized code, and with the passes in any order: the same meaning (`MeaningKept`), targets and definitions in place (`StillAProgram`), removals warned of (`RemovalsWarnedOf`), and no end but with settled code or at the limit, to which only changes lead (`SettledWhenBuilt`)? | holds |
| `OutputFiles` | Do names come back from symbols (`NamesComeBack`), labels lead to their strings (`DataAtLabel`) and places (`LabelsResolve`), and code to its lines (`LinesFound`)? | holds |
| `DriverLines` | For command lines of options and files, and failures anywhere: `ObjectsMade`, `StatusTells`, `DefinitionsInOrder`, `SourcesKept`, and the process ends (`ProcessEnds`)? | holds |
| `LexerFiles` | For files of comments, CODE words and declarations through a small buffer: `CommentsSkipped`, `CodeTold`, `RulesReadWell`, and the files are read to the end (`LexingEnds`)? | holds |
| `Exceptions` | Do CATCH and THROW implement the abstract ones (`ImplementsCatching`), with frames and flags in order (`HandlersSettled`), and does an uncaught exception end the program (`UncaughtEnds`)? | holds |
| `AllocatorLists` | Is the list closed (`ListClosed`), data kept (`DataKept`), a freed address refused (`GivenRefused`), and the heap implemented (`ImplementsHeap`)? | holds |
| `AllocatorCatch` | Is the list closed if the program catches the exception of a failing brk? | violated |
| `LibraryWords` | Do words agree with their references (`WordsExact`, `StacksRearranged`, `NumbersReadBack`, `StreamsKept`)? | holds |
| `LoopsTurns` | Does every counted loop make its turns (`TurnsAsTold`) and end (`LoopEnds`)? | holds |

**Bounds of the compiler.** `MaxNest` bounds the constructs open at a time,
`MaxCond` the conditionals, `MaxOpcodes` and `MaxLabels` the code: beyond them the
input still closes what is open, so every program is complete. Three levels of
nesting let a construct of each kind contain, and be contained in, each other kind
with a break inside; that is where a flat stack could go wrong. The kinds of files
in `MCParser` and `MCProgram` each have the tokens and bounds of one question, since
all tokens at once leave room for none of them: in `ParserControl` IFs with ?DO,
BEGIN, LEAVE and WHILE; CASE with DO, +LOOP, REPEAT and ?LEAVE, which share the
break stack; and definitions with EXIT and loops. One refused definition and one
syntax error between other constructs are enough to leave something behind, so the
error limit is 1 or 2 instead of 20. The optimizer has 4 iterations instead of 32,
which is few enough for programs of nine opcodes to meet the limit. `HalfRange` 2 or
4 makes cells of two or three bits, `Fuel` exceeds the longest run that ends.
Symbols are cut at 9 characters instead of 4064, so that short names meet the cut;
the names are all words up to five characters over an alphabet with a letter, `z`,
`_`, two digits and characters of each way to be written. Strings have up to three
characters, a backslash and characters whose codes spell the same digits among them;
the counts 2 and 3 have the characters that 34 and 92 have, a quote and a backslash.
The lexer's buffer holds 8 characters and is read in pieces of 5: it is refilled
within comments, CODE words, and between the tokens of one rule. With two errors
allowed, files of the lexer go on after one and are given up after two. The driver
has up to two of all options, three that exclude each other, four definitions, or
three files.

**Bounds of the library.** Cells of 2 to 8 bits show every carry, sign and least
cell. The arena has room for seven cells, so that a block is split, joined with both
neighbours, moved and refused. A data stack of 6 cells and a return stack of 8 admit
a CATCH within a CATCH and every overflow; the program leaves `CatchRoom` cells at a
CATCH (see section 5 for why), and may call it with no word on the stack.
`StackWords` has seven data cells, since 2ROT takes six. Streams make three calls on
up to four characters with buffers up to three: lines shorter than the buffer, as
long, and longer. Writes may be short, and errors are 1, which ERRNO does not tell,
2 and the last, 125.

**Fairness.** Compiler and programs are single-threaded processes that wait for
nothing they do themselves, so weak fairness of the whole next-state relation
(`FairDriver`, `FairLexer`, `FairLoops`) only says that the process is given
time. In `MCExceptions` only the steps after an uncaught exception are fair: a
program may run for ever, but not the report; and the report itself is fair as
a whole, so that it may fail for ever but not without ending (`UncaughtEnds`
allows the overrun of section 5). What makes liveness hold is then the code: that
a refill makes progress, that every failure leads on to the next source, that
wrapping increments meet the limit. That the optimizer ends is trivial with its
limit; `SettledWhenBuilt` is the safety property behind it: short of the limit, no
pass would change the code any more, and each iteration but the last has left a
no-op in place of an opcode for good. Long programs do meet the limit: a dead
IF ... THEN takes an iteration, and the limit of the code is 32. In the instance, with
4, a `?DO LEAVE +LOOP` does, and so do words that call one another in a circle.

**Deadlock** is checked except in `DriverLines` and `LexerFiles`, whose process
stops when it is done, and in `OutputFiles`, whose name is mangled once, whose code
is written once, and whose tables stop at the assert of `SymbolTable::add`.
Elsewhere a finished or aborted program stutters.

**Mutants.** Each property of each passing run is paired with a slip of the code
that it finds (the operators whose comment begins with "Slip"), such as a break
entry that ENDCASE forgets, or an arena that grows by a cell too little.

## 4. Proofs

A run shows a property on one small instance; a theorem of this section states it
for every value of the constants: any tokens and names, nesting of any depth,
command lines of any length, files and buffers of any length, passes of the
optimizer in any order, stacks and arenas of any size. The bounds of the parser only
restrict steps, and no proof uses them.

| Theorem | States | Module |
|---|---|---|
| `TypeCorrect`, `StacksFollowNesting`, `AssertsNeverFailInStep` | `TypeOK`, `FramesFit`, `AssertionsHold` | `ParserProof` |
| `NoLabelTwice` | `LabelsPlacedOnce` | `ParserLabels` |
| `JumpsNeverDangle`, `BranchesStay`, `CleanupFindsNothing` | `JumpsResolve`, `BranchesStayInDefinition`, `NoInternalErrors` | `ParserBranches` |
| `DefinitionsInPairs`, `NamesSettle` | `DefinitionsDelimited`, `NamesSettled` | `ParserBranches` |
| `StaysAProgram` | `StillAProgram` | `ProgramProof` |
| `RemovalsAreWarnedOf` | `RemovalsWarnedOf` | `ProgramProof` |
| `CodeIsTold`, `CommentsAreSkipped`, `RulesAreReadWell` | `CodeTold`, `CommentsSkipped`, `RulesReadWell` | `LexerProof` |
| `LexerTypes` | `TypeOK` | `LexerProof` |
| `StatusTold`, `ObjectsLeft`, `DefinitionsOrdered`, `SourcesStay` | `StatusTells`, `ObjectsMade`, `DefinitionsInOrder`, `SourcesKept` | `DriverProof` |
| `HandlersAlwaysSettled` | `HandlersSettled` | `ExceptionsProof` |
| `CatchingImplemented` | `ImplementsCatching`, the refinement | `ExceptionsProof` |
| `NoSecondException` | `DoubleForNoWord`, which no run checks | `ExceptionsProof` |
| `ArenaClosed`, `StoredDataKept`, `GivenBackRefused` | `ListClosed`, `DataKept`, `GivenRefused` | `AllocatorProof` |
| `HeapImplemented` | `ImplementsHeap`, the refinement | `AllocatorProof` |
| `AllocatorTyped`, `NothingBeyondBreak` | `TypeOK`, `NoGrantBeyondBreak`, which no run checks | `AllocatorProof` |

So all properties of the runs `AllocatorLists` and `ParserErrors` are proved; those of
`DriverLines` and `LexerFiles` but that the process and the files end; those of
`ParserControl` but `ReturnStackBalanced`; those of `Exceptions` but `UncaughtEnds`; and
of `ProgramMeaning` the two that do not run or count anything. Each module also has
its inductive invariant as a theorem (`Invariant`, `LabelsInOrder`,
`BranchesGuided`, `NamesInOrder`, `CodeStaysSound`, `LexerInvariant`,
`DriverInvariant`, `ExceptionsInvariant`, `HeapInvariant`).

### The scanner

The properties speak of the file, the scanner sees a buffer that is moved and
refilled. `Typing` has what ties them: the buffer holds the piece of the file up to
what was read, so a character of the buffer is a character of the file at a fixed
distance (`Shift`), and what matches at a place of the buffer is what comes next in
the file. From there on the buffer is forgotten.

- `LinesFollow`: the line counter is that of the characters read, so a token is
  given the line it is on.
- `CommentsFollow`: the start condition is the mode of the reader of `Reading`, who
  goes through the file character by character, and the words so far outside
  comments are the tokens. The reader is a recursive function of the place; its
  equation is had from well-founded recursion once, and nothing else of it is used.
- `CodeFollows`: in the start conditions of a CODE word the last CODE token is open,
  with a name or without; else each has its END-CODE behind it (`CodeOpen`).
- `WholeFollows`: what a start condition has passed over since the last token is
  blanks and comments, or empty lines, so that no line of assembly lies between two
  tokens (`LinesAdjoin`).
- A rule of the grammar that reads the text of an earlier token (`RuleBegun`): the
  token is still in the buffer, unless that was refilled in between, which
  `RulesReadWell` excludes.

The step lemmas go rule by rule of `forth.l`. Files, sizes of the buffer and of a
read, and the limit of errors are any (`LexerAssumption`).

### The parser

The argument has four layers, and each uses the invariant of the one below.

1. *Stacks* (`IInv`). `AssertionsHold` is not inductive: that the assert of LOOP
   holds depends on what DO left on the stacks some time ago. `FramesFit` says
   where on the two flat stacks the share of each open construct lies. A closing
   handler finds its assert in the share of the top frame (`CloseHas`), and pops
   that share and no more, so the frames below keep theirs (`FitClosed`). Errors
   only leave more on the stacks, which `FramesFit` allows.
2. *Labels* (`LabelInv`). While no conditional has split a construct, the shares
   fill the stacks without gaps (`Chained`), the labels on them increase and have
   been drawn, and of those on the stack only the starts of open loops are placed
   (`Pending`). So a handler that places what it takes off the stack, or what it
   draws, places nothing twice. `ParserLabels` begins with what the proofs know of the handlers: a
   lemma for each says which labels its code places and refers to, which it
   leaves on the stack and which it takes.
3. *Branches* (`CleanInv`). In a file without errors so far, a branch goes to a
   label that its own definition has placed, or to one that lies on the label stack
   and that this definition will place, or from implicit main to its end
   (`Guided`). For that, definitions are outermost, and the exit label is the
   bottom of the label stack while one is open (`Bound`). `parse_cleanup` finds
   nothing, since an empty `nest` leaves nothing on the stacks.
4. *Names* (`NamesInv`). Define and end-define opcodes come in pairs of one symbol,
   the symbol table knows all symbols that the code defines, and code outside
   definitions is announced, which excludes a definition of `main` (`NameInv`).
   That a handler looks a name up before or after it calls `detect_main` matters
   here. `CodeFramed` adds that nothing, not even a conditional, opens within a
   CODE word.

Layers 3 and 4 hold only for files without errors, as the properties do: after an
error the code is incomplete and is thrown away. The assumption is
`ParserAssumption`: the special names are names, the null symbol is not, `main` is
not a name that `:NONAME` makes up, and the limits are natural numbers. Other names
of the source may be such a name: `NamesSettle` says that the assert of the symbol
table fails then, and only then (`NameTaken`, `Unwritten`).

### From source to optimized code

`StillAProgram` is what the assembler asks: a branch has one target, in its own
definition, and what needs an instruction is in a definition. Its inductive form is
`Sound`, with definitions that end, since a pass must not merge two of them, and
with the types of opcodes. The proof has three stations.

1. *The parser's end* (`Finished`). The invariants above, at the end of a file
   without errors, say where branches go: to a label of their definition or, from
   implicit main, to label 0. Two facts are added, each with its own proof over
   the parser's steps: label 0 is drawn by no handler, so that it is free for the
   end of main (`Numbered`), and an end-define is always in a definition
   (`Enclosed`). The parser writes no no-ops (`TypeOK`).
2. *`synthesize_main`* gathers definitions, then what is outside them, between a
   define and label 0 (`Gathered`, `Layout`). Positions of the new code are mapped to
   those of the old; `FinishedSound` concludes that the result is `Sound`, with every
   branch to label 0 and every label outside definitions in the same main.
3. *Each pass keeps `Sound`*, whatever the code is, so the order of passes and the
   number of iterations do not matter (`OptimizedSound`). `Framed` maps positions of
   the new code to the old, in order, with no define or end-define lost, changed or
   added; then opcodes stay in their definition (`AtKeptTogether`). Five passes only
   replace opcodes in place, by no-ops or by moves between registers (`SoundInPlace`,
   `SoundWithNops`); two put other opcodes in the place of calls (`SplicedSound`).
   Moving labels to the last of their neighbours (`relocate_suboptimal_labels`) takes
   most: chains of neighbours end, since labels are finitely many and each is placed
   once (`ChainsEnd`), and each label arrives before one of its own definition.

`RemovalsAreWarnedOf` compares two looks at the code, before and after
`synthesize_main`: what the pass for unreachable code finds behind a jump in the
result is behind the same jump in the source, as gathering keeps what is selected
next to each other in order and main ends with a label, behind which nothing is
removed. `StillAProgram` is stated, and proved, for files in which no conditional
splits a construct (`InStep`), `RemovalsWarnedOf` for those without errors as well
(`Clean`): section 5, *Dangling branches*, shows such a file. The assumption is
the parser's.

### The driver

`DriverInv` goes through the life of the process: while getopt runs, what the
options read so far have set and how `argv` splits into the part read and the
rest (`Defined`, `Phased`); then, for the sources that had their turn, what became
of each (`Told`), and nothing yet for those that wait (`Waiting`); for the source
being compiled, what its intermediate file, assembly and object hold at each
phase (`Underway`); and an object for each that came through (`Made`). The step
that needs the invariant most is the next source: its files must leave alone what
an earlier source has made, which they do unless the two share a name.
`ObjectsMade` excludes just that (section 5). `SourcesKept` is an action property:
it follows from which path each phase writes. The assumption,
`DriverAssumption`, says what getopt and `tolower` do: a word that is no option is
a file, and the lower case of a lower case is itself.

### Exceptions

`HandlersSettled` is not inductive, as it says nothing of what lies in a frame;
and a program may write any cell of the return stack that it pushes.
`FramesLinked` says that each word that runs another has its frame below the cells
which the other may write, with its place in `host`, the depths it found and the
handler of the CATCH around it; and the chain of handlers leads through these
frames. Hence a `THROW` that cuts the return stack at a frame of CATCH finds all
it restores, and the rest of the chain is untouched.

The proof goes from steps to words to the machine. A word is a sequence of
pushes and pops of which any may raise: lemmas about one step give lemmas about a
word (it works as told, or it is broken off and has kept all frames). `ThrownCases`
lists the ways a `THROW` ends: in a CATCH with its depths, without a CATCH in the
report, or as a double exception. `ProgramStep` does the same for all words of a
program, and the invariant and the refinement follow by cases. For the refinement
each step maps to one of `Catching` or to none: `Frames`, the list of what each
CATCH found, is read along the chain of handlers, and the chain's recursion is
well-founded since handlers lie ever lower.

`ExceptionsAssumption` has sizes of stacks that are natural numbers, and a reserve
of at least three cells; the code reserves 16 (`dstack.ft:26`).
`CatchingImplemented` has two hypotheses more, which the run shares. `CatchRoom >=
3`: with less room the claim is false (section 5, *CATCH with a nearly full
stack*). And the program does not itself throw -6, the code of an empty return
stack, for which `THROW` forgets all handlers (`except.ft:96-98`). A program that
really takes from the empty return stack ends the same way, as `Catching!End`
allows: the frames were on it. `Catching!End` also allows the end of a program that
calls CATCH with nothing on the data stack, inside whatever CATCH that may be
(section 5, *CATCH without a word*). `HandlersAlwaysSettled` needs no hypothesis.
`NoSecondException` has the first, and says that this call of CATCH is the only way
to a double exception. Failing writes are allowed in all of them.

### The allocator

None of the properties is inductive, and each needs the others: what a call does
depends on the whole list, and the list is sound only as long as no program
writes into headers, which it does not since it stores only into blocks it holds.
`HeapInv` says of the memory that it is untouched, or has an arena that the
system refused to open, or is tiled by blocks with a set of headers H (`Open`):
from each header but the last, `After` leads to the next greater one in H, and the
last is a zero below the break. If an exception ended the program, that zero may
be written over (`Left`). Further, each block held has a header in H whose size
covers what was asked, and its cells hold what was stored (`Holding`); at the
header of an address given back is no positive number, and no block that is held
covers it (`GaveBack`).

The invariant has the list as a set, since a set does not need an induction when a
block is added, joined or split. The recursive definitions of the module walk the
list; that they find just what the set tells is proved once for each: `RunEnd`
(`RunsEnd`), the search (`SearchDone`) and `Headers` (`HeadersListed`). These
walks go upwards and end at the break, so that the equation of each definition
follows from well-founded recursion over the distance (`Upwards`), and what they
find from the least or the greatest address that would be an exception.

From there on the proof follows the words. `Defragmenting`, `Extending`,
`Reusing`, `Freeing`, `Moving` and `Shrinking` say what each part of the code makes
of H: which header comes and goes, that all other blocks keep header and
contents (`Keeps`), and that a cell outside the new block that was no header of a
block in use does not become one. `SoundChanged` concludes from such a change, whichever
word made it, that the invariant stays; `OthersStay` that the other blocks do.
`AllocateStep`, `FreeStep`, `ResizeStep` and `StoreStep` put this together for one
call, and the theorems follow by cases.

The theorems have two hypotheses, both of them about disagreements of section 5.
`SmallRequests`: a request, the greatest break and two cells together are less
than half of the address space, so that no sum wraps; with greater ones
`NoGrantBeyondBreak` is false. `CatchesThrow = FALSE`: the program does not go on
after the exception of a failing brk, after which the list is not closed
(`AllocatorCatch`). `AllocatorLists` shares both. `AllocatorAssumption` makes the
first break, the page and half of the range multiples of a cell, and
`StrangersAssumption` says that a stranger's address is none in the arena.

### What the proofs leave to TLC

- *Liveness*: `ProcessEnds`, `LexingEnds`, `LoopEnds`, `UncaughtEnds`. They need
  ENABLED, which the prover does not have.
- *Induction over data*: `ReturnStackBalanced` computes a depth along the code,
  `MeaningKept` and `TurnsAsTold` run code in `Machine`, whose operators are
  RECURSIVE, and the words of the library loop. Recursive definitions like these
  need an induction rule with an operator as its parameter, which none of the
  provers can use. (`Frames`, `Reading` and the walks of the allocator could be
  proved about because they go one way along addresses: the least address at
  which a claim fails takes the place of an induction.)
- *A count of iterations*: `SettledWhenBuilt` needs a measure over all eight passes
  that inlining, which makes code longer, still lowers.
- *Finite tables*: `OutputFiles` compares names and strings character by
  character; what goes wrong there is seen on short texts.

## 5. Disagreements

The runs above state what the code keeps. Where the code does not do what its
manual or comments say, the exact claim is a definition in the module, which TLC
refutes with the constants that are named here. The passing properties have the
exception in their statement, with two that are in constants: the allocator's runs
and theorems have no huge requests and no caught exception of brk, those of
exceptions `CatchRoom` 3 and no thrown -6. Two claims are runs: `ParserSplitCode`
and `AllocatorCatch`.

Compiler:

- *Dangling branches* (run `ParserSplitCode`). `IF [IFDEF] undef THEN : w [THEN] ;`
  is accepted without an error. The `;` takes the label of the IF, all stacks are
  empty at the end, `parse_cleanup` sees nothing wrong; the code branches to a label
  that is nowhere. Inactive code is "as if the code is not present"
  (`compiler/forthc.1:371-372`).
- *Split constructs* (`Parser!AssertionsNeverFail`). `[IFDEF] undef IF [THEN] THEN`
  is accepted by the grammar, since inactive code is parsed too. The IF pushed
  no label, so the assert of THEN fails and the compiler aborts (`parser.cc:824`);
  `: w [THEN] ;` behind `[IFDEF] undef` meets that of `;` (`parser.cc:510`).
- *Half optimized* (`Program!SettledWhenBuilt`, which has it as its exception). A
  word with 32 dead IFs behind an EXIT reaches `ITERATIONS_LIMIT` (`optimize.cc:40`),
  with no more than a warning.
- *Overriding TRUE and FALSE* (`ProgramMeaning!MeaningKeptWhenOverridden`).
  `: FALSE w ; FALSE` calls `w` without optimization and does not with it, as
  `inline_booleans` goes by name. Library words are "weak symbols, allowing them
  to be be overridden" (`runtime/libforth.3.m4:48-49`).
- *+LOOP far away* (`Loops!PlusLoopAsCommented`). "continue if rs0 - rs1 < 0"
  (`parser.cc:938`), but the code tests the sign of a wrapped difference: with
  index and limit more than half of the range apart, a loop ends early.
- *The empty symbol* (`Mangler!AllSymbolsAreValid`). The name `__` is mangled to
  nothing (`mangler.cc:151`; `forthc.1:319-320`).
- *Words without a name* (`Tables!AddAsserts`). `: __v4_1 ; :noname ;` ends in
  the assert of `SymbolTable::add` (`symtable.cc:60`): the made-up symbol is not
  looked up (`symbol.h:292`). `NamesSettled` has it as its exception.
- *Strings* (`Tables!DataAtLabel` without its condition `WrittenPlain`). A backslash
  in a string, and a count of 34 or 92 characters, are written as they are
  (`codegen.cc:166-206`), and the assembler reads another string or none.
- *Huge arrays* (`Tables!ArraysHaveTheirSize`). The size in bytes is an int that
  wraps (`codegen.cc:237`): 2^30 cells take no room.
- *Lines* (`Assembly!AllLinesFound`). The line of a label or no-op, which gets no
  entry, counts as told (`codegen.cc:306`); what follows on it has no entry.
- *-M and -X* (`Driver!NamesAlone`). "-M cannot be used with other flags"
  (`cmdline.cc:147`) overlooks `-w` and `-#`.
- *Shared objects* (`Driver!AllObjectsMade`). `a.ft` and `a.fs` both become
  `a.o`; the second replaces the first, and the status is success
  (`compiler.cc:73`).
- *Full disks* (`Driver!WholeObjectsMade`). Only opening the assembly is checked
  (`compiler.cc:103`); one cut off between lines is assembled.
- *Comments on the last line* (`Lexer!AllCommentsSkipped`). The pattern of `\`
  needs the newline (`forth.l:174`; `forthc.1:148-149`).
- *Lines in CODE words* (`Lexer!AllLinesTold`). Newlines in a comment behind the
  name are not counted (`forth.l:150`).
- *END-CODE* (`Lexer!EndCodeEnds`). With a blank beside it the line is taken as
  assembly, the longer match (`forth.l:158`; `forthc.1:200-201`).
- *After giving up* (`Lexer!AllFilesAnew`). The start condition outlives the file
  (`parser.cc:75`): given up inside CODE, the next file begins as assembly.
- *Tokens in the buffer* (`Lexer!AllArraysReadWell`, `Lexer!AllNamesReadWell`).
  The rule of CREATE reads name and size three tokens later (`forth.l:35`), by
  then other text if the buffer was refilled; `f_cond_ifdef` takes the second
  word behind `[IFDEF]`, also the parenthesis of a comment (`parser.cc:289`).

Runtime library:

- *The closing zero* (run `AllocatorCatch`). `ALLOCATE` writes a size over it
  before brk may fail (`alloc.ft:138-139`); a program that catches the exception
  is left with a list that leads out of the arena.
- *Huge sizes* (`Allocator!NoGrantBeyondBreak`, `Allocator!ResizedInPlaceFits`,
  with `MCHugeSizes`). Comparisons are signed (`alloc.ft:58`): a size past half
  of the range is granted without memory, and RESIZE takes one that wraps when
  rounded for a reduction (`alloc.ft:170`).
- *CATCH with a nearly full stack* (`Exceptions!DoubleForNoWord`, `CatchRoom`
  2). The guards are back on one word too early (`except.ft:152-153`), and the
  THROW ends as a double exception.
- *CATCH without a word* (`Catching!End`, `Exceptions!DoubleForNoWord`, which have it
  as their exception). On an empty data stack CATCH saves a depth of 0 and sets its
  handler before `execute` underflows (`except.ft:82-88`). The `sp! drop` of THROW
  underflows again (`except.ft:148`) with its flag still up: a double exception, and
  the program ends also inside another CATCH.
- *Reports that cannot be written* (`Exceptions!AbortForced`). With the standard
  error closed the report of a double exception throws again, and runs over the
  stack (`except.ft:135`).
- *Redirected output* (`Exceptions!OutputFollowsHost`). THROW drops the old file
  id that OUTFILE-EXECUTE keeps (`coreio.ft:46`).
- *Unsigned comparisons* (`Words!UnsignedTell`). `U>` tells whether u1 is not 0,
  `U>=` the opposite, `U<=` whether u1 >= u2 (`compare.ft:48-55`); `ComparisonsTell` says so.
- *MOVE* (`Words!MovesExact`). The test of `memory.ft:105` copies from the end
  also when an overlapping string is moved down.
- *SEARCH* (`Words!SearchLeavesString`). When nothing is found it leaves the xt
  of COMPARE and c-addr1 (`strings.ft:98`).
- *-TRAILING* (`Words!TrailingWithin`, `Conversion!BlanksAreZero`). Its loop does
  not look at the length (`strings.ft:26`), and reads below a blank string.
- *Underflow of DUP, OVER and PICK* (`StackWords!AllUnderflow`). They read the
  stack as memory and check nothing (`dstack.ft:85`).
- *Number conversion* (`Conversion!DoublesRead`, `ConvertReads`, `DoublesPrint`,
  `DoublesPlaced`, `ExponentsLimited`). `>NUMBER` drops the high cell
  (`io.ft:123`), CONVERT passes a length of -1 (`:141`), `#` divides by an
  instruction that traps (`:59`), `#S` tests a sign for zero (`:70`), and an
  exponent wraps before it is limited (`floatio.ft:203`).
- *TYPE* (`Streams!TypedWhole` without its condition on `short`). It writes once
  (`coreio.ft:63`); what the kernel does not take is lost.
- *ERRNO* (`Streams!ErrnoTells` without its exception). EPERM is left out
  (`syscall.ft:92`): its number, -1, is taken for the result of a call that failed
  before, and ERRNO stays that of an earlier call.

## 6. Not modelled, and the plan

Not modelled:

- The arithmetic of the x87 (`float.ft`), the scaling of REPRESENT and the formats
  of FE. and the like (`floatio.ft`): conversions of real numbers, out of TLC's
  reach.
- Start-up, calls of C, and the parts of the assembly written for gcc
  (`_dlmain.ft`, `forthrt1.ft`, `cclink.ft`): calling conventions without state of
  their own. malloc of C code called by a Forth program moves the same break as
  the allocator (`alloc.ft:40`); the allocator is checked as its only user.
- Listings, messages, the tables of error texts, ENVIRONMENT? and GETENV: text, or
  data read once.
- The tables of `forth.cc` and `forth.tab.cc`, which are generated; of the code
  around them, `Lexer` has the buffer.

Only model-checked: everything but the theorems of section 4.

Left to prove, if the provers allow: `ReturnStackBalanced`, which needs a height for
each label and place of the code (the sum of what the opcodes before it push and
pop), put together handler by handler as `Guided` is; and that a pass keeps
`Meaning`, for which `Machine` would have to be written without RECURSIVE.
