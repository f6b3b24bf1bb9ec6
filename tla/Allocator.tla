------------------------------ MODULE Allocator ------------------------------
(***************************************************************************)
(* ALLOCATE, FREE and RESIZE of runtime/alloc.ft.  The arena is a list of  *)
(* blocks in memory.  Each begins with a header cell, the size of what     *)
(* follows: positive if the block is allocated, negative if it is free, 0  *)
(* at the end of the list.  The list grows by the brk system call.         *)
(*                                                                         *)
(* The program that calls may do what it likes with the addresses that it  *)
(* got, those it gave back included, and store into blocks it holds.       *)
(***************************************************************************)
EXTENDS Integers, Sequences, FiniteSets, Functions, FiniteSetsExt

CONSTANTS
  Cell,         \* the bytes of a cell
  HalfRange,    \* signed cells lie in -HalfRange .. HalfRange - 1
  Page,         \* the unit in which the system maps memory
  StartBreak,   \* the break when the program starts
  MaxBreak,     \* the system refuses to move the break beyond
  Sizes,        \* the sizes that the program asks for
  Values,       \* what the program stores
  Strangers,    \* addresses outside the arena that it may pass
  CatchesThrow  \* does the program catch the exception of a failing brk?

ASSUME AllocatorAssumption ==
  /\ {Cell, HalfRange, Page, StartBreak, MaxBreak} \subseteq Nat \ {0}
  /\ {HalfRange, StartBreak, Page} \subseteq {i * Cell : i \in 1..HalfRange}
  /\ StartBreak % Page = 0 /\ StartBreak < MaxBreak
  /\ MaxBreak + Page <= HalfRange
  /\ Sizes \subseteq 0 - HalfRange .. HalfRange - 1
  /\ Values \subseteq 0 - HalfRange .. HalfRange - 1
  /\ Strangers \subseteq Int
  /\ CatchesThrow \in BOOLEAN

VARIABLES
  mem,      \* what the cells hold; memory that was never written holds 0
  brk,      \* the system's break
  arenap,   \* _arenap, 0 before the first call
  bcache,   \* _(bcache)
  reply,    \* the outcome of the last call: [code, addr]
  status,   \* "running", "ended" by an uncaught exception, or "faulted"
  held,     \* history: the blocks that the program holds, by address:
            \*   asked, the size; kept, how many cells hold tag, its data
  given     \* history: the addresses that it gave back and that no block
            \*   has covered since

memory == <<mem, brk, arenap, bcache>>
client == <<held, given>>
vars == <<mem, brk, arenap, bcache, reply, status, held, given>>

-----------------------------------------------------------------------------
\* Arithmetic of signed cells.

Wrap(x) == ((x + HalfRange) % (2 * HalfRange)) - HalfRange

\* cell+ 1- -1 cells and
Aligned(n) == Wrap(((n + Cell - 1) \div Cell) * Cell)

\* Strangers are not in the arena, however large it grows.
ASSUME StrangersAssumption ==
  \A x \in Strangers : Aligned(x) \notin StartBreak + Cell .. MaxBreak

\* within compares as unsigned numbers.
Within(u, lo, hi) ==
  ((u - lo) % (2 * HalfRange)) < ((hi - lo) % (2 * HalfRange))

RoundUp(a) == ((a + Page - 1) \div Page) * Page

CellAddresses == {a \in StartBreak .. RoundUp(MaxBreak) - 1 : a % Cell = 0}

\* The memory of a state: the variables that the words read and write.
State == [mem |-> mem, brk |-> brk, arenap |-> arenap, bcache |-> bcache]

\* A page is mapped as soon as the break enters it.
Mapped(s, a) == a \in CellAddresses /\ a < RoundUp(s.brk)

-----------------------------------------------------------------------------
\* The brk system call: it moves the break, or refuses, and returns it.
Brk(s, addr) ==
  IF StartBreak <= addr /\ addr <= MaxBreak THEN addr ELSE s.brk

\* Moves the break to addr; throws if addr is, as a signed number, beyond it.
_allocb(s, addr) ==
  LET new == Brk(s, addr)
  IN  [s |-> [s EXCEPT !.brk = new, !.bcache = new], thrown |-> addr > new]

\* The first call makes an empty arena.  (The zero goes to the cell at the
\* new break; the header of the arena is zero since it was never written.)
_arena(s) ==
  IF s.arenap # 0 THEN [s |-> s, thrown |-> FALSE]
  ELSE LET first == _allocb(s, 0).s
           grown == _allocb([first EXCEPT !.arenap = first.brk], first.brk + Cell)
       IN  [grown EXCEPT !.s.mem[grown.s.brk] = IF grown.thrown THEN @ ELSE 0]

\* Slip: the sign of the header is not looked at.
_allocsizeSlip(s, addr) ==
  LET a == Aligned(addr) IN
  IF Within(a, s.arenap + Cell, s.bcache + 1) THEN s.mem[a - Cell] ELSE 0

\* The size of the block at addr, 0 if it looks free or outside the arena.
_allocsize(s, addr) ==
  LET a == Aligned(addr) IN
  IF Within(a, s.arenap + Cell, s.bcache + 1) /\ s.mem[a - Cell] > 0
  THEN s.mem[a - Cell] ELSE 0

\* The header after the block with header h.
NextHeader(s, h) == h + Cell + Max({s.mem[h], 0 - s.mem[h]})

\* _allocdefrag: the header that ends the run of free blocks from h on.
RunEnd(s, h) ==
  LET end[k \in Int] ==
        IF Mapped(s, k) /\ s.mem[k] < 0 THEN end[NextHeader(s, k)] ELSE k
  IN  end[h]

\* The size of the block at h once the free blocks after it have joined it.
Joined(s, h) ==
  IF s.mem[h] < 0 THEN RunEnd(s, h) - h - Cell ELSE s.mem[h]

\* A free block of size k serves for n if it is exactly as large, or larger
\* by two cells at least, so that the rest is a block.
Serves(k, n) == Wrap(k - n) = 0 \/ Wrap(k - n) >= 2 * Cell

\* _allocslot: the headers that the search for n bytes visits, the last of
\* them the slot that it returns.  An unmapped header ends the process.
Visited(s, n) ==
  LET from[h \in Int] ==
        IF \/ ~Mapped(s, h)
           \/ s.mem[h] = 0
           \/ s.mem[h] < 0 /\ Serves(Joined(s, h), n)
        THEN <<h>>
        ELSE <<h>> \o from[h + Cell + Joined(s, h)]
  IN  from[s.arenap]

\* The search joins free blocks wherever it passes.
Defragmented(s, visited) ==
  [s EXCEPT !.mem = [h \in CellAddresses |->
     IF h \in Range(visited) /\ s.mem[h] < 0 THEN 0 - Joined(s, h) ELSE s.mem[h]]]

\* Slip: the arena does not grow by the cell of the closing zero.
ExtendedSlip(s, h, n) ==
  LET grown == _allocb([s EXCEPT !.mem[h] = n], Wrap(h + n + Cell))
  IN  IF grown.thrown
      THEN [s |-> grown.s, code |-> "thrown", addr |-> 0]
      ELSE [s |-> [grown.s EXCEPT !.mem[grown.s.brk - Cell] = 0],
            code |-> "ok", addr |-> h + Cell]

\* A new block at the end of the list.  Its size is written over the closing
\* zero before the arena grows, and a new zero is written after.
Extended(s, h, n) ==
  LET grown == _allocb([s EXCEPT !.mem[h] = n], Wrap(h + n + 2 * Cell))
  IN  IF grown.thrown
      THEN [s |-> grown.s, code |-> "thrown", addr |-> 0]
      ELSE [s |-> [grown.s EXCEPT !.mem[grown.s.brk - Cell] = 0],
            code |-> "ok", addr |-> h + Cell]

\* A free block used again, whole or split.
Reused(s, h, n) ==
  LET old == 0 - s.mem[h]
      m   == [s.mem EXCEPT ![h] = n]
  IN  [s |-> [s EXCEPT !.mem =
                IF old = n THEN m ELSE [m EXCEPT ![h + n + Cell] = n + Cell - old]],
       code |-> "ok", addr |-> h + Cell]

Refusal(s) == [s |-> s, code |-> "einval", addr |-> 0]

Fault(s) == [s |-> s, code |-> "fault", addr |-> 0]

\* A block of n bytes from the slot h that the search returned.
Slotted(s, h, n) ==
  IF ~Mapped(s, h) THEN Fault(s)
  ELSE IF s.mem[h] = 0 THEN Extended(s, h, n)
  ELSE Reused(s, h, n)

Searched(s, visited, n) ==
  Slotted(Defragmented(s, visited), visited[Len(visited)], n)

\* The search of an opened arena, if it could be opened.
Granted(opened, n) ==
  IF opened.thrown THEN [s |-> opened.s, code |-> "thrown", addr |-> 0]
  ELSE Searched(opened.s, Visited(opened.s, n), n)

\* A request for 0 bytes is one for a cell.
Rounded(n) == Aligned(IF n = 0 THEN Cell ELSE n)

allocate(s, n) == IF n < 0 THEN Refusal(s) ELSE Granted(_arena(s), Rounded(n))

\* FREE in an opened arena.
Released(opened, addr) ==
  IF opened.thrown THEN [s |-> opened.s, code |-> "thrown", addr |-> 0]
  ELSE IF _allocsize(opened.s, addr) = 0 THEN Refusal(opened.s)
  ELSE [s |-> [opened.s EXCEPT !.mem[Aligned(addr) - Cell] = 0 - @],
        code |-> "ok", addr |-> addr]

free(s, addr) == Released(_arena(s), addr)

\* Slip: the contents are not copied.
MovedSlip(got, a, old) ==
  IF got.code # "ok" THEN got ELSE [got EXCEPT !.s.mem[a - Cell] = 0 - @]

\* The block at a of old bytes moves to the one that allocate returned: the
\* old one is freed, its cells are copied.
Moved(got, a, old) ==
  LET to == got.addr .. got.addr + old - 1 IN
  IF got.code # "ok" THEN got
  ELSE IF \E b \in to : b % Cell = 0 /\ ~Mapped(got.s, b) THEN Fault(got.s)
  ELSE [got EXCEPT !.s.mem =
          [b \in CellAddresses |->
             IF b \in to THEN got.s.mem[a + b - got.addr]
             ELSE IF b = a - Cell THEN 0 - got.s.mem[b] ELSE got.s.mem[b]]]

\* Slip: the header of the rest is reckoned from the old header.
ShrunkSlip(s, a, n, old) ==
  [s |-> IF Wrap(old - n) < 2 * Cell THEN s
         ELSE [s EXCEPT !.mem[a - Cell] = n, !.mem[a - Cell + n] = n + Cell - old],
   code |-> "ok", addr |-> a]

\* RESIZE to a smaller size: what is left over is a free block, if it is large
\* enough to be one.
Shrunk(s, a, n, old) ==
  [s |-> IF Wrap(old - n) < 2 * Cell THEN s
         ELSE [s EXCEPT !.mem[a - Cell] = n, !.mem[a + n] = n + Cell - old],
   code |-> "ok", addr |-> a]

\* RESIZE in an opened arena.
Sized(opened, a, n) ==
  LET old == opened.s.mem[a - Cell] IN
  IF opened.thrown THEN [s |-> opened.s, code |-> "thrown", addr |-> 0]
  ELSE IF _allocsize(opened.s, a) = 0 THEN Refusal(opened.s)
  ELSE IF n > old THEN Moved(allocate(opened.s, n), a, old)
  ELSE Shrunk(opened.s, a, n, old)

resize(s, addr, n) ==
  IF n < 0 THEN Refusal(s) ELSE Sized(_arena(s), Aligned(addr), Rounded(n))

-----------------------------------------------------------------------------
\* The program and its calls.

AllocatorInit ==
  /\ mem = [a \in CellAddresses |-> 0]
  /\ brk = StartBreak /\ arenap = 0 /\ bcache = 0
  /\ reply = [code |-> "ok", addr |-> 0]
  /\ status = "running"
  /\ held = << >> /\ given = {}

\* A call comes back with result r, ends the process or faults.
Called(r) ==
  /\ mem' = r.s.mem /\ brk' = r.s.brk
  /\ arenap' = r.s.arenap /\ bcache' = r.s.bcache
  /\ reply' = [code |-> r.code, addr |-> r.addr]
  /\ status' = CASE r.code = "fault" -> "faulted"
                 [] r.code = "thrown" /\ ~CatchesThrow -> "ended"
                 [] OTHER -> "running"

\* Addresses given back that the block at a of n bytes does not cover.
Uncovered(S, a, n) == {g \in S : g - Cell \notin a - Cell .. a + n - 1}

Without(f, S) == [x \in DOMAIN f \ S |-> f[x]]

\* The bytes that a request for n bytes lets the program use.
Asked(n) == IF n = 0 THEN Cell ELSE ((n + Cell - 1) \div Cell) * Cell

Allocate ==
  \E n \in Sizes : \E r \in {allocate(State, n)} :
    /\ status = "running"
    /\ Called(r)
    /\ IF r.code # "ok" THEN UNCHANGED client
       ELSE /\ held' = [a \in DOMAIN held \cup {r.addr} |->
                          IF a = r.addr THEN [asked |-> n, kept |-> 0, tag |-> 0]
                          ELSE held[a]]
            /\ given' = Uncovered(given, r.addr, Asked(n))

Free ==
  \E a \in DOMAIN held \cup given \cup Strangers : \E r \in {free(State, a)} :
    /\ status = "running"
    /\ Called(r)
    /\ IF r.code # "ok" THEN UNCHANGED client
       ELSE /\ held' = Without(held, {a})
            /\ given' = given \cup {a}

\* What the program holds of the old block is in the new one.
Resize ==
  \E a \in DOMAIN held \cup given \cup Strangers, n \in Sizes :
  \E r \in {resize(State, a, n)} :
    LET fit == Asked(n) \div Cell IN
    /\ status = "running"
    /\ Called(r)
    /\ IF r.code # "ok" \/ a \notin DOMAIN held THEN UNCHANGED client
       ELSE /\ held' = [b \in (DOMAIN held \ {a}) \cup {r.addr} |->
                          IF b # r.addr THEN held[b]
                          ELSE [asked |-> n, tag |-> held[a].tag,
                                kept  |-> IF held[a].kept < fit THEN held[a].kept ELSE fit]]
            /\ given' = Uncovered(given \cup ({a} \ {r.addr}), r.addr, Asked(n))

\* The program fills a block it holds.
Store ==
  \E a \in DOMAIN held, v \in Values :
    LET n     == Asked(held[a].asked)
        cells == {a + i * Cell : i \in 0 .. n \div Cell - 1}
    IN
    /\ status = "running"
    /\ \A c \in cells : Mapped(State, c)
    /\ mem' = [c \in CellAddresses |-> IF c \in cells THEN v ELSE mem[c]]
    /\ held' = [held EXCEPT ![a].tag = v, ![a].kept = n \div Cell]
    /\ UNCHANGED <<brk, arenap, bcache, reply, status, given>>

\* The process is gone.
Over ==
  /\ status # "running"
  /\ UNCHANGED vars

AllocatorNext == Allocate \/ Free \/ Resize \/ Store \/ Over

AllocatorSpec == AllocatorInit /\ [][AllocatorNext]_vars

-----------------------------------------------------------------------------
\* Properties

TypeOK ==
  /\ mem \in [CellAddresses -> 0 - HalfRange .. HalfRange - 1]
  /\ brk \in StartBreak .. MaxBreak
  /\ arenap \in {0, StartBreak}
  /\ bcache \in {0} \cup (StartBreak .. MaxBreak)
  /\ reply \in [code : {"ok", "einval", "thrown", "fault"}, addr : Int]
  /\ status \in {"running", "ended", "faulted"}
  /\ \A a \in DOMAIN held :
       held[a] \in [asked : Sizes, kept : Nat, tag : Values \cup {0}]

\* The headers of the list, from the arena to the zero or to where the list
\* leaves the memory in use.
Headers ==
  LET from[h \in Int] ==
        IF h \notin CellAddresses \/ h >= brk THEN {}
        ELSE IF mem[h] = 0 THEN {h} ELSE {h} \cup from[NextHeader(State, h)]
  IN  IF arenap = 0 THEN {} ELSE from[arenap]

\* The blocks tile the arena: the list ends, with a zero, in the last cell
\* before the break.  Every later call depends on it ("A zero-size header
\* indicates the end of the list").
ListClosed ==
  arenap # 0 /\ status = "running" =>
    /\ brk - Cell \in Headers /\ mem[brk - Cell] = 0
    /\ bcache = brk

\* The blocks that the list shows as allocated, and that lie in the arena.
Blocks ==
  [a \in {h + Cell : h \in {k \in Headers : mem[k] > 0 /\ NextHeader(State, k) < brk}} |->
     [i \in 1 .. mem[a - Cell] \div Cell |-> mem[a + (i - 1) * Cell]]]

\* What the program stored in a block stays, whatever is allocated, freed,
\* joined, split or moved around it.
DataKept ==
  \A a \in DOMAIN held : \A i \in 0 .. held[a].kept - 1 :
    mem[a + i * Cell] = held[a].tag

\* An address given back is refused by FREE and RESIZE until a block covers
\* it again, also after its block was joined with others or split.
GivenRefused ==
  status = "running" => \A a \in given : _allocsize(State, a) = 0

\* The list of blocks implements the heap that the words promise.
AbstractHeap ==
  INSTANCE Heap WITH blocks <- Blocks, Addresses <- CellAddresses

ImplementsHeap == AbstractHeap!HeapSpec

\* A block that is resized in place is as large as RESIZE was asked for
\* ("requests for non-aligned sizes are rounded up to a integral number of
\* cells").
ResizedInPlaceFits ==
  [][\A a \in DOMAIN held \cap DOMAIN held' :
       held'[a].asked > held[a].asked =>
         a \in DOMAIN Blocks' /\ Cell * Len(Blocks'[a]) >= held'[a].asked]_vars

\* When the break cannot be moved, the call does not return ("On brk() error,
\* raises -2048 out of memory exception").
NoGrantBeyondBreak ==
  \A a \in DOMAIN held : a + Asked(held[a].asked) < brk
=============================================================================
