------------------------------- MODULE Words -------------------------------
(***************************************************************************)
(* Words of the runtime library that compute: the comparisons of           *)
(* compare.ft, the arithmetic of maths.ft, and the words of memory.ft and  *)
(* strings.ft that copy, compare and search characters.                    *)
(*                                                                         *)
(* A call takes its arguments from the data stack and leaves its results   *)
(* there, the last one on top.                                             *)
(***************************************************************************)
EXTENDS CellNumbers, Sequences

CONSTANTS
  Size,       \* addresses of memory are 1 to Size
  Characters  \* what memory may hold, as character codes

MemoryAssumption == Size \in Nat /\ Characters \subseteq Nat

Addresses == 1 .. Size

VARIABLES
  word,    \* the word last called, None before a call
  args,    \* its arguments, in the order of its stack comment
  left,    \* what it left on the data stack instead of them
  ends,    \* how the call ended
  before,  \* memory before the call
  memory   \* and now: a character for each address

vars == <<word, args, left, ends, before, memory>>

None == "none"

(***************************************************************************)
(* Cells                                                                   *)
(***************************************************************************)
Flag(b) == IF b THEN Modulus - 1 ELSE 0
Invert(w) == Modulus - 1 - w
Negative(w) == w >= Half                 \* 0<
Minus(w1, w2) == Cell(w1 + Cell(Invert(w2) + 1))

\* 2dup xor 0<
SignsDiffer(w1, w2) == Negative(w1) # Negative(w2)

(***************************************************************************)
(* compare.ft                                                              *)
(***************************************************************************)
Positive(n) == ~Negative(n) /\ n # 0     \* 0>

ULess(u1, u2) ==
  IF SignsDiffer(u1, u2) THEN Negative(u2) ELSE Negative(Minus(u1, u2))

\* DUP U< takes u2 with its copy, and 0<> looks at u1.
UGreater(u1, u2) == ~ULess(u2, u2) /\ u1 # 0

Less(n1, n2) ==
  IF SignsDiffer(n1, n2) THEN Negative(n1) ELSE Negative(Minus(n1, n2))

Greater(n1, n2) == n1 # n2 /\ Less(n2, n1)

Within(u, ul, uh) == ULess(Minus(u, ul), Minus(uh, ul))

\* The words of two arguments that leave one cell.
Compared(n1, n2) ==
  [ lt  |-> Flag(Less(n1, n2)),          \* <
    gt  |-> Flag(Greater(n1, n2)),       \* >
    le  |-> Flag(~Greater(n1, n2)),      \* <=
    ge  |-> Flag(~Less(n1, n2)),         \* >=
    ult |-> Flag(ULess(n1, n2)),         \* u<
    ugt |-> Flag(UGreater(n1, n2)),      \* u>
    ule |-> Flag(~ULess(n1, n2)),        \* u<= is  u< invert
    uge |-> Flag(~UGreater(n1, n2)),     \* u>=
    max |-> IF Less(n1, n2) THEN n2 ELSE n1,
    min |-> IF Less(n2, n1) THEN n2 ELSE n1 ]

(***************************************************************************)
(* maths.ft                                                                *)
(***************************************************************************)
Low(n) == Cell(n)
High(n) == Cell(n \div Modulus)

\* um+ leaves the sum and the carry.
Carry(u1, u2) == (u1 + u2) \div Modulus

\* A slip: the carry is lost.
DNegateSlip(l, h) == <<Cell(Invert(l) + 1), Invert(h)>>

DNegate(l, h) ==
  <<Cell(Invert(l) + 1), Cell(Invert(h) + Carry(Invert(l), 1))>>

Abs(n) == IF Negative(n) THEN Cell(Invert(n) + 1) ELSE n

MStar(n1, n2) ==
  LET product == Abs(n1) * Abs(n2)
  IN  IF SignsDiffer(n1, n2) THEN DNegate(Low(product), High(product))
                             ELSE <<Low(product), High(product)>>

SToD(n) == IF Positive(n) THEN <<n, 0>> ELSE DNegate(Cell(Invert(n) + 1), 0)

TwoSlash(n) ==
  LET top == Invert(Invert(0) \div 2)    \* 0 invert 1 rshift invert
  IN  (IF Negative(n) THEN top ELSE 0) + n \div 2

\* The processor's division of a double: it rounds to zero, and traps when
\* the quotient is no cell.
Truncated(d, n) ==
  LET q == (IF d < 0 THEN -d ELSE d) \div (IF n < 0 THEN -n ELSE n)
  IN  IF (d < 0) # (n < 0) THEN -q ELSE q

Returns(cells) == [ends |-> "returns", left |-> cells]
Throws == [ends |-> "throws -10", left |-> <<>>]
Traps == [ends |-> "traps", left |-> <<>>]

UMSlashMod(l, h, u) ==
  LET d == UDouble(l, h)
  IN  IF u = 0 THEN Throws
      ELSE IF d \div u \notin Cells THEN Traps
      ELSE Returns(<<d % u, d \div u>>)

SMSlashRem(l, h, n) ==
  LET d == Double(l, h)
      q == Truncated(d, Signed(n))
  IN  IF n = 0 THEN Throws
      ELSE IF q \notin -Half .. Half - 1 THEN Traps
      ELSE Returns(<<Cell(d - q * Signed(n)), Cell(q)>>)

FMSlashMod(l, h, n) ==
  LET rq == SMSlashRem(l, h, n)
      floors == rq.left[1] # 0 /\ SignsDiffer(h, n)
  IN  IF rq.ends # "returns" \/ ~floors THEN rq
      ELSE Returns(<<Cell(rq.left[1] + n), Minus(rq.left[2], 1)>>)

SlashMod(n1, n2) == LET d == SToD(n1) IN SMSlashRem(d[1], d[2], n2)

StarSlashMod(n1, n2, n3) ==
  LET d == MStar(n1, n2) IN SMSlashRem(d[1], d[2], n3)

(***************************************************************************)
(* memory.ft and strings.ft.  A loop that stores one character at a time   *)
(* reads what it stored before.                                            *)
(***************************************************************************)
\* The characters that the first k turns of a loop copied, forwards ...
Forward(a1, a2, u) ==
  LET copied[k \in 0 .. u] ==
        IF k = 0 THEN memory
        ELSE LET m == copied[k - 1]
             IN  [m EXCEPT ![a2 + k - 1] = m[a1 + k - 1]]
  IN  copied[u]

\* ... and from the last character on.
Backward(a1, a2, u) ==
  LET copied[k \in 0 .. u] ==
        IF k = 0 THEN memory
        ELSE LET m == copied[k - 1]
             IN  [m EXCEPT ![a2 + u - k] = m[a1 + u - k]]
  IN  copied[u]

\* MOVE goes backwards if this is negative: a1 - a2 - u + 1.
Moved(a1, a2, u) ==
  IF a1 - a2 - u + 1 < 0 THEN Backward(a1, a2, u) ELSE Forward(a1, a2, u)

CMoved(a1, a2, u) == Forward(a1, a2, u)

CMovedUp(a1, a2, u) == Backward(a1, a2, u)

Filled(a, u, ch) ==
  [b \in Addresses |-> IF b \in a .. a + u - 1 THEN ch ELSE memory[b]]

\* What precedes the first address is no blank.
Blank == 32
CharAt(a) == IF a \in Addresses THEN memory[a] ELSE Blank + 1

\* -TRAILING does not look at u: it may become zero, and less.
DashTrailing(a, u) ==
  LET stops(k) == CharAt(a + k - 1) # Blank
  IN  CHOOSE k \in 1 - a .. u : stops(k) /\ \A j \in k + 1 .. u : ~stops(j)

Difference(c1, c2) == c1 - c2

\* The letters a to z, which are 97 to 122.
Uppercase(c) == IF c \in 97 .. 122 THEN c - 32 ELSE c

CIDiff(c1, c2) == Uppercase(c1) - Uppercase(c2)

\* _(compare): the first characters that differ, or else the lengths.
Sign(n) == IF n < 0 THEN -1 ELSE IF n > 0 THEN 1 ELSE 0
CompareBy(a1, u1, a2, u2, Diff(_, _)) ==
  LET shorter == IF u1 < u2 THEN u1 ELSE u2
      order[i \in 0 .. shorter] ==
        IF i = shorter THEN Sign(u1 - u2)
        ELSE LET d == Diff(CharAt(a1 + i), CharAt(a2 + i))
             IN  IF d # 0 THEN Sign(d) ELSE order[i + 1]
  IN  order[0]

Compare(a1, u1, a2, u2) == CompareBy(a1, u1, a2, u2, Difference)
CompareI(a1, u1, a2, u2) == CompareBy(a1, u1, a2, u2, CIDiff)

\* _(search) keeps the word it compares with below its arguments, and when
\* it finds nothing drops the wrong cells: the word and a1 stay.
CompareWord == -1
SearchBy(a1, u1, a2, u2, Cmp(_, _, _, _)) ==
  LET found == {i \in 0 .. u1 - u2 : Cmp(a1 + i, u2, a2, u2) = 0}
      first == CHOOSE i \in found : \A j \in found : i <= j
  IN  IF u1 < u2 THEN <<a1, u1, FALSE>>
      ELSE IF found # {} THEN <<a1 + first, u1 - first, TRUE>>
      ELSE <<CompareWord, a1, FALSE>>

Search(a1, u1, a2, u2) == SearchBy(a1, u1, a2, u2, Compare)
SearchI(a1, u1, a2, u2) == SearchBy(a1, u1, a2, u2, CompareI)

(***************************************************************************)
(* Calls                                                                   *)
(***************************************************************************)
WordsInit ==
  /\ word = None /\ args = <<>> /\ left = <<>> /\ ends = "returns"
  /\ memory \in [Addresses -> Characters]
  /\ before = memory

Leaves(w, given, cells) ==
  /\ word' = w /\ args' = given /\ left' = cells /\ ends' = "returns"
  /\ UNCHANGED <<before, memory>>

Ends(w, given, result) ==
  /\ word' = w /\ args' = given
  /\ left' = result.left /\ ends' = result.ends
  /\ UNCHANGED <<before, memory>>

Stores(w, given, m) ==
  /\ word' = w /\ args' = given /\ left' = <<>> /\ ends' = "returns"
  /\ memory' = m
  /\ UNCHANGED before

\* The strings that a program may name: all within memory.
Strings == {<<a, u>> \in Addresses \X (0 .. Size) : a + u - 1 <= Size}

CompareTwo == \E n1, n2 \in Cells :
  LET all == Compared(n1, n2)
  IN  \E w \in DOMAIN all : Leaves(w, <<n1, n2>>, <<all[w]>>)

CallWithin == \E u, ul, uh \in Cells :
  Leaves("within", <<u, ul, uh>>, <<Flag(Within(u, ul, uh))>>)

CallUMPlus == \E u1, u2 \in Cells :
  Leaves("um+", <<u1, u2>>, <<Cell(u1 + u2), Carry(u1, u2)>>)

CallMStar == \E n1, n2 \in Cells :
  Leaves("m*", <<n1, n2>>, MStar(n1, n2))

CallOne == \E n \in Cells :
  \/ Leaves("s>d", <<n>>, SToD(n))
  \/ Leaves("abs", <<n>>, <<Abs(n)>>)
  \/ Leaves("2/", <<n>>, <<TwoSlash(n)>>)

CallDNegate == \E l, h \in Cells :
  Leaves("dnegate", <<l, h>>, DNegate(l, h))

Divide == \E l, h, n \in Cells :
  \/ Ends("um/mod", <<l, h, n>>, UMSlashMod(l, h, n))
  \/ Ends("sm/rem", <<l, h, n>>, SMSlashRem(l, h, n))
  \/ Ends("fm/mod", <<l, h, n>>, FMSlashMod(l, h, n))
  \/ Ends("*/mod", <<l, h, n>>, StarSlashMod(l, h, n))

CallSlashMod == \E n1, n2 \in Cells :
  Ends("/mod", <<n1, n2>>, SlashMod(n1, n2))

Copy == \E s \in Strings : \E a2 \in Addresses :
  /\ a2 + s[2] - 1 <= Size
  /\ \/ Stores("move", <<s[1], a2, s[2]>>, Moved(s[1], a2, s[2]))
     \/ Stores("cmove", <<s[1], a2, s[2]>>, CMoved(s[1], a2, s[2]))
     \/ Stores("cmove>", <<s[1], a2, s[2]>>, CMovedUp(s[1], a2, s[2]))

Fill == \E s \in Strings : \E ch \in Characters :
  Stores("fill", <<s[1], s[2], ch>>, Filled(s[1], s[2], ch))

Trail == \E s \in Strings :
  Leaves("-trailing", s, <<s[1], DashTrailing(s[1], s[2])>>)

CompareStrings == \E s, t \in Strings :
  LET given == <<s[1], s[2], t[1], t[2]>>
  IN  \/ Leaves("compare", given, <<Compare(s[1], s[2], t[1], t[2])>>)
      \/ Leaves("comparei", given, <<CompareI(s[1], s[2], t[1], t[2])>>)

SearchString == \E s, t \in Strings :
  LET given == <<s[1], s[2], t[1], t[2]>>
  IN  \/ Leaves("search", given, Search(s[1], s[2], t[1], t[2]))
      \/ Leaves("searchi", given, SearchI(s[1], s[2], t[1], t[2]))

\* The program takes the results and goes on with the memory there is.
Proceed ==
  /\ word # None
  /\ word' = None /\ args' = <<>> /\ left' = <<>> /\ ends' = "returns"
  /\ before' = memory
  /\ UNCHANGED memory

Number ==
  \/ CompareTwo \/ CallWithin
  \/ CallUMPlus \/ CallMStar \/ CallOne \/ CallDNegate \/ Divide \/ CallSlashMod

Character == Copy \/ Fill \/ Trail \/ CompareStrings \/ SearchString

WordsNext ==
  \/ word = None /\ Number
  \/ word = None /\ Character
  \/ Proceed

WordsSpec == WordsInit /\ [][WordsNext]_vars

(***************************************************************************)
(* Properties.  After a call, args and left are what it was given and what *)
(* it left; the references below are those of the numbers, not of cells.   *)
(***************************************************************************)
\* Every variable has its type.
TypeOK ==
  /\ word \in STRING /\ ends \in {"returns", "throws -10", "traps"}
  /\ memory \in [Addresses -> Characters]
  /\ before \in [Addresses -> Characters]

Told(t) == left = <<Flag(t)>>

\* What signed and unsigned comparison tell (compare.ft:57).
TellsSigned(n1, n2) ==
  /\ word = "lt" => Told(n1 < n2)
  /\ word = "gt" => Told(n1 > n2)
  /\ word = "le" => Told(n1 <= n2)
  /\ word = "ge" => Told(n1 >= n2)
  /\ word = "max" => Signed(left[1]) = (IF n1 < n2 THEN n2 ELSE n1)
  /\ word = "min" => Signed(left[1]) = (IF n1 < n2 THEN n1 ELSE n2)

\* Comparisons are those of the numbers, also where a difference of cells
\* changes its sign, except for three: U<= tells what U>= should, and U> and
\* U>= only whether u1 is zero (UnsignedTell has what they should tell).
\* WITHIN counts upwards from ul, past zero if need be, and stops short of uh
\* (compare.ft:45-79).
ComparisonsTell ==
  /\ word \in {"lt", "gt", "le", "ge", "max", "min"} =>
       TellsSigned(Signed(args[1]), Signed(args[2]))
  /\ word = "ult" => Told(args[1] < args[2])
  /\ word = "ule" => Told(args[1] >= args[2])
  /\ word = "ugt" => Told(args[1] # 0)
  /\ word = "uge" => Told(args[1] = 0)
  /\ word = "within" =>
       Told(\E k \in Cells : /\ Cell(args[2] + k) = args[1]
                             /\ \A j \in 0 .. k : Cell(args[2] + j) # args[3])

\* "u> ( u1 u2 -- t , Return true if u1 > u2 )", and so on (compare.ft:48-55).
UnsignedTell ==
  /\ word = "ugt" => Told(args[1] > args[2])
  /\ word = "ule" => Told(args[1] <= args[2])
  /\ word = "uge" => Told(args[1] >= args[2])

\* Doubles are exact: carries, signs and the least cell, which is its own
\* negation (maths.ft:51-165).
DoublesExact ==
  /\ word = "um+" => UDouble(left[1], left[2]) = args[1] + args[2]
  /\ word = "m*" =>
       Double(left[1], left[2]) = Signed(args[1]) * Signed(args[2])
  /\ word = "s>d" => Double(left[1], left[2]) = Signed(args[1])
  /\ word = "abs" => left[1] \in {Signed(args[1]), -Signed(args[1])}
  /\ word = "2/" => Signed(left[1]) = Signed(args[1]) \div 2
  /\ word = "dnegate" =>
       (UDouble(left[1], left[2]) + UDouble(args[1], args[2]))
         % (Modulus * Modulus) = 0

\* What the division of d by n is to leave.
Divides(d, n, r, q) ==
  /\ q * n + r = d
  /\ (IF r < 0 THEN -r ELSE r) < (IF n < 0 THEN -n ELSE n)

\* The quotients that are cells: unsigned, or rounded to zero, so that the
\* remainder has the sign of the dividend.
Quotients(d, n) ==
  IF word = "um/mod" THEN {q \in Cells : Divides(d, n, d - q * n, q) /\ d - q * n >= 0}
  ELSE {q \in -Half .. Half - 1 :
          LET r == d - q * n IN Divides(d, n, r, q) /\ (r = 0 \/ (r < 0) = (d < 0))}

\* The quotient rounded down.
Floor(d, n) == IF n > 0 THEN d \div n ELSE (-d) \div (-n)

\* Divisions by zero throw, those that have no cell for a quotient trap, and
\* all others leave quotient and remainder of the numbers.  FM/MOD traps as
\* SM/REM does, and then rounds down: its remainder has the sign of the
\* divisor, and its quotient is exact but for the least cell, which wraps to
\* the greatest one when it is rounded down (maths.ft:92-169).
DivisionsExact ==
  word \in {"um/mod", "sm/rem", "fm/mod", "*/mod", "/mod"} =>
    LET Value(c) == IF word = "um/mod" THEN c ELSE Signed(c)
        n == Value(args[Len(args)])
        d == CASE word = "um/mod" -> UDouble(args[1], args[2])
               [] word \in {"sm/rem", "fm/mod"} -> Double(args[1], args[2])
               [] word = "/mod" -> Signed(args[1])
               [] word = "*/mod" -> Signed(args[1]) * Signed(args[2])
    IN  /\ ends = "throws -10" <=> n = 0
        /\ ends = "traps" <=> n # 0 /\ Quotients(d, n) = {}
        /\ ends = "returns" =>
             LET r == Value(left[1])
                 q == Value(left[2])
             IN  IF word # "fm/mod" THEN q \in Quotients(d, n) /\ Divides(d, n, r, q)
                 ELSE /\ r = d - Floor(d, n) * n
                      /\ q = IF Floor(d, n) < -Half THEN Half - 1 ELSE Floor(d, n)

\* Memory with the u characters at a1 copied to a2.
Copied(a1, a2, u) ==
  [b \in Addresses |-> IF b \in a2 .. a2 + u - 1 THEN before[b - a2 + a1]
                                               ELSE before[b]]

\* Copies are exact where strings overlap the way a word is for: CMOVE down,
\* CMOVE> up, MOVE up, and MOVE down unless more than one character is in
\* both strings (memory.ft:103, strings.ft:36-56).
CopiesExact ==
  LET a1 == args[1]
      a2 == args[2]
      u == args[3]
  IN  \/ word = "move" /\ a1 > a2 /\ a1 - a2 < u - 1
      \/ word = "cmove" /\ a1 < a2
      \/ word = "cmove>" /\ a1 > a2
      \/ word \in {"move", "cmove", "cmove>"} => memory = Copied(a1, a2, u)

\* "Copy u characters from a1 to a2" (memory.ft:103).
MovesExact == word = "move" => memory = Copied(args[1], args[2], args[3])

\* The string at a.
Text(a, u) == SubSeq(memory, a, a + u - 1)

Folded(s) == [i \in 1 .. Len(s) |-> Uppercase(s[i])]

\* s1 precedes s2 in a dictionary.
Precedes(s1, s2) ==
  \E k \in 0 .. Len(s1) :
    /\ k <= Len(s2)
    /\ \A i \in 1 .. k : s1[i] = s2[i]
    /\ IF k = Len(s1) THEN k < Len(s2)
       ELSE k < Len(s2) /\ s1[k + 1] < s2[k + 1]

Ordered(s1, s2) ==
  left = <<IF s1 = s2 THEN 0 ELSE IF Precedes(s1, s2) THEN -1 ELSE 1>>

\* COMPARE is the order of a dictionary, a string before those it begins, and
\* COMPAREI that order of the strings in uppercase (strings.ft:58-88).
ComparesInOrder ==
  word \in {"compare", "comparei"} =>
    LET s1 == Text(args[1], args[2])
        s2 == Text(args[3], args[4])
    IN  IF word = "compare" THEN Ordered(s1, s2)
                            ELSE Ordered(Folded(s1), Folded(s2))

\* s2 is the beginning of s1.
Begins(s2, s1) == Len(s2) <= Len(s1) /\ SubSeq(s1, 1, Len(s2)) = s2

\* SEARCH is true if and only if the second string is in the first one, and
\* then leaves the first place where it is (strings.ft:84-98).
SearchFindsFirst ==
  word = "search" =>
    LET s1 == Text(args[1], args[2])
        s2 == Text(args[3], args[4])
        places == {i \in 0 .. Len(s1) : Begins(s2, SubSeq(s1, i + 1, Len(s1)))}
    IN  /\ left[3] = (places # {})
        /\ left[3] =>
             LET i == left[1] - args[1]
             IN  i \in places /\ left[2] = args[2] - i /\ \A j \in places : i <= j

\* "search ( c-addr1 u1 c-addr2 u2 -- a u flag )": what is left names a part
\* of the string searched, as where u2 > u1 (strings.ft:100).
SearchLeavesString ==
  word = "search" => left[1] >= args[1] /\ left[1] + left[2] = args[1] + args[2]

\* -TRAILING takes the blanks off the end of a string with another character,
\* and nothing else (strings.ft:23).
TrailingTaken ==
  word = "-trailing" =>
    LET s == Text(args[1], args[2])
        others == {i \in 1 .. Len(s) : s[i] # Blank}
    IN  others # {} =>
          left[1] = args[1] /\ left[2] \in others /\ \A i \in others : i <= left[2]

\* "-trailing ( c-addr u1 -- c-addr u2 , Remove trailing spaces )": what is
\* left is a part of the string (strings.ft:23).
TrailingWithin == word = "-trailing" => left[2] \in 0 .. args[2]
=============================================================================
