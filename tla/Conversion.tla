----------------------------- MODULE Conversion -----------------------------
(***************************************************************************)
(* Numbers and their texts (io.ft, floatio.ft): <# #S SIGN #> as . uses    *)
(* them, >NUMBER, the obsolete CONVERT, and the automaton of >FLOAT.  A    *)
(* step is a turn of the loop of a word.                                   *)
(*                                                                         *)
(* A program prints numbers, and reads texts, among them what it printed.  *)
(* The arithmetic of floats is exact here: what >FLOAT has read is kept as *)
(* the numbers that it combines in the end.                                *)
(***************************************************************************)
EXTENDS CellNumbers, Sequences

CONSTANTS
  Bases,         \* values of BASE
  Doubles,       \* doubles to print, and to begin >NUMBER with: <<low, high>>
  NumberTexts,   \* texts for >NUMBER: sequences of character codes
  FloatTexts,    \* texts for >FLOAT
  ExponentLimit  \* 1024 in the source

ConversionAssumption ==
  /\ Bases \subseteq 2 .. 36
  /\ Doubles \subseteq Cells \X Cells
  /\ ExponentLimit \in 0 .. Half - 1

VARIABLES
  mode,    \* the word at work, or how it ended
  base,    \* BASE
  given,   \* the double that the word began with
  ud,      \* the double it is at
  text,    \* the characters it reads, or has held
  at,      \* how many it has read
  float,   \* the state of >FLOAT and its conversion variables
  printed  \* what . printed and the program reads back, or NoCell

vars == <<mode, base, given, ud, text, at, float, printed>>

NoCell == -1
Blank == 32
Plus == 43
Dash == 45
Point == 46

Digits == 48 .. 57
Exponents == {69, 101}   \* E and e

(***************************************************************************)
(* Printing                                                                *)
(***************************************************************************)

\* The character of a digit, in lowercase unless _STRICTANSI.
DigitChar(d) == IF d > 9 THEN 97 + d - 10 ELSE 48 + d

ABS(w) == IF w >= Half THEN Cell(-w) ELSE w

\* . prints a cell: signed if BASE is 10, and otherwise unsigned.
Dot == \E b \in Bases, w \in Cells :
  /\ mode = "idle"
  /\ base' = b /\ printed' = w
  /\ given' = <<IF b = 10 THEN ABS(w) ELSE w, 0>>
  /\ ud' = given'
  /\ mode' = "#s" /\ text' = <<>> /\ at' = 0
  /\ UNCHANGED float

\* <# #S of a double.
DotDouble == \E b \in Bases, d \in Doubles :
  /\ mode = "idle"
  /\ base' = b /\ printed' = NoCell
  /\ given' = d /\ ud' = d
  /\ mode' = "#s" /\ text' = <<>> /\ at' = 0
  /\ UNCHANGED float

\* # : the processor cannot divide if the quotient is no cell.
Sharp ==
  LET d == UDouble(ud[1], ud[2])
  IN  IF d \div base \in Cells
      THEN /\ text' = <<DigitChar(d % base)>> \o text
           /\ ud' = <<d \div base, 0>>
           \* 2dup or 0> while
           /\ mode' = IF d \div base \in 1 .. Half - 1 THEN "#s" ELSE "sign"
      ELSE mode' = "trapped" /\ UNCHANGED <<text, ud>>

SharpS ==
  /\ mode = "#s"
  /\ Sharp
  /\ UNCHANGED <<base, given, at, float, printed>>

Sign ==
  /\ mode = "sign"
  /\ text' = IF base = 10 /\ printed >= Half THEN <<Dash>> \o text ELSE text
  /\ mode' = "printed"
  /\ UNCHANGED <<base, given, ud, at, float, printed>>

(***************************************************************************)
(* >NUMBER                                                                 *)
(***************************************************************************)
Upper(c) == IF c \in 97 .. 122 THEN c - 32 ELSE c

\* A slip: the character behind 9 is a digit.
DigitValueSlip(c) ==
  LET u == Upper(c)
  IN  IF u \in 48 .. 58 THEN u - 48
      ELSE IF u \in 65 .. 90 THEN u - 65 + 10
      ELSE NoCell

\* What the character counts for, or NoCell.
DigitValue(c) ==
  LET u == Upper(c)
  IN  IF u \in Digits THEN u - 48
      ELSE IF u \in 65 .. 90 THEN u - 65 + 10
      ELSE NoCell

\* um* drop, then um+ : what the product has above a cell is lost.
Scaled(d, b, x) ==
  LET sum == Cell(d[1] * b) + x IN <<Cell(sum), sum \div Modulus>>

ToNumber == \E b \in Bases, t \in NumberTexts, d \in Doubles :
  /\ mode = "idle"
  /\ base' = b /\ text' = t /\ given' = d /\ ud' = d
  /\ mode' = ">number" /\ at' = 0 /\ printed' = NoCell
  /\ UNCHANGED float

\* The program reads what . printed, after the sign.
ReadBack ==
  /\ mode = "printed" /\ printed # NoCell
  /\ at' = IF text[1] = Dash THEN 1 ELSE 0
  /\ given' = <<0, 0>> /\ ud' = given'
  /\ mode' = ">number"
  /\ UNCHANGED <<base, text, float, printed>>

NextDigit ==
  /\ mode = ">number"
  /\ LET x == IF at < Len(text) THEN DigitValue(text[at + 1]) ELSE NoCell
     IN  IF x \in 0 .. base - 1
         THEN at' = at + 1 /\ ud' = Scaled(ud, base, x) /\ UNCHANGED mode
         ELSE mode' = "read" /\ UNCHANGED <<at, ud>>
  /\ UNCHANGED <<base, given, text, float, printed>>

\* CONVERT gives >NUMBER the length -1, with which it does nothing.
Convert == \E b \in Bases, t \in NumberTexts, d \in Doubles :
  /\ mode = "idle"
  /\ base' = b /\ text' = t /\ given' = d /\ ud' = d
  /\ mode' = "converted" /\ at' = 0 /\ printed' = NoCell
  /\ UNCHANGED float

(***************************************************************************)
(* >FLOAT                                                                  *)
(***************************************************************************)
\* _(convinit)
Fresh == [state |-> 0, negative |-> FALSE, int |-> 0, frac |-> 0, scale |-> 0,
          exp |-> 0, expNegative |-> FALSE]

\* -TRAILING of blanks goes on below the text: if there are blanks too, the
\* length it leaves is not zero.
AllBlank(t, below) == (\A i \in 1 .. Len(t) : t[i] = Blank) /\ below # Blank

ToFloat == \E t \in FloatTexts, below \in {Blank, Point} :
  /\ mode = "idle"
  /\ text' = t /\ at' = 0 /\ printed' = NoCell
  /\ float' = Fresh
  /\ mode' = IF AllBlank(t, below) THEN "float" ELSE ">float"
  /\ UNCHANGED <<base, given, ud>>

\* exp 10 * + : a cell.
ExpDigit(e, d) == Cell(e * 10 + d)

\* The states: 0 before anything but signs, 1 in the integral part, 2 and 3
\* behind a point with and without one, 4 in the fraction, 5 and 6 before and
\* in the exponent, -1 an error.
AfterSign(f, c) ==
  IF f.state = 0 THEN [f EXCEPT !.negative = (@ # (c = Dash))]
  ELSE IF f.state = 5 THEN [f EXCEPT !.expNegative = (@ # (c = Dash))]
  ELSE [f EXCEPT !.state = -1]

AfterPoint(f) ==
  [f EXCEPT !.state = IF @ = 0 THEN 3 ELSE IF @ = 1 THEN 2 ELSE -1]

AfterE(f) == [f EXCEPT !.state = IF @ \in {1, 2, 4} THEN 5 ELSE -1]

AfterDigit(f, d) ==
  CASE f.state = 0 -> [f EXCEPT !.state = 1, !.int = d]
    [] f.state = 1 -> [f EXCEPT !.int = @ * 10 + d]
    [] f.state \in {2, 3} -> [f EXCEPT !.state = 4, !.frac = d, !.scale = 1]
    [] f.state = 4 -> [f EXCEPT !.frac = @ * 10 + d, !.scale = @ + 1]
    [] f.state = 5 -> [f EXCEPT !.state = 6, !.exp = d]
    [] f.state = 6 -> [f EXCEPT !.exp = ExpDigit(@, d)]

After(f, c) ==
  IF c \in {Plus, Dash} THEN AfterSign(f, c)
  ELSE IF c = Point THEN AfterPoint(f)
  ELSE IF c \in Exponents THEN AfterE(f)
  ELSE IF c \in Digits THEN AfterDigit(f, c - 48)
  ELSE [f EXCEPT !.state = -1]

NextCharacter ==
  /\ mode = ">float"
  /\ IF at < Len(text)
     THEN LET f == After(float, text[at + 1])
          IN  /\ float' = f /\ at' = at + 1
              /\ mode' = IF f.state = -1 THEN "no float" ELSE ">float"
     ELSE /\ mode' = IF float.state \in {1, 2, 4, 6} THEN "float" ELSE "no float"
          /\ UNCHANGED <<float, at>>
  /\ UNCHANGED <<base, given, ud, text, printed>>

\* _(combine): how often the result is multiplied by 10, or divided if less
\* than zero.
Exponent ==
  LET e == Signed(float.exp)
      limited == IF e < ExponentLimit THEN e ELSE ExponentLimit
  IN  IF float.expNegative THEN -limited ELSE limited

(***************************************************************************)
(* The program                                                             *)
(***************************************************************************)
ConversionInit ==
  /\ mode = "idle" /\ base \in Bases
  /\ given = <<0, 0>> /\ ud = <<0, 0>> /\ text = <<>> /\ at = 0
  /\ float = Fresh /\ printed = NoCell

\* The program has what it asked for.
Ended == {"printed", "trapped", "read", "converted", "float", "no float"}

Leave ==
  /\ mode \in Ended
  /\ mode' = "idle" /\ given' = <<0, 0>> /\ ud' = <<0, 0>> /\ text' = <<>>
  /\ at' = 0 /\ float' = Fresh /\ printed' = NoCell
  /\ UNCHANGED base

ConversionNext ==
  \/ Dot \/ DotDouble \/ SharpS \/ Sign
  \/ ToNumber \/ ReadBack \/ NextDigit \/ Convert
  \/ ToFloat \/ NextCharacter
  \/ Leave

ConversionSpec == ConversionInit /\ [][ConversionNext]_vars

(***************************************************************************)
(* Properties                                                              *)
(***************************************************************************)
\* Every variable has its type.
TypeOK ==
  /\ mode \in {"idle", "#s", "sign", ">number", ">float"} \cup Ended
  /\ ud \in Cells \X Cells /\ given \in Cells \X Cells
  /\ at \in 0 .. Len(text) /\ printed \in Cells \cup {NoCell}
  /\ float.state \in -1 .. 6 /\ float.exp \in Cells

\* What a character is as a digit, whatever the base.
Worth(c) ==
  IF c \in Digits THEN c - 48
  ELSE IF c \in 65 .. 90 THEN c - 55
  ELSE IF c \in 97 .. 122 THEN c - 87
  ELSE 99

\* The number that the digits i to j of t spell, behind the number n.
Spelt(n, t, i, j, b) ==
  LET upTo[k \in i - 1 .. j] ==
        IF k = i - 1 THEN n ELSE upTo[k - 1] * b + Worth(t[k])
  IN  upTo[j]

\* >NUMBER takes all the digits there are in the base, of both cases, and what
\* it leaves is the number they spell if that is a cell (io.ft:103-126).
DigitsRead ==
  mode = "read" =>
    LET from == IF printed # NoCell /\ text[1] = Dash THEN 2 ELSE 1
        n == Spelt(UDouble(given[1], given[2]), text, from, at, base)
    IN  /\ \A i \in from .. at : Worth(text[i]) < base
        /\ at < Len(text) => Worth(text[at + 1]) >= base
        /\ n \in Cells => ud = <<n, 0>>

\* The number that . prints is the number that is read back, with its sign,
\* in every base (io.ft:58-76, 89-95).
PrintedReadsBack ==
  mode = "read" /\ printed # NoCell =>
    LET negative == text[1] = Dash
    IN  /\ at = Len(text)
        /\ ud[2] = 0
        /\ IF negative THEN -ud[1] = Signed(printed) /\ base = 10
           ELSE ud[1] = (IF base = 10 THEN Signed(printed) ELSE printed)

\* #S leaves the digits of a double and nothing else, no zero before them and
\* one for zero, if the double divided by the base has no sign (io.ft:67).
DoublesSpelt ==
  /\ mode = "printed" /\ printed = NoCell
  /\ UDouble(given[1], given[2]) \div base < Half
  =>
    /\ Spelt(0, text, 1, Len(text), base) = UDouble(given[1], given[2])
    /\ \A i \in 1 .. Len(text) : Worth(text[i]) < base
    /\ Len(text) > 1 => Worth(text[1]) # 0

\* The end of the longest run of such characters from m on.
RunEnd(m, set) ==
  CHOOSE n \in m - 1 .. Len(text) :
    /\ \A k \in m .. n : text[k] \in set
    /\ n < Len(text) => text[n + 1] \notin set

\* Where the parts of a text end: signs, digits, a point, digits, an E, signs,
\* digits (the table at floatio.ft:221).
Parts ==
  LET one(m, set) == IF m <= Len(text) /\ text[m] \in set THEN m ELSE m - 1
      s == RunEnd(1, {Plus, Dash})
      i == RunEnd(s + 1, Digits)
      p == one(i + 1, {Point})
      f == IF p > i THEN RunEnd(p + 1, Digits) ELSE i
      e == one(f + 1, Exponents)
      g == IF e > f THEN RunEnd(e + 1, {Plus, Dash}) ELSE e
      x == IF e > f THEN RunEnd(g + 1, Digits) ELSE e
  IN  [signs |-> s, int |-> i, point |-> p, frac |-> f, e |-> e,
       expSigns |-> g, exp |-> x]

IsFloat ==
  LET v == Parts
  IN  /\ v.int > v.signs \/ v.frac > v.point
      /\ v.e > v.frac => v.exp > v.expSigns
      /\ v.exp = Len(text)

\* An odd number of minus signs.
Odd(m, n) == Len(SelectSeq(SubSeq(text, m, n), LAMBDA c : c = Dash)) % 2 = 1

\* >FLOAT is true of the floats, and of nothing else unless it is blank (see
\* BlanksAreZero), and has read their parts: an
\* even number of minus signs is none, each digit behind the point is counted
\* once, and an exponent that is a signed cell is the one used, within the
\* limit (floatio.ft:177-324).
FloatsRead ==
  mode \in {"float", "no float"} =>
    /\ IsFloat => mode = "float"
    /\ mode = "float" => IsFloat \/ \A i \in 1 .. Len(text) : text[i] = Blank
    /\ IsFloat =>
         LET v == Parts
             exp == Spelt(0, text, v.expSigns + 1, v.exp, 10)
             used == IF exp < ExponentLimit THEN exp ELSE ExponentLimit
         IN  /\ float.negative = Odd(1, v.signs)
             /\ float.int = Spelt(0, text, v.signs + 1, v.int, 10)
             /\ float.frac = Spelt(0, text, v.point + 1, v.frac, 10)
             /\ float.scale = v.frac - v.point
             /\ exp < Half =>
                  Exponent = IF Odd(v.e + 1, v.expSigns) THEN -used ELSE used

\* "ud = ud*base + x" (io.ft:123), of doubles.
DoublesRead ==
  mode = "read" =>
    LET n == Spelt(UDouble(given[1], given[2]), text, 1, at, base)
    IN  n < Modulus * Modulus => UDouble(ud[1], ud[2]) = n

\* "convert ( ud1 c-addr1 -- ud2 c-addr2 , Convert string to number,
\* obsolete )" (io.ft:140): a digit is converted.
ConvertReads ==
  mode = "converted" /\ Len(text) > 0 /\ Worth(text[1]) < base => at > 0

\* "#s ( ud -- 0 0 , Place all digits of ud in the conv buffer, return 0 0 )"
\* (io.ft:67), of every double that # does not trap on.
DoublesPlaced ==
  mode = "printed" =>
    /\ ud = <<0, 0>>
    /\ printed = NoCell =>
         Spelt(0, text, 1, Len(text), base) = UDouble(given[1], given[2])

\* "# ( ud -- ud , Put last digit of ud into the buffer, return ud/BASE )"
\* (io.ft:58), of every double.
DoublesPrint == mode # "trapped"

\* "if all blanks treat as 0.0, special" (floatio.ft:216).
BlanksAreZero ==
  Len(text) > 0 /\ (\A i \in 1 .. Len(text) : text[i] = Blank) => mode # "no float"

\* "limit exp to a reasonable value >38" (floatio.ft:202): an exponent above
\* the limit is the limit.
ExponentsLimited ==
  mode = "float" /\ float.state = 6 =>
    \A e \in 1 .. Len(text) :
      /\ text[e] \in Exponents
      /\ e < Len(text) /\ text[e + 1] \in Digits
      /\ Spelt(0, text, e + 1, Len(text), 10) >= ExponentLimit
      => Exponent = ExponentLimit
=============================================================================
