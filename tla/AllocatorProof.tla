--------------------------- MODULE AllocatorProof ---------------------------
(***************************************************************************)
(* Proofs about Allocator.tla.                                             *)
(***************************************************************************)
EXTENDS Allocator, SequenceTheorems, WellFoundedInduction, TLAPS

-----------------------------------------------------------------------------
(* Arithmetic. *)

(* Division by a positive number. *)
LEMMA Division ==
  ASSUME NEW x \in Int, NEW d \in Nat \ {0}
  PROVE  /\ x \div d \in Int /\ x % d \in 0 .. d - 1
         /\ x = d * (x \div d) + (x % d)
  OBVIOUS

(* A multiple of d that is less than d apart from 0 is 0. *)
LEMMA SmallMultiple ==
  ASSUME NEW q \in Int, NEW d \in Nat \ {0}, d * q < d, 0 - d < d * q
  PROVE  q = 0
  <1>1. CASE q >= 1
    <2>1. d * q >= d
      BY <1>1
    <2>2. QED
      BY <2>1
  <1>2. CASE q <= -1
    <2>1. d * q <= 0 - d
      BY <1>2
    <2>2. QED
      BY <2>1
  <1>3. QED
    BY <1>1, <1>2

(* Quotient and remainder are the only ones. *)
LEMMA DivisionUnique ==
  ASSUME NEW d \in Nat \ {0}, NEW q \in Int, NEW r \in 0 .. d - 1, NEW x \in Int, x = d * q + r
  PROVE  x \div d = q /\ x % d = r
  <1> DEFINE e == x \div d
             t == x % d
  <1>1. e \in Int /\ t \in 0 .. d - 1 /\ x = d * e + t
    BY Division
  <1> HIDE DEF e, t
  <1>2. d * e \in Int /\ d * q \in Int /\ d * (q - e) = d * q - d * e
    BY <1>1
  <1>3. d * (q - e) < d /\ 0 - d < d * (q - e)
    BY <1>1, <1>2
  <1>4. q - e = 0
    BY <1>1, <1>3, SmallMultiple
  <1>5. e = q
    BY <1>1, <1>4
  <1>6. t = r
    BY <1>1, <1>5
  <1>7. QED
    BY <1>5, <1>6 DEF e, t

(* The multiples of a number. *)
Multiple(x, d) == x \in Int /\ x % d = 0

(* A multiple is the quotient times the number. *)
LEMMA MultipleQuotient ==
  ASSUME NEW d \in Nat \ {0}, NEW x, Multiple(x, d)
  PROVE  x \div d \in Int /\ d * (x \div d) = x
  <1>1. x \in Int /\ x % d = 0
    BY DEF Multiple
  <1>2. x \div d \in Int /\ x = d * (x \div d) + (x % d)
    BY <1>1, Division
  <1>3. d * (x \div d) \in Int
    BY <1>2
  <1>4. QED
    BY <1>1, <1>2, <1>3

(* What is a number times another is a multiple of it. *)
LEMMA MultipleProduct ==
  ASSUME NEW d \in Nat \ {0}, NEW q \in Int
  PROVE  Multiple(d * q, d) /\ (d * q) \div d = q
  <1>1. d * q \in Int /\ d * q = d * q + 0 /\ 0 \in 0 .. d - 1
    OBVIOUS
  <1>2. QED
    BY <1>1, DivisionUnique DEF Multiple

(* A positive number is a multiple of itself, 0 of every one. *)
LEMMA MultipleOnce ==
  ASSUME NEW d \in Nat \ {0}
  PROVE  Multiple(0, d) /\ Multiple(d, d)
  <1>1. 0 = d * 0 + 0 /\ d = d * 1 + 0 /\ 0 \in 0 .. d - 1 /\ d \in Int
    OBVIOUS
  <1>2. 0 % d = 0 /\ d % d = 0
    BY <1>1, DivisionUnique
  <1>3. QED
    BY <1>1, <1>2 DEF Multiple

(* Sums and differences of multiples are multiples. *)
LEMMA MultipleSum ==
  ASSUME NEW d \in Nat \ {0}, NEW x, NEW y, Multiple(x, d), Multiple(y, d)
  PROVE  Multiple(x + y, d) /\ Multiple(x - y, d) /\ Multiple(0 - x, d)
  <1>1. PICK p \in Int : x = d * p
    BY MultipleQuotient
  <1>2. PICK q \in Int : y = d * q
    BY MultipleQuotient
  <1>3. x + y = d * (p + q) /\ x - y = d * (p - q) /\ 0 - x = d * (0 - p)
    BY <1>1, <1>2
  <1>4. p + q \in Int /\ p - q \in Int /\ 0 - p \in Int
    OBVIOUS
  <1>5. QED
    BY <1>3, <1>4, MultipleProduct

(* Multiples that differ are a number apart at least. *)
LEMMA MultipleApart ==
  ASSUME NEW d \in Nat \ {0}, NEW x, NEW y, Multiple(x, d), Multiple(y, d), x < y
  PROVE  x + d <= y
  <1>1. PICK p \in Int : x = d * p
    BY MultipleQuotient
  <1>2. PICK q \in Int : y = d * q
    BY MultipleQuotient
  <1>3. p < q
    <2>1. CASE p >= q
      <3>1. d * p >= d * q
        BY <2>1
      <3>2. QED
        BY <3>1, <1>1, <1>2
    <2>2. QED
      BY <2>1
  <1>4. d * q >= d * (p + 1)
    BY <1>3
  <1>5. d * (p + 1) = d * p + d /\ d * p \in Int
    OBVIOUS
  <1>6. QED
    BY <1>1, <1>2, <1>4, <1>5

(* A number is its own remainder if it is less. *)
LEMMA SmallRemainder ==
  ASSUME NEW d \in Nat \ {0}, NEW x \in 0 .. d - 1
  PROVE  x % d = x
  <1>1. x = d * 0 + x
    OBVIOUS
  <1>2. QED
    BY <1>1, DivisionUnique

(* A number less than 0 by less than d. *)
LEMMA NegativeRemainder ==
  ASSUME NEW d \in Nat \ {0}, NEW x \in Int, x < 0, 0 - d <= x
  PROVE  x % d = x + d
  <1>1. x = d * (-1) + (x + d) /\ x + d \in 0 .. d - 1
    OBVIOUS
  <1>2. QED
    BY <1>1, DivisionUnique

-----------------------------------------------------------------------------
(* The constants. *)

(* What AllocatorAssumption says of numbers. *)
LEMMA Constants ==
  /\ Cell \in Nat \ {0} /\ HalfRange \in Nat \ {0} /\ Page \in Nat \ {0}
  /\ StartBreak \in Nat \ {0} /\ MaxBreak \in Nat \ {0}
  /\ Multiple(HalfRange, Cell) /\ Multiple(StartBreak, Cell)
  /\ Cell <= StartBreak /\ Cell <= HalfRange
  /\ StartBreak < MaxBreak /\ MaxBreak + Page <= HalfRange
  <1>1. /\ Cell \in Nat \ {0} /\ HalfRange \in Nat \ {0} /\ Page \in Nat \ {0}
        /\ StartBreak \in Nat \ {0} /\ MaxBreak \in Nat \ {0}
        /\ StartBreak < MaxBreak /\ MaxBreak + Page <= HalfRange
    BY AllocatorAssumption
  <1>2. ASSUME NEW x \in {HalfRange, StartBreak} PROVE Multiple(x, Cell) /\ Cell <= x
    <2>1. PICK i \in 1 .. HalfRange : x = i * Cell
      BY AllocatorAssumption
    <2>2. i \in Int /\ i >= 1 /\ i * Cell = Cell * i
      BY <1>1
    <2>3. Multiple(x, Cell)
      BY <1>1, <2>1, <2>2, MultipleProduct
    <2>4. Cell * i >= Cell
      BY <1>1, <2>2
    <2>5. QED
      BY <2>1, <2>2, <2>3, <2>4
  <1>3. QED
    BY <1>1, <1>2

(* Numbers that fit in a cell are not wrapped. *)
LEMMA WrapFits ==
  ASSUME NEW x \in 0 - HalfRange .. HalfRange - 1
  PROVE  Wrap(x) = x
  <1>1. HalfRange \in Nat \ {0} /\ x \in Int
    BY Constants
  <1> DEFINE d == 2 * HalfRange
  <1>2. d \in Nat \ {0} /\ x + HalfRange \in 0 .. d - 1
    BY <1>1
  <1>3. (x + HalfRange) % d = x + HalfRange
    BY <1>2, SmallRemainder
  <1>4. QED
    BY <1>1, <1>3 DEF Wrap

(* What is wrapped fits in a cell. *)
LEMMA WrapRange ==
  ASSUME NEW x \in Int
  PROVE  Wrap(x) \in 0 - HalfRange .. HalfRange - 1
  <1>1. HalfRange \in Nat \ {0}
    BY Constants
  <1> DEFINE d == 2 * HalfRange
  <1>2. d \in Nat \ {0} /\ x + HalfRange \in Int
    BY <1>1
  <1>3. (x + HalfRange) % d \in 0 .. d - 1
    BY <1>2, Division
  <1>4. QED
    BY <1>1, <1>3 DEF Wrap

(* The next multiple of a cell. *)
Up(n) == ((n + Cell - 1) \div Cell) * Cell

(* What is rounded up is a multiple of the cell, not smaller and less than
   a cell larger. *)
LEMMA UpMultiple ==
  ASSUME NEW n \in Int
  PROVE  Multiple(Up(n), Cell) /\ n <= Up(n) /\ Up(n) <= n + Cell - 1
  <1>1. Cell \in Nat \ {0} /\ n + Cell - 1 \in Int
    BY Constants
  <1> DEFINE q == (n + Cell - 1) \div Cell
             r == (n + Cell - 1) % Cell
  <1>2. q \in Int /\ r \in 0 .. Cell - 1 /\ n + Cell - 1 = Cell * q + r
    BY <1>1, Division
  <1>3. Up(n) = q * Cell
    BY DEF Up
  <1> HIDE DEF q, r
  <1>4. q * Cell = Cell * q /\ Cell * q \in Int
    BY <1>1, <1>2
  <1>5. Multiple(Up(n), Cell)
    BY <1>1, <1>2, <1>3, <1>4, MultipleProduct
  <1>6. QED
    BY <1>1, <1>2, <1>3, <1>4, <1>5

(* A multiple is its own. *)
LEMMA UpSame ==
  ASSUME NEW n, Multiple(n, Cell)
  PROVE  Up(n) = n
  <1>1. n \in Int /\ Cell \in Nat \ {0}
    BY Constants DEF Multiple
  <1>2. Multiple(Up(n), Cell) /\ n <= Up(n) /\ Up(n) <= n + Cell - 1
    BY <1>1, UpMultiple
  <1>3. Up(n) \in Int
    BY <1>2 DEF Multiple
  <1>4. CASE n < Up(n)
    BY <1>1, <1>2, <1>3, <1>4, MultipleApart
  <1>5. QED
    BY <1>1, <1>2, <1>3, <1>4

(* aligned, as long as the result fits in a cell. *)
LEMMA AlignedUp ==
  ASSUME NEW n \in Int
  PROVE  /\ Aligned(n) \in 0 - HalfRange .. HalfRange - 1
         /\ Up(n) \in 0 - HalfRange .. HalfRange - 1 => Aligned(n) = Up(n)
  <1>1. Aligned(n) = Wrap(Up(n))
    BY DEF Aligned, Up
  <1>2. Up(n) \in Int
    BY UpMultiple DEF Multiple
  <1>3. QED
    BY <1>1, <1>2, WrapFits, WrapRange

(* Aligning does not change a multiple of the cell that is a signed cell. *)
LEMMA AlignedSame ==
  ASSUME NEW a \in 0 - HalfRange .. HalfRange - 1, Multiple(a, Cell)
  PROVE  Aligned(a) = a
  <1>1. a \in Int
    BY Constants
  <1>2. QED
    BY <1>1, UpSame, AlignedUp

(* The sizes that are small enough to be told from addresses: sums of one and
   an address do not wrap.                                                   *)
SmallRequests == \A n \in Sizes : n + MaxBreak + 2 * Cell < HalfRange

(* A size that a block may have. *)
BlockSize(n) == Multiple(n, Cell) /\ Cell <= n /\ n + MaxBreak + Cell < HalfRange

(* What a request is rounded up to. *)
LEMMA Requests ==
  ASSUME SmallRequests, NEW n \in Sizes, n >= 0
  PROVE  BlockSize(Asked(n)) /\ Rounded(n) = Asked(n) /\ n <= Asked(n)
  <1>1. /\ n \in Int /\ Cell \in Nat \ {0} /\ MaxBreak \in Nat /\ HalfRange \in Nat
        /\ n + MaxBreak + 2 * Cell < HalfRange
    <2>1. n \in Int
      BY Constants, AllocatorAssumption
    <2>2. QED
      BY <2>1, Constants DEF SmallRequests
  <1>2. CASE n = 0
    <2>2. Multiple(Cell, Cell)
      BY <1>1, MultipleOnce
    <2>3. Cell \in 0 - HalfRange .. HalfRange - 1
      BY <1>1
    <2>4. Aligned(Cell) = Cell
      BY <2>2, <2>3, AlignedSame
    <2>5. Asked(n) = Cell /\ Rounded(n) = Aligned(Cell)
      BY <1>2 DEF Asked, Rounded
    <2>6. Cell + MaxBreak + Cell < HalfRange
      BY <1>1, <1>2
    <2>7. QED
      BY <1>1, <1>2, <2>2, <2>4, <2>5, <2>6 DEF BlockSize
  <1>3. CASE n # 0
    <2>1. Asked(n) = Up(n) /\ Rounded(n) = Aligned(n)
      BY <1>3 DEF Asked, Rounded, Up
    <2>2. Multiple(Up(n), Cell) /\ n <= Up(n) /\ Up(n) <= n + Cell - 1
      BY <1>1, UpMultiple
    <2>3. Up(n) \in Int /\ n >= 1
      BY <1>1, <1>3, <2>2 DEF Multiple
    <2>4. Multiple(0, Cell) /\ 0 < Up(n)
      BY <1>1, <2>2, <2>3, MultipleOnce
    <2>5. 0 + Cell <= Up(n)
      BY <1>1, <2>2, <2>4, MultipleApart
    <2>6. Up(n) \in 0 - HalfRange .. HalfRange - 1
      BY <1>1, <2>2, <2>3
    <2>7. Aligned(n) = Up(n)
      BY <1>1, <2>6, AlignedUp
    <2>8. Up(n) + MaxBreak + Cell < HalfRange /\ Cell <= Up(n)
      BY <1>1, <2>2, <2>3, <2>5
    <2>9. QED
      BY <2>1, <2>2, <2>7, <2>8 DEF BlockSize
  <1>4. QED
    BY <1>2, <1>3

(* A size already rounded stays as it is. *)
LEMMA RoundedTwice ==
  ASSUME NEW n, BlockSize(n)
  PROVE  Rounded(n) = n /\ n \in Int /\ n > 0
  <1>1. n \in Int /\ n > 0 /\ n \in 0 - HalfRange .. HalfRange - 1
    BY Constants DEF BlockSize, Multiple
  <1>2. Aligned(n) = n
    BY <1>1, AlignedSame DEF BlockSize
  <1>3. n # 0
    BY <1>1
  <1>4. QED
    BY <1>1, <1>2, <1>3 DEF Rounded

(* The test of within, for an address and the arena. *)
LEMMA WithinArena ==
  ASSUME NEW u \in 0 - HalfRange .. HalfRange - 1, NEW top \in StartBreak + Cell .. MaxBreak
  PROVE  Within(u, StartBreak + Cell, top + 1) <=> StartBreak + Cell <= u /\ u <= top
  <1> DEFINE d == 2 * HalfRange
             lo == StartBreak + Cell
             hi == top + 1
  <1>1. /\ u \in Int /\ HalfRange \in Nat \ {0} /\ StartBreak \in Nat \ {0} /\ Cell \in Nat \ {0}
        /\ MaxBreak \in Nat /\ MaxBreak < HalfRange /\ top \in Int
        /\ Cell <= StartBreak /\ StartBreak < MaxBreak /\ Page \in Nat \ {0}
        /\ MaxBreak + Page <= HalfRange
    BY Constants
  <1>2. d \in Nat \ {0} /\ u - lo \in Int /\ hi - lo \in Int
    BY <1>1
  <1>3. Within(u, lo, hi) <=> ((u - lo) % d) < ((hi - lo) % d)
    BY DEF Within
  <1>4. ASSUME NEW x \in Int, 0 <= x, x < d PROVE x % d = x
    BY <1>2, <1>4, SmallRemainder
  <1>5. ASSUME NEW x \in Int, x < 0, 0 - d <= x PROVE x % d = x + d
    BY <1>2, <1>5, NegativeRemainder
  <1>6. (hi - lo) % d = hi - lo
    <2>1. 0 <= hi - lo /\ hi - lo < d
      BY <1>1
    <2>2. QED
      BY <1>2, <1>4, <2>1
  <1>7. CASE lo <= u
    <2>1. 0 <= u - lo /\ u - lo < d
      BY <1>1, <1>7
    <2>2. (u - lo) % d = u - lo
      BY <1>2, <1>4, <2>1
    <2>3. QED
      BY <1>1, <1>3, <1>6, <1>7, <2>2
  <1>8. CASE u < lo
    <2>1. u - lo < 0 /\ 0 - d <= u - lo
      BY <1>1, <1>8
    <2>2. (u - lo) % d = (u - lo) + d
      BY <1>2, <1>5, <2>1
    <2>3. ~((u - lo) + d < hi - lo)
      BY <1>1
    <2>4. QED
      BY <1>1, <1>3, <1>6, <1>8, <2>2, <2>3
  <1>9. QED
    BY <1>1, <1>7, <1>8

-----------------------------------------------------------------------------
(* Functions that are recursive along addresses, upwards. *)

(* The first of some natural numbers. *)
LEMMA FirstOf ==
  ASSUME NEW T \in SUBSET Nat, T # {}
  PROVE  \E x \in T : \A y \in T : x <= y
  <1> DEFINE R == OpToRel(<, Nat)
  <1>1. IsWellFoundedOn(R, Nat)
    BY NatLessThanWellFounded
  <1>2. \A x, y \in Nat : y < x => <<y, x>> \in R
    BY DEF OpToRel
  <1> HIDE DEF R
  <1>3. PICK x \in T : \A y \in T : ~(<<y, x>> \in R)
    BY <1>1, WFMin
  <1>4. ASSUME NEW y \in T PROVE x <= y
    <2>1. x \in Nat /\ y \in Nat
      BY <1>3
    <2>2. ~(y < x)
      BY <2>1, <1>2, <1>3
    <2>3. QED
      BY <2>1, <2>2
  <1>5. QED
    BY <1>3, <1>4

(* The last of some numbers that do not exceed a bound. *)
LEMMA LastOf ==
  ASSUME NEW T \in SUBSET Int, T # {}, NEW hi \in Int, \A x \in T : x <= hi
  PROVE  \E x \in T : \A y \in T : y <= x
  <1> DEFINE U == {hi - y : y \in T}
  <1>1. \A y \in T : hi - y \in Nat
    OBVIOUS
  <1>2. U \in SUBSET Nat /\ U # {}
    BY <1>1
  <1>3. PICK u \in U : \A w \in U : u <= w
    <2> HIDE DEF U
    <2>1. QED
      BY <1>2, FirstOf
  <1>4. PICK x \in T : u = hi - x
    BY <1>3
  <1>5. ASSUME NEW y \in T PROVE y <= x
    <2>1. u <= hi - y
      BY <1>3
    <2>2. QED
      BY <1>4, <2>1
  <1>6. QED
    BY <1>4, <1>5

(* The equation of such a function at h. *)
Equation(f, D, next, step, base, h) ==
  f[h] = IF h \in D THEN step[<<h, f[next[h]]>>] ELSE base[h]

(* A function of addresses exists that takes its value at h from that at a
   later address.                                                          *)
LEMMA Upwards ==
  ASSUME NEW V, NEW lo \in Int, NEW hi \in Int, NEW D \in SUBSET (lo .. hi), NEW next, NEW step,
         NEW base, base \in [Int -> V],
         \A h \in D : next[h] \in Int /\ next[h] > h,
         \A h \in D, v \in V : step[<<h, v>>] \in V
  PROVE  \E f \in [Int -> V] : \A h \in Int : Equation(f, D, next, step, base, h)
  <1> DEFINE Solves(f, n) ==
        /\ f \in [Int -> V]
        /\ \A h \in Int : h > hi - n => Equation(f, D, next, step, base, h)
        /\ \A h \in Int : h <= hi - n => f[h] = base[h]
  <1>1. Solves(base, 0)
    <2>1. \A h \in Int : h > hi - 0 => h \notin D
      OBVIOUS
    <2>2. QED
      BY <2>1 DEF Equation
  <1>2. ASSUME NEW n \in Nat, NEW f, Solves(f, n)
        PROVE  \E g : Solves(g, n + 1)
    <2> DEFINE k == hi - n
               g == [h \in Int |-> IF h = k /\ h \in D THEN step[<<h, f[next[h]]>>] ELSE f[h]]
    <2>1. k \in Int /\ hi - (n + 1) = k - 1
      OBVIOUS
    <2>2. f \in [Int -> V]
      BY <1>2
    <2>3. ASSUME NEW h \in Int PROVE g[h] \in V
      <3>1. CASE h = k /\ h \in D
        <4>1. f[next[h]] \in V
          BY <2>2, <3>1
        <4>2. QED
          BY <3>1, <4>1
      <3>2. CASE ~(h = k /\ h \in D)
        BY <2>2, <3>2
      <3>3. QED
        BY <3>1, <3>2
    <2>4. g \in [Int -> V]
      BY <2>3
    <2>5. \A h \in Int : h # k => g[h] = f[h]
      OBVIOUS
    <2>6. g[k] = IF k \in D THEN step[<<k, f[next[k]]>>] ELSE f[k]
      BY <2>1
    <2>7. f[k] = base[k]
      BY <1>2, <2>1
    <2> HIDE DEF g
    <2>8. ASSUME NEW h \in Int, h >= k PROVE Equation(g, D, next, step, base, h)
      <3>1. ASSUME h \in D PROVE g[next[h]] = f[next[h]]
        <4>1. next[h] \in Int /\ next[h] # k
          BY <2>1, <2>8, <3>1
        <4>2. QED
          BY <2>5, <4>1
      <3>2. CASE h = k
        BY <2>6, <2>7, <3>1, <3>2 DEF Equation
      <3>3. CASE h # k
        <4>1. h > hi - n
          BY <2>8, <3>3
        <4>2. Equation(f, D, next, step, base, h)
          BY <1>2, <4>1
        <4>3. g[h] = f[h]
          BY <2>5, <3>3
        <4>4. QED
          BY <3>1, <4>2, <4>3 DEF Equation
      <3>4. QED
        BY <3>2, <3>3
    <2>9. ASSUME NEW h \in Int, h <= k - 1 PROVE g[h] = base[h]
      <3>1. h # k /\ h <= hi - n
        BY <2>9
      <3>2. QED
        BY <1>2, <2>5, <3>1
    <2>10. Solves(g, n + 1)
      <3>1. \A h \in Int : h > hi - (n + 1) => h >= k
        OBVIOUS
      <3>2. QED
        BY <2>1, <2>4, <2>8, <2>9, <3>1
    <2>11. QED
      BY <2>10
  <1>3. \A n \in Nat : \E f : Solves(f, n)
    <2> DEFINE T == {n \in Nat : ~ \E f : Solves(f, n)}
    <2> HIDE DEF Solves
    <2>1. CASE T # {}
      <3>1. PICK n \in T : \A y \in T : n <= y
        <4>1. T \in SUBSET Nat
          OBVIOUS
        <4> HIDE DEF T
        <4>2. QED
          BY <2>1, <4>1, FirstOf
      <3>2. n \in Nat /\ n # 0
        BY <1>1, <3>1
      <3>3. n - 1 \in Nat /\ ~(n <= n - 1) /\ (n - 1) + 1 = n
        BY <3>2
      <3>4. PICK f : Solves(f, n - 1)
        BY <3>1, <3>3
      <3>5. \E g : Solves(g, (n - 1) + 1)
        BY <1>2, <3>3, <3>4
      <3>6. QED
        BY <3>1, <3>3, <3>5
    <2>2. QED
      BY <2>1
  <1>4. PICK n \in Nat : hi - n < lo
    <2>1. CASE hi < lo
      BY <2>1
    <2>2. CASE hi >= lo
      <3>1. hi - lo + 1 \in Nat /\ hi - (hi - lo + 1) < lo
        BY <2>2
      <3>2. QED
        BY <3>1
    <2>3. QED
      BY <2>1, <2>2
  <1>5. PICK f : Solves(f, n)
    BY <1>3
  <1>6. ASSUME NEW h \in Int PROVE Equation(f, D, next, step, base, h)
    <2>1. CASE h > hi - n
      BY <1>5, <2>1
    <2>2. CASE h <= hi - n
      <3>1. h \notin D
        BY <1>4, <2>2
      <3>2. QED
        BY <1>5, <2>2, <3>1 DEF Equation
    <2>3. QED
      BY <2>1, <2>2
  <1>7. QED
    BY <1>5, <1>6

-----------------------------------------------------------------------------
(* Memory, and the recursive functions that walk in it. *)

Contents == 0 - HalfRange .. HalfRange - 1
Memories == [CellAddresses -> Contents]

(* The address after the block with header h of a memory m. *)
After(m, h) == h + Cell + (IF m[h] < 0 THEN 0 - m[h] ELSE m[h])

Last == RoundUp(MaxBreak) - 1

(* Pages end no earlier than what they have to hold. *)
LEMMA PagesCover ==
  ASSUME NEW a \in Int
  PROVE  RoundUp(a) \in Int /\ a <= RoundUp(a)
  <1>1. Page \in Nat \ {0} /\ a + Page - 1 \in Int
    BY Constants
  <1> DEFINE q == (a + Page - 1) \div Page
             r == (a + Page - 1) % Page
  <1>2. q \in Int /\ r \in 0 .. Page - 1 /\ a + Page - 1 = Page * q + r
    BY <1>1, Division
  <1>3. RoundUp(a) = q * Page
    BY DEF RoundUp
  <1> HIDE DEF q, r
  <1>4. q * Page = Page * q /\ Page * q \in Int
    BY <1>1, <1>2
  <1>5. QED
    BY <1>1, <1>2, <1>3, <1>4

(* The addresses of cells are the multiples in the memory there may be. *)
LEMMA CellAddress ==
  /\ Last \in Int /\ MaxBreak <= Last + 1
  /\ CellAddresses \in SUBSET (StartBreak .. Last)
  /\ \A a \in CellAddresses : Multiple(a, Cell) /\ a \in Int /\ StartBreak <= a /\ a <= Last
  /\ \A a : Multiple(a, Cell) /\ StartBreak <= a /\ a <= Last => a \in CellAddresses
  <1>1. StartBreak \in Nat /\ MaxBreak \in Int
    BY Constants
  <1>2. RoundUp(MaxBreak) \in Int /\ MaxBreak <= RoundUp(MaxBreak)
    BY <1>1, PagesCover
  <1>3. Last \in Int /\ MaxBreak <= Last + 1
    BY <1>1, <1>2 DEF Last
  <1>4. CellAddresses = {a \in StartBreak .. Last : a % Cell = 0}
    BY DEF CellAddresses, Last
  <1>5. QED
    BY <1>1, <1>3, <1>4 DEF Multiple

(* A header leads to a later address. *)
LEMMA AfterLater ==
  ASSUME NEW m \in Memories, NEW h \in CellAddresses
  PROVE  /\ m[h] \in Int /\ After(m, h) \in Int /\ h + Cell <= After(m, h)
         /\ m[h] # 0 => h + Cell < After(m, h)
         /\ \A s : s.mem = m => NextHeader(s, h) = After(m, h)
  <1>1. m[h] \in Int /\ h \in Int /\ Cell \in Nat \ {0}
    BY Constants, CellAddress DEF Memories, Contents
  <1>2. Max({m[h], 0 - m[h]}) = IF m[h] < 0 THEN 0 - m[h] ELSE m[h]
    <2> DEFINE x == m[h]
               y == IF x < 0 THEN 0 - x ELSE x
    <2>1. x \in Int
      BY <1>1
    <2> HIDE DEF x
    <2>2. y \in {x, 0 - x} /\ \A z \in {x, 0 - x} : y >= z
      BY <2>1
    <2>3. \A w \in {x, 0 - x} : (\A z \in {x, 0 - x} : w >= z) => w = y
      BY <2>1
    <2> HIDE DEF y
    <2>4. Max({x, 0 - x}) = y
      BY <2>2, <2>3, Zenon DEF Max
    <2>5. QED
      BY <2>4 DEF x, y
  <1>3. \A s : s.mem = m => NextHeader(s, h) = After(m, h)
    BY <1>2 DEF NextHeader, After
  <1>4. QED
    BY <1>1, <1>3 DEF After

(* RunEnd, as the function it is. *)
RunEnds(s) ==
  CHOOSE end : end = [k \in Int |->
    IF Mapped(s, k) /\ s.mem[k] < 0 THEN end[NextHeader(s, k)] ELSE k]

(* RunEnd is what its recursive definition says. *)
LEMMA RunEndEquation ==
  ASSUME NEW s, s.mem \in Memories, NEW h \in Int
  PROVE  /\ RunEnd(s, h) \in Int
         /\ RunEnd(s, h) = IF Mapped(s, h) /\ s.mem[h] < 0 THEN RunEnd(s, After(s.mem, h)) ELSE h
  <1> DEFINE D    == {k \in CellAddresses : Mapped(s, k) /\ s.mem[k] < 0}
             next == [k \in Int |-> After(s.mem, k)]
             base == [k \in Int |-> k]
             step == [p \in Int \X Int |-> p[2]]
  <1>1. \A k \in D : After(s.mem, k) \in Int /\ After(s.mem, k) > k
    <2>1. SUFFICES ASSUME NEW k \in D PROVE After(s.mem, k) \in Int /\ After(s.mem, k) > k
      OBVIOUS
    <2>2. After(s.mem, k) \in Int /\ k + Cell <= After(s.mem, k)
      BY AfterLater
    <2>3. Cell \in Nat \ {0} /\ k \in Int
      BY Constants, CellAddress
    <2>4. QED
      BY <2>2, <2>3
  <1>2. PICK f \in [Int -> Int] : \A k \in Int : Equation(f, D, next, step, base, k)
    <2>1. D \in SUBSET (StartBreak .. Last) /\ StartBreak \in Int /\ Last \in Int
      <3>1. StartBreak \in Int /\ Last \in Int
        BY CellAddress, Constants
      <3>2. \A k \in D : k \in StartBreak .. Last
        BY CellAddress
      <3>3. QED
        BY <3>1, <3>2
    <2>2. \A k \in D : next[k] \in Int /\ next[k] > k
      BY <1>1, <2>1
    <2>3. base \in [Int -> Int]
      OBVIOUS
    <2>4. \A k \in D, v \in Int : step[<<k, v>>] \in Int
      BY <2>1
    <2> HIDE DEF D, next, base, step
    <2>5. QED
      BY <2>1, <2>2, <2>3, <2>4, Upwards
  <1>3. ASSUME NEW k \in Int
        PROVE  /\ (Mapped(s, k) /\ s.mem[k] < 0) <=> k \in D
               /\ k \in D => NextHeader(s, k) = After(s.mem, k) /\ After(s.mem, k) \in Int
    <2>1. Mapped(s, k) => k \in CellAddresses
      BY DEF Mapped
    <2>2. k \in D => NextHeader(s, k) = After(s.mem, k)
      BY AfterLater
    <2>3. QED
      BY <1>1, <2>1, <2>2
  <1>4. f = [k \in Int |-> IF Mapped(s, k) /\ s.mem[k] < 0 THEN f[NextHeader(s, k)] ELSE k]
    <2>1. ASSUME NEW k \in Int
          PROVE  f[k] = IF Mapped(s, k) /\ s.mem[k] < 0 THEN f[NextHeader(s, k)] ELSE k
      <3>1. CASE k \in D
        <4>1. f[k] = step[<<k, f[next[k]]>>]
          BY <1>2, <3>1 DEF Equation
        <4>2. next[k] = After(s.mem, k) /\ f[next[k]] \in Int
          BY <1>1, <1>2, <3>1
        <4>3. step[<<k, f[next[k]]>>] = f[next[k]]
          BY <4>2
        <4>4. NextHeader(s, k) = After(s.mem, k) /\ Mapped(s, k) /\ s.mem[k] < 0
          BY <1>3, <3>1
        <4> HIDE DEF D, next, step, base
        <4>5. QED
          BY <4>1, <4>2, <4>3, <4>4
      <3>2. CASE k \notin D
        <4>1. f[k] = base[k]
          BY <1>2, <3>2 DEF Equation
        <4>2. f[k] = k
          BY <4>1
        <4>3. ~(Mapped(s, k) /\ s.mem[k] < 0)
          BY <1>3, <3>2
        <4>4. QED
          BY <4>2, <4>3
      <3>3. QED
        BY <3>1, <3>2
    <2>2. QED
      BY <2>1
  <1>5. RunEnds(s) = [k \in Int |->
          IF Mapped(s, k) /\ s.mem[k] < 0 THEN RunEnds(s)[NextHeader(s, k)] ELSE k]
    BY <1>4 DEF RunEnds
  <1> DEFINE e == RunEnds(s)
  <1>6. \A k : RunEnd(s, k) = e[k]
    BY DEF RunEnd, RunEnds
  <1>7. e = [k \in Int |-> IF Mapped(s, k) /\ s.mem[k] < 0 THEN e[NextHeader(s, k)] ELSE k]
    BY <1>5
  <1> HIDE DEF e
  <1>8. \A k \in Int : e[k] = IF Mapped(s, k) /\ s.mem[k] < 0 THEN e[After(s.mem, k)] ELSE k
    BY <1>3, <1>7
  <1>9. \A k \in Int : e[k] \in Int
    <2> DEFINE T == {k \in Int : e[k] \notin Int}
    <2>1. CASE T # {}
      <3>1. \A k \in T : k \in D
        BY <1>3, <1>8
      <3>2. T \in SUBSET Int /\ Last \in Int /\ \A k \in T : k <= Last
        BY <3>1, CellAddress
      <3>3. PICK k \in T : \A j \in T : j <= k
        <4> HIDE DEF T
        <4>1. QED
          BY <2>1, <3>2, LastOf
      <3>4. k \in Int /\ k \in D /\ After(s.mem, k) \in Int /\ After(s.mem, k) > k
        BY <1>1, <3>1, <3>3
      <3>5. After(s.mem, k) \notin T
        BY <3>3, <3>4
      <3>6. e[k] = e[After(s.mem, k)]
        BY <1>3, <1>8, <3>4
      <3>7. QED
        BY <3>3, <3>4, <3>5, <3>6
    <2>2. QED
      BY <2>1
  <1>10. QED
    <2>1. After(s.mem, h) \in Int \/ ~(Mapped(s, h) /\ s.mem[h] < 0)
      BY <1>1, <1>3
    <2>2. QED
      BY <1>6, <1>8, <1>9

(* A run of free blocks ends behind its first header. *)
LEMMA RunEndLater ==
  ASSUME NEW s, s.mem \in Memories, NEW h \in Int
  PROVE  h <= RunEnd(s, h)
  <1> DEFINE T == {k \in Int : ~(k <= RunEnd(s, k))}
  <1>1. ASSUME NEW k \in T
        PROVE  /\ k \in CellAddresses /\ k <= Last /\ After(s.mem, k) \in Int /\ k < After(s.mem, k)
               /\ RunEnd(s, k) = RunEnd(s, After(s.mem, k)) /\ RunEnd(s, k) \in Int
    <2>1. k \in Int /\ RunEnd(s, k) \in Int
      BY RunEndEquation
    <2>2. Mapped(s, k) /\ s.mem[k] < 0
      <3>1. RunEnd(s, k) # k
        BY <2>1
      <3>2. QED
        BY <2>1, <3>1, RunEndEquation
    <2>3. k \in CellAddresses
      BY <2>2 DEF Mapped
    <2>4. RunEnd(s, k) = RunEnd(s, After(s.mem, k))
      BY <2>1, <2>2, RunEndEquation
    <2>5. After(s.mem, k) \in Int /\ k + Cell <= After(s.mem, k) /\ Cell \in Nat \ {0}
      BY <2>3, AfterLater, Constants
    <2>6. k < After(s.mem, k)
      BY <2>1, <2>5
    <2>7. QED
      BY <2>1, <2>3, <2>4, <2>5, <2>6, CellAddress
  <1>2. CASE T # {}
    <2>1. T \in SUBSET Int /\ Last \in Int /\ \A k \in T : k <= Last
      <3>1. T \in SUBSET Int
        OBVIOUS
      <3> HIDE DEF T
      <3>2. QED
        BY <1>1, <3>1, CellAddress
    <2>2. PICK k \in T : \A j \in T : j <= k
      <3> HIDE DEF T
      <3>1. QED
        BY <1>2, <2>1, LastOf
    <2>3. k \in Int /\ After(s.mem, k) \in Int /\ k < After(s.mem, k) /\ RunEnd(s, k) \in Int
      BY <1>1, <2>1
    <2>4. After(s.mem, k) \notin T
      BY <2>2, <2>3
    <2>5. After(s.mem, k) <= RunEnd(s, After(s.mem, k))
      BY <2>3, <2>4
    <2>6. RunEnd(s, k) = RunEnd(s, After(s.mem, k))
      BY <1>1
    <2>7. k <= RunEnd(s, k)
      BY <2>3, <2>5, <2>6
    <2>8. QED
      BY <2>2, <2>7
  <1>3. QED
    BY <1>2

(* A block is as large as the run that it begins, if it is free. *)
LEMMA JoinedLater ==
  ASSUME NEW s, s.mem \in Memories, NEW h, Mapped(s, h)
  PROVE  /\ h \in CellAddresses /\ Joined(s, h) \in Int /\ 0 <= Joined(s, h)
         /\ s.mem[h] < 0 => /\ h + Cell + Joined(s, h) = RunEnd(s, h)
                            /\ After(s.mem, h) <= RunEnd(s, h)
         /\ ~(s.mem[h] < 0) => h + Cell + Joined(s, h) = After(s.mem, h)
  <1>1. h \in CellAddresses
    BY DEF Mapped
  <1>2. /\ s.mem[h] \in Int /\ After(s.mem, h) \in Int /\ h + Cell <= After(s.mem, h)
        /\ h \in Int /\ Cell \in Nat \ {0}
    BY <1>1, AfterLater, CellAddress, Constants
  <1>3. CASE s.mem[h] < 0
    <2>1. RunEnd(s, h) = RunEnd(s, After(s.mem, h))
      BY <1>2, <1>3, RunEndEquation
    <2>2. RunEnd(s, h) \in Int /\ After(s.mem, h) <= RunEnd(s, h)
      BY <1>2, <2>1, RunEndLater, RunEndEquation
    <2>3. Joined(s, h) = RunEnd(s, h) - h - Cell
      BY <1>3 DEF Joined
    <2>4. Joined(s, h) \in Int /\ 0 <= Joined(s, h) /\ h + Cell + Joined(s, h) = RunEnd(s, h)
      BY <1>2, <2>2, <2>3
    <2>5. QED
      BY <1>1, <1>3, <2>2, <2>4
  <1>4. CASE ~(s.mem[h] < 0)
    <2>1. Joined(s, h) = s.mem[h]
      BY <1>4 DEF Joined
    <2>2. Joined(s, h) \in Int /\ 0 <= Joined(s, h)
      BY <1>2, <1>4, <2>1
    <2>3. QED
      BY <1>1, <1>4, <2>1, <2>2 DEF After
  <1>5. QED
    BY <1>3, <1>4

(* Where the search stops. *)
Stops(s, n, h) ==
  \/ ~Mapped(s, h)
  \/ s.mem[h] = 0
  \/ s.mem[h] < 0 /\ Serves(Joined(s, h), n)

(* Visited, as the function it is. *)
Visits(s, n) ==
  CHOOSE from : from = [h \in Int |->
        IF \/ ~Mapped(s, h)
           \/ s.mem[h] = 0
           \/ s.mem[h] < 0 /\ Serves(Joined(s, h), n)
        THEN <<h>>
        ELSE <<h>> \o from[h + Cell + Joined(s, h)]]

(* The search is what its recursive definition says. *)
LEMMA VisitsEquation ==
  ASSUME NEW s, s.mem \in Memories, NEW n, NEW h \in Int
  PROVE  /\ Visits(s, n)[h] \in Seq(Int)
         /\ Visits(s, n)[h] = IF Stops(s, n, h) THEN <<h>>
                              ELSE <<h>> \o Visits(s, n)[h + Cell + Joined(s, h)]
  <1> DEFINE D    == {k \in CellAddresses : ~Stops(s, n, k)}
             next == [k \in Int |-> k + Cell + Joined(s, k)]
             base == [k \in Int |-> <<k>>]
             step == [p \in Int \X Seq(Int) |-> <<p[1]>> \o p[2]]
  <1>1. \A k \in D : /\ k \in Int /\ k <= Last /\ k + Cell + Joined(s, k) \in Int
                     /\ k + Cell + Joined(s, k) > k
    <2>1. SUFFICES ASSUME NEW k \in D
                   PROVE  /\ k \in Int /\ k <= Last /\ k + Cell + Joined(s, k) \in Int
                          /\ k + Cell + Joined(s, k) > k
      OBVIOUS
    <2>2. Mapped(s, k)
      BY DEF Stops
    <2>3. Joined(s, k) \in Int /\ 0 <= Joined(s, k)
      BY <2>2, JoinedLater
    <2>4. Cell \in Nat \ {0} /\ k \in Int /\ k <= Last
      BY Constants, CellAddress
    <2>5. QED
      BY <2>3, <2>4
  <1>2. PICK f \in [Int -> Seq(Int)] : \A k \in Int : Equation(f, D, next, step, base, k)
    <2>1. D \in SUBSET (StartBreak .. Last) /\ StartBreak \in Int /\ Last \in Int
      <3>1. StartBreak \in Int /\ Last \in Int
        BY CellAddress, Constants
      <3>2. \A k \in D : k \in StartBreak .. Last
        BY CellAddress
      <3>3. QED
        BY <3>1, <3>2
    <2>2. \A k \in D : next[k] \in Int /\ next[k] > k
      BY <1>1
    <2>3. base \in [Int -> Seq(Int)]
      OBVIOUS
    <2>4. \A k \in D, v \in Seq(Int) : step[<<k, v>>] \in Seq(Int)
      <3>1. SUFFICES ASSUME NEW k \in D, NEW v \in Seq(Int) PROVE step[<<k, v>>] \in Seq(Int)
        OBVIOUS
      <3>2. k \in Int
        BY <1>1
      <3>3. step[<<k, v>>] = <<k>> \o v
        BY <3>2
      <3>4. <<k>> \in Seq(Int)
        BY <3>2
      <3>5. QED
        BY <3>3, <3>4, ConcatProperties
    <2> HIDE DEF D, next, base, step
    <2>5. QED
      BY <2>1, <2>2, <2>3, <2>4, Upwards
  <1>3. ASSUME NEW k \in Int PROVE Stops(s, n, k) <=> k \notin D
    <2>1. Mapped(s, k) => k \in CellAddresses
      BY DEF Mapped
    <2>2. QED
      BY <2>1 DEF Stops
  <1>4. ASSUME NEW k \in Int
        PROVE  f[k] = IF Stops(s, n, k) THEN <<k>> ELSE <<k>> \o f[k + Cell + Joined(s, k)]
    <2>1. CASE k \in D
      <3>1. f[k] = step[<<k, f[next[k]]>>]
        BY <1>2, <2>1 DEF Equation
      <3>2. next[k] = k + Cell + Joined(s, k) /\ f[next[k]] \in Seq(Int)
        BY <1>1, <1>2, <2>1
      <3>3. step[<<k, f[next[k]]>>] = <<k>> \o f[next[k]]
        BY <3>2
      <3>4. ~Stops(s, n, k)
        BY <1>3, <2>1
      <3> HIDE DEF D, next, step, base
      <3>5. QED
        BY <3>1, <3>2, <3>3, <3>4
    <2>2. CASE k \notin D
      <3>1. f[k] = base[k]
        BY <1>2, <2>2 DEF Equation
      <3>2. f[k] = <<k>>
        BY <3>1
      <3>3. Stops(s, n, k)
        BY <1>3, <2>2
      <3>4. QED
        BY <3>2, <3>3
    <2>3. QED
      BY <2>1, <2>2
  <1>5. f = [k \in Int |->
          IF \/ ~Mapped(s, k)
             \/ s.mem[k] = 0
             \/ s.mem[k] < 0 /\ Serves(Joined(s, k), n)
          THEN <<k>>
          ELSE <<k>> \o f[k + Cell + Joined(s, k)]]
    BY <1>4 DEF Stops
  <1>6. Visits(s, n) = [k \in Int |->
          IF \/ ~Mapped(s, k)
             \/ s.mem[k] = 0
             \/ s.mem[k] < 0 /\ Serves(Joined(s, k), n)
          THEN <<k>>
          ELSE <<k>> \o Visits(s, n)[k + Cell + Joined(s, k)]]
    BY <1>5 DEF Visits
  <1> DEFINE e == Visits(s, n)
  <1>7. e = [k \in Int |->
          IF \/ ~Mapped(s, k)
             \/ s.mem[k] = 0
             \/ s.mem[k] < 0 /\ Serves(Joined(s, k), n)
          THEN <<k>>
          ELSE <<k>> \o e[k + Cell + Joined(s, k)]]
    BY <1>6
  <1> HIDE DEF e
  <1>8. \A k \in Int : e[k] = IF Stops(s, n, k) THEN <<k>> ELSE <<k>> \o e[k + Cell + Joined(s, k)]
    BY <1>7 DEF Stops
  <1>9. \A k \in Int : e[k] \in Seq(Int)
    <2> DEFINE T == {k \in Int : e[k] \notin Seq(Int)}
    <2>1. CASE T # {}
      <3>1. \A k \in T : k \in D
        <4>1. SUFFICES ASSUME NEW k \in T, k \notin D PROVE FALSE
          OBVIOUS
        <4>2. e[k] = <<k>>
          BY <1>3, <1>8, <4>1
        <4>3. k \in Int /\ <<k>> \in Seq(Int)
          BY <4>1
        <4>4. e[k] \notin Seq(Int)
          BY <4>1
        <4>5. QED
          BY <4>2, <4>3, <4>4
      <3>2. T \in SUBSET Int /\ Last \in Int /\ \A k \in T : k <= Last
        BY <1>1, <3>1, CellAddress
      <3>3. PICK k \in T : \A j \in T : j <= k
        <4> HIDE DEF T
        <4>1. QED
          BY <2>1, <3>2, LastOf
      <3> DEFINE j == k + Cell + Joined(s, k)
      <3>4. k \in Int /\ j \in Int /\ j > k /\ ~Stops(s, n, k)
        BY <1>1, <1>3, <3>1, <3>3
      <3>5. e[k] = <<k>> \o e[j]
        BY <1>8, <3>4
      <3> HIDE DEF j
      <3>6. j \notin T
        BY <3>3, <3>4
      <3>7. e[j] \in Seq(Int) /\ <<k>> \in Seq(Int)
        BY <3>4, <3>6
      <3>8. e[k] \in Seq(Int)
        BY <3>5, <3>7, ConcatProperties
      <3>9. QED
        BY <3>3, <3>8
    <2>2. QED
      BY <2>1
  <1>10. QED
    BY <1>8, <1>9 DEF e

(* Visited is that search, from the start of the arena. *)
LEMMA VisitedVisits ==
  \A s, n : Visited(s, n) = Visits(s, n)[s.arenap]
  BY DEF Visited, Visits

-----------------------------------------------------------------------------
(* The list of blocks, by the set of its headers. *)

(* From each header but the last, at top, the list goes on to the next of them. *)
Listed(m, top, H) ==
  /\ H \subseteq CellAddresses /\ StartBreak \in H /\ top \in H
  /\ \A h \in H : h <= top
  /\ \A h \in H \ {top} : /\ m[h] # 0 /\ After(m, h) \in H
                          /\ \A k \in H : k <= h \/ After(m, h) <= k

Tiles(m, top, H) == Listed(m, top, H) /\ m[top] = 0

(* The headers of the blocks that are allocated. *)
Used(m, top, H) == {h \in H \ {top} : m[h] > 0}

(* An arena with headers H. *)
Open(s, H) ==
  /\ s = [mem |-> s.mem, brk |-> s.brk, arenap |-> StartBreak, bcache |-> s.brk]
  /\ s.mem \in Memories /\ s.brk \in StartBreak + Cell .. MaxBreak
  /\ Tiles(s.mem, s.brk - Cell, H)

(* Numbers that come up with every list. *)
LEMMA ListNumbers ==
  ASSUME NEW m \in Memories, NEW top, NEW H, Listed(m, top, H)
  PROVE  /\ top \in Int /\ H \subseteq Int /\ top <= Last
         /\ \A h \in H : /\ h \in CellAddresses /\ h \in Int /\ m[h] \in Int /\ StartBreak <= h /\ h <= top
                         /\ After(m, h) \in Int /\ h + Cell <= After(m, h) /\ h < After(m, h)
         /\ \A h \in H \ {top} : After(m, h) <= top /\ After(m, h) \in H
         /\ \A h, k \in H : h < k => h # top /\ After(m, h) <= k
  <1>1. Cell \in Nat \ {0}
    BY Constants
  <1>2. ASSUME NEW h \in H
        PROVE  /\ h \in CellAddresses /\ h \in Int /\ m[h] \in Int /\ StartBreak <= h /\ h <= top
               /\ After(m, h) \in Int /\ h + Cell <= After(m, h) /\ h <= Last
    <2>1. h \in CellAddresses /\ h <= top
      BY DEF Listed
    <2>2. QED
      BY <2>1, CellAddress, AfterLater
  <1>3. top \in H
    BY DEF Listed
  <1>4. top \in Int /\ H \subseteq Int /\ top <= Last
    BY <1>2, <1>3
  <1>5. \A h \in H : h < After(m, h)
    BY <1>1, <1>2
  <1>6. \A h \in H \ {top} : After(m, h) <= top /\ After(m, h) \in H
    BY DEF Listed
  <1>7. ASSUME NEW h \in H, NEW k \in H, h < k PROVE h # top /\ After(m, h) <= k
    <2>1. k <= top /\ h \in Int /\ k \in Int /\ top \in Int
      BY <1>2, <1>4
    <2>2. h # top
      BY <1>7, <2>1
    <2>3. k <= h \/ After(m, h) <= k
      BY <2>2 DEF Listed
    <2>4. QED
      BY <1>7, <2>1, <2>2, <2>3
  <1>8. QED
    BY <1>2, <1>4, <1>5, <1>6, <1>7

(* The headers of an arena are in memory. *)
LEMMA HeadersMapped ==
  ASSUME NEW s, NEW H, Open(s, H), NEW h \in H
  PROVE  Mapped(s, h)
  <1>1. /\ s.brk \in Int /\ Cell \in Nat \ {0} /\ s.mem \in Memories
        /\ Listed(s.mem, s.brk - Cell, H)
    BY Constants DEF Open, Tiles
  <1>2. h \in CellAddresses /\ h \in Int /\ h <= s.brk - Cell
    BY <1>1, ListNumbers
  <1>3. RoundUp(s.brk) \in Int /\ s.brk <= RoundUp(s.brk)
    BY <1>1, PagesCover
  <1>4. h < RoundUp(s.brk)
    BY <1>1, <1>2, <1>3
  <1>5. QED
    BY <1>2, <1>4 DEF Mapped

(* A run of free blocks ends at a header, with all headers between free. *)
RunAt(s, H, h) ==
  /\ RunEnd(s, h) \in H /\ h <= RunEnd(s, h) /\ ~(s.mem[RunEnd(s, h)] < 0)
  /\ s.mem[h] < 0 => After(s.mem, h) <= RunEnd(s, h)
  /\ \A k \in H : h <= k /\ k < RunEnd(s, h) => s.mem[k] < 0

(* In an arena a run of free blocks ends at the first header of the list
   that is not free. *)
LEMMA RunsEnd ==
  ASSUME NEW s, NEW H, Open(s, H), NEW h \in H
  PROVE  RunAt(s, H, h)
  <1>1. /\ s.mem \in Memories /\ Listed(s.mem, s.brk - Cell, H) /\ s.mem[s.brk - Cell] = 0
        /\ s.brk - Cell \in Int
    BY Constants DEF Open, Tiles
  <1> DEFINE top == s.brk - Cell
             T   == {k \in H : ~RunAt(s, H, k)}
  <1>2. CASE T # {}
    <2>1. T \in SUBSET Int /\ top \in Int /\ \A k \in T : k <= top
      BY <1>1, ListNumbers
    <2>2. PICK k \in T : \A j \in T : j <= k
      <3> HIDE DEF T, top
      <3>1. QED
        BY <1>2, <2>1, LastOf
    <2>3. k \in H /\ k \in Int /\ s.mem[k] \in Int /\ Mapped(s, k) /\ RunEnd(s, k) \in Int
      <3>1. k \in H
        BY <2>2
      <3>2. k \in Int /\ s.mem[k] \in Int
        BY <1>1, <3>1, ListNumbers
      <3>3. QED
        BY <1>1, <3>1, <3>2, HeadersMapped, RunEndEquation
    <2>4. CASE ~(s.mem[k] < 0)
      <3>1. RunEnd(s, k) = k
        BY <1>1, <2>3, <2>4, RunEndEquation
      <3>2. \A j \in H : ~(k <= j /\ j < k)
        <4>1. \A j \in H : j \in Int
          BY <1>1, ListNumbers
        <4>2. QED
          BY <2>3, <4>1
      <3>3. RunAt(s, H, k)
        BY <2>3, <2>4, <3>1, <3>2 DEF RunAt
      <3>4. QED
        BY <2>2, <3>3
    <2>5. CASE s.mem[k] < 0
      <3> DEFINE j == After(s.mem, k)
                 e == RunEnd(s, k)
      <3>1. k # top
        BY <1>1, <2>5
      <3>2. j \in H /\ j \in Int /\ k < j
        BY <1>1, <2>3, <3>1, ListNumbers
      <3>3. e = RunEnd(s, j)
        BY <1>1, <2>3, <2>5, RunEndEquation
      <3>4. j \notin T
        BY <2>2, <2>3, <3>2
      <3>5. RunAt(s, H, j)
        BY <3>2, <3>4
      <3>6. /\ e \in H /\ j <= e /\ ~(s.mem[e] < 0) /\ e \in Int
            /\ \A i \in H : j <= i /\ i < e => s.mem[i] < 0
        BY <2>3, <3>3, <3>5 DEF RunAt
      <3>7. ASSUME NEW i \in H, k <= i, i < e PROVE s.mem[i] < 0
        <4>1. i \in Int
          BY <1>1, ListNumbers
        <4>2. CASE i = k
          BY <2>5, <4>2
        <4>3. CASE i # k
          <5>1. k < i
            BY <2>3, <3>7, <4>1, <4>3
          <5>2. j <= i
            BY <1>1, <2>3, <5>1, ListNumbers
          <5>3. QED
            BY <3>6, <3>7, <5>2
        <4>4. QED
          BY <4>2, <4>3
      <3>8. k <= e
        BY <2>3, <3>2, <3>6
      <3>9. RunAt(s, H, k)
        BY <3>6, <3>7, <3>8 DEF RunAt
      <3>10. QED
        BY <2>2, <3>9
    <2>6. QED
      BY <2>4, <2>5
  <1>3. QED
    BY <1>2

(* What a search has visited: headers that lie outside the runs of the others. *)
Apart(s, R) == \A v, w \in R : s.mem[v] < 0 => w <= v \/ RunEnd(s, v) <= w

Searching(s, H, n, R, slot) ==
  /\ R \subseteq H /\ slot \in R /\ Apart(s, R)
  /\ s.mem[slot] = 0 \/ (s.mem[slot] < 0 /\ Serves(Joined(s, slot), n))

(* The same of the rest of a search, from header h on. *)
SearchAt(s, H, n, h) ==
  LET v == Visits(s, n)[h] IN
  /\ Len(v) > 0
  /\ Searching(s, H, n, Range(v), v[Len(v)])
  /\ \A w \in Range(v) : h <= w

(* A sequence with an element put before it. *)
LEMMA Prefixed ==
  ASSUME NEW h \in Int, NEW v \in Seq(Int), Len(v) > 0
  PROVE  LET u == <<h>> \o v IN
         Len(u) > 0 /\ Range(u) = {h} \cup Range(v) /\ u[Len(u)] = v[Len(v)]
  <1> DEFINE u == <<h>> \o v
  <1>1. <<h>> \in Seq(Int) /\ Len(<<h>>) = 1 /\ <<h>>[1] = h /\ Len(v) \in Nat
    BY LenProperties
  <1>2. /\ Len(u) = 1 + Len(v)
        /\ \A i \in 1 .. 1 + Len(v) : u[i] = IF i <= 1 THEN h ELSE v[i - 1]
        /\ DOMAIN u = 1 .. 1 + Len(v) /\ DOMAIN v = 1 .. Len(v)
    <2>1. u \in Seq(Int) /\ Len(u) = Len(<<h>>) + Len(v)
      BY <1>1, ConcatProperties
    <2>2. \A i \in 1 .. Len(<<h>>) + Len(v) :
            u[i] = IF i <= Len(<<h>>) THEN <<h>>[i] ELSE v[i - Len(<<h>>)]
      BY <1>1, ConcatProperties
    <2>3. DOMAIN u = 1 .. Len(u) /\ DOMAIN v = 1 .. Len(v)
      BY <2>1, LenProperties
    <2> HIDE DEF u
    <2>4. QED
      BY <1>1, <2>1, <2>2, <2>3
  <1> HIDE DEF u
  <1>3. u[Len(u)] = v[Len(v)]
    <2>1. 1 + Len(v) \in 1 .. 1 + Len(v) /\ ~(1 + Len(v) <= 1) /\ (1 + Len(v)) - 1 = Len(v)
      BY <1>1
    <2>2. QED
      BY <1>2, <2>1
  <1>4. ASSUME NEW x PROVE x \in Range(u) <=> x \in {h} \cup Range(v)
    <2>1. ASSUME x \in Range(u) PROVE x \in {h} \cup Range(v)
      <3>1. PICK i \in 1 .. 1 + Len(v) : x = u[i]
        BY <1>2, <2>1 DEF Range
      <3>2. CASE i <= 1
        BY <1>2, <3>1, <3>2
      <3>3. CASE ~(i <= 1)
        <4>1. i - 1 \in 1 .. Len(v) /\ x = v[i - 1]
          BY <1>1, <1>2, <3>1, <3>3
        <4>2. QED
          BY <1>2, <4>1 DEF Range
      <3>4. QED
        BY <3>2, <3>3
    <2>2. ASSUME x = h PROVE x \in Range(u)
      <3>1. 1 \in 1 .. 1 + Len(v) /\ u[1] = h
        BY <1>1, <1>2
      <3>2. QED
        BY <1>2, <2>2, <3>1 DEF Range
    <2>3. ASSUME x \in Range(v) PROVE x \in Range(u)
      <3>1. PICK i \in 1 .. Len(v) : x = v[i]
        BY <1>2, <2>3 DEF Range
      <3>2. i + 1 \in 1 .. 1 + Len(v) /\ ~(i + 1 <= 1) /\ (i + 1) - 1 = i
        BY <1>1
      <3>3. u[i + 1] = x
        BY <1>2, <3>1, <3>2
      <3>4. QED
        BY <1>2, <3>2, <3>3 DEF Range
    <2>4. QED
      BY <2>1, <2>2, <2>3
  <1>5. Range(u) = {h} \cup Range(v)
    BY <1>4
  <1>6. Len(u) > 0
    BY <1>1, <1>2
  <1>7. QED
    BY <1>3, <1>5, <1>6 DEF u

(* The search ends at a slot, and visits headers only. *)
LEMMA SearchEnds ==
  ASSUME NEW s, NEW H, Open(s, H), NEW n, NEW h \in H
  PROVE  SearchAt(s, H, n, h)
  <1>1. s.mem \in Memories /\ Listed(s.mem, s.brk - Cell, H) /\ s.mem[s.brk - Cell] = 0
    BY DEF Open, Tiles
  <1> DEFINE top == s.brk - Cell
             T   == {k \in H : ~SearchAt(s, H, n, k)}
  <1>2. CASE T # {}
    <2>1. T \in SUBSET Int /\ top \in Int /\ \A k \in T : k <= top
      BY <1>1, ListNumbers
    <2>2. PICK k \in T : \A j \in T : j <= k
      <3> HIDE DEF T, top
      <3>1. QED
        BY <1>2, <2>1, LastOf
    <2>3. k \in H /\ k \in Int /\ s.mem[k] \in Int /\ Mapped(s, k)
      <3>1. k \in H
        BY <2>2
      <3>2. k \in Int /\ s.mem[k] \in Int
        BY <1>1, <3>1, ListNumbers
      <3>3. QED
        BY <3>1, <3>2, HeadersMapped
    <2>4. CASE Stops(s, n, k)
      <3>1. Visits(s, n)[k] = <<k>>
        BY <1>1, <2>3, <2>4, VisitsEquation
      <3>2. Len(<<k>>) = 1 /\ <<k>>[1] = k /\ Range(<<k>>) = {k}
        BY DEF Range
      <3>3. Searching(s, H, n, {k}, k)
        <4>1. k <= k
          BY <2>3
        <4>2. Apart(s, {k})
          BY <4>1 DEF Apart
        <4>3. s.mem[k] = 0 \/ (s.mem[k] < 0 /\ Serves(Joined(s, k), n))
          BY <2>3, <2>4 DEF Stops
        <4>4. QED
          BY <2>3, <4>2, <4>3 DEF Searching
      <3>4. SearchAt(s, H, n, k)
        <4>1. Len(<<k>>) > 0 /\ <<k>>[Len(<<k>>)] = k /\ \A x \in {k} : k <= x
          BY <2>3, <3>2
        <4> DEFINE u == <<k>>
        <4>2. Visits(s, n)[k] = u /\ Len(u) > 0 /\ u[Len(u)] = k /\ Range(u) = {k}
          BY <3>1, <3>2, <4>1
        <4> HIDE DEF u
        <4>3. QED
          BY <3>3, <4>1, <4>2 DEF SearchAt
      <3>5. QED
        BY <2>2, <3>4
    <2>5. CASE ~Stops(s, n, k)
      <3> DEFINE j == k + Cell + Joined(s, k)
                 v == Visits(s, n)[k]
                 w == Visits(s, n)[j]
      <3>1. k # top /\ s.mem[k] # 0
        BY <1>1, <2>3, <2>5 DEF Stops
      <3>2. j \in H /\ j \in Int /\ k < j /\ (s.mem[k] < 0 => RunEnd(s, k) = j)
        <4>1. CASE s.mem[k] < 0
          <5>1. j = RunEnd(s, k)
            BY <1>1, <2>3, <4>1, JoinedLater
          <5>2. j \in H /\ After(s.mem, k) <= j
            BY <2>3, <4>1, <5>1, RunsEnd DEF RunAt
          <5>3. j \in Int /\ After(s.mem, k) \in Int /\ k < After(s.mem, k)
            BY <1>1, <2>3, <5>2, ListNumbers
          <5> HIDE DEF j
          <5>4. QED
            BY <2>3, <5>1, <5>2, <5>3
        <4>2. CASE ~(s.mem[k] < 0)
          <5>1. j = After(s.mem, k)
            BY <1>1, <2>3, <4>2, JoinedLater
          <5> HIDE DEF j
          <5>2. QED
            BY <1>1, <2>3, <3>1, <4>2, <5>1, ListNumbers
        <4>3. QED
          BY <4>1, <4>2
      <3>3. v = <<k>> \o w
        BY <1>1, <2>3, <2>5, VisitsEquation
      <3> HIDE DEF j
      <3>4. w \in Seq(Int)
        BY <1>1, <3>2, VisitsEquation
      <3>5. SearchAt(s, H, n, j)
        BY <2>2, <2>3, <3>2
      <3>6. Len(w) > 0 /\ Searching(s, H, n, Range(w), w[Len(w)]) /\ \A x \in Range(w) : j <= x
        BY <3>5 DEF SearchAt
      <3> HIDE DEF v, w
      <3>7. Len(v) > 0 /\ Range(v) = {k} \cup Range(w) /\ v[Len(v)] = w[Len(w)]
        BY <2>3, <3>3, <3>4, <3>6, Prefixed
      <3>8. Range(w) \subseteq H /\ \A x \in Range(w) : x \in Int /\ k < x
        <4>1. Range(w) \subseteq H
          BY <3>6 DEF Searching
        <4>2. H \subseteq Int
          BY <1>1, ListNumbers
        <4>3. ASSUME NEW x \in Range(w) PROVE x \in Int /\ k < x
          <5>1. x \in Int /\ j <= x
            BY <3>6, <4>1, <4>2
          <5>2. QED
            BY <2>3, <3>2, <5>1
        <4>4. QED
          BY <4>1, <4>3
      <3>9. Apart(s, Range(v))
        <4>1. SUFFICES ASSUME NEW x \in Range(v), NEW y \in Range(v), s.mem[x] < 0
                       PROVE  y <= x \/ RunEnd(s, x) <= y
          BY DEF Apart
        <4>2. CASE x = k /\ y = k
          BY <2>3, <4>2
        <4>3. CASE x = k /\ y \in Range(w)
          BY <3>2, <3>6, <4>1, <4>3
        <4>4. CASE x \in Range(w) /\ y = k
          <5>1. x \in Int /\ k < x
            BY <3>8, <4>4
          <5>2. QED
            BY <2>3, <4>4, <5>1
        <4>5. CASE x \in Range(w) /\ y \in Range(w)
          BY <3>6, <4>1, <4>5 DEF Searching, Apart
        <4>6. QED
          BY <3>7, <4>2, <4>3, <4>4, <4>5
      <3>10. Searching(s, H, n, Range(v), v[Len(v)])
        BY <2>3, <3>6, <3>7, <3>8, <3>9 DEF Searching
      <3>11. \A x \in Range(v) : k <= x
        BY <2>3, <3>7, <3>8
      <3>12. SearchAt(s, H, n, k)
        BY <3>7, <3>10, <3>11 DEF SearchAt, v
      <3>13. QED
        BY <2>2, <3>12
    <2>6. QED
      BY <2>4, <2>5
  <1>3. QED
    BY <1>2

(* The search from the start of the arena ends at a slot. *)
LEMMA SearchDone ==
  ASSUME NEW s, NEW H, Open(s, H), NEW n
  PROVE  LET v == Visited(s, n) IN Searching(s, H, n, Range(v), v[Len(v)])
  <1>1. s.arenap = StartBreak /\ StartBreak \in H
    BY DEF Open, Tiles, Listed
  <1>2. Visited(s, n) = Visits(s, n)[StartBreak]
    BY <1>1, VisitedVisits
  <1>3. SearchAt(s, H, n, StartBreak)
    BY <1>1, SearchEnds
  <1>4. QED
    BY <1>2, <1>3 DEF SearchAt

-----------------------------------------------------------------------------
(* Changes of the list. *)

(* The blocks at the headers U stay as they are, headers included. *)
Keeps(m, U, m2) ==
  \A h \in U : \A c \in CellAddresses : h <= c /\ c < After(m, h) => m2[c] = m[c]

(* No cell outside S becomes positive. *)
Lowers(m, m2, S) == \A c \in CellAddresses \ S : m[c] <= 0 => m2[c] <= 0

(* A block that stays as it is keeps its header. *)
LEMMA KeepsHeaders ==
  ASSUME NEW m \in Memories, NEW m2, NEW U, U \subseteq CellAddresses, Keeps(m, U, m2), NEW h \in U
  PROVE  m2[h] = m[h] /\ After(m2, h) = After(m, h)
  <1>1. h \in CellAddresses /\ h \in Int /\ After(m, h) \in Int /\ h + Cell <= After(m, h)
    BY CellAddress, AfterLater
  <1>2. h <= h /\ h < After(m, h)
    BY <1>1, Constants
  <1>3. m2[h] = m[h]
    BY <1>1, <1>2 DEF Keeps
  <1>4. QED
    BY <1>3 DEF After

(* What two changes keep is kept. *)
LEMMA KeepsTwice ==
  ASSUME NEW m \in Memories, NEW m2, NEW m3, NEW U, U \subseteq CellAddresses,
         Keeps(m, U, m2), Keeps(m2, U, m3)
  PROVE  Keeps(m, U, m3)
  <1>1. SUFFICES ASSUME NEW h \in U, NEW c \in CellAddresses, h <= c, c < After(m, h)
                 PROVE  m3[c] = m[c]
    BY DEF Keeps
  <1>2. After(m2, h) = After(m, h)
    BY KeepsHeaders
  <1>3. m2[c] = m[c]
    BY <1>1 DEF Keeps
  <1>4. m3[c] = m2[c]
    BY <1>1, <1>2 DEF Keeps
  <1>5. QED
    BY <1>3, <1>4

(* What two changes do not raise is not raised. *)
LEMMA LowersTwice ==
  ASSUME NEW m, NEW m2, NEW m3, NEW S, Lowers(m, m2, S), Lowers(m2, m3, S)
  PROVE  Lowers(m, m3, S)
  BY DEF Lowers

(* A change that leaves each header where it is. *)
LEMMA Rewritten ==
  ASSUME NEW m, NEW m2, NEW top, NEW H, Listed(m, top, H),
         \A h \in H \ {top} : m2[h] # 0 /\ After(m2, h) = After(m, h)
  PROVE  Listed(m2, top, H)
  BY DEF Listed

(* A block split in two, by a header g in its middle. *)
LEMMA Split ==
  ASSUME NEW m \in Memories, NEW m2, NEW top, NEW H, Listed(m, top, H),
         NEW h \in H \ {top}, NEW g \in CellAddresses, h < g, g < After(m, h),
         m2[h] # 0, After(m2, h) = g, m2[g] # 0, After(m2, g) = After(m, h),
         \A k \in H \ {top} : k # h => m2[k] = m[k]
  PROVE  Listed(m2, top, H \cup {g}) /\ g \notin H
  <1>1. g \in Int /\ h \in Int /\ top \in Int /\ H \subseteq Int
    BY ListNumbers, CellAddress
  <1>2. After(m, h) \in H /\ After(m, h) <= top /\ After(m, h) \in Int
    BY ListNumbers
  <1>3. \A k \in H : k <= h \/ After(m, h) <= k
    BY DEF Listed
  <1>4. g \notin H
    BY <1>1, <1>2, <1>3
  <1>5. ASSUME NEW k \in (H \cup {g}) \ {top}
        PROVE  /\ m2[k] # 0 /\ After(m2, k) \in H \cup {g}
               /\ \A j \in H \cup {g} : j <= k \/ After(m2, k) <= j
    <2>1. CASE k = h
      <3>1. ASSUME NEW j \in H \cup {g} PROVE j <= h \/ g <= j
        <4>1. CASE j = g
          BY <1>1, <4>1
        <4>2. CASE j \in H
          <5>1. j \in Int /\ (j <= h \/ After(m, h) <= j)
            BY <1>1, <1>3, <4>2
          <5>2. QED
            BY <1>1, <1>2, <5>1
        <4>3. QED
          BY <4>1, <4>2
      <3>2. QED
        BY <2>1, <3>1
    <2>2. CASE k = g
      <3>1. ASSUME NEW j \in H \cup {g} PROVE j <= g \/ After(m, h) <= j
        <4>1. CASE j = g
          BY <1>1, <4>1
        <4>2. CASE j \in H
          <5>1. j \in Int /\ (j <= h \/ After(m, h) <= j)
            BY <1>1, <1>3, <4>2
          <5>2. QED
            BY <1>1, <1>2, <5>1
        <4>3. QED
          BY <4>1, <4>2
      <3>2. QED
        BY <1>2, <2>2, <3>1
    <2>3. CASE k \in H \ {top} /\ k # h
      <3>1. m2[k] = m[k]
        BY <2>3
      <3>2. After(m2, k) = After(m, k)
        BY <3>1 DEF After
      <3>3. m[k] # 0 /\ After(m, k) \in H /\ \A j \in H : j <= k \/ After(m, k) <= j
        BY <2>3 DEF Listed
      <3>4. g <= k \/ After(m, k) <= g
        <4>1. k \in Int /\ After(m, k) \in Int /\ k < After(m, k)
          BY <2>3, ListNumbers
        <4>2. CASE k <= h
          <5>1. k < h
            BY <1>1, <2>3, <4>1, <4>2
          <5>2. After(m, k) <= h
            BY <2>3, <5>1, ListNumbers
          <5>3. QED
            BY <1>1, <4>1, <5>2
        <4>3. CASE After(m, h) <= k
          BY <1>1, <1>2, <4>1, <4>3
        <4>4. QED
          BY <1>3, <2>3, <4>2, <4>3
      <3>5. QED
        BY <3>1, <3>2, <3>3, <3>4
    <2>4. QED
      BY <2>1, <2>2, <2>3
  <1>6. \A k \in H \cup {g} : k <= top
    <2>1. g <= top
      BY <1>1, <1>2
    <2>2. QED
      BY <2>1 DEF Listed
  <1>7. QED
    BY <1>4, <1>5, <1>6 DEF Listed

(* A block put at the end, with a new end after it. *)
LEMMA Longer ==
  ASSUME NEW m \in Memories, NEW m2, NEW top, NEW H, Listed(m, top, H),
         NEW g \in CellAddresses, top < g, m2[top] # 0, After(m2, top) = g,
         \A k \in H \ {top} : m2[k] = m[k]
  PROVE  Listed(m2, g, H \cup {g}) /\ g \notin H
  <1>1. g \in Int /\ top \in Int /\ H \subseteq Int /\ top \in H
    BY ListNumbers, CellAddress DEF Listed
  <1>2. \A k \in H : k < g
    <2>1. SUFFICES ASSUME NEW k \in H PROVE k < g
      OBVIOUS
    <2>2. k <= top /\ k \in Int
      BY <1>1 DEF Listed
    <2>3. QED
      BY <1>1, <2>2
  <1>3. g \notin H
    BY <1>1, <1>2
  <1>4. ASSUME NEW k \in (H \cup {g}) \ {g}
        PROVE  /\ m2[k] # 0 /\ After(m2, k) \in H \cup {g}
               /\ \A j \in H \cup {g} : j <= k \/ After(m2, k) <= j
    <2>1. CASE k = top
      <3>1. ASSUME NEW j \in H \cup {g} PROVE j <= top \/ g <= j
        <4>1. CASE j = g
          BY <1>1, <4>1
        <4>2. CASE j \in H
          BY <4>2 DEF Listed
        <4>3. QED
          BY <4>1, <4>2
      <3>2. QED
        BY <2>1, <3>1
    <2>2. CASE k # top
      <3>1. k \in H \ {top} /\ m2[k] = m[k]
        BY <2>2
      <3>2. After(m2, k) = After(m, k)
        BY <3>1 DEF After
      <3>3. m[k] # 0 /\ After(m, k) \in H /\ \A j \in H : j <= k \/ After(m, k) <= j
        BY <3>1 DEF Listed
      <3>4. After(m, k) <= g
        <4> DEFINE a == After(m, k)
        <4>1. a \in H
          BY <3>3
        <4> HIDE DEF a
        <4>2. a < g /\ a \in Int
          BY <1>1, <1>2, <4>1
        <4>3. QED
          BY <1>1, <4>2 DEF a
      <3>5. QED
        BY <3>1, <3>2, <3>3, <3>4
    <2>3. QED
      BY <2>1, <2>2
  <1>5. \A k \in H \cup {g} : k <= g
    BY <1>1, <1>2
  <1>6. QED
    BY <1>3, <1>4, <1>5 DEF Listed

(* The headers that are left when the free blocks after those visited have
   joined them.                                                             *)
Remaining(s, H, R) ==
  {k \in H : \A w \in R : s.mem[w] < 0 => k <= w \/ RunEnd(s, w) <= k}

(* What changes nothing for the blocks that are allocated. *)
SameBlocks(s, H, s2, H2) ==
  /\ Used(s2.mem, s2.brk - Cell, H2) = Used(s.mem, s.brk - Cell, H)
  /\ Keeps(s.mem, Used(s.mem, s.brk - Cell, H), s2.mem)

(* Joining the free blocks that were visited leaves the arena closed and
   its allocated blocks alone. *)
LEMMA Defragmenting ==
  ASSUME NEW s, NEW H, Open(s, H), NEW n, NEW visited, NEW slot,
         Searching(s, H, n, Range(visited), slot)
  PROVE  LET d  == Defragmented(s, visited)
             H2 == Remaining(s, H, Range(visited)) IN
         /\ Open(d, H2) /\ SameBlocks(s, H, d, H2) /\ d.brk = s.brk
         /\ Lowers(s.mem, d.mem, {})
         /\ slot \in H2
         /\ d.mem[slot] = 0 \/ (d.mem[slot] < 0 /\ Serves(0 - d.mem[slot], n))
  <1> DEFINE R   == Range(visited)
             d   == Defragmented(s, visited)
             H2  == Remaining(s, H, R)
             m   == s.mem
             m2  == [h \in CellAddresses |-> IF h \in R /\ m[h] < 0 THEN 0 - Joined(s, h) ELSE m[h]]
             top == s.brk - Cell
  <1>1. /\ m \in Memories /\ Listed(m, top, H) /\ m[top] = 0 /\ s.brk \in StartBreak + Cell .. MaxBreak
        /\ s = [mem |-> m, brk |-> s.brk, arenap |-> StartBreak, bcache |-> s.brk]
    BY DEF Open, Tiles
  <1>2. R \subseteq H /\ slot \in R /\ Apart(s, R)
        /\ (m[slot] = 0 \/ (m[slot] < 0 /\ Serves(Joined(s, slot), n)))
    BY DEF Searching
  <1>3. /\ d = [mem |-> m2, brk |-> s.brk, arenap |-> StartBreak, bcache |-> s.brk]
        /\ d.mem = m2 /\ d.brk = s.brk
    <2>1. d = [s EXCEPT !.mem = m2]
      BY DEF Defragmented
    <2> HIDE DEF d, m2
    <2>2. QED
      BY <1>1, <2>1
  <1>4. /\ HalfRange \in Nat /\ MaxBreak \in Nat /\ Cell \in Nat \ {0} /\ StartBreak \in Nat
        /\ Page \in Nat /\ MaxBreak + Page <= HalfRange /\ top \in Int /\ top <= MaxBreak
    BY <1>1, Constants
  <1>5. ASSUME NEW h \in R, m[h] < 0
        PROVE  /\ h \in H /\ h \in Int /\ h # top /\ RunAt(s, H, h) /\ RunEnd(s, h) \in H
               /\ RunEnd(s, h) \in Int /\ h < RunEnd(s, h) /\ RunEnd(s, h) <= top
               /\ Joined(s, h) \in Int /\ h + Cell + Joined(s, h) = RunEnd(s, h)
               /\ 0 < Joined(s, h) /\ Joined(s, h) <= HalfRange
    <2>1. h \in H /\ h # top
      BY <1>1, <1>2, <1>5
    <2>2. RunAt(s, H, h) /\ Mapped(s, h)
      BY <2>1, RunsEnd, HeadersMapped
    <2>3. RunEnd(s, h) \in H /\ After(m, h) <= RunEnd(s, h)
      BY <1>5, <2>2 DEF RunAt
    <2>4. /\ h \in Int /\ StartBreak <= h /\ RunEnd(s, h) \in Int /\ RunEnd(s, h) <= top
          /\ After(m, h) \in Int /\ h < After(m, h) /\ h \in CellAddresses
      BY <1>1, <2>1, <2>3, ListNumbers
    <2>5. Joined(s, h) \in Int /\ h + Cell + Joined(s, h) = RunEnd(s, h)
      BY <1>1, <1>5, <2>2, JoinedLater
    <2>6. h + Cell < After(m, h)
      BY <1>1, <1>5, <2>4, AfterLater
    <2>7. 0 < Joined(s, h) /\ Joined(s, h) <= HalfRange
      BY <1>4, <2>3, <2>4, <2>5, <2>6
    <2>8. h < RunEnd(s, h)
      BY <2>3, <2>4
    <2>9. QED
      BY <2>1, <2>2, <2>3, <2>4, <2>5, <2>7, <2>8
  <1>6. /\ \A h \in R : m[h] < 0 => /\ m2[h] = 0 - Joined(s, h) /\ m2[h] < 0
                                    /\ After(m2, h) = RunEnd(s, h)
        /\ \A h \in CellAddresses : ~(h \in R /\ m[h] < 0) => m2[h] = m[h] /\ After(m2, h) = After(m, h)
    <2>1. ASSUME NEW h \in R, m[h] < 0
          PROVE  m2[h] = 0 - Joined(s, h) /\ m2[h] < 0 /\ After(m2, h) = RunEnd(s, h)
      <3>1. h \in CellAddresses
        BY <1>1, <1>5, <2>1, ListNumbers
      <3>2. m2[h] = 0 - Joined(s, h)
        BY <2>1, <3>1
      <3> HIDE DEF m2
      <3>3. m2[h] < 0 /\ 0 - m2[h] = Joined(s, h)
        BY <1>5, <2>1, <3>2
      <3>4. After(m2, h) = h + Cell + Joined(s, h)
        BY <3>3 DEF After
      <3>5. QED
        BY <1>5, <2>1, <3>2, <3>3, <3>4
    <2>2. ASSUME NEW h \in CellAddresses, ~(h \in R /\ m[h] < 0)
          PROVE  m2[h] = m[h] /\ After(m2, h) = After(m, h)
      <3>1. m2[h] = m[h]
        BY <2>2
      <3>2. QED
        BY <3>1 DEF After
    <2>3. QED
      BY <2>1, <2>2
  <1>7. m2 \in Memories
    <2>1. ASSUME NEW h \in CellAddresses PROVE m2[h] \in Contents
      <3>1. CASE h \in R /\ m[h] < 0
        <4>1. m2[h] = 0 - Joined(s, h) /\ Joined(s, h) \in Int /\ 0 < Joined(s, h)
              /\ Joined(s, h) <= HalfRange
          BY <1>5, <1>6, <3>1
        <4> HIDE DEF m2
        <4>2. QED
          BY <1>4, <4>1 DEF Contents
      <3>2. CASE ~(h \in R /\ m[h] < 0)
        <4>1. m2[h] = m[h]
          BY <1>6, <3>2
        <4> HIDE DEF m2
        <4>2. QED
          BY <1>1, <4>1 DEF Memories
      <3>3. QED
        BY <3>1, <3>2
    <2>2. QED
      BY <2>1 DEF Memories
  <1> HIDE DEF m2, d
  <1>8. \A k \in H : k \in CellAddresses /\ k \in Int /\ m[k] \in Int
    BY <1>1, ListNumbers
  <1>9. R \subseteq H2
    <2>1. SUFFICES ASSUME NEW k \in R, NEW w \in R, m[w] < 0 PROVE k <= w \/ RunEnd(s, w) <= k
      BY <1>2 DEF Remaining
    <2>2. QED
      BY <1>2, <2>1 DEF Apart
  <1>10. H2 \subseteq H /\ \A k \in H2, w \in R : m[w] < 0 => k <= w \/ RunEnd(s, w) <= k
    BY DEF Remaining
  <1>11. ASSUME NEW k \in H, \A w \in R : m[w] < 0 => k <= w \/ RunEnd(s, w) <= k
         PROVE  k \in H2
    BY <1>11 DEF Remaining
  <1> HIDE DEF H2
  <1>12. ASSUME NEW h \in H2 \ {top}
         PROVE  /\ m2[h] # 0 /\ After(m2, h) \in H2
                /\ \A k \in H2 : k <= h \/ After(m2, h) <= k
    <2>1. h \in H \ {top} /\ h \in Int
      BY <1>8, <1>10
    <2>2. CASE h \in R /\ m[h] < 0
      <3>1. /\ m2[h] < 0 /\ After(m2, h) = RunEnd(s, h) /\ RunEnd(s, h) \in H
            /\ RunEnd(s, h) \in Int /\ h < RunEnd(s, h)
        BY <1>5, <1>6, <2>2
      <3>2. ASSUME NEW w \in R, m[w] < 0 PROVE RunEnd(s, h) <= w \/ RunEnd(s, w) <= RunEnd(s, h)
        <4>1. w \in Int /\ RunEnd(s, w) \in Int
          BY <1>5, <3>2
        <4>2. (h <= w \/ RunEnd(s, w) <= h) /\ (w <= h \/ RunEnd(s, h) <= w)
          BY <1>2, <2>2, <3>2 DEF Apart
        <4>3. CASE w = h
          BY <3>1, <4>3
        <4>4. CASE RunEnd(s, w) <= h
          BY <2>1, <3>1, <4>1, <4>4
        <4>5. CASE w # h /\ ~(RunEnd(s, w) <= h)
          BY <2>1, <4>1, <4>2, <4>5
        <4>6. QED
          BY <4>3, <4>4, <4>5
      <3>3. RunEnd(s, h) \in H2
        BY <1>11, <3>1, <3>2
      <3>4. \A k \in H2 : k <= h \/ RunEnd(s, h) <= k
        BY <1>10, <2>2
      <3>5. m2[h] # 0
        BY <3>1
      <3>6. QED
        BY <3>1, <3>3, <3>4, <3>5
    <2>3. CASE ~(h \in R /\ m[h] < 0)
      <3>1. m2[h] = m[h] /\ After(m2, h) = After(m, h)
        BY <1>6, <1>8, <2>1, <2>3
      <3>2. /\ m[h] # 0 /\ After(m, h) \in H /\ After(m, h) \in Int /\ h < After(m, h)
            /\ \A k \in H : k <= h \/ After(m, h) <= k
        BY <1>1, <2>1, ListNumbers DEF Listed
      <3>3. ASSUME NEW w \in R, m[w] < 0 PROVE After(m, h) <= w \/ RunEnd(s, w) <= After(m, h)
        <4>1. w \in H /\ w \in Int /\ RunEnd(s, w) \in Int
          BY <1>5, <3>3
        <4>2. w <= h \/ After(m, h) <= w
          BY <3>2, <4>1
        <4>3. h <= w \/ RunEnd(s, w) <= h
          BY <1>10, <3>3
        <4>4. w # h
          BY <2>3, <3>3
        <4>5. QED
          BY <2>1, <3>2, <4>1, <4>2, <4>3, <4>4
      <3>4. After(m, h) \in H2
        BY <1>11, <3>2, <3>3
      <3>5. QED
        BY <1>10, <3>1, <3>2, <3>4
    <2>4. QED
      BY <2>2, <2>3
  <1>13. StartBreak \in H2 /\ top \in H2
    <2>1. StartBreak \in H /\ top \in H
      BY <1>1 DEF Listed
    <2>2. \A w \in R : m[w] < 0 => StartBreak <= w /\ RunEnd(s, w) <= top
      <3>1. \A w \in R : StartBreak <= w
        BY <1>1, <1>2, ListNumbers
      <3>2. QED
        BY <1>5, <3>1
    <2>3. QED
      BY <1>11, <2>1, <2>2
  <1>14. m2[top] = 0
    BY <1>1, <1>6, <1>8, <1>10, <1>13
  <1>15. Tiles(m2, top, H2)
    <2>1. H2 \subseteq CellAddresses /\ \A h \in H2 : h <= top
      BY <1>1, <1>8, <1>10 DEF Listed
    <2>2. Listed(m2, top, H2)
      BY <1>12, <1>13, <2>1 DEF Listed
    <2>3. QED
      BY <1>14, <2>2 DEF Tiles
  <1>16. Open(d, H2)
    BY <1>1, <1>3, <1>7, <1>15 DEF Open
  <1>17. Used(m2, top, H2) = Used(m, top, H)
    <2>1. ASSUME NEW h \in Used(m2, top, H2) PROVE h \in Used(m, top, H)
      <3>1. h \in H2 \ {top} /\ m2[h] > 0 /\ h \in H \ {top} /\ h \in CellAddresses
        BY <1>8, <1>10, <2>1 DEF Used
      <3>2. ~(h \in R /\ m[h] < 0)
        <4>1. m2[h] \in Int
          BY <1>7, <3>1 DEF Memories, Contents
        <4>2. ~(m2[h] < 0)
          BY <3>1, <4>1
        <4>3. QED
          BY <1>6, <4>2
      <3>3. m2[h] = m[h]
        BY <1>6, <3>1, <3>2
      <3>4. QED
        BY <3>1, <3>3 DEF Used
    <2>2. ASSUME NEW h \in Used(m, top, H) PROVE h \in Used(m2, top, H2)
      <3>1. h \in H \ {top} /\ m[h] > 0 /\ h \in CellAddresses /\ m[h] \in Int /\ h \in Int
        BY <1>8, <2>2 DEF Used
      <3>2. ~(m[h] < 0)
        BY <3>1
      <3>3. m2[h] = m[h]
        BY <1>6, <3>1, <3>2
      <3>4. ASSUME NEW w \in R, m[w] < 0 PROVE h <= w \/ RunEnd(s, w) <= h
        <4>1. RunAt(s, H, w) /\ w \in Int /\ RunEnd(s, w) \in Int
          BY <1>5, <3>4
        <4>2. w <= h /\ h < RunEnd(s, w) => m[h] < 0
          BY <3>1, <4>1 DEF RunAt
        <4>3. QED
          BY <3>1, <3>2, <4>1, <4>2
      <3>5. h \in H2
        BY <1>11, <3>1, <3>4
      <3>6. QED
        BY <3>1, <3>3, <3>5 DEF Used
    <2>3. QED
      BY <2>1, <2>2
  <1>18. Keeps(m, Used(m, top, H), m2)
    <2>1. SUFFICES ASSUME NEW h \in Used(m, top, H), NEW c \in CellAddresses, h <= c, c < After(m, h)
                   PROVE  m2[c] = m[c]
      BY DEF Keeps
    <2>2. h \in H \ {top} /\ m[h] > 0 /\ h \in Int /\ m[h] \in Int /\ After(m, h) \in Int
      BY <1>1, ListNumbers DEF Used
    <2>3. CASE c \in R /\ m[c] < 0
      <3>1. c \in H /\ c \in Int
        BY <1>5, <2>3
      <3>2. c # h
        BY <2>2, <2>3
      <3>3. h < c
        BY <2>1, <2>2, <3>1, <3>2
      <3>4. After(m, h) <= c
        BY <1>1, <2>2, <3>1, <3>3, ListNumbers
      <3>5. QED
        BY <2>1, <2>2, <3>1, <3>4
    <2>4. CASE ~(c \in R /\ m[c] < 0)
      BY <1>6, <2>4
    <2>5. QED
      BY <2>3, <2>4
  <1>19. SameBlocks(s, H, d, H2)
    BY <1>3, <1>17, <1>18 DEF SameBlocks
  <1>20. Lowers(m, m2, {})
    <2>1. SUFFICES ASSUME NEW c \in CellAddresses, m[c] <= 0 PROVE m2[c] <= 0
      BY DEF Lowers
    <2>2. m2[c] \in Int
      BY <1>7 DEF Memories, Contents
    <2>3. CASE c \in R /\ m[c] < 0
      <3>1. m2[c] < 0
        BY <1>6, <2>3
      <3>2. QED
        BY <2>2, <3>1
    <2>4. CASE ~(c \in R /\ m[c] < 0)
      <3>1. m2[c] = m[c]
        BY <1>6, <2>4
      <3>2. QED
        BY <2>1, <3>1
    <2>5. QED
      BY <2>3, <2>4
  <1>21. m2[slot] = 0 \/ (m2[slot] < 0 /\ Serves(0 - m2[slot], n))
    <2>1. slot \in H /\ slot \in CellAddresses
      BY <1>2, <1>8
    <2>2. CASE m[slot] = 0
      <3>1. m2[slot] = m[slot]
        BY <1>6, <2>1, <2>2
      <3>2. QED
        BY <2>2, <3>1
    <2>3. CASE m[slot] < 0 /\ Serves(Joined(s, slot), n)
      <3>1. m2[slot] = 0 - Joined(s, slot) /\ m2[slot] < 0 /\ Joined(s, slot) \in Int
        BY <1>2, <1>5, <1>6, <2>3
      <3>2. 0 - m2[slot] = Joined(s, slot)
        BY <3>1
      <3>3. QED
        BY <2>3, <3>1, <3>2
    <2>4. QED
      BY <1>2, <2>2, <2>3
  <1>22. slot \in H2
    BY <1>2, <1>9
  <1>23. QED
    BY <1>3, <1>16, <1>19, <1>20, <1>21, <1>22 DEF d, H2

-----------------------------------------------------------------------------
(* ALLOCATE in an arena that is open. *)

(* An arena whose last header may have been written over. *)
Left(s, H) ==
  /\ s = [mem |-> s.mem, brk |-> s.brk, arenap |-> StartBreak, bcache |-> s.brk]
  /\ s.mem \in Memories /\ s.brk \in StartBreak + Cell .. MaxBreak
  /\ Listed(s.mem, s.brk - Cell, H)

(* There is a new block of n bytes, with header h. *)
GrantedAt(s, H, r, n, H2, h) ==
  /\ r.code = "ok" /\ r.addr = h + Cell
  /\ Open(r.s, H2) /\ h \in H2 /\ h \notin Used(s.mem, s.brk - Cell, H)
  /\ Used(r.s.mem, r.s.brk - Cell, H2) = Used(s.mem, s.brk - Cell, H) \cup {h}
  /\ r.s.mem[h] = n
  /\ Keeps(s.mem, Used(s.mem, s.brk - Cell, H), r.s.mem)
  /\ Lowers(s.mem, r.s.mem, {h})

(* The system has no more memory. *)
ThrownWith(s, H, r, H2) ==
  /\ r.code = "thrown" /\ r.addr = 0
  /\ Left(r.s, H2) /\ SameBlocks(s, H, r.s, H2)

Outcome(s, H, r, n) ==
  (\E H2, h : GrantedAt(s, H, r, n, H2, h)) \/ (\E H2 : ThrownWith(s, H, r, H2))

(* The break moves to a greater address, or not at all. *)
LEMMA BreakMoves ==
  ASSUME NEW s, s = [mem |-> s.mem, brk |-> s.brk, arenap |-> s.arenap, bcache |-> s.bcache],
         s.brk \in StartBreak .. MaxBreak, NEW addr \in Int, s.brk < addr
  PROVE  LET g == _allocb(s, addr) IN
         \/ /\ addr <= MaxBreak /\ g.thrown = FALSE
            /\ g.s = [mem |-> s.mem, brk |-> addr, arenap |-> s.arenap, bcache |-> addr]
         \/ /\ MaxBreak < addr /\ g.thrown = TRUE
            /\ g.s = [mem |-> s.mem, brk |-> s.brk, arenap |-> s.arenap, bcache |-> s.brk]
  <1> DEFINE new == Brk(s, addr)
             g   == _allocb(s, addr)
             t   == [mem |-> s.mem, brk |-> new, arenap |-> s.arenap, bcache |-> new]
  <1>1. /\ StartBreak \in Nat /\ MaxBreak \in Nat
        /\ s.brk \in Int /\ StartBreak <= s.brk /\ s.brk <= MaxBreak
    BY Constants
  <1>2. new = IF addr <= MaxBreak THEN addr ELSE s.brk
    BY <1>1 DEF Brk
  <1> HIDE DEF new
  <1>3. [s EXCEPT !.brk = new, !.bcache = new] = t
    <2> DEFINE u == [mem |-> s.mem, brk |-> new, arenap |-> s.arenap, bcache |-> s.bcache]
    <2>1. [s EXCEPT !.brk = new] = u
      OBVIOUS
    <2>2. [u EXCEPT !.bcache = new] = t
      OBVIOUS
    <2> HIDE DEF u, t
    <2>3. QED
      BY <2>1, <2>2, Zenon
  <1>4. g = [s |-> [s EXCEPT !.brk = new, !.bcache = new], thrown |-> addr > new]
    BY Zenon DEF _allocb, new
  <1>5. g = [s |-> t, thrown |-> addr > new]
    BY <1>3, <1>4, Zenon
  <1> HIDE DEF g
  <1>6. CASE addr <= MaxBreak
    <2>1. new = addr /\ (addr > new) = FALSE
      BY <1>2, <1>6
    <2>2. g.s = t /\ g.thrown = FALSE
      BY <1>5, <2>1
    <2>3. QED
      BY <1>6, <2>1, <2>2 DEF g
  <1>7. CASE ~(addr <= MaxBreak)
    <2>1. new = s.brk /\ (addr > new) = TRUE
      BY <1>2, <1>7
    <2>2. MaxBreak < addr
      BY <1>1, <1>7
    <2>3. g.s = t /\ g.thrown = TRUE
      BY <1>5, <2>1
    <2>4. QED
      BY <2>1, <2>2, <2>3 DEF g
  <1>8. QED
    BY <1>6, <1>7

(* Headers and used blocks of a block size. *)
LEMMA BlockSizes ==
  ASSUME NEW n, BlockSize(n), NEW a \in CellAddresses
  PROVE  /\ n \in Int /\ n > 0 /\ n \in Contents /\ 0 - n \in Contents
         /\ Multiple(a + Cell + n, Cell) /\ Multiple(a + Cell, Cell)
  <1>1. Cell \in Nat \ {0} /\ HalfRange \in Nat /\ MaxBreak \in Nat /\ Multiple(n, Cell)
        /\ Cell <= n /\ n + MaxBreak + Cell < HalfRange /\ n \in Int
    BY Constants DEF BlockSize, Multiple
  <1>2. n > 0 /\ n \in Contents /\ 0 - n \in Contents
    BY <1>1 DEF Contents
  <1>3. Multiple(a, Cell) /\ Multiple(Cell, Cell)
    BY <1>1, CellAddress, MultipleOnce
  <1>4. Multiple(a + Cell, Cell)
    BY <1>1, <1>3, MultipleSum
  <1>5. Multiple((a + Cell) + n, Cell)
    BY <1>1, <1>4, MultipleSum
  <1>6. QED
    BY <1>1, <1>2, <1>4, <1>5

(* A new block at the end: it is there, or the break could not be moved. *)
LEMMA Extending ==
  ASSUME NEW s, NEW H, Open(s, H), NEW n, BlockSize(n)
  PROVE  Outcome(s, H, Extended(s, s.brk - Cell, n), n)
  <1> DEFINE top  == s.brk - Cell
             m    == s.mem
             m1   == [m EXCEPT ![top] = n]
             s1   == [mem |-> m1, brk |-> s.brk, arenap |-> StartBreak, bcache |-> s.brk]
             addr == top + n + 2 * Cell
             r    == Extended(s, top, n)
             g    == _allocb(s1, addr)
  <1>1. /\ m \in Memories /\ Listed(m, top, H) /\ m[top] = 0 /\ s.brk \in StartBreak + Cell .. MaxBreak
        /\ s = [mem |-> m, brk |-> s.brk, arenap |-> StartBreak, bcache |-> s.brk]
    BY DEF Open, Tiles
  <1>2. /\ Cell \in Nat \ {0} /\ StartBreak \in Nat /\ MaxBreak \in Nat /\ HalfRange \in Nat
        /\ s.brk \in Int /\ top \in Int /\ top \in CellAddresses /\ top \in H /\ StartBreak <= top
        /\ top + Cell = s.brk
    <2>1. top \in H
      BY <1>1 DEF Listed
    <2>2. top \in CellAddresses /\ top \in Int /\ StartBreak <= top
      BY <1>1, <2>1, ListNumbers
    <2>3. QED
      BY <1>1, <2>1, <2>2, Constants
  <1>3. /\ n \in Int /\ n > 0 /\ n \in Contents /\ Multiple(top + Cell + n, Cell)
        /\ n + MaxBreak + Cell < HalfRange
    BY <1>2, BlockSizes DEF BlockSize
  <1>4. Wrap(addr) = addr /\ addr \in Int /\ s.brk < addr
    <2>1. addr \in Int /\ s.brk < addr
      BY <1>2, <1>3
    <2>2. addr \in 0 - HalfRange .. HalfRange - 1
      BY <1>1, <1>2, <1>3
    <2>3. QED
      BY <2>1, <2>2, WrapFits
  <1>5. [s EXCEPT !.mem[top] = n] = s1
    BY <1>1
  <1>6. r = IF g.thrown
            THEN [s |-> g.s, code |-> "thrown", addr |-> 0]
            ELSE [s |-> [g.s EXCEPT !.mem[g.s.brk - Cell] = 0], code |-> "ok", addr |-> top + Cell]
    <2>1. g = _allocb([s EXCEPT !.mem[top] = n], Wrap(top + n + 2 * Cell))
      BY <1>4, <1>5
    <2> HIDE DEF g
    <2>2. QED
      BY <2>1 DEF Extended
  <1>7. /\ m1 \in Memories /\ m1[top] = n /\ \A c \in CellAddresses : c # top => m1[c] = m[c]
        /\ DOMAIN m1 = CellAddresses
    BY <1>1, <1>2, <1>3 DEF Memories
  <1>8. \/ /\ addr <= MaxBreak /\ g.thrown = FALSE
           /\ g.s = [mem |-> m1, brk |-> addr, arenap |-> StartBreak, bcache |-> addr]
        \/ /\ MaxBreak < addr /\ g.thrown = TRUE
           /\ g.s = s1
    <2>1. s.brk \in StartBreak .. MaxBreak
      BY <1>1, <1>2
    <2>2. /\ s1 = [mem |-> s1.mem, brk |-> s1.brk, arenap |-> s1.arenap, bcache |-> s1.bcache]
          /\ s1.mem = m1 /\ s1.brk = s.brk /\ s1.arenap = StartBreak /\ s1.bcache = s.brk
      OBVIOUS
    <2>3. s1.brk \in StartBreak .. MaxBreak /\ s1.brk < addr /\ addr \in Int
      BY <1>4, <2>1, <2>2
    <2> HIDE DEF m1, addr, s1
    <2>4. \/ /\ addr <= MaxBreak /\ g.thrown = FALSE
             /\ g.s = [mem |-> s1.mem, brk |-> addr, arenap |-> s1.arenap, bcache |-> addr]
          \/ /\ MaxBreak < addr /\ g.thrown = TRUE
             /\ g.s = [mem |-> s1.mem, brk |-> s1.brk, arenap |-> s1.arenap, bcache |-> s1.brk]
      BY <2>2, <2>3, BreakMoves
    <2>5. QED
      BY <2>2, <2>4 DEF s1
  <1> HIDE DEF g, r, m1
  <1>9. /\ \A h \in H \ {top} : m1[h] = m[h] /\ h \in CellAddresses
        /\ \A h \in H \ {top} : After(m1, h) = After(m, h)
    <2>1. \A h \in H \ {top} : m1[h] = m[h] /\ h \in CellAddresses
      BY <1>1, <1>7, ListNumbers
    <2>2. QED
      BY <2>1 DEF After
  <1>10. \A h \in Used(m, top, H), c \in CellAddresses : h <= c /\ c < After(m, h) => c < top
    <2>1. SUFFICES ASSUME NEW h \in Used(m, top, H), NEW c \in CellAddresses, c < After(m, h)
                   PROVE  c < top
      OBVIOUS
    <2>2. h \in H \ {top}
      BY DEF Used
    <2>3. After(m, h) <= top /\ After(m, h) \in Int /\ c \in Int
      BY <1>1, <2>2, ListNumbers, CellAddress
    <2>4. QED
      BY <1>2, <2>1, <2>3
  <1>11. CASE g.thrown = TRUE
    <2>1. /\ r.code = "thrown" /\ r.addr = 0 /\ r.s = s1 /\ r.s.mem = m1 /\ r.s.brk = s.brk
      BY <1>6, <1>8, <1>11
    <2>2. Listed(m1, top, H)
      <3>1. \A h \in H \ {top} : m1[h] # 0 /\ After(m1, h) = After(m, h)
        BY <1>1, <1>9 DEF Listed
      <3>2. QED
        BY <1>1, <3>1, Rewritten
    <2>3. Left(r.s, H)
      BY <1>1, <1>7, <2>1, <2>2 DEF Left
    <2>4. Used(m1, top, H) = Used(m, top, H)
      BY <1>9 DEF Used
    <2>5. Keeps(m, Used(m, top, H), m1)
      <3>1. SUFFICES ASSUME NEW h \in Used(m, top, H), NEW c \in CellAddresses, h <= c, c < After(m, h)
                     PROVE  m1[c] = m[c]
        BY DEF Keeps
      <3>2. c < top
        BY <1>10, <3>1
      <3>3. c # top
        BY <1>2, <3>2
      <3>4. QED
        BY <1>7, <3>3
    <2>6. ThrownWith(s, H, r, H)
      BY <2>1, <2>3, <2>4, <2>5 DEF ThrownWith, SameBlocks
    <2>7. QED
      BY <2>6 DEF Outcome, r
  <1>12. CASE g.thrown = FALSE
    <2> DEFINE top2 == top + Cell + n
               m2   == [m1 EXCEPT ![top2] = 0]
    <2>1. addr <= MaxBreak /\ top2 \in Int /\ addr - Cell = top2 /\ top < top2 /\ top2 <= Last
          /\ StartBreak <= top2
      <3>1. addr <= MaxBreak /\ MaxBreak <= Last + 1 /\ Last \in Int
        BY <1>8, <1>12, CellAddress
      <3>2. QED
        BY <1>2, <1>3, <3>1
    <2>2. top2 \in CellAddresses
      BY <1>3, <2>1, CellAddress
    <2>3. /\ r.code = "ok" /\ r.addr = top + Cell
          /\ r.s = [mem |-> m2, brk |-> addr, arenap |-> StartBreak, bcache |-> addr]
          /\ r.s.mem = m2 /\ r.s.brk = addr
      <3>1. g.s = [mem |-> m1, brk |-> addr, arenap |-> StartBreak, bcache |-> addr]
        BY <1>8, <1>12
      <3>2. g.s.brk - Cell = top2
        BY <2>1, <3>1
      <3>3. r = [s |-> [g.s EXCEPT !.mem[g.s.brk - Cell] = 0], code |-> "ok", addr |-> top + Cell]
        BY <1>6, <1>12
      <3> HIDE DEF addr, top2, top
      <3>4. r.s = [g.s EXCEPT !.mem[top2] = 0] /\ r.code = "ok" /\ r.addr = top + Cell
        BY <3>2, <3>3
      <3>5. [g.s EXCEPT !.mem[top2] = 0] = [mem |-> m2, brk |-> addr, arenap |-> StartBreak, bcache |-> addr]
        BY <3>1
      <3>6. QED
        BY <3>4, <3>5
    <2>4. /\ m2 \in Memories /\ m2[top2] = 0 /\ \A c \in CellAddresses : c # top2 => m2[c] = m1[c]
      <3>1. 0 \in Contents
        BY Constants DEF Contents
      <3>2. QED
        BY <1>7, <2>2, <3>1 DEF Memories
    <2> HIDE DEF m2
    <2>5. m2[top] = n /\ After(m2, top) = top2 /\ m2[top] # 0
      <3>1. m2[top] = n
        BY <1>2, <1>7, <2>1, <2>4
      <3>2. After(m2, top) = top + Cell + n
        BY <1>3, <3>1 DEF After
      <3>3. QED
        BY <1>3, <3>1, <3>2
    <2>6. ASSUME NEW h \in H \ {top} PROVE m2[h] = m[h]
      <3>1. h <= top /\ h \in Int /\ h \in CellAddresses
        BY <1>1, ListNumbers
      <3>2. h # top2
        BY <1>2, <2>1, <3>1
      <3>3. QED
        BY <1>9, <2>4, <3>1, <3>2
    <2>7. Listed(m2, top2, H \cup {top2}) /\ top2 \notin H
      <3> HIDE DEF top2, top
      <3>1. QED
        BY <1>1, <2>1, <2>2, <2>5, <2>6, Longer
    <2>8. Open(r.s, H \cup {top2})
      <3>1. addr \in StartBreak + Cell .. MaxBreak
        BY <1>1, <1>2, <1>4, <2>1
      <3>2. Tiles(m2, addr - Cell, H \cup {top2})
        <4> HIDE DEF top2, addr
        <4>1. QED
          BY <2>1, <2>4, <2>7 DEF Tiles
      <3> HIDE DEF top2, addr
      <3>3. QED
        BY <2>3, <2>4, <3>1, <3>2 DEF Open
    <2>9. Used(m2, top2, H \cup {top2}) = Used(m, top, H) \cup {top} /\ top \notin Used(m, top, H)
      <3> HIDE DEF top2, top
      <3>1. top \in H /\ top # top2 /\ m2[top] > 0
        BY <1>2, <1>3, <2>5, <2>7
      <3>2. QED
        BY <2>6, <2>7, <3>1 DEF Used
    <2>10. Keeps(m, Used(m, top, H), m2)
      <3>1. SUFFICES ASSUME NEW h \in Used(m, top, H), NEW c \in CellAddresses, h <= c, c < After(m, h)
                     PROVE  m2[c] = m[c]
        BY DEF Keeps
      <3>2. c < top /\ c \in Int
        BY <1>10, <3>1, CellAddress
      <3>3. c # top /\ c # top2
        BY <1>2, <2>1, <3>2
      <3>4. QED
        BY <1>7, <2>4, <3>3
    <2>11. Lowers(m, m2, {top})
      <3>1. SUFFICES ASSUME NEW c \in CellAddresses, c # top, m[c] <= 0 PROVE m2[c] <= 0
        BY DEF Lowers
      <3>2. CASE c = top2
        BY <2>4, <3>2
      <3>3. CASE c # top2
        <4>1. m2[c] = m[c]
          BY <1>7, <2>4, <3>1, <3>3
        <4>2. QED
          BY <3>1, <4>1
      <3>4. QED
        BY <3>2, <3>3
    <2>12. GrantedAt(s, H, r, n, H \cup {top2}, top)
      <3>1. r.s.brk - Cell = top2 /\ r.s.mem = m2 /\ top \in H \cup {top2}
        BY <1>2, <2>1, <2>3
      <3> HIDE DEF top2
      <3>2. QED
        BY <2>3, <2>5, <2>8, <2>9, <2>10, <2>11, <3>1 DEF GrantedAt
    <2>13. QED
      BY <2>12 DEF Outcome, r
  <1>13. QED
    BY <1>8, <1>11, <1>12

(* Blocks lie apart. *)
LEMMA BlocksApart ==
  ASSUME NEW m \in Memories, NEW top, NEW H, Listed(m, top, H),
         NEW h \in H \ {top}, NEW u \in H \ {top}, u # h,
         NEW c \in Int, u <= c, c < After(m, u)
  PROVE  c < h \/ After(m, h) <= c
  <1>1. h \in Int /\ u \in Int /\ After(m, h) \in Int /\ After(m, u) \in Int
    BY ListNumbers
  <1>2. CASE u < h
    <2>1. After(m, u) <= h
      BY <1>2, ListNumbers
    <2>2. QED
      BY <1>1, <2>1
  <1>3. CASE h < u
    <2>1. After(m, h) <= u
      BY <1>3, ListNumbers
    <2>2. QED
      BY <1>1, <2>1
  <1>4. QED
    BY <1>1, <1>2, <1>3

(* A free block used again, whole or split, is a new block. *)
LEMMA Reusing ==
  ASSUME NEW s, NEW H, Open(s, H), NEW n, BlockSize(n), NEW h \in H,
         s.mem[h] < 0, Serves(0 - s.mem[h], n)
  PROVE  Outcome(s, H, Reused(s, h, n), n)
  <1> DEFINE m   == s.mem
             top == s.brk - Cell
             k   == 0 - m[h]
             g   == h + n + Cell
             m1  == [m EXCEPT ![h] = n]
             m2  == [m1 EXCEPT ![g] = n + Cell - k]
             r   == Reused(s, h, n)
  <1>1. /\ m \in Memories /\ Listed(m, top, H) /\ m[top] = 0 /\ s.brk \in StartBreak + Cell .. MaxBreak
        /\ s = [mem |-> m, brk |-> s.brk, arenap |-> StartBreak, bcache |-> s.brk]
    BY DEF Open, Tiles
  <1>2. /\ Cell \in Nat \ {0} /\ StartBreak \in Nat /\ MaxBreak \in Nat /\ HalfRange \in Nat
        /\ s.brk \in Int /\ top \in Int /\ top + Cell = s.brk /\ s.brk <= MaxBreak
    BY <1>1, Constants
  <1>3. /\ h \in CellAddresses /\ h \in Int /\ StartBreak <= h /\ h # top /\ k \in Int /\ k > 0
        /\ After(m, h) = h + Cell + k /\ After(m, h) <= top /\ After(m, h) \in H
    <2>1. h # top /\ h \in H \ {top}
      BY <1>1
    <2>2. h \in CellAddresses /\ h \in Int /\ StartBreak <= h /\ m[h] \in Int
      BY <1>1, ListNumbers
    <2>3. After(m, h) <= top /\ After(m, h) \in H
      BY <1>1, <2>1, ListNumbers
    <2>4. k \in Int /\ k > 0 /\ After(m, h) = h + Cell + k
      BY <2>2 DEF After
    <2>5. QED
      BY <2>1, <2>2, <2>3, <2>4
  <1>4. /\ n \in Int /\ n > 0 /\ n \in Contents /\ Multiple(h + Cell + n, Cell)
        /\ n + MaxBreak + Cell < HalfRange
    BY <1>3, BlockSizes DEF BlockSize
  <1> HIDE DEF top, k
  <1>5. k = n \/ k - n >= 2 * Cell
    <2>1. Wrap(k - n) = k - n
      <3>1. k - n \in 0 - HalfRange .. HalfRange - 1
        BY <1>2, <1>3, <1>4, Constants
      <3>2. QED
        BY <3>1, WrapFits
    <2>2. Wrap(k - n) = 0 \/ Wrap(k - n) >= 2 * Cell
      BY DEF Serves, k
    <2>3. QED
      BY <1>3, <1>4, <2>1, <2>2
  <1>6. /\ m1 \in Memories /\ m1[h] = n /\ \A c \in CellAddresses : c # h => m1[c] = m[c]
    BY <1>1, <1>3, <1>4 DEF Memories
  <1>7. h \notin Used(m, top, H)
    <2>1. m[h] \in Int /\ ~(m[h] > 0)
      BY <1>1, ListNumbers
    <2>2. QED
      BY <2>1 DEF Used
  <1>8. \A u \in Used(m, top, H), c \in CellAddresses :
          u <= c /\ c < After(m, u) => c < h \/ After(m, h) <= c
    <2>1. SUFFICES ASSUME NEW u \in Used(m, top, H), NEW c \in CellAddresses, u <= c, c < After(m, u)
                   PROVE  c < h \/ After(m, h) <= c
      OBVIOUS
    <2>2. u \in H \ {top} /\ u # h /\ h \in H \ {top} /\ c \in Int
      BY <1>3, <1>7, CellAddress DEF Used
    <2>3. QED
      BY <1>1, <2>1, <2>2, BlocksApart
  <1>9. \A u \in H : u <= h \/ After(m, h) <= u
    BY <1>1, <1>3 DEF Listed
  <1>10. \A u \in H : u \in CellAddresses /\ u \in Int
    BY <1>1, ListNumbers
  <1>11. CASE k = n
    <2>1. r.code = "ok" /\ r.addr = h + Cell /\ r.s.mem = m1 /\ r.s.brk = s.brk
          /\ r.s = [mem |-> m1, brk |-> s.brk, arenap |-> StartBreak, bcache |-> s.brk]
      <3>1. r = [s |-> [s EXCEPT !.mem = m1], code |-> "ok", addr |-> h + Cell]
        BY <1>11 DEF Reused, k
      <3> HIDE DEF r, m1
      <3>2. [s EXCEPT !.mem = m1] = [mem |-> m1, brk |-> s.brk, arenap |-> StartBreak, bcache |-> s.brk]
        BY <1>1
      <3>3. QED
        BY <3>1, <3>2
    <2> HIDE DEF r, m1
    <2>2. After(m1, h) = After(m, h)
      BY <1>3, <1>4, <1>6, <1>11 DEF After
    <2>3. \A u \in H \ {top} : m1[u] # 0 /\ After(m1, u) = After(m, u)
      <3>1. SUFFICES ASSUME NEW u \in H \ {top} PROVE m1[u] # 0 /\ After(m1, u) = After(m, u)
        OBVIOUS
      <3>2. CASE u = h
        BY <1>4, <1>6, <2>2, <3>2
      <3>3. CASE u # h
        <4>1. m1[u] = m[u] /\ m[u] # 0
          BY <1>1, <1>6, <1>10, <3>3 DEF Listed
        <4>2. QED
          BY <4>1 DEF After
      <3>4. QED
        BY <3>2, <3>3
    <2>4. Listed(m1, top, H)
      BY <1>1, <2>3, Rewritten
    <2>5. m1[top] = 0
      BY <1>1, <1>3, <1>6, <1>10 DEF Listed
    <2>6. Open(r.s, H)
      BY <1>1, <1>6, <2>1, <2>4, <2>5 DEF Open, Tiles, top
    <2>7. Used(m1, top, H) = Used(m, top, H) \cup {h}
      BY <1>3, <1>4, <1>6, <1>10 DEF Used
    <2>8. Keeps(m, Used(m, top, H), m1)
      <3>1. SUFFICES ASSUME NEW u \in Used(m, top, H), NEW c \in CellAddresses, u <= c, c < After(m, u)
                     PROVE  m1[c] = m[c]
        BY DEF Keeps
      <3>2. c < h \/ After(m, h) <= c
        BY <1>8, <3>1
      <3>3. c # h
        BY <1>2, <1>3, <3>2
      <3>4. QED
        BY <1>6, <3>3
    <2>9. Lowers(m, m1, {h})
      BY <1>6 DEF Lowers
    <2>10. GrantedAt(s, H, r, n, H, h)
      BY <1>6, <1>7, <2>1, <2>6, <2>7, <2>8, <2>9 DEF GrantedAt, top
    <2>11. QED
      BY <2>10 DEF Outcome, r
  <1>12. CASE k - n >= 2 * Cell
    <2>1. g \in Int /\ h < g /\ g < After(m, h) /\ g \in CellAddresses /\ g # top
      <3>1. g \in Int /\ h < g /\ g < After(m, h)
        BY <1>2, <1>3, <1>4, <1>12
      <3>2. g < top /\ top <= Last /\ Last \in Int /\ StartBreak <= g
        BY <1>1, <1>2, <1>3, <3>1, ListNumbers, CellAddress
      <3>3. Multiple(g, Cell)
        <4>1. g = h + Cell + n
          BY <1>2, <1>3, <1>4
        <4>2. QED
          BY <1>4, <4>1
      <3>4. g <= Last
        BY <3>1, <3>2, <1>2
      <3> HIDE DEF g
      <3>5. QED
        BY <1>2, <3>1, <3>2, <3>3, <3>4, CellAddress
    <2>2. r.code = "ok" /\ r.addr = h + Cell /\ r.s.mem = m2 /\ r.s.brk = s.brk
          /\ r.s = [mem |-> m2, brk |-> s.brk, arenap |-> StartBreak, bcache |-> s.brk]
      <3>1. k # n
        BY <1>2, <1>3, <1>4, <1>12
      <3>2. r = [s |-> [s EXCEPT !.mem = m2], code |-> "ok", addr |-> h + Cell]
        BY <3>1 DEF Reused, k
      <3> HIDE DEF r, m2
      <3>3. [s EXCEPT !.mem = m2] = [mem |-> m2, brk |-> s.brk, arenap |-> StartBreak, bcache |-> s.brk]
        BY <1>1
      <3>4. QED
        BY <3>2, <3>3
    <2>3. n + Cell - k \in Contents /\ n + Cell - k \in Int /\ n + Cell - k < 0
      BY <1>2, <1>3, <1>4, <1>12, Constants DEF Contents
    <2>4. /\ m2 \in Memories /\ m2[g] = n + Cell - k
          /\ \A c \in CellAddresses : c # g => m2[c] = m1[c]
      <3> HIDE DEF m1, g
      <3>1. QED
        BY <1>6, <2>1, <2>3 DEF Memories
    <2> HIDE DEF r, m1, m2
    <2>5. g \notin H
      BY <1>2, <1>3, <1>9, <1>10, <2>1
    <2>6. m2[h] = n /\ m2[h] # 0 /\ After(m2, h) = g
      <3>1. m2[h] = n
        BY <1>3, <1>6, <2>1, <2>4
      <3>2. After(m2, h) = h + Cell + n
        BY <1>4, <3>1 DEF After
      <3>3. QED
        BY <1>2, <1>3, <1>4, <3>1, <3>2
    <2>7. m2[g] # 0 /\ After(m2, g) = After(m, h)
      <3>1. After(m2, g) = g + Cell + (0 - (n + Cell - k))
        BY <2>3, <2>4 DEF After
      <3>2. QED
        BY <1>2, <1>3, <1>4, <2>3, <2>4, <3>1
    <2>8. \A c \in CellAddresses : c # h /\ c # g => m2[c] = m[c]
      BY <1>6, <2>4
    <2>9. \A u \in H : u # h => m2[u] = m[u]
      BY <1>10, <2>5, <2>8
    <2> HIDE DEF g
    <2>10. Listed(m2, top, H \cup {g})
      BY <1>1, <1>3, <2>1, <2>6, <2>7, <2>9, Split
    <2>11. m2[top] = 0
      BY <1>1, <1>3, <2>9 DEF Listed
    <2>12. Open(r.s, H \cup {g})
      BY <1>1, <2>2, <2>4, <2>10, <2>11 DEF Open, Tiles, top
    <2>13. Used(m2, top, H \cup {g}) = Used(m, top, H) \cup {h}
      <3>1. ~(m2[g] > 0) /\ m2[h] > 0
        BY <1>4, <2>3, <2>4, <2>6
      <3>2. QED
        BY <1>3, <2>9, <3>1 DEF Used
    <2>14. Keeps(m, Used(m, top, H), m2)
      <3>1. SUFFICES ASSUME NEW u \in Used(m, top, H), NEW c \in CellAddresses, u <= c, c < After(m, u)
                     PROVE  m2[c] = m[c]
        BY DEF Keeps
      <3>2. c < h \/ After(m, h) <= c
        BY <1>8, <3>1
      <3>3. c # h /\ c # g
        <4>1. c \in Int /\ After(m, h) \in Int /\ h < After(m, h)
          BY <1>2, <1>3, CellAddress
        <4>2. QED
          BY <1>3, <2>1, <3>2, <4>1
      <3>4. QED
        BY <2>8, <3>3
    <2>15. Lowers(m, m2, {h})
      <3>1. SUFFICES ASSUME NEW c \in CellAddresses, c # h, m[c] <= 0 PROVE m2[c] <= 0
        BY DEF Lowers
      <3>2. CASE c = g
        BY <2>3, <2>4, <3>2
      <3>3. CASE c # g
        BY <2>8, <3>1, <3>3
      <3>4. QED
        BY <3>2, <3>3
    <2>16. GrantedAt(s, H, r, n, H \cup {g}, h)
      BY <1>7, <2>2, <2>6, <2>12, <2>13, <2>14, <2>15 DEF GrantedAt, top
    <2>17. QED
      BY <2>16 DEF Outcome, r
  <1>13. QED
    BY <1>5, <1>11, <1>12

(* A change that follows one that changes nothing for the blocks. *)
LEMMA OutcomeAfter ==
  ASSUME NEW s, NEW H, Open(s, H), NEW d, NEW H2, SameBlocks(s, H, d, H2),
         Lowers(s.mem, d.mem, {}), NEW r, NEW n, Outcome(d, H2, r, n)
  PROVE  Outcome(s, H, r, n)
  <1> DEFINE U == Used(s.mem, s.brk - Cell, H)
  <1>1. U \subseteq CellAddresses /\ s.mem \in Memories
    <2>1. s.mem \in Memories /\ Listed(s.mem, s.brk - Cell, H)
      BY DEF Open, Tiles
    <2>2. QED
      BY <2>1 DEF Used, Listed
  <1>2. Used(d.mem, d.brk - Cell, H2) = U /\ Keeps(s.mem, U, d.mem)
    BY DEF SameBlocks
  <1>3. ASSUME NEW m, Keeps(d.mem, U, m) PROVE Keeps(s.mem, U, m)
    BY <1>1, <1>2, <1>3, KeepsTwice
  <1>4. ASSUME NEW H3, NEW h, GrantedAt(d, H2, r, n, H3, h) PROVE GrantedAt(s, H, r, n, H3, h)
    <2>1. /\ r.code = "ok" /\ r.addr = h + Cell
          /\ Open(r.s, H3) /\ h \in H3 /\ h \notin U
          /\ Used(r.s.mem, r.s.brk - Cell, H3) = U \cup {h}
          /\ r.s.mem[h] = n /\ Keeps(d.mem, U, r.s.mem) /\ Lowers(d.mem, r.s.mem, {h})
      BY <1>2, <1>4 DEF GrantedAt
    <2>2. Lowers(s.mem, r.s.mem, {h})
      BY <2>1 DEF Lowers
    <2>3. Keeps(s.mem, U, r.s.mem)
      BY <1>3, <2>1
    <2>4. QED
      BY <2>1, <2>2, <2>3 DEF GrantedAt
  <1>5. ASSUME NEW H3, ThrownWith(d, H2, r, H3) PROVE ThrownWith(s, H, r, H3)
    <2>1. /\ r.code = "thrown" /\ r.addr = 0 /\ Left(r.s, H3)
          /\ Used(r.s.mem, r.s.brk - Cell, H3) = U /\ Keeps(d.mem, U, r.s.mem)
      BY <1>2, <1>5 DEF ThrownWith, SameBlocks
    <2>2. Keeps(s.mem, U, r.s.mem)
      BY <1>3, <2>1
    <2>3. QED
      BY <2>1, <2>2 DEF ThrownWith, SameBlocks
  <1>6. QED
    BY <1>4, <1>5 DEF Outcome

(* A request in an opened arena. *)
Opened(s) == [s |-> s, thrown |-> FALSE]

(* ALLOCATE in an arena gives a new block, or throws. *)
LEMMA Granting ==
  ASSUME NEW s, NEW H, Open(s, H), NEW n, BlockSize(n)
  PROVE  Outcome(s, H, Granted(Opened(s), n), n)
  <1> DEFINE visited == Visited(s, n)
             slot    == visited[Len(visited)]
             d       == Defragmented(s, visited)
             H2      == Remaining(s, H, Range(visited))
             r       == Slotted(d, slot, n)
  <1>1. Searching(s, H, n, Range(visited), slot)
    BY SearchDone
  <1> HIDE DEF visited, slot
  <1>2. /\ Open(d, H2) /\ SameBlocks(s, H, d, H2) /\ Lowers(s.mem, d.mem, {}) /\ slot \in H2
        /\ d.mem[slot] = 0 \/ (d.mem[slot] < 0 /\ Serves(0 - d.mem[slot], n))
    BY <1>1, Defragmenting
  <1>3. Granted(Opened(s), n) = r
    BY DEF Granted, Opened, Searched, visited, slot
  <1> HIDE DEF d, H2
  <1>4. Mapped(d, slot)
    BY <1>2, HeadersMapped
  <1>5. ASSUME d.mem[slot] = 0 PROVE Outcome(d, H2, r, n)
    <2>1. slot = d.brk - Cell
      BY <1>2, <1>5 DEF Open, Tiles, Listed
    <2>2. r = Extended(d, d.brk - Cell, n)
      BY <1>4, <1>5, <2>1 DEF Slotted
    <2>3. QED
      BY <1>2, <2>2, Extending
  <1>6. ASSUME d.mem[slot] < 0 /\ Serves(0 - d.mem[slot], n) PROVE Outcome(d, H2, r, n)
    <2>1. d.mem[slot] # 0
      <3>1. d.mem[slot] \in Int
        BY <1>2, ListNumbers DEF Open, Tiles
      <3>2. QED
        BY <1>6, <3>1
    <2>2. r = Reused(d, slot, n)
      BY <1>4, <2>1 DEF Slotted
    <2>3. QED
      BY <1>2, <1>6, <2>2, Reusing
  <1>7. Outcome(d, H2, r, n)
    BY <1>2, <1>5, <1>6
  <1> HIDE DEF r
  <1>8. QED
    BY <1>2, <1>3, <1>7, OutcomeAfter

(* An arena that is open already. *)
LEMMA OpenArena ==
  ASSUME NEW s, NEW H, Open(s, H)
  PROVE  _arena(s) = Opened(s)
  <1>1. s.arenap = StartBreak /\ StartBreak # 0
    BY Constants DEF Open
  <1>2. QED
    BY <1>1 DEF _arena, Opened

(* The same of the word itself. *)
LEMMA Allocating ==
  ASSUME NEW s, NEW H, Open(s, H), NEW n \in Int, n >= 0, BlockSize(Rounded(n))
  PROVE  Outcome(s, H, allocate(s, n), Rounded(n))
  <1>1. ~(n < 0)
    OBVIOUS
  <1>2. allocate(s, n) = Granted(Opened(s), Rounded(n))
    BY <1>1, OpenArena DEF allocate
  <1>3. QED
    BY <1>2, Granting

-----------------------------------------------------------------------------
(* The first call. *)

Zeros == [a \in CellAddresses |-> 0]

(* Before it. *)
Fresh == [mem |-> Zeros, brk |-> StartBreak, arenap |-> 0, bcache |-> 0]

(* The arena without room for its closing zero. *)
Closed == [mem |-> Zeros, brk |-> StartBreak, arenap |-> StartBreak, bcache |-> StartBreak]

Empty == [mem |-> Zeros, brk |-> StartBreak + Cell, arenap |-> StartBreak, bcache |-> StartBreak + Cell]

(* Memory that was never written holds zeros. *)
LEMMA ZerosMemory ==
  /\ Zeros \in Memories
  /\ \A c : [Zeros EXCEPT ![c] = 0] = Zeros
  <1>1. 0 \in Contents
    BY Constants DEF Contents
  <1>2. Zeros \in Memories
    BY <1>1 DEF Zeros, Memories
  <1>3. \A c : [Zeros EXCEPT ![c] = 0] = Zeros
    BY DEF Zeros
  <1>4. QED
    BY <1>2, <1>3

(* Before it opens, the arena asks for the break that the process starts
   with. *)
LEMMA FirstBreak ==
  _allocb(Fresh, 0).s = [mem |-> Zeros, brk |-> StartBreak, arenap |-> 0, bcache |-> StartBreak]
  <1>1. ~(StartBreak <= 0)
    BY Constants
  <1>2. Brk(Fresh, 0) = StartBreak
    BY <1>1 DEF Brk, Fresh
  <1> DEFINE u == [Fresh EXCEPT !.brk = StartBreak]
  <1>3. u = Fresh
    BY DEF Fresh
  <1>4. [Fresh EXCEPT !.bcache = StartBreak]
          = [mem |-> Zeros, brk |-> StartBreak, arenap |-> 0, bcache |-> StartBreak]
    BY DEF Fresh
  <1>5. _allocb(Fresh, 0).s = [Fresh EXCEPT !.bcache = StartBreak]
    <2>1. _allocb(Fresh, 0).s = [u EXCEPT !.bcache = StartBreak]
      BY <1>2 DEF _allocb
    <2>2. QED
      BY <1>3, <2>1, Zenon
  <1>6. QED
    BY <1>4, <1>5, Zenon

(* The first call opens an empty arena, or the system refuses it. *)
LEMMA Opening ==
  \/ /\ _arena(Fresh) = Opened(Empty) /\ Open(Empty, {StartBreak})
     /\ Used(Empty.mem, Empty.brk - Cell, {StartBreak}) = {}
  \/ _arena(Fresh) = [s |-> Closed, thrown |-> TRUE]
  <1> DEFINE first == _allocb(Fresh, 0).s
             s0    == [first EXCEPT !.arenap = first.brk]
             grown == _allocb(s0, first.brk + Cell)
             top   == StartBreak + Cell
  <1>1. first = [mem |-> Zeros, brk |-> StartBreak, arenap |-> 0, bcache |-> StartBreak]
    BY FirstBreak
  <1> HIDE DEF first
  <1>2. first.brk = StartBreak /\ s0 = Closed
    BY <1>1 DEF Closed
  <1>3. _arena(Fresh) = [grown EXCEPT !.s.mem[grown.s.brk] = IF grown.thrown THEN @ ELSE 0]
    <2>1. Fresh.arenap = 0
      BY DEF Fresh
    <2>2. QED
      BY <2>1, Zenon DEF _arena, first
  <1>4. grown = _allocb(Closed, top)
    BY <1>2
  <1> HIDE DEF grown, s0
  <1>5. /\ Cell \in Nat \ {0} /\ StartBreak \in Nat \ {0} /\ MaxBreak \in Nat \ {0}
        /\ StartBreak < MaxBreak /\ top \in Int /\ StartBreak < top
    BY Constants
  <1>6. \/ /\ top <= MaxBreak /\ grown.thrown = FALSE /\ grown.s = Empty
        \/ grown.thrown = TRUE /\ grown.s = Closed
    <2>1. /\ Closed = [mem |-> Closed.mem, brk |-> Closed.brk, arenap |-> Closed.arenap, bcache |-> Closed.bcache]
          /\ Closed.mem = Zeros /\ Closed.brk = StartBreak /\ Closed.arenap = StartBreak
          /\ Closed.bcache = StartBreak
      BY DEF Closed
    <2>2. Closed.brk \in StartBreak .. MaxBreak /\ Closed.brk < top
      BY <1>5, <2>1
    <2> HIDE DEF top
    <2>3. \/ /\ top <= MaxBreak /\ grown.thrown = FALSE
             /\ grown.s = [mem |-> Closed.mem, brk |-> top, arenap |-> Closed.arenap, bcache |-> top]
          \/ /\ MaxBreak < top /\ grown.thrown = TRUE
             /\ grown.s = [mem |-> Closed.mem, brk |-> Closed.brk, arenap |-> Closed.arenap, bcache |-> Closed.brk]
      BY <1>4, <1>5, <2>1, <2>2, BreakMoves
    <2>4. QED
      BY <2>1, <2>3 DEF Empty, top
  <1>7. grown = [s |-> grown.s, thrown |-> grown.thrown]
    BY <1>4 DEF _allocb
  <1>8. CASE grown.thrown = TRUE /\ grown.s = Closed
    <2>1. grown = [s |-> Closed, thrown |-> TRUE]
      BY <1>7, <1>8
    <2>2. _arena(Fresh) = [grown EXCEPT !.s.mem[grown.s.brk] = @]
      BY <1>3, <1>8
    <2>3. grown.s = Closed /\ Closed = [mem |-> Zeros, brk |-> StartBreak, arenap |-> StartBreak, bcache |-> StartBreak]
      BY <1>8 DEF Closed
    <2>4. [grown EXCEPT !.s.mem[grown.s.brk] = @] = grown
      BY <2>1, <2>3, ZenonT(40) DEF Zeros
    <2>5. QED
      BY <2>1, <2>2, <2>4
  <1>9. CASE top <= MaxBreak /\ grown.thrown = FALSE /\ grown.s = Empty
    <2>1. grown = [s |-> Empty, thrown |-> FALSE]
      BY <1>7, <1>9
    <2>2. _arena(Fresh) = [grown EXCEPT !.s.mem[grown.s.brk] = 0]
      BY <1>3, <1>9
    <2>3. grown.s = Empty /\ Empty = [mem |-> Zeros, brk |-> top, arenap |-> StartBreak, bcache |-> top]
      BY <1>9 DEF Empty
    <2>4. [grown EXCEPT !.s.mem[grown.s.brk] = 0] = grown
      <3>1. [Zeros EXCEPT ![grown.s.brk] = 0] = Zeros
        BY ZerosMemory
      <3>2. QED
        BY <2>1, <2>3, <3>1
    <2>5. _arena(Fresh) = Opened(Empty)
      BY <2>1, <2>2, <2>4 DEF Opened
    <2>6. StartBreak \in CellAddresses
      <3>1. StartBreak <= Last /\ Multiple(StartBreak, Cell) /\ StartBreak <= StartBreak
        BY <1>5, CellAddress, Constants
      <3>2. QED
        BY <3>1, CellAddress
    <2>7. Empty.mem = Zeros /\ Empty.brk = top /\ top - Cell = StartBreak /\ Zeros[StartBreak] = 0
      BY <1>5, <2>3, <2>6 DEF Zeros
    <2>8. Tiles(Zeros, StartBreak, {StartBreak})
      BY <1>5, <2>6, <2>7 DEF Tiles, Listed
    <2>9. top \in StartBreak + Cell .. MaxBreak
      BY <1>5, <1>9
    <2>10. Open(Empty, {StartBreak})
      <3> HIDE DEF top
      <3>1. Empty = [mem |-> Empty.mem, brk |-> Empty.brk, arenap |-> StartBreak, bcache |-> Empty.brk]
        BY <2>3
      <3>2. Tiles(Empty.mem, Empty.brk - Cell, {StartBreak})
        BY <2>7, <2>8
      <3>3. QED
        BY <2>7, <2>9, <3>1, <3>2, ZerosMemory DEF Open
    <2>11. Used(Empty.mem, Empty.brk - Cell, {StartBreak}) = {}
      BY <2>7 DEF Used
    <2>12. QED
      BY <2>5, <2>10, <2>11
  <1>10. QED
    BY <1>6, <1>8, <1>9

-----------------------------------------------------------------------------
(* The blocks that are allocated. *)

(* An arena is one whose last header may have been written over. *)
LEMMA OpenLeft ==
  ASSUME NEW s, NEW H, Open(s, H)
  PROVE  Left(s, H)
  BY DEF Open, Left, Tiles

UsedHeaders(s, H) == Used(s.mem, s.brk - Cell, H)

(* A block fills whole cells of the arena. *)
LEMMA UsedBlock ==
  ASSUME NEW s, NEW H, Left(s, H), NEW h \in UsedHeaders(s, H)
  PROVE  /\ h \in H \ {s.brk - Cell} /\ h \in CellAddresses /\ h \in Int /\ StartBreak <= h
         /\ s.mem[h] \in Int /\ s.mem[h] > 0 /\ Cell <= s.mem[h] /\ Multiple(s.mem[h], Cell)
         /\ After(s.mem, h) = h + Cell + s.mem[h] /\ After(s.mem, h) <= s.brk - Cell
         /\ Multiple(h + Cell, Cell) /\ h + Cell \in StartBreak + Cell .. MaxBreak
         /\ \A c : Multiple(c, Cell) /\ h <= c /\ c < After(s.mem, h) => c \in CellAddresses
  <1> DEFINE m   == s.mem
             top == s.brk - Cell
  <1>1. /\ m \in Memories /\ Listed(m, top, H) /\ s.brk \in StartBreak + Cell .. MaxBreak
        /\ h \in H \ {top} /\ m[h] > 0
    BY DEF Left, UsedHeaders, Used
  <1>2. /\ Cell \in Nat \ {0} /\ StartBreak \in Nat /\ MaxBreak \in Nat /\ s.brk \in Int
        /\ s.brk <= MaxBreak /\ top \in Int /\ top + Cell = s.brk
    BY <1>1, Constants
  <1>3. /\ h \in CellAddresses /\ h \in Int /\ m[h] \in Int /\ StartBreak <= h
        /\ After(m, h) \in H /\ After(m, h) <= top /\ After(m, h) \in Int /\ top <= Last
    BY <1>1, ListNumbers
  <1>4. After(m, h) = h + Cell + m[h]
    BY <1>1, <1>3 DEF After
  <1>5. Multiple(h, Cell) /\ Multiple(After(m, h), Cell) /\ Multiple(Cell, Cell)
    <2>1. After(m, h) \in CellAddresses
      BY <1>1, <1>3 DEF Listed
    <2>2. QED
      BY <1>2, <1>3, <2>1, CellAddress, MultipleOnce
  <1>6. Multiple(h + Cell, Cell)
    BY <1>2, <1>5, MultipleSum
  <1>7. Multiple(m[h], Cell)
    <2>1. After(m, h) - (h + Cell) = m[h]
      BY <1>2, <1>3, <1>4
    <2>2. Multiple(After(m, h) - (h + Cell), Cell)
      BY <1>2, <1>5, <1>6, MultipleSum
    <2>3. QED
      BY <2>1, <2>2
  <1>8. Cell <= m[h]
    <2>1. Multiple(0, Cell)
      BY <1>2, MultipleOnce
    <2>2. 0 + Cell <= m[h]
      BY <1>1, <1>2, <1>7, <2>1, MultipleApart
    <2>3. QED
      BY <1>2, <2>2
  <1>9. h + Cell \in StartBreak + Cell .. MaxBreak
    BY <1>1, <1>2, <1>3, <1>4
  <1>10. ASSUME NEW c, Multiple(c, Cell), h <= c, c < After(m, h) PROVE c \in CellAddresses
    <2>1. c \in Int
      BY <1>10 DEF Multiple
    <2>2. StartBreak <= c /\ c <= Last
      BY <1>2, <1>3, <1>10, <2>1, CellAddress
    <2>3. QED
      BY <1>10, <2>2, CellAddress
  <1>11. QED
    BY <1>1, <1>3, <1>4, <1>6, <1>7, <1>8, <1>9, <1>10

(* The size that FREE and RESIZE find. *)
LEMMA SizeFound ==
  ASSUME NEW s, NEW H, Open(s, H), NEW h \in UsedHeaders(s, H)
  PROVE  /\ Aligned(h + Cell) = h + Cell /\ (h + Cell) - Cell = h
         /\ _allocsize(s, h + Cell) = s.mem[h]
  <1>1. /\ h \in Int /\ s.mem[h] \in Int /\ s.mem[h] > 0 /\ Multiple(h + Cell, Cell)
        /\ h + Cell \in StartBreak + Cell .. MaxBreak /\ StartBreak <= h
        /\ After(s.mem, h) = h + Cell + s.mem[h] /\ After(s.mem, h) <= s.brk - Cell
    BY OpenLeft, UsedBlock
  <1>2. s.arenap = StartBreak /\ s.bcache = s.brk /\ s.brk \in StartBreak + Cell .. MaxBreak
    BY DEF Open
  <1>3. /\ Cell \in Nat \ {0} /\ HalfRange \in Nat /\ MaxBreak \in Nat /\ StartBreak \in Nat
        /\ MaxBreak < HalfRange /\ s.brk \in Int
    BY <1>2, Constants
  <1>4. h + Cell \in 0 - HalfRange .. HalfRange - 1
    BY <1>1, <1>3
  <1>5. Aligned(h + Cell) = h + Cell /\ (h + Cell) - Cell = h
    BY <1>1, <1>3, <1>4, AlignedSame
  <1>6. StartBreak + Cell <= h + Cell /\ h + Cell <= s.brk
    BY <1>1, <1>3
  <1>7. Within(h + Cell, StartBreak + Cell, s.brk + 1)
    BY <1>2, <1>4, <1>6, WithinArena
  <1> DEFINE a == h + Cell
  <1>8. Aligned(a) = a /\ a - Cell = h /\ Within(a, StartBreak + Cell, s.brk + 1)
    BY <1>5, <1>7
  <1> HIDE DEF a
  <1>9. _allocsize(s, a) = s.mem[h]
    BY <1>1, <1>2, <1>8 DEF _allocsize
  <1>10. QED
    BY <1>5, <1>9 DEF a

(* Where they find none. *)
LEMMA NoSizeFound ==
  ASSUME NEW s, NEW H, Open(s, H), NEW x \in Int,
         \/ Aligned(x) \notin StartBreak + Cell .. MaxBreak
         \/ ~(s.mem[Aligned(x) - Cell] > 0)
  PROVE  _allocsize(s, x) = 0
  <1>1. s.arenap = StartBreak /\ s.bcache = s.brk /\ s.brk \in StartBreak + Cell .. MaxBreak
    BY DEF Open
  <1>2. Aligned(x) \in 0 - HalfRange .. HalfRange - 1 /\ Aligned(x) \in Int
    BY AlignedUp, Constants
  <1>3. CASE Aligned(x) \notin StartBreak + Cell .. MaxBreak
    <2>1. ~(StartBreak + Cell <= Aligned(x) /\ Aligned(x) <= s.brk)
      BY <1>1, <1>2, <1>3, Constants
    <2>2. ~Within(Aligned(x), StartBreak + Cell, s.brk + 1)
      BY <1>1, <1>2, <2>1, WithinArena
    <2>3. QED
      BY <1>1, <2>2 DEF _allocsize
  <1>4. CASE ~(s.mem[Aligned(x) - Cell] > 0)
    BY <1>4 DEF _allocsize
  <1>5. QED
    BY <1>3, <1>4

(* The blocks at the headers G go, those at the headers N come, the others
   stay as they are.                                                        *)
Replaces(s, H, G, s2, H2, N) ==
  /\ Keeps(s.mem, UsedHeaders(s, H) \ G, s2.mem)
  /\ UsedHeaders(s2, H2) = (UsedHeaders(s, H) \ G) \cup N

(* The same of an arena; the new blocks have n bytes at least. *)
Changed(s, H, G, s2, H2, N, n) ==
  /\ Open(s2, H2) /\ Replaces(s, H, G, s2, H2, N)
  /\ N \cap (UsedHeaders(s, H) \ G) = {}
  /\ \A h \in N : s2.mem[h] >= n
  /\ \A c \in CellAddresses :
       s.mem[c] <= 0 /\ (\A h \in N : ~(h <= c /\ c < h + Cell + n)) => s2.mem[c] <= 0
  /\ \A g \in G \ N : s2.mem[g] <= 0

(* FREE takes a block from the list of those that are allocated. *)
LEMMA Freeing ==
  ASSUME NEW s, NEW H, Open(s, H), NEW h \in UsedHeaders(s, H)
  PROVE  LET r == free(s, h + Cell) IN
         /\ r.code = "ok" /\ r.addr = h + Cell
         /\ Changed(s, H, {h}, r.s, H, {}, 0)
  <1> DEFINE m   == s.mem
             top == s.brk - Cell
             m2  == [m EXCEPT ![h] = 0 - m[h]]
             U   == UsedHeaders(s, H)
             r   == free(s, h + Cell)
  <1>1. /\ h \in H \ {top} /\ h \in CellAddresses /\ h \in Int /\ m[h] \in Int /\ m[h] > 0
    BY OpenLeft, UsedBlock
  <1>2. Aligned(h + Cell) = h + Cell /\ (h + Cell) - Cell = h /\ _allocsize(s, h + Cell) # 0
    BY <1>1, SizeFound
  <1>3. /\ m \in Memories /\ Listed(m, top, H) /\ m[top] = 0 /\ s.brk \in StartBreak + Cell .. MaxBreak
        /\ s = [mem |-> m, brk |-> s.brk, arenap |-> StartBreak, bcache |-> s.brk]
    BY DEF Open, Tiles
  <1>4. /\ r.code = "ok" /\ r.addr = h + Cell /\ r.s.mem = m2 /\ r.s.brk = s.brk
        /\ r.s = [mem |-> m2, brk |-> s.brk, arenap |-> StartBreak, bcache |-> s.brk]
    <2>1. r = Released(Opened(s), h + Cell)
      BY OpenArena DEF free
    <2>2. r = [s |-> [s EXCEPT !.mem[h] = 0 - @], code |-> "ok", addr |-> h + Cell]
      <3> DEFINE a == h + Cell
      <3>1. Aligned(a) = a /\ a - Cell = h /\ _allocsize(s, a) # 0 /\ r = Released(Opened(s), a)
        BY <1>2, <2>1
      <3> HIDE DEF a, r
      <3>2. r = [s |-> [s EXCEPT !.mem[h] = 0 - @], code |-> "ok", addr |-> a]
        BY <3>1 DEF Released, Opened
      <3>3. QED
        BY <3>2 DEF a
    <2> HIDE DEF r
    <2>3. [s EXCEPT !.mem[h] = 0 - @]
            = [mem |-> m2, brk |-> s.brk, arenap |-> StartBreak, bcache |-> s.brk]
      BY <1>3
    <2>4. QED
      BY <2>2, <2>3
  <1>5. /\ m2 \in Memories /\ m2[h] = 0 - m[h] /\ \A c \in CellAddresses : c # h => m2[c] = m[c]
    <2>1. 0 - m[h] \in Contents
      <3>1. m[h] \in Contents
        BY <1>1, <1>3 DEF Memories
      <3>2. QED
        BY <1>1, <3>1, Constants DEF Contents
    <2>2. QED
      BY <1>1, <1>3, <2>1 DEF Memories
  <1> HIDE DEF r, m2
  <1>6. H \subseteq CellAddresses /\ top \in H
    BY <1>3 DEF Listed
  <1>7. Listed(m2, top, H)
    <2>1. ASSUME NEW k \in H \ {top} PROVE m2[k] # 0 /\ After(m2, k) = After(m, k)
      <3>1. CASE k = h
        BY <1>1, <1>5, <3>1 DEF After
      <3>2. CASE k # h
        <4>1. m2[k] = m[k] /\ m[k] # 0
          BY <1>3, <1>5, <1>6, <3>2 DEF Listed
        <4>2. QED
          BY <4>1 DEF After
      <3>3. QED
        BY <3>1, <3>2
    <2>2. QED
      BY <1>3, <2>1, Rewritten
  <1>8. Open(r.s, H)
    <2>1. m2[top] = 0
      BY <1>1, <1>3, <1>5, <1>6
    <2> HIDE DEF top
    <2>2. Tiles(r.s.mem, r.s.brk - Cell, H)
      BY <1>4, <1>7, <2>1 DEF Tiles, top
    <2>3. QED
      BY <1>3, <1>4, <1>5, <2>2 DEF Open
  <1>9. UsedHeaders(r.s, H) = U \ {h}
    <2>1. ~(m2[h] > 0)
      BY <1>1, <1>5
    <2>2. QED
      BY <1>4, <1>5, <1>6, <2>1 DEF UsedHeaders, Used
  <1>10. Keeps(m, U \ {h}, m2)
    <2>1. SUFFICES ASSUME NEW u \in U \ {h}, NEW c \in CellAddresses, u <= c, c < After(m, u)
                   PROVE  m2[c] = m[c]
      BY DEF Keeps
    <2>2. u \in H \ {top} /\ u # h /\ c \in Int
      BY CellAddress DEF UsedHeaders, Used
    <2>3. c < h \/ After(m, h) <= c
      BY <1>1, <1>3, <2>1, <2>2, BlocksApart
    <2>4. h < After(m, h) /\ After(m, h) \in Int
      BY <1>1, <1>3, ListNumbers
    <2>5. c # h
      BY <1>1, <2>2, <2>3, <2>4
    <2>6. QED
      BY <1>5, <2>5
  <1>11. \A c \in CellAddresses : m[c] <= 0 => m2[c] <= 0
    <2>1. m2[h] <= 0
      BY <1>1, <1>5
    <2>2. QED
      BY <1>5, <2>1
  <1>12. Changed(s, H, {h}, r.s, H, {}, 0)
    <2>1. m2[h] <= 0
      BY <1>1, <1>5
    <2>2. QED
      BY <1>4, <1>8, <1>9, <1>10, <1>11, <2>1 DEF Changed, Replaces
  <1>13. QED
    BY <1>4, <1>12 DEF r

(* The cells of the block at g that are in the block at h of a later state. *)
Copied(s, g, s2, h) ==
  \A c \in CellAddresses :
    g + Cell <= c /\ c < After(s.mem, g) /\ c < g + Cell + s2.mem[h] => s2.mem[h + (c - g)] = s.mem[c]

ResizedAt(s, H, g, r, n, H2, h) ==
  /\ r.code = "ok" /\ r.addr = h + Cell
  /\ Changed(s, H, {g}, r.s, H2, {h}, n)
  /\ Copied(s, g, r.s, h)

(* RESIZE to a larger size: the new block holds the cells of the old one. *)
LEMMA Moving ==
  ASSUME NEW s, NEW H, Open(s, H), NEW g \in UsedHeaders(s, H), NEW n, BlockSize(n), s.mem[g] < n,
         NEW got, NEW H2, NEW h, GrantedAt(s, H, got, n, H2, h),
         got = [s |-> got.s, code |-> got.code, addr |-> got.addr]
  PROVE  ResizedAt(s, H, g, Moved(got, g + Cell, s.mem[g]), n, H2, h)
  <1> DEFINE m   == s.mem
             old == m[g]
             U   == UsedHeaders(s, H)
             t   == got.s
             top == t.brk - Cell
             to  == h + Cell .. h + Cell + old - 1
             m2  == [b \in CellAddresses |->
                       IF b \in to THEN t.mem[g + Cell + b - (h + Cell)]
                       ELSE IF b = (g + Cell) - Cell THEN 0 - t.mem[b] ELSE t.mem[b]]
             r   == Moved(got, g + Cell, old)
  <1>1. /\ got.code = "ok" /\ got.addr = h + Cell /\ Open(t, H2) /\ h \in H2 /\ h \notin U
        /\ UsedHeaders(t, H2) = U \cup {h} /\ t.mem[h] = n /\ Keeps(m, U, t.mem) /\ Lowers(m, t.mem, {h})
    BY DEF GrantedAt, UsedHeaders
  <1>2. /\ g \in CellAddresses /\ g \in Int /\ old \in Int /\ old > 0 /\ StartBreak <= g
        /\ After(m, g) = g + Cell + old
        /\ \A c : Multiple(c, Cell) /\ g <= c /\ c < After(m, g) => c \in CellAddresses
        /\ Multiple(g + Cell, Cell) /\ m \in Memories
    BY OpenLeft, UsedBlock DEF Open
  <1>3. /\ h \in H2 \ {top} /\ h \in CellAddresses /\ h \in Int /\ n \in Int /\ After(t.mem, h) = h + Cell + n
        /\ After(t.mem, h) <= top /\ Multiple(h + Cell, Cell)
        /\ \A c : Multiple(c, Cell) /\ h <= c /\ c < After(t.mem, h) => c \in CellAddresses
    <2>1. h \in UsedHeaders(t, H2)
      BY <1>1
    <2>2. QED
      BY <1>1, <2>1, OpenLeft, UsedBlock
  <1>4. g \in H2 \ {top} /\ t.mem[g] = old /\ g # h
    <2>1. g \in UsedHeaders(t, H2) /\ g # h
      BY <1>1
    <2>2. t.mem[g] = old
      <3>1. g <= g /\ g < After(m, g)
        BY <1>2, Constants
      <3>2. QED
        BY <1>1, <1>2, <3>1 DEF Keeps
    <2>3. QED
      BY <2>1, <2>2 DEF UsedHeaders, Used
  <1>5. /\ t.mem \in Memories /\ Listed(t.mem, top, H2) /\ t.mem[top] = 0
        /\ t.brk \in StartBreak + Cell .. MaxBreak
        /\ t = [mem |-> t.mem, brk |-> t.brk, arenap |-> StartBreak, bcache |-> t.brk]
    BY <1>1 DEF Open, Tiles
  <1>6. Cell \in Nat \ {0} /\ t.brk \in Int /\ top \in Int /\ top < t.brk
    BY <1>5, Constants
  <1>7. \A b \in to : b \in Int /\ h + Cell <= b /\ b < After(t.mem, h) /\ b < h + Cell + old
    BY <1>2, <1>3, <1>6
  <1>8. \A b \in to : b % Cell = 0 => b \in CellAddresses /\ Mapped(t, b)
    <2>1. SUFFICES ASSUME NEW b \in to, b % Cell = 0 PROVE b \in CellAddresses /\ Mapped(t, b)
      OBVIOUS
    <2>2. b \in Int /\ h + Cell <= b /\ b < After(t.mem, h)
      BY <1>7
    <2>3. b \in CellAddresses
      <3>1. Multiple(b, Cell) /\ h <= b
        BY <1>3, <1>6, <2>1, <2>2 DEF Multiple
      <3>2. QED
        BY <1>3, <2>2, <3>1
    <2>4. RoundUp(t.brk) \in Int /\ t.brk <= RoundUp(t.brk)
      BY <1>6, PagesCover
    <2>5. b < RoundUp(t.brk)
      BY <1>3, <1>6, <2>2, <2>4
    <2>6. QED
      BY <2>3, <2>5 DEF Mapped
  <1>9. /\ r.code = "ok" /\ r.addr = h + Cell /\ r.s.mem = m2 /\ r.s.brk = t.brk
        /\ r.s = [mem |-> m2, brk |-> t.brk, arenap |-> StartBreak, bcache |-> t.brk]
    <2> DEFINE a == g + Cell
    <2>1. r = [got EXCEPT !.s.mem =
                 [b \in CellAddresses |->
                    IF b \in got.addr .. got.addr + old - 1 THEN got.s.mem[a + b - got.addr]
                    ELSE IF b = a - Cell THEN 0 - got.s.mem[b] ELSE got.s.mem[b]]]
      <3>1. ~\E b \in got.addr .. got.addr + old - 1 : b % Cell = 0 /\ ~Mapped(got.s, b)
        BY <1>1, <1>8
      <3> HIDE DEF old, a
      <3>2. QED
        BY <1>1, <3>1 DEF Moved, a
    <2>2. r = [got EXCEPT !.s.mem = m2]
      BY <1>1, <2>1
    <2> HIDE DEF m2, r
    <2>3. QED
      BY <1>1, <1>5, <2>2
  <1>10. (g + Cell) - Cell = g /\ \A b \in Int : g + Cell + b - (h + Cell) = g + (b - h)
    BY <1>2, <1>3, <1>6
  <1>11. m2 = [b \in CellAddresses |->
                 IF b \in to THEN t.mem[g + (b - h)] ELSE IF b = g THEN 0 - t.mem[b] ELSE t.mem[b]]
    BY <1>10, CellAddress
  <1>12. /\ \A b \in to \cap CellAddresses : m2[b] = t.mem[g + (b - h)]
         /\ \A b \in CellAddresses \ to : b # g => m2[b] = t.mem[b]
         /\ g \notin to => m2[g] = 0 - t.mem[g]
    <2> HIDE DEF m2, to
    <2>1. QED
      BY <1>2, <1>11
  <1> HIDE DEF r, m2
  <1>13. ASSUME NEW b \in to, b \in CellAddresses
         PROVE  /\ g + (b - h) \in CellAddresses /\ g + Cell <= g + (b - h) /\ g + (b - h) < After(m, g)
                /\ m2[b] = m[g + (b - h)]
    <2>1. b \in Int /\ h + Cell <= b /\ b < h + Cell + old
      BY <1>7
    <2>2. g <= g + (b - h) /\ g + Cell <= g + (b - h) /\ g + (b - h) < After(m, g)
      BY <1>2, <1>3, <1>6, <2>1
    <2>3. Multiple(g + (b - h), Cell)
      <3>1. Multiple(b, Cell) /\ Multiple(h, Cell) /\ Multiple(g, Cell)
        BY <1>2, <1>3, <1>13, CellAddress
      <3>2. Multiple(b - h, Cell)
        BY <1>6, <3>1, MultipleSum
      <3>3. QED
        BY <1>6, <3>1, <3>2, MultipleSum
    <2>4. g + (b - h) \in CellAddresses
      BY <1>2, <2>2, <2>3
    <2>5. t.mem[g + (b - h)] = m[g + (b - h)]
      BY <1>1, <2>2, <2>4 DEF Keeps
    <2>6. QED
      BY <1>12, <1>13, <2>2, <2>4, <2>5
  <1>14. \A k \in H2 : k \in CellAddresses /\ k \in Int /\ k \notin to
    <2>1. SUFFICES ASSUME NEW k \in H2, k \in to PROVE FALSE
      BY <1>5, ListNumbers
    <2>2. k \in Int /\ h + Cell <= k /\ k < After(t.mem, h) /\ After(t.mem, h) \in Int
      BY <1>3, <1>5, <1>7, <2>1, ListNumbers
    <2>3. k <= h \/ After(t.mem, h) <= k
      BY <1>3, <1>5 DEF Listed
    <2>4. QED
      BY <1>3, <1>6, <2>2, <2>3
  <1>15. m2[g] = 0 - old /\ \A k \in H2 : k # g => m2[k] = t.mem[k]
    BY <1>4, <1>12, <1>14
  <1>16. m2 \in Memories
    <2>1. \A c \in CellAddresses : m[c] \in Contents /\ t.mem[c] \in Contents
      BY <1>2, <1>5 DEF Memories
    <2>2. 0 - t.mem[g] \in Contents
      <3>1. 0 - old \in Contents
        <4>1. old \in Contents
          BY <1>2, <2>1
        <4>2. QED
          BY <1>2, <4>1, Constants DEF Contents
      <3>2. QED
        BY <1>4, <3>1
    <2>3. ASSUME NEW b \in CellAddresses PROVE m2[b] \in Contents
      <3>1. CASE b \in to
        BY <1>13, <2>1, <3>1
      <3>2. CASE b \notin to
        <4>1. CASE b = g
          BY <1>4, <1>15, <2>2, <4>1
        <4>2. CASE b # g
          BY <1>12, <2>1, <3>2, <4>2
        <4>3. QED
          BY <4>1, <4>2
      <3>3. QED
        BY <3>1, <3>2
    <2>4. QED
      BY <1>11, <2>3 DEF Memories
  <1>17. Listed(m2, top, H2)
    <2>1. ASSUME NEW k \in H2 \ {top} PROVE m2[k] # 0 /\ After(m2, k) = After(t.mem, k)
      <3>1. CASE k = g
        BY <1>2, <1>4, <1>15, <3>1 DEF After
      <3>2. CASE k # g
        <4>1. m2[k] = t.mem[k] /\ t.mem[k] # 0
          BY <1>5, <1>15, <3>2 DEF Listed
        <4>2. QED
          BY <4>1 DEF After
      <3>3. QED
        BY <3>1, <3>2
    <2>2. QED
      BY <1>5, <2>1, Rewritten
  <1>18. Open(r.s, H2)
    <2>1. m2[top] = 0
      BY <1>4, <1>5, <1>15 DEF Listed
    <2> HIDE DEF top
    <2>2. Tiles(r.s.mem, r.s.brk - Cell, H2)
      BY <1>9, <1>17, <2>1 DEF Tiles, top
    <2>3. QED
      BY <1>5, <1>9, <1>16, <2>2 DEF Open
  <1>19. UsedHeaders(r.s, H2) = (U \ {g}) \cup {h}
    <2>1. UsedHeaders(r.s, H2) = Used(m2, top, H2)
      BY <1>9 DEF UsedHeaders
    <2>2. Used(m2, top, H2) = Used(t.mem, top, H2) \ {g}
      <3>1. ~(m2[g] > 0)
        BY <1>2, <1>15
      <3>2. QED
        BY <1>15, <3>1 DEF Used
    <2>3. Used(t.mem, top, H2) = U \cup {h}
      BY <1>1 DEF UsedHeaders
    <2>4. QED
      BY <1>4, <2>1, <2>2, <2>3
  <1>20. Keeps(m, U \ {g}, m2)
    <2>1. SUFFICES ASSUME NEW u \in U \ {g}, NEW c \in CellAddresses, u <= c, c < After(m, u)
                   PROVE  m2[c] = m[c]
      BY DEF Keeps
    <2>2. t.mem[c] = m[c] /\ t.mem[u] = m[u] /\ After(t.mem, u) = After(m, u)
      <3>1. U \subseteq CellAddresses
        BY OpenLeft, UsedBlock
      <3>2. t.mem[c] = m[c]
        BY <1>1, <2>1 DEF Keeps
      <3>3. QED
        BY <1>1, <1>2, <3>1, <3>2, KeepsHeaders
    <2>3. u \in H2 \ {top} /\ u # h /\ c \in Int /\ c < After(t.mem, u)
      <3>1. u \in UsedHeaders(t, H2) /\ u # h
        BY <1>1
      <3>2. QED
        BY <2>1, <2>2, <3>1, CellAddress DEF UsedHeaders, Used
    <2>4. (c < h \/ After(t.mem, h) <= c) /\ (c < g \/ After(t.mem, g) <= c)
      BY <1>3, <1>4, <1>5, <2>1, <2>3, BlocksApart
    <2>5. c \notin to
      BY <1>3, <1>6, <1>7, <2>3, <2>4
    <2>6. c # g
      <3>1. g < After(t.mem, g) /\ After(t.mem, g) \in Int
        BY <1>4, <1>5, ListNumbers
      <3>2. QED
        BY <1>2, <2>3, <2>4, <3>1
    <2>7. QED
      BY <1>12, <2>2, <2>5, <2>6
  <1>21. m2[h] = n
    BY <1>1, <1>3, <1>4, <1>15
  <1>22. ASSUME NEW c \in CellAddresses, m[c] <= 0, ~(h <= c /\ c < h + Cell + n)
         PROVE  m2[c] <= 0
    <2>1. c # h /\ c \in Int /\ c \notin to
      <3>1. c \in Int
        BY CellAddress
      <3>2. c # h
        BY <1>3, <1>6, <1>22, <3>1, BlockSizes
      <3>3. c \notin to
        BY <1>3, <1>6, <1>7, <1>22, <3>1
      <3>4. QED
        BY <3>1, <3>2, <3>3
    <2>2. c # g
      BY <1>2, <1>22
    <2>3. m2[c] = t.mem[c] /\ t.mem[c] <= 0
      BY <1>1, <1>12, <1>22, <2>1, <2>2 DEF Lowers
    <2>4. QED
      BY <2>3
  <1>23. Changed(s, H, {g}, r.s, H2, {h}, n)
    <2>1. m2[g] <= 0 /\ m2[h] >= n /\ {h} \cap (U \ {g}) = {}
      BY <1>1, <1>2, <1>3, <1>15, <1>21
    <2>2. QED
      BY <1>9, <1>18, <1>19, <1>20, <1>22, <2>1 DEF Changed, Replaces
  <1>24. Copied(s, g, r.s, h)
    <2>1. SUFFICES ASSUME NEW c \in CellAddresses, g + Cell <= c, c < After(m, g)
                   PROVE  m2[h + (c - g)] = m[c]
      BY <1>9 DEF Copied
    <2> DEFINE b == h + (c - g)
    <2>2. c \in Int /\ b \in Int /\ g + (b - h) = c
      BY <1>2, <1>3, CellAddress
    <2>3. b \in to /\ h <= b /\ b < After(t.mem, h)
      <3>1. h + Cell <= b /\ b <= h + Cell + old - 1
        BY <1>2, <1>3, <1>6, <2>1, <2>2
      <3>2. h <= b /\ b < After(t.mem, h)
        BY <1>2, <1>3, <1>6, <2>2, <3>1
      <3>3. QED
        BY <1>2, <1>3, <1>6, <2>2, <3>1, <3>2
    <2>4. Multiple(b, Cell)
      <3>1. Multiple(c, Cell) /\ Multiple(h, Cell) /\ Multiple(g, Cell)
        BY <1>2, <1>3, CellAddress
      <3>2. Multiple(c - g, Cell)
        BY <1>6, <3>1, MultipleSum
      <3>3. QED
        BY <1>6, <3>1, <3>2, MultipleSum
    <2> HIDE DEF b, to
    <2>5. b \in CellAddresses
      BY <1>3, <2>3, <2>4
    <2>6. m2[b] = m[g + (b - h)]
      BY <1>13, <2>3, <2>5
    <2>7. QED
      BY <2>2, <2>6 DEF b
  <1>25. QED
    BY <1>9, <1>23, <1>24 DEF ResizedAt, r

(* What a grant returns is a record of three. *)
LEMMA GrantedRecord ==
  ASSUME NEW o, NEW n, o.thrown = FALSE
  PROVE  LET r == Granted(o, n) IN r = [s |-> r.s, code |-> r.code, addr |-> r.addr]
  <1>1. \A s, h : LET r == Slotted(s, h, n) IN r = [s |-> r.s, code |-> r.code, addr |-> r.addr]
    BY DEF Slotted, Fault, Extended, Reused
  <1>2. \E s, h : Granted(o, n) = Slotted(s, h, n)
    BY DEF Granted, Searched
  <1>3. QED
    BY <1>1, <1>2

(* RESIZE to a smaller size: the block stays, the rest becomes a free one. *)
LEMMA Shrinking ==
  ASSUME NEW s, NEW H, Open(s, H), NEW g \in UsedHeaders(s, H), NEW n, BlockSize(n), n <= s.mem[g]
  PROVE  \E H2 : ResizedAt(s, H, g, Shrunk(s, g + Cell, n, s.mem[g]), n, H2, g)
  <1> DEFINE m   == s.mem
             old == m[g]
             a   == g + Cell
             e   == a + n
             top == s.brk - Cell
             U   == UsedHeaders(s, H)
             m1  == [m EXCEPT ![g] = n]
             m2  == [m1 EXCEPT ![e] = n + Cell - old]
             r   == Shrunk(s, a, n, old)
  <1>1. /\ g \in H \ {top} /\ g \in CellAddresses /\ g \in Int /\ old \in Int /\ old > 0 /\ StartBreak <= g
        /\ After(m, g) = a + old /\ After(m, g) <= top /\ Multiple(a, Cell)
        /\ \A c : Multiple(c, Cell) /\ g <= c /\ c < After(m, g) => c \in CellAddresses
    BY OpenLeft, UsedBlock
  <1>2. /\ m \in Memories /\ Listed(m, top, H) /\ m[top] = 0 /\ s.brk \in StartBreak + Cell .. MaxBreak
        /\ s = [mem |-> m, brk |-> s.brk, arenap |-> StartBreak, bcache |-> s.brk]
    BY DEF Open, Tiles
  <1>3. /\ n \in Int /\ n > 0 /\ n \in Contents /\ Multiple(n, Cell) /\ Multiple(e, Cell) /\ e \in Int
    BY <1>1, BlockSizes DEF BlockSize, Multiple
  <1>4. /\ Cell \in Nat \ {0} /\ MaxBreak \in Nat /\ HalfRange \in Nat /\ MaxBreak <= HalfRange /\ s.brk <= MaxBreak
        /\ StartBreak \in Nat /\ a \in Int /\ (a - Cell) = g /\ s.brk \in Int /\ top \in Int /\ top < s.brk
    BY <1>1, <1>2, Constants
  <1>5. Wrap(old - n) = old - n
    <2>1. old <= MaxBreak
      BY <1>1, <1>4
    <2>2. old - n \in 0 - HalfRange .. HalfRange - 1
      BY <1>1, <1>3, <1>4, <2>1
    <2>3. QED
      BY <2>2, WrapFits
  <1>6. U \subseteq CellAddresses /\ \A u \in H : u \in CellAddresses /\ u \in Int
    BY <1>2, ListNumbers DEF UsedHeaders, Used
  <1>7. CASE old - n < 2 * Cell
    <2>1. r = [s |-> s, code |-> "ok", addr |-> a]
      <3> HIDE DEF old, a
      <3>1. QED
        BY <1>5, <1>7 DEF Shrunk
    <2> HIDE DEF r
    <2>2. r.code = "ok" /\ r.addr = a /\ r.s = s
      BY <2>1
    <2>3. Changed(s, H, {g}, s, H, {g}, n)
      <3>1. Keeps(m, U \ {g}, m)
        BY DEF Keeps
      <3>2. UsedHeaders(s, H) = (U \ {g}) \cup {g}
        OBVIOUS
      <3>3. QED
        BY <3>1, <3>2 DEF Changed, Replaces
    <2>4. Copied(s, g, s, g)
      <3>1. \A c \in CellAddresses : c \in Int /\ g + (c - g) = c
        BY <1>1, CellAddress
      <3>2. QED
        BY <3>1 DEF Copied
    <2>5. ResizedAt(s, H, g, r, n, H, g)
      BY <2>2, <2>3, <2>4 DEF ResizedAt
    <2>6. QED
      BY <2>5 DEF r
  <1>8. CASE ~(old - n < 2 * Cell)
    <2>1. g < e /\ e < After(m, g) /\ e \in CellAddresses /\ e # top /\ e \notin H
      <3>1. g < e /\ e < After(m, g)
        BY <1>1, <1>3, <1>4, <1>8
      <3>2. e \in CellAddresses
        <4> HIDE DEF e
        <4>1. g <= e
          BY <1>1, <1>3, <3>1
        <4>2. QED
          BY <1>1, <1>3, <3>1, <4>1
      <3>3. \A u \in H : u <= g \/ After(m, g) <= u
        BY <1>1, <1>2 DEF Listed
      <3>4. e \notin H
        BY <1>1, <1>3, <1>4, <1>6, <3>1, <3>3
      <3>5. e # top
        BY <1>1, <1>3, <1>4, <3>1
      <3>6. QED
        BY <3>1, <3>2, <3>4, <3>5
    <2>2. n + Cell - old \in Contents /\ n + Cell - old \in Int /\ n + Cell - old < 0
      <3>1. old \in Contents
        BY <1>1, <1>2 DEF Memories
      <3>2. QED
        BY <1>1, <1>3, <1>4, <1>8, <3>1 DEF Contents
    <2>3. /\ m1 \in Memories /\ m1[g] = n /\ \A c \in CellAddresses : c # g => m1[c] = m[c]
      BY <1>1, <1>2, <1>3 DEF Memories
    <2>4. /\ m2 \in Memories /\ m2[e] = n + Cell - old
          /\ \A c \in CellAddresses : c # e => m2[c] = m1[c]
      <3> HIDE DEF m1, e, old
      <3>1. QED
        BY <2>1, <2>2, <2>3 DEF Memories
    <2>5. /\ r.code = "ok" /\ r.addr = a /\ r.s.mem = m2 /\ r.s.brk = s.brk
          /\ r.s = [mem |-> m2, brk |-> s.brk, arenap |-> StartBreak, bcache |-> s.brk]
      <3> DEFINE s1 == [mem |-> m1, brk |-> s.brk, arenap |-> StartBreak, bcache |-> s.brk]
                 s2 == [mem |-> m2, brk |-> s.brk, arenap |-> StartBreak, bcache |-> s.brk]
      <3>1. r = [s |-> [[s EXCEPT !.mem[g] = n] EXCEPT !.mem[e] = n + Cell - old], code |-> "ok", addr |-> a]
        <4> HIDE DEF old, a
        <4>1. r = [s |-> [s EXCEPT !.mem[a - Cell] = n, !.mem[a + n] = n + Cell - old], code |-> "ok", addr |-> a]
          BY <1>5, <1>8, Zenon DEF Shrunk
        <4>2. QED
          BY <1>4, <4>1, Zenon DEF e
      <3>2. [s EXCEPT !.mem[g] = n] = s1
        BY <1>2
      <3>3. [s1 EXCEPT !.mem[e] = n + Cell - old] = s2
        OBVIOUS
      <3> HIDE DEF r, s1, s2, old, a, e
      <3>4. r = [s |-> s2, code |-> "ok", addr |-> a]
        BY <3>1, <3>2, <3>3, Zenon
      <3>5. r.code = "ok" /\ r.addr = a /\ r.s = s2
        BY <3>4
      <3>6. QED
        BY <3>5 DEF s2
    <2> HIDE DEF r, m1, m2
    <2>6. m2[g] = n /\ m2[g] # 0 /\ After(m2, g) = e
      <3>1. m2[g] = n
        BY <1>1, <1>3, <2>1, <2>3, <2>4
      <3>2. QED
        BY <1>1, <1>3, <1>4, <3>1 DEF After
    <2>7. m2[e] # 0 /\ After(m2, e) = After(m, g)
      <3>1. After(m2, e) = e + Cell + (0 - (n + Cell - old))
        BY <2>2, <2>4 DEF After
      <3>2. QED
        BY <1>1, <1>3, <1>4, <2>2, <2>4, <3>1
    <2>8. \A c \in CellAddresses : c # g /\ c # e => m2[c] = m[c]
      BY <2>3, <2>4
    <2>9. \A u \in H : u # g => m2[u] = m[u]
      BY <1>6, <2>1, <2>8
    <2> HIDE DEF e
    <2>10. Listed(m2, top, H \cup {e})
      BY <1>1, <1>2, <2>1, <2>6, <2>7, <2>9, Split
    <2>11. Open(r.s, H \cup {e})
      <3>1. m2[top] = 0
        BY <1>1, <1>2, <2>9 DEF Listed
      <3> HIDE DEF top
      <3>2. Tiles(r.s.mem, r.s.brk - Cell, H \cup {e})
        BY <2>5, <2>10, <3>1 DEF Tiles, top
      <3>3. QED
        BY <1>2, <2>4, <2>5, <3>2 DEF Open
    <2>12. UsedHeaders(r.s, H \cup {e}) = (U \ {g}) \cup {g} /\ g \in U
      <3>1. ~(m2[e] > 0) /\ m2[g] > 0 /\ m[g] > 0
        BY <1>1, <1>3, <2>2, <2>4, <2>6
      <3>2. Used(m2, top, H \cup {e}) = Used(m, top, H)
        BY <1>1, <2>9, <3>1 DEF Used
      <3>3. QED
        BY <1>1, <2>5, <3>1, <3>2 DEF UsedHeaders, Used
    <2>13. Keeps(m, U \ {g}, m2)
      <3>1. SUFFICES ASSUME NEW u \in U \ {g}, NEW c \in CellAddresses, u <= c, c < After(m, u)
                     PROVE  m2[c] = m[c]
        BY DEF Keeps
      <3>2. u \in H \ {top} /\ u # g /\ c \in Int
        BY CellAddress DEF UsedHeaders, Used
      <3>3. c < g \/ After(m, g) <= c
        BY <1>1, <1>2, <3>1, <3>2, BlocksApart
      <3>4. c # g /\ c # e
        <4>1. After(m, g) \in Int
          BY <1>1, <1>2, ListNumbers
        <4>2. QED
          BY <1>1, <1>3, <2>1, <3>2, <3>3, <4>1
      <3>5. QED
        BY <2>8, <3>4
    <2>14. ASSUME NEW c \in CellAddresses, m[c] <= 0, ~(g <= c /\ c < g + Cell + n) PROVE m2[c] <= 0
      <3>1. c # g
        BY <1>1, <2>14
      <3>2. CASE c = e
        BY <2>2, <2>4, <3>2
      <3>3. CASE c # e
        BY <2>8, <2>14, <3>1, <3>3
      <3>4. QED
        BY <3>2, <3>3
    <2>15. Changed(s, H, {g}, r.s, H \cup {e}, {g}, n)
      <3>1. {g} \cap (U \ {g}) = {} /\ m2[g] >= n
        BY <1>3, <2>6
      <3>2. QED
        BY <2>5, <2>11, <2>12, <2>13, <2>14, <3>1 DEF Changed, Replaces
    <2>16. Copied(s, g, r.s, g)
      <3>1. SUFFICES ASSUME NEW c \in CellAddresses, g + Cell <= c, c < g + Cell + n PROVE m2[g + (c - g)] = m[c]
        BY <2>5, <2>6 DEF Copied
      <3>2. c \in Int /\ g + (c - g) = c
        BY <1>1, CellAddress
      <3>3. c # g /\ c # e
        BY <1>1, <1>3, <1>4, <3>1, <3>2 DEF e
      <3>4. QED
        BY <2>8, <3>2, <3>3
    <2>17. ResizedAt(s, H, g, r, n, H \cup {e}, g)
      BY <2>5, <2>15, <2>16 DEF ResizedAt
    <2>18. QED
      BY <2>17 DEF r
  <1>9. QED
    BY <1>7, <1>8

(* RESIZE in an arena gives the block another size, or throws. *)
LEMMA Resizing ==
  ASSUME NEW s, NEW H, Open(s, H), NEW g \in UsedHeaders(s, H),
         NEW n \in Int, n >= 0, BlockSize(Rounded(n))
  PROVE  LET r == resize(s, g + Cell, n) IN
         \/ \E H2, h : ResizedAt(s, H, g, r, Rounded(n), H2, h)
         \/ \E H2 : ThrownWith(s, H, r, H2)
  <1> DEFINE a   == g + Cell
             k   == Rounded(n)
             old == s.mem[g]
             r   == resize(s, a, n)
             got == allocate(s, k)
  <1>1. old \in Int /\ old > 0 /\ k \in Int /\ k > 0 /\ Rounded(k) = k
    BY OpenLeft, UsedBlock, RoundedTwice
  <1>2. Aligned(a) = a /\ a - Cell = g /\ _allocsize(s, a) = old
    BY SizeFound
  <1> HIDE DEF k, a, got, old
  <1>3. r = Sized(Opened(s), a, k)
    <2>1. ~(n < 0)
      OBVIOUS
    <2>2. QED
      BY <1>2, <2>1, OpenArena DEF resize, k
  <1>4. r = IF k > old THEN Moved(got, a, old) ELSE Shrunk(s, a, k, old)
    BY <1>1, <1>2, <1>3 DEF Sized, Opened, got, old
  <1> HIDE DEF r
  <1>5. CASE k > old
    <2>1. Outcome(s, H, got, k)
      <3>1. BlockSize(Rounded(k))
        BY <1>1 DEF k
      <3>2. k >= 0
        BY <1>1
      <3>3. Outcome(s, H, got, Rounded(k))
        BY <1>1, <3>1, <3>2, Allocating DEF got
      <3>4. QED
        BY <1>1, <3>3
    <2>2. ASSUME NEW H2, NEW h, GrantedAt(s, H, got, k, H2, h) PROVE ResizedAt(s, H, g, r, k, H2, h)
      <3>1. got = [s |-> got.s, code |-> got.code, addr |-> got.addr]
        <4>1. got = Granted(Opened(s), k)
          BY <1>1, OpenArena DEF got, allocate
        <4>2. Opened(s).thrown = FALSE
          BY DEF Opened
        <4>3. QED
          BY <4>1, <4>2, GrantedRecord
      <3>2. r = Moved(got, a, old)
        BY <1>4, <1>5
      <3>3. BlockSize(k) /\ old < k
        BY <1>1, <1>5 DEF k
      <3>4. QED
        BY <2>2, <3>1, <3>2, <3>3, Moving DEF a, old
    <2>3. ASSUME NEW H2, ThrownWith(s, H, got, H2) PROVE ThrownWith(s, H, r, H2)
      <3>1. got.code # "ok"
        BY <2>3 DEF ThrownWith
      <3>2. r = got
        BY <1>4, <1>5, <3>1 DEF Moved
      <3>3. QED
        BY <2>3, <3>2
    <2>4. QED
      BY <2>1, <2>2, <2>3 DEF Outcome, k, r, a
  <1>6. CASE ~(k > old)
    <2>1. r = Shrunk(s, a, k, old) /\ k <= old /\ BlockSize(k)
      BY <1>1, <1>4, <1>6 DEF k
    <2>2. \E H2 : ResizedAt(s, H, g, r, k, H2, g)
      BY <2>1, Shrinking DEF a, old
    <2>3. QED
      BY <2>2 DEF k, r, a
  <1>7. QED
    BY <1>5, <1>6

-----------------------------------------------------------------------------
(* The list as the module's Headers and Blocks see it. *)

(* Headers, as the function it is. *)
Walks(m, b, s) ==
  CHOOSE from : from = [h \in Int |->
        IF h \notin CellAddresses \/ h >= b THEN {}
        ELSE IF m[h] = 0 THEN {h} ELSE {h} \cup from[NextHeader(s, h)]]

(* The walk along the headers is what its recursive definition says. *)
LEMMA WalksEquation ==
  ASSUME NEW m \in Memories, NEW b, NEW s, s.mem = m, NEW h \in Int
  PROVE  Walks(m, b, s)[h] =
           IF h \notin CellAddresses \/ h >= b THEN {}
           ELSE IF m[h] = 0 THEN {h} ELSE {h} \cup Walks(m, b, s)[After(m, h)]
  <1> DEFINE D    == {k \in CellAddresses : ~(k >= b) /\ m[k] # 0}
             next == [k \in Int |-> After(m, k)]
             base == [k \in Int |-> IF k \notin CellAddresses \/ k >= b THEN {} ELSE {k}]
             step == [p \in Int \X SUBSET Int |-> {p[1]} \cup p[2]]
             body(f, k) == IF k \notin CellAddresses \/ k >= b THEN {}
                           ELSE IF m[k] = 0 THEN {k} ELSE {k} \cup f[NextHeader(s, k)]
  <1>1. \A k \in D : k \in Int /\ After(m, k) \in Int /\ After(m, k) > k
    <2>1. SUFFICES ASSUME NEW k \in D PROVE k \in Int /\ After(m, k) \in Int /\ After(m, k) > k
      OBVIOUS
    <2>2. After(m, k) \in Int /\ k + Cell <= After(m, k)
      BY AfterLater
    <2>3. Cell \in Nat \ {0} /\ k \in Int
      BY Constants, CellAddress
    <2>4. QED
      BY <2>2, <2>3
  <1>2. PICK f \in [Int -> SUBSET Int] : \A k \in Int : Equation(f, D, next, step, base, k)
    <2>1. D \in SUBSET (StartBreak .. Last) /\ StartBreak \in Int /\ Last \in Int
      <3>1. StartBreak \in Int /\ Last \in Int
        BY CellAddress, Constants
      <3>2. \A k \in D : k \in StartBreak .. Last
        BY CellAddress
      <3>3. QED
        BY <3>1, <3>2
    <2>2. \A k \in D : next[k] \in Int /\ next[k] > k
      BY <1>1
    <2>3. base \in [Int -> SUBSET Int]
      OBVIOUS
    <2>4. \A k \in D, v \in SUBSET Int : step[<<k, v>>] \in SUBSET Int
      <3>1. SUFFICES ASSUME NEW k \in D, NEW v \in SUBSET Int PROVE step[<<k, v>>] \in SUBSET Int
        OBVIOUS
      <3>2. k \in Int /\ step[<<k, v>>] = {k} \cup v
        BY <1>1
      <3>3. QED
        BY <3>2
    <2> HIDE DEF D, next, base, step
    <2>5. QED
      BY <2>1, <2>2, <2>3, <2>4, Upwards
  <1>3. ASSUME NEW k \in Int PROVE f[k] = body(f, k)
    <2>1. CASE k \in D
      <3>1. f[k] = step[<<k, f[next[k]]>>]
        BY <1>2, <2>1 DEF Equation
      <3>2. next[k] = After(m, k) /\ After(m, k) \in Int /\ f[next[k]] \in SUBSET Int
        BY <1>1, <1>2, <2>1
      <3>3. step[<<k, f[next[k]]>>] = {k} \cup f[After(m, k)]
        BY <3>2
      <3>4. NextHeader(s, k) = After(m, k)
        BY <2>1, AfterLater
      <3>5. k \in CellAddresses /\ ~(k >= b) /\ m[k] # 0
        BY <2>1
      <3> HIDE DEF D, next, step, base
      <3>6. f[k] = {k} \cup f[After(m, k)]
        BY <3>1, <3>3
      <3>7. QED
        BY <3>4, <3>5, <3>6
    <2>2. CASE k \notin D
      <3>1. f[k] = base[k]
        BY <1>2, <2>2 DEF Equation
      <3>2. (k \notin CellAddresses \/ k >= b) \/ m[k] = 0
        BY <2>2
      <3>3. base[k] = body(f, k)
        BY <3>2
      <3> HIDE DEF base, body
      <3>4. QED
        BY <3>1, <3>3
    <2>3. QED
      BY <2>1, <2>2
  <1>4. f = [k \in Int |-> body(f, k)]
    <2> HIDE DEF body
    <2>1. QED
      BY <1>3
  <1> DEFINE w == Walks(m, b, s)
  <1>5. w = [k \in Int |-> body(w, k)]
    BY <1>4 DEF Walks
  <1>6. w[h] = body(w, h)
    <2> HIDE DEF w, body
    <2>1. QED
      BY <1>5
  <1>7. h \in CellAddresses => NextHeader(s, h) = After(m, h)
    BY AfterLater
  <1> HIDE DEF w
  <1>8. w[h] = IF h \notin CellAddresses \/ h >= b THEN {}
               ELSE IF m[h] = 0 THEN {h} ELSE {h} \cup w[After(m, h)]
    BY <1>6, <1>7
  <1>9. QED
    BY <1>8 DEF w

(* From a header of the list the walk finds those from there on. *)
LEMMA WalksListed ==
  ASSUME NEW s, NEW H, Left(s, H), NEW h \in H
  PROVE  Walks(s.mem, s.brk, s)[h] = {k \in H : h <= k}
  <1> DEFINE m   == s.mem
             top == s.brk - Cell
             w   == Walks(s.mem, s.brk, s)
             T   == {k \in H : w[k] # {j \in H : k <= j}}
  <1>1. m \in Memories /\ Listed(m, top, H) /\ s.brk \in StartBreak + Cell .. MaxBreak
    BY DEF Left
  <1>2. /\ Cell \in Nat \ {0} /\ s.brk \in Int /\ top \in Int /\ top + Cell = s.brk /\ top \in H
        /\ \A k \in H : k \in Int
    BY <1>1, Constants, ListNumbers DEF Listed
  <1>3. \A k \in Int : w[k] = IF k \notin CellAddresses \/ k >= s.brk THEN {}
                              ELSE IF m[k] = 0 THEN {k} ELSE {k} \cup w[After(m, k)]
    <2>1. SUFFICES ASSUME NEW k \in Int
                   PROVE  w[k] = IF k \notin CellAddresses \/ k >= s.brk THEN {}
                                 ELSE IF m[k] = 0 THEN {k} ELSE {k} \cup w[After(m, k)]
      BY Zenon
    <2> DEFINE b == s.brk
    <2>2. m \in Memories /\ s.mem = m
      BY <1>1
    <2> HIDE DEF m, b
    <2>3. Walks(m, b, s)[k] = IF k \notin CellAddresses \/ k >= b THEN {}
                              ELSE IF m[k] = 0 THEN {k} ELSE {k} \cup Walks(m, b, s)[After(m, k)]
      BY <2>2, WalksEquation, SMTT(30)
    <2>4. QED
      BY <2>3, Zenon DEF m, b
  <1> HIDE DEF w
  <1>4. CASE T # {}
    <2>1. T \in SUBSET Int /\ \A k \in T : k <= top
      BY <1>1, <1>2 DEF Listed
    <2>2. PICK k \in T : \A j \in T : j <= k
      <3> HIDE DEF T, top
      <3>1. QED
        BY <1>2, <1>4, <2>1, LastOf
    <2>3. k \in H /\ k \in Int /\ k \in CellAddresses /\ ~(k >= s.brk) /\ After(m, k) \in Int
      <3>1. k \in H
        BY <2>2
      <3>2. k \in Int /\ k \in CellAddresses /\ After(m, k) \in Int /\ k <= top
        BY <1>1, <3>1, ListNumbers
      <3>3. QED
        BY <1>2, <3>1, <3>2
    <2>4. w[k] = IF m[k] = 0 THEN {k} ELSE {k} \cup w[After(m, k)]
      BY <1>3, <2>3
    <2>5. CASE k = top
      <3>1. {j \in H : k <= j} = {k}
        <4>1. \A j \in H : k <= j => j = k
          BY <1>1, <1>2, <2>3, <2>5 DEF Listed
        <4>2. k <= k
          BY <2>3
        <4>3. \A j \in H : k <= j <=> j = k
          BY <4>1, <4>2, Zenon
        <4>4. QED
          BY <2>3, <4>3, Zenon
      <3>2. CASE m[k] = 0
        BY <2>2, <2>4, <3>1, <3>2
      <3>3. CASE m[k] # 0
        <4>1. After(m, k) >= s.brk
          <5>1. k + Cell < After(m, k)
            BY <1>1, <2>3, <3>3, AfterLater
          <5>2. QED
            BY <1>2, <2>3, <2>5, <5>1
        <4>2. w[After(m, k)] = {}
          BY <1>3, <2>3, <4>1
        <4>3. QED
          BY <2>2, <2>4, <3>1, <3>3, <4>2
      <3>4. QED
        BY <3>2, <3>3
    <2>6. CASE k # top
      <3> DEFINE n == After(m, k)
      <3>1. m[k] # 0 /\ n \in H /\ n \in Int /\ k < n
        <4>1. k < n
          BY <1>1, <2>3, ListNumbers
        <4>2. QED
          BY <1>1, <2>3, <2>6, <4>1 DEF Listed
      <3>2. n \notin T
        BY <2>2, <2>3, <3>1
      <3>3. w[n] = {j \in H : n <= j}
        BY <3>1, <3>2
      <3>4. {j \in H : k <= j} = {k} \cup {j \in H : n <= j}
        <4>1. \A j \in H : j <= k \/ n <= j
          BY <1>1, <2>3, <2>6 DEF Listed
        <4> HIDE DEF n
        <4>2. \A j \in H : k <= j <=> j = k \/ n <= j
          BY <1>2, <2>3, <3>1, <4>1
        <4>3. QED
          BY <2>3, <4>2
      <3> HIDE DEF n
      <3>5. w[k] = {k} \cup w[n]
        BY <2>4, <3>1 DEF n
      <3>6. QED
        BY <2>2, <3>3, <3>4, <3>5
    <2>7. QED
      BY <2>5, <2>6
  <1>5. QED
    BY <1>4 DEF w

(* The contents of the blocks with headers U. *)
ContentsOf(m, U) ==
  [a \in {h + Cell : h \in U} |-> [i \in 1 .. m[a - Cell] \div Cell |-> m[a + (i - 1) * Cell]]]

BlocksOf(s, H) == ContentsOf(s.mem, UsedHeaders(s, H))

HeadersOf(m, b, p, s) == IF p = 0 THEN {} ELSE Walks(m, b, s)[p]

(* The headers that the module's definitions find are those of the list. *)
LEMMA HeadersListed ==
  ASSUME NEW s, NEW H, Left(s, H)
  PROVE  /\ HeadersOf(s.mem, s.brk, s.arenap, s) = H
         /\ {k \in H : s.mem[k] > 0 /\ NextHeader(s, k) < s.brk} = UsedHeaders(s, H)
  <1> DEFINE m   == s.mem
             top == s.brk - Cell
  <1>1. /\ m \in Memories /\ Listed(m, top, H) /\ s.brk \in StartBreak + Cell .. MaxBreak
        /\ s.arenap = StartBreak
    BY DEF Left
  <1>2. /\ Cell \in Nat \ {0} /\ StartBreak \in Nat \ {0} /\ s.brk \in Int /\ top \in Int
        /\ top + Cell = s.brk /\ top < s.brk
    BY <1>1, Constants
  <1>3. StartBreak \in H /\ \A k \in H : k \in CellAddresses /\ StartBreak <= k
    BY <1>1, ListNumbers DEF Listed
  <1>4. HeadersOf(m, s.brk, s.arenap, s) = H
    <2>1. Walks(m, s.brk, s)[StartBreak] = {k \in H : StartBreak <= k}
      BY <1>3, WalksListed
    <2>2. {k \in H : StartBreak <= k} = H
      BY <1>3
    <2>3. QED
      BY <1>1, <1>2, <2>1, <2>2 DEF HeadersOf
  <1>5. ASSUME NEW k \in H
        PROVE  m[k] > 0 /\ NextHeader(s, k) < s.brk <=> k # top /\ m[k] > 0
    <2>1. NextHeader(s, k) = After(m, k) /\ After(m, k) \in Int
      BY <1>1, <1>3, AfterLater
    <2>2. CASE k = top
      <3>1. m[k] > 0 => k + Cell < After(m, k)
        <4>1. m[k] > 0 => m[k] # 0
          OBVIOUS
        <4>2. m[k] # 0 => k + Cell < After(m, k)
          BY <1>1, <1>3, AfterLater
        <4>3. QED
          BY <4>1, <4>2
      <3>2. QED
        BY <1>2, <2>1, <2>2, <3>1
    <2>3. CASE k # top
      <3>1. After(m, k) <= top
        BY <1>1, <2>3, ListNumbers
      <3>2. QED
        BY <1>2, <2>1, <2>3, <3>1
    <2>4. QED
      BY <2>2, <2>3
  <1>6. QED
    BY <1>4, <1>5 DEF UsedHeaders, Used

-----------------------------------------------------------------------------
(* What the program holds and gave back. *)

(* The cells of a block, counted in bytes. *)
LEMMA CellSteps ==
  ASSUME NEW i \in Int, NEW k \in Int, 0 <= i, i < k
  PROVE  i * Cell \in Int /\ k * Cell \in Int /\ 0 <= i * Cell /\ i * Cell + Cell <= k * Cell
         /\ Multiple(i * Cell, Cell)
  <1>1. Cell \in Nat \ {0}
    BY Constants
  <1> DEFINE j == k - i - 1
  <1>2. j \in Nat /\ k = i + 1 + j /\ i \in Nat
    OBVIOUS
  <1> HIDE DEF j
  <1>3. i * Cell \in Int /\ j * Cell \in Int /\ 0 <= i * Cell /\ 0 <= j * Cell
    BY <1>1, <1>2
  <1>4. (i + 1 + j) * Cell = i * Cell + Cell + j * Cell
    BY <1>1, <1>2
  <1>5. Multiple(i * Cell, Cell)
    <2>1. Cell * i = i * Cell
      BY <1>1
    <2>2. Multiple(Cell * i, Cell)
      BY <1>1, MultipleProduct
    <2>3. QED
      BY <2>1, <2>2
  <1>6. QED
    BY <1>1, <1>2, <1>3, <1>4, <1>5

(* The block with header h is one that the program holds as e tells. *)
Entry(m, e, h) ==
  /\ e \in [asked : Sizes, kept : Nat, tag : Values \cup {0}]
  /\ e.asked >= 0 /\ Asked(e.asked) <= m[h] /\ e.kept * Cell <= Asked(e.asked)
  /\ \A i \in 0 .. e.kept - 1 : m[h + Cell + i * Cell] = e.tag

Holding(s, H, f) ==
  \A a \in DOMAIN f : \E h \in UsedHeaders(s, H) : a = h + Cell /\ Entry(s.mem, f[a], h)

(* The header of an address given back is none of a block, and no data the
   program holds is there.                                                   *)
GaveBack(m, f, S) ==
  \A x \in S : \E c \in CellAddresses :
    /\ x = c + Cell /\ x <= MaxBreak /\ m[c] <= 0
    /\ \A a \in DOMAIN f : c \notin a - Cell .. a + Asked(f[a].asked) - 1

(* The cells that hold data lie in the block. *)
LEMMA EntryCells ==
  ASSUME NEW s, NEW H, Left(s, H), NEW h \in UsedHeaders(s, H), NEW i \in Nat, NEW k \in Nat, i < k,
         NEW n \in Int, k * Cell <= n, n <= s.mem[h]
  PROVE  LET c == h + Cell + i * Cell IN
         /\ c \in CellAddresses /\ h + Cell <= c /\ c < After(s.mem, h) /\ c + Cell <= h + Cell + n
  <1> DEFINE p == i * Cell
             c == h + Cell + p
  <1> DEFINE q == k * Cell
  <1>1. p \in Int /\ 0 <= p /\ p + Cell <= q /\ Multiple(p, Cell) /\ q \in Int
    BY CellSteps
  <1>2. q <= n
    OBVIOUS
  <1> HIDE DEF p, q
  <1>3. p \in Int /\ 0 <= p /\ p + Cell <= n /\ Multiple(p, Cell) /\ Cell \in Nat \ {0}
    BY <1>1, <1>2, Constants
  <1>4. /\ h \in Int /\ s.mem[h] \in Int /\ After(s.mem, h) = h + Cell + s.mem[h]
        /\ Multiple(h + Cell, Cell)
        /\ \A x : Multiple(x, Cell) /\ h <= x /\ x < After(s.mem, h) => x \in CellAddresses
    BY UsedBlock
  <1>5. Multiple((h + Cell) + p, Cell)
    BY <1>3, <1>4, MultipleSum
  <1>6. h <= c /\ h + Cell <= c /\ c < After(s.mem, h) /\ c + Cell <= h + Cell + n
    BY <1>3, <1>4
  <1>7. c \in CellAddresses
    BY <1>4, <1>5, <1>6
  <1>8. QED
    BY <1>6, <1>7 DEF p

(* A request that is not refused asks for a whole number of cells. *)
LEMMA AskedNumber ==
  ASSUME SmallRequests, NEW n \in Sizes, n >= 0
  PROVE  Asked(n) \in Int /\ Cell <= Asked(n) /\ (Asked(n) \div Cell) * Cell = Asked(n)
         /\ Asked(n) \div Cell \in Nat /\ BlockSize(Asked(n)) /\ Rounded(n) = Asked(n)
         /\ n \in Int /\ n <= Asked(n)
  <1> DEFINE k == Asked(n)
  <1>1. BlockSize(k) /\ Rounded(n) = k /\ Cell \in Nat \ {0} /\ n \in Int /\ n <= k
    BY Requests, Constants, AllocatorAssumption
  <1> HIDE DEF k
  <1>2. k \in Int /\ Cell <= k /\ Multiple(k, Cell)
    BY <1>1 DEF BlockSize, Multiple
  <1> DEFINE q == k \div Cell
  <1>3. q \in Int /\ Cell * q = k
    BY <1>1, <1>2, MultipleQuotient
  <1> HIDE DEF q
  <1>4. q \in Nat
    <2>1. CASE q < 0
      <3>1. Cell * q <= 0
        BY <1>1, <1>3, <2>1
      <3>2. QED
        BY <1>1, <1>2, <1>3, <3>1
    <2>2. QED
      BY <1>3, <2>1
  <1>5. q * Cell = k
    BY <1>1, <1>3, <1>4
  <1>6. QED
    BY <1>1, <1>2, <1>4, <1>5 DEF k, q

(* A block that stays as it is holds what the program stored. *)
LEMMA EntryKept ==
  ASSUME SmallRequests, NEW s, NEW H, Left(s, H), NEW U, U \subseteq UsedHeaders(s, H), NEW h \in U,
         NEW m2, Keeps(s.mem, U, m2), NEW e, Entry(s.mem, e, h)
  PROVE  Entry(m2, e, h)
  <1> DEFINE m == s.mem
             n == Asked(e.asked)
  <1>1. h \in UsedHeaders(s, H) /\ h \in CellAddresses /\ m \in Memories
    BY UsedBlock DEF Left
  <1>2. m2[h] = m[h]
    <2>1. U \subseteq CellAddresses
      BY UsedBlock
    <2>2. QED
      BY <1>1, <2>1, KeepsHeaders
  <1>3. e \in [asked : Sizes, kept : Nat, tag : Values \cup {0}] /\ e.asked >= 0 /\ n <= m[h]
        /\ e.kept * Cell <= n /\ n \in Int /\ e.kept \in Nat
    BY AskedNumber DEF Entry
  <1>4. ASSUME NEW i \in 0 .. e.kept - 1 PROVE m2[h + Cell + i * Cell] = m[h + Cell + i * Cell]
    <2> DEFINE c == h + Cell + i * Cell
               k == e.kept
    <2>1. i \in Nat /\ k \in Nat /\ i < k /\ k * Cell <= n
      BY <1>3
    <2> HIDE DEF k, n
    <2>2. c \in CellAddresses /\ h + Cell <= c /\ c < After(m, h)
      BY <1>1, <1>3, <2>1, EntryCells
    <2>3. h <= c
      <3>1. h \in Int /\ c \in Int
        BY <1>1, <2>2, CellAddress
      <3> HIDE DEF c
      <3>2. QED
        BY <2>2, <3>1, Constants
    <2> HIDE DEF c
    <2>4. m2[c] = m[c]
      BY <2>2, <2>3 DEF Keeps
    <2>5. QED
      BY <2>4 DEF c
  <1>5. \A i \in 0 .. e.kept - 1 : m2[h + Cell + i * Cell] = e.tag
    BY <1>4 DEF Entry
  <1>6. QED
    BY <1>2, <1>3, <1>5 DEF Entry

(* What the program holds afterwards. *)
HoldsOn(m2, G, N, f, f2) ==
  \A a \in DOMAIN f2 :
    \/ a \in DOMAIN f /\ f2[a] = f[a] /\ \A g \in G : a # g + Cell
    \/ \E h \in N : a = h + Cell /\ Entry(m2, f2[a], h)

(* What the program holds after a change of the list. *)
LEMMA HoldingChanged ==
  ASSUME SmallRequests, NEW s, NEW H, Left(s, H), NEW G, NEW s2, NEW H2, NEW N,
         Replaces(s, H, G, s2, H2, N),
         NEW f, Holding(s, H, f), NEW f2, HoldsOn(s2.mem, G, N, f, f2)
  PROVE  Holding(s2, H2, f2)
  <1> DEFINE U == UsedHeaders(s, H) \ G
  <1> USE DEF Replaces, HoldsOn
  <1>1. SUFFICES ASSUME NEW a \in DOMAIN f2
                 PROVE  \E h \in U \cup N : a = h + Cell /\ Entry(s2.mem, f2[a], h)
    BY DEF Holding
  <1>2. CASE \E h \in N : a = h + Cell /\ Entry(s2.mem, f2[a], h)
    BY <1>2
  <1>3. CASE a \in DOMAIN f /\ f2[a] = f[a] /\ \A g \in G : a # g + Cell
    <2>1. PICK h \in UsedHeaders(s, H) : a = h + Cell /\ Entry(s.mem, f[a], h)
      BY <1>3 DEF Holding
    <2>2. h \in U /\ U \subseteq UsedHeaders(s, H)
      BY <1>3, <2>1
    <2>3. Entry(s2.mem, f[a], h)
      BY <2>1, <2>2, EntryKept
    <2>4. QED
      BY <1>3, <2>1, <2>2, <2>3
  <1>4. QED
    BY <1>2, <1>3

(* The program uses at most n bytes of each new block. *)
CoversAtMost(n, G, N, f, f2) ==
  \A a \in DOMAIN f2 :
    \/ a \in DOMAIN f /\ f2[a] = f[a] /\ \A g \in G : a # g + Cell
    \/ \E h \in N : a = h + Cell /\ Asked(f2[a].asked) \in Int /\ Asked(f2[a].asked) <= n

(* What it has given back, afterwards. *)
GivesOn(n, G, N, S, S2) ==
  \A x \in S2 :
    /\ x \in S \/ \E g \in G \ N : x = g + Cell
    /\ \A h \in N : ~(h <= x - Cell /\ x - Cell < h + Cell + n)

(* What it gave back, after a change of the list. *)
LEMMA GaveChanged ==
  ASSUME SmallRequests, NEW s, NEW H, Open(s, H), NEW G, G \subseteq UsedHeaders(s, H),
         NEW s2, NEW H2, NEW N, N \subseteq Int, NEW n \in Int, Changed(s, H, G, s2, H2, N, n),
         NEW f, Holding(s, H, f), NEW S, GaveBack(s.mem, f, S),
         NEW f2, CoversAtMost(n, G, N, f, f2), NEW S2, GivesOn(n, G, N, S, S2)
  PROVE  GaveBack(s2.mem, f2, S2)
  <1> DEFINE m == s.mem
  <1> USE DEF CoversAtMost, GivesOn
  <1>1. SUFFICES ASSUME NEW x \in S2
                 PROVE  \E c \in CellAddresses :
                          /\ x = c + Cell /\ x <= MaxBreak /\ s2.mem[c] <= 0
                          /\ \A a \in DOMAIN f2 : c \notin a - Cell .. a + Asked(f2[a].asked) - 1
    BY DEF GaveBack
  <1>2. Cell \in Nat \ {0}
    BY Constants
  <1>3. Left(s, H) /\ m \in Memories /\ Listed(m, s.brk - Cell, H)
    BY OpenLeft DEF Open, Tiles
  <1>4. PICK c \in CellAddresses :
          /\ x = c + Cell /\ x <= MaxBreak /\ s2.mem[c] <= 0
          /\ \A a \in DOMAIN f : (\A g \in G : a # g + Cell) =>
               c \notin a - Cell .. a + Asked(f[a].asked) - 1
    <2>1. CASE x \in S
      <3>1. PICK c \in CellAddresses :
              /\ x = c + Cell /\ x <= MaxBreak /\ m[c] <= 0
              /\ \A a \in DOMAIN f : c \notin a - Cell .. a + Asked(f[a].asked) - 1
        BY <2>1 DEF GaveBack
      <3>2. c \in Int /\ x - Cell = c
        BY <1>2, <3>1, CellAddress
      <3>3. \A h \in N : ~(h <= c /\ c < h + Cell + n)
        BY <3>2
      <3>4. s2.mem[c] <= 0
        BY <3>1, <3>3 DEF Changed, Replaces
      <3>5. QED
        BY <3>1, <3>4
    <2>2. CASE \E g \in G \ N : x = g + Cell
      <3>1. PICK g \in G \ N : x = g + Cell
        BY <2>2
      <3>2. /\ g \in UsedHeaders(s, H) /\ g \in H \ {s.brk - Cell} /\ g \in CellAddresses /\ g \in Int
            /\ g + Cell <= MaxBreak /\ g < After(m, g) /\ After(m, g) \in Int
        <4>1. g \in UsedHeaders(s, H)
          BY <3>1
        <4>2. /\ g \in H \ {s.brk - Cell} /\ g \in CellAddresses /\ g \in Int
              /\ g + Cell \in StartBreak + Cell .. MaxBreak
          BY <1>3, <4>1, UsedBlock
        <4>3. QED
          BY <1>2, <1>3, <4>1, <4>2, ListNumbers, Constants
      <3>3. s2.mem[g] <= 0
        BY <3>1 DEF Changed, Replaces
      <3>4. ASSUME NEW a \in DOMAIN f, \A k \in G : a # k + Cell
            PROVE  g \notin a - Cell .. a + Asked(f[a].asked) - 1
        <4>1. PICK u \in UsedHeaders(s, H) : a = u + Cell /\ Entry(m, f[a], u)
          BY DEF Holding
        <4>2. u # g
          BY <3>1, <3>4, <4>1
        <4>3. /\ u \in H \ {s.brk - Cell} /\ u \in Int /\ m[u] \in Int /\ After(m, u) = u + Cell + m[u]
          BY <1>3, UsedBlock
        <4>4. Asked(f[a].asked) <= m[u] /\ Asked(f[a].asked) \in Int
          BY <4>1, AskedNumber DEF Entry
        <4>5. u <= g /\ g < After(m, u) => FALSE
          <5>1. SUFFICES ASSUME u <= g, g < After(m, u) PROVE FALSE
            OBVIOUS
          <5>2. g < g \/ After(m, g) <= g
            BY <1>3, <3>2, <4>2, <4>3, <5>1, BlocksApart
          <5>3. QED
            BY <3>2, <5>2
        <4> DEFINE q == Asked(f[a].asked)
        <4> HIDE DEF q
        <4>6. g \notin a - Cell .. a + q - 1
          BY <1>2, <3>2, <4>1, <4>3, <4>4, <4>5 DEF q
        <4>7. QED
          BY <4>6 DEF q
      <3>5. QED
        BY <3>1, <3>2, <3>3, <3>4
    <2>3. QED
      BY <2>1, <2>2
  <1>5. ASSUME NEW a \in DOMAIN f2 PROVE c \notin a - Cell .. a + Asked(f2[a].asked) - 1
    <2>1. CASE a \in DOMAIN f /\ f2[a] = f[a] /\ \A g \in G : a # g + Cell
      BY <1>4, <2>1
    <2>2. CASE \E h \in N : a = h + Cell /\ Asked(f2[a].asked) \in Int /\ Asked(f2[a].asked) <= n
      <3> DEFINE q == Asked(f2[a].asked)
      <3>1. PICK h \in N : a = h + Cell /\ q \in Int /\ q <= n
        BY <2>2
      <3> HIDE DEF q
      <3>2. h \in Int /\ c \in Int /\ x - Cell = c
        BY <1>2, <1>4, CellAddress
      <3>3. ~(h <= c /\ c < h + Cell + n)
        BY <3>2
      <3>4. c \notin a - Cell .. a + q - 1
        BY <1>2, <3>1, <3>2, <3>3
      <3>5. QED
        BY <3>4 DEF q
    <2>3. QED
      BY <2>1, <2>2
  <1>6. QED
    BY <1>4, <1>5

-----------------------------------------------------------------------------
(* The blocks as a program sees them. *)

(* A block's contents are its cells, all of them in memory. *)
LEMMA BlockContents ==
  ASSUME NEW s, NEW H, Left(s, H), NEW h \in UsedHeaders(s, H)
  PROVE  LET b == BlocksOf(s, H)
             k == s.mem[h] \div Cell IN
         /\ h + Cell \in DOMAIN b /\ k \in Nat /\ k * Cell = s.mem[h]
         /\ b[h + Cell] = [i \in 1 .. k |-> s.mem[h + Cell + (i - 1) * Cell]]
         /\ DOMAIN b[h + Cell] = 1 .. k /\ Len(b[h + Cell]) = k /\ Cell * Len(b[h + Cell]) = s.mem[h]
         /\ \A i \in 1 .. k : LET c == h + Cell + (i - 1) * Cell IN
              c \in CellAddresses /\ h + Cell <= c /\ c < After(s.mem, h) /\ c + Cell <= h + Cell + k * Cell
  <1> DEFINE b == BlocksOf(s, H)
             a == h + Cell
             n == s.mem[h]
             k == n \div Cell
  <1>1. /\ h \in Int /\ n \in Int /\ n > 0 /\ Multiple(n, Cell) /\ Cell \in Nat \ {0}
    BY UsedBlock, Constants
  <1>2. k \in Int /\ Cell * k = n
    <2> HIDE DEF n
    <2>1. QED
      BY <1>1, MultipleQuotient
  <1> HIDE DEF k
  <1>3. k \in Nat
    <2>1. CASE k < 0
      <3>1. Cell * k <= 0
        BY <1>1, <1>2, <2>1
      <3>2. QED
        BY <1>1, <1>2, <3>1
    <2>2. QED
      BY <1>2, <2>1
  <1>4. k * Cell = n
    BY <1>1, <1>2, <1>3
  <1>5. a \in {x + Cell : x \in UsedHeaders(s, H)} /\ a - Cell = h
    BY <1>1
  <1> HIDE DEF a
  <1>6. a \in DOMAIN b /\ b[a] = [i \in 1 .. k |-> s.mem[a + (i - 1) * Cell]]
    BY <1>5 DEF BlocksOf, ContentsOf, k
  <1>7. DOMAIN b[a] = 1 .. k /\ Len(b[a]) = k
    <2> DEFINE q == [i \in 1 .. k |-> s.mem[a + (i - 1) * Cell]]
    <2>1. DOMAIN q = 1 .. k /\ Len(q) = k
      BY <1>3
    <2>2. QED
      BY <1>6, <2>1
  <1>8. ASSUME NEW i \in 1 .. k
        PROVE  LET c == h + Cell + (i - 1) * Cell IN
               c \in CellAddresses /\ h + Cell <= c /\ c < After(s.mem, h) /\ c + Cell <= h + Cell + n
    <2>1. i - 1 \in Nat /\ i - 1 < k /\ n <= n
      BY <1>1, <1>3
    <2> DEFINE j == i - 1
    <2> HIDE DEF j
    <2>2. j \in Nat /\ j < k /\ k * Cell <= n /\ n <= s.mem[h] /\ n \in Int
      BY <1>1, <1>4, <2>1 DEF j
    <2> HIDE DEF n
    <2>3. LET c == h + Cell + j * Cell IN
          c \in CellAddresses /\ h + Cell <= c /\ c < After(s.mem, h) /\ c + Cell <= h + Cell + n
      BY <1>3, <2>2, EntryCells
    <2>4. QED
      BY <2>3 DEF j
  <1>9. Cell * Len(b[a]) = n
    BY <1>2, <1>7
  <1>10. QED
    BY <1>3, <1>4, <1>6, <1>7, <1>8, <1>9 DEF a, k

(* A block is as long as its header says. *)
LEMMA BlockLength ==
  ASSUME NEW s, NEW H, Left(s, H), NEW h \in UsedHeaders(s, H)
  PROVE  Cell * Len(BlocksOf(s, H)[h + Cell]) = s.mem[h]
  <1> DEFINE q == BlocksOf(s, H)[h + Cell]
             k == s.mem[h] \div Cell
  <1>1. k \in Nat /\ k * Cell = s.mem[h] /\ q = [i \in 1 .. k |-> s.mem[h + Cell + (i - 1) * Cell]]
    BY BlockContents
  <1> HIDE DEF q, k
  <1>2. Len(q) = k
    <2> DEFINE v == [i \in 1 .. k |-> s.mem[h + Cell + (i - 1) * Cell]]
    <2>1. Len(v) = k
      BY <1>1
    <2>2. q = v
      BY <1>1
    <2> HIDE DEF v
    <2>3. QED
      BY <2>1, <2>2, Zenon
  <1>3. Cell * k = k * Cell
    BY <1>1, Constants
  <1>4. Cell * Len(q) = s.mem[h]
    BY <1>1, <1>2, <1>3
  <1>5. QED
    BY <1>4 DEF q

(* A block's address is behind its header. *)
LEMMA BlocksDomain ==
  ASSUME NEW s, NEW H
  PROVE  \A a : a \in DOMAIN BlocksOf(s, H) <=> \E h \in UsedHeaders(s, H) : a = h + Cell
  BY DEF BlocksOf, ContentsOf

(* Blocks never overlap. *)
LEMMA BlocksDisjoint ==
  ASSUME NEW s, NEW H, Left(s, H)
  PROVE  AbstractHeap!Disjoint(BlocksOf(s, H))
  <1> DEFINE b == BlocksOf(s, H)
             m == s.mem
  <1>1. SUFFICES ASSUME NEW a1 \in DOMAIN b, NEW a2 \in DOMAIN b, a1 # a2, NEW x,
                        x \in AbstractHeap!Extent(b, a1), x \in AbstractHeap!Extent(b, a2)
                 PROVE  FALSE
    BY DEF AbstractHeap!Disjoint
  <1>2. PICK h1 \in UsedHeaders(s, H) : a1 = h1 + Cell
    BY BlocksDomain
  <1>3. PICK h2 \in UsedHeaders(s, H) : a2 = h2 + Cell
    BY BlocksDomain
  <1>4. ASSUME NEW h \in UsedHeaders(s, H), x \in AbstractHeap!Extent(b, h + Cell)
        PROVE  /\ x \in Int /\ h <= x /\ x < After(m, h) /\ h \in H \ {s.brk - Cell} /\ h \in Int
    <2>1. Cell * Len(b[h + Cell]) = m[h]
      BY BlockLength
    <2>2. /\ h \in H \ {s.brk - Cell} /\ h \in Int /\ m[h] \in Int /\ After(m, h) = h + Cell + m[h]
          /\ Cell \in Nat
      BY UsedBlock, Constants
    <2>3. x \in h + Cell .. h + Cell + m[h] - 1
      BY <1>4, <2>1 DEF AbstractHeap!Extent
    <2>4. QED
      BY <2>2, <2>3
  <1>5. /\ x \in Int /\ h1 <= x /\ x < After(m, h1) /\ h2 <= x /\ x < After(m, h2)
        /\ h1 \in H \ {s.brk - Cell} /\ h2 \in H \ {s.brk - Cell} /\ h1 # h2
        /\ h1 \in Int /\ h2 \in Int
    BY <1>1, <1>2, <1>3, <1>4
  <1>6. m \in Memories /\ Listed(m, s.brk - Cell, H)
    BY DEF Left
  <1>7. x < h2 \/ After(m, h2) <= x
    BY <1>5, <1>6, BlocksApart
  <1>8. After(m, h2) \in Int
    BY <1>5, <1>6, ListNumbers
  <1>9. QED
    BY <1>5, <1>7, <1>8

(* The blocks that a change does not name stay as they are. *)
Named(S, G, N) == G \cup N \subseteq Int /\ \A h \in G \cup N : h + Cell \in S

(* A change of the list leaves the blocks it does not name. *)
LEMMA OthersStay ==
  ASSUME NEW s, NEW H, Left(s, H), NEW G, NEW N, NEW s2, NEW H2,
         Replaces(s, H, G, s2, H2, N), NEW S, Named(S, G, N)
  PROVE  LET b  == BlocksOf(s, H)
             b2 == BlocksOf(s2, H2) IN
         /\ DOMAIN b2 \ S = DOMAIN b \ S
         /\ \A a \in DOMAIN b \ S : b2[a] = b[a]
  <1> DEFINE b  == BlocksOf(s, H)
             b2 == BlocksOf(s2, H2)
             U  == UsedHeaders(s, H) \ G
             m  == s.mem
  <1> USE DEF Replaces, Named
  <1>1. ASSUME NEW a PROVE a \in DOMAIN b2 \ S <=> a \in DOMAIN b \ S
    <2>1. a \in DOMAIN b2 <=> \E h \in UsedHeaders(s2, H2) : a = h + Cell
      BY BlocksDomain
    <2>2. a \in DOMAIN b <=> \E h \in UsedHeaders(s, H) : a = h + Cell
      BY BlocksDomain
    <2> HIDE DEF b, b2
    <2>3. QED
      BY <2>1, <2>2
  <1>2. ASSUME NEW a \in DOMAIN b \ S PROVE b2[a] = b[a]
    <2>1. PICK h \in UsedHeaders(s, H) : a = h + Cell
      BY BlocksDomain
    <2>2. h \in U /\ h \in UsedHeaders(s2, H2) /\ h \in Int /\ h \in CellAddresses
      BY <1>2, <2>1, UsedBlock
    <2>3. m \in Memories /\ U \subseteq CellAddresses /\ Cell \in Nat
      BY UsedBlock, Constants DEF Left
    <2>4. s2.mem[h] = m[h]
      BY <2>2, <2>3, KeepsHeaders
    <2> DEFINE k == m[h] \div Cell
    <2>5. /\ b[a] = [i \in 1 .. k |-> m[h + Cell + (i - 1) * Cell]]
          /\ \A i \in 1 .. k : LET c == h + Cell + (i - 1) * Cell IN
               c \in CellAddresses /\ h + Cell <= c /\ c < After(m, h)
      <3> HIDE DEF b, k, m, U, b2
      <3>1. BlocksOf(s, H)[h + Cell] = [i \in 1 .. s.mem[h] \div Cell |-> s.mem[h + Cell + (i - 1) * Cell]]
        BY BlockContents
      <3>2. \A i \in 1 .. s.mem[h] \div Cell : LET c == h + Cell + (i - 1) * Cell IN
                 c \in CellAddresses /\ h + Cell <= c /\ c < After(s.mem, h)
        BY BlockContents
      <3>3. QED
        BY <2>1, <3>1, <3>2 DEF b, k, m
    <2>6. b2[a] = [i \in 1 .. k |-> s2.mem[h + Cell + (i - 1) * Cell]]
      <3>1. a - Cell = h /\ a \in {x + Cell : x \in UsedHeaders(s2, H2)}
        BY <2>1, <2>2, <2>3
      <3>2. b2[a] = [i \in 1 .. s2.mem[a - Cell] \div Cell |-> s2.mem[a + (i - 1) * Cell]]
        BY <3>1 DEF BlocksOf, ContentsOf
      <3> HIDE DEF b2
      <3>3. QED
        BY <2>1, <2>4, <3>1, <3>2
    <2>7. ASSUME NEW i \in 1 .. k
          PROVE  s2.mem[h + Cell + (i - 1) * Cell] = m[h + Cell + (i - 1) * Cell]
      <3> DEFINE c == h + Cell + (i - 1) * Cell
      <3>1. c \in CellAddresses /\ h + Cell <= c /\ c < After(m, h)
        BY <2>5
      <3> HIDE DEF c
      <3>2. h <= c
        <4>1. c \in Int
          BY <3>1, CellAddress
        <4>2. QED
          BY <2>2, <2>3, <3>1, <4>1
      <3>3. s2.mem[c] = m[c]
        BY <2>2, <3>1, <3>2 DEF Keeps
      <3>4. QED
        BY <3>3 DEF c
    <2> HIDE DEF k, b, b2
    <2>8. QED
      BY <2>5, <2>6, <2>7
  <1>3. QED
    BY <1>1, <1>2

(* Aligned addresses are aligned. *)
LEMMA AlignedTwice ==
  ASSUME NEW x \in Int
  PROVE  Aligned(x) \in Int /\ Aligned(Aligned(x)) = Aligned(x)
  <1> DEFINE u == Up(x)
             d == 2 * HalfRange
             q == (u + HalfRange) \div d
  <1>1. /\ Cell \in Nat \ {0} /\ HalfRange \in Nat \ {0} /\ Multiple(HalfRange, Cell)
    BY Constants
  <1>2. Multiple(u, Cell) /\ u \in Int
    BY UpMultiple DEF Multiple
  <1>3. Aligned(x) = Wrap(u)
    BY DEF Aligned, Up
  <1> HIDE DEF u
  <1>4. d \in Nat \ {0} /\ u + HalfRange \in Int
    BY <1>1, <1>2
  <1>5. q \in Int /\ (u + HalfRange) % d \in Int /\ u + HalfRange = d * q + ((u + HalfRange) % d)
    <2> DEFINE v == u + HalfRange
    <2> HIDE DEF v, d
    <2>1. v \in Int /\ d \in Nat \ {0}
      BY <1>4 DEF v
    <2>2. v \div d \in Int /\ v % d \in Int /\ v = d * (v \div d) + (v % d)
      BY <2>1, Division
    <2>3. QED
      BY <2>2 DEF v
  <1> HIDE DEF q
  <1>6. PICK p \in Int : HalfRange = Cell * p
    BY <1>1, MultipleQuotient
  <1>7. d * q = Cell * (2 * p * q) /\ 2 * p * q \in Int
    BY <1>1, <1>5, <1>6
  <1>8. Multiple(d * q, Cell)
    BY <1>1, <1>7, MultipleProduct
  <1>9. Wrap(u) = u - d * q
    <2>1. d * q \in Int
      BY <1>8 DEF Multiple
    <2> DEFINE w == d * q
               z == (u + HalfRange) % d
    <2>2. w \in Int /\ z \in Int /\ u + HalfRange = w + z /\ Wrap(u) = z - HalfRange
      BY <1>5, <2>1 DEF Wrap
    <2> HIDE DEF w, z
    <2>3. Wrap(u) = u - w
      BY <1>1, <1>2, <2>2
    <2>4. QED
      BY <2>3 DEF w
  <1>10. Multiple(u - d * q, Cell)
    BY <1>1, <1>2, <1>8, MultipleSum
  <1>11. Wrap(u) \in 0 - HalfRange .. HalfRange - 1
    BY <1>2, WrapRange
  <1> DEFINE a == Wrap(u)
  <1>12. Multiple(a, Cell) /\ a \in 0 - HalfRange .. HalfRange - 1
    BY <1>9, <1>10, <1>11
  <1> HIDE DEF a
  <1>13. Aligned(a) = a /\ a \in Int
    BY <1>12, AlignedSame DEF Multiple
  <1>14. QED
    BY <1>3, <1>13 DEF a

(* Blocks, of any state. *)
BlocksIn(s) ==
  ContentsOf(s.mem, {k \in HeadersOf(s.mem, s.brk, s.arenap, s) : s.mem[k] > 0 /\ NextHeader(s, k) < s.brk})

(* The blocks that the definitions see are those of the list. *)
LEMMA BlocksLeft ==
  ASSUME NEW s, NEW H, Left(s, H)
  PROVE  BlocksIn(s) = BlocksOf(s, H)
  <1>1. {k \in HeadersOf(s.mem, s.brk, s.arenap, s) : s.mem[k] > 0 /\ NextHeader(s, k) < s.brk}
          = UsedHeaders(s, H)
    BY HeadersListed
  <1>2. QED
    BY <1>1, Zenon DEF BlocksIn, BlocksOf

(* Without headers there are no blocks. *)
LEMMA NoContents ==
  \A m : ContentsOf(m, {}) = << >>
  BY DEF ContentsOf

(* There are no blocks before the arena is open. *)
LEMMA BlocksNone ==
  BlocksIn(Fresh) = << >> /\ BlocksIn(Closed) = << >>
  <1>1. BlocksIn(Fresh) = << >>
    <2>1. Fresh.arenap = 0
      BY DEF Fresh
    <2>2. HeadersOf(Fresh.mem, Fresh.brk, Fresh.arenap, Fresh) = {}
      BY <2>1 DEF HeadersOf
    <2> DEFINE K == {k \in HeadersOf(Fresh.mem, Fresh.brk, Fresh.arenap, Fresh) :
                       Fresh.mem[k] > 0 /\ NextHeader(Fresh, k) < Fresh.brk}
    <2>3. K = {}
      BY <2>2
    <2> HIDE DEF K
    <2>4. ContentsOf(Fresh.mem, K) = << >>
      BY <2>3, NoContents
    <2>5. QED
      BY <2>4 DEF BlocksIn, K
  <1>2. BlocksIn(Closed) = << >>
    <2>1. /\ Closed.arenap = StartBreak /\ Closed.brk = StartBreak /\ Closed.mem = Zeros
          /\ StartBreak \in Int /\ StartBreak >= StartBreak /\ StartBreak # 0
      BY Constants DEF Closed
    <2>2. Walks(Zeros, StartBreak, Closed)[StartBreak] = {}
      BY <2>1, ZerosMemory, WalksEquation
    <2>3. HeadersOf(Closed.mem, Closed.brk, Closed.arenap, Closed) = {}
      BY <2>1, <2>2 DEF HeadersOf
    <2> DEFINE K == {k \in HeadersOf(Closed.mem, Closed.brk, Closed.arenap, Closed) :
                       Closed.mem[k] > 0 /\ NextHeader(Closed, k) < Closed.brk}
    <2>4. K = {}
      BY <2>3
    <2> HIDE DEF K
    <2>5. ContentsOf(Closed.mem, K) = << >>
      BY <2>4, NoContents
    <2>6. QED
      BY <2>5 DEF BlocksIn, K
  <1>3. QED
    BY <1>1, <1>2

-----------------------------------------------------------------------------
(* The inductive invariant, of a state s with status st, what the program
   holds, f, and the addresses it gave back, S.                             *)
Sound(s, st, f, S) ==
  \/ s = Fresh /\ st = "running" /\ DOMAIN f = {} /\ S = {}
  \/ s = Closed /\ st = "ended" /\ DOMAIN f = {}
  \/ \E H : /\ Left(s, H) /\ Holding(s, H, f) /\ st \in {"running", "ended"}
            /\ st = "running" => Open(s, H) /\ GaveBack(s.mem, f, S)

(* A call finds, or makes, an arena o with headers H. *)
Ready(s, o, H, f, S) ==
  /\ _arena(s) = Opened(o) /\ Open(o, H)
  /\ Holding(o, H, f) /\ GaveBack(o.mem, f, S)
  /\ BlocksIn(s) = BlocksOf(o, H)

(* Or there is no room for it. *)
NoRoom(s, f) == s = Fresh /\ DOMAIN f = {} /\ _arena(s) = [s |-> Closed, thrown |-> TRUE]

(* A call of a running program finds an arena, opens one, or cannot. *)
LEMMA CallsBegin ==
  ASSUME NEW s, NEW f, NEW S, Sound(s, "running", f, S)
  PROVE  (\E o, H : Ready(s, o, H, f, S)) \/ NoRoom(s, f)
  <1>1. CASE s = Fresh /\ DOMAIN f = {} /\ S = {}
    <2>1. CASE _arena(Fresh) = [s |-> Closed, thrown |-> TRUE]
      BY <1>1, <2>1 DEF NoRoom
    <2>2. CASE /\ _arena(Fresh) = Opened(Empty) /\ Open(Empty, {StartBreak})
               /\ Used(Empty.mem, Empty.brk - Cell, {StartBreak}) = {}
      <3>1. Holding(Empty, {StartBreak}, f) /\ GaveBack(Empty.mem, f, S)
        BY <1>1 DEF Holding, GaveBack
      <3>2. BlocksOf(Empty, {StartBreak}) = << >>
        <4>1. UsedHeaders(Empty, {StartBreak}) = {}
          BY <2>2 DEF UsedHeaders
        <4>2. QED
          BY <4>1, NoContents DEF BlocksOf
      <3>3. Ready(s, Empty, {StartBreak}, f, S)
        BY <1>1, <2>2, <3>1, <3>2, BlocksNone DEF Ready
      <3>4. QED
        BY <3>3
    <2>3. QED
      BY <2>1, <2>2, Opening
  <1>2. ASSUME NEW H, Open(s, H), Holding(s, H, f), GaveBack(s.mem, f, S)
        PROVE  Ready(s, s, H, f, S)
    <2>1. Left(s, H) /\ _arena(s) = Opened(s)
      BY <1>2, OpenLeft, OpenArena
    <2>2. BlocksIn(s) = BlocksOf(s, H)
      BY <2>1, BlocksLeft
    <2>3. QED
      BY <1>2, <2>1, <2>2 DEF Ready
  <1>3. QED
    BY <1>1, <1>2 DEF Sound

(* How calls end that give no block. *)
Refuses(s, f, S, r) ==
  /\ r.code = "einval" /\ r.addr = 0
  /\ Sound(r.s, "running", f, S) /\ BlocksIn(r.s) = BlocksIn(s)

Ends(s, f, S, r) ==
  /\ r.code = "thrown" /\ r.addr = 0
  /\ Sound(r.s, "ended", f, S) /\ BlocksIn(r.s) = BlocksIn(s)

(* A refusal leaves the arena, opened perhaps, as it is. *)
LEMMA RefusesReady ==
  ASSUME NEW s, NEW f, NEW S, NEW o, NEW H, Ready(s, o, H, f, S)
  PROVE  Refuses(s, f, S, Refusal(o))
  <1>1. /\ Open(o, H) /\ Holding(o, H, f) /\ GaveBack(o.mem, f, S)
        /\ BlocksIn(s) = BlocksOf(o, H) /\ Left(o, H)
    BY OpenLeft DEF Ready
  <1>2. Sound(o, "running", f, S) /\ BlocksIn(o) = BlocksIn(s)
    BY <1>1, BlocksLeft DEF Sound
  <1>3. QED
    BY <1>2 DEF Refuses, Refusal

(* An arena that cannot be opened has no blocks. *)
LEMMA EndsFresh ==
  ASSUME NEW s, NEW f, NEW S, NoRoom(s, f)
  PROVE  Ends(s, f, S, [s |-> Closed, code |-> "thrown", addr |-> 0])
  BY BlocksNone DEF NoRoom, Ends, Sound

(* A call that throws leaves the blocks alone. *)
LEMMA EndsThrown ==
  ASSUME SmallRequests, NEW s, NEW f, NEW S, NEW o, NEW H, Ready(s, o, H, f, S),
         NEW r, NEW H2, ThrownWith(o, H, r, H2)
  PROVE  Ends(s, f, S, r)
  <1>1. Open(o, H) /\ Left(o, H) /\ Holding(o, H, f) /\ BlocksIn(s) = BlocksOf(o, H)
    BY OpenLeft DEF Ready
  <1>2. /\ r.code = "thrown" /\ r.addr = 0 /\ Left(r.s, H2)
        /\ UsedHeaders(r.s, H2) = UsedHeaders(o, H) /\ Keeps(o.mem, UsedHeaders(o, H), r.s.mem)
    BY DEF ThrownWith, SameBlocks, UsedHeaders
  <1> DEFINE G == {}
  <1>3. Replaces(o, H, G, r.s, H2, G) /\ HoldsOn(r.s.mem, G, G, f, f) /\ Named(G, G, G)
    BY <1>2 DEF Replaces, HoldsOn, Named
  <1> HIDE DEF G
  <1>4. Holding(r.s, H2, f)
    BY <1>1, <1>3, HoldingChanged
  <1>5. BlocksOf(r.s, H2) = BlocksOf(o, H)
    <2> DEFINE b == BlocksOf(o, H)
               b2 == BlocksOf(r.s, H2)
    <2>1. DOMAIN b2 \ G = DOMAIN b \ G /\ \A a \in DOMAIN b \ G : b2[a] = b[a]
      BY <1>1, <1>3, OthersStay
    <2>2. b = [a \in DOMAIN b |-> b[a]] /\ b2 = [a \in DOMAIN b2 |-> b2[a]]
      BY DEF BlocksOf, ContentsOf
    <2> HIDE DEF b, b2
    <2>3. b2 = b
      BY <2>1, <2>2 DEF G
    <2>4. QED
      BY <2>3 DEF b, b2
  <1>6. BlocksIn(r.s) = BlocksIn(s)
    BY <1>1, <1>2, <1>5, BlocksLeft
  <1>7. Sound(r.s, "ended", f, S)
    BY <1>2, <1>4 DEF Sound
  <1>8. QED
    BY <1>2, <1>6, <1>7 DEF Ends

-----------------------------------------------------------------------------
(* The calls. *)

(* A change of the list keeps the invariant. *)
LEMMA SoundChanged ==
  ASSUME SmallRequests, NEW s, NEW f, NEW S, NEW o, NEW H, Ready(s, o, H, f, S),
         NEW G, G \subseteq UsedHeaders(o, H), NEW t, NEW H2, NEW N, N \subseteq Int, NEW n \in Int,
         Changed(o, H, G, t, H2, N, n), NEW f2, HoldsOn(t.mem, G, N, f, f2),
         CoversAtMost(n, G, N, f, f2), NEW S2, GivesOn(n, G, N, S, S2)
  PROVE  /\ Sound(t, "running", f2, S2)
         /\ BlocksIn(t) = BlocksOf(t, H2) /\ AbstractHeap!Disjoint(BlocksIn(t))
  <1>1. Open(o, H) /\ Left(o, H) /\ Holding(o, H, f) /\ GaveBack(o.mem, f, S)
    BY OpenLeft DEF Ready
  <1>2. Open(t, H2) /\ Left(t, H2) /\ Replaces(o, H, G, t, H2, N)
    BY OpenLeft DEF Changed
  <1>3. Holding(t, H2, f2)
    BY <1>1, <1>2, HoldingChanged
  <1>4. GaveBack(t.mem, f2, S2)
    BY <1>1, GaveChanged
  <1>5. BlocksIn(t) = BlocksOf(t, H2) /\ AbstractHeap!Disjoint(BlocksOf(t, H2))
    BY <1>2, BlocksLeft, BlocksDisjoint
  <1>6. QED
    BY <1>2, <1>3, <1>4, <1>5 DEF Sound

(* Addresses given back are those behind a cell. *)
LEMMA GivenNumbers ==
  ASSUME NEW m, NEW f, NEW S, GaveBack(m, f, S)
  PROVE  \A x \in S : x \in Int /\ x - Cell \in CellAddresses
  <1>1. SUFFICES ASSUME NEW x \in S PROVE x \in Int /\ x - Cell \in CellAddresses
    OBVIOUS
  <1>2. PICK c \in CellAddresses : x = c + Cell
    BY DEF GaveBack
  <1>3. c \in Int /\ Cell \in Int
    BY CellAddress, Constants
  <1>4. x - Cell = c
    BY <1>2, <1>3
  <1>5. QED
    BY <1>2, <1>3, <1>4

(* Addresses that a new block does not cover lie apart from it. *)
LEMMA UncoveredApart ==
  ASSUME NEW T, \A x \in T : x \in Int, NEW h \in Int, NEW n \in Int
  PROVE  \A x \in Uncovered(T, h + Cell, n) :
           x \in T /\ ~(h <= x - Cell /\ x - Cell < h + Cell + n)
  <1>1. SUFFICES ASSUME NEW x \in Uncovered(T, h + Cell, n)
                 PROVE  x \in T /\ ~(h <= x - Cell /\ x - Cell < h + Cell + n)
    OBVIOUS
  <1> DEFINE a == h + Cell
  <1>2. Cell \in Nat /\ a \in Int /\ a - Cell = h
    BY Constants
  <1>3. x \in T /\ x - Cell \notin a - Cell .. a + n - 1
    BY DEF Uncovered
  <1> HIDE DEF a
  <1>4. x \in Int /\ x - Cell \in Int /\ x - Cell \notin h .. a + n - 1
    BY <1>2, <1>3
  <1>5. ~(h <= x - Cell /\ x - Cell < a + n)
    BY <1>2, <1>4
  <1>6. QED
    BY <1>3, <1>5 DEF a

(* What the program gets: a block of n bytes at least, apart from the others. *)
Comes(b, b2, a, n) ==
  /\ a \in CellAddresses \ DOMAIN b /\ a \in DOMAIN b2 /\ Cell * Len(b2[a]) >= n
  /\ DOMAIN b2 \ {a} = DOMAIN b \ {a} /\ \A x \in DOMAIN b \ {a} : b2[x] = b[x]
  /\ AbstractHeap!Disjoint(b2)

NewEntry(n) == [asked |-> n, kept |-> 0, tag |-> 0]

Allocates(s, f, S, r, n) ==
  /\ r.code = "ok" /\ n >= 0
  /\ Sound(r.s, "running",
           [a \in DOMAIN f \cup {r.addr} |-> IF a = r.addr THEN NewEntry(n) ELSE f[a]],
           Uncovered(S, r.addr, Asked(n)))
  /\ Comes(BlocksIn(s), BlocksIn(r.s), r.addr, n)

(* A new block is a change of the list. *)
LEMMA GrantedChanged ==
  ASSUME NEW o, NEW H, Open(o, H), NEW r, NEW n, BlockSize(n), NEW H2, NEW h, GrantedAt(o, H, r, n, H2, h)
  PROVE  Changed(o, H, {}, r.s, H2, {h}, n)
  <1>1. /\ Open(r.s, H2) /\ h \in H2 /\ h \notin UsedHeaders(o, H)
        /\ UsedHeaders(r.s, H2) = UsedHeaders(o, H) \cup {h}
        /\ r.s.mem[h] = n /\ Keeps(o.mem, UsedHeaders(o, H), r.s.mem) /\ Lowers(o.mem, r.s.mem, {h})
    BY DEF GrantedAt, UsedHeaders
  <1>2. n \in Int /\ n > 0 /\ h \in Int /\ Cell \in Nat \ {0}
    <2>1. h \in Int
      BY <1>1, OpenLeft, UsedBlock
    <2>2. QED
      BY <2>1, RoundedTwice, Constants
  <1>3. \A c \in CellAddresses :
          o.mem[c] <= 0 /\ (\A k \in {h} : ~(k <= c /\ c < k + Cell + n)) => r.s.mem[c] <= 0
    <2>1. h <= h /\ h < h + Cell + n
      BY <1>2
    <2>2. QED
      BY <1>1, <2>1 DEF Lowers
  <1>4. Replaces(o, H, {}, r.s, H2, {h})
    BY <1>1 DEF Replaces
  <1>5. r.s.mem[h] >= n
    BY <1>1, <1>2
  <1>6. QED
    BY <1>1, <1>3, <1>4, <1>5 DEF Changed

(* ALLOCATE refuses, ends the program or gives a block. *)
LEMMA AllocateStep ==
  ASSUME SmallRequests, NEW s, NEW f, NEW S, Sound(s, "running", f, S), NEW n \in Sizes
  PROVE  LET r == allocate(s, n) IN
         Refuses(s, f, S, r) \/ Ends(s, f, S, r) \/ Allocates(s, f, S, r, n)
  <1> DEFINE r == allocate(s, n)
             k == Asked(n)
  <1>1. n \in Int
    BY AllocatorAssumption, Constants
  <1>2. CASE n < 0
    <2>1. r = Refusal(s)
      BY <1>2 DEF allocate
    <2>2. Refuses(s, f, S, r)
      BY <2>1 DEF Refuses, Refusal
    <2>3. QED
      BY <2>2
  <1>3. CASE n >= 0
    <2>1. /\ k \in Int /\ Cell <= k /\ BlockSize(k) /\ Rounded(n) = k /\ n <= k
      BY <1>3, AskedNumber
    <2>2. r = Granted(_arena(s), k)
      BY <1>1, <1>3, <2>1 DEF allocate
    <2> HIDE DEF r, k
    <2>3. CASE NoRoom(s, f)
      <3>1. r = [s |-> Closed, code |-> "thrown", addr |-> 0]
        BY <2>2, <2>3 DEF NoRoom, Granted
      <3>2. QED
        BY <2>3, <3>1, EndsFresh DEF r
    <2>4. ASSUME NEW o, NEW H, Ready(s, o, H, f, S)
          PROVE  Ends(s, f, S, r) \/ Allocates(s, f, S, r, n)
      <3>1. Open(o, H) /\ Left(o, H) /\ _arena(s) = Opened(o) /\ BlocksIn(s) = BlocksOf(o, H)
            /\ Holding(o, H, f) /\ GaveBack(o.mem, f, S)
        BY <2>4, OpenLeft DEF Ready
      <3>2. Outcome(o, H, r, k)
        BY <2>1, <2>2, <3>1, Granting
      <3>3. CASE \E H2 : ThrownWith(o, H, r, H2)
        BY <2>4, <3>3, EndsThrown
      <3>4. ASSUME NEW H2, NEW h, GrantedAt(o, H, r, k, H2, h)
            PROVE  Allocates(s, f, S, r, n)
        <4> DEFINE G  == {}
                   N  == {h}
                   t  == r.s
                   f2 == [a \in DOMAIN f \cup {h + Cell} |-> IF a = h + Cell THEN NewEntry(n) ELSE f[a]]
                   S2 == Uncovered(S, h + Cell, k)
        <4>1. /\ r.code = "ok" /\ r.addr = h + Cell /\ Open(t, H2) /\ t.mem[h] = k
              /\ h \in UsedHeaders(t, H2) /\ h \notin UsedHeaders(o, H)
          BY <3>4 DEF GrantedAt, UsedHeaders
        <4>2. Left(t, H2) /\ h \in Int /\ h \in CellAddresses /\ Cell \in Nat \ {0}
          BY <4>1, OpenLeft, UsedBlock, Constants
        <4>3. Changed(o, H, G, t, H2, N, k)
          BY <2>1, <3>1, <3>4, GrantedChanged
        <4>4. Entry(t.mem, NewEntry(n), h)
          <5>1. NewEntry(n) \in [asked : Sizes, kept : Nat, tag : Values \cup {0}]
            BY DEF NewEntry
          <5>2. NewEntry(n).asked = n /\ NewEntry(n).kept = 0
            BY DEF NewEntry
          <5>3. 0 * Cell = 0 /\ k <= t.mem[h] /\ 0 <= k
            BY <2>1, <4>1, <4>2
          <5>4. \A i \in 0 .. 0 - 1 : FALSE
            OBVIOUS
          <5>5. QED
            BY <1>3, <5>1, <5>2, <5>3, <5>4 DEF Entry, k
        <4>5. HoldsOn(t.mem, G, N, f, f2)
          BY <4>4 DEF HoldsOn
        <4>6. CoversAtMost(k, G, N, f, f2)
          <5>1. Asked(NewEntry(n).asked) \in Int /\ Asked(NewEntry(n).asked) <= k
            BY <2>1 DEF NewEntry, k
          <5>2. QED
            BY <5>1 DEF CoversAtMost
        <4>7. GivesOn(k, G, N, S, S2)
          <5>1. \A x \in S : x \in Int
            BY <3>1, GivenNumbers
          <5>2. \A x \in S2 : x \in S /\ ~(h <= x - Cell /\ x - Cell < h + Cell + k)
            BY <2>1, <4>2, <5>1, UncoveredApart
          <5>3. QED
            BY <5>2 DEF GivesOn
        <4>8. G \subseteq UsedHeaders(o, H) /\ N \subseteq Int /\ Named({h + Cell}, G, N)
          BY <4>2 DEF Named
        <4> HIDE DEF G, N, t, f2, S2
        <4>9. /\ Sound(t, "running", f2, S2)
              /\ BlocksIn(t) = BlocksOf(t, H2) /\ AbstractHeap!Disjoint(BlocksIn(t))
          BY <2>1, <2>4, <4>3, <4>5, <4>6, <4>7, <4>8, SoundChanged
        <4>10. Comes(BlocksIn(s), BlocksIn(t), h + Cell, n)
          <5> DEFINE b  == BlocksOf(o, H)
                     b2 == BlocksOf(t, H2)
                     a  == h + Cell
          <5>1. a \in CellAddresses
            <6>1. Multiple(a, Cell) /\ After(t.mem, h) = a + t.mem[h]
                  /\ \A c : Multiple(c, Cell) /\ h <= c /\ c < After(t.mem, h) => c \in CellAddresses
              BY <4>1, <4>2, UsedBlock
            <6>2. h <= a /\ a < After(t.mem, h)
              BY <2>1, <4>1, <4>2, <6>1 DEF t
            <6>3. QED
              BY <6>1, <6>2
          <5>2. a \notin DOMAIN b
            <6>1. \A u \in UsedHeaders(o, H) : a # u + Cell
              <7>1. SUFFICES ASSUME NEW u \in UsedHeaders(o, H), a = u + Cell PROVE FALSE
                OBVIOUS
              <7>2. u \in Int
                BY <3>1, UsedBlock
              <7>3. QED
                BY <4>1, <4>2, <7>1, <7>2
            <6> HIDE DEF a
            <6>2. QED
              BY <6>1, BlocksDomain
          <5>3. a \in DOMAIN b2 /\ Cell * Len(b2[a]) = t.mem[h]
            <6>1. h \in UsedHeaders(t, H2)
              BY <4>1 DEF t
            <6>2. a \in DOMAIN b2
              BY <6>1, BlocksDomain
            <6>3. Cell * Len(b2[a]) = t.mem[h]
              BY <4>2, <6>1, BlockLength
            <6>4. QED
              BY <6>2, <6>3
          <5>4. Cell * Len(b2[a]) >= n
            BY <1>1, <2>1, <4>1, <5>3 DEF t
          <5>5. Replaces(o, H, G, t, H2, N)
            BY <4>3 DEF Changed
          <5>6. DOMAIN b2 \ {a} = DOMAIN b \ {a} /\ \A x \in DOMAIN b \ {a} : b2[x] = b[x]
            BY <3>1, <4>8, <5>5, OthersStay
          <5> HIDE DEF a, b, b2
          <5>7. Comes(b, b2, a, n)
            BY <4>9, <5>1, <5>2, <5>3, <5>4, <5>6 DEF Comes, b2
          <5>8. QED
            BY <3>1, <4>9, <5>7 DEF a, b, b2
        <4>11. QED
          BY <1>3, <4>1, <4>9, <4>10 DEF Allocates, f2, S2, t, k
      <3>5. QED
        BY <3>2, <3>3, <3>4 DEF Outcome
    <2>5. QED
      BY <2>3, <2>4, CallsBegin DEF r
  <1>4. QED
    BY <1>1, <1>2, <1>3

(* A call makes of the arena o another one, t. *)
Makes(o, H, G, t, H2, N, n, f, S, f2, S2) ==
  /\ G \subseteq UsedHeaders(o, H) /\ N \subseteq Int /\ n \in Int
  /\ Changed(o, H, G, t, H2, N, n)
  /\ HoldsOn(t.mem, G, N, f, f2) /\ CoversAtMost(n, G, N, f, f2) /\ GivesOn(n, G, N, S, S2)

(* SoundChanged, with its hypotheses in one. *)
LEMMA SoundMade ==
  ASSUME SmallRequests, NEW s, NEW f, NEW S, NEW o, NEW H, Ready(s, o, H, f, S),
         NEW G, NEW t, NEW H2, NEW N, NEW n, NEW f2, NEW S2, Makes(o, H, G, t, H2, N, n, f, S, f2, S2)
  PROVE  /\ Sound(t, "running", f2, S2)
         /\ BlocksIn(t) = BlocksOf(t, H2) /\ AbstractHeap!Disjoint(BlocksIn(t))
  <1>1. /\ G \subseteq UsedHeaders(o, H) /\ N \subseteq Int /\ n \in Int
        /\ Changed(o, H, G, t, H2, N, n)
        /\ HoldsOn(t.mem, G, N, f, f2) /\ CoversAtMost(n, G, N, f, f2) /\ GivesOn(n, G, N, S, S2)
    BY DEF Makes
  <1>2. QED
    BY <1>1, SoundChanged

(* An address that the program gave back, or that lies outside, has no block. *)
LEMMA NothingThere ==
  ASSUME NEW s, NEW f, NEW S, NEW o, NEW H, Ready(s, o, H, f, S), NEW a \in S \cup Strangers
  PROVE  a \in Int /\ _allocsize(o, a) = 0 /\ _allocsize(o, Aligned(a)) = 0
  <1>1. Open(o, H) /\ GaveBack(o.mem, f, S) /\ o.mem \in Memories
    BY DEF Ready, Open
  <1>2. a \in Int /\ (Aligned(a) \notin StartBreak + Cell .. MaxBreak \/ ~(o.mem[Aligned(a) - Cell] > 0))
    <2>1. CASE a \in Strangers
      BY <2>1, AllocatorAssumption, StrangersAssumption
    <2>2. CASE a \in S
      <3>1. PICK c \in CellAddresses : a = c + Cell /\ a <= MaxBreak /\ o.mem[c] <= 0
        BY <1>1, <2>2 DEF GaveBack
      <3>2. /\ c \in Int /\ StartBreak <= c /\ Multiple(c, Cell) /\ Cell \in Nat \ {0}
            /\ o.mem[c] \in Int /\ MaxBreak < HalfRange /\ MaxBreak \in Int /\ HalfRange \in Nat
            /\ StartBreak \in Nat /\ Multiple(Cell, Cell)
        <4>1. o.mem[c] \in Int
          BY <1>1, AfterLater
        <4>2. c \in Int /\ StartBreak <= c /\ Multiple(c, Cell)
          BY CellAddress
        <4>3. QED
          BY <4>1, <4>2, Constants, MultipleOnce
      <3>3. Multiple(a, Cell) /\ a \in 0 - HalfRange .. HalfRange - 1
        <4>1. Multiple(a, Cell)
          BY <3>1, <3>2, MultipleSum
        <4>2. QED
          BY <3>1, <3>2, <4>1
      <3>4. Aligned(a) = a /\ a - Cell = c /\ a \in Int
        BY <3>1, <3>2, <3>3, AlignedSame
      <3>5. ~(o.mem[c] > 0)
        BY <3>1, <3>2
      <3>6. QED
        BY <3>4, <3>5
    <2>3. QED
      BY <2>1, <2>2
  <1>3. Aligned(a) \in Int /\ Aligned(Aligned(a)) = Aligned(a)
    BY <1>2, AlignedTwice
  <1>4. QED
    BY <1>1, <1>2, <1>3, NoSizeFound

Frees(s, f, S, r, a) ==
  LET b  == BlocksIn(s)
      b2 == BlocksIn(r.s) IN
  /\ r.code = "ok" /\ r.addr = a /\ a \in DOMAIN f
  /\ Sound(r.s, "running", Without(f, {a}), S \cup {a})
  /\ a \in DOMAIN b /\ a \notin DOMAIN b2
  /\ DOMAIN b2 \ {a} = DOMAIN b \ {a} /\ \A x \in DOMAIN b \ {a} : b2[x] = b[x]

(* FREE refuses, ends the program or takes the block. *)
LEMMA FreeStep ==
  ASSUME SmallRequests, NEW s, NEW f, NEW S, Sound(s, "running", f, S),
         NEW a \in DOMAIN f \cup S \cup Strangers
  PROVE  LET r == free(s, a) IN
         Refuses(s, f, S, r) \/ Ends(s, f, S, r) \/ Frees(s, f, S, r, a)
  <1> DEFINE r == free(s, a)
  <1>1. r = Released(_arena(s), a)
    BY DEF free
  <1> HIDE DEF r
  <1>2. CASE NoRoom(s, f)
    <2>1. r = [s |-> Closed, code |-> "thrown", addr |-> 0]
      BY <1>1, <1>2 DEF NoRoom, Released
    <2>2. QED
      BY <1>2, <2>1, EndsFresh DEF r
  <1>3. ASSUME NEW o, NEW H, Ready(s, o, H, f, S)
        PROVE  Refuses(s, f, S, r) \/ Frees(s, f, S, r, a)
    <2>1. Open(o, H) /\ Left(o, H) /\ _arena(s) = Opened(o) /\ BlocksIn(s) = BlocksOf(o, H)
          /\ Holding(o, H, f)
      BY <1>3, OpenLeft DEF Ready
    <2>2. r = Released(Opened(o), a) /\ r = free(o, a)
      BY <1>1, <2>1, OpenArena DEF free
    <2>3. CASE a \in DOMAIN f
      <3>1. PICK h \in UsedHeaders(o, H) : a = h + Cell
        BY <2>1, <2>3 DEF Holding
      <3> DEFINE G  == {h}
                 N  == {}
                 t  == r.s
                 f2 == Without(f, {a})
                 S2 == S \cup {a}
                 n  == 0
                 H2 == H
      <3>2. r.code = "ok" /\ r.addr = a /\ Changed(o, H, G, t, H2, N, n)
        BY <2>1, <2>2, <3>1, Freeing
      <3>3. h \in Int /\ G \subseteq UsedHeaders(o, H) /\ N \subseteq Int /\ n \in Int
        BY <2>1, <3>1, UsedBlock
      <3>4. HoldsOn(t.mem, G, N, f, f2) /\ CoversAtMost(n, G, N, f, f2)
        BY <3>1 DEF HoldsOn, CoversAtMost, Without
      <3>5. GivesOn(n, G, N, S, S2)
        BY <3>1 DEF GivesOn
      <3>6. Named({a}, G, N)
        BY <3>1, <3>3 DEF Named
      <3> HIDE DEF G, N, t, f2, S2, n, H2
      <3>7. Sound(t, "running", f2, S2) /\ BlocksIn(t) = BlocksOf(t, H2)
        <4>1. Makes(o, H, G, t, H2, N, n, f, S, f2, S2)
          BY <3>2, <3>3, <3>4, <3>5 DEF Makes
        <4>2. QED
          BY <1>3, <4>1, SoundMade
      <3> DEFINE b  == BlocksOf(o, H)
                 b2 == BlocksOf(t, H2)
      <3>8. Replaces(o, H, G, t, H2, N)
        BY <3>2 DEF Changed
      <3>9. DOMAIN b2 \ {a} = DOMAIN b \ {a} /\ \A x \in DOMAIN b \ {a} : b2[x] = b[x]
        BY <2>1, <3>6, <3>8, OthersStay
      <3>10. a \in DOMAIN b
        BY <3>1, BlocksDomain
      <3>11. a \notin DOMAIN b2
        <4>1. SUFFICES ASSUME NEW u \in UsedHeaders(t, H2), a = u + Cell PROVE FALSE
          BY BlocksDomain
        <4>2. u \in UsedHeaders(o, H) /\ u # h
          BY <3>8 DEF Replaces, G, N
        <4>3. u \in Int /\ Cell \in Int
          BY <2>1, <4>2, UsedBlock, Constants
        <4>4. QED
          BY <3>1, <3>3, <4>1, <4>2, <4>3
      <3> HIDE DEF b, b2
      <3>12. Frees(s, f, S, r, a)
        BY <2>1, <2>3, <3>2, <3>7, <3>9, <3>10, <3>11 DEF Frees, t, f2, S2, b, b2
      <3>13. QED
        BY <3>12
    <2>4. CASE a \notin DOMAIN f
      <3>1. _allocsize(o, a) = 0
        BY <1>3, <2>4, NothingThere
      <3>2. r = Refusal(o)
        BY <2>2, <3>1 DEF Released, Opened
      <3>3. QED
        BY <1>3, <3>2, RefusesReady
    <2>5. QED
      BY <2>3, <2>4
  <1>4. QED
    BY <1>2, <1>3, CallsBegin DEF r


(* RESIZE copies what the program holds. *)
MovedEntry(e, n) ==
  LET fit == Asked(n) \div Cell IN
  [asked |-> n, tag |-> e.tag, kept |-> IF e.kept < fit THEN e.kept ELSE fit]

(* More cells are more bytes. *)
LEMMA CellsOrdered ==
  ASSUME NEW i \in Nat, NEW k \in Nat, i <= k
  PROVE  i * Cell \in Int /\ k * Cell \in Int /\ i * Cell <= k * Cell
  <1>1. Cell \in Nat
    BY Constants
  <1>2. CASE i < k
    BY <1>1, <1>2, CellSteps
  <1>3. CASE i = k
    BY <1>1, <1>3
  <1>4. QED
    BY <1>2, <1>3

(* The new block holds what the program stored in the old one, as far as
   it fits. *)
LEMMA EntryMoved ==
  ASSUME SmallRequests, NEW s, NEW H, Left(s, H), NEW g \in UsedHeaders(s, H),
         NEW t, NEW H2, Left(t, H2), NEW h \in UsedHeaders(t, H2), Copied(s, g, t, h),
         NEW e, Entry(s.mem, e, g), NEW n \in Sizes, n >= 0, Asked(n) <= t.mem[h]
  PROVE  Entry(t.mem, MovedEntry(e, n), h)
  <1> DEFINE fit == Asked(n) \div Cell
             k   == IF e.kept < fit THEN e.kept ELSE fit
             q   == Asked(e.asked)
             p   == Asked(n)
  <1>1. p \in Int /\ fit \in Nat /\ fit * Cell = p
    BY AskedNumber
  <1>2. /\ e \in [asked : Sizes, kept : Nat, tag : Values \cup {0}] /\ e.asked >= 0
        /\ q <= s.mem[g] /\ e.kept * Cell <= q
        /\ \A i \in 0 .. e.kept - 1 : s.mem[g + Cell + i * Cell] = e.tag
    BY DEF Entry
  <1>3. q \in Int /\ e.kept \in Nat /\ e.asked \in Sizes
    BY <1>2, AskedNumber
  <1>4. g \in Int /\ h \in Int /\ t.mem[h] \in Int /\ s.mem[g] \in Int /\ Cell \in Nat
    BY UsedBlock, Constants
  <1> HIDE DEF fit, p, q
  <1>5. k \in Nat /\ k <= fit /\ k <= e.kept
    BY <1>1, <1>3
  <1>6. MovedEntry(e, n) = [asked |-> n, tag |-> e.tag, kept |-> k]
    BY DEF MovedEntry, k, fit
  <1> HIDE DEF k
  <1>7. k * Cell \in Int /\ k * Cell <= p
    BY <1>1, <1>5, CellsOrdered
  <1>8. ASSUME NEW i \in 0 .. k - 1
        PROVE  t.mem[h + Cell + i * Cell] = e.tag
    <2> DEFINE x == i * Cell
               c == g + Cell + x
               y == k * Cell
    <2>1. i \in Nat /\ i < k /\ i < e.kept /\ i \in Int /\ k \in Int /\ 0 <= i
      BY <1>3, <1>5, <1>8
    <2>2. x \in Int /\ x + Cell <= y
      BY <2>1, CellSteps
    <2>3. c \in CellAddresses /\ g + Cell <= c /\ c < After(s.mem, g)
      BY <1>2, <1>3, <2>1, EntryCells
    <2>4. s.mem[c] = e.tag
      BY <1>2, <1>3, <2>1
    <2>5. y \in Int /\ y <= t.mem[h]
      BY <1>1, <1>4, <1>7 DEF p
    <2> HIDE DEF x, y
    <2>6. c < g + Cell + t.mem[h] /\ h + (c - g) = h + Cell + x
      BY <1>4, <2>2, <2>5, Constants
    <2>7. t.mem[h + (c - g)] = s.mem[c]
      BY <2>3, <2>6 DEF Copied
    <2>8. QED
      BY <2>4, <2>6, <2>7 DEF x
  <1>9. [asked |-> n, tag |-> e.tag, kept |-> k] \in [asked : Sizes, kept : Nat, tag : Values \cup {0}]
    BY <1>2, <1>5
  <1>10. QED
    BY <1>6, <1>7, <1>8, <1>9 DEF Entry, p

(* The new block begins with the contents of the old one. *)
LEMMA ContentsMoved ==
  ASSUME NEW s, NEW H, Left(s, H), NEW g \in UsedHeaders(s, H),
         NEW t, NEW H2, Left(t, H2), NEW h \in UsedHeaders(t, H2), Copied(s, g, t, h)
  PROVE  LET b  == BlocksOf(s, H)[g + Cell]
             b2 == BlocksOf(t, H2)[h + Cell] IN
         \A i \in DOMAIN b \cap DOMAIN b2 : b2[i] = b[i]
  <1> DEFINE b  == BlocksOf(s, H)[g + Cell]
             b2 == BlocksOf(t, H2)[h + Cell]
             k  == s.mem[g] \div Cell
             k2 == t.mem[h] \div Cell
  <1>1. /\ b = [i \in 1 .. k |-> s.mem[g + Cell + (i - 1) * Cell]] /\ k \in Nat
        /\ \A i \in 1 .. k : LET c == g + Cell + (i - 1) * Cell IN
             c \in CellAddresses /\ g + Cell <= c /\ c < After(s.mem, g)
    BY BlockContents
  <1>2. /\ b2 = [i \in 1 .. k2 |-> t.mem[h + Cell + (i - 1) * Cell]] /\ k2 \in Nat /\ k2 * Cell = t.mem[h]
    BY BlockContents
  <1>3. g \in Int /\ h \in Int /\ t.mem[h] \in Int /\ s.mem[g] \in Int /\ Cell \in Nat
    BY UsedBlock, Constants
  <1> HIDE DEF b, b2, k, k2
  <1>4. SUFFICES ASSUME NEW i \in 1 .. k, i \in 1 .. k2
                 PROVE  t.mem[h + Cell + (i - 1) * Cell] = s.mem[g + Cell + (i - 1) * Cell]
    <2>1. \A i \in DOMAIN b \cap DOMAIN b2 : i \in 1 .. k /\ i \in 1 .. k2
      BY <1>1, <1>2
    <2>2. ASSUME NEW i \in DOMAIN b \cap DOMAIN b2 PROVE b2[i] = b[i]
      <3>1. i \in 1 .. k /\ i \in 1 .. k2
        BY <2>1, <2>2
      <3>2. b[i] = s.mem[g + Cell + (i - 1) * Cell] /\ b2[i] = t.mem[h + Cell + (i - 1) * Cell]
        BY <1>1, <1>2, <3>1
      <3>3. QED
        BY <1>4, <3>1, <3>2
    <2>3. QED
      BY <2>2 DEF b, b2
  <1> DEFINE x == (i - 1) * Cell
             y == k2 * Cell
             c == g + Cell + x
  <1>5. x \in Int /\ x + Cell <= y
    <2>1. i - 1 \in Int /\ k2 \in Int /\ 0 <= i - 1 /\ i - 1 < k2
      BY <1>2, <1>4
    <2>2. QED
      BY <2>1, CellSteps
  <1>6. c \in CellAddresses /\ g + Cell <= c /\ c < After(s.mem, g)
    BY <1>1
  <1>7. y = t.mem[h]
    BY <1>2
  <1> HIDE DEF x, y
  <1>8. c < g + Cell + t.mem[h] /\ h + (c - g) = h + Cell + x
    BY <1>3, <1>5, <1>7, Constants
  <1>9. t.mem[h + (c - g)] = s.mem[c]
    BY <1>6, <1>8 DEF Copied
  <1>10. QED
    BY <1>8, <1>9 DEF x


(* What the program gets: its block at c, as large as asked for. *)
Turns(b, b2, a, c, n) ==
  /\ a \in DOMAIN b /\ c \in CellAddresses /\ c \in DOMAIN b2
  /\ c # a => a \notin DOMAIN b2
  /\ c \notin DOMAIN b \ {a} /\ Cell * Len(b2[c]) >= n
  /\ \A i \in DOMAIN b[a] \cap DOMAIN b2[c] : b2[c][i] = b[a][i]
  /\ DOMAIN b2 \ {a, c} = DOMAIN b \ {a, c} /\ \A x \in DOMAIN b \ {a, c} : b2[x] = b[x]
  /\ AbstractHeap!Disjoint(b2)

(* What it holds then. *)
HeldMoved(f, a, c, n) ==
  [x \in (DOMAIN f \ {a}) \cup {c} |-> IF x # c THEN f[x] ELSE MovedEntry(f[a], n)]

Resizes(s, f, S, r, a, n) ==
  /\ r.code = "ok" /\ n >= 0 /\ a \in DOMAIN f
  /\ Sound(r.s, "running", HeldMoved(f, a, r.addr, n),
           Uncovered(S \cup ({a} \ {r.addr}), r.addr, Asked(n)))
  /\ Turns(BlocksIn(s), BlocksIn(r.s), a, r.addr, n)

(* What the program holds and gave back after RESIZE. *)
LEMMA ResizedMakes ==
  ASSUME SmallRequests, NEW s, NEW f, NEW S, NEW o, NEW H, Ready(s, o, H, f, S),
         NEW g \in UsedHeaders(o, H), g + Cell \in DOMAIN f, Entry(o.mem, f[g + Cell], g),
         NEW n \in Sizes, n >= 0, NEW r, NEW H2, NEW h, ResizedAt(o, H, g, r, Asked(n), H2, h)
  PROVE  Makes(o, H, {g}, r.s, H2, {h}, Asked(n), f, S, HeldMoved(f, g + Cell, h + Cell, n),
               Uncovered(S \cup ({g + Cell} \ {h + Cell}), h + Cell, Asked(n)))
  <1> DEFINE a  == g + Cell
             c  == h + Cell
             k  == Asked(n)
             t  == r.s
             f2 == HeldMoved(f, a, c, n)
             T  == S \cup ({a} \ {c})
             S2 == Uncovered(T, c, k)
  <1>1. Open(o, H) /\ Left(o, H) /\ Holding(o, H, f) /\ GaveBack(o.mem, f, S)
    BY OpenLeft DEF Ready
  <1>2. /\ Changed(o, H, {g}, t, H2, {h}, k) /\ Open(t, H2) /\ t.mem[h] >= k /\ Copied(o, g, t, h)
        /\ h \in UsedHeaders(t, H2)
    BY DEF ResizedAt, Changed, Replaces
  <1>3. Left(t, H2) /\ h \in Int /\ g \in Int /\ t.mem[h] \in Int /\ Cell \in Nat \ {0}
    BY <1>1, <1>2, OpenLeft, UsedBlock, Constants
  <1>4. k \in Int /\ k <= t.mem[h]
    BY <1>2, <1>3, AskedNumber
  <1>5. Entry(t.mem, MovedEntry(f[a], n), h)
    BY <1>1, <1>2, <1>3, <1>4, EntryMoved
  <1>6. f2[c] = MovedEntry(f[a], n) /\ DOMAIN f2 = (DOMAIN f \ {a}) \cup {c}
        /\ \A x \in DOMAIN f2 \ {c} : x \in DOMAIN f /\ x # a /\ f2[x] = f[x]
    BY DEF HeldMoved
  <1>7. MovedEntry(f[a], n).asked = n
    BY DEF MovedEntry
  <1> HIDE DEF f2
  <1>8. HoldsOn(t.mem, {g}, {h}, f, f2)
    BY <1>5, <1>6 DEF HoldsOn
  <1>9. CoversAtMost(k, {g}, {h}, f, f2)
    <2>1. Asked(f2[c].asked) \in Int /\ Asked(f2[c].asked) <= k
      BY <1>4, <1>6, <1>7
    <2>2. QED
      BY <1>6, <2>1 DEF CoversAtMost
  <1>10. GivesOn(k, {g}, {h}, S, S2)
    <2>1. \A x \in T : x \in Int
      BY <1>1, <1>3, GivenNumbers
    <2> HIDE DEF T
    <2>2. \A x \in S2 : x \in T /\ ~(h <= x - Cell /\ x - Cell < h + Cell + k)
      BY <1>3, <1>4, <2>1, UncoveredApart
    <2>3. \A x \in T : x \in S \/ (x = g + Cell /\ g # h)
      BY <1>3 DEF T
    <2> HIDE DEF S2
    <2>4. QED
      BY <2>2, <2>3 DEF GivesOn
  <1>11. {g} \subseteq UsedHeaders(o, H) /\ {h} \subseteq Int
    BY <1>3
  <1> HIDE DEF S2, k
  <1>12. QED
    BY <1>2, <1>4, <1>8, <1>9, <1>10, <1>11 DEF Makes, f2, S2, k

(* What RESIZE does to the blocks. *)
LEMMA ResizedTurns ==
  ASSUME SmallRequests, NEW o, NEW H, Open(o, H), NEW g \in UsedHeaders(o, H), NEW n \in Sizes, n >= 0,
         NEW r, NEW H2, NEW h, ResizedAt(o, H, g, r, Asked(n), H2, h),
         AbstractHeap!Disjoint(BlocksOf(r.s, H2))
  PROVE  Turns(BlocksOf(o, H), BlocksOf(r.s, H2), g + Cell, h + Cell, n)
  <1> DEFINE a  == g + Cell
             c  == h + Cell
             k  == Asked(n)
             t  == r.s
             G  == {g}
             N  == {h}
             b  == BlocksOf(o, H)
             b2 == BlocksOf(t, H2)
  <1>1. /\ Changed(o, H, G, t, H2, N, k) /\ Open(t, H2) /\ t.mem[h] >= k /\ Copied(o, g, t, h)
        /\ h \in UsedHeaders(t, H2) /\ Left(o, H) /\ Left(t, H2)
        /\ Replaces(o, H, G, t, H2, N) /\ h \notin UsedHeaders(o, H) \ {g}
        /\ UsedHeaders(t, H2) = (UsedHeaders(o, H) \ {g}) \cup {h}
    BY OpenLeft DEF ResizedAt, Changed, Replaces
  <1>2. h \in Int /\ g \in Int /\ t.mem[h] \in Int /\ Cell \in Nat \ {0}
    BY <1>1, UsedBlock, Constants
  <1>3. k \in Int /\ n \in Int /\ n <= k
    BY AskedNumber
  <1>4. a \in DOMAIN b /\ c \in DOMAIN b2
    BY <1>1, BlocksDomain
  <1>5. c \in CellAddresses
    <2>1. Multiple(c, Cell) /\ After(t.mem, h) = c + t.mem[h] /\ t.mem[h] > 0
          /\ \A x : Multiple(x, Cell) /\ h <= x /\ x < After(t.mem, h) => x \in CellAddresses
      BY <1>1, UsedBlock
    <2>2. h <= c /\ c < After(t.mem, h)
      BY <1>2, <2>1
    <2>3. QED
      BY <2>1, <2>2
  <1>6. c # a => a \notin DOMAIN b2
    <2>1. SUFFICES ASSUME c # a, NEW u \in UsedHeaders(t, H2), a = u + Cell PROVE FALSE
      BY BlocksDomain
    <2>2. u \in Int
      BY <1>1, <2>1, UsedBlock
    <2>3. u = g
      BY <1>2, <2>1, <2>2
    <2>4. QED
      BY <1>1, <2>1, <2>3
  <1>7. c \notin DOMAIN b \ {a}
    <2>1. SUFFICES ASSUME NEW u \in UsedHeaders(o, H), c = u + Cell, c # a PROVE FALSE
      BY BlocksDomain
    <2>2. u \in Int
      BY <1>1, <2>1, UsedBlock
    <2>3. u = h
      <3>1. h + Cell = u + Cell
        BY <2>1
      <3>2. QED
        BY <1>2, <2>2, <3>1
    <2>4. QED
      BY <1>1, <2>1, <2>3
  <1>8. Cell * Len(b2[c]) >= n
    <2>1. Cell * Len(b2[c]) = t.mem[h]
      BY <1>1, BlockLength
    <2>2. QED
      BY <1>1, <1>2, <1>3, <2>1
  <1>9. \A i \in DOMAIN b[a] \cap DOMAIN b2[c] : b2[c][i] = b[a][i]
    BY <1>1, ContentsMoved
  <1>10. DOMAIN b2 \ {a, c} = DOMAIN b \ {a, c} /\ \A x \in DOMAIN b \ {a, c} : b2[x] = b[x]
    <2> DEFINE V == {a, c}
    <2>1. Named(V, G, N)
      BY <1>2 DEF Named
    <2> HIDE DEF V, G, N
    <2>2. DOMAIN b2 \ V = DOMAIN b \ V /\ \A x \in DOMAIN b \ V : b2[x] = b[x]
      BY <1>1, <2>1, OthersStay
    <2>3. QED
      BY <2>2 DEF V
  <1> HIDE DEF b, b2, a, c
  <1>11. Turns(b, b2, a, c, n)
    BY <1>4, <1>5, <1>6, <1>7, <1>8, <1>9, <1>10 DEF Turns, b2, t
  <1>12. QED
    BY <1>11 DEF a, c, b, b2, t


(* RESIZE refuses, ends the program or gives the block another size. *)
LEMMA ResizeStep ==
  ASSUME SmallRequests, NEW s, NEW f, NEW S, Sound(s, "running", f, S),
         NEW a \in DOMAIN f \cup S \cup Strangers, NEW n \in Sizes
  PROVE  LET r == resize(s, a, n) IN
         Refuses(s, f, S, r) \/ Ends(s, f, S, r) \/ Resizes(s, f, S, r, a, n)
  <1> DEFINE r == resize(s, a, n)
             k == Asked(n)
  <1>1. n \in Int
    BY AllocatorAssumption, Constants
  <1>2. CASE n < 0
    <2>1. r = Refusal(s)
      BY <1>2 DEF resize
    <2>2. Refuses(s, f, S, r)
      BY <2>1 DEF Refuses, Refusal
    <2>3. QED
      BY <2>2
  <1>3. CASE n >= 0
    <2>1. k \in Int /\ BlockSize(k) /\ Rounded(n) = k
      BY <1>3, AskedNumber
    <2>2. r = Sized(_arena(s), Aligned(a), k) /\ \A o : resize(o, a, n) = Sized(_arena(o), Aligned(a), k)
      BY <1>1, <1>3, <2>1 DEF resize
    <2> HIDE DEF r, k
    <2>3. CASE NoRoom(s, f)
      <3>1. r = [s |-> Closed, code |-> "thrown", addr |-> 0]
        BY <2>2, <2>3 DEF NoRoom, Sized
      <3>2. QED
        BY <2>3, <3>1, EndsFresh DEF r
    <2>4. ASSUME NEW o, NEW H, Ready(s, o, H, f, S)
          PROVE  Refuses(s, f, S, r) \/ Ends(s, f, S, r) \/ Resizes(s, f, S, r, a, n)
      <3>1. Open(o, H) /\ Left(o, H) /\ _arena(s) = Opened(o) /\ BlocksIn(s) = BlocksOf(o, H)
            /\ Holding(o, H, f) /\ _arena(o) = Opened(o)
        BY <2>4, OpenLeft, OpenArena DEF Ready
      <3>2. CASE a \notin DOMAIN f
        <4>1. _allocsize(o, Aligned(a)) = 0
          BY <2>4, <3>2, NothingThere
        <4>2. r = Refusal(o)
          BY <2>2, <3>1, <4>1 DEF Sized, Opened
        <4>3. QED
          BY <2>4, <4>2, RefusesReady
      <3>3. CASE a \in DOMAIN f
        <4>1. PICK g \in UsedHeaders(o, H) : a = g + Cell /\ Entry(o.mem, f[a], g)
          BY <3>1, <3>3 DEF Holding
        <4>2. r = resize(o, g + Cell, n)
          BY <2>2, <3>1, <4>1
        <4>3. \/ \E H2, h : ResizedAt(o, H, g, r, k, H2, h)
              \/ \E H2 : ThrownWith(o, H, r, H2)
          BY <1>1, <1>3, <2>1, <3>1, <4>2, Resizing
        <4>4. CASE \E H2 : ThrownWith(o, H, r, H2)
          BY <2>4, <4>4, EndsThrown
        <4>5. ASSUME NEW H2, NEW h, ResizedAt(o, H, g, r, k, H2, h)
              PROVE  Resizes(s, f, S, r, a, n)
          <5> DEFINE f2 == HeldMoved(f, g + Cell, h + Cell, n)
                     S2 == Uncovered(S \cup ({g + Cell} \ {h + Cell}), h + Cell, k)
                     G  == {g}
                     N  == {h}
                     t  == r.s
          <5>1. Makes(o, H, G, t, H2, N, k, f, S, f2, S2)
            BY <1>3, <2>4, <3>3, <4>1, <4>5, ResizedMakes DEF k
          <5> HIDE DEF f2, S2, G, N, t
          <5>2. Sound(t, "running", f2, S2) /\ BlocksIn(t) = BlocksOf(t, H2)
                /\ AbstractHeap!Disjoint(BlocksIn(t))
            BY <2>4, <5>1, SoundMade
          <5>3. Turns(BlocksOf(o, H), BlocksOf(t, H2), g + Cell, h + Cell, n)
            BY <1>3, <3>1, <4>5, <5>2, ResizedTurns DEF t, k
          <5>4. r.code = "ok" /\ r.addr = h + Cell
            BY <4>5 DEF ResizedAt
          <5>5. Turns(BlocksIn(s), BlocksIn(t), a, r.addr, n)
            BY <3>1, <4>1, <5>2, <5>3, <5>4
          <5>6. f2 = HeldMoved(f, a, r.addr, n) /\ S2 = Uncovered(S \cup ({a} \ {r.addr}), r.addr, Asked(n))
            BY <4>1, <5>4 DEF f2, S2, k
          <5>7. QED
            BY <1>3, <3>3, <5>2, <5>4, <5>5, <5>6 DEF Resizes, t
        <4>6. QED
          BY <4>3, <4>4, <4>5
      <3>4. QED
        BY <3>2, <3>3
    <2>5. QED
      BY <2>3, <2>4, CallsBegin DEF r
  <1>4. QED
    BY <1>1, <1>2, <1>3


(* The program fills a block it holds. *)
StoredCells(a, k) == {a + i * Cell : i \in 0 .. k - 1}

Filled(s, C, v) ==
  [mem |-> [c \in CellAddresses |-> IF c \in C THEN v ELSE s.mem[c]],
   brk |-> s.brk, arenap |-> s.arenap, bcache |-> s.bcache]

(* The cells that the program may fill lie in its block. *)
LEMMA StoredCellsIn ==
  ASSUME NEW s, NEW H, Left(s, H), NEW h \in UsedHeaders(s, H), NEW k \in Nat,
         NEW n \in Int, k * Cell <= n, n <= s.mem[h]
  PROVE  \A c \in StoredCells(h + Cell, k) :
           c \in CellAddresses /\ h + Cell <= c /\ c < After(s.mem, h) /\ c + Cell <= h + Cell + n
  <1>1. SUFFICES ASSUME NEW i \in 0 .. k - 1
                 PROVE  LET c == h + Cell + i * Cell IN
                        c \in CellAddresses /\ h + Cell <= c /\ c < After(s.mem, h) /\ c + Cell <= h + Cell + n
    BY DEF StoredCells
  <1>2. i \in Nat /\ i < k
    OBVIOUS
  <1>3. QED
    BY <1>2, EntryCells

(* Filling them leaves the list, and every other block, as it is. *)
LEMMA Storing ==
  ASSUME NEW s, NEW H, Open(s, H), NEW h \in UsedHeaders(s, H), NEW v \in Values,
         NEW n \in Int, n <= s.mem[h], NEW C,
         \A c \in C : c \in CellAddresses /\ h + Cell <= c /\ c < After(s.mem, h) /\ c + Cell <= h + Cell + n
  PROVE  Changed(s, H, {h}, Filled(s, C, v), H, {h}, n)
  <1> DEFINE m   == s.mem
             top == s.brk - Cell
             t   == Filled(s, C, v)
             m2  == t.mem
             U   == UsedHeaders(s, H)
  <1>1. /\ h \in H \ {top} /\ h \in CellAddresses /\ h \in Int /\ m[h] \in Int /\ m[h] > 0
        /\ Cell \in Nat \ {0}
    BY OpenLeft, UsedBlock, Constants
  <1>2. /\ m \in Memories /\ Listed(m, top, H) /\ m[top] = 0 /\ s.brk \in StartBreak + Cell .. MaxBreak
        /\ s = [mem |-> m, brk |-> s.brk, arenap |-> StartBreak, bcache |-> s.brk]
    BY DEF Open, Tiles
  <1>3. s.arenap = StartBreak /\ s.bcache = s.brk
    BY DEF Open
  <1>4. /\ t = [mem |-> m2, brk |-> s.brk, arenap |-> StartBreak, bcache |-> s.brk] /\ t.brk = s.brk
        /\ m2 = [c \in CellAddresses |-> IF c \in C THEN v ELSE m[c]]
    BY <1>3 DEF Filled
  <1> HIDE DEF t
  <1>5. /\ m2 \in Memories /\ \A c \in CellAddresses : c \notin C => m2[c] = m[c]
    <2>1. v \in Contents
      BY AllocatorAssumption DEF Contents
    <2> HIDE DEF m
    <2>2. \A c \in CellAddresses : (IF c \in C THEN v ELSE m[c]) \in Contents
      BY <1>2, <2>1 DEF Memories
    <2>3. QED
      BY <1>4, <2>2 DEF Memories
  <1>6. H \subseteq CellAddresses /\ top \in H
    BY <1>2 DEF Listed
  <1>7. ASSUME NEW k \in H PROVE k \notin C /\ m2[k] = m[k]
    <2>1. k <= h \/ After(m, h) <= k
      BY <1>1, <1>2 DEF Listed
    <2>2. k \in Int /\ After(m, h) \in Int
      BY <1>1, <1>2, ListNumbers
    <2>3. k \notin C
      <3>1. SUFFICES ASSUME k \in C PROVE FALSE
        OBVIOUS
      <3>2. h + Cell <= k /\ k < After(m, h)
        BY <3>1
      <3>3. QED
        BY <1>1, <2>1, <2>2, <3>2
    <2>4. QED
      BY <1>5, <1>6, <2>3
  <1>8. Listed(m2, top, H)
    <2>1. ASSUME NEW k \in H \ {top} PROVE m2[k] # 0 /\ After(m2, k) = After(m, k)
      <3>1. m2[k] = m[k] /\ m[k] # 0
        BY <1>2, <1>7 DEF Listed
      <3>2. QED
        BY <3>1 DEF After
    <2>2. QED
      BY <1>2, <2>1, Rewritten
  <1>9. Open(t, H)
    <2>1. m2[top] = 0
      BY <1>2, <1>6, <1>7
    <2> HIDE DEF top
    <2>2. Tiles(t.mem, t.brk - Cell, H)
      BY <1>4, <1>8, <2>1 DEF Tiles, top
    <2>3. QED
      BY <1>2, <1>4, <1>5, <2>2 DEF Open
  <1>10. UsedHeaders(t, H) = U /\ h \in U
    BY <1>4, <1>7 DEF UsedHeaders, Used
  <1>11. Keeps(m, U \ {h}, m2)
    <2>1. SUFFICES ASSUME NEW u \in U \ {h}, NEW c \in CellAddresses, u <= c, c < After(m, u)
                   PROVE  m2[c] = m[c]
      BY DEF Keeps
    <2>2. u \in H \ {top} /\ u # h /\ c \in Int
      BY CellAddress DEF UsedHeaders, Used
    <2>3. c < h \/ After(m, h) <= c
      BY <1>1, <1>2, <2>1, <2>2, BlocksApart
    <2>4. After(m, h) \in Int
      BY <1>1, <1>2, ListNumbers
    <2>5. c \notin C
      <3>1. SUFFICES ASSUME c \in C PROVE FALSE
        OBVIOUS
      <3>2. h + Cell <= c /\ c < After(m, h)
        BY <3>1
      <3>3. QED
        BY <1>1, <2>2, <2>3, <2>4, <3>2
    <2>6. QED
      BY <1>5, <2>5
  <1>12. ASSUME NEW c \in CellAddresses, m[c] <= 0, ~(h <= c /\ c < h + Cell + n)
         PROVE  m2[c] <= 0
    <2>1. c \notin C
      <3>1. SUFFICES ASSUME c \in C PROVE FALSE
        OBVIOUS
      <3>2. c \in Int /\ h + Cell <= c /\ c + Cell <= h + Cell + n
        BY <3>1, CellAddress
      <3>3. QED
        BY <1>1, <1>12, <3>2
    <2>2. QED
      BY <1>5, <1>12, <2>1
  <1>13. m2[h] >= n
    BY <1>1, <1>7
  <1> HIDE DEF m2, U
  <1>14. QED
    BY <1>9, <1>10, <1>11, <1>12, <1>13 DEF Changed, Replaces, U, m2, t


Fills(b, b2, a, v) ==
  /\ a \in DOMAIN b /\ DOMAIN b2 = DOMAIN b /\ Len(b2[a]) = Len(b[a])
  /\ \A i \in DOMAIN b[a] : b2[a][i] \in {v, b[a][i]}
  /\ DOMAIN b2 \ {a} = DOMAIN b \ {a} /\ \A x \in DOMAIN b \ {a} : b2[x] = b[x]

FilledEntry(e, v) == [asked |-> e.asked, tag |-> v, kept |-> Asked(e.asked) \div Cell]

HeldFilled(f, a, v) == [x \in DOMAIN f |-> IF x = a THEN FilledEntry(f[a], v) ELSE f[x]]

(* A store is one into a block of the program's own. *)
LEMMA StoreStep ==
  ASSUME SmallRequests, NEW s, NEW f, NEW S, Sound(s, "running", f, S), NEW a \in DOMAIN f, NEW v \in Values
  PROVE  LET t == Filled(s, StoredCells(a, Asked(f[a].asked) \div Cell), v) IN
         Sound(t, "running", HeldFilled(f, a, v), S) /\ Fills(BlocksIn(s), BlocksIn(t), a, v)
  <1> DEFINE n  == Asked(f[a].asked)
             k  == n \div Cell
             C  == StoredCells(a, k)
             t  == Filled(s, C, v)
             f2 == HeldFilled(f, a, v)
  <1>1. PICK H : Left(s, H) /\ Holding(s, H, f) /\ Open(s, H) /\ GaveBack(s.mem, f, S)
    BY DEF Sound
  <1>2. PICK h \in UsedHeaders(s, H) : a = h + Cell /\ Entry(s.mem, f[a], h)
    BY <1>1 DEF Holding
  <1>3. f[a].asked \in Sizes /\ f[a].asked >= 0 /\ n <= s.mem[h]
        /\ f[a] \in [asked : Sizes, kept : Nat, tag : Values \cup {0}]
    BY <1>2 DEF Entry
  <1>4. n \in Int /\ k \in Nat /\ k * Cell = n
    BY <1>3, AskedNumber
  <1>5. h \in Int /\ s.mem[h] \in Int /\ Cell \in Nat \ {0} /\ h \in CellAddresses
    BY <1>1, UsedBlock, Constants
  <1> HIDE DEF n, k, t, f2
  <1>6. \A c \in C : c \in CellAddresses /\ h + Cell <= c /\ c < After(s.mem, h) /\ c + Cell <= h + Cell + n
    BY <1>1, <1>2, <1>3, <1>4, StoredCellsIn
  <1> HIDE DEF C
  <1> DEFINE G == {h}
  <1>7. Changed(s, H, G, t, H, G, n)
    BY <1>1, <1>3, <1>4, <1>6, Storing DEF t
  <1>8. t.mem = [c \in CellAddresses |-> IF c \in C THEN v ELSE s.mem[c]]
    BY DEF t, Filled
  <1>9. Entry(t.mem, FilledEntry(f[a], v), h)
    <2>1. ASSUME NEW i \in 0 .. k - 1 PROVE t.mem[h + Cell + i * Cell] = v
      <3>1. h + Cell + i * Cell \in C
        BY <1>2 DEF C, StoredCells
      <3>2. QED
        BY <1>6, <1>8, <3>1
    <2>2. n <= t.mem[h]
      BY <1>7 DEF Changed
    <2>3. FilledEntry(f[a], v) = [asked |-> f[a].asked, tag |-> v, kept |-> k]
      BY DEF FilledEntry, k, n
    <2>4. [asked |-> f[a].asked, tag |-> v, kept |-> k] \in [asked : Sizes, kept : Nat, tag : Values \cup {0}]
      BY <1>3, <1>4
    <2>5. k * Cell <= n
      BY <1>4
    <2>6. QED
      BY <1>3, <2>1, <2>2, <2>3, <2>4, <2>5 DEF Entry, n
  <1>10. DOMAIN f2 = DOMAIN f /\ f2[a] = FilledEntry(f[a], v) /\ \A x \in DOMAIN f \ {a} : f2[x] = f[x]
    BY DEF f2, HeldFilled
  <1>11. HoldsOn(t.mem, G, G, f, f2)
    BY <1>2, <1>9, <1>10 DEF HoldsOn
  <1>12. CoversAtMost(n, G, G, f, f2)
    <2>1. FilledEntry(f[a], v).asked = f[a].asked
      BY DEF FilledEntry
    <2>2. Asked(f2[a].asked) \in Int /\ Asked(f2[a].asked) <= n
      BY <1>4, <1>10, <2>1 DEF n
    <2>3. QED
      BY <1>2, <1>10, <2>2 DEF CoversAtMost
  <1>13. GivesOn(n, G, G, S, S)
    <2>1. SUFFICES ASSUME NEW x \in S PROVE ~(h <= x - Cell /\ x - Cell < h + Cell + n)
      BY DEF GivesOn
    <2>2. PICK c \in CellAddresses : x = c + Cell /\ c \notin a - Cell .. a + n - 1
      BY <1>1 DEF GaveBack, n
    <2>3. c \in Int
      BY CellAddress
    <2>4. x - Cell = c
      BY <1>5, <2>2, <2>3
    <2>5. c \notin h .. h + Cell + n - 1
      BY <1>2, <1>5, <2>2
    <2>6. QED
      BY <1>4, <1>5, <2>3, <2>4, <2>5
  <1>14. Makes(s, H, G, t, H, G, n, f, S, f2, S)
    BY <1>4, <1>5, <1>7, <1>11, <1>12, <1>13 DEF Makes
  <1>15. Ready(s, s, H, f, S)
    BY <1>1, OpenArena, BlocksLeft DEF Ready
  <1>16. Sound(t, "running", f2, S) /\ BlocksIn(t) = BlocksOf(t, H)
    BY <1>14, <1>15, SoundMade
  <1>17. BlocksIn(s) = BlocksOf(s, H)
    BY <1>1, BlocksLeft
  <1> DEFINE b  == BlocksOf(s, H)
             b2 == BlocksOf(t, H)
  <1>18. Replaces(s, H, G, t, H, G) /\ Left(t, H) /\ UsedHeaders(t, H) = UsedHeaders(s, H)
    BY <1>7, OpenLeft DEF Changed, Replaces
  <1>19. DOMAIN b2 \ {a} = DOMAIN b \ {a} /\ \A x \in DOMAIN b \ {a} : b2[x] = b[x]
    <2>1. Named({a}, G, G)
      BY <1>2, <1>5 DEF Named
    <2> HIDE DEF G
    <2>2. QED
      BY <1>1, <1>18, <2>1, OthersStay
  <1>20. a \in DOMAIN b /\ a \in DOMAIN b2
    BY <1>2, <1>18, BlocksDomain
  <1>21. Len(b2[a]) = Len(b[a]) /\ \A i \in DOMAIN b[a] : b2[a][i] \in {v, b[a][i]}
    <2> DEFINE p == s.mem[h] \div Cell
               q == b[a]
               w == b2[a]
    <2>1. t.mem[h] = s.mem[h]
      <3>1. h \notin C
        BY <1>5, <1>6
      <3>2. QED
        BY <1>5, <1>8, <3>1
    <2>2. q = [i \in 1 .. p |-> s.mem[h + Cell + (i - 1) * Cell]] /\ Len(q) = p
          /\ \A i \in 1 .. p : h + Cell + (i - 1) * Cell \in CellAddresses
      BY <1>1, <1>2, BlockContents
    <2>3. w = [i \in 1 .. p |-> t.mem[h + Cell + (i - 1) * Cell]] /\ Len(w) = p
      BY <1>2, <1>18, <2>1, BlockContents
    <2> HIDE DEF b, b2, p
    <2>4. ASSUME NEW i \in DOMAIN q PROVE w[i] \in {v, q[i]}
      <3>1. i \in 1 .. p
        BY <2>2
      <3>2. q[i] = s.mem[h + Cell + (i - 1) * Cell] /\ w[i] = t.mem[h + Cell + (i - 1) * Cell]
            /\ h + Cell + (i - 1) * Cell \in CellAddresses
        BY <2>2, <2>3, <3>1
      <3>3. QED
        BY <1>8, <3>2
    <2>5. QED
      BY <2>2, <2>3, <2>4
  <1> HIDE DEF b, b2
  <1>22. Fills(b, b2, a, v)
    BY <1>19, <1>20, <1>21 DEF Fills
  <1>23. QED
    BY <1>16, <1>17, <1>22 DEF b, b2, t, f2, C, k, n


-----------------------------------------------------------------------------
(* The state of the specification. *)

(* The blocks of the specification's state, *)
LEMMA BlocksNow ==
  BlocksIn(State) = Blocks
  <1>1. HeadersOf(mem, brk, arenap, State) = Headers
    BY DEF HeadersOf, Walks, Headers
  <1>2. State.mem = mem /\ State.brk = brk /\ State.arenap = arenap
    BY DEF State
  <1>3. BlocksIn(State) = ContentsOf(mem, {k \in Headers : mem[k] > 0 /\ NextHeader(State, k) < brk})
    BY <1>1, <1>2 DEF BlocksIn
  <1>4. Blocks = ContentsOf(mem, {k \in Headers : mem[k] > 0 /\ NextHeader(State, k) < brk})
    BY DEF Blocks, ContentsOf
  <1>5. QED
    BY <1>3, <1>4

(* and of the state after a step. *)
LEMMA BlocksNext ==
  BlocksIn(State') = Blocks'
  <1>1. HeadersOf(mem', brk', arenap', State') = Headers'
    BY DEF HeadersOf, Walks, Headers
  <1>2. State'.mem = mem' /\ State'.brk = brk' /\ State'.arenap = arenap'
    BY DEF State
  <1>3. BlocksIn(State') = ContentsOf(mem', {k \in Headers' : mem'[k] > 0 /\ NextHeader(State', k) < brk'})
    BY <1>1, <1>2 DEF BlocksIn
  <1>4. Blocks' = ContentsOf(mem', {k \in Headers' : mem'[k] > 0 /\ NextHeader(State', k) < brk'})
    BY DEF Blocks, ContentsOf
  <1>5. QED
    BY <1>3, <1>4


(* The inductive invariant. *)
HeapInv ==
  /\ Sound(State, status, held, given)
  /\ held = [a \in DOMAIN held |-> held[a]]
  /\ reply \in [code : {"ok", "einval", "thrown"}, addr : Int]

HeapStep ==
  /\ HeapInv'
  /\ AbstractHeap!HeapNext \/ UNCHANGED AbstractHeap!heapVars

(* A state of the memory is the record of its four variables. *)
LEMMA SoundRecord ==
  ASSUME NEW s, NEW st, NEW f, NEW S, Sound(s, st, f, S)
  PROVE  s = [mem |-> s.mem, brk |-> s.brk, arenap |-> s.arenap, bcache |-> s.bcache]
         /\ s.arenap \in {0, StartBreak}
  <1>1. CASE s = Fresh
    BY <1>1 DEF Fresh
  <1>2. CASE s = Closed
    BY <1>2 DEF Closed
  <1>3. CASE \E H : Left(s, H)
    <2>1. s = [mem |-> s.mem, brk |-> s.brk, arenap |-> StartBreak, bcache |-> s.brk]
      BY <1>3 DEF Left
    <2>2. s.arenap = StartBreak /\ s.bcache = s.brk
      BY <2>1
    <2>3. QED
      BY <2>1, <2>2
  <1>4. QED
    BY <1>1, <1>2, <1>3 DEF Sound

(* The state after a call is the one it returned. *)
LEMMA CallReturns ==
  ASSUME NEW r, Called(r), NEW st, NEW f, NEW S, Sound(r.s, st, f, S)
  PROVE  State' = r.s /\ reply' = [code |-> r.code, addr |-> r.addr] /\ Blocks' = BlocksIn(r.s)
  <1>1. r.s = [mem |-> r.s.mem, brk |-> r.s.brk, arenap |-> r.s.arenap, bcache |-> r.s.bcache]
    BY SoundRecord
  <1>2. State' = [mem |-> r.s.mem, brk |-> r.s.brk, arenap |-> r.s.arenap, bcache |-> r.s.bcache]
    BY DEF State, Called
  <1>3. State' = r.s
    BY <1>1, <1>2
  <1>4. Blocks' = BlocksIn(r.s)
    BY <1>3, BlocksNext
  <1>5. QED
    BY <1>3, <1>4 DEF Called

(* A call that gives no block. *)
LEMMA NothingGiven ==
  ASSUME HeapInv, CatchesThrow = FALSE, NEW r, Called(r),
         Refuses(State, held, given, r) \/ Ends(State, held, given, r),
         r.code # "ok" => UNCHANGED client
  PROVE  HeapStep
  <1>1. held' = held /\ given' = given
    BY DEF client, Refuses, Ends
  <1>2. CASE Refuses(State, held, given, r)
    <2>1. r.code = "einval" /\ r.addr = 0 /\ Sound(r.s, "running", held, given) /\ BlocksIn(r.s) = Blocks
      BY <1>2, BlocksNow DEF Refuses
    <2>2. status' = "running"
      BY <2>1 DEF Called
    <2>3. State' = r.s /\ reply' = [code |-> "einval", addr |-> 0] /\ Blocks' = Blocks
      BY <2>1, CallReturns
    <2>4. HeapInv'
      BY <1>1, <2>1, <2>2, <2>3 DEF HeapInv
    <2>5. AbstractHeap!Refused
      BY <2>3 DEF AbstractHeap!Refused
    <2>6. QED
      BY <2>4, <2>5 DEF HeapStep, AbstractHeap!HeapNext
  <1>3. CASE Ends(State, held, given, r)
    <2>1. r.code = "thrown" /\ r.addr = 0 /\ Sound(r.s, "ended", held, given) /\ BlocksIn(r.s) = Blocks
      BY <1>3, BlocksNow DEF Ends
    <2>2. status' = "ended"
      BY <2>1 DEF Called
    <2>3. State' = r.s /\ reply' = [code |-> "thrown", addr |-> 0] /\ Blocks' = Blocks
      BY <2>1, CallReturns
    <2>4. HeapInv'
      BY <1>1, <2>1, <2>2, <2>3 DEF HeapInv
    <2>5. AbstractHeap!Exhausted
      BY <2>3 DEF AbstractHeap!Exhausted
    <2>6. QED
      BY <2>4, <2>5 DEF HeapStep, AbstractHeap!HeapNext
  <1>4. QED
    BY <1>2, <1>3

(* ALLOCATE keeps the invariant and is a step of the heap. *)
LEMMA AllocateImplements ==
  ASSUME SmallRequests, CatchesThrow = FALSE, HeapInv, Allocate
  PROVE  HeapStep
  <1>1. PICK n, r :
          /\ n \in Sizes /\ r = allocate(State, n)
          /\ status = "running" /\ Called(r)
          /\ IF r.code # "ok" THEN UNCHANGED client
             ELSE /\ held' = [a \in DOMAIN held \cup {r.addr} |->
                                IF a = r.addr THEN [asked |-> n, kept |-> 0, tag |-> 0] ELSE held[a]]
                  /\ given' = Uncovered(given, r.addr, Asked(n))
    BY DEF Allocate
  <1>2. \/ Refuses(State, held, given, r) \/ Ends(State, held, given, r)
        \/ Allocates(State, held, given, r, n)
    BY <1>1, AllocateStep DEF HeapInv
  <1>3. CASE Refuses(State, held, given, r) \/ Ends(State, held, given, r)
    BY <1>1, <1>3, NothingGiven
  <1>4. CASE Allocates(State, held, given, r, n)
    <2>1. /\ r.code = "ok" /\ n >= 0
          /\ Sound(r.s, "running",
                   [a \in DOMAIN held \cup {r.addr} |-> IF a = r.addr THEN NewEntry(n) ELSE held[a]],
                   Uncovered(given, r.addr, Asked(n)))
          /\ Comes(Blocks, BlocksIn(r.s), r.addr, n)
      BY <1>4, BlocksNow DEF Allocates
    <2>2. /\ status' = "running"
          /\ held' = [a \in DOMAIN held \cup {r.addr} |-> IF a = r.addr THEN NewEntry(n) ELSE held[a]]
          /\ given' = Uncovered(given, r.addr, Asked(n))
      BY <1>1, <2>1 DEF Called, NewEntry
    <2>3. State' = r.s /\ reply' = [code |-> "ok", addr |-> r.addr] /\ Blocks' = BlocksIn(r.s)
      BY <1>1, <2>1, CallReturns
    <2>4. Comes(Blocks, Blocks', r.addr, n)
      BY <2>1, <2>3
    <2>5. r.addr \in CellAddresses \ DOMAIN Blocks /\ r.addr \in Int
      BY <2>4, CellAddress DEF Comes
    <2>6. HeapInv'
      <3>1. Sound(State', status', held', given')
        BY <2>1, <2>2, <2>3
      <3>2. held' = [a \in DOMAIN held' |-> held'[a]]
        BY <2>2
      <3>3. reply' \in [code : {"ok", "einval", "thrown"}, addr : Int]
        BY <2>3, <2>5
      <3>4. QED
        BY <3>1, <3>2, <3>3 DEF HeapInv
    <2>7. AbstractHeap!Allocated(n)
      BY <2>1, <2>3, <2>4, <2>5 DEF Comes, AbstractHeap!Allocated, AbstractHeap!Others
    <2>8. QED
      BY <1>1, <2>6, <2>7 DEF HeapStep, AbstractHeap!HeapNext
  <1>5. QED
    BY <1>2, <1>3, <1>4


(* The program holds addresses. *)
LEMMA HeldNumbers ==
  ASSUME NEW s, NEW st, NEW f, NEW S, Sound(s, st, f, S)
  PROVE  \A a \in DOMAIN f : a \in Int
  <1>1. SUFFICES ASSUME NEW a \in DOMAIN f PROVE a \in Int
    OBVIOUS
  <1>2. PICK H : Left(s, H) /\ Holding(s, H, f)
    BY DEF Sound
  <1>3. PICK h \in UsedHeaders(s, H) : a = h + Cell
    BY <1>2 DEF Holding
  <1>4. h \in Int /\ Cell \in Int
    BY <1>2, UsedBlock, Constants
  <1>5. QED
    BY <1>3, <1>4

(* So does FREE, and is one, *)
LEMMA FreeImplements ==
  ASSUME SmallRequests, CatchesThrow = FALSE, HeapInv, Free
  PROVE  HeapStep
  <1>1. PICK a, r :
          /\ a \in DOMAIN held \cup given \cup Strangers /\ r = free(State, a)
          /\ status = "running" /\ Called(r)
          /\ IF r.code # "ok" THEN UNCHANGED client
             ELSE /\ held' = Without(held, {a})
                  /\ given' = given \cup {a}
    BY DEF Free
  <1>2. \/ Refuses(State, held, given, r) \/ Ends(State, held, given, r)
        \/ Frees(State, held, given, r, a)
    BY <1>1, FreeStep DEF HeapInv
  <1>3. CASE Refuses(State, held, given, r) \/ Ends(State, held, given, r)
    BY <1>1, <1>3, NothingGiven
  <1>4. CASE Frees(State, held, given, r, a)
    <2>1. /\ r.code = "ok" /\ r.addr = a /\ a \in DOMAIN held
          /\ Sound(r.s, "running", Without(held, {a}), given \cup {a})
      BY <1>4 DEF Frees
    <2>2. status' = "running" /\ held' = Without(held, {a}) /\ given' = given \cup {a}
      BY <1>1, <2>1 DEF Called
    <2>3. State' = r.s /\ reply' = [code |-> "ok", addr |-> a] /\ Blocks' = BlocksIn(r.s)
      BY <1>1, <2>1, CallReturns
    <2>4. /\ a \in DOMAIN Blocks /\ a \notin DOMAIN Blocks'
          /\ DOMAIN Blocks' \ {a} = DOMAIN Blocks \ {a} /\ \A x \in DOMAIN Blocks \ {a} : Blocks'[x] = Blocks[x]
      BY <1>4, <2>3, BlocksNow DEF Frees
    <2>5. a \in Int
      BY <2>1, HeldNumbers DEF HeapInv
    <2>6. HeapInv'
      <3>1. Sound(State', status', held', given')
        BY <2>1, <2>2, <2>3
      <3>2. held' = [x \in DOMAIN held' |-> held'[x]]
        BY <2>2 DEF Without
      <3>3. reply' \in [code : {"ok", "einval", "thrown"}, addr : Int]
        BY <2>3, <2>5
      <3>4. QED
        BY <3>1, <3>2, <3>3 DEF HeapInv
    <2>7. AbstractHeap!Freed
      BY <2>3, <2>4 DEF AbstractHeap!Freed, AbstractHeap!Others
    <2>8. QED
      BY <2>6, <2>7 DEF HeapStep, AbstractHeap!HeapNext
  <1>5. QED
    BY <1>2, <1>3, <1>4

(* so does RESIZE, *)
LEMMA ResizeImplements ==
  ASSUME SmallRequests, CatchesThrow = FALSE, HeapInv, Resize
  PROVE  HeapStep
  <1>0. PICK a \in DOMAIN held \cup given \cup Strangers, n \in Sizes :
          \E r \in {resize(State, a, n)} :
            LET fit == Asked(n) \div Cell IN
            /\ status = "running"
            /\ Called(r)
            /\ IF r.code # "ok" \/ a \notin DOMAIN held THEN UNCHANGED client
               ELSE /\ held' = [b \in (DOMAIN held \ {a}) \cup {r.addr} |->
                                  IF b # r.addr THEN held[b]
                                  ELSE [asked |-> n, tag |-> held[a].tag,
                                        kept  |-> IF held[a].kept < fit THEN held[a].kept ELSE fit]]
                    /\ given' = Uncovered(given \cup ({a} \ {r.addr}), r.addr, Asked(n))
    BY Zenon DEF Resize
  <1> DEFINE r == resize(State, a, n)
  <1>1. /\ status = "running" /\ Called(r)
        /\ r.code = "ok" /\ a \in DOMAIN held =>
             /\ held' = HeldMoved(held, a, r.addr, n)
             /\ given' = Uncovered(given \cup ({a} \ {r.addr}), r.addr, Asked(n))
        /\ r.code # "ok" => UNCHANGED client
    BY <1>0, Zenon DEF HeldMoved, MovedEntry
  <1>2. \/ Refuses(State, held, given, r) \/ Ends(State, held, given, r)
        \/ Resizes(State, held, given, r, a, n)
    BY <1>1, ResizeStep DEF HeapInv
  <1> HIDE DEF r
  <1>3. CASE Refuses(State, held, given, r) \/ Ends(State, held, given, r)
    BY <1>1, <1>3, NothingGiven
  <1>4. CASE Resizes(State, held, given, r, a, n)
    <2>1. /\ r.code = "ok" /\ n >= 0 /\ a \in DOMAIN held
          /\ Sound(r.s, "running", HeldMoved(held, a, r.addr, n),
                   Uncovered(given \cup ({a} \ {r.addr}), r.addr, Asked(n)))
          /\ Turns(Blocks, BlocksIn(r.s), a, r.addr, n)
      BY <1>4, BlocksNow DEF Resizes
    <2>2. /\ status' = "running"
          /\ held' = HeldMoved(held, a, r.addr, n)
          /\ given' = Uncovered(given \cup ({a} \ {r.addr}), r.addr, Asked(n))
      BY <1>1, <2>1 DEF Called
    <2>3. State' = r.s /\ reply' = [code |-> "ok", addr |-> r.addr] /\ Blocks' = BlocksIn(r.s)
      BY <1>1, <2>1, CallReturns
    <2>4. Turns(Blocks, Blocks', a, r.addr, n)
      BY <2>1, <2>3
    <2>5. r.addr \in CellAddresses /\ r.addr \in Int
      BY <2>4, CellAddress DEF Turns
    <2>6. HeapInv'
      <3>1. Sound(State', status', held', given')
        BY <2>1, <2>2, <2>3
      <3>2. held' = [x \in DOMAIN held' |-> held'[x]]
        BY <2>2 DEF HeldMoved
      <3>3. reply' \in [code : {"ok", "einval", "thrown"}, addr : Int]
        BY <2>3, <2>5
      <3>4. QED
        BY <3>1, <3>2, <3>3 DEF HeapInv
    <2>7. AbstractHeap!Resized(n)
      BY <2>1, <2>3, <2>4, <2>5 DEF Turns, AbstractHeap!Resized, AbstractHeap!Others
    <2>8. QED
      BY <2>6, <2>7 DEF HeapStep, AbstractHeap!HeapNext
  <1>5. QED
    BY <1>2, <1>3, <1>4

(* and so does the program's own store. *)
LEMMA StoreImplements ==
  ASSUME SmallRequests, HeapInv, Store
  PROVE  HeapStep
  <1>0. PICK a \in DOMAIN held, v \in Values :
          LET n     == Asked(held[a].asked)
              cells == {a + i * Cell : i \in 0 .. n \div Cell - 1} IN
          /\ status = "running"
          /\ \A c \in cells : Mapped(State, c)
          /\ mem' = [c \in CellAddresses |-> IF c \in cells THEN v ELSE mem[c]]
          /\ held' = [held EXCEPT ![a].tag = v, ![a].kept = n \div Cell]
          /\ UNCHANGED <<brk, arenap, bcache, reply, status, given>>
    BY Zenon DEF Store
  <1> DEFINE n == Asked(held[a].asked)
  <1>1. /\ status = "running"
        /\ mem' = [c \in CellAddresses |-> IF c \in StoredCells(a, n \div Cell) THEN v ELSE mem[c]]
        /\ held' = [held EXCEPT ![a].tag = v, ![a].kept = n \div Cell]
        /\ UNCHANGED <<brk, arenap, bcache, reply, status, given>>
    BY <1>0, Zenon DEF StoredCells
  <1> DEFINE t == Filled(State, StoredCells(a, n \div Cell), v)
             e == held[a]
  <1>2. Sound(t, "running", HeldFilled(held, a, v), given) /\ Fills(Blocks, BlocksIn(t), a, v)
    BY <1>1, StoreStep, BlocksNow DEF HeapInv
  <1>3. State' = t
    BY <1>1 DEF State, Filled
  <1>4. held' = HeldFilled(held, a, v)
    <2>1. held = [x \in DOMAIN held |-> held[x]]
      BY DEF HeapInv
    <2>2. e = [asked |-> e.asked, kept |-> e.kept, tag |-> e.tag]
      <3>1. PICK H : Holding(State, H, held)
        BY <1>1 DEF HeapInv, Sound
      <3>2. e \in [asked : Sizes, kept : Nat, tag : Values \cup {0}]
        BY <1>1, <3>1 DEF Holding, Entry
      <3>3. QED
        BY <3>2
    <2> DEFINE f1 == [held EXCEPT ![a] = [e EXCEPT !.tag = v]]
    <2>3. held' = [f1 EXCEPT ![a] = [f1[a] EXCEPT !.kept = n \div Cell]]
      BY <1>1, Zenon
    <2>4. f1[a] = [asked |-> e.asked, kept |-> e.kept, tag |-> v] /\ DOMAIN f1 = DOMAIN held
          /\ \A x \in DOMAIN held \ {a} : f1[x] = held[x]
      BY <1>1, <2>1, <2>2
    <2> HIDE DEF f1, e
    <2>5. [f1[a] EXCEPT !.kept = n \div Cell] = FilledEntry(e, v)
      BY <1>1, <2>4 DEF FilledEntry, e
    <2>6. held' = [x \in DOMAIN held |-> IF x = a THEN FilledEntry(e, v) ELSE held[x]]
      <3>1. held' = [x \in DOMAIN f1 |-> IF x = a THEN FilledEntry(e, v) ELSE f1[x]]
        BY <2>3, <2>5
      <3>2. QED
        BY <2>4, <3>1
    <2>7. QED
      BY <2>6 DEF HeldFilled, e
  <1>5. Blocks' = BlocksIn(t)
    BY <1>3, BlocksNext
  <1> HIDE DEF t
  <1>6. HeapInv'
    <2>1. Sound(State', status', held', given')
      BY <1>1, <1>2, <1>3, <1>4
    <2>2. held' = [x \in DOMAIN held' |-> held'[x]]
      BY <1>4 DEF HeldFilled
    <2>3. reply' \in [code : {"ok", "einval", "thrown"}, addr : Int]
      BY <1>1 DEF HeapInv
    <2>4. QED
      BY <2>1, <2>2, <2>3 DEF HeapInv
  <1>7. AbstractHeap!Stored
    <2>1. Fills(Blocks, Blocks', a, v) /\ reply' = reply
      BY <1>1, <1>2, <1>5
    <2>2. QED
      BY <1>1, <2>1 DEF Fills, AbstractHeap!Stored, AbstractHeap!Others
  <1>8. QED
    BY <1>6, <1>7 DEF HeapStep, AbstractHeap!HeapNext


(* The first state. *)
LEMMA HeapStart ==
  ASSUME AllocatorInit
  PROVE  HeapInv /\ AbstractHeap!HeapInit
  <1>1. State = Fresh /\ status = "running" /\ held = << >> /\ given = {}
    BY DEF AllocatorInit, State, Fresh, Zeros
  <1>2. DOMAIN held = {} /\ held = [a \in DOMAIN held |-> held[a]]
    BY <1>1
  <1>3. Blocks = << >>
    BY <1>1, BlocksNow, BlocksNone
  <1>4. reply = [code |-> "ok", addr |-> 0]
    BY DEF AllocatorInit
  <1>5. HeapInv
    BY <1>1, <1>2, <1>4 DEF HeapInv, Sound
  <1>6. QED
    BY <1>3, <1>4, <1>5 DEF AbstractHeap!HeapInit

(* Every step keeps the invariant, and is one of the heap or none. *)
LEMMA HeapSteps ==
  ASSUME SmallRequests, CatchesThrow = FALSE, HeapInv, [AllocatorNext]_vars
  PROVE  HeapStep
  <1>1. CASE UNCHANGED vars
    <2>1. /\ mem' = mem /\ brk' = brk /\ arenap' = arenap /\ bcache' = bcache /\ reply' = reply
          /\ status' = status /\ held' = held /\ given' = given
      BY <1>1 DEF vars
    <2>2. State' = State
      BY <2>1 DEF State
    <2>3. Blocks' = Blocks
      BY <2>2, BlocksNow, BlocksNext
    <2>4. HeapInv'
      BY <2>1, <2>2 DEF HeapInv
    <2>5. QED
      BY <2>1, <2>3, <2>4 DEF HeapStep, AbstractHeap!heapVars
  <1>2. CASE Over
    BY <1>1, <1>2 DEF Over
  <1>3. QED
    BY <1>1, <1>2, AllocateImplements, FreeImplements, ResizeImplements, StoreImplements
    DEF AllocatorNext

(* The memory is one of four kinds: untouched, refused to the arena at once,
   tiled by the blocks of the list, or the same with the last header written
   over by the exception that ended the program.                            *)
THEOREM HeapInvariant ==
  ASSUME SmallRequests, CatchesThrow = FALSE
  PROVE  AllocatorSpec => []HeapInv
  <1>1. AllocatorInit => HeapInv
    BY HeapStart
  <1>2. HeapInv /\ [AllocatorNext]_vars => HeapInv'
    BY HeapSteps DEF HeapStep
  <1>3. QED
    BY <1>1, <1>2, PTL DEF AllocatorSpec

(* The invariant implies the module's properties. *)
LEMMA HeapClosed ==
  ASSUME HeapInv
  PROVE  ListClosed
  <1>1. SUFFICES ASSUME arenap # 0, status = "running"
                 PROVE  brk - Cell \in Headers /\ mem[brk - Cell] = 0 /\ bcache = brk
    BY DEF ListClosed
  <1>2. State.mem = mem /\ State.brk = brk /\ State.arenap = arenap /\ State.bcache = bcache
    BY DEF State
  <1>3. PICK H : Left(State, H) /\ Open(State, H)
    BY <1>1, <1>2 DEF HeapInv, Sound, Fresh
  <1>4. HeadersOf(mem, brk, arenap, State) = Headers
    BY DEF HeadersOf, Walks, Headers
  <1>5. Headers = H
    BY <1>2, <1>3, <1>4, HeadersListed
  <1>6. State.brk - Cell \in H /\ State.mem[State.brk - Cell] = 0
    BY <1>3 DEF Open, Tiles, Listed
  <1>7. State.bcache = State.brk
    BY <1>3 DEF Open
  <1>8. QED
    BY <1>2, <1>5, <1>6, <1>7

(* What is stored is there: it is part of the invariant. *)
LEMMA HeapKept ==
  ASSUME HeapInv
  PROVE  DataKept
  <1>1. SUFFICES ASSUME NEW a \in DOMAIN held, NEW i \in 0 .. held[a].kept - 1
                 PROVE  mem[a + i * Cell] = held[a].tag
    BY DEF DataKept
  <1>2. PICK H : Holding(State, H, held)
    BY DEF HeapInv, Sound
  <1>3. PICK h \in UsedHeaders(State, H) : a = h + Cell /\ Entry(State.mem, held[a], h)
    BY <1>2 DEF Holding
  <1>4. State.mem[h + Cell + i * Cell] = held[a].tag
    BY <1>3 DEF Entry
  <1>5. QED
    BY <1>3, <1>4 DEF State

(* An address given back has no block at it. *)
LEMMA HeapRefuses ==
  ASSUME HeapInv
  PROVE  GivenRefused
  <1>1. SUFFICES ASSUME status = "running", NEW a \in given
                 PROVE  _allocsize(State, a) = 0
    BY DEF GivenRefused
  <1>2. PICK H : Open(State, H) /\ Left(State, H) /\ Holding(State, H, held)
                 /\ GaveBack(State.mem, held, given)
    BY <1>1 DEF HeapInv, Sound
  <1>3. Ready(State, State, H, held, given)
    BY <1>2, OpenArena, BlocksLeft DEF Ready
  <1>4. QED
    BY <1>3, NothingThere

(* The invariant gives each variable its type. *)
LEMMA HeapTyped ==
  ASSUME HeapInv
  PROVE  TypeOK
  <1>1. State.mem = mem /\ State.brk = brk /\ State.arenap = arenap /\ State.bcache = bcache
    BY DEF State
  <1>2. /\ mem \in Memories /\ brk \in StartBreak .. MaxBreak /\ arenap \in {0, StartBreak}
        /\ bcache \in {0} \cup (StartBreak .. MaxBreak)
    <2>1. StartBreak \in Int /\ MaxBreak \in Int /\ StartBreak <= MaxBreak /\ Cell \in Nat
      BY Constants
    <2>2. CASE State = Fresh
      BY <1>1, <2>1, <2>2, ZerosMemory DEF Fresh
    <2>3. CASE State = Closed
      BY <1>1, <2>1, <2>3, ZerosMemory DEF Closed
    <2>4. ASSUME NEW H, Left(State, H)
          PROVE  /\ mem \in Memories /\ brk \in StartBreak .. MaxBreak
                 /\ arenap = StartBreak /\ bcache = brk
      <3> DEFINE s == State
      <3>1. /\ s = [mem |-> s.mem, brk |-> s.brk, arenap |-> StartBreak, bcache |-> s.brk]
            /\ s.mem \in Memories /\ s.brk \in StartBreak + Cell .. MaxBreak
            /\ s.mem = mem /\ s.brk = brk /\ s.arenap = arenap /\ s.bcache = bcache
        BY <1>1, <2>4 DEF Left
      <3> HIDE DEF s
      <3>2. s.arenap = StartBreak /\ s.bcache = s.brk
        BY <3>1
      <3>3. QED
        BY <2>1, <3>1, <3>2
    <2>5. QED
      BY <2>2, <2>3, <2>4 DEF HeapInv, Sound
  <1>3. \A a \in DOMAIN held : held[a] \in [asked : Sizes, kept : Nat, tag : Values \cup {0}]
    BY DEF HeapInv, Sound, Holding, Entry
  <1>4. status \in {"running", "ended", "faulted"}
    BY DEF HeapInv, Sound
  <1>5. reply \in [code : {"ok", "einval", "thrown", "fault"}, addr : Int]
    BY DEF HeapInv
  <1>6. QED
    BY <1>2, <1>3, <1>4, <1>5 DEF TypeOK, Memories, Contents

(* What the program may use of a block is of its own, and below the break. *)
LEMMA HeldFits ==
  ASSUME SmallRequests, HeapInv, NEW a \in DOMAIN held
  PROVE  /\ a \in DOMAIN Blocks /\ Cell * Len(Blocks[a]) >= held[a].asked
         /\ a + Asked(held[a].asked) < brk
  <1> DEFINE s == State
             n == held[a].asked
             q == Cell * Len(Blocks[a])
  <1>1. PICK H : Left(s, H) /\ Holding(s, H, held)
    BY DEF HeapInv, Sound
  <1>2. PICK h \in UsedHeaders(s, H) : a = h + Cell /\ Entry(s.mem, held[a], h)
    BY <1>1 DEF Holding
  <1>3. n \in Sizes /\ n >= 0 /\ Asked(n) <= s.mem[h]
    BY <1>2 DEF Entry
  <1>4. Asked(n) \in Int /\ n \in Int /\ n <= Asked(n)
    BY <1>3, AskedNumber
  <1>5. Blocks = BlocksOf(s, H)
    BY <1>1, BlocksLeft, BlocksNow
  <1>6. a \in DOMAIN Blocks /\ q = s.mem[h]
    BY <1>1, <1>2, <1>5, BlocksDomain, BlockLength
  <1>7. /\ h \in Int /\ s.mem[h] \in Int /\ After(s.mem, h) = h + Cell + s.mem[h]
        /\ After(s.mem, h) <= s.brk - Cell
    BY <1>1, UsedBlock
  <1>8. s.brk \in Int /\ s.brk = brk /\ Cell \in Nat \ {0}
    BY <1>1, Constants DEF Left, State
  <1> HIDE DEF s, n, q
  <1>9. q >= n
    BY <1>3, <1>4, <1>6, <1>7
  <1>10. a + Asked(n) < brk
    BY <1>2, <1>3, <1>4, <1>7, <1>8
  <1>11. QED
    BY <1>6, <1>9, <1>10 DEF n, q

(* The blocks tile the arena from its first header to a closing zero in the
   last cell before the break, where the program can call again: no call
   leaves a hole, a header that leads astray or a list without an end
   (alloc.ft: _allocslot, _allocdefrag, allocate, free, resize).            *)
THEOREM ArenaClosed ==
  ASSUME SmallRequests, CatchesThrow = FALSE
  PROVE  AllocatorSpec => []ListClosed
  BY HeapInvariant, HeapClosed, PTL

(* What a program stored in a block it holds stays there, whatever other
   blocks are allocated, freed, joined, split or moved meanwhile, and goes
   with the block where RESIZE moves it (alloc.ft: resize).                 *)
THEOREM StoredDataKept ==
  ASSUME SmallRequests, CatchesThrow = FALSE
  PROVE  AllocatorSpec => []DataKept
  BY HeapInvariant, HeapKept, PTL

(* FREE and RESIZE refuse an address that was given back, until a block covers
   it again, though its header may lie within a free block that was joined
   with others (alloc.ft: _allocsize).                                      *)
THEOREM GivenBackRefused ==
  ASSUME SmallRequests, CatchesThrow = FALSE
  PROVE  AllocatorSpec => []GivenRefused
  BY HeapInvariant, HeapRefuses, PTL

(* The list of blocks implements the heap that the words promise: each call
   gives, moves or takes one block and leaves all the others, with their
   contents; no two blocks overlap; a call that fails changes none.         *)
THEOREM HeapImplemented ==
  ASSUME SmallRequests, CatchesThrow = FALSE
  PROVE  AllocatorSpec => ImplementsHeap
  <1>1. AllocatorInit => AbstractHeap!HeapInit
    BY HeapStart
  <1>2. HeapInv /\ [AllocatorNext]_vars => [AbstractHeap!HeapNext]_AbstractHeap!heapVars
    BY HeapSteps DEF HeapStep
  <1>3. QED
    BY <1>1, <1>2, HeapInvariant, PTL
    DEF AllocatorSpec, ImplementsHeap, AbstractHeap!HeapSpec


(* Cells hold signed cells, the break stays within what the system allows, and
   no call faults: neither the search nor the copy of RESIZE leaves the mapped
   memory (alloc.ft).                                                       *)
THEOREM AllocatorTyped ==
  ASSUME SmallRequests, CatchesThrow = FALSE
  PROVE  AllocatorSpec => [](TypeOK /\ status # "faulted")
  <1>1. HeapInv => TypeOK /\ status # "faulted"
    <2>1. HeapInv => status # "faulted"
      BY DEF HeapInv, Sound
    <2>2. QED
      BY <2>1, HeapTyped
  <1>2. QED
    BY <1>1, HeapInvariant, PTL

(* The program never holds a block of which a byte lies beyond the break: where
   the break cannot be moved, the call does not return (alloc.ft: _allocb).  *)
THEOREM NothingBeyondBreak ==
  ASSUME SmallRequests, CatchesThrow = FALSE
  PROVE  AllocatorSpec => []NoGrantBeyondBreak
  <1>1. HeapInv => NoGrantBeyondBreak
    BY HeldFits DEF NoGrantBeyondBreak
  <1>2. QED
    BY <1>1, HeapInvariant, PTL
=============================================================================
