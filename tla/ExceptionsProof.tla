---------------------------- MODULE ExceptionsProof ----------------------------
(***************************************************************************)
(* Proofs about Exceptions.tla: CATCH and THROW do what Catching promises. *)
(*                                                                         *)
(* The inductive invariant relates the words of host to the return stack:  *)
(* each has its frame there, below the cells that it may use itself, and   *)
(* the frame of a CATCH leads to that of the CATCH around it.              *)
(***************************************************************************)
EXTENDS Exceptions, SequenceTheorems, WellFoundedInduction, TLAPS

Cells   == 1 .. RSize + Reserve
Memory  == [Cells -> Nat]
FileIds == {stdout, stderr, file}
Words   == [kind : {"catch", "redirect"}, base : 0 .. RSize]

Machines ==
  [d : Nat, r : 0 .. RSize, rmem : Memory, f : 0 .. FSize, handler : 0 .. RSize,
   ehflag : BOOLEAN, stackeh : BOOLEAN, out : FileIds, raised : Int]

(* The cells that a word of host has on the return stack. *)
Slots(word) == IF word.kind = "catch" THEN 4 ELSE 2

(* The frames of the words lie one above the other. *)
Stacked(words) ==
  /\ \A i \in DOMAIN words : Slots(words[i]) <= words[i].base
  /\ \A i, j \in DOMAIN words : i < j => words[i].base + Slots(words[j]) <= words[j].base

(* h is the handler while the first n words run: the frame of the last CATCH
   among them, if there is one.                                             *)
Handles(words, n, h) ==
  \/ h = 0 /\ \A k \in 1 .. n : words[k].kind # "catch"
  \/ \E k \in 1 .. n : /\ words[k].kind = "catch" /\ words[k].base = h
                       /\ \A j \in k + 1 .. n : words[j].kind # "catch"

(* What the frame of word i holds. *)
FrameOf(words, mem, i) ==
  LET b == words[i].base IN
  /\ words[i].kind = "catch" =>
       /\ mem[b] = i
       /\ Handles(words, i - 1, mem[b - 1])
       /\ mem[b - 2] \in 0 .. FSize
       /\ mem[b - 3] >= 1 /\ mem[b - 3] + CatchRoom <= DSize
  /\ words[i].kind = "redirect" => mem[b - 1] \in FileIds

Linked(words, mem, h) ==
  /\ Stacked(words)
  /\ \A i \in DOMAIN words : FrameOf(words, mem, i)
  /\ Handles(words, Len(words), h)

(* The cells that belong to the words of host. *)
Owned(words) == IF words = <<>> THEN 0 ELSE words[Len(words)].base

Statuses == {"running", "reporting", "double", "aborted", "quit", "overrun"}

(* The types, with the depths that the data stack may have when an exception
   is under way.                                                            *)
Typed ==
  /\ m \in Machines /\ m.raised = 0
  /\ host \in Seq(Words) /\ redirect \in Seq(FileIds) /\ Len(redirect) = Len(host)
  /\ status \in Statuses
  /\ m.d <= (DSize + Reserve) + 2
  /\ status \in {"running", "reporting", "quit"} => m.d <= DSize + 1
  /\ status = "double" => m.d <= DSize + Reserve

FramesLinked == status = "running" => Linked(host, m.rmem, m.handler)

ExceptionsInv == Typed /\ FlagsDown /\ FramesLinked

-----------------------------------------------------------------------------
(* The chain of handlers, as Exceptions!Frames has it, in any memory. *)

FrameSet == [data : Int, return : Int, float : Nat]

Found(mem, h) == [data |-> mem[h - 3] - 1, return |-> h - 4, float |-> mem[h - 2]]

Chain(mem) ==
  CHOOSE chain : chain = [h \in 0 .. RSize |->
        IF h < 4 \/ mem[h - 1] >= h THEN << >>
        ELSE Append(chain[mem[h - 1]],
                    [data |-> mem[h - 3] - 1, return |-> h - 4, float |-> mem[h - 2]])]

(* Frames is the chain from the handler on, before a step and after it. *)
LEMMA FramesChain ==
  /\ Frames = Chain(m.rmem)[m.handler]
  /\ Frames' = Chain(m'.rmem)[m'.handler]
  BY DEF Frames, Chain

(* The first of some natural numbers. *)
LEMMA LeastNat ==
  ASSUME NEW T \in SUBSET Nat, T # {}
  PROVE  \E x \in T : \A y \in T : x <= y
  <1> DEFINE R == OpToRel(<, Nat)
  <1>1. IsWellFoundedOn(R, Nat)
    BY NatLessThanWellFounded
  <1>2. \A x, y \in Nat : y < x => <<y, x>> \in R
    BY DEF OpToRel
  <1> HIDE DEF R
  <1>3. PICK x \in T : \A y \in T : ~(<<y, x>> \in R)
    BY <1>1, WFMin
  <1>4. ASSUME NEW y \in T PROVE x <= y
    <2>1. x \in Nat /\ y \in Nat
      BY <1>3
    <2>2. ~(y < x)
      BY <2>1, <1>2, <1>3
    <2>3. QED
      BY <2>1, <2>2
  <1>5. QED
    BY <1>3, <1>4

(* What the chain holds at h, in terms of what it holds below. *)
Link(chain, mem, h) ==
  IF h < 4 \/ mem[h - 1] >= h THEN << >> ELSE Append(chain[mem[h - 1]], Found(mem, h))

(* The cells of a frame. *)
LEMMA FrameCells ==
  ASSUME NEW mem \in Memory, NEW h \in 0 .. RSize, ~(h < 4)
  PROVE  /\ h \in Cells /\ h - 1 \in Cells /\ h - 2 \in Cells /\ h - 3 \in Cells
         /\ mem[h] \in Nat /\ mem[h - 1] \in Nat /\ mem[h - 2] \in Nat /\ mem[h - 3] \in Nat
         /\ Found(mem, h) \in FrameSet
  <1>1. RSize \in Nat /\ Reserve \in Nat
    BY ExceptionsAssumption
  <1>2. h \in Cells /\ h - 1 \in Cells /\ h - 2 \in Cells /\ h - 3 \in Cells
    BY <1>1 DEF Cells
  <1>3. mem[h] \in Nat /\ mem[h - 1] \in Nat /\ mem[h - 2] \in Nat /\ mem[h - 3] \in Nat
    BY <1>2 DEF Memory
  <1>4. mem[h - 3] - 1 \in Int /\ h - 4 \in Int
    BY <1>3
  <1>5. QED
    BY <1>2, <1>3, <1>4 DEF Found, FrameSet

(* There is such a chain: a frame leads to one below it. *)
LEMMA ChainUpTo ==
  ASSUME NEW mem \in Memory, NEW n \in 0 .. RSize
  PROVE  \E c \in [0 .. n -> Seq(FrameSet)] : \A h \in 0 .. n : c[h] = Link(c, mem, h)
  <1> DEFINE P(k) == \E c \in [0 .. k -> Seq(FrameSet)] : \A h \in 0 .. k : c[h] = Link(c, mem, h)
             T    == {k \in 0 .. RSize : ~P(k)}
  <1>1. SUFFICES T = {}
    OBVIOUS
  <1>2. SUFFICES ASSUME T # {} PROVE FALSE
    OBVIOUS
  <1>3. RSize \in Nat
    BY ExceptionsAssumption
  <1>4. T \in SUBSET Nat
    BY <1>3
  <1>5. PICK k \in T : \A y \in T : k <= y
    <2> HIDE DEF T
    <2>1. QED
      BY <1>2, <1>4, LeastNat
  <1>6. k \in 0 .. RSize /\ ~P(k) /\ k \in Nat
    BY <1>4, <1>5
  <1>7. PICK c \in [0 .. k - 1 -> Seq(FrameSet)] : \A h \in 0 .. k - 1 : c[h] = Link(c, mem, h)
    <2>1. CASE k = 0
      <3>1. 0 .. k - 1 = {}
        BY <2>1
      <3>2. [h \in 0 .. k - 1 |-> << >>] \in [0 .. k - 1 -> Seq(FrameSet)]
        BY EmptySeq
      <3>3. \A h \in 0 .. k - 1 : FALSE
        BY <3>1
      <3>4. QED
        BY <3>2, <3>3
    <2>2. CASE k # 0
      <3>1. k - 1 \in 0 .. RSize /\ ~(k <= k - 1)
        BY <2>2, <1>3, <1>6
      <3>2. k - 1 \notin T
        BY <3>1, <1>5
      <3>3. P(k - 1)
        BY <3>1, <3>2
      <3>4. QED
        BY <3>3
    <2>3. QED
      BY <2>1, <2>2
  <1> HIDE DEF T
  <1> DEFINE top == Link(c, mem, k)
             d   == [h \in 0 .. k |-> IF h = k THEN top ELSE c[h]]
  <1>8. top \in Seq(FrameSet)
    <2>1. CASE k < 4 \/ mem[k - 1] >= k
      BY <2>1 DEF Link
    <2>2. CASE ~(k < 4 \/ mem[k - 1] >= k)
      <3>1. mem[k - 1] \in Nat /\ Found(mem, k) \in FrameSet
        BY <2>2, <1>6, FrameCells
      <3>2. mem[k - 1] \in 0 .. k - 1
        BY <2>2, <3>1, <1>6
      <3>3. c[mem[k - 1]] \in Seq(FrameSet)
        BY <3>2
      <3>4. Append(c[mem[k - 1]], Found(mem, k)) \in Seq(FrameSet)
        BY <3>1, <3>3, AppendProperties
      <3>5. QED
        BY <2>2, <3>4 DEF Link
    <2>3. QED
      BY <2>1, <2>2
  <1>9. \A h \in 0 .. k : h # k => h \in 0 .. k - 1
    BY <1>6
  <1> HIDE DEF top
  <1>10. d \in [0 .. k -> Seq(FrameSet)]
    BY <1>8, <1>9
  <1>11. \A h \in 0 .. k : ~(h < 4 \/ mem[h - 1] >= h) =>
           mem[h - 1] \in 0 .. k /\ mem[h - 1] # k
    <2>1. SUFFICES ASSUME NEW h \in 0 .. k, ~(h < 4), ~(mem[h - 1] >= h)
                   PROVE  mem[h - 1] \in 0 .. k /\ mem[h - 1] # k
      OBVIOUS
    <2>2. h \in 0 .. RSize
      BY <1>3, <1>6
    <2>3. mem[h - 1] \in Nat
      BY <2>1, <2>2, FrameCells
    <2>4. QED
      BY <2>1, <2>3, <1>6
  <1>12. \A h \in 0 .. k : Link(d, mem, h) = Link(c, mem, h)
    BY <1>11 DEF Link
  <1>13. \A h \in 0 .. k : d[h] = Link(d, mem, h)
    BY <1>7, <1>9, <1>12 DEF top
  <1> HIDE DEF d
  <1>14. P(k)
    BY <1>10, <1>13
  <1>15. QED
    BY <1>6, <1>14

(* The chain is what it is defined to be, at each place of the return stack. *)
LEMMA ChainUnfold ==
  ASSUME NEW mem \in Memory
  PROVE  /\ Chain(mem) \in [0 .. RSize -> Seq(FrameSet)]
         /\ \A h \in 0 .. RSize : Chain(mem)[h] = Link(Chain(mem), mem, h)
  <1> DEFINE Body(c) == [h \in 0 .. RSize |-> Link(c, mem, h)]
  <1>1. Chain(mem) = CHOOSE c : c = Body(c)
    BY DEF Chain, Link, Found
  <1>2. RSize \in 0 .. RSize
    BY ExceptionsAssumption
  <1>3. PICK c \in [0 .. RSize -> Seq(FrameSet)] : \A h \in 0 .. RSize : c[h] = Link(c, mem, h)
    BY <1>2, ChainUpTo
  <1>4. c = Body(c)
    BY <1>3
  <1>5. Chain(mem) = Body(Chain(mem))
    <2> HIDE DEF Body
    <2>1. QED
      BY <1>1, <1>4
  <1>6. \A h \in 0 .. RSize : Chain(mem)[h] = Link(Chain(mem), mem, h)
    BY <1>5
  <1>7. \A h \in 0 .. RSize : Chain(mem)[h] \in Seq(FrameSet)
    <2> DEFINE T == {h \in 0 .. RSize : Chain(mem)[h] \notin Seq(FrameSet)}
    <2>1. SUFFICES ASSUME T # {} PROVE FALSE
      OBVIOUS
    <2>2. T \in SUBSET Nat
      BY ExceptionsAssumption
    <2>3. PICK h \in T : \A y \in T : h <= y
      <3> HIDE DEF T
      <3>1. QED
        BY <2>1, <2>2, LeastNat
    <2>4. h \in 0 .. RSize /\ h \in Nat /\ Chain(mem)[h] \notin Seq(FrameSet)
      BY <2>2, <2>3
    <2>5. CASE h < 4 \/ mem[h - 1] >= h
      <3>1. Link(Chain(mem), mem, h) = << >>
        BY <2>5 DEF Link
      <3>2. << >> \in Seq(FrameSet)
        BY EmptySeq
      <3>3. QED
        BY <2>4, <3>1, <3>2, <1>6
    <2>6. CASE ~(h < 4 \/ mem[h - 1] >= h)
      <3>1. mem[h - 1] \in Nat /\ Found(mem, h) \in FrameSet
        BY <2>4, <2>6, FrameCells
      <3>2. mem[h - 1] \in 0 .. RSize /\ ~(h <= mem[h - 1])
        <4>1. ~(mem[h - 1] >= h) /\ RSize \in Nat
          BY <2>6, ExceptionsAssumption
        <4>2. QED
          BY <3>1, <2>4, <4>1
      <3>3. mem[h - 1] \notin T
        BY <3>2, <2>3
      <3>4. Chain(mem)[mem[h - 1]] \in Seq(FrameSet)
        BY <3>2, <3>3
      <3>5. Append(Chain(mem)[mem[h - 1]], Found(mem, h)) \in Seq(FrameSet)
        BY <3>1, <3>4, AppendProperties
      <3>6. QED
        BY <2>4, <2>6, <3>5, <1>6 DEF Link
    <2>7. QED
      BY <2>5, <2>6
  <1>8. DOMAIN Chain(mem) = 0 .. RSize /\ Chain(mem) = [h \in DOMAIN Chain(mem) |-> Chain(mem)[h]]
    BY <1>5
  <1>9. QED
    BY <1>6, <1>7, <1>8

(* Where the frames of the words are. *)
LEMMA Bases ==
  ASSUME NEW words \in Seq(Words), Stacked(words), NEW i \in DOMAIN words
  PROVE  /\ i \in 1 .. Len(words) /\ i \in Nat /\ Len(words) \in Nat
         /\ words[i] \in Words /\ words[i].base \in 0 .. RSize
         /\ words[i].kind = "catch" => words[i].base >= 4
         /\ words[i].kind # "catch" => words[i].base >= 2 /\ words[i].kind = "redirect"
         /\ words[i].base <= Owned(words)
  <1>1. Len(words) \in Nat /\ DOMAIN words = 1 .. Len(words) /\ i \in 1 .. Len(words) /\ i \in Nat
    BY LenProperties
  <1>2. words[i] \in Words
    BY <1>1, ElementOfSeq
  <1>3. words[i].kind \in {"catch", "redirect"} /\ words[i].base \in 0 .. RSize
    BY <1>2 DEF Words
  <1>4. Slots(words[i]) <= words[i].base
    BY DEF Stacked
  <1>5. words[i].kind = "catch" => words[i].base >= 4
    BY <1>3, <1>4 DEF Slots
  <1>6. words[i].kind # "catch" => words[i].base >= 2
    BY <1>3, <1>4 DEF Slots
  <1>7. words # << >>
    BY <1>1
  <1>8. words[i].base <= Owned(words)
    <2>1. Len(words) \in DOMAIN words
      BY <1>1
    <2>2. Owned(words) = words[Len(words)].base
      BY <1>7 DEF Owned
    <2>3. CASE i = Len(words)
      BY <2>2, <2>3, <1>3
    <2>4. CASE i # Len(words)
      <3>1. i < Len(words)
        BY <2>4, <1>1
      <3>2. words[i].base + Slots(words[Len(words)]) <= words[Len(words)].base
        BY <3>1, <2>1 DEF Stacked
      <3>3. words[Len(words)] \in Words
        BY <2>1, <1>1, ElementOfSeq
      <3>4. words[Len(words)].base \in Nat /\ Slots(words[Len(words)]) \in Nat
        BY <3>3 DEF Words, Slots
      <3>5. words[i].base \in Nat
        BY <1>3
      <3>6. QED
        BY <2>2, <3>2, <3>4, <3>5
    <2>5. QED
      BY <2>3, <2>4
  <1>9. QED
    BY <1>1, <1>2, <1>3, <1>5, <1>6, <1>8

(* A handler is 0 or the frame of a CATCH. *)
LEMMA HandlerRange ==
  ASSUME NEW words \in Seq(Words), Stacked(words), NEW n \in 0 .. Len(words), NEW h,
         Handles(words, n, h)
  PROVE  /\ h \in 0 .. RSize
         /\ h # 0 => \E k \in 1 .. n : /\ k \in DOMAIN words /\ words[k].kind = "catch"
                                       /\ words[k].base = h /\ h >= 4 /\ h <= Owned(words)
                                       /\ \A j \in k + 1 .. n : words[j].kind # "catch"
  <1>1. CASE h = 0
    BY <1>1, ExceptionsAssumption
  <1>2. CASE h # 0
    <2>1. PICK k \in 1 .. n : /\ words[k].kind = "catch" /\ words[k].base = h
                              /\ \A j \in k + 1 .. n : words[j].kind # "catch"
      BY <1>2 DEF Handles
    <2>2. DOMAIN words = 1 .. Len(words) /\ Len(words) \in Nat
      BY LenProperties
    <2>3. k \in DOMAIN words
      BY <2>2
    <2>4. words[k].base \in 0 .. RSize /\ words[k].base >= 4 /\ words[k].base <= Owned(words)
      BY <2>1, <2>3, Bases
    <2>5. QED
      BY <2>1, <2>3, <2>4
  <1>3. QED
    BY <1>1, <1>2

(* What a memory holds above the words' cells does not matter to the chain. *)
LEMMA ChainSame ==
  ASSUME NEW words \in Seq(Words), Stacked(words), NEW mem \in Memory, NEW mem2 \in Memory,
         \A i \in DOMAIN words : FrameOf(words, mem, i),
         \A c \in 1 .. Owned(words) : mem2[c] = mem[c],
         NEW n \in 0 .. Len(words), NEW h, Handles(words, n, h)
  PROVE  Chain(mem2)[h] = Chain(mem)[h]
  <1> DEFINE T == {x \in 0 .. RSize : /\ \E k \in 0 .. Len(words) : Handles(words, k, x)
                                      /\ Chain(mem2)[x] # Chain(mem)[x]}
  <1>1. SUFFICES ASSUME T # {} PROVE FALSE
    BY HandlerRange
  <1>2. T \in SUBSET Nat
    BY ExceptionsAssumption
  <1>3. PICK x \in T : \A y \in T : x <= y
    <2> HIDE DEF T
    <2>1. QED
      BY <1>1, <1>2, LeastNat
  <1>4. x \in 0 .. RSize /\ x \in Nat /\ Chain(mem2)[x] # Chain(mem)[x]
    BY <1>2, <1>3
  <1>5. PICK k \in 0 .. Len(words) : Handles(words, k, x)
    BY <1>3
  <1>6. /\ Chain(mem)[x] = Link(Chain(mem), mem, x)
        /\ Chain(mem2)[x] = Link(Chain(mem2), mem2, x)
    BY <1>4, ChainUnfold
  <1>7. CASE x < 4
    BY <1>4, <1>6, <1>7 DEF Link
  <1>8. CASE ~(x < 4)
    <2>1. PICK i \in 1 .. k : /\ i \in DOMAIN words /\ words[i].kind = "catch"
                              /\ words[i].base = x /\ x <= Owned(words)
      <3>1. x # 0
        BY <1>8
      <3>2. QED
        BY <3>1, <1>5, HandlerRange
    <2>2. Handles(words, i - 1, mem[x - 1])
      BY <2>1 DEF FrameOf
    <2>3. i - 1 \in 0 .. Len(words)
      <3>1. i \in Nat /\ i \in 1 .. Len(words) /\ Len(words) \in Nat
        BY <2>1, Bases
      <3>2. QED
        BY <3>1
    <2>4. /\ x - 1 \in 1 .. Owned(words) /\ x - 2 \in 1 .. Owned(words) /\ x - 3 \in 1 .. Owned(words)
      <3>1. Owned(words) \in Nat
        <4>1. words # << >> /\ Len(words) \in DOMAIN words
          <5>1. i \in 1 .. Len(words) /\ Len(words) \in Nat /\ DOMAIN words = 1 .. Len(words)
            BY <2>1, LenProperties
          <5>2. QED
            BY <5>1
        <4>2. words[Len(words)].base \in 0 .. RSize
          BY <4>1, Bases
        <4>3. QED
          BY <4>1, <4>2 DEF Owned
      <3>2. x >= 4 /\ x <= Owned(words)
        BY <1>4, <1>8, <2>1
      <3>3. QED
        BY <3>1, <3>2, <1>4
    <2>5. mem2[x - 1] = mem[x - 1] /\ mem2[x - 2] = mem[x - 2] /\ mem2[x - 3] = mem[x - 3]
      BY <2>4
    <2>6. Found(mem2, x) = Found(mem, x)
      BY <2>5 DEF Found
    <2>7. mem[x - 1] \in Nat
      BY <1>4, <1>8, FrameCells
    <2>8. ~(mem[x - 1] >= x) => Chain(mem2)[mem[x - 1]] = Chain(mem)[mem[x - 1]]
      <3>1. SUFFICES ASSUME ~(mem[x - 1] >= x) PROVE mem[x - 1] \notin T /\ mem[x - 1] \in 0 .. RSize
        BY <2>2, <2>3
      <3>2. ~(x <= mem[x - 1])
        BY <3>1, <2>7, <1>4
      <3>3. mem[x - 1] \notin T
        BY <3>2, <1>3
      <3>4. QED
        BY <3>3, <2>2, <2>3, HandlerRange
    <2>9. QED
      BY <1>4, <1>6, <2>5, <2>6, <2>8 DEF Link
  <1>9. QED
    BY <1>7, <1>8

(* The handler in a frame is below it. *)
LEMMA HandlerBelow ==
  ASSUME NEW words \in Seq(Words), Stacked(words), NEW mem \in Memory, NEW k \in DOMAIN words,
         FrameOf(words, mem, k), words[k].kind = "catch"
  PROVE  LET h == words[k].base IN mem[h - 1] \in 0 .. RSize /\ mem[h - 1] < h
  <1> DEFINE h == words[k].base
             g == mem[h - 1]
  <1>1. DOMAIN words = 1 .. Len(words) /\ Len(words) \in Nat
    BY LenProperties
  <1>2. Handles(words, k - 1, g)
    BY DEF FrameOf
  <1>3. h \in 0 .. RSize /\ h >= 4 /\ Slots(words[k]) = 4
    BY Bases DEF Slots
  <1>4. k - 1 \in 0 .. Len(words)
    BY <1>1
  <1>5. g \in 0 .. RSize
    BY <1>2, <1>4, HandlerRange
  <1>6. g < h
    <2>1. CASE g = 0
      BY <2>1, <1>3
    <2>2. CASE g # 0
      <3>1. PICK i \in 1 .. k - 1 : i \in DOMAIN words /\ words[i].base = g
        BY <1>2, <1>4, <2>2, HandlerRange
      <3>2. i < k
        BY <1>1, <3>1
      <3>3. g + 4 <= h
        BY <1>3, <3>1, <3>2 DEF Stacked
      <3>4. RSize \in Nat
        BY ExceptionsAssumption
      <3>5. QED
        BY <1>3, <1>5, <3>3, <3>4
    <2>3. QED
      BY <2>1, <2>2
  <1>7. QED
    BY <1>5, <1>6

(* The calls of CATCH among the first n words, and the frames for them. *)
Catches(words, n) == {i \in 1 .. n : words[i].kind = "catch"}

InStep(words, n, chain) ==
  /\ {chain[j].return : j \in DOMAIN chain} = {words[i].base - 4 : i \in Catches(words, n)}
  /\ \A j, k \in DOMAIN chain : j < k => chain[j].return < chain[k].return

(* The frame of a CATCH comes after those of the calls that it lies within. *)
LEMMA InStepAppend ==
  ASSUME NEW words \in Seq(Words), Stacked(words), NEW n \in 0 .. Len(words), NEW i \in 1 .. n,
         words[i].kind = "catch", \A j \in i + 1 .. n : words[j].kind # "catch",
         NEW chain \in Seq(FrameSet), InStep(words, i - 1, chain),
         NEW f \in FrameSet, f.return = words[i].base - 4
  PROVE  InStep(words, n, Append(chain, f))
  <1> DEFINE all == Append(chain, f)
             c   == Len(chain)
  <1>1. /\ c \in Nat /\ DOMAIN chain = 1 .. c /\ all \in Seq(FrameSet) /\ Len(all) = c + 1
        /\ all[c + 1] = f /\ \A j \in 1 .. c : all[j] = chain[j]
    BY AppendProperties, LenProperties
  <1>2. DOMAIN all = 1 .. c + 1 /\ \A j \in 1 .. c + 1 : j \in 1 .. c \/ j = c + 1
    BY <1>1, LenProperties
  <1> HIDE DEF all, c
  <1>3. Len(words) \in Nat /\ DOMAIN words = 1 .. Len(words) /\ n \in Nat /\ i \in Nat
    BY LenProperties
  <1>4. Catches(words, n) = Catches(words, i - 1) \cup {i}
    <2>1. \A j \in 1 .. n : j \in 1 .. i - 1 \/ j = i \/ j \in i + 1 .. n
      BY <1>3
    <2>2. \A j \in 1 .. i - 1 : j \in 1 .. n
      BY <1>3
    <2>3. QED
      BY <2>1, <2>2 DEF Catches
  <1>5. \A j \in 1 .. c : \E k \in Catches(words, i - 1) : chain[j].return = words[k].base - 4
    BY <1>1 DEF InStep
  <1>6. \A j \in 1 .. c : chain[j].return < f.return
    <2>1. SUFFICES ASSUME NEW j \in 1 .. c PROVE chain[j].return < f.return
      OBVIOUS
    <2>2. PICK k \in Catches(words, i - 1) : chain[j].return = words[k].base - 4
      BY <1>5
    <2>3. k \in DOMAIN words /\ i \in DOMAIN words /\ k < i
      BY <1>3 DEF Catches
    <2>4. words[k].base + 4 <= words[i].base
      <3>1. Slots(words[i]) = 4
        BY DEF Slots
      <3>2. QED
        BY <2>3, <3>1 DEF Stacked
    <2>5. words[k].base \in Nat /\ words[i].base \in Nat
      BY <2>3, Bases
    <2>6. words[k].base - 4 < words[i].base - 4
      <3>1. \A x, y \in Nat : x + 4 <= y => x - 4 < y - 4
        OBVIOUS
      <3>2. QED
        BY <2>4, <2>5, <3>1
    <2>7. QED
      BY <2>2, <2>6
  <1>7. {all[j].return : j \in DOMAIN all} = {words[k].base - 4 : k \in Catches(words, n)}
    <2>1. {all[j].return : j \in DOMAIN all} = {chain[j].return : j \in DOMAIN chain} \cup {f.return}
      <3>1. \A j \in 1 .. c : j \in 1 .. c + 1
        BY <1>1
      <3>2. c + 1 \in 1 .. c + 1
        BY <1>1
      <3>3. QED
        BY <1>1, <1>2, <3>1, <3>2, SMTT(30)
    <2>2. {words[k].base - 4 : k \in Catches(words, n)}
          = {words[k].base - 4 : k \in Catches(words, i - 1)} \cup {words[i].base - 4}
      BY <1>4
    <2>3. QED
      BY <2>1, <2>2 DEF InStep
  <1>8. ASSUME NEW j \in DOMAIN all, NEW k \in DOMAIN all, j < k
        PROVE  all[j].return < all[k].return
    <2>1. j \in 1 .. c
      BY <1>1, <1>2, <1>8
    <2>2. CASE k \in 1 .. c
      BY <1>1, <1>8, <2>1, <2>2 DEF InStep
    <2>3. CASE k = c + 1
      BY <1>1, <1>6, <2>1, <2>3
    <2>4. QED
      BY <1>2, <2>2, <2>3
  <1>9. QED
    BY <1>7, <1>8 DEF InStep, all

(* The chain of a handler has a frame for each CATCH before it, and no other. *)
LEMMA ChainInStep ==
  ASSUME NEW words \in Seq(Words), Stacked(words), NEW mem \in Memory,
         \A i \in DOMAIN words : FrameOf(words, mem, i),
         NEW n \in 0 .. Len(words), NEW h, Handles(words, n, h)
  PROVE  InStep(words, n, Chain(mem)[h])
  <1> DEFINE T == {x \in 0 .. RSize : \E k \in 0 .. Len(words) :
                     Handles(words, k, x) /\ ~InStep(words, k, Chain(mem)[x])}
  <1>1. SUFFICES ASSUME T # {} PROVE FALSE
    BY HandlerRange
  <1>2. T \in SUBSET Nat
    BY ExceptionsAssumption
  <1>3. PICK x \in T : \A y \in T : x <= y
    <2> HIDE DEF T
    <2>1. QED
      BY <1>1, <1>2, LeastNat
  <1>4. x \in 0 .. RSize /\ x \in Nat
    BY <1>2, <1>3
  <1>5. PICK k \in 0 .. Len(words) : Handles(words, k, x) /\ ~InStep(words, k, Chain(mem)[x])
    BY <1>3
  <1>6. Chain(mem)[x] = Link(Chain(mem), mem, x)
    BY <1>4, ChainUnfold
  <1>7. CASE x = 0
    <2>1. Chain(mem)[x] = << >> /\ DOMAIN Chain(mem)[x] = {}
      BY <1>4, <1>6, <1>7 DEF Link
    <2>2. Catches(words, k) = {}
      <3>1. \A i \in 1 .. k : i \in DOMAIN words
        BY LenProperties
      <3>2. \A i \in 1 .. k : words[i].kind = "catch" => words[i].base # 0
        BY <3>1, Bases
      <3>3. QED
        BY <1>5, <1>7, <3>2 DEF Handles, Catches
    <2>3. QED
      BY <1>5, <2>1, <2>2 DEF InStep
  <1>8. CASE x # 0
    <2>1. PICK i \in 1 .. k : /\ i \in DOMAIN words /\ words[i].kind = "catch"
                              /\ words[i].base = x /\ x >= 4
                              /\ \A j \in i + 1 .. k : words[j].kind # "catch"
      BY <1>5, <1>8, HandlerRange
    <2> DEFINE g == mem[x - 1]
    <2>2. Handles(words, i - 1, g) /\ g \in 0 .. RSize /\ g < x
      BY <2>1, HandlerBelow DEF FrameOf
    <2>3. i - 1 \in 0 .. Len(words)
      <3>1. i \in Nat /\ i \in 1 .. Len(words) /\ Len(words) \in Nat
        BY <2>1, Bases
      <3>2. QED
        BY <3>1
    <2> HIDE DEF g
    <2>4. ~(x <= g) /\ RSize \in Nat
      BY <1>4, <2>2, ExceptionsAssumption
    <2>5. g \notin T
      BY <1>3, <2>4
    <2>6. InStep(words, i - 1, Chain(mem)[g])
      BY <2>2, <2>3, <2>5
    <2>7. ~(x < 4) /\ ~(g >= x)
      BY <1>4, <2>1, <2>2, <2>4
    <2>8. Chain(mem)[x] = Append(Chain(mem)[g], Found(mem, x))
      BY <1>6, <2>7 DEF Link, g
    <2>9. Chain(mem)[g] \in Seq(FrameSet) /\ Found(mem, x) \in FrameSet
      BY <1>4, <2>2, <2>7, ChainUnfold, FrameCells
    <2>10. Found(mem, x).return = words[i].base - 4
      BY <2>1 DEF Found
    <2>11. InStep(words, k, Chain(mem)[x])
      BY <2>1, <2>6, <2>8, <2>9, <2>10, InStepAppend
    <2>12. QED
      BY <1>5, <2>11
  <1>9. QED
    BY <1>7, <1>8

(* Handlers do not depend on the words that began later, nor on their number. *)
LEMMA HandlesPrefix ==
  ASSUME NEW words, NEW others, NEW n \in Nat, NEW h,
         \A i \in 1 .. n : others[i] = words[i], Handles(words, n, h)
  PROVE  Handles(others, n, h)
  <1>1. CASE h = 0 /\ \A k \in 1 .. n : words[k].kind # "catch"
    BY <1>1 DEF Handles
  <1>2. CASE \E k \in 1 .. n : /\ words[k].kind = "catch" /\ words[k].base = h
                               /\ \A j \in k + 1 .. n : words[j].kind # "catch"
    <2>1. PICK k \in 1 .. n : /\ words[k].kind = "catch" /\ words[k].base = h
                              /\ \A j \in k + 1 .. n : words[j].kind # "catch"
      BY <1>2
    <2>2. \A j \in k + 1 .. n : j \in 1 .. n
      OBVIOUS
    <2>3. \A j \in k + 1 .. n : others[j].kind # "catch"
      BY <2>1, <2>2
    <2>4. QED
      BY <2>1, <2>3 DEF Handles
  <1>3. QED
    BY <1>1, <1>2 DEF Handles

(* A frame depends on nothing above it. *)
LEMMA FrameSame ==
  ASSUME NEW words \in Seq(Words), Stacked(words), NEW others, NEW mem \in Memory, NEW mem2 \in Memory,
         NEW i \in DOMAIN words, \A j \in 1 .. i : others[j] = words[j],
         \A c \in 1 .. Owned(words) : mem2[c] = mem[c], FrameOf(words, mem, i)
  PROVE  FrameOf(others, mem2, i)
  <1> DEFINE b == words[i].base
  <1>1. /\ i \in 1 .. Len(words) /\ i \in Nat /\ b \in 0 .. RSize /\ b <= Owned(words)
        /\ words[i].kind = "catch" => b >= 4
        /\ words[i].kind # "catch" => b >= 2
    BY Bases
  <1>2. others[i] = words[i] /\ \A j \in 1 .. i - 1 : others[j] = words[j]
    BY <1>1
  <1>3. Owned(words) \in Int
    <2>1. Len(words) \in DOMAIN words /\ words # << >>
      BY <1>1, LenProperties
    <2>2. words[Len(words)].base \in 0 .. RSize
      BY <2>1, Bases
    <2>3. QED
      BY <2>1, <2>2 DEF Owned
  <1> HIDE DEF b
  <1>4. CASE words[i].kind = "catch"
    <2>1. /\ b \in 1 .. Owned(words) /\ b - 1 \in 1 .. Owned(words)
          /\ b - 2 \in 1 .. Owned(words) /\ b - 3 \in 1 .. Owned(words)
      BY <1>1, <1>3, <1>4
    <2>2. mem2[b] = mem[b] /\ mem2[b - 1] = mem[b - 1] /\ mem2[b - 2] = mem[b - 2]
          /\ mem2[b - 3] = mem[b - 3]
      BY <2>1
    <2>3. /\ mem[b] = i /\ Handles(words, i - 1, mem[b - 1]) /\ mem[b - 2] \in 0 .. FSize
          /\ mem[b - 3] >= 1 /\ mem[b - 3] + CatchRoom <= DSize
      BY <1>4 DEF FrameOf, b
    <2>4. i - 1 \in Nat
      BY <1>1
    <2>5. Handles(others, i - 1, mem[b - 1])
      BY <1>2, <2>3, <2>4, HandlesPrefix
    <2>6. QED
      BY <1>2, <1>4, <2>2, <2>3, <2>5 DEF FrameOf, b
  <1>5. CASE words[i].kind # "catch"
    <2>1. b - 1 \in 1 .. Owned(words)
      BY <1>1, <1>3, <1>5
    <2>2. mem2[b - 1] = mem[b - 1]
      BY <2>1
    <2>3. QED
      BY <1>2, <1>5, <2>2 DEF FrameOf, b
  <1>6. QED
    BY <1>4, <1>5

(* Writing above the words' cells keeps their frames. *)
LEMMA LinkedSame ==
  ASSUME NEW words \in Seq(Words), NEW mem \in Memory, NEW mem2 \in Memory, NEW h,
         Linked(words, mem, h), \A c \in 1 .. Owned(words) : mem2[c] = mem[c]
  PROVE  Linked(words, mem2, h)
  <1>1. \A i \in DOMAIN words : FrameOf(words, mem2, i)
    BY FrameSame DEF Linked
  <1>2. QED
    BY <1>1 DEF Linked

(* The words that go on when the last of them are cut off. *)
LEMMA LinkedPrefix ==
  ASSUME NEW words \in Seq(Words), NEW mem \in Memory, NEW h, Linked(words, mem, h),
         NEW n \in 0 .. Len(words), NEW g, Handles(words, n, g)
  PROVE  /\ SubSeq(words, 1, n) \in Seq(Words) /\ Len(SubSeq(words, 1, n)) = n
         /\ Linked(SubSeq(words, 1, n), mem, g)
  <1> DEFINE sub == SubSeq(words, 1, n)
  <1>1. /\ sub \in Seq(Words) /\ Len(sub) = n /\ DOMAIN sub = 1 .. n
        /\ \A i \in 1 .. n : sub[i] = words[i] /\ i \in DOMAIN words
        /\ n \in Nat
    <2>1. Len(words) \in Nat /\ DOMAIN words = 1 .. Len(words)
      BY LenProperties
    <2>2. QED
      BY <2>1
  <1> HIDE DEF sub
  <1>2. Stacked(sub)
    BY <1>1 DEF Stacked, Linked
  <1>3. \A i \in DOMAIN sub : FrameOf(sub, mem, i)
    <2>1. SUFFICES ASSUME NEW i \in DOMAIN sub PROVE FrameOf(sub, mem, i)
      OBVIOUS
    <2>2. i \in DOMAIN words /\ i \in Nat /\ i \in 1 .. n
      BY <1>1
    <2>3. \A j \in 1 .. i : sub[j] = words[j]
      BY <2>2, <1>1
    <2>4. QED
      BY <2>2, <2>3, FrameSame DEF Linked
  <1>4. Handles(sub, n, g)
    BY <1>1, HandlesPrefix
  <1>5. QED
    BY <1>1, <1>2, <1>3, <1>4 DEF Linked, sub

(* Another word begins, with its frame above the others. *)
LEMMA LinkedGrown ==
  ASSUME NEW words \in Seq(Words), NEW mem \in Memory, NEW mem2 \in Memory, NEW h, NEW g,
         Linked(words, mem, h), \A c \in 1 .. Owned(words) : mem2[c] = mem[c],
         NEW e \in Words, Owned(words) + Slots(e) <= e.base,
         e.kind = "catch" =>
           /\ mem2[e.base] = Len(words) + 1 /\ mem2[e.base - 1] = h
           /\ mem2[e.base - 2] \in 0 .. FSize
           /\ mem2[e.base - 3] >= 1 /\ mem2[e.base - 3] + CatchRoom <= DSize
           /\ g = e.base,
         e.kind = "redirect" => mem2[e.base - 1] \in FileIds /\ g = h
  PROVE  /\ Append(words, e) \in Seq(Words) /\ Linked(Append(words, e), mem2, g)
  <1> DEFINE all == Append(words, e)
             n   == Len(words)
  <1>1. /\ all \in Seq(Words) /\ Len(all) = n + 1 /\ n \in Nat /\ DOMAIN words = 1 .. n
        /\ DOMAIN all = 1 .. n + 1 /\ all[n + 1] = e
        /\ \A i \in 1 .. n : all[i] = words[i]
    BY LenProperties, AppendProperties
  <1> HIDE DEF all, n
  <1>2. Stacked(words)
    BY DEF Linked
  <1>3. Owned(words) \in Nat
    <2>1. CASE words = << >>
      BY <2>1 DEF Owned
    <2>2. CASE words # << >>
      <3>1. n \in DOMAIN words
        BY <2>2, <1>1, EmptySeq DEF n
      <3>2. words[n].base \in 0 .. RSize
        BY <3>1, <1>2, Bases
      <3>3. QED
        BY <2>2, <3>2 DEF Owned, n
    <2>3. QED
      BY <2>1, <2>2
  <1>4. Slots(e) \in Nat /\ e.base \in Nat /\ e.kind \in {"catch", "redirect"}
    BY DEF Slots, Words
  <1>5. Slots(e) <= e.base
    BY <1>3, <1>4
  <1>6. ASSUME NEW i \in 1 .. n PROVE words[i].base + Slots(e) <= e.base
    <2>1. words[i].base \in 0 .. RSize /\ words[i].base <= Owned(words)
      BY <1>1, <1>2, Bases
    <2>2. QED
      BY <2>1, <1>3, <1>4
  <1>7. \A i \in 1 .. n + 1 : i \in 1 .. n \/ i = n + 1
    BY <1>1
  <1>8. Stacked(all)
    <2>1. \A i \in DOMAIN all : Slots(all[i]) <= all[i].base
      BY <1>1, <1>2, <1>5, <1>7 DEF Stacked
    <2>2. ASSUME NEW i \in DOMAIN all, NEW j \in DOMAIN all, i < j
          PROVE  all[i].base + Slots(all[j]) <= all[j].base
      <3>1. i \in 1 .. n
        BY <2>2, <1>1
      <3>2. CASE j \in 1 .. n
        BY <3>1, <3>2, <2>2, <1>1, <1>2 DEF Stacked
      <3>3. CASE j = n + 1
        BY <3>1, <3>3, <1>1, <1>6
      <3>4. QED
        BY <3>2, <3>3, <1>1, <1>7
    <2>3. QED
      BY <2>1, <2>2 DEF Stacked
  <1>9. \A i \in 1 .. n : FrameOf(all, mem2, i)
    <2>1. SUFFICES ASSUME NEW i \in 1 .. n PROVE FrameOf(all, mem2, i)
      OBVIOUS
    <2>2. i \in DOMAIN words /\ \A j \in 1 .. i : all[j] = words[j]
      BY <1>1
    <2>3. FrameOf(words, mem, i)
      BY <2>2 DEF Linked
    <2>4. QED
      BY <1>2, <2>2, <2>3, FrameSame
  <1>10. Handles(words, n, h)
    BY DEF Linked, n
  <1>11. Handles(all, n, h)
    BY <1>1, <1>10, HandlesPrefix
  <1>12. (n + 1) - 1 = n
    BY <1>1
  <1>13. FrameOf(all, mem2, n + 1)
    BY <1>1, <1>11, <1>12 DEF FrameOf, n
  <1>14. Handles(all, n + 1, g)
    <2>1. CASE e.kind = "catch"
      <3>1. n + 1 \in 1 .. n + 1 /\ \A j \in (n + 1) + 1 .. n + 1 : FALSE
        BY <1>1
      <3>2. QED
        BY <2>1, <3>1, <1>1 DEF Handles
    <2>2. CASE e.kind # "catch"
      <3>1. g = h
        BY <2>2, <1>4
      <3>2. CASE h = 0 /\ \A k \in 1 .. n : all[k].kind # "catch"
        BY <2>2, <3>1, <3>2, <1>1, <1>7 DEF Handles
      <3>3. CASE \E k \in 1 .. n : /\ all[k].kind = "catch" /\ all[k].base = h
                                   /\ \A j \in k + 1 .. n : all[j].kind # "catch"
        <4>1. PICK k \in 1 .. n : /\ all[k].kind = "catch" /\ all[k].base = h
                                  /\ \A j \in k + 1 .. n : all[j].kind # "catch"
          BY <3>3
        <4>2. k \in 1 .. n + 1 /\ \A j \in k + 1 .. n + 1 : j \in k + 1 .. n \/ j = n + 1
          BY <1>1
        <4>3. \A j \in k + 1 .. n + 1 : all[j].kind # "catch"
          BY <4>1, <4>2, <2>2, <1>1
        <4>4. QED
          BY <4>1, <4>2, <4>3, <3>1 DEF Handles
      <3>4. QED
        BY <3>2, <3>3, <1>11 DEF Handles
    <2>3. QED
      BY <2>1, <2>2
  <1>15. QED
    BY <1>1, <1>7, <1>8, <1>9, <1>13, <1>14 DEF Linked, all

-----------------------------------------------------------------------------
(* The steps of words. *)

(* A machine between two steps of a word. *)
Sound(s) ==
  s \in Machines /\ ~s.ehflag /\ ~s.stackeh /\ s.raised = 0 /\ s.d <= DSize

(* t is s with an exception raised in a step. *)
Stops(s, t) ==
  /\ t \in Machines /\ t.raised # 0 /\ ~t.ehflag /\ t.d <= DSize + 1
  /\ ~t.stackeh => t.d <= DSize
  /\ t.rmem = s.rmem /\ t.handler = s.handler

(* The same, by another step than one that takes from the return stack. *)
Raises(s, t) == Stops(s, t) /\ t.raised # ReturnStackUnderflow

(* Once an exception is raised the steps that follow do nothing. *)
LEMMA StepsStop ==
  ASSUME NEW t, t.raised # 0
  PROVE  /\ \A k : Peak(t, k) = t /\ Restore(t, k) = t
         /\ _dpush(t) = t /\ _dpop(t) = t /\ _rpop(t) = t
         /\ \A v : _rpush(t, v) = t
         /\ \A k, v : Save(t, k, v) = t
  <1>1. ~Running(t)
    BY DEF Running
  <1>2. \A k : Peak(t, k) = t
    BY <1>1 DEF Peak
  <1>3. _dpop(t) = t /\ _rpop(t) = t /\ \A v : _rpush(t, v) = t
    BY <1>1 DEF _dpop, _rpop, _rpush
  <1>4. _dpush(t) = t
    BY <1>1, <1>2 DEF _dpush
  <1>5. QED
    BY <1>2, <1>3, <1>4 DEF Restore, Save

(* A machine with fields changed is one. *)
LEMMA MachineWith ==
  ASSUME NEW s \in Machines
  PROVE  /\ \A x \in Nat : [s EXCEPT !.d = x] \in Machines
         /\ \A x \in 0 .. RSize : [s EXCEPT !.r = x] \in Machines
         /\ \A x \in 0 .. FSize : [s EXCEPT !.f = x] \in Machines
         /\ \A x \in Nat, y \in Int : [s EXCEPT !.d = x, !.raised = y] \in Machines
         /\ \A x \in Nat, y \in Int :
              /\ [s EXCEPT !.stackeh = TRUE, !.d = x, !.raised = y] \in Machines
              /\ [s EXCEPT !.d = x, !.stackeh = TRUE, !.raised = y] \in Machines
         /\ [s EXCEPT !.stackeh = FALSE, !.raised = 0] \in Machines
         /\ \A o \in FileIds : [s EXCEPT !.out = o, !.raised = 0] \in Machines
  <1>1. \A x \in Nat : [s EXCEPT !.d = x] \in Machines
    BY DEF Machines
  <1>2. \A x \in 0 .. RSize : [s EXCEPT !.r = x] \in Machines
    BY DEF Machines
  <1>3. \A x \in 0 .. FSize : [s EXCEPT !.f = x] \in Machines
    BY DEF Machines
  <1>4. \A x \in Nat, y \in Int : [s EXCEPT !.d = x, !.raised = y] \in Machines
    BY DEF Machines
  <1>5. \A x \in Nat, y \in Int : [s EXCEPT !.d = x, !.stackeh = TRUE, !.raised = y] \in Machines
    BY DEF Machines
  <1>6. \A x \in Nat, y \in Int : [s EXCEPT !.stackeh = TRUE, !.d = x, !.raised = y] \in Machines
    BY DEF Machines
  <1>7. [s EXCEPT !.stackeh = FALSE, !.raised = 0] \in Machines
    <2>1. \A y \in Int : [s EXCEPT !.stackeh = FALSE, !.raised = y] \in Machines
      BY DEF Machines
    <2>2. QED
      <3>1. 0 \in Int
        OBVIOUS
      <3>2. QED
        BY <2>1, <3>1, Zenon
  <1>8. \A o \in FileIds : [s EXCEPT !.out = o, !.raised = 0] \in Machines
    <2>1. \A o \in FileIds, y \in Int : [s EXCEPT !.out = o, !.raised = y] \in Machines
      BY DEF Machines
    <2>2. QED
      <3>1. 0 \in Int
        OBVIOUS
      <3>2. QED
        BY <2>1, <3>1, Zenon
  <1>9. QED
    BY <1>1, <1>2, <1>3, <1>4, <1>5, <1>6, <1>7, <1>8

(* Cells that are pushed for a moment fit, or overflow the data stack. *)
LEMMA PeakStep ==
  ASSUME NEW s, Sound(s), NEW k \in Nat
  PROVE  \/ Peak(s, k) = s /\ s.d + k <= DSize
         \/ Raises(s, Peak(s, k))
  <1>1. DSize \in Nat /\ s.d \in Nat /\ s \in Machines
    BY ExceptionsAssumption DEF Sound, Machines
  <1>2. CASE s.d + k <= DSize
    BY <1>2 DEF Peak
  <1>3. CASE ~(s.d + k <= DSize)
    <2> DEFINE e == IF s.d < DSize THEN DSize ELSE s.d
               t == [s EXCEPT !.d = e + 1, !.stackeh = TRUE, !.raised = StackOverflow]
    <2>1. e \in Nat /\ e + 1 \in Nat /\ e + 1 <= DSize + 1
      BY <1>1 DEF Sound
    <2>2. Peak(s, k) = t
      BY <1>1, <1>3 DEF Peak, Sound, Running, _starteh, Machines
    <2> HIDE DEF e
    <2>3. StackOverflow \in Int /\ StackOverflow # 0 /\ StackOverflow # ReturnStackUnderflow
      BY DEF StackOverflow, ReturnStackUnderflow
    <2>4. t \in Machines
      <3> HIDE DEF t
      <3>1. \A x \in Nat, y \in Int : [s EXCEPT !.d = x, !.stackeh = TRUE, !.raised = y] \in Machines
        BY <1>1, MachineWith
      <3>2. [s EXCEPT !.d = e + 1, !.stackeh = TRUE, !.raised = StackOverflow] \in Machines
        BY <2>1, <2>3, <3>1
      <3>3. QED
        BY <3>2 DEF t
    <2>5. /\ t.d = e + 1 /\ t.raised = StackOverflow /\ t.ehflag = s.ehflag /\ t.stackeh
          /\ t.rmem = s.rmem /\ t.handler = s.handler
      BY <1>1 DEF Machines
    <2> HIDE DEF t
    <2>6. QED
      BY <2>1, <2>2, <2>3, <2>4, <2>5 DEF Raises, Stops, Sound
  <1>4. QED
    BY <1>2, <1>3

(* A stack that is popped when empty, or a full float stack, raises. *)
LEMMA UnderflowStep ==
  ASSUME NEW s, Sound(s), NEW code \in Int \ {0}
  PROVE  /\ Stops(s, Underflow(s, code))
         /\ code # ReturnStackUnderflow => Raises(s, Underflow(s, code))
  <1>1. CASE Peak(s, 1) = s /\ s.d + 1 <= DSize
    <2> DEFINE t == [s EXCEPT !.d = s.d + 1, !.raised = code]
    <2>1. Underflow(s, code) = t
      BY <1>1 DEF Underflow, Running, Sound, Machines
    <2>2. s \in Machines /\ s.d + 1 \in Nat /\ s.d + 1 <= DSize + 1
      <3>1. s \in Machines /\ s.d \in Nat /\ DSize \in Nat
        BY ExceptionsAssumption DEF Sound, Machines
      <3>2. QED
        BY <3>1, <1>1
    <2>3. t \in Machines
      BY <2>2, MachineWith
    <2>4. /\ t.d = s.d + 1 /\ t.raised = code /\ t.ehflag = s.ehflag
          /\ t.rmem = s.rmem /\ t.handler = s.handler
      BY <2>2 DEF Machines
    <2>5. t.d <= DSize
      BY <1>1, <2>4
    <2> HIDE DEF t
    <2>6. QED
      BY <2>1, <2>2, <2>3, <2>4, <2>5 DEF Raises, Stops, Sound
  <1>2. CASE Raises(s, Peak(s, 1))
    <2>1. ~Running(Peak(s, 1)) /\ Stops(s, Peak(s, 1))
      BY <1>2 DEF Raises, Stops, Running
    <2>2. Underflow(s, code) = Peak(s, 1)
      BY <2>1 DEF Underflow
    <2>3. QED
      BY <1>2, <2>1, <2>2
  <1>3. QED
    BY <1>1, <1>2, PeakStep

(* A cell is pushed on the data stack, or overflows it. *)
LEMMA DPushStep ==
  ASSUME NEW s, Sound(s)
  PROVE  \/ _dpush(s) = [s EXCEPT !.d = s.d + 1] /\ s.d + 1 <= DSize /\ Sound(_dpush(s))
         \/ Raises(s, _dpush(s))
  <1>1. CASE Peak(s, 1) = s /\ s.d + 1 <= DSize
    <2>1. _dpush(s) = [s EXCEPT !.d = s.d + 1]
      BY <1>1 DEF _dpush, Running, Sound, Machines
    <2>2. s \in Machines /\ s.d + 1 \in Nat
      BY DEF Sound, Machines
    <2>3. [s EXCEPT !.d = s.d + 1] \in Machines
      BY <2>2, MachineWith
    <2>4. QED
      BY <1>1, <2>1, <2>2, <2>3 DEF Sound, Machines
  <1>2. CASE Raises(s, Peak(s, 1))
    <2>1. ~Running(Peak(s, 1))
      BY <1>2 DEF Raises, Stops, Running
    <2>2. _dpush(s) = Peak(s, 1)
      BY <2>1 DEF _dpush
    <2>3. QED
      BY <1>2, <2>2
  <1>3. QED
    BY <1>1, <1>2, PeakStep

(* A cell is taken from the data stack, if there is one. *)
LEMMA DPopStep ==
  ASSUME NEW s, Sound(s)
  PROVE  \/ _dpop(s) = [s EXCEPT !.d = s.d - 1] /\ s.d > 0 /\ Sound(_dpop(s))
         \/ Raises(s, _dpop(s)) /\ s.d = 0
  <1>1. s \in Machines /\ s.d \in Nat /\ DSize \in Nat
    BY ExceptionsAssumption DEF Sound, Machines
  <1>2. CASE s.d = 0
    <2>1. _dpop(s) = Underflow(s, StackUnderflow)
      BY <1>2 DEF _dpop, Running, Sound
    <2>2. StackUnderflow \in Int \ {0} /\ StackUnderflow # ReturnStackUnderflow
      BY DEF StackUnderflow, ReturnStackUnderflow
    <2>3. QED
      BY <1>2, <2>1, <2>2, UnderflowStep
  <1>3. CASE s.d # 0
    <2>1. _dpop(s) = [s EXCEPT !.d = s.d - 1]
      BY <1>1, <1>3 DEF _dpop, Running, Sound, Machines
    <2>2. s.d - 1 \in Nat /\ s.d > 0 /\ (s.d <= DSize => s.d - 1 <= DSize)
      BY <1>1, <1>3
    <2>3. [s EXCEPT !.d = s.d - 1] \in Machines
      BY <1>1, <2>2, MachineWith
    <2>4. QED
      BY <1>1, <2>1, <2>2, <2>3 DEF Sound, Machines
  <1>4. QED
    BY <1>2, <1>3

(* A push writes the cell above the index, and no other. *)
LEMMA RPushStep ==
  ASSUME NEW s, Sound(s), NEW v \in Nat
  PROVE  \/ /\ _rpush(s, v) = [s EXCEPT !.r = s.r + 1, !.rmem[s.r + 1] = v]
            /\ s.r + 1 <= RSize /\ Sound(_rpush(s, v))
            /\ \A c \in Cells : c # s.r + 1 => _rpush(s, v).rmem[c] = s.rmem[c]
            /\ _rpush(s, v).rmem[s.r + 1] = v
         \/ Raises(s, _rpush(s, v))
  <1>1. s \in Machines /\ s.r \in 0 .. RSize /\ RSize \in Nat /\ Reserve \in Nat
        /\ s.rmem \in Memory /\ s.d \in Nat /\ DSize \in Nat
    BY ExceptionsAssumption DEF Sound, Machines
  <1>2. CASE s.r >= RSize
    <2> DEFINE t == [s EXCEPT !.stackeh = TRUE, !.d = s.d + 1, !.raised = ReturnStackOverflow]
    <2>1. _rpush(s, v) = t
      BY <1>1, <1>2 DEF _rpush, Running, Sound, _starteh, Machines
    <2>2. ReturnStackOverflow \in Int /\ ReturnStackOverflow # 0
          /\ ReturnStackOverflow # ReturnStackUnderflow
      BY DEF ReturnStackOverflow, ReturnStackUnderflow
    <2>3. t \in Machines
      <3>1. t = [s EXCEPT !.d = s.d + 1, !.stackeh = TRUE, !.raised = ReturnStackOverflow]
        BY <1>1 DEF Machines
      <3>2. s.d + 1 \in Nat
        BY <1>1
      <3>3. QED
        BY <1>1, <2>2, <3>1, <3>2, MachineWith
    <2>4. /\ t.d = s.d + 1 /\ t.raised = ReturnStackOverflow /\ t.ehflag = s.ehflag /\ t.stackeh
          /\ t.rmem = s.rmem /\ t.handler = s.handler
      BY <1>1 DEF Machines
    <2>5. s.d <= DSize /\ ~s.ehflag
      BY DEF Sound
    <2>6. t.d <= DSize + 1
      BY <1>1, <2>4, <2>5
    <2>7. QED
      BY <2>1, <2>2, <2>3, <2>4, <2>5, <2>6 DEF Raises, Stops
  <1>3. CASE ~(s.r >= RSize)
    <2> DEFINE t == [s EXCEPT !.r = s.r + 1, !.rmem[s.r + 1] = v]
    <2>1. _rpush(s, v) = t
      BY <1>1, <1>3 DEF _rpush, Running, Sound, Machines
    <2>2. s.r + 1 \in 0 .. RSize /\ s.r + 1 \in Cells /\ s.r + 1 <= RSize
      BY <1>1, <1>3 DEF Cells
    <2>3. [s.rmem EXCEPT ![s.r + 1] = v] \in Memory
      BY <1>1, <2>2 DEF Memory
    <2>4. t = [s EXCEPT !.r = s.r + 1, !.rmem = [s.rmem EXCEPT ![s.r + 1] = v]]
      BY <1>1 DEF Machines
    <2>5. t \in Machines
      BY <1>1, <2>2, <2>3, <2>4 DEF Machines
    <2>6. /\ t.rmem = [s.rmem EXCEPT ![s.r + 1] = v] /\ t.d = s.d /\ t.ehflag = s.ehflag
          /\ t.stackeh = s.stackeh /\ t.raised = s.raised
      BY <1>1, <2>4 DEF Machines
    <2>7. Sound(t)
      BY <2>5, <2>6 DEF Sound
    <2>8. /\ \A c \in Cells : c # s.r + 1 => t.rmem[c] = s.rmem[c]
          /\ t.rmem[s.r + 1] = v
      BY <1>1, <2>2, <2>6 DEF Memory
    <2>9. QED
      BY <2>1, <2>2, <2>7, <2>8
  <1>4. QED
    BY <1>2, <1>3

(* A cell is taken from the return stack, if there is one. *)
LEMMA RPopStep ==
  ASSUME NEW s, Sound(s)
  PROVE  \/ _rpop(s) = [s EXCEPT !.r = s.r - 1] /\ s.r > 0 /\ Sound(_rpop(s))
         \/ Stops(s, _rpop(s)) /\ s.r = 0
  <1>1. s \in Machines /\ s.r \in 0 .. RSize /\ RSize \in Nat
    BY ExceptionsAssumption DEF Sound, Machines
  <1>2. CASE s.r = 0
    <2>1. _rpop(s) = Underflow(s, ReturnStackUnderflow)
      BY <1>2 DEF _rpop, Running, Sound
    <2>2. ReturnStackUnderflow \in Int \ {0}
      BY DEF ReturnStackUnderflow
    <2>3. QED
      BY <1>2, <2>1, <2>2, UnderflowStep
  <1>3. CASE s.r # 0
    <2>1. _rpop(s) = [s EXCEPT !.r = s.r - 1]
      BY <1>1, <1>3 DEF _rpop, Running, Sound, Machines
    <2>2. s.r - 1 \in 0 .. RSize /\ s.r > 0
      BY <1>1, <1>3
    <2>3. [s EXCEPT !.r = s.r - 1] \in Machines
      BY <1>1, <2>2, MachineWith
    <2>4. QED
      BY <1>1, <2>1, <2>2, <2>3 DEF Sound, Machines
  <1>4. QED
    BY <1>2, <1>3

(* A number is pushed on the float stack, or overflows it. *)
LEMMA FPushStep ==
  ASSUME NEW s, Sound(s)
  PROVE  \/ _fpush(s) = [s EXCEPT !.f = s.f + 1] /\ Sound(_fpush(s))
         \/ Raises(s, _fpush(s))
  <1>1. s \in Machines /\ s.f \in 0 .. FSize /\ FSize \in Nat
    BY ExceptionsAssumption DEF Sound, Machines
  <1>2. CASE s.f >= FSize
    <2>1. _fpush(s) = Underflow(s, FloatStackOverflow)
      BY <1>2 DEF _fpush, Running, Sound
    <2>2. FloatStackOverflow \in Int \ {0} /\ FloatStackOverflow # ReturnStackUnderflow
      BY DEF FloatStackOverflow, ReturnStackUnderflow
    <2>3. QED
      BY <2>1, <2>2, UnderflowStep
  <1>3. CASE ~(s.f >= FSize)
    <2>1. _fpush(s) = [s EXCEPT !.f = s.f + 1]
      BY <1>1, <1>3 DEF _fpush, Running, Sound, Machines
    <2>2. s.f + 1 \in 0 .. FSize
      BY <1>1, <1>3
    <2>3. [s EXCEPT !.f = s.f + 1] \in Machines
      BY <1>1, <2>2, MachineWith
    <2>4. QED
      BY <1>1, <2>1, <2>2, <2>3 DEF Sound, Machines
  <1>4. QED
    BY <1>2, <1>3

(* A number is taken from the float stack, if there is one. *)
LEMMA FPopStep ==
  ASSUME NEW s, Sound(s)
  PROVE  \/ _fpop(s) = [s EXCEPT !.f = s.f - 1] /\ Sound(_fpop(s))
         \/ Raises(s, _fpop(s))
  <1>1. s \in Machines /\ s.f \in 0 .. FSize /\ FSize \in Nat
    BY ExceptionsAssumption DEF Sound, Machines
  <1>2. CASE s.f = 0
    <2>1. _fpop(s) = Underflow(s, FloatStackUnderflow)
      BY <1>2 DEF _fpop, Running, Sound
    <2>2. FloatStackUnderflow \in Int \ {0} /\ FloatStackUnderflow # ReturnStackUnderflow
      BY DEF FloatStackUnderflow, ReturnStackUnderflow
    <2>3. QED
      BY <2>1, <2>2, UnderflowStep
  <1>3. CASE s.f # 0
    <2>1. _fpop(s) = [s EXCEPT !.f = s.f - 1]
      BY <1>1, <1>3 DEF _fpop, Running, Sound, Machines
    <2>2. s.f - 1 \in 0 .. FSize
      BY <1>1, <1>3
    <2>3. [s EXCEPT !.f = s.f - 1] \in Machines
      BY <1>1, <2>2, MachineWith
    <2>4. QED
      BY <1>1, <2>1, <2>2, <2>3 DEF Sound, Machines
  <1>4. QED
    BY <1>2, <1>3

-----------------------------------------------------------------------------
(* The words, which are sequences of steps. *)

(* x has the words' cells and the handler of the machine before the word. *)
Kept(x) ==
  /\ x.handler = m.handler
  /\ \A c \in 1 .. Base : x.rmem[c] = m.rmem[c]

(* An exception is raised in the middle of a word. *)
Broken(x) ==
  /\ x \in Machines /\ x.raised # 0 /\ ~x.ehflag /\ x.d <= DSize + 1
  /\ ~x.stackeh => x.d <= DSize
  /\ Kept(x)
  /\ x.raised = ReturnStackUnderflow => m.r = 0 \/ ReturnStackUnderflow \in Codes

(* A machine in the middle of a word, where it has r return cells. *)
Under(x, r) == Sound(x) /\ Kept(x) /\ x.r = r

(* Base is a place on the return stack. *)
LEMMA BaseNat ==
  ASSUME Typed
  PROVE  Base \in 0 .. RSize /\ Base = Owned(host)
  <1>1. CASE host = << >>
    BY <1>1, ExceptionsAssumption DEF Base, Owned
  <1>2. CASE host # << >>
    <2>1. host \in Seq(Words)
      BY DEF Typed
    <2>2. Len(host) \in 1 .. Len(host)
      BY <1>2, <2>1, LenProperties, EmptySeq
    <2>3. host[Len(host)] \in Words
      BY <2>1, <2>2, ElementOfSeq
    <2>4. QED
      BY <1>2, <2>3 DEF Base, Owned, Words
  <1>3. QED
    BY <1>1, <1>2

(* What a step raises is raised in the middle of the word. *)
LEMMA RaisesBroken ==
  ASSUME NEW s, Kept(s), NEW t, Raises(s, t)
  PROVE  Broken(t)
  BY DEF Raises, Stops, Broken, Kept

(* The steps again, now as parts of a word. *)
LEMMA PeakIn ==
  ASSUME NEW s, Sound(s), Kept(s), NEW k \in Nat
  PROVE  (Peak(s, k) = s /\ s.d + k <= DSize) \/ Broken(Peak(s, k))
  BY PeakStep, RaisesBroken

(* What >r leaves, if nothing is raised. *)
Saved(s, t, v) ==
  /\ Under(t, s.r + 1) /\ s.r + 1 <= RSize
  /\ t.d = s.d /\ t.f = s.f /\ t.out = s.out
  /\ t.rmem[s.r + 1] = v /\ \A c \in 1 .. s.r : t.rmem[c] = s.rmem[c]

(* A cell goes above the words' cells. *)
LEMMA RPushIn ==
  ASSUME Typed, NEW s, Sound(s), Kept(s), s.r >= Base, NEW v \in Nat
  PROVE  Saved(s, _rpush(s, v), v) \/ Broken(_rpush(s, v))
  <1> DEFINE t == _rpush(s, v)
  <1>1. CASE /\ t = [s EXCEPT !.r = s.r + 1, !.rmem[s.r + 1] = v]
             /\ s.r + 1 <= RSize /\ Sound(t)
             /\ \A c \in Cells : c # s.r + 1 => t.rmem[c] = s.rmem[c]
             /\ t.rmem[s.r + 1] = v
    <2>1. s \in Machines /\ s.r \in Nat /\ RSize \in Nat /\ Reserve \in Nat
      BY ExceptionsAssumption DEF Sound, Machines
    <2>2. t.handler = s.handler /\ t.r = s.r + 1 /\ t.d = s.d /\ t.f = s.f /\ t.out = s.out
      BY <1>1, <2>1 DEF Machines
    <2>3. \A c \in 1 .. s.r : c \in Cells /\ c # s.r + 1
      BY <1>1, <2>1 DEF Cells
    <2>4. \A c \in 1 .. s.r : t.rmem[c] = s.rmem[c]
      BY <1>1, <2>3
    <2>5. Base \in Nat
      BY BaseNat
    <2>6. \A c \in 1 .. Base : c \in 1 .. s.r
      BY <2>1, <2>5
    <2> HIDE DEF t
    <2>7. Kept(t)
      BY <2>2, <2>4, <2>6 DEF Kept
    <2>8. QED
      BY <1>1, <2>2, <2>4, <2>7 DEF Saved, Under, t
  <1>2. CASE Raises(s, t)
    BY <1>2, RaisesBroken
  <1>3. QED
    BY <1>1, <1>2, RPushStep

(* The same, with what is on the data stack meanwhile. *)
LEMMA SaveIn ==
  ASSUME Typed, NEW s, Sound(s), Kept(s), s.r >= Base, NEW k \in Nat, NEW v \in Nat
  PROVE  Saved(s, Save(s, k, v), v) \/ Broken(Save(s, k, v))
  <1>1. CASE Peak(s, k) = s
    BY <1>1, RPushIn DEF Save
  <1>2. CASE Broken(Peak(s, k))
    <2>1. Peak(s, k).raised # 0
      BY <1>2 DEF Broken
    <2>2. _rpush(Peak(s, k), v) = Peak(s, k)
      BY <2>1, StepsStop
    <2>3. QED
      BY <1>2, <2>2 DEF Save
  <1>3. QED
    BY <1>1, <1>2, PeakIn

(* What r> leaves, if nothing is raised. *)
Restored(s, t, k) ==
  /\ Under(t, s.r - 1) /\ s.d + k <= DSize
  /\ t.d = s.d /\ t.f = s.f /\ t.out = s.out /\ t.rmem = s.rmem

(* A cell is taken that is there. *)
LEMMA RPopIn ==
  ASSUME NEW s, Sound(s), Kept(s), s.r > 0
  PROVE  /\ Under(_rpop(s), s.r - 1) /\ _rpop(s).d = s.d /\ _rpop(s).f = s.f
         /\ _rpop(s).out = s.out /\ _rpop(s).rmem = s.rmem
  <1>1. s \in Machines /\ s.r \in Nat
    BY DEF Sound, Machines
  <1>2. _rpop(s) = [s EXCEPT !.r = s.r - 1] /\ Sound(_rpop(s))
    BY <1>1, RPopStep
  <1>3. QED
    BY <1>1, <1>2 DEF Under, Kept, Machines

(* The same, with what is on the data stack after it. *)
LEMMA RestoreIn ==
  ASSUME NEW s, Sound(s), Kept(s), s.r > 0, NEW k \in Nat
  PROVE  Restored(s, Restore(s, k), k) \/ Broken(Restore(s, k))
  <1>1. /\ Under(_rpop(s), s.r - 1) /\ _rpop(s).d = s.d /\ _rpop(s).f = s.f
        /\ _rpop(s).out = s.out /\ _rpop(s).rmem = s.rmem
    BY RPopIn
  <1>2. CASE Peak(_rpop(s), k) = _rpop(s) /\ _rpop(s).d + k <= DSize
    BY <1>1, <1>2 DEF Restored, Restore
  <1>3. CASE Broken(Peak(_rpop(s), k))
    BY <1>3 DEF Restore
  <1>4. Sound(_rpop(s)) /\ Kept(_rpop(s))
    BY <1>1 DEF Under
  <1>5. QED
    BY <1>2, <1>3, <1>4, PeakIn

(* The rest of a word is not executed once an exception is raised. *)
LEMMA BrokenStops ==
  ASSUME NEW t, Broken(t)
  PROVE  /\ ~Running(t) /\ \A k : Peak(t, k) = t /\ Restore(t, k) = t
         /\ _dpush(t) = t /\ _dpop(t) = t /\ _rpop(t) = t
         /\ \A v : _rpush(t, v) = t
         /\ \A k, v : Save(t, k, v) = t
  BY StepsStop DEF Broken, Running

(* CATCH makes its frame, and takes the word to run from the data stack. *)
EntersCatch(t, ctx) ==
  /\ Sound(t) /\ t.d = m.d - 1 /\ t.f = m.f /\ t.r = m.r + 4 /\ m.r + 4 <= RSize
  /\ t.handler = m.r + 4 /\ t.out = m.out
  /\ t.rmem[m.r + 4] = ctx /\ t.rmem[m.r + 3] = m.handler
  /\ t.rmem[m.r + 2] = m.f /\ t.rmem[m.r + 1] = m.d
  /\ \A c \in 1 .. m.r : t.rmem[c] = m.rmem[c]

(* CATCH has made its frame, and there is no word to run. *)
WordMissing(t) ==
  /\ m.d = 0 /\ t \in Machines /\ t.raised # 0 /\ t.raised # ReturnStackUnderflow /\ ~t.ehflag
  /\ t.handler = m.r + 4 /\ m.r + 4 <= RSize
  /\ t.rmem[m.r + 3] = m.handler /\ t.rmem[m.r + 2] = m.f /\ t.rmem[m.r + 1] = 0

(* CATCH begins, or fails with nothing of the older frames changed, or finds
   no word.                                                                  *)
LEMMA CatchEntryStep ==
  ASSUME Typed, Sound(m), m.r >= Base, NEW ctx \in Nat
  PROVE  \/ m.d > 0 /\ EntersCatch(CatchEntry(m, ctx), ctx)
         \/ Broken(CatchEntry(m, ctx))
         \/ WordMissing(CatchEntry(m, ctx))
  <1> DEFINE s1 == Save(m, 2, m.d)
             s2 == Save(s1, 1, s1.f)
             s3 == Save(s2, 1, s2.handler)
             sx == Save(s3, 1, ctx)
             s4 == Peak(sx, 2)
             s5 == IF Running(s4) THEN [s4 EXCEPT !.handler = s4.r] ELSE s4
  <1>1. CatchEntry(m, ctx) = _dpop(s5)
    BY DEF CatchEntry
  <1>2. /\ m \in Machines /\ m.d \in Nat /\ m.r \in Nat /\ m.f \in Nat /\ Base \in Nat
        /\ m.handler \in Nat /\ RSize \in Nat
    BY BaseNat, ExceptionsAssumption DEF Sound, Machines
  <1>3. Kept(m)
    BY DEF Kept
  <1>4. Saved(m, s1, m.d) \/ Broken(s1)
    BY <1>2, <1>3, SaveIn
  <1> HIDE DEF s1
  <1>5. (Saved(m, s1, m.d) /\ Saved(s1, s2, m.f)) \/ Broken(s2)
    <2>1. CASE Broken(s1)
      BY <2>1, BrokenStops
    <2>2. CASE Saved(m, s1, m.d)
      <3>1. Sound(s1) /\ Kept(s1) /\ s1.r = m.r + 1 /\ s1.f = m.f
        BY <2>2 DEF Saved, Under
      <3>2. s1.r >= Base
        BY <3>1, <1>2
      <3>3. QED
        BY <2>2, <3>1, <3>2, <1>2, SaveIn
    <2>3. QED
      BY <1>4, <2>1, <2>2
  <1> HIDE DEF s2
  <1>6. (Saved(m, s1, m.d) /\ Saved(s1, s2, m.f) /\ Saved(s2, s3, m.handler)) \/ Broken(s3)
    <2>1. CASE Broken(s2)
      BY <2>1, BrokenStops
    <2>2. CASE Saved(m, s1, m.d) /\ Saved(s1, s2, m.f)
      <3>1. Sound(s2) /\ Kept(s2) /\ s2.r = s1.r + 1 /\ s1.r = m.r + 1 /\ s2.handler = m.handler
        BY <2>2 DEF Saved, Under, Kept
      <3>2. s2.r >= Base
        BY <3>1, <1>2
      <3>3. QED
        BY <2>2, <3>1, <3>2, <1>2, SaveIn
    <2>3. QED
      BY <1>5, <2>1, <2>2
  <1> HIDE DEF s3
  <1>7. \/ /\ Saved(m, s1, m.d) /\ Saved(s1, s2, m.f) /\ Saved(s2, s3, m.handler)
           /\ Saved(s3, sx, ctx)
        \/ Broken(sx)
    <2>1. CASE Broken(s3)
      BY <2>1, BrokenStops
    <2>2. CASE Saved(m, s1, m.d) /\ Saved(s1, s2, m.f) /\ Saved(s2, s3, m.handler)
      <3>1. Sound(s3) /\ Kept(s3) /\ s3.r = s2.r + 1 /\ s2.r = s1.r + 1 /\ s1.r = m.r + 1
        BY <2>2 DEF Saved, Under
      <3>2. s3.r >= Base
        BY <3>1, <1>2
      <3>3. QED
        BY <2>2, <3>1, <3>2, <1>2, SaveIn
    <2>3. QED
      BY <1>6, <2>1, <2>2
  <1> HIDE DEF sx
  <1>8. CASE Broken(sx)
    <2>1. s4 = sx
      BY <1>8, BrokenStops
    <2>2. s5 = sx
      BY <1>8, <2>1, BrokenStops
    <2> HIDE DEF s5
    <2>3. QED
      BY <1>1, <1>8, <2>2, BrokenStops
  <1>9. CASE /\ Saved(m, s1, m.d) /\ Saved(s1, s2, m.f) /\ Saved(s2, s3, m.handler)
             /\ Saved(s3, sx, ctx)
    <2>1. s1.r = m.r + 1 /\ s2.r = m.r + 2 /\ s3.r = m.r + 3 /\ sx.r = m.r + 4
      BY <1>2, <1>9 DEF Saved, Under
    <2>2. sx.d = m.d /\ sx.f = m.f /\ sx.out = m.out
      BY <1>9 DEF Saved
    <2>3. m.r + 4 <= RSize
      BY <1>2, <1>9, <2>1 DEF Saved
    <2>4. Sound(sx) /\ Kept(sx) /\ sx \in Machines
      BY <1>9 DEF Saved, Under, Sound
    <2>5. sx.rmem[m.r + 4] = ctx
      BY <1>2, <1>9, <2>1 DEF Saved
    <2>6. sx.rmem[m.r + 3] = m.handler
      <3>1. s3.rmem[m.r + 3] = m.handler
        BY <1>2, <1>9, <2>1 DEF Saved
      <3>2. m.r + 3 \in 1 .. s3.r
        BY <1>2, <2>1
      <3>3. QED
        BY <1>9, <3>1, <3>2 DEF Saved
    <2>7. sx.rmem[m.r + 2] = m.f
      <3>1. s2.rmem[m.r + 2] = m.f
        BY <1>2, <1>9, <2>1 DEF Saved
      <3>2. m.r + 2 \in 1 .. s3.r /\ m.r + 2 \in 1 .. s2.r
        BY <1>2, <2>1
      <3>3. QED
        BY <1>9, <3>1, <3>2 DEF Saved
    <2>8. sx.rmem[m.r + 1] = m.d
      <3>1. s1.rmem[m.r + 1] = m.d
        BY <1>2, <1>9, <2>1 DEF Saved
      <3>2. m.r + 1 \in 1 .. s3.r /\ m.r + 1 \in 1 .. s2.r /\ m.r + 1 \in 1 .. s1.r
        BY <1>2, <2>1
      <3>3. QED
        BY <1>9, <3>1, <3>2 DEF Saved
    <2>9. \A c \in 1 .. m.r : sx.rmem[c] = m.rmem[c]
      <3>1. \A c \in 1 .. m.r : c \in 1 .. s3.r /\ c \in 1 .. s2.r /\ c \in 1 .. s1.r
        BY <1>2, <2>1
      <3>2. QED
        BY <1>9, <3>1 DEF Saved
    <2>10. CASE Broken(s4)
      <3>1. s5 = s4
        BY <2>10, BrokenStops
      <3> HIDE DEF s5
      <3>2. QED
        BY <1>1, <2>10, <3>1, BrokenStops
    <2>11. CASE s4 = sx
      <3>1. s5 = [sx EXCEPT !.handler = m.r + 4]
        BY <2>1, <2>4, <2>11 DEF Running, Sound
      <3> HIDE DEF s5
      <3>2. m.r + 4 \in 0 .. RSize
        BY <1>2, <2>3
      <3>3. /\ s5.d = m.d /\ s5.f = m.f /\ s5.r = m.r + 4 /\ s5.out = m.out
            /\ s5.handler = m.r + 4 /\ s5.rmem = sx.rmem
        BY <2>1, <2>2, <2>4, <3>1 DEF Machines
      <3>4. Sound(s5)
        BY <2>4, <3>1, <3>2 DEF Sound, Machines
      <3>5. CASE m.d # 0
        <4>1. ~(s5.d = 0) /\ m.d > 0
          BY <1>2, <3>3, <3>5
        <4>2. _dpop(s5) = [s5 EXCEPT !.d = s5.d - 1] /\ Sound(_dpop(s5))
          BY <3>4, <4>1, DPopStep
        <4>3. /\ _dpop(s5).d = m.d - 1 /\ _dpop(s5).f = m.f /\ _dpop(s5).r = m.r + 4
              /\ _dpop(s5).handler = m.r + 4 /\ _dpop(s5).rmem = sx.rmem /\ _dpop(s5).out = m.out
          BY <3>3, <3>4, <4>2 DEF Sound, Machines
        <4>4. EntersCatch(_dpop(s5), ctx)
          BY <4>2, <4>3, <2>3, <2>5, <2>6, <2>7, <2>8, <2>9 DEF EntersCatch
        <4>5. QED
          BY <1>1, <4>1, <4>4
      <3>6. CASE m.d = 0
        <4>1. Raises(s5, _dpop(s5))
          <5>1. ~(s5.d > 0)
            BY <3>3, <3>6
          <5>2. QED
            BY <3>4, <5>1, DPopStep
        <4>2. WordMissing(_dpop(s5))
          BY <2>3, <2>6, <2>7, <2>8, <3>3, <3>6, <4>1 DEF WordMissing, Raises, Stops
        <4>3. QED
          BY <1>1, <4>2
      <3>7. QED
        BY <3>5, <3>6
    <2>12. QED
      BY <2>4, <2>10, <2>11, PeakIn
  <1>10. QED
    BY <1>7, <1>8, <1>9

(* CATCH takes its frame away, and leaves 0. *)
LeavesCatch(t) ==
  /\ Sound(t) /\ t.d = m.d + 1 /\ t.f = m.f /\ t.r = m.r - 4
  /\ t.handler = m.rmem[m.r - 1] /\ t.rmem = m.rmem /\ t.out = m.out

(* CATCH ends, or fails before it has changed the handler. *)
LEMMA CatchExitStep ==
  ASSUME Typed, Sound(m), m.r >= 4, m.rmem[m.r - 1] \in 0 .. RSize
  PROVE  LeavesCatch(CatchExit(m)) \/ Broken(CatchExit(m))
  <1> DEFINE s1 == Restore(m, 1)
             s2 == Restore(s1, 2)
             s3 == IF Running(s2) THEN [s2 EXCEPT !.handler = s2.rmem[s2.r + 1]] ELSE s2
             sy == Restore(s3, 1)
             s4 == Restore(sy, 1)
  <1>1. CatchExit(m) = _dpush(s4)
    BY DEF CatchExit
  <1>2. /\ m \in Machines /\ m.d \in Nat /\ m.r \in Nat /\ DSize \in Nat
    BY ExceptionsAssumption DEF Sound, Machines
  <1>3. Kept(m)
    BY DEF Kept
  <1>4. Restored(m, s1, 1) \/ Broken(s1)
    BY <1>2, <1>3, RestoreIn
  <1> HIDE DEF s1
  <1>5. (Restored(m, s1, 1) /\ Restored(s1, s2, 2)) \/ Broken(s2)
    <2>1. CASE Broken(s1)
      BY <2>1, BrokenStops
    <2>2. CASE Restored(m, s1, 1)
      <3>1. Sound(s1) /\ Kept(s1) /\ s1.r = m.r - 1
        BY <2>2 DEF Restored, Under
      <3>2. s1.r > 0
        BY <3>1, <1>2
      <3>3. QED
        BY <2>2, <3>1, <3>2, RestoreIn
    <2>3. QED
      BY <1>4, <2>1, <2>2
  <1> HIDE DEF s2
  <1>6. CASE Broken(s2)
    <2>1. s3 = s2
      BY <1>6, BrokenStops
    <2> HIDE DEF s3
    <2>2. sy = s2 /\ s4 = s2
      BY <1>6, <2>1, BrokenStops
    <2> HIDE DEF s4
    <2>3. QED
      BY <1>1, <1>6, <2>2, BrokenStops
  <1>7. CASE Restored(m, s1, 1) /\ Restored(s1, s2, 2)
    <2>1. Sound(s2) /\ s2.r = m.r - 2 /\ s2.d = m.d /\ s2.f = m.f /\ s2.out = m.out
          /\ s2.rmem = m.rmem /\ s2 \in Machines
      BY <1>2, <1>7 DEF Restored, Under, Sound
    <2>2. m.d + 2 <= DSize
      BY <1>2, <1>7 DEF Restored
    <2>3. s2.r + 1 = m.r - 1
      BY <1>2, <2>1
    <2>4. s3 = [s2 EXCEPT !.handler = m.rmem[m.r - 1]]
      BY <2>1, <2>3 DEF Running, Sound
    <2> HIDE DEF s3
    <2>5. Sound(s3)
      BY <2>1, <2>4 DEF Sound, Machines
    <2>6. /\ s3.r = m.r - 2 /\ s3.d = m.d /\ s3.f = m.f /\ s3.out = m.out
          /\ s3.rmem = m.rmem /\ s3.handler = m.rmem[m.r - 1]
      BY <2>1, <2>4 DEF Machines
    <2>7. ASSUME NEW s, Sound(s), s.d = m.d, s.r > 0
          PROVE  Restore(s, 1) = [s EXCEPT !.r = s.r - 1] /\ Sound(Restore(s, 1))
      <3>1. s \in Machines /\ s.r \in Nat
        BY <2>7 DEF Sound, Machines
      <3>2. _rpop(s) = [s EXCEPT !.r = s.r - 1] /\ Sound(_rpop(s))
        BY <2>7, <3>1, RPopStep
      <3>3. _rpop(s).d + 1 <= DSize
        BY <1>2, <2>2, <2>7, <3>1, <3>2 DEF Machines
      <3>4. Peak(_rpop(s), 1) = _rpop(s)
        BY <3>3 DEF Peak
      <3>5. QED
        BY <3>2, <3>4 DEF Restore
    <2>8. s3.r > 0
      BY <1>2, <2>6
    <2>9. sy = [s3 EXCEPT !.r = s3.r - 1] /\ Sound(sy)
      BY <2>5, <2>6, <2>7, <2>8
    <2> HIDE DEF sy
    <2>10. /\ sy.r = m.r - 3 /\ sy.d = m.d /\ sy.f = m.f /\ sy.out = m.out
           /\ sy.rmem = m.rmem /\ sy.handler = m.rmem[m.r - 1]
      BY <1>2, <2>5, <2>6, <2>9 DEF Sound, Machines
    <2>11. sy.r > 0
      BY <1>2, <2>10
    <2>12. s4 = [sy EXCEPT !.r = sy.r - 1] /\ Sound(s4)
      BY <2>7, <2>9, <2>10, <2>11
    <2> HIDE DEF s4
    <2>13. /\ s4.r = m.r - 4 /\ s4.d = m.d /\ s4.f = m.f /\ s4.out = m.out
           /\ s4.rmem = m.rmem /\ s4.handler = m.rmem[m.r - 1]
      BY <1>2, <2>9, <2>10, <2>12 DEF Sound, Machines
    <2>14. Peak(s4, 1) = s4
      BY <1>2, <2>2, <2>13 DEF Peak
    <2>15. _dpush(s4) = [s4 EXCEPT !.d = s4.d + 1]
      BY <2>12, <2>14 DEF _dpush, Running, Sound, Machines
    <2>16. s4.d + 1 \in Nat /\ s4.d + 1 <= DSize
      BY <1>2, <2>2, <2>13
    <2>17. Sound(_dpush(s4))
      BY <2>12, <2>15, <2>16 DEF Sound, Machines
    <2>18. s4 \in Machines
      BY <2>12 DEF Sound
    <2>19. /\ _dpush(s4).d = m.d + 1 /\ _dpush(s4).f = m.f /\ _dpush(s4).r = m.r - 4
           /\ _dpush(s4).handler = m.rmem[m.r - 1] /\ _dpush(s4).rmem = m.rmem
           /\ _dpush(s4).out = m.out
      BY <2>13, <2>15, <2>18 DEF Machines
    <2>20. QED
      BY <1>1, <2>17, <2>19 DEF LeavesCatch
  <1>8. QED
    BY <1>5, <1>6, <1>7

(* OUTFILE-EXECUTE keeps the output file, and redirects the output. *)
Redirected(t) ==
  /\ Sound(t) /\ t.d \in Nat /\ t.f = m.f /\ t.r = m.r + 2 /\ m.r + 2 <= RSize
  /\ t.handler = m.handler /\ t.rmem[m.r + 1] = m.out
  /\ \A c \in 1 .. m.r : t.rmem[c] = m.rmem[c]

(* OUTFILE-EXECUTE begins, or fails. *)
LEMMA RedirectEntryStep ==
  ASSUME Typed, Sound(m), m.r >= Base, NEW id \in FileIds
  PROVE  Redirected(RedirectEntry(m, id)) \/ Broken(RedirectEntry(m, id))
  <1> DEFINE s1 == Peak(m, 5)
             s2 == _rpush(s1, m.out)
             s3 == _rpush(s2, 0)
             sx == _dpop(s3)
             s4 == IF Running(sx) THEN [sx EXCEPT !.out = id] ELSE sx
  <1>1. /\ m \in Machines /\ m.d \in Nat /\ m.r \in Nat /\ Base \in Nat /\ m.out \in Nat
        /\ RSize \in Nat /\ 0 \in Nat
    BY BaseNat, ExceptionsAssumption DEF Sound, Machines, FileIds, stdout, stderr, file
  <1>2. RedirectEntry(m, id) = _dpop(s4)
    BY DEF RedirectEntry
  <1>3. Kept(m)
    BY DEF Kept
  <1>4. s1 = m \/ Broken(s1)
    BY <1>3, PeakIn
  <1> HIDE DEF s1
  <1>5. (s1 = m /\ Saved(m, s2, m.out)) \/ Broken(s2)
    <2>1. CASE Broken(s1)
      BY <2>1, BrokenStops
    <2>2. CASE s1 = m
      BY <2>2, <1>1, <1>3, RPushIn
    <2>3. QED
      BY <1>4, <2>1, <2>2
  <1> HIDE DEF s2
  <1>6. (Saved(m, s2, m.out) /\ Saved(s2, s3, 0)) \/ Broken(s3)
    <2>1. CASE Broken(s2)
      BY <2>1, BrokenStops
    <2>2. CASE Saved(m, s2, m.out)
      <3>1. Sound(s2) /\ Kept(s2) /\ s2.r = m.r + 1
        BY <2>2 DEF Saved, Under
      <3>2. s2.r >= Base
        BY <3>1, <1>1
      <3>3. QED
        BY <2>2, <3>1, <3>2, <1>1, RPushIn
    <2>3. QED
      BY <1>5, <2>1, <2>2
  <1> HIDE DEF s3
  <1>7. CASE Broken(s3)
    <2>1. sx = s3
      BY <1>7, BrokenStops
    <2>2. s4 = s3
      BY <1>7, <2>1, BrokenStops
    <2> HIDE DEF s4, sx
    <2>3. QED
      BY <1>2, <1>7, <2>2, BrokenStops
  <1>8. CASE Saved(m, s2, m.out) /\ Saved(s2, s3, 0)
    <2>1. s2.r = m.r + 1 /\ s3.r = m.r + 2 /\ m.r + 2 <= RSize
      BY <1>1, <1>8 DEF Saved, Under
    <2>2. s3.f = m.f /\ Sound(s3) /\ Kept(s3) /\ s3.handler = m.handler /\ s3 \in Machines
      BY <1>8 DEF Saved, Under, Kept, Sound
    <2>3. s3.rmem[m.r + 1] = m.out
      <3>1. s2.rmem[m.r + 1] = m.out
        BY <1>8 DEF Saved
      <3>2. m.r + 1 \in 1 .. s2.r
        BY <1>1, <2>1
      <3>3. QED
        BY <1>8, <3>1, <3>2 DEF Saved
    <2>4. \A c \in 1 .. m.r : s3.rmem[c] = m.rmem[c]
      <3>1. \A c \in 1 .. m.r : c \in 1 .. s2.r
        BY <1>1, <2>1
      <3>2. QED
        BY <1>8, <3>1 DEF Saved
    <2>5. CASE Raises(s3, sx)
      <3>1. Broken(sx)
        BY <2>2, <2>5, RaisesBroken
      <3>2. s4 = sx
        BY <3>1, BrokenStops
      <3> HIDE DEF s4, sx
      <3>3. QED
        BY <1>2, <3>1, <3>2, BrokenStops
    <2>6. CASE sx = [s3 EXCEPT !.d = s3.d - 1] /\ Sound(sx)
      <3>1. /\ sx.f = m.f /\ sx.r = m.r + 2 /\ sx.handler = m.handler /\ sx.rmem = s3.rmem
            /\ sx \in Machines
        BY <2>1, <2>2, <2>6 DEF Sound, Machines
      <3> HIDE DEF sx
      <3>2. s4 = [sx EXCEPT !.out = id]
        BY <2>6 DEF Running, Sound
      <3> HIDE DEF s4
      <3>3. Sound(s4)
        BY <2>6, <3>1, <3>2 DEF Sound, Machines
      <3>4. s4.f = m.f /\ s4.r = m.r + 2 /\ s4.handler = m.handler /\ s4.rmem = s3.rmem
        BY <3>1, <3>2 DEF Machines
      <3>5. Kept(s4)
        BY <2>2, <3>4 DEF Kept
      <3>6. CASE Raises(s4, _dpop(s4))
        BY <1>2, <3>5, <3>6, RaisesBroken
      <3>7. CASE _dpop(s4) = [s4 EXCEPT !.d = s4.d - 1] /\ Sound(_dpop(s4))
        <4>1. s4 \in Machines /\ _dpop(s4) \in Machines
          BY <3>3, <3>7 DEF Sound
        <4>2. /\ _dpop(s4).f = m.f /\ _dpop(s4).r = m.r + 2 /\ _dpop(s4).handler = m.handler
              /\ _dpop(s4).rmem = s3.rmem
          BY <3>4, <3>7, <4>1 DEF Machines
        <4>3. _dpop(s4).d \in Nat
          BY <4>1 DEF Machines
        <4>4. Redirected(_dpop(s4))
          BY <2>1, <2>3, <2>4, <3>7, <4>2, <4>3 DEF Redirected
        <4>5. QED
          BY <1>2, <4>4
      <3>8. QED
        BY <3>3, <3>6, <3>7, DPopStep
    <2>7. QED
      BY <2>2, <2>5, <2>6, DPopStep
  <1>9. QED
    BY <1>6, <1>7, <1>8

(* OUTFILE-EXECUTE puts the output file back. *)
LEMMA RedirectExitStep ==
  ASSUME Typed, Sound(m), m.r >= 2, m.rmem[m.r - 1] \in FileIds
  PROVE  \/ /\ Sound(RedirectExit(m)) /\ RedirectExit(m).handler = m.handler
            /\ RedirectExit(m).rmem = m.rmem
         \/ Broken(RedirectExit(m))
  <1> DEFINE sx == _rpop(m)
             sy == _rpop(sx)
             s1 == Peak(sy, 2)
  <1>1. m \in Machines /\ m.r \in Nat
    BY DEF Sound, Machines
  <1>2. Kept(m)
    BY DEF Kept
  <1>3. Under(sx, m.r - 1) /\ sx.rmem = m.rmem
    BY <1>1, <1>2, RPopIn
  <1> HIDE DEF sx
  <1>4. Under(sy, m.r - 2) /\ sy.rmem = m.rmem
    <2>1. Sound(sx) /\ Kept(sx) /\ sx.r = m.r - 1
      BY <1>3 DEF Under
    <2>2. sx.r > 0
      BY <1>1, <2>1
    <2>3. Under(sy, sx.r - 1) /\ sy.rmem = sx.rmem
      BY <2>1, <2>2, RPopIn
    <2>4. sx.r - 1 = m.r - 2
      BY <1>1, <2>1
    <2>5. QED
      BY <1>3, <2>3, <2>4
  <1> HIDE DEF sy
  <1>5. Sound(sy) /\ Kept(sy) /\ sy.r = m.r - 2 /\ sy \in Machines
    BY <1>4 DEF Under, Sound
  <1>6. RedirectExit(m) = IF Running(s1) THEN [s1 EXCEPT !.out = s1.rmem[s1.r + 1]] ELSE s1
    BY DEF RedirectExit, s1, sy, sx
  <1>7. CASE Broken(s1)
    BY <1>6, <1>7, BrokenStops
  <1>8. CASE s1 = sy
    <2>1. s1.r + 1 = m.r - 1
      BY <1>1, <1>5, <1>8
    <2>2. RedirectExit(m) = [sy EXCEPT !.out = m.rmem[m.r - 1]]
      BY <1>4, <1>5, <1>6, <1>8, <2>1 DEF Running, Sound
    <2>3. Sound(RedirectExit(m))
      BY <1>5, <2>2 DEF Sound, Machines
    <2>4. RedirectExit(m).handler = m.handler /\ RedirectExit(m).rmem = m.rmem
      BY <1>4, <1>5, <2>2 DEF Kept, Machines
    <2>5. QED
      BY <2>3, <2>4
  <1>9. QED
    BY <1>5, <1>7, <1>8, PeakIn

(* The word goes on, or an exception is raised. *)
Works(t) == (Sound(t) /\ Kept(t)) \/ Broken(t)

(* Steps that do not write the return stack. *)
LEMMA StepsWork ==
  ASSUME NEW s, Works(s)
  PROVE  /\ Works(_dpush(s)) /\ Works(_dpop(s)) /\ Works(_fpush(s)) /\ Works(_fpop(s))
         /\ Works(Peak(s, 2))
  <1>1. CASE Broken(s)
    <2>1. ~Running(s)
      BY <1>1, BrokenStops
    <2>2. _fpush(s) = s /\ _fpop(s) = s
      BY <2>1 DEF _fpush, _fpop
    <2>3. _dpush(s) = s /\ _dpop(s) = s /\ Peak(s, 2) = s
      BY <1>1, BrokenStops
    <2>4. QED
      BY <2>2, <2>3
  <1>2. CASE Sound(s) /\ Kept(s)
    <2>1. s \in Machines
      BY <1>2 DEF Sound
    <2>2. \A x, y : /\ Kept([s EXCEPT !.d = x])
                    /\ Kept([s EXCEPT !.f = x])
      BY <1>2, <2>1 DEF Kept, Machines
    <2>3. Works(_dpush(s))
      BY <1>2, <2>2, DPushStep, RaisesBroken DEF Works
    <2>4. Works(_dpop(s))
      BY <1>2, <2>2, DPopStep, RaisesBroken DEF Works
    <2>5. Works(_fpush(s))
      BY <1>2, <2>2, FPushStep, RaisesBroken DEF Works
    <2>6. Works(_fpop(s))
      BY <1>2, <2>2, FPopStep, RaisesBroken DEF Works
    <2>7. Works(Peak(s, 2))
      BY <1>2, PeakIn DEF Works
    <2>8. QED
      BY <2>3, <2>4, <2>5, <2>6, <2>7
  <1>3. QED
    BY <1>1, <1>2 DEF Works

(* >R writes above the cells that belong to words. *)
LEMMA ToRWorks ==
  ASSUME Typed, Sound(m), m.r >= Base
  PROVE  Works(_rpush(_dpop(m), 0))
  <1>1. m \in Machines /\ m.d \in Nat /\ 0 \in Nat
    BY DEF Sound, Machines
  <1>2. CASE _dpop(m) = [m EXCEPT !.d = m.d - 1] /\ Sound(_dpop(m))
    <2>1. _dpop(m).r = m.r /\ Kept(_dpop(m))
      BY <1>1, <1>2 DEF Kept, Machines
    <2>2. Saved(_dpop(m), _rpush(_dpop(m), 0), 0) \/ Broken(_rpush(_dpop(m), 0))
      BY <1>1, <1>2, <2>1, RPushIn
    <2>3. QED
      BY <2>2 DEF Saved, Under, Works
  <1>3. CASE Raises(m, _dpop(m))
    <2>1. Broken(_dpop(m))
      BY <1>3, RaisesBroken DEF Kept
    <2>2. _rpush(_dpop(m), 0) = _dpop(m)
      BY <2>1, BrokenStops
    <2>3. QED
      BY <2>1, <2>2 DEF Works
  <1>4. QED
    BY <1>2, <1>3, DPopStep

(* R> may find the return stack empty. *)
LEMMA RPopWorks ==
  ASSUME Sound(m)
  PROVE  Works(_rpop(m))
  <1>1. m \in Machines
    BY DEF Sound
  <1>2. CASE _rpop(m) = [m EXCEPT !.r = m.r - 1] /\ Sound(_rpop(m))
    BY <1>1, <1>2 DEF Works, Kept, Machines
  <1>3. CASE Stops(m, _rpop(m)) /\ m.r = 0
    BY <1>3 DEF Stops, Works, Broken, Kept
  <1>4. QED
    BY <1>2, <1>3, RPopStep

-----------------------------------------------------------------------------
(* THROW *)

(* The program ends by an exception. *)
Ended ==
  /\ status' \in {"quit", "reporting"}
  /\ m' \in Machines /\ m'.raised = 0 /\ m'.d <= DSize + 1 /\ m'.handler = 0
  /\ m.handler = 0 \/ m.r = 0 \/ ReturnStackUnderflow \in Codes
  /\ UNCHANGED <<host, redirect>>

(* The last CATCH, word k of host, goes on with what its frame holds. *)
Caught(k) ==
  LET h == m.handler IN
  /\ k \in DOMAIN host /\ h # 0 /\ host[k].kind = "catch" /\ host[k].base = h
  /\ Sound(m') /\ m'.d = m.rmem[h - 3] /\ m'.r = h - 4 /\ m'.f = m.rmem[h - 2]
  /\ m'.handler = m.rmem[h - 1]
  /\ \A c \in 1 .. Base : m'.rmem[c] = m.rmem[c]
  /\ host' = SubSeq(host, 1, k - 1) /\ redirect' = SubSeq(redirect, 1, k - 1)
  /\ UNCHANGED status

(* There is no room to clear the flags. *)
Doubled ==
  /\ CatchRoom < 3
  /\ status' = "double"
  /\ m' \in Machines /\ m'.raised = 0 /\ m'.d <= DSize + 2
  /\ UNCHANGED <<host, redirect>>

(* THROW begins with the code, or with that of its own overflow. *)
LEMMA ThrowEntryStep ==
  ASSUME NEW x, Broken(x)
  PROVE  LET s == ThrowEntry(x) IN
         /\ s \in Machines /\ ~s.ehflag /\ s.d <= DSize + 1 /\ s.raised # 0 /\ Kept(s)
         /\ s.raised = ReturnStackUnderflow => m.r = 0 \/ ReturnStackUnderflow \in Codes
  <1> DEFINE y  == [x EXCEPT !.raised = 0]
             s1 == Peak(y, 2)
             s  == ThrowEntry(x)
  <1>1. x \in Machines /\ x.d \in Nat /\ DSize \in Nat /\ x.raised # 0 /\ x.raised \in Int
    BY ExceptionsAssumption DEF Broken, Machines
  <1>2. y \in Machines /\ y.d = x.d /\ y.stackeh = x.stackeh /\ y.ehflag = x.ehflag
        /\ y.raised = 0 /\ y.rmem = x.rmem /\ y.handler = x.handler
    BY <1>1 DEF Machines
  <1> HIDE DEF y
  <1>3. s = [s1 EXCEPT !.raised = IF Running(s1) THEN x.raised ELSE s1.raised, !.stackeh = TRUE]
    BY DEF ThrowEntry, y
  <1>4. CASE s1 = y
    <2>1. Running(s1)
      BY <1>2, <1>4 DEF Running
    <2>2. s = [y EXCEPT !.raised = x.raised, !.stackeh = TRUE]
      BY <1>3, <1>4, <2>1
    <2> HIDE DEF s
    <2>3. s \in Machines
      BY <1>1, <1>2, <2>2 DEF Machines
    <2>4. /\ s.d = x.d /\ s.ehflag = x.ehflag /\ s.raised = x.raised /\ s.rmem = x.rmem
          /\ s.handler = x.handler
      BY <1>2, <2>2 DEF Machines
    <2>5. QED
      BY <2>3, <2>4 DEF Broken, Kept, s
  <1>5. CASE ~x.stackeh /\ ~(x.d + 2 <= DSize)
    <2>1. Sound(y)
      BY <1>1, <1>2, <1>5 DEF Sound, Broken
    <2>2. ~(y.d + 2 <= DSize)
      BY <1>2, <1>5
    <2>3. Raises(y, s1)
      BY <2>1, <2>2, PeakStep
    <2> HIDE DEF s1
    <2>4. ~Running(s1) /\ s1 \in Machines /\ s1.raised \in Int
      BY <2>3 DEF Running, Raises, Stops, Machines
    <2>5. s = [s1 EXCEPT !.raised = s1.raised, !.stackeh = TRUE]
      BY <1>3, <2>4
    <2> HIDE DEF s
    <2>6. s \in Machines
      BY <2>4, <2>5 DEF Machines
    <2>7. /\ s.d = s1.d /\ s.ehflag = s1.ehflag /\ s.raised = s1.raised /\ s.rmem = s1.rmem
          /\ s.handler = s1.handler
      BY <2>4, <2>5 DEF Machines
    <2>8. Kept(s)
      BY <1>2, <2>3, <2>7 DEF Raises, Stops, Kept, Broken
    <2>9. QED
      BY <2>3, <2>6, <2>7, <2>8 DEF Raises, Stops, s
  <1>6. CASE x.stackeh \/ x.d + 2 <= DSize
    <2>1. s1 = y
      BY <1>2, <1>6 DEF Peak
    <2>2. QED
      BY <1>4, <2>1
  <1>7. QED
    BY <1>5, <1>6

(* The frame of the last CATCH. *)
LEMMA LastCatch ==
  ASSUME Typed, FramesLinked, status = "running", m.handler # 0
  PROVE  LET h == m.handler IN
         \E k \in DOMAIN host :
           /\ host[k].kind = "catch" /\ host[k].base = h /\ m.rmem[h] = k
           /\ h \in 4 .. RSize /\ h <= Base /\ k \in 1 .. Len(host)
           /\ \A j \in k + 1 .. Len(host) : host[j].kind # "catch"
           /\ Handles(host, k - 1, m.rmem[h - 1]) /\ m.rmem[h - 1] \in 0 .. RSize
           /\ m.rmem[h - 2] \in 0 .. FSize
           /\ m.rmem[h - 3] \in Nat /\ m.rmem[h - 3] >= 1 /\ m.rmem[h - 3] + CatchRoom <= DSize
  <1> DEFINE h == m.handler
  <1>1. host \in Seq(Words) /\ Len(host) \in Nat /\ m \in Machines /\ m.rmem \in Memory
        /\ h \in 0 .. RSize
    BY LenProperties DEF Typed, Machines
  <1>2. Linked(host, m.rmem, h) /\ Stacked(host) /\ Handles(host, Len(host), h)
    BY DEF FramesLinked, Linked
  <1>3. Len(host) \in 0 .. Len(host)
    BY <1>1
  <1>4. PICK k \in 1 .. Len(host) :
          /\ k \in DOMAIN host /\ host[k].kind = "catch" /\ host[k].base = h
          /\ h >= 4 /\ h <= Owned(host)
          /\ \A j \in k + 1 .. Len(host) : host[j].kind # "catch"
    BY <1>1, <1>2, <1>3, HandlerRange
  <1>5. /\ m.rmem[h] = k /\ Handles(host, k - 1, m.rmem[h - 1])
        /\ m.rmem[h - 2] \in 0 .. FSize
        /\ m.rmem[h - 3] >= 1 /\ m.rmem[h - 3] + CatchRoom <= DSize
    BY <1>2, <1>4 DEF Linked, FrameOf
  <1>6. k - 1 \in 0 .. Len(host)
    BY <1>1
  <1>7. m.rmem[h - 1] \in 0 .. RSize
    BY <1>1, <1>2, <1>5, <1>6, HandlerRange
  <1>8. h \in 4 .. RSize /\ h <= Base
    <2>1. Base = Owned(host)
      BY BaseNat
    <2>2. RSize \in Nat
      BY ExceptionsAssumption
    <2>3. QED
      BY <1>1, <1>4, <2>1, <2>2
  <1>9. m.rmem[h - 3] \in Nat
    BY <1>1, <1>8, FrameCells
  <1>10. QED
    BY <1>4, <1>5, <1>7, <1>8, <1>9

(* The three ways that a THROW can end. *)
LEMMA ThrownCases ==
  ASSUME Typed, FramesLinked, status = "running", NEW x, Broken(x), Thrown(x)
  PROVE  Ended \/ Doubled \/ \E k \in DOMAIN host : Caught(k)
  <1> DEFINE s  == ThrowEntry(x)
             t  == [s EXCEPT !.ehflag = TRUE,
                      !.handler = IF s.raised = ReturnStackUnderflow THEN 0 ELSE @]
             u0 == Unwound(t)
             u  == FlagsCleared(u0)
             to == t.rmem[t.handler]
             h  == m.handler
  <1>1. /\ s \in Machines /\ ~s.ehflag /\ s.d <= DSize + 1 /\ s.raised # 0 /\ Kept(s)
        /\ s.raised = ReturnStackUnderflow => m.r = 0 \/ ReturnStackUnderflow \in Codes
    BY ThrowEntryStep
  <1>2. \/ /\ t.handler = 0
           /\ status' = IF t.raised = Quit THEN "quit" ELSE "reporting"
           /\ m' = Settled([t EXCEPT !.out = IF t.raised = Quit THEN @ ELSE stderr])
           /\ UNCHANGED <<host, redirect>>
        \/ /\ t.handler # 0 /\ Running(u)
           /\ m' = _dpop(u)
           /\ host' = SubSeq(host, 1, to - 1)
           /\ redirect' = SubSeq(redirect, 1, to - 1)
           /\ UNCHANGED status
        \/ /\ t.handler # 0 /\ ~Running(u)
           /\ status' = "double"
           /\ m' = Settled(u)
           /\ UNCHANGED <<host, redirect>>
        \/ t.handler # 0 /\ NoWord(t)
    BY <1>1 DEF Thrown
  <1> HIDE DEF s
  <1>3. t = [s EXCEPT !.ehflag = TRUE, !.handler = t.handler]
    BY <1>1 DEF Machines
  <1>4. /\ s.raised = ReturnStackUnderflow => t.handler = 0
        /\ s.raised # ReturnStackUnderflow => t.handler = s.handler
        /\ t.d = s.d /\ t.rmem = s.rmem /\ t.raised = s.raised /\ t.out = s.out
    BY <1>1 DEF Machines
  <1>5. t \in Machines
    <2>1. t.handler \in 0 .. RSize
      BY <1>1, <1>4, ExceptionsAssumption DEF Machines
    <2> HIDE DEF t
    <2>2. QED
      BY <1>1, <1>3, <2>1 DEF Machines
  <1> HIDE DEF t, u
  <1>6. CASE /\ t.handler = 0
             /\ status' = IF t.raised = Quit THEN "quit" ELSE "reporting"
             /\ m' = Settled([t EXCEPT !.out = IF t.raised = Quit THEN @ ELSE stderr])
             /\ UNCHANGED <<host, redirect>>
    <2>1. PICK o \in FileIds : m' = Settled([t EXCEPT !.out = o])
      BY <1>5, <1>6 DEF Machines, FileIds
    <2>2. m' = [t EXCEPT !.out = o, !.raised = 0]
      BY <1>5, <2>1 DEF Settled, Machines
    <2>3. m' \in Machines
      <3>1. [t EXCEPT !.out = o, !.raised = 0] \in Machines
        BY <1>5, MachineWith
      <3>2. QED
        BY <2>2, <3>1
    <2>4. m'.raised = 0 /\ m'.d = t.d /\ m'.handler = 0
      BY <1>5, <1>6, <2>2 DEF Machines
    <2>5. m.handler = 0 \/ m.r = 0 \/ ReturnStackUnderflow \in Codes
      BY <1>1, <1>4, <1>6 DEF Kept
    <2>6. QED
      BY <1>1, <1>4, <1>6, <2>3, <2>4, <2>5 DEF Ended
  <1>7. CASE t.handler # 0
    <2>1. t.handler = h /\ h # 0 /\ \A c \in 1 .. Base : t.rmem[c] = m.rmem[c]
      BY <1>1, <1>4, <1>7 DEF Kept
    <2>2. PICK k \in DOMAIN host :
            /\ host[k].kind = "catch" /\ host[k].base = h /\ m.rmem[h] = k
            /\ h \in 4 .. RSize /\ h <= Base
            /\ m.rmem[h - 1] \in 0 .. RSize /\ m.rmem[h - 2] \in 0 .. FSize
            /\ m.rmem[h - 3] \in Nat /\ m.rmem[h - 3] >= 1 /\ m.rmem[h - 3] + CatchRoom <= DSize
      BY <2>1, LastCatch
    <2> HIDE DEF h
    <2>3. /\ h \in 1 .. Base /\ h - 1 \in 1 .. Base /\ h - 2 \in 1 .. Base /\ h - 3 \in 1 .. Base
          /\ h - 4 \in 0 .. RSize
      <3>1. Base \in Nat /\ RSize \in Nat
        BY BaseNat, ExceptionsAssumption
      <3>2. QED
        BY <3>1, <2>2
    <2>4. t.rmem[h] = k /\ t.rmem[h - 1] = m.rmem[h - 1] /\ t.rmem[h - 2] = m.rmem[h - 2]
          /\ t.rmem[h - 3] = m.rmem[h - 3]
      BY <2>1, <2>2, <2>3
    <2> DEFINE depth == m.rmem[h - 3] + 1
    <2>5. depth \in Nat /\ t.rmem[h - 3] - 1 + 2 = depth /\ ~NoWord(t)
      BY <2>1, <2>2, <2>4 DEF NoWord
    <2>6. u0 = [t EXCEPT !.r = h - 4, !.handler = m.rmem[h - 1], !.f = m.rmem[h - 2], !.d = depth]
      BY <2>1, <2>4, <2>5 DEF Unwound
    <2> HIDE DEF u0, depth
    <2>7. u0 \in Machines
      BY <1>5, <2>2, <2>3, <2>5, <2>6 DEF Machines
    <2>8. u0.d = depth /\ u0.r = h - 4 /\ u0.f = m.rmem[h - 2] /\ u0.handler = m.rmem[h - 1]
          /\ u0.rmem = t.rmem
      BY <1>5, <2>6 DEF Machines
    <2> DEFINE v == [u0 EXCEPT !.stackeh = FALSE, !.raised = 0]
               w == Peak(v, 2)
    <2>9. u = IF Running(w) THEN [w EXCEPT !.ehflag = FALSE] ELSE w
      BY DEF FlagsCleared, u
    <2>10. v \in Machines /\ v.d = depth /\ v.r = h - 4 /\ v.f = m.rmem[h - 2]
           /\ v.handler = m.rmem[h - 1] /\ v.rmem = t.rmem /\ v.raised = 0 /\ ~v.stackeh
      <3>1. v \in Machines
        <4>1. [u0 EXCEPT !.stackeh = FALSE, !.raised = 0] \in Machines
          BY <2>7, MachineWith
        <4>2. QED
          BY <4>1
      <3>2. /\ v.d = u0.d /\ v.r = u0.r /\ v.f = u0.f /\ v.handler = u0.handler
            /\ v.rmem = u0.rmem /\ v.raised = 0 /\ ~v.stackeh
        BY <2>7 DEF Machines
      <3> HIDE DEF v
      <3>3. QED
        BY <2>8, <3>1, <3>2
    <2> HIDE DEF v
    <2>11. DSize \in Nat /\ CatchRoom \in Nat
      BY ExceptionsAssumption
    <2>12. CASE depth + 2 <= DSize
      <3>1. w = v
        BY <2>10, <2>12 DEF Peak
      <3>2. u = [v EXCEPT !.ehflag = FALSE]
        BY <2>9, <2>10, <3>1 DEF Running
      <3>3. u \in Machines /\ u.d = depth /\ u.r = h - 4 /\ u.f = m.rmem[h - 2]
            /\ u.handler = m.rmem[h - 1] /\ u.rmem = t.rmem /\ u.raised = 0 /\ ~u.stackeh
            /\ ~u.ehflag
        BY <2>10, <3>2 DEF Machines
      <3>4. Sound(u)
        BY <2>5, <2>11, <2>12, <3>3 DEF Sound
      <3>5. Running(u) /\ ~(u.d = 0)
        BY <2>2, <3>3 DEF Running, depth
      <3>6. /\ m' = _dpop(u)
            /\ host' = SubSeq(host, 1, k - 1) /\ redirect' = SubSeq(redirect, 1, k - 1)
            /\ UNCHANGED status
        BY <1>2, <1>7, <2>1, <2>4, <2>5, <3>5
      <3>7. _dpop(u) = [u EXCEPT !.d = u.d - 1] /\ Sound(_dpop(u))
        BY <3>4, <3>5, DPopStep
      <3>8. /\ m'.d = u.d - 1 /\ m'.r = u.r /\ m'.f = u.f /\ m'.handler = u.handler
            /\ m'.rmem = u.rmem /\ Sound(m')
        BY <3>3, <3>6, <3>7 DEF Machines
      <3>9. m'.d = m.rmem[h - 3]
        BY <2>2, <3>3, <3>8 DEF depth
      <3>10. /\ m'.r = h - 4 /\ m'.f = m.rmem[h - 2] /\ m'.handler = m.rmem[h - 1]
             /\ m'.rmem = t.rmem
        BY <3>3, <3>8
      <3>11. \A c \in 1 .. Base : m'.rmem[c] = m.rmem[c]
        BY <2>1, <3>10
      <3>12. Caught(k)
        BY <2>1, <2>2, <3>6, <3>8, <3>9, <3>10, <3>11 DEF Caught, h
      <3>13. QED
        BY <3>12
    <2>13. CASE ~(depth + 2 <= DSize)
      <3>1. CatchRoom < 3
        BY <2>2, <2>11, <2>13 DEF depth
      <3> DEFINE e == IF v.d < DSize THEN DSize ELSE v.d
                 p == [v EXCEPT !.d = e + 1, !.stackeh = TRUE, !.raised = StackOverflow]
      <3>2. w = p
        BY <2>10, <2>13 DEF Peak, Running, _starteh, Machines
      <3>3. depth <= DSize + 1
        BY <2>2, <2>11 DEF depth
      <3>4. e + 1 \in Nat /\ e + 1 <= DSize + 2
        BY <2>5, <2>10, <2>11, <3>3
      <3> HIDE DEF e
      <3>5. StackOverflow \in Int /\ StackOverflow # 0
        BY DEF StackOverflow
      <3>6. p \in Machines
        <4> HIDE DEF p
        <4>1. \A z \in Nat, y \in Int : [v EXCEPT !.d = z, !.stackeh = TRUE, !.raised = y] \in Machines
          BY <2>10, MachineWith
        <4>2. [v EXCEPT !.d = e + 1, !.stackeh = TRUE, !.raised = StackOverflow] \in Machines
          BY <3>4, <3>5, <4>1
        <4>3. QED
          BY <4>2 DEF p
      <3>7. p.d = e + 1 /\ p.raised # 0
        BY <2>10, <3>5 DEF Machines
      <3> HIDE DEF p
      <3>8. u = p /\ ~Running(u)
        BY <2>9, <3>2, <3>7 DEF Running
      <3>9. /\ status' = "double" /\ m' = Settled(p) /\ UNCHANGED <<host, redirect>>
        BY <1>2, <1>7, <2>5, <3>8
      <3>10. m' \in Machines /\ m'.raised = 0 /\ m'.d = p.d
        BY <3>6, <3>9 DEF Settled, Machines
      <3>11. QED
        BY <3>1, <3>4, <3>7, <3>9, <3>10 DEF Doubled
    <2>14. QED
      BY <2>12, <2>13
  <1>8. QED
    BY <1>2, <1>6, <1>7

(* THROW to a CATCH without a word ends in a second exception, with two cells
   of its frame in use.                                                       *)
NothingDropped ==
  /\ m.d = 0 /\ status' = "double"
  /\ m' \in Machines /\ m'.raised = 0 /\ m'.d = 1 /\ m'.r = m.r + 2
  /\ UNCHANGED <<host, redirect>>

LEMMA WordMissingThrown ==
  ASSUME Typed, Sound(m), NEW x, WordMissing(x), Thrown(x)
  PROVE  NothingDropped
  <1> DEFINE y  == [x EXCEPT !.raised = 0]
             s1 == Peak(y, 2)
             s  == ThrowEntry(x)
             t  == [s EXCEPT !.ehflag = TRUE,
                      !.handler = IF s.raised = ReturnStackUnderflow THEN 0 ELSE @]
             h  == m.r + 4
  <1>1. /\ m \in Machines /\ m.r \in Nat /\ m.f \in 0 .. FSize /\ m.handler \in 0 .. RSize
        /\ RSize \in Nat /\ DSize \in Nat
    BY ExceptionsAssumption DEF Sound, Machines
  <1>2. /\ x \in Machines /\ x.raised # 0 /\ x.raised # ReturnStackUnderflow /\ ~x.ehflag
        /\ x.handler = h /\ h <= RSize /\ m.d = 0
        /\ x.rmem[m.r + 3] = m.handler /\ x.rmem[m.r + 2] = m.f /\ x.rmem[m.r + 1] = 0
    BY DEF WordMissing
  <1>3. /\ h \in Nat /\ h >= 4 /\ h # 0 /\ h - 1 = m.r + 3 /\ h - 2 = m.r + 2 /\ h - 3 = m.r + 1
        /\ h - 2 \in Nat
    BY <1>1
  <1> HIDE DEF h
  <1>4. y \in Machines /\ y.ehflag = x.ehflag /\ y.raised = 0 /\ y.rmem = x.rmem
        /\ y.handler = x.handler /\ y.d \in Nat
    BY <1>2 DEF Machines
  <1>5. s = [s1 EXCEPT !.raised = IF Running(s1) THEN x.raised ELSE s1.raised, !.stackeh = TRUE]
    BY DEF ThrowEntry
  <1> HIDE DEF y
  <1>6. /\ s1 \in Machines /\ ~s1.ehflag /\ s1.rmem = x.rmem /\ s1.handler = h
        /\ s1.raised \in {0, StackOverflow}
    <2>1. CASE s1 = y
      BY <1>2, <1>4, <2>1
    <2>2. CASE s1 # y
      <3> DEFINE e == IF y.d < DSize THEN DSize ELSE y.d
                 p == [y EXCEPT !.d = e + 1, !.stackeh = TRUE, !.raised = StackOverflow]
      <3>1. s1 = p
        BY <1>4, <2>2 DEF Peak, _starteh, Machines
      <3>2. e + 1 \in Nat /\ StackOverflow \in Int
        BY <1>1, <1>4 DEF StackOverflow
      <3> HIDE DEF e
      <3>3. p \in Machines
        BY <1>4, <3>2, MachineWith
      <3>4. p.ehflag = y.ehflag /\ p.rmem = y.rmem /\ p.handler = y.handler
            /\ p.raised = StackOverflow
        BY <1>4 DEF Machines
      <3> HIDE DEF p
      <3>5. QED
        BY <1>2, <1>4, <3>1, <3>3, <3>4
    <2>3. QED
      BY <2>1, <2>2
  <1> HIDE DEF s1
  <1>7. /\ s \in Machines /\ ~s.ehflag /\ s.rmem = x.rmem /\ s.handler = h
        /\ s.raised # ReturnStackUnderflow
    <2>1. StackOverflow # ReturnStackUnderflow /\ StackOverflow # 0
      BY DEF StackOverflow, ReturnStackUnderflow
    <2> DEFINE code == IF Running(s1) THEN x.raised ELSE s1.raised
    <2>2. code \in Int /\ code # ReturnStackUnderflow
      BY <1>2, <1>6, <2>1 DEF Running, Machines
    <2>3. s = [s1 EXCEPT !.raised = code, !.stackeh = TRUE]
      BY <1>5
    <2> HIDE DEF code, s
    <2>4. QED
      BY <1>6, <2>2, <2>3 DEF Machines
  <1> HIDE DEF s
  <1>8. t = [s EXCEPT !.ehflag = TRUE] /\ t \in Machines /\ t.rmem = x.rmem /\ t.handler = h
    BY <1>7 DEF Machines
  <1>9. NoWord(t) /\ t.handler # 0
    BY <1>2, <1>3, <1>8 DEF NoWord
  <1>10. /\ status' = "double" /\ m' = Settled(Undropped(t)) /\ UNCHANGED <<host, redirect>>
    BY <1>7, <1>9 DEF Thrown, s
  <1> HIDE DEF t
  <1>11. Undropped(t) = [t EXCEPT !.r = h - 2, !.handler = m.handler, !.f = m.f, !.d = 1]
    <2>1. t.rmem[h - 1] = m.handler /\ t.rmem[h - 2] = m.f
      BY <1>2, <1>3, <1>8
    <2>2. QED
      BY <1>8, <2>1 DEF Undropped
  <1>12. h - 2 \in 0 .. RSize /\ 1 \in Nat
    <2>1. h - 2 <= RSize
      BY <1>1, <1>2, <1>3
    <2>2. QED
      BY <1>1, <1>3, <2>1
  <1>13. /\ Undropped(t) \in Machines /\ Undropped(t).d = 1 /\ Undropped(t).r = h - 2
    BY <1>1, <1>8, <1>11, <1>12 DEF Machines
  <1>14. m' \in Machines /\ m'.raised = 0 /\ m'.d = 1 /\ m'.r = h - 2
    BY <1>10, <1>13 DEF Settled, Machines
  <1>15. QED
    BY <1>2, <1>3, <1>10, <1>14 DEF NothingDropped

-----------------------------------------------------------------------------
(* The invariant. *)

(* A word begins with a machine in order. *)
LEMMA SoundNow ==
  ASSUME Typed, FlagsDown, status = "running"
  PROVE  Sound(m) /\ Kept(m) /\ m \in Machines
  BY DEF Typed, FlagsDown, Sound, Kept

(* The sequences, with the last of them cut off. *)
LEMMA Cut ==
  ASSUME Typed, NEW n \in 0 .. Len(host)
  PROVE  /\ SubSeq(host, 1, n) \in Seq(Words) /\ Len(SubSeq(host, 1, n)) = n
         /\ SubSeq(redirect, 1, n) \in Seq(FileIds) /\ Len(SubSeq(redirect, 1, n)) = n
  <1>1. host \in Seq(Words) /\ redirect \in Seq(FileIds) /\ Len(redirect) = Len(host)
        /\ Len(host) \in Nat
    BY LenProperties DEF Typed
  <1>2. ASSUME NEW S, NEW s \in Seq(S), Len(s) = Len(host)
        PROVE  SubSeq(s, 1, n) \in Seq(S) /\ Len(SubSeq(s, 1, n)) = n
    <2>1. \A i \in 1 .. n : i \in 1 .. Len(s)
      BY <1>1, <1>2
    <2>2. n \in Nat
      BY <1>1
    <2>3. QED
      BY <1>2, <2>1, <2>2
  <1>3. QED
    BY <1>1, <1>2

(* The machine goes on, with the last words of host cut off. *)
LEMMA GoesOn ==
  ASSUME Typed, FramesLinked, status = "running",
         Sound(m'), \A c \in 1 .. Base : m'.rmem[c] = m.rmem[c],
         NEW n \in 0 .. Len(host), Handles(host, n, m'.handler),
         host' = SubSeq(host, 1, n), redirect' = SubSeq(redirect, 1, n), UNCHANGED status
  PROVE  ExceptionsInv'
  <1>1. /\ host \in Seq(Words) /\ m.rmem \in Memory /\ m'.rmem \in Memory /\ m' \in Machines
        /\ m'.r \in 0 .. RSize /\ m'.d \in Nat
    BY DEF Typed, Machines, Sound
  <1>2. Linked(host, m'.rmem, m.handler)
    <2>1. \A c \in 1 .. Owned(host) : m'.rmem[c] = m.rmem[c]
      BY BaseNat
    <2>2. QED
      BY <1>1, <2>1, LinkedSame DEF FramesLinked
  <1>3. Linked(host', m'.rmem, m'.handler)
    BY <1>1, <1>2, LinkedPrefix
  <1>4. FramesLinked'
    BY <1>3 DEF FramesLinked
  <1>5. DSize \in Nat /\ Reserve \in Nat /\ RSize \in Nat
    BY ExceptionsAssumption
  <1>6. m'.d <= DSize /\ m'.raised = 0 /\ ~m'.ehflag /\ ~m'.stackeh
    BY DEF Sound
  <1>7. FlagsDown'
    <2>1. m'.r <= RSize
      BY <1>1, <1>5
    <2>2. QED
      BY <1>6, <2>1 DEF FlagsDown
  <1>8. m'.d <= (DSize + Reserve) + 2 /\ m'.d <= DSize + 1
    BY <1>1, <1>5, <1>6
  <1>9. Typed'
    <2>1. host' \in Seq(Words) /\ redirect' \in Seq(FileIds) /\ Len(redirect') = Len(host')
      BY Cut
    <2>2. status' \in Statuses /\ status' # "double"
      BY DEF Statuses
    <2>3. QED
      BY <1>1, <1>6, <1>8, <2>1, <2>2 DEF Typed
  <1>10. QED
    BY <1>4, <1>7, <1>9 DEF ExceptionsInv

(* The machine goes on with the same words. *)
LEMMA KeptInv ==
  ASSUME Typed, FramesLinked, status = "running", Sound(m'), Kept(m'),
         UNCHANGED <<host, status, redirect>>
  PROVE  ExceptionsInv'
  <1>1. host \in Seq(Words) /\ redirect \in Seq(FileIds) /\ Len(redirect) = Len(host)
        /\ Len(host) \in Nat
    BY LenProperties DEF Typed
  <1>2. host' = SubSeq(host, 1, Len(host)) /\ redirect' = SubSeq(redirect, 1, Len(host))
    <2>1. ASSUME NEW S, NEW s \in Seq(S) PROVE s = SubSeq(s, 1, Len(s))
      OBVIOUS
    <2>2. host = SubSeq(host, 1, Len(host))
      BY <1>1, <2>1
    <2>3. redirect = SubSeq(redirect, 1, Len(redirect))
      BY <1>1, <2>1
    <2>4. QED
      BY <1>1, <2>2, <2>3
  <1>3. Handles(host, Len(host), m'.handler)
    BY DEF FramesLinked, Linked, Kept
  <1>4. Len(host) \in 0 .. Len(host)
    BY <1>1
  <1>5. \A c \in 1 .. Base : m'.rmem[c] = m.rmem[c]
    BY DEF Kept
  <1>6. UNCHANGED status
    OBVIOUS
  <1>7. QED
    BY <1>2, <1>3, <1>4, <1>5, <1>6, GoesOn

(* The program ends with the types kept. *)
LEMMA EndedInv ==
  ASSUME Typed, Ended
  PROVE  ExceptionsInv'
  <1>1. m' \in Machines /\ m'.d \in Nat /\ DSize \in Nat /\ Reserve \in Nat
    BY ExceptionsAssumption DEF Ended, Machines
  <1>2. m'.d <= DSize + 1 /\ m'.raised = 0 /\ status' \in {"quit", "reporting"}
    BY DEF Ended
  <1>3. m'.d <= (DSize + Reserve) + 2
    BY <1>1, <1>2
  <1>4. Typed'
    BY <1>1, <1>2, <1>3 DEF Typed, Ended, Statuses
  <1>5. QED
    BY <1>2, <1>4 DEF ExceptionsInv, FlagsDown, FramesLinked

(* There is memory for the second exception. *)
LEMMA DoubledInv ==
  ASSUME Typed, Doubled
  PROVE  ExceptionsInv'
  <1>1. m' \in Machines /\ m'.d \in Nat /\ DSize \in Nat /\ Reserve \in Nat /\ Reserve >= 3
    BY ExceptionsAssumption DEF Doubled, Machines
  <1>2. m'.d <= DSize + 2 /\ m'.raised = 0 /\ status' = "double"
    BY DEF Doubled
  <1>3. m'.d <= (DSize + Reserve) + 2 /\ m'.d <= DSize + Reserve
    BY <1>1, <1>2
  <1>4. Typed'
    BY <1>1, <1>2, <1>3 DEF Typed, Doubled, Statuses
  <1>5. QED
    BY <1>2, <1>4 DEF ExceptionsInv, FlagsDown, FramesLinked

(* Nor is there more on the stack after a CATCH without a word. *)
LEMMA NothingDroppedInv ==
  ASSUME Typed, NothingDropped
  PROVE  ExceptionsInv'
  <1>1. DSize \in Nat /\ Reserve \in Nat /\ Reserve >= 3
    BY ExceptionsAssumption
  <1>2. m' \in Machines /\ m'.raised = 0 /\ status' = "double" /\ m'.d = 1
    BY DEF NothingDropped
  <1>3. m'.d <= (DSize + Reserve) + 2 /\ m'.d <= DSize + Reserve
    BY <1>1, <1>2
  <1>4. Typed'
    BY <1>1, <1>2, <1>3 DEF Typed, NothingDropped, Statuses
  <1>5. QED
    BY <1>2, <1>4 DEF ExceptionsInv, FlagsDown, FramesLinked

(* A THROW keeps the invariant. *)
LEMMA ThrownInv ==
  ASSUME Typed, FramesLinked, status = "running", NEW x, Broken(x), Thrown(x)
  PROVE  ExceptionsInv'
  <1>1. ASSUME NEW k \in DOMAIN host, Caught(k) PROVE ExceptionsInv'
    <2>1. m.handler # 0
      BY <1>1 DEF Caught
    <2>2. PICK j \in DOMAIN host :
            /\ host[j].base = m.handler /\ host[j].kind = "catch" /\ j \in 1 .. Len(host)
            /\ m.rmem[m.handler] = j
            /\ Handles(host, j - 1, m.rmem[m.handler - 1])
      BY <2>1, LastCatch
    <2>3. j = k
      <3>1. host[k].base = m.handler /\ host[k].kind = "catch"
        BY <1>1 DEF Caught
      <3>2. FrameOf(host, m.rmem, k)
        BY DEF FramesLinked, Linked
      <3>3. m.rmem[m.handler] = k
        BY <3>1, <3>2 DEF FrameOf
      <3>4. QED
        BY <2>2, <3>3
    <2>4. k - 1 \in 0 .. Len(host)
      <3>1. Len(host) \in Nat
        BY LenProperties DEF Typed
      <3>2. QED
        BY <2>2, <2>3, <3>1
    <2>5. Handles(host, k - 1, m'.handler)
      BY <1>1, <2>2, <2>3 DEF Caught
    <2>6. /\ Sound(m') /\ \A c \in 1 .. Base : m'.rmem[c] = m.rmem[c]
          /\ host' = SubSeq(host, 1, k - 1) /\ redirect' = SubSeq(redirect, 1, k - 1)
          /\ UNCHANGED status
      BY <1>1 DEF Caught
    <2>7. QED
      BY <2>4, <2>5, <2>6, GoesOn
  <1>2. QED
    BY <1>1, ThrownCases, EndedInv, DoubledInv

-----------------------------------------------------------------------------
(* What a step of the program comes to. *)

Raised == \E x : Broken(x) /\ Thrown(x)

Worked == Sound(m') /\ Kept(m') /\ UNCHANGED <<host, status, redirect>>

Called(kind) ==
  /\ host' = Append(host, [kind |-> kind, base |-> m'.r])
  /\ redirect' = Append(redirect, m.out)
  /\ m.r >= Base /\ UNCHANGED status

Returned(kind) ==
  /\ host # << >> /\ m.r = Base /\ host[Len(host)].kind = kind
  /\ host' = SubSeq(host, 1, Len(host) - 1) /\ redirect' = SubSeq(redirect, 1, Len(host) - 1)
  /\ UNCHANGED status

CalledByCatch ==
  /\ m.d > 0 /\ m.d + CatchRoom <= DSize
  /\ EntersCatch(m', Len(host) + 1) /\ Called("catch")

CatchWithoutWord == Catch /\ NothingDropped

CalledRedirected == Redirected(m') /\ Called("redirect")

ReturnedToCatch == LeavesCatch(m') /\ Returned("catch")

ReturnedRedirected ==
  /\ Sound(m') /\ m'.handler = m.handler /\ m'.rmem = m.rmem
  /\ Returned("redirect")

(* A word is done, or throws. *)
LEMMA CompletedStep ==
  ASSUME NEW t, Works(t), Completed(t)
  PROVE  Raised \/ Worked
  <1>1. CASE Broken(t)
    <2>1. Thrown(t)
      BY <1>1, BrokenStops DEF Completed
    <2>2. QED
      BY <1>1, <2>1 DEF Raised
  <1>2. CASE Sound(t) /\ Kept(t)
    <2>1. m' = t /\ UNCHANGED <<host, status, redirect>>
      BY <1>2 DEF Completed, Running, Sound
    <2>2. Sound(m') /\ Kept(m')
      BY <1>2, <2>1
    <2>3. QED
      BY <2>1, <2>2 DEF Worked
  <1>3. QED
    BY <1>1, <1>2 DEF Works

(* The frame that a word returns over. *)
LEMMA LastFrame ==
  ASSUME Typed, FramesLinked, status = "running", host # << >>
  PROVE  LET n == Len(host) IN
         /\ n \in DOMAIN host /\ n \in 1 .. n /\ n - 1 \in 0 .. n /\ Base = host[n].base
         /\ host[n].kind = "catch" =>
              /\ Base >= 4 /\ m.handler = Base /\ m.rmem[Base - 1] \in 0 .. RSize
              /\ Handles(host, n - 1, m.rmem[Base - 1])
         /\ host[n].kind # "catch" =>
              /\ Base >= 2 /\ host[n].kind = "redirect" /\ m.rmem[Base - 1] \in FileIds
              /\ Handles(host, n - 1, m.handler)
  <1> DEFINE n == Len(host)
  <1>1. host \in Seq(Words) /\ Stacked(host) /\ Handles(host, n, m.handler) /\ Base = host[n].base
    BY DEF Typed, FramesLinked, Linked, Base
  <1>2. n \in Nat /\ n \in DOMAIN host /\ n \in 1 .. n /\ n - 1 \in 0 .. n
    BY <1>1, LenProperties, EmptySeq
  <1>3. FrameOf(host, m.rmem, n)
    BY <1>2 DEF FramesLinked, Linked
  <1> HIDE DEF n
  <1>4. CASE host[n].kind = "catch"
    <2>1. host[n].base >= 4
      BY <1>1, <1>2, <1>4, Bases
    <2>2. Handles(host, n - 1, m.rmem[Base - 1])
      BY <1>1, <1>3, <1>4 DEF FrameOf
    <2>3. n - 1 \in 0 .. Len(host)
      BY <1>2 DEF n
    <2>4. m.rmem[Base - 1] \in 0 .. RSize
      BY <1>1, <2>2, <2>3, HandlerRange
    <2>5. m.handler = Base
      <3>1. ~(\A k \in 1 .. n : host[k].kind # "catch")
        BY <1>2, <1>4
      <3>2. PICK k \in 1 .. n : /\ host[k].base = m.handler
                                /\ \A j \in k + 1 .. n : host[j].kind # "catch"
        BY <1>1, <3>1 DEF Handles
      <3>3. k = n
        <4>1. CASE k # n
          <5>1. n \in k + 1 .. n
            BY <1>2, <4>1
          <5>2. QED
            BY <1>4, <3>2, <5>1
        <4>2. QED
          BY <4>1
      <3>4. QED
        BY <1>1, <3>2, <3>3
    <2>6. QED
      BY <1>1, <1>2, <1>4, <2>1, <2>2, <2>4, <2>5 DEF n
  <1>5. CASE host[n].kind # "catch"
    <2>1. host[n].base >= 2 /\ host[n].kind = "redirect"
      BY <1>1, <1>2, <1>5, Bases
    <2>2. m.rmem[Base - 1] \in FileIds
      BY <1>1, <1>3, <2>1 DEF FrameOf
    <2>3. Handles(host, n - 1, m.handler)
      <3>1. CASE m.handler = 0 /\ \A k \in 1 .. n : host[k].kind # "catch"
        <4>1. \A k \in 1 .. n - 1 : k \in 1 .. n
          BY <1>2
        <4>2. QED
          BY <3>1, <4>1 DEF Handles
      <3>2. CASE \E k \in 1 .. n : /\ host[k].kind = "catch" /\ host[k].base = m.handler
                                   /\ \A j \in k + 1 .. n : host[j].kind # "catch"
        <4>1. PICK k \in 1 .. n : /\ host[k].kind = "catch" /\ host[k].base = m.handler
                                  /\ \A j \in k + 1 .. n : host[j].kind # "catch"
          BY <3>2
        <4>2. k # n
          BY <4>1, <1>5
        <4>3. k \in 1 .. n - 1
          BY <1>2, <4>2
        <4>4. \A j \in k + 1 .. n - 1 : j \in k + 1 .. n
          BY <1>2
        <4>5. QED
          BY <4>1, <4>3, <4>4 DEF Handles
      <3>3. QED
        BY <1>1, <3>1, <3>2 DEF Handles
    <2>4. QED
      BY <1>1, <1>2, <1>5, <2>1, <2>2, <2>3 DEF n
  <1>6. QED
    BY <1>4, <1>5

(* Every step of a running program is one of these. *)
LEMMA ProgramStep ==
  ASSUME Typed, FlagsDown, FramesLinked, status = "running", ExceptionsNext
  PROVE  \/ Raised \/ Worked \/ CalledByCatch \/ CatchWithoutWord \/ CalledRedirected
         \/ ReturnedToCatch \/ ReturnedRedirected
  <1>1. Sound(m) /\ Kept(m) /\ m \in Machines
    BY SoundNow
  <1>2. Works(m)
    BY <1>1 DEF Works
  <1>3. CASE Push
    BY <1>2, <1>3, StepsWork, CompletedStep DEF Push
  <1>4. CASE Pop
    BY <1>2, <1>4, StepsWork, CompletedStep DEF Pop
  <1>5. CASE ToR
    BY <1>1, <1>5, ToRWorks, CompletedStep DEF ToR
  <1>6. CASE RFrom
    <2>1. Works(_dpush(_rpop(m)))
      BY <1>1, RPopWorks, StepsWork
    <2>2. QED
      BY <1>6, <2>1, CompletedStep DEF RFrom
  <1>7. CASE ToF
    <2>1. Works(_fpush(_dpop(m)))
      BY <1>2, StepsWork
    <2>2. QED
      BY <1>7, <2>1, CompletedStep DEF ToF
  <1>8. CASE FFrom
    <2>1. Works(_dpush(_fpop(m)))
      BY <1>2, StepsWork
    <2>2. QED
      BY <1>8, <2>1, CompletedStep DEF FFrom
  <1>9. CASE Catch
    <2> DEFINE ctx == Len(host) + 1
               s == CatchEntry(m, ctx)
    <2>1. /\ m.d + CatchRoom <= DSize /\ m.r >= Base /\ Entered(s, "catch")
      BY <1>9 DEF Catch
    <2>2. ctx \in Nat
      BY LenProperties DEF Typed
    <2> HIDE DEF ctx
    <2>3. (m.d > 0 /\ EntersCatch(s, ctx)) \/ Broken(s) \/ WordMissing(s)
      BY <1>1, <2>1, <2>2, CatchEntryStep
    <2> HIDE DEF s
    <2>4. CASE Broken(s)
      BY <2>1, <2>4, BrokenStops DEF Entered, Raised
    <2>5. CASE m.d > 0 /\ EntersCatch(s, ctx)
      <3>1. Running(s)
        BY <2>5 DEF EntersCatch, Sound, Running
      <3>2. m' = s /\ Called("catch")
        BY <2>1, <3>1 DEF Entered, Called
      <3>3. QED
        BY <2>1, <2>5, <3>2 DEF CalledByCatch, ctx
    <2>6. CASE WordMissing(s)
      <3>1. Thrown(s)
        BY <2>1, <2>6 DEF WordMissing, Running, Entered
      <3>2. QED
        BY <1>1, <1>9, <2>6, <3>1, WordMissingThrown DEF CatchWithoutWord
    <2>7. QED
      BY <2>3, <2>4, <2>5, <2>6
  <1>10. CASE OutfileExecute
    <2> DEFINE s == RedirectEntry(m, file)
    <2>1. m.r >= Base /\ Entered(s, "redirect")
      BY <1>10 DEF OutfileExecute
    <2>2. file \in FileIds
      BY DEF FileIds
    <2>3. Redirected(s) \/ Broken(s)
      BY <1>1, <2>1, <2>2, RedirectEntryStep
    <2> HIDE DEF s
    <2>4. CASE Broken(s)
      BY <2>1, <2>4, BrokenStops DEF Entered, Raised
    <2>5. CASE Redirected(s)
      <3>1. Running(s)
        BY <2>5 DEF Redirected, Sound, Running
      <3>2. m' = s /\ Called("redirect")
        BY <2>1, <3>1 DEF Entered, Called
      <3>3. QED
        BY <2>5, <3>2 DEF CalledRedirected
    <2>6. QED
      BY <2>3, <2>4, <2>5
  <1>11. CASE Return
    <2>1. host # << >> /\ m.r = Base
      BY <1>11 DEF Return
    <2>2. CASE host[Len(host)].kind = "catch"
      <3> DEFINE s == CatchExit(m)
      <3>1. IF Running(s)
            THEN /\ m' = s
                 /\ host' = SubSeq(host, 1, Len(host) - 1)
                 /\ redirect' = SubSeq(redirect, 1, Len(host) - 1)
                 /\ UNCHANGED status
            ELSE Thrown(s)
        BY <1>11, <2>2 DEF Return
      <3>2. LeavesCatch(s) \/ Broken(s)
        BY <1>1, <2>1, <2>2, LastFrame, CatchExitStep
      <3> HIDE DEF s
      <3>3. CASE Broken(s)
        BY <3>1, <3>3, BrokenStops DEF Raised
      <3>4. CASE LeavesCatch(s)
        <4>1. Running(s)
          BY <3>4 DEF LeavesCatch, Sound, Running
        <4>2. m' = s /\ Returned("catch")
          BY <2>1, <2>2, <3>1, <4>1 DEF Returned
        <4>3. QED
          BY <3>4, <4>2 DEF ReturnedToCatch
      <3>5. QED
        BY <3>2, <3>3, <3>4
    <2>3. CASE host[Len(host)].kind # "catch"
      <3> DEFINE s == RedirectExit(m)
      <3>1. IF Running(s)
            THEN /\ m' = s
                 /\ host' = SubSeq(host, 1, Len(host) - 1)
                 /\ redirect' = SubSeq(redirect, 1, Len(host) - 1)
                 /\ UNCHANGED status
            ELSE Thrown(s)
        BY <1>11, <2>3 DEF Return
      <3>2. host[Len(host)].kind = "redirect"
        BY <2>1, <2>3, LastFrame
      <3>3. (Sound(s) /\ s.handler = m.handler /\ s.rmem = m.rmem) \/ Broken(s)
        BY <1>1, <2>1, <2>3, LastFrame, RedirectExitStep
      <3> HIDE DEF s
      <3>4. CASE Broken(s)
        BY <3>1, <3>4, BrokenStops DEF Raised
      <3>5. CASE Sound(s) /\ s.handler = m.handler /\ s.rmem = m.rmem
        <4>1. Running(s)
          BY <3>5 DEF Sound, Running
        <4>2. m' = s /\ Returned("redirect")
          BY <2>1, <3>1, <3>2, <4>1 DEF Returned
        <4>3. QED
          BY <3>5, <4>2 DEF ReturnedRedirected
      <3>6. QED
        BY <3>3, <3>4, <3>5
    <2>4. QED
      BY <2>2, <2>3
  <1>12. CASE Throw
    <2>1. PICK code \in Codes :
            IF code = 0 THEN Completed(_dpop(Peak(_dpush(m), 2)))
            ELSE Thrown(IF Running(_dpush(m)) THEN [_dpush(m) EXCEPT !.raised = code] ELSE _dpush(m))
      BY <1>12 DEF Throw
    <2>2. Works(_dpush(m))
      BY <1>2, StepsWork
    <2>3. CASE code = 0
      <3>1. Works(_dpop(Peak(_dpush(m), 2)))
        BY <2>2, StepsWork
      <3>2. QED
        BY <2>1, <2>3, <3>1, CompletedStep
    <2>4. CASE code # 0 /\ Broken(_dpush(m))
      <3>1. Thrown(_dpush(m))
        BY <2>1, <2>4, BrokenStops
      <3>2. QED
        BY <2>4, <3>1 DEF Raised
    <2>5. CASE code # 0 /\ Sound(_dpush(m)) /\ Kept(_dpush(m))
      <3> DEFINE s == _dpush(m)
                 x == [s EXCEPT !.raised = code]
      <3>1. Thrown(x)
        BY <2>1, <2>5 DEF Running, Sound
      <3>2. s \in Machines /\ s.d <= DSize /\ ~s.ehflag /\ Kept(s) /\ code \in Int
        BY <2>5, ExceptionsAssumption DEF Sound
      <3> HIDE DEF s
      <3>3. x \in Machines
        BY <3>2 DEF Machines
      <3>4. x.d = s.d /\ x.raised = code /\ x.ehflag = s.ehflag /\ x.rmem = s.rmem
            /\ x.handler = s.handler
        BY <3>2 DEF Machines
      <3>5. s.d \in Nat /\ DSize \in Nat
        BY <3>2, ExceptionsAssumption DEF Machines
      <3> HIDE DEF x
      <3>6. x.d <= DSize /\ x.d <= DSize + 1
        BY <3>2, <3>4, <3>5
      <3>7. Kept(x)
        BY <3>2, <3>4 DEF Kept
      <3>8. Broken(x)
        BY <2>5, <3>2, <3>3, <3>4, <3>6, <3>7 DEF Broken
      <3>9. QED
        BY <3>1, <3>8 DEF Raised
    <2>6. QED
      BY <2>2, <2>3, <2>4, <2>5 DEF Works
  <1>13. QED
    BY <1>3, <1>4, <1>5, <1>6, <1>7, <1>8, <1>9, <1>10, <1>11, <1>12
    DEF ExceptionsNext, Report, DoubleException, Over

(* CATCH makes a frame for the word that it runs. *)
LEMMA CalledByCatchInv ==
  ASSUME Typed, FramesLinked, status = "running", m \in Machines, CalledByCatch
  PROVE  ExceptionsInv'
  <1> DEFINE e == [kind |-> "catch", base |-> m.r + 4]
  <1>1. /\ EntersCatch(m', Len(host) + 1) /\ m.r >= Base /\ m.d > 0 /\ m.d + CatchRoom <= DSize
        /\ UNCHANGED status /\ redirect' = Append(redirect, m.out)
    BY DEF CalledByCatch, Called
  <1>2. host' = Append(host, e)
    BY DEF CalledByCatch, Called, EntersCatch
  <1>3. /\ m.d \in Nat /\ m.r \in Nat /\ m.f \in 0 .. FSize /\ m.rmem \in Memory /\ m.out \in FileIds
        /\ RSize \in Nat /\ DSize \in Nat /\ Reserve \in Nat /\ Base \in Nat /\ Base = Owned(host)
    BY BaseNat, ExceptionsAssumption DEF Machines
  <1>4. m' \in Machines /\ m'.rmem \in Memory /\ m'.r <= RSize /\ m'.d <= DSize /\ m'.d \in Nat
        /\ m'.raised = 0 /\ ~m'.ehflag /\ ~m'.stackeh
    <2>1. Sound(m') /\ m'.r = m.r + 4 /\ m.r + 4 <= RSize
      BY <1>1 DEF EntersCatch
    <2>2. QED
      BY <2>1 DEF Sound, Machines
  <1>5. host \in Seq(Words) /\ redirect \in Seq(FileIds) /\ Len(redirect) = Len(host)
        /\ Linked(host, m.rmem, m.handler)
    BY DEF Typed, FramesLinked
  <1>6. e \in Words /\ e.kind = "catch" /\ e.base = m.r + 4 /\ Slots(e) = 4
    <2>1. m.r + 4 <= RSize
      BY <1>1 DEF EntersCatch
    <2>2. m.r + 4 \in 0 .. RSize
      BY <1>3, <2>1
    <2>3. QED
      BY <2>2 DEF Words, Slots
  <1> HIDE DEF e
  <1>7. Owned(host) + Slots(e) <= e.base
    BY <1>1, <1>3, <1>6
  <1>8. \A c \in 1 .. Owned(host) : m'.rmem[c] = m.rmem[c]
    <2>1. \A c \in 1 .. Owned(host) : c \in 1 .. m.r
      BY <1>1, <1>3
    <2>2. QED
      BY <1>1, <2>1 DEF EntersCatch
  <1>9. e.base - 1 = m.r + 3 /\ e.base - 2 = m.r + 2 /\ e.base - 3 = m.r + 1
    BY <1>3, <1>6
  <1>10. /\ m'.rmem[e.base] = Len(host) + 1 /\ m'.rmem[e.base - 1] = m.handler
         /\ m'.rmem[e.base - 2] \in 0 .. FSize
         /\ m'.rmem[e.base - 3] >= 1 /\ m'.rmem[e.base - 3] + CatchRoom <= DSize
         /\ m'.handler = e.base
    <2>1. m.d >= 1
      BY <1>1, <1>3
    <2>2. QED
      BY <1>1, <1>3, <1>6, <1>9, <2>1 DEF EntersCatch
  <1>11. Append(host, e) \in Seq(Words) /\ Linked(Append(host, e), m'.rmem, m'.handler)
    BY <1>3, <1>4, <1>5, <1>6, <1>7, <1>8, <1>10, LinkedGrown
  <1>12. Append(redirect, m.out) \in Seq(FileIds) /\ Len(Append(redirect, m.out)) = Len(Append(host, e))
    BY <1>3, <1>5, AppendProperties
  <1>13. m'.d <= (DSize + Reserve) + 2 /\ m'.d <= DSize + 1
    BY <1>3, <1>4
  <1>14. Typed'
    BY <1>1, <1>2, <1>4, <1>11, <1>12, <1>13 DEF Typed, Statuses
  <1>15. FlagsDown'
    BY <1>4 DEF FlagsDown
  <1>16. FramesLinked'
    BY <1>2, <1>11 DEF FramesLinked
  <1>17. QED
    BY <1>14, <1>15, <1>16 DEF ExceptionsInv

(* OUTFILE-EXECUTE makes a frame for the word that it runs. *)
LEMMA CalledRedirectedInv ==
  ASSUME Typed, FramesLinked, status = "running", m \in Machines, CalledRedirected
  PROVE  ExceptionsInv'
  <1> DEFINE e == [kind |-> "redirect", base |-> m.r + 2]
  <1>1. /\ Redirected(m') /\ m.r >= Base
        /\ UNCHANGED status /\ redirect' = Append(redirect, m.out)
    BY DEF CalledRedirected, Called
  <1>2. host' = Append(host, e)
    BY DEF CalledRedirected, Called, Redirected
  <1>3. /\ m.r \in Nat /\ m.rmem \in Memory /\ m.out \in FileIds
        /\ RSize \in Nat /\ DSize \in Nat /\ Reserve \in Nat /\ Base \in Nat /\ Base = Owned(host)
    BY BaseNat, ExceptionsAssumption DEF Machines
  <1>4. m' \in Machines /\ m'.rmem \in Memory /\ m'.r <= RSize /\ m'.d <= DSize /\ m'.d \in Nat
        /\ m'.raised = 0 /\ ~m'.ehflag /\ ~m'.stackeh
    <2>1. Sound(m') /\ m'.r = m.r + 2 /\ m.r + 2 <= RSize
      BY <1>1 DEF Redirected
    <2>2. QED
      BY <2>1 DEF Sound, Machines
  <1>5. host \in Seq(Words) /\ redirect \in Seq(FileIds) /\ Len(redirect) = Len(host)
        /\ Linked(host, m.rmem, m.handler)
    BY DEF Typed, FramesLinked
  <1>6. e \in Words /\ e.kind = "redirect" /\ e.base = m.r + 2 /\ Slots(e) = 2
    <2>1. m.r + 2 <= RSize
      BY <1>1 DEF Redirected
    <2>2. m.r + 2 \in 0 .. RSize
      BY <1>3, <2>1
    <2>3. QED
      BY <2>2 DEF Words, Slots
  <1> HIDE DEF e
  <1>7. Owned(host) + Slots(e) <= e.base
    BY <1>1, <1>3, <1>6
  <1>8. \A c \in 1 .. Owned(host) : m'.rmem[c] = m.rmem[c]
    <2>1. \A c \in 1 .. Owned(host) : c \in 1 .. m.r
      BY <1>1, <1>3
    <2>2. QED
      BY <1>1, <2>1 DEF Redirected
  <1>9. e.base - 1 = m.r + 1
    BY <1>3, <1>6
  <1>10. m'.rmem[e.base - 1] \in FileIds /\ m'.handler = m.handler
    BY <1>1, <1>3, <1>9 DEF Redirected
  <1>11. Append(host, e) \in Seq(Words) /\ Linked(Append(host, e), m'.rmem, m'.handler)
    BY <1>3, <1>4, <1>5, <1>6, <1>7, <1>8, <1>10, LinkedGrown
  <1>12. Append(redirect, m.out) \in Seq(FileIds) /\ Len(Append(redirect, m.out)) = Len(Append(host, e))
    BY <1>3, <1>5, AppendProperties
  <1>13. m'.d <= (DSize + Reserve) + 2 /\ m'.d <= DSize + 1
    BY <1>3, <1>4
  <1>14. Typed'
    BY <1>1, <1>2, <1>4, <1>11, <1>12, <1>13 DEF Typed, Statuses
  <1>15. FlagsDown'
    BY <1>4 DEF FlagsDown
  <1>16. FramesLinked'
    BY <1>2, <1>11 DEF FramesLinked
  <1>17. QED
    BY <1>14, <1>15, <1>16 DEF ExceptionsInv

(* The frame of a word that returns is the last. *)
LEMMA ReturnedInv ==
  ASSUME Typed, FramesLinked, status = "running", ReturnedToCatch \/ ReturnedRedirected
  PROVE  ExceptionsInv'
  <1> DEFINE n == Len(host) - 1
  <1>1. /\ host # << >> /\ m.r = Base
        /\ host' = SubSeq(host, 1, n) /\ redirect' = SubSeq(redirect, 1, n) /\ UNCHANGED status
    BY DEF ReturnedToCatch, ReturnedRedirected, Returned
  <1>2. n \in 0 .. Len(host)
    BY <1>1, LastFrame
  <1>3. Sound(m') /\ m'.rmem = m.rmem
    BY DEF ReturnedToCatch, ReturnedRedirected, LeavesCatch
  <1>4. Handles(host, n, m'.handler)
    <2>1. CASE ReturnedToCatch
      <3>1. m'.handler = m.rmem[Base - 1] /\ host[Len(host)].kind = "catch"
        BY <1>1, <2>1 DEF ReturnedToCatch, Returned, LeavesCatch
      <3>2. QED
        BY <1>1, <3>1, LastFrame
    <2>2. CASE ReturnedRedirected
      <3>1. m'.handler = m.handler /\ host[Len(host)].kind # "catch"
        BY <2>2 DEF ReturnedRedirected, Returned
      <3>2. QED
        BY <1>1, <3>1, LastFrame
    <2>3. QED
      BY <2>1, <2>2
  <1> HIDE DEF n
  <1>5. QED
    BY <1>1, <1>2, <1>3, <1>4, GoesOn

(* Every step keeps the invariant. *)
LEMMA ExceptionsInvStep ==
  ASSUME ExceptionsInv, [ExceptionsNext]_vars
  PROVE  ExceptionsInv'
  <1>1. Typed /\ FlagsDown /\ FramesLinked
    BY DEF ExceptionsInv
  <1>2. CASE UNCHANGED vars
    BY <1>1, <1>2 DEF vars, ExceptionsInv, Typed, FlagsDown, FramesLinked
  <1>3. CASE status = "running" /\ ExceptionsNext
    <2>1. m \in Machines
      BY <1>1 DEF Typed
    <2>2. CASE Raised
      BY <1>1, <1>3, <2>2, ThrownInv DEF Raised
    <2>3. CASE Worked
      BY <1>1, <1>3, <2>3, KeptInv DEF Worked
    <2>4. CASE CatchWithoutWord
      BY <1>1, <2>4, NothingDroppedInv DEF CatchWithoutWord
    <2>5. QED
      BY <1>1, <1>3, <2>1, <2>2, <2>3, <2>4, ProgramStep, CalledByCatchInv, CalledRedirectedInv,
         ReturnedInv
  <1>4. CASE status # "running" /\ ExceptionsNext
    <2>1. m \in Machines /\ m.d \in Nat /\ DSize \in Nat /\ Reserve \in Nat /\ Reserve >= 3
      BY <1>1, ExceptionsAssumption DEF Typed, Machines
    <2>2. Report \/ DoubleException \/ Over
      BY <1>4 DEF ExceptionsNext, Push, Pop, ToR, RFrom, ToF, FFrom, Catch, OutfileExecute, Return,
                  Throw
    <2>3. CASE Over
      BY <1>1, <2>3 DEF Over, vars, ExceptionsInv, Typed, FlagsDown, FramesLinked
    <2>4. CASE UNCHANGED m /\ status' = "aborted" /\ UNCHANGED <<host, redirect>>
      <3>1. Typed'
        BY <1>1, <2>4 DEF Typed, Statuses
      <3>2. QED
        BY <2>4, <3>1 DEF ExceptionsInv, FlagsDown, FramesLinked
    <2>5. CASE /\ Report \/ DoubleException
               /\ m' = [m EXCEPT !.d = @ + 2] /\ UNCHANGED <<host, redirect>>
               /\ status' \in {"double", "overrun"}
      <3>1. m' \in Machines /\ m'.d = m.d + 2 /\ m'.raised = m.raised
        <4>1. m.d + 2 \in Nat
          BY <2>1
        <4>2. [m EXCEPT !.d = m.d + 2] \in Machines
          BY <2>1, <4>1, MachineWith
        <4>3. QED
          BY <2>1, <2>5, <4>2 DEF Machines
      <3>2. /\ m.d <= DSize + Reserve
            /\ status' = "double" => m.d + 2 <= DSize + Reserve
        <4>1. CASE Report
          <5>1. m.d <= DSize + 1
            BY <1>1, <4>1 DEF Typed, Report
          <5>2. QED
            BY <2>1, <5>1
        <4>2. CASE DoubleException
          <5>1. m.d <= DSize + Reserve
            BY <1>1, <4>2 DEF Typed, DoubleException
          <5>2. status' = "double" => ~(m.d + 2 > DSize + Reserve)
            BY <4>2 DEF DoubleException
          <5>3. QED
            BY <2>1, <5>1, <5>2
        <4>3. QED
          BY <2>5, <4>1, <4>2
      <3>3. m'.d <= (DSize + Reserve) + 2 /\ (status' = "double" => m'.d <= DSize + Reserve)
        BY <2>1, <3>1, <3>2
      <3>4. Typed'
        BY <1>1, <2>5, <3>1, <3>3 DEF Typed, Statuses
      <3>5. QED
        BY <2>5, <3>4 DEF ExceptionsInv, FlagsDown, FramesLinked
    <2>6. QED
      BY <2>2, <2>3, <2>4, <2>5 DEF Report, DoubleException
  <1>5. QED
    BY <1>2, <1>3, <1>4

(* It holds at the beginning. *)
LEMMA ExceptionsInvInit ==
  ASSUME ExceptionsInit
  PROVE  ExceptionsInv
  <1>1. /\ DSize \in Nat /\ RSize \in Nat /\ FSize \in Nat /\ Reserve \in Nat
        /\ 0 \in 0 .. RSize /\ 0 \in 0 .. FSize /\ 0 \in Int /\ 0 \in Nat
    BY ExceptionsAssumption
  <1>2. host = << >> /\ redirect = << >> /\ status = "running"
    BY DEF ExceptionsInit
  <1>3. [i \in 1 .. RSize + Reserve |-> 0] \in Memory /\ stdout \in FileIds
    BY <1>1 DEF Memory, Cells, FileIds
  <1>4. /\ m.d = 0 /\ m.r = 0 /\ m.handler = 0 /\ ~m.ehflag /\ ~m.stackeh /\ m.raised = 0
    BY DEF ExceptionsInit
  <1>5. m \in Machines
    BY <1>1, <1>3, Zenon DEF Machines, ExceptionsInit
  <1>6. 0 <= (DSize + Reserve) + 2 /\ 0 <= DSize + 1 /\ 0 <= DSize /\ 0 <= RSize
    BY <1>1
  <1>7. /\ host \in Seq(Words) /\ redirect \in Seq(FileIds) /\ Len(host) = 0 /\ Len(redirect) = 0
    BY <1>2, EmptySeq
  <1>8. Typed
    BY <1>2, <1>4, <1>5, <1>6, <1>7 DEF Typed, Statuses
  <1>9. FlagsDown
    BY <1>4, <1>6 DEF FlagsDown
  <1>10. FramesLinked
    <2>1. DOMAIN host = {}
      BY <1>2
    <2>2. Stacked(host) /\ \A i \in DOMAIN host : FrameOf(host, m.rmem, i)
      BY <2>1 DEF Stacked
    <2>3. 1 .. Len(host) = {}
      BY <1>7
    <2>4. Handles(host, Len(host), m.handler)
      BY <1>4, <2>3 DEF Handles
    <2>5. QED
      BY <2>2, <2>4 DEF FramesLinked, Linked
  <1>11. QED
    BY <1>8, <1>9, <1>10 DEF ExceptionsInv

(* While the program runs, each word of host has its frame on the return
   stack, the last CATCH is the handler, and each CATCH holds the handler that
   it found (except.ft: catch, throw).                                        *)
THEOREM ExceptionsInvariant == ExceptionsSpec => []ExceptionsInv
  <1>1. ExceptionsInv /\ [ExceptionsNext]_vars => ExceptionsInv'
    BY ExceptionsInvStep
  <1>2. QED
    BY <1>1, ExceptionsInvInit, PTL DEF ExceptionsSpec

(* While the program runs, the chain of handlers on the return stack is in step
   with the calls of CATCH, no flag of an earlier exception is left, and no stack
   is past the part that a program may use: the next stack that overflows is
   noticed, the next exception is not taken for a second one, and it returns to
   the CATCH whose depths it restores (except.ft: catch, throw).               *)
THEOREM HandlersAlwaysSettled == ExceptionsSpec => []HandlersSettled
  <1>1. ExceptionsInv => HandlersSettled
    <2>1. SUFFICES ASSUME Typed, FramesLinked, status = "running" PROVE FramesFollowHost
      BY DEF ExceptionsInv, HandlersSettled, FramesFollowHost
    <2>2. /\ host \in Seq(Words) /\ m.rmem \in Memory /\ Stacked(host)
          /\ \A i \in DOMAIN host : FrameOf(host, m.rmem, i)
          /\ Handles(host, Len(host), m.handler)
      BY <2>1 DEF Typed, Machines, FramesLinked, Linked
    <2>3. Len(host) \in 0 .. Len(host) /\ DOMAIN host = 1 .. Len(host)
      BY <2>2, LenProperties
    <2>4. InStep(host, Len(host), Frames)
      BY <2>2, <2>3, ChainInStep, FramesChain
    <2>5. \A i \in DOMAIN host : host[i].kind = "catch" => m.rmem[host[i].base] = i
      BY <2>2 DEF FrameOf
    <2>6. \A i, k \in DOMAIN host : i < k /\ host[k].kind = "catch" => host[i].base < host[k].base
      <3>1. SUFFICES ASSUME NEW i \in DOMAIN host, NEW k \in DOMAIN host, i < k,
                            host[k].kind = "catch"
                     PROVE  host[i].base < host[k].base
        OBVIOUS
      <3>2. host[i].base + Slots(host[k]) <= host[k].base /\ Slots(host[k]) = 4
        BY <2>2, <3>1 DEF Stacked, Slots
      <3>3. host[i].base \in Nat /\ host[k].base \in Nat
        BY <2>2, Bases
      <3>4. QED
        BY <3>2, <3>3
    <2>7. {i \in DOMAIN host : host[i].kind = "catch"} = Catches(host, Len(host))
      BY <2>3 DEF Catches
    <2> HIDE DEF Frames
    <2>8. QED
      BY <2>4, <2>5, <2>6, <2>7 DEF InStep, FramesFollowHost
  <1>2. QED
    BY <1>1, ExceptionsInvariant, PTL

(* The types, in which no exception is left under way, nor more on a stack than
   its memory holds (except.ft; stack.ft).                                     *)
THEOREM ExceptionsTypes == ExceptionsSpec => []TypeOK
  <1>1. ExceptionsInv => TypeOK
    <2>1. SUFFICES ASSUME Typed PROVE TypeOK
      BY DEF ExceptionsInv
    <2>2. /\ DSize \in Nat /\ RSize \in Nat /\ Reserve \in Nat
          /\ m \in Machines /\ m.d \in Nat /\ m.d <= (DSize + Reserve) + 2 /\ m.raised = 0
          /\ m.r \in 0 .. RSize /\ m.rmem \in [1 .. RSize + Reserve -> Nat]
      <3>1. DSize \in Nat /\ RSize \in Nat /\ Reserve \in Nat
        BY ExceptionsAssumption
      <3>2. m \in Machines /\ m.d <= (DSize + Reserve) + 2 /\ m.raised = 0
        BY <2>1 DEF Typed
      <3>3. m.d \in Nat /\ m.r \in 0 .. RSize /\ m.rmem \in [1 .. RSize + Reserve -> Nat]
        BY <3>2 DEF Machines, Memory, Cells
      <3>4. QED
        BY <3>1, <3>2, <3>3
    <2>3. m.d \in 0 .. DSize + Reserve + 2 /\ m.r \in 0 .. RSize + Reserve /\ m.raised \in {0}
      BY <2>2
    <2>4. m \in [d : 0 .. DSize + Reserve + 2, r : 0 .. RSize + Reserve,
                 rmem : [1 .. RSize + Reserve -> Nat],
                 f : 0 .. FSize, handler : 0 .. RSize, ehflag : BOOLEAN,
                 stackeh : BOOLEAN, out : {stdout, stderr, file}, raised : {0}]
      BY <2>2, <2>3 DEF Machines, FileIds
    <2>5. \A i \in 1 .. Len(host) :
            host[i] \in [kind : {"catch", "redirect"}, base : 0 .. RSize]
      <3>1. \A i \in 1 .. Len(host) : host[i] \in Words
        BY <2>1, ElementOfSeq DEF Typed
      <3>2. QED
        BY <3>1 DEF Words
    <2>6. QED
      BY <2>1, <2>4, <2>5 DEF Typed, TypeOK, Statuses
  <1>2. QED
    BY <1>1, ExceptionsInvariant, PTL

-----------------------------------------------------------------------------
(* The refinement: what each step is for Catching. *)

(* The chain of an outer handler ends where there is none. *)
LEMMA ChainEnds ==
  ASSUME NEW mem \in Memory
  PROVE  Chain(mem)[0] = << >>
  <1>1. 0 \in 0 .. RSize /\ 0 < 4
    BY ExceptionsAssumption
  <1>2. Chain(mem)[0] = Link(Chain(mem), mem, 0)
    BY <1>1, ChainUnfold
  <1>3. QED
    BY <1>1, <1>2 DEF Link

Data == 0 .. DSize + RSize + FSize + Reserve + 2

(* The depths of a machine are among those that Catching knows. *)
LEMMA DepthsKnown ==
  ASSUME NEW s \in Machines, s.d <= (DSize + Reserve) + 2
  PROVE  {s.d, s.r, s.f} \subseteq Data
  <1>1. /\ DSize \in Nat /\ RSize \in Nat /\ FSize \in Nat /\ Reserve \in Nat
        /\ s.d \in Nat /\ s.r \in 0 .. RSize /\ s.f \in 0 .. FSize
    BY ExceptionsAssumption DEF Machines
  <1>2. s.d \in Data
    BY <1>1 DEF Data
  <1>3. s.r \in Data
    BY <1>1 DEF Data
  <1>4. s.f \in Data
    BY <1>1 DEF Data
  <1>5. QED
    BY <1>2, <1>3, <1>4

(* The frames of the words that run are the same in a memory that differs above
   their cells.                                                                *)
LEMMA ChainKept ==
  ASSUME Typed, FramesLinked, status = "running",
         NEW mem \in Memory, \A c \in 1 .. Base : mem[c] = m.rmem[c],
         NEW n \in 0 .. Len(host), NEW h, Handles(host, n, h)
  PROVE  Chain(mem)[h] = Chain(m.rmem)[h]
  <1>1. /\ host \in Seq(Words) /\ m.rmem \in Memory /\ Stacked(host)
        /\ \A i \in DOMAIN host : FrameOf(host, m.rmem, i)
    BY DEF Typed, Machines, FramesLinked, Linked
  <1>2. \A c \in 1 .. Owned(host) : mem[c] = m.rmem[c]
    BY BaseNat
  <1>3. QED
    BY <1>1, <1>2, ChainSame

(* The chain at a frame. *)
LEMMA ChainAt ==
  ASSUME NEW mem \in Memory, NEW h \in 4 .. RSize, mem[h - 1] < h
  PROVE  Chain(mem)[h] = Append(Chain(mem)[mem[h - 1]], Found(mem, h))
  <1>1. RSize \in Nat
    BY ExceptionsAssumption
  <1>2. h \in 0 .. RSize /\ ~(h < 4)
    BY <1>1
  <1>3. mem[h - 1] \in Nat
    BY <1>2, FrameCells
  <1>4. ~(mem[h - 1] >= h)
    BY <1>2, <1>3
  <1>5. QED
    BY <1>2, <1>4, ChainUnfold DEF Link

(* A sequence without the member that was appended. *)
LEMMA AppendCut ==
  ASSUME NEW S, NEW s \in Seq(S), NEW x \in S
  PROVE  LET t == Append(s, x) IN
         t # << >> /\ t[Len(t)] = x /\ SubSeq(t, 1, Len(t) - 1) = s
  <1> DEFINE t == Append(s, x)
  <1>1. t \in Seq(S) /\ t # << >> /\ Len(t) = Len(s) + 1 /\ t[Len(s) + 1] = x
        /\ Len(s) \in Nat /\ \A i \in 1 .. Len(s) : t[i] = s[i]
    BY AppendProperties, LenProperties
  <1> HIDE DEF t
  <1>2. Len(t) - 1 = Len(s)
    BY <1>1
  <1>3. SubSeq(t, 1, Len(s)) = s
    <2>1. \A i \in 1 .. Len(s) : i \in 1 .. Len(t)
      BY <1>1
    <2>2. SubSeq(t, 1, Len(s)) \in Seq(S) /\ Len(SubSeq(t, 1, Len(s))) = Len(s)
      BY <1>1, <2>1
    <2>3. \A i \in 1 .. Len(s) : SubSeq(t, 1, Len(s))[i] = s[i]
      BY <1>1, <2>1
    <2>4. QED
      BY <2>2, <2>3, SeqEqual
  <1>4. QED
    BY <1>1, <1>2, <1>3

(* The depths stay within what Catching knows. *)
LEMMA DepthsAfter ==
  ASSUME Typed'
  PROVE  {m'.d, m'.r, m'.f} \subseteq Data
  <1>1. m' \in Machines /\ m'.d <= (DSize + Reserve) + 2
    BY DEF Typed
  <1>2. QED
    BY <1>1, DepthsKnown

(* While the program runs, and after a step with which it goes on. *)
LEMMA InProgressRunning ==
  /\ status = "running" => InProgress = Frames
  /\ status' = "running" => InProgress' = Frames'
  /\ status # "running" => InProgress = << >>
  /\ status' # "running" => InProgress' = << >>
  BY DEF InProgress

(* A step that keeps the frames is Work. *)
LEMMA WorkStep ==
  ASSUME Typed', InProgress' = InProgress, (status' # "running") = (status # "running")
  PROVE  AbstractCatching!Work
  BY DepthsAfter DEF AbstractCatching!Work, Data

(* The word that CATCH runs begins. *)
LEMMA EnterStep ==
  ASSUME Typed, FramesLinked, status = "running", Typed', CalledByCatch
  PROVE  AbstractCatching!Enter
  <1> DEFINE h == m.r + 4
  <1>1. /\ EntersCatch(m', Len(host) + 1) /\ m.r >= Base /\ status' = status
    BY DEF CalledByCatch, Called
  <1>2. /\ m'.d = m.d - 1 /\ m'.f = m.f /\ m'.handler = h /\ h <= RSize
        /\ m'.rmem[m.r + 3] = m.handler /\ m'.rmem[m.r + 2] = m.f /\ m'.rmem[m.r + 1] = m.d
        /\ \A c \in 1 .. m.r : m'.rmem[c] = m.rmem[c]
    BY <1>1 DEF EntersCatch
  <1>3. /\ m.rmem \in Memory /\ m'.rmem \in Memory /\ m.r \in Nat /\ m.handler \in 0 .. RSize
        /\ Base \in Nat /\ RSize \in Nat
    BY BaseNat, ExceptionsAssumption DEF Typed, Machines
  <1>4. h \in 4 .. RSize /\ h - 1 = m.r + 3 /\ h - 2 = m.r + 2 /\ h - 3 = m.r + 1 /\ h - 4 = m.r
    BY <1>2, <1>3
  <1>5. m.handler < h
    <2>1. CASE m.handler = 0
      BY <2>1, <1>3
    <2>2. CASE m.handler # 0
      <3>1. m.handler <= Base
        BY <2>2, LastCatch
      <3>2. QED
        BY <3>1, <1>1, <1>3
    <2>3. QED
      BY <2>1, <2>2
  <1> HIDE DEF h
  <1>6. Chain(m'.rmem)[h] = Append(Chain(m'.rmem)[m.handler], Found(m'.rmem, h))
    <2>1. m'.rmem[h - 1] = m.handler
      BY <1>2, <1>4
    <2>2. m'.rmem[h - 1] < h
      BY <2>1, <1>5
    <2>3. QED
      BY <1>3, <1>4, <2>1, <2>2, ChainAt
  <1>7. Found(m'.rmem, h) = [data |-> m.d - 1, return |-> m.r, float |-> m.f]
    BY <1>2, <1>4 DEF Found
  <1>8. Chain(m'.rmem)[m.handler] = Chain(m.rmem)[m.handler]
    <2>1. \A c \in 1 .. Base : c \in 1 .. m.r
      BY <1>1, <1>3
    <2>2. \A c \in 1 .. Base : m'.rmem[c] = m.rmem[c]
      BY <2>1, <1>2
    <2>3. Handles(host, Len(host), m.handler)
      BY DEF FramesLinked, Linked
    <2>4. Len(host) \in 0 .. Len(host)
      BY LenProperties DEF Typed
    <2>5. QED
      BY <1>3, <2>2, <2>3, <2>4, ChainKept
  <1>9. Frames' = Append(Frames, [data |-> m.d - 1, return |-> m.r, float |-> m.f])
    BY <1>2, <1>6, <1>7, <1>8, FramesChain
  <1>10. m'.r \in Data
    BY DepthsAfter
  <1>11. InProgress' = Append(InProgress, [data |-> m.d - 1, return |-> m.r, float |-> m.f])
    BY <1>1, <1>9, InProgressRunning
  <1>12. QED
    BY <1>1, <1>2, <1>10, <1>11 DEF AbstractCatching!Enter, Data

(* What the frame of the last CATCH is among Frames. *)
LEMMA InnermostFrame ==
  ASSUME Typed, FramesLinked, status = "running", m.handler # 0
  PROVE  LET h == m.handler IN
         /\ InProgress # << >>
         /\ AbstractCatching!Innermost = Found(m.rmem, h)
         /\ AbstractCatching!Outer = Chain(m.rmem)[m.rmem[h - 1]]
  <1> DEFINE h == m.handler
             g == m.rmem[h - 1]
  <1>1. m.rmem \in Memory /\ h \in 4 .. RSize /\ g \in 0 .. RSize /\ g < h
    <2>1. PICK k \in DOMAIN host : host[k].kind = "catch" /\ host[k].base = h /\ h \in 4 .. RSize
      BY LastCatch
    <2>2. /\ host \in Seq(Words) /\ Stacked(host) /\ m.rmem \in Memory
          /\ FrameOf(host, m.rmem, k)
      BY <2>1 DEF Typed, Machines, FramesLinked, Linked
    <2>3. g \in 0 .. RSize /\ g < h
      BY <2>1, <2>2, HandlerBelow
    <2>4. QED
      BY <2>1, <2>2, <2>3
  <1> HIDE DEF g
  <1>2. Frames = Append(Chain(m.rmem)[g], Found(m.rmem, h))
    BY <1>1, ChainAt, FramesChain DEF g
  <1>3. Chain(m.rmem)[g] \in Seq(FrameSet) /\ Found(m.rmem, h) \in FrameSet
    <2>1. Chain(m.rmem)[g] \in Seq(FrameSet)
      BY <1>1, ChainUnfold
    <2>2. RSize \in Nat
      BY ExceptionsAssumption
    <2>3. h \in 0 .. RSize /\ ~(h < 4)
      BY <1>1, <2>2
    <2>4. QED
      BY <1>1, <2>1, <2>3, FrameCells
  <1>4. /\ Frames # << >> /\ Frames[Len(Frames)] = Found(m.rmem, h)
        /\ SubSeq(Frames, 1, Len(Frames) - 1) = Chain(m.rmem)[g]
    BY <1>2, <1>3, AppendCut
  <1>5. InProgress = Frames
    BY InProgressRunning
  <1>6. QED
    BY <1>4, <1>5 DEF AbstractCatching!Innermost, AbstractCatching!Outer, g

(* The word that CATCH runs returns. *)
LEMMA LeaveStep ==
  ASSUME Typed, FramesLinked, status = "running", ReturnedToCatch
  PROVE  AbstractCatching!Leave
  <1> DEFINE h == m.handler
  <1>1. /\ LeavesCatch(m') /\ host # << >> /\ m.r = Base /\ host[Len(host)].kind = "catch"
        /\ status' = status
    BY DEF ReturnedToCatch, Returned
  <1>2. h = m.r /\ h # 0
    <2>1. Base >= 4 /\ h = Base
      BY <1>1, LastFrame
    <2>2. QED
      BY <2>1, <1>1
  <1>3. /\ m'.d = m.d + 1 /\ m'.f = m.f /\ m'.r = h - 4 /\ m'.handler = m.rmem[h - 1]
        /\ m'.rmem = m.rmem
    BY <1>1, <1>2 DEF LeavesCatch
  <1>4. /\ InProgress # << >> /\ AbstractCatching!Innermost = Found(m.rmem, h)
        /\ AbstractCatching!Outer = Chain(m.rmem)[m.rmem[h - 1]]
    BY <1>2, InnermostFrame
  <1>5. InProgress' = AbstractCatching!Outer
    BY <1>1, <1>3, <1>4, FramesChain, InProgressRunning
  <1>6. AbstractCatching!Innermost.return = h - 4
    BY <1>4 DEF Found
  <1>7. QED
    BY <1>1, <1>3, <1>4, <1>5, <1>6 DEF AbstractCatching!Leave

(* An exception is caught. *)
LEMMA RaiseStep ==
  ASSUME Typed, FramesLinked, status = "running", NEW k \in DOMAIN host, Caught(k)
  PROVE  AbstractCatching!Raise
  <1> DEFINE h == m.handler
  <1>1. /\ h # 0 /\ host[k].kind = "catch" /\ host[k].base = h
        /\ Sound(m') /\ m'.d = m.rmem[h - 3] /\ m'.r = h - 4 /\ m'.f = m.rmem[h - 2]
        /\ m'.handler = m.rmem[h - 1]
        /\ \A c \in 1 .. Base : m'.rmem[c] = m.rmem[c]
        /\ status' = status
    BY DEF Caught
  <1>2. /\ InProgress # << >> /\ AbstractCatching!Innermost = Found(m.rmem, h)
        /\ AbstractCatching!Outer = Chain(m.rmem)[m.rmem[h - 1]]
    BY <1>1, InnermostFrame
  <1>3. Chain(m'.rmem)[m.rmem[h - 1]] = Chain(m.rmem)[m.rmem[h - 1]]
    <2>1. PICK j \in DOMAIN host : j \in 1 .. Len(host) /\ Handles(host, j - 1, m.rmem[h - 1])
      BY <1>1, LastCatch
    <2>2. j - 1 \in 0 .. Len(host)
      <3>1. Len(host) \in Nat
        BY LenProperties DEF Typed
      <3>2. QED
        BY <2>1, <3>1
    <2>3. m'.rmem \in Memory
      BY <1>1 DEF Sound, Machines
    <2>4. QED
      BY <1>1, <2>1, <2>2, <2>3, ChainKept
  <1>4. InProgress' = AbstractCatching!Outer
    BY <1>1, <1>2, <1>3, FramesChain, InProgressRunning
  <1>5. /\ AbstractCatching!Innermost.return = h - 4
        /\ AbstractCatching!Innermost.float = m.rmem[h - 2]
        /\ AbstractCatching!Innermost.data = m.rmem[h - 3] - 1
    BY <1>2 DEF Found
  <1>6. m.rmem[h - 3] = (m.rmem[h - 3] - 1) + 1
    <2>1. m.rmem[h - 3] \in Nat
      BY <1>1, LastCatch
    <2>2. QED
      BY <2>1
  <1>7. QED
    BY <1>1, <1>2, <1>4, <1>5, <1>6 DEF AbstractCatching!Raise

(* An exception that nobody catches. *)
LEMMA EndStep ==
  ASSUME Typed, FramesLinked, status = "running", Typed', Ended,
         ReturnStackUnderflow \notin Codes
  PROVE  AbstractCatching!End
  <1>1. m.rmem \in Memory /\ m'.rmem \in Memory
    BY DEF Typed, Machines
  <1>2. (status' # "running") = TRUE
    BY DEF Ended
  <1>3. InProgress = << >> \/ m.r = 0
    BY <1>1, ChainEnds, FramesChain, InProgressRunning DEF Ended
  <1>4. InProgress' = << >>
    BY <1>2, InProgressRunning
  <1>5. QED
    BY <1>2, <1>3, <1>4, DepthsAfter DEF AbstractCatching!End, Data

(* A CATCH without a word. *)
LEMMA WordlessStep ==
  ASSUME Typed, status = "running", Typed', CatchWithoutWord
  PROVE  AbstractCatching!End
  <1>1. m.d = 0 /\ m'.r = m.r + 2 /\ (status' # "running") = TRUE
    BY DEF CatchWithoutWord, NothingDropped
  <1>2. m.r \in Nat
    BY DEF Typed, Machines
  <1>3. m'.r > m.r
    BY <1>1, <1>2
  <1>4. InProgress' = << >>
    BY <1>1, InProgressRunning
  <1>5. QED
    BY <1>1, <1>3, <1>4, DepthsAfter DEF AbstractCatching!End, Data

(* Steps that keep the frames. *)
LEMMA WorkedSteps ==
  ASSUME Typed, FramesLinked, status = "running", Typed',
         Worked \/ CalledRedirected \/ ReturnedRedirected
  PROVE  AbstractCatching!Work
  <1>1. /\ m.rmem \in Memory /\ m'.rmem \in Memory /\ m.r \in Nat /\ Base \in Nat
        /\ Len(host) \in Nat
    BY BaseNat, LenProperties DEF Typed, Machines
  <1>2. m'.handler = m.handler /\ status' = status /\ \A c \in 1 .. Base : m'.rmem[c] = m.rmem[c]
    <2>1. CASE Worked
      BY <2>1 DEF Worked, Kept
    <2>2. CASE CalledRedirected
      <3>1. /\ m.r >= Base /\ m'.handler = m.handler /\ status' = status
            /\ \A c \in 1 .. m.r : m'.rmem[c] = m.rmem[c]
        BY <2>2 DEF CalledRedirected, Called, Redirected
      <3>2. \A c \in 1 .. Base : c \in 1 .. m.r
        BY <1>1, <3>1
      <3>3. QED
        BY <3>1, <3>2
    <2>3. CASE ReturnedRedirected
      BY <2>3 DEF ReturnedRedirected, Returned
    <2>4. QED
      BY <2>1, <2>2, <2>3
  <1>3. Handles(host, Len(host), m.handler) /\ Len(host) \in 0 .. Len(host)
    BY <1>1 DEF FramesLinked, Linked
  <1>4. Chain(m'.rmem)[m.handler] = Chain(m.rmem)[m.handler]
    BY <1>1, <1>2, <1>3, ChainKept
  <1>5. InProgress' = InProgress
    BY <1>2, <1>4, FramesChain, InProgressRunning
  <1>6. QED
    BY <1>2, <1>5, WorkStep

(* Every step is one of Catching, or changes nothing there. *)
LEMMA CatchingStep ==
  ASSUME CatchRoom >= 3, ReturnStackUnderflow \notin Codes,
         ExceptionsInv, ExceptionsInv', [ExceptionsNext]_vars
  PROVE  [AbstractCatching!CatchingNext]_AbstractCatching!catchingVars
  <1>1. Typed /\ FlagsDown /\ FramesLinked /\ Typed'
    BY DEF ExceptionsInv
  <1>2. CASE UNCHANGED vars
    <2>1. m' = m /\ status' = status
      BY <1>2 DEF vars
    <2>2. InProgress' = InProgress
      BY <2>1, FramesChain, InProgressRunning
    <2>3. QED
      BY <2>1, <2>2 DEF AbstractCatching!catchingVars
  <1>3. CASE status = "running" /\ ExceptionsNext
    <2>1. CASE Raised
      <3>1. Ended \/ Doubled \/ \E k \in DOMAIN host : Caught(k)
        BY <1>1, <1>3, <2>1, ThrownCases DEF Raised
      <3>2. ~Doubled
        <4>1. CatchRoom \in Nat
          BY ExceptionsAssumption
        <4>2. ~(CatchRoom < 3)
          BY <4>1
        <4>3. QED
          BY <4>2 DEF Doubled
      <3>3. AbstractCatching!End \/ AbstractCatching!Raise
        BY <1>1, <1>3, <3>1, <3>2, EndStep, RaiseStep
      <3>4. QED
        BY <3>3 DEF AbstractCatching!CatchingNext
    <2>2. CASE Worked \/ CalledRedirected \/ ReturnedRedirected
      BY <1>1, <1>3, <2>2, WorkedSteps DEF AbstractCatching!CatchingNext
    <2>3. CASE CalledByCatch
      BY <1>1, <1>3, <2>3, EnterStep DEF AbstractCatching!CatchingNext
    <2>4. CASE ReturnedToCatch
      BY <1>1, <1>3, <2>4, LeaveStep DEF AbstractCatching!CatchingNext
    <2>5. CASE CatchWithoutWord
      BY <1>1, <1>3, <2>5, WordlessStep DEF AbstractCatching!CatchingNext
    <2>6. QED
      BY <1>1, <1>3, <2>1, <2>2, <2>3, <2>4, <2>5, ProgramStep
  <1>4. CASE status # "running" /\ ExceptionsNext
    <2>1. Report \/ DoubleException \/ Over
      BY <1>4 DEF ExceptionsNext, Push, Pop, ToR, RFrom, ToF, FFrom, Catch, OutfileExecute, Return,
                  Throw
    <2>2. status' # "running"
      BY <1>4, <2>1 DEF Report, DoubleException, Over, vars
    <2>3. InProgress' = InProgress
      BY <1>4, <2>2, InProgressRunning
    <2>4. QED
      BY <1>1, <1>4, <2>2, <2>3, WorkStep DEF AbstractCatching!CatchingNext
  <1>5. QED
    BY <1>2, <1>3, <1>4

(* The beginning is that of Catching. *)
LEMMA CatchingStart ==
  ASSUME ExceptionsInit
  PROVE  AbstractCatching!CatchingInit
  <1>1. ExceptionsInv
    BY ExceptionsInvInit
  <1>2. m.rmem \in Memory
    BY <1>1 DEF ExceptionsInv, Typed, Machines
  <1>3. m.handler = 0 /\ m.d = 0 /\ m.r = 0 /\ m.f = 0 /\ status = "running"
    BY DEF ExceptionsInit
  <1>4. InProgress = << >>
    BY <1>2, <1>3, ChainEnds, FramesChain, InProgressRunning
  <1>5. QED
    BY <1>3, <1>4 DEF AbstractCatching!CatchingInit

(* CATCH and THROW do what Catching promises, whatever a program does to its
   stacks and however often they overflow: a THROW ends in the innermost CATCH
   with all depths as that CATCH found them, and the program ends only if there
   is none, by taking from an empty return stack, or in a CATCH that finds no
   word on the data stack.  The program has to leave three cells of its data
   stack free at a CATCH, as else clearing the flags fails, and must not throw
   the code of an empty return stack itself, as that forgets every CATCH
   (except.ft: catch, throw).                                                *)
THEOREM CatchingImplemented ==
  ASSUME CatchRoom >= 3, ReturnStackUnderflow \notin Codes
  PROVE  ExceptionsSpec => ImplementsCatching
  <1>1. ExceptionsInit => AbstractCatching!CatchingInit
    BY CatchingStart
  <1>2. ExceptionsInv /\ ExceptionsInv' /\ [ExceptionsNext]_vars
        => [AbstractCatching!CatchingNext]_AbstractCatching!catchingVars
    BY CatchingStep
  <1>3. QED
    BY <1>1, <1>2, ExceptionsInvariant, PTL
    DEF ExceptionsSpec, ImplementsCatching, AbstractCatching!CatchingSpec

(* A running program comes to a double exception only by a CATCH with nothing
   on the data stack, which makes its frame before it looks for the word: THROW
   then finds no word to drop.  Elsewhere there is none if the program leaves
   three cells of the data stack free at a CATCH (except.ft: catch, throw).    *)
THEOREM NoSecondException ==
  ASSUME CatchRoom >= 3
  PROVE  ExceptionsSpec => DoubleForNoWord
  <1>1. ExceptionsInv /\ [ExceptionsNext]_vars
        => [status = "running" /\ status' = "double" => Catch /\ m.d = 0]_vars
    <2>1. SUFFICES ASSUME ExceptionsInv, ExceptionsNext, status = "running", status' = "double"
                   PROVE  Catch /\ m.d = 0
      BY DEF vars
    <2>2. Typed /\ FlagsDown /\ FramesLinked
      BY <2>1 DEF ExceptionsInv
    <2>3. ~Raised
      <3>1. SUFFICES ASSUME Raised PROVE FALSE
        OBVIOUS
      <3>2. Ended \/ Doubled \/ \E k \in DOMAIN host : Caught(k)
        BY <2>1, <2>2, <3>1, ThrownCases DEF Raised
      <3>3. CatchRoom \in Nat
        BY ExceptionsAssumption
      <3>4. ~(CatchRoom < 3)
        BY <3>3
      <3>5. QED
        BY <2>1, <3>2, <3>4 DEF Ended, Doubled, Caught
    <2>4. ~(UNCHANGED status)
      BY <2>1
    <2>5. CatchWithoutWord
      BY <2>1, <2>2, <2>3, <2>4, ProgramStep
      DEF Worked, CalledByCatch, CalledRedirected, ReturnedToCatch, ReturnedRedirected,
          Called, Returned
    <2>6. QED
      BY <2>5 DEF CatchWithoutWord, NothingDropped
  <1>2. QED
    BY <1>1, ExceptionsInvariant, PTL DEF ExceptionsSpec, DoubleForNoWord
=============================================================================
