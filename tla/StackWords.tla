----------------------------- MODULE StackWords -----------------------------
(***************************************************************************)
(* Words of dstack.ft and rstack.ft that rearrange the stacks.  They are   *)
(* made of the pushes and pops that check the limits of a stack, and of    *)
(* SP@ @, which reads the stack as memory and checks nothing.  Return      *)
(* addresses are on the stack of the processor, so that the return stack   *)
(* holds what words put there, and nothing else.                           *)
(***************************************************************************)
EXTENDS Integers, Sequences

CONSTANTS
  DataCells,    \* the cells of the data stack, 4080 in the source
  ReturnCells,  \* the cells of the return stack, 2032 in the source
  Values,       \* what a program pushes
  Below         \* what memory holds below the data stack

StackAssumption ==
  /\ DataCells \in Nat /\ ReturnCells \in Nat
  /\ Values \subseteq Nat /\ Below \in Nat

VARIABLES
  stacks,  \* the stacks, and the exception thrown or 0
  word,    \* the last word
  was      \* the stacks before it

vars == <<stacks, word, was>>

(***************************************************************************)
(* A word maps stacks to stacks; after a throw, the rest of it is skipped. *)
(***************************************************************************)
Throw(s, code) == [s EXCEPT !.thrown = code]

\* n more cells than now are pushed at some time.
Room(s, n) ==
  IF s.thrown = 0 /\ Len(s.data) + n > DataCells THEN Throw(s, -3) ELSE s

Push(s, w) ==
  LET t == Room(s, 1)
  IN  IF t.thrown = 0 THEN [t EXCEPT !.data = Append(@, w)] ELSE t

Pop(s) ==
  IF s.thrown # 0 THEN s
  ELSE IF s.data = <<>> THEN Throw(s, -4)
  ELSE [s EXCEPT !.data = SubSeq(@, 1, Len(@) - 1)]

\* The cell n below the top, read from memory.
Read(s, n) ==
  LET k == Len(s.data) - n IN IF k > 0 THEN s.data[k] ELSE Below

ToR(s) ==                                                      \* >r
  LET t == Pop(s)
  IN  IF t.thrown # 0 THEN t
      ELSE IF Len(t.ret) >= ReturnCells THEN Throw(t, -5)
      ELSE [t EXCEPT !.ret = Append(@, Read(s, 0))]

RFrom(s) ==                                                    \* r>
  IF s.thrown # 0 THEN s
  ELSE IF s.ret = <<>> THEN Throw(s, -6)
  ELSE Push([s EXCEPT !.ret = SubSeq(@, 1, Len(@) - 1)], s.ret[Len(s.ret)])

\* >r _(swap) ! r> _(swap) @
Swap(s) ==
  LET t == ToR(s)
      u == RFrom(Pop(t))
  IN  IF u.thrown = 0 THEN Push(u, Read(t, 0)) ELSE u

Drop(s) == Pop(s)

\* depth 1- cells sp0 +, which needs two cells.
SPFetch(s) == Room(s, 2)

Dup(s) == Push(SPFetch(s), Read(s, 0))                         \* sp@ @

Over(s) == Push(Room(SPFetch(s), 3), Read(s, 1))               \* sp@ 0 cell+ - @

\* 1+ cells sp@ swap - @, where SWAP needs a cell of the return stack.
Pick(s) ==
  LET t == SPFetch(IF s.thrown = 0 /\ s.data = <<>> THEN Throw(s, -4) ELSE s)
  IN  IF t.thrown # 0 THEN t
      ELSE IF Len(t.ret) >= ReturnCells THEN Throw(t, -5)
      ELSE Push(Pop(t), Read(t, Read(t, 0) + 1))

Nip(s) == Drop(Swap(s))
Rot(s) == Swap(RFrom(Swap(ToR(s))))                            \* >r swap r> swap
MinusRot(s) == Rot(Rot(s))
Tuck(s) == Over(Swap(s))
TwoDrop(s) == Drop(Drop(s))
TwoDup(s) == Over(Over(s))
TwoToR(s) == ToR(ToR(Swap(s)))                                 \* swap >r >r

\* A slip: the pair is reversed.
TwoRFromSlip(s) == RFrom(RFrom(s))

TwoRFrom(s) == Swap(RFrom(RFrom(s)))                           \* r> r> swap
TwoOver(s) == Pick(Push(Pick(Push(s, 3)), 3))                  \* 3 pick 3 pick
TwoSwap(s) == TwoRFrom(TwoRFrom(TwoDrop(TwoToR(TwoToR(TwoOver(s))))))
RFetch(s) == ToR(Dup(RFrom(s)))                                \* r> dup >r
TwoRFetch(s) == Swap(ToR(ToR(TwoDup(RFrom(RFrom(s))))))
RDrop(s) == Drop(RFrom(s))
TwoRDrop(s) == RDrop(RDrop(s))
J(s) == ToR(Swap(ToR(Swap(RFetch(RFrom(RFrom(s)))))))          \* loop.ft

\* ROLL moves n cells to the return stack and, below the count that is now
\* on top, brings them back.
Roll(s) ==
  LET n == Read(s, 0)
      counted(t) == IF t.thrown = 0
                    THEN [t EXCEPT !.data[Len(t.data)] = @ - 1] ELSE t
      down[k \in 0 .. n] ==
        IF k = 0 THEN Pop(Dup(s)) ELSE Pop(Dup(counted(ToR(Swap(down[k - 1])))))
      up[k \in 0 .. n] ==
        IF k = 0 THEN Drop(down[n]) ELSE Swap(RFrom(up[k - 1]))
  IN  IF s.data = <<>> THEN Drop(Pop(Dup(s))) ELSE up[n]

(***************************************************************************)
(* Calls                                                                   *)
(***************************************************************************)
After(w, s) ==
  CASE w = "toR" -> ToR(s)
    [] w = "rFrom" -> RFrom(s)
    [] w = "swap" -> Swap(s)
    [] w = "drop" -> Drop(s)
    [] w = "dup" -> Dup(s)
    [] w = "over" -> Over(s)
    [] w = "pick" -> Pick(s)
    [] w = "nip" -> Nip(s)
    [] w = "rot" -> Rot(s)
    [] w = "minusRot" -> MinusRot(s)
    [] w = "tuck" -> Tuck(s)
    [] w = "twoDrop" -> TwoDrop(s)
    [] w = "twoDup" -> TwoDup(s)
    [] w = "twoToR" -> TwoToR(s)
    [] w = "twoRFrom" -> TwoRFrom(s)
    [] w = "twoOver" -> TwoOver(s)
    [] w = "twoSwap" -> TwoSwap(s)
    [] w = "rFetch" -> RFetch(s)
    [] w = "twoRFetch" -> TwoRFetch(s)
    [] w = "rDrop" -> RDrop(s)
    [] w = "twoRDrop" -> TwoRDrop(s)
    [] w = "j" -> J(s)
    [] w = "roll" -> Roll(s)

Called ==
  {"toR", "rFrom", "swap", "drop", "dup", "over", "pick", "nip", "rot",
   "minusRot", "tuck", "twoDrop", "twoDup", "twoToR", "twoRFrom",
   "twoOver", "twoSwap", "rFetch", "twoRFetch", "rDrop", "twoRDrop",
   "j", "roll"}

StackInit ==
  /\ stacks = [data |-> <<>>, ret |-> <<>>, thrown |-> 0]
  /\ word = "none"
  /\ was = stacks

Literal == \E w \in Values :
  /\ stacks.thrown = 0
  /\ stacks' = Push(stacks, w)
  /\ word' = "literal" /\ was' = stacks

Call ==
  /\ stacks.thrown = 0
  /\ \E w \in Called : stacks' = After(w, stacks) /\ word' = w
  /\ was' = stacks

\* CATCH: the depths are those of its call, here of a program that starts.
Catch ==
  /\ stacks.thrown # 0
  /\ stacks' = [data |-> <<>>, ret |-> <<>>, thrown |-> 0]
  /\ word' = "catch" /\ was' = stacks

StackNext == Literal \/ Call \/ Catch

StackSpec == StackInit /\ [][StackNext]_vars

(***************************************************************************)
(* Properties                                                              *)
(***************************************************************************)
\* Every variable has its type, and no stack is larger than its cells.
TypeOK ==
  /\ stacks.thrown \in {0, -3, -4, -5, -6}
  /\ Len(stacks.data) <= DataCells /\ Len(stacks.ret) <= ReturnCells
  /\ word = "none" => was = stacks

\* The stack comments, each as the cells taken, from the lowest on, and
\* which of them are left.  First of the data stack ...
Comments ==
  [ swap |-> <<2, <<2, 1>>>>, drop |-> <<1, <<>>>>, dup |-> <<1, <<1, 1>>>>,
    over |-> <<2, <<1, 2, 1>>>>, nip |-> <<2, <<2>>>>,
    rot |-> <<3, <<2, 3, 1>>>>, minusRot |-> <<3, <<3, 1, 2>>>>,
    tuck |-> <<2, <<2, 1, 2>>>>, twoDrop |-> <<2, <<>>>>,
    twoDup |-> <<2, <<1, 2, 1, 2>>>>, twoOver |-> <<4, <<1, 2, 3, 4, 1, 2>>>>,
    twoSwap |-> <<4, <<3, 4, 1, 2>>>> ]

\* ... then those that take from the data stack and leave on the return
\* stack, and the other way round, where two may be copied.
ToReturn == [toR |-> 1, twoToR |-> 2]
FromReturn == [rFrom |-> 1, twoRFrom |-> 2]
OfReturn == [rFetch |-> 1, twoRFetch |-> 2]
DropReturn == [rDrop |-> 1, twoRDrop |-> 2]

Lower(s, n) == SubSeq(s, 1, Len(s) - n)
Upper(s, n) == SubSeq(s, Len(s) - n + 1, Len(s))

\* What PICK and ROLL count from below: w_n down to w_0, and n.
Counted == was.data[Len(was.data)]

\* What the word that was called takes from the data stack.
Takes ==
  IF word \in DOMAIN Comments THEN Comments[word][1]
  ELSE IF word \in DOMAIN ToReturn THEN ToReturn[word]
  ELSE IF word \in {"pick", "roll"}
       THEN IF was.data = <<>> THEN 1 ELSE Counted + 2
  ELSE 0

\* ... and from the return stack.
TakesReturn ==
  IF word \in DOMAIN FromReturn THEN FromReturn[word]
  ELSE IF word \in DOMAIN OfReturn THEN OfReturn[word]
  ELSE IF word \in DOMAIN DropReturn THEN DropReturn[word]
  ELSE IF word = "j" THEN 3
  ELSE 0

Enough == Len(was.data) >= Takes /\ Len(was.ret) >= TakesReturn

Rearranged(data, ret) == stacks.data = data /\ stacks.ret = ret

\* A word that does not throw leaves on both stacks what its comment says,
\* and everything below as it was (dstack.ft, rstack.ft, loop.ft:30).
CommentsKept ==
  stacks.thrown = 0 /\ Enough =>
    /\ word \in DOMAIN Comments =>
         LET given == Upper(was.data, Takes)
             gives == Comments[word][2]
         IN  Rearranged(Lower(was.data, Takes)
                          \o [i \in 1 .. Len(gives) |-> given[gives[i]]], was.ret)
    /\ word \in DOMAIN ToReturn =>
         Rearranged(Lower(was.data, Takes), was.ret \o Upper(was.data, Takes))
    /\ word \in DOMAIN FromReturn =>
         Rearranged(was.data \o Upper(was.ret, TakesReturn), Lower(was.ret, TakesReturn))
    /\ word \in DOMAIN OfReturn =>
         Rearranged(was.data \o Upper(was.ret, TakesReturn), was.ret)
    /\ word \in DOMAIN DropReturn =>
         Rearranged(was.data, Lower(was.ret, TakesReturn))
    /\ word = "j" =>
         Rearranged(Append(was.data, was.ret[Len(was.ret) - 2]), was.ret)
    /\ word = "pick" =>
         LET rest == Lower(was.data, 1)
         IN  Rearranged(Append(rest, rest[Len(rest) - Counted]), was.ret)
    /\ word = "roll" =>
         LET rest == Lower(was.data, 1)
             top == Upper(rest, Counted + 1)
         IN  Rearranged(Lower(rest, Counted + 1) \o Tail(top) \o <<top[1]>>, was.ret)

\* A word that has its operands never throws underflow, and overflow only if
\* a stack is nearly full: six cells of the data stack are enough for each
\* (2R@ needs them), and four of the return stack, or what ROLL counts.
RoomSuffices ==
  stacks.thrown # 0 /\ Enough =>
    \/ stacks.thrown = -3 /\ Len(was.data) + 6 > DataCells
    \/ /\ stacks.thrown = -5
       /\ Len(was.ret) + (IF word = "roll" THEN Counted + 1 ELSE 4) > ReturnCells

\* "Stack overflow and underflow raise exceptions" (stack.ft:42): a word that
\* is not given what it takes throws, if it pops what it takes; 0 ROLL takes
\* its count only.
PopsUnderflow ==
  /\ word \notin {"dup", "over", "pick", "twoDup", "twoOver"}
  /\ word = "roll" => was.data = <<>> \/ Counted > 0
  /\ ~Enough
  => stacks.thrown # 0

\* The same of every word.
AllUnderflow == ~Enough => stacks.thrown # 0
=============================================================================
