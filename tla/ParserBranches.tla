---------------------------- MODULE ParserBranches ----------------------------
(***************************************************************************)
(* Proofs about Parser.tla, last part: where branches go, and what the     *)
(* definitions are.                                                        *)
(*                                                                         *)
(* While a source file is compiled without errors, a branch already        *)
(* written goes to a label that its own definition has placed, or to one   *)
(* that the definition still holds on the label stack; code outside        *)
(* definitions may also go to label 0, the end of implicit main.  So jumps *)
(* resolve, branches stay in their definition, and parse_cleanup finds     *)
(* nothing left over.                                                      *)
(*                                                                         *)
(* Define and end-define opcodes come in pairs of one symbol, the symbol   *)
(* table knows every symbol that the code defines, and code outside        *)
(* definitions is announced as main, which nothing else defines.           *)
(***************************************************************************)
EXTENDS ParserLabels, WellFoundedInduction

-----------------------------------------------------------------------------
(* Which definition a position of the code is in, as Parser!DefinitionAt   *)
(* says it, for any code; and which one the end of the code is in.         *)
OpenAt(code, i) ==
  {d \in 1..i : is_define_opcode(code[d])
                /\ \A e \in d..(i - 1) : ~is_enddefine_opcode(code[e])}
At(code, i) == IF OpenAt(code, i) = {} THEN 0 ELSE Max(OpenAt(code, i))

Unended(code) ==
  {d \in 1..Len(code) : is_define_opcode(code[d])
                        /\ \A e \in d..Len(code) : ~is_enddefine_opcode(code[e])}
Here(code) == IF Unended(code) = {} THEN 0 ELSE Max(Unended(code))

(* Opcodes written later do not change the definition of a position.       *)
LEMMA AtKept ==
  ASSUME NEW S, NEW s \in Seq(S), NEW t \in Seq(S), NEW i \in DOMAIN s
  PROVE  OpenAt(s \o t, i) = OpenAt(s, i) /\ At(s \o t, i) = At(s, i)
  <1> DEFINE st == s \o t
  <1>1. /\ \A k \in DOMAIN s : st[k] = s[k]
        /\ DOMAIN s = 1..Len(s) /\ Len(s) \in Nat
    BY Joined, LenProperties
  <1> HIDE DEF st
  <1>2. i \in 1..Len(s) /\ i \in Int
    BY <1>1
  <1>3. \A d \in 1..i : d \in DOMAIN s /\ st[d] = s[d]
    BY <1>1, <1>2
  <1>4. \A d \in 1..i : \A e \in d..(i - 1) : e \in 1..i
    BY <1>2
  <1>5. OpenAt(st, i) = OpenAt(s, i)
    BY <1>3, <1>4 DEF OpenAt
  <1>6. QED
    BY <1>5 DEF At, st

(* A position behind code that begins and ends no definition is in the     *)
(* definition that the code before it is in.                               *)
LEMMA AtAppended ==
  ASSUME NEW S, NEW s \in Seq(S), NEW t \in Seq(S), NEW i \in DOMAIN t,
         \A k \in 1..i : ~is_define_opcode(t[k]),
         \A k \in 1..(i - 1) : ~is_enddefine_opcode(t[k])
  PROVE  /\ OpenAt(s \o t, Len(s) + i) = Unended(s)
         /\ At(s \o t, Len(s) + i) = Here(s)
  <1> DEFINE st == s \o t
             n  == Len(s)
  <1>1. /\ \A k \in DOMAIN s : st[k] = s[k]
        /\ \A k \in DOMAIN t : st[n + k] = t[k]
        /\ DOMAIN s = 1..n /\ n \in Nat /\ DOMAIN t = 1..Len(t) /\ Len(t) \in Nat
    BY Joined, LenProperties
  <1> HIDE DEF st, n
  <1>2. i \in Int /\ i >= 1 /\ i <= Len(t)
    BY <1>1
  <1>3. \A k \in 1..i : k \in DOMAIN t /\ st[n + k] = t[k]
    <2>1. \A k \in 1..i : k \in DOMAIN t
      BY <1>1, <1>2
    <2>2. QED
      BY <1>1, <2>1
  <1>4. \A d \in 1..(n + i) : d \in 1..n \/ (d - n \in 1..i /\ d = n + (d - n))
    BY <1>1, <1>2
  <1>5. OpenAt(st, n + i) \subseteq 1..n
    <2>1. ASSUME NEW d \in OpenAt(st, n + i), d \notin 1..n PROVE FALSE
      <3>1. d \in 1..(n + i) /\ is_define_opcode(st[d])
        BY <2>1 DEF OpenAt
      <3>2. d - n \in 1..i /\ st[d] = t[d - n]
        BY <1>3, <1>4, <2>1, <3>1
      <3>3. QED
        BY <3>1, <3>2
    <2>2. QED
      BY <2>1
  <1>6. ASSUME NEW d \in 1..n
        PROVE  (\A e \in d..(n + i - 1) : ~is_enddefine_opcode(st[e]))
                 <=> (\A e \in d..n : ~is_enddefine_opcode(s[e]))
    <2>1. \A e \in d..n : e \in DOMAIN s /\ st[e] = s[e] /\ e \in d..(n + i - 1)
      BY <1>1, <1>2
    <2>2. \A e \in d..(n + i - 1) : e \in d..n \/ (e - n \in 1..(i - 1) /\ e = n + (e - n))
      BY <1>1, <1>2
    <2>3. \A k \in 1..(i - 1) : ~is_enddefine_opcode(st[n + k])
      <3>1. \A k \in 1..(i - 1) : k \in 1..i
        BY <1>2
      <3>2. QED
        BY <1>3, <3>1
    <2>4. \A e \in d..(n + i - 1) : e \in d..n \/ ~is_enddefine_opcode(st[e])
      BY <2>2, <2>3
    <2>5. QED
      BY <2>1, <2>4
  <1>7. \A d \in 1..n : d \in 1..(n + i) /\ st[d] = s[d]
    BY <1>1, <1>2
  <1>8. OpenAt(st, n + i) = Unended(s)
    <2>1. Unended(s) \subseteq 1..n
      BY DEF Unended, n
    <2>2. \A d \in 1..n : d \in OpenAt(st, n + i) <=> d \in Unended(s)
      BY <1>6, <1>7 DEF OpenAt, Unended, n
    <2>3. QED
      BY <1>5, <2>1, <2>2
  <1>9. QED
    BY <1>8 DEF At, Here, st, n

(* Code that begins and ends no definition leaves the end of the code in   *)
(* the same one.                                                           *)
LEMMA HereInner ==
  ASSUME NEW S, NEW s \in Seq(S), NEW t \in Seq(S), Inner(t)
  PROVE  Unended(s \o t) = Unended(s) /\ Here(s \o t) = Here(s)
  <1> DEFINE st == s \o t
             n  == Len(s)
             k0 == Len(t)
  <1>1. /\ \A k \in DOMAIN s : st[k] = s[k]
        /\ \A k \in DOMAIN t : st[n + k] = t[k]
        /\ DOMAIN s = 1..n /\ n \in Nat /\ DOMAIN t = 1..k0 /\ k0 \in Nat /\ Len(st) = n + k0
    BY Joined, LenProperties
  <1> HIDE DEF st, n, k0
  <1>2. \A d \in 1..(n + k0) : d \in 1..n \/ (d - n \in 1..k0 /\ d = n + (d - n))
    BY <1>1
  <1>3. \A d \in 1..(n + k0) : d \in 1..n \/ ~(is_define_opcode(st[d]) \/ is_enddefine_opcode(st[d]))
    <2>1. \A k \in 1..k0 : ~(is_define_opcode(st[n + k]) \/ is_enddefine_opcode(st[n + k]))
      BY <1>1 DEF Inner
    <2>2. QED
      BY <1>2, <2>1
  <1>4. \A d \in 1..n : d \in 1..(n + k0) /\ st[d] = s[d]
    BY <1>1
  <1>5. ASSUME NEW d \in 1..n
        PROVE  (\A e \in d..(n + k0) : ~is_enddefine_opcode(st[e]))
                 <=> (\A e \in d..n : ~is_enddefine_opcode(s[e]))
    <2>1. \A e \in d..n : e \in 1..n /\ e \in d..(n + k0)
      BY <1>1
    <2>2. \A e \in d..(n + k0) : e \in 1..(n + k0) /\ (e \in 1..n => e \in d..n)
      BY <1>1
    <2>3. QED
      BY <1>3, <1>4, <2>1, <2>2
  <1>6. Unended(st) \subseteq 1..n
    BY <1>1, <1>3 DEF Unended
  <1>7. Unended(s) \subseteq 1..n
    BY DEF Unended, n
  <1>8. \A d \in 1..n : d \in Unended(st) <=> d \in Unended(s)
    <2>1. \A d \in 1..n : d \in Unended(st) <=>
            is_define_opcode(st[d]) /\ \A e \in d..(n + k0) : ~is_enddefine_opcode(st[e])
      BY <1>1, <1>4 DEF Unended
    <2>2. \A d \in 1..n : d \in Unended(s) <=>
            is_define_opcode(s[d]) /\ \A e \in d..n : ~is_enddefine_opcode(s[e])
      BY DEF Unended, n
    <2>3. QED
      BY <1>4, <1>5, <2>1, <2>2
  <1>9. Unended(st) = Unended(s)
    BY <1>6, <1>7, <1>8
  <1>10. QED
    BY <1>9 DEF Here, st

(* Code that ends a definition and begins none leaves none open.           *)
LEMMA HereEnded ==
  ASSUME NEW S, NEW s \in Seq(S), NEW t \in Seq(S), NEW j \in DOMAIN t, is_enddefine_opcode(t[j]),
         \A k \in DOMAIN t : ~is_define_opcode(t[k])
  PROVE  Unended(s \o t) = {}
  <1> DEFINE st == s \o t
             n  == Len(s)
             k0 == Len(t)
  <1>1. /\ \A k \in DOMAIN t : st[n + k] = t[k]
        /\ n \in Nat /\ DOMAIN t = 1..k0 /\ k0 \in Nat /\ Len(st) = n + k0
    BY Joined, LenProperties
  <1> HIDE DEF st, n, k0
  <1>2. ASSUME NEW d \in Unended(st) PROVE FALSE
    <2>1. /\ d \in 1..(n + k0) /\ is_define_opcode(st[d])
          /\ \A e \in d..(n + k0) : ~is_enddefine_opcode(st[e])
      BY <1>1, <1>2 DEF Unended
    <2>2. d \in 1..n
      <3>1. d \in 1..n \/ (d - n \in 1..k0 /\ d = n + (d - n))
        BY <1>1, <2>1
      <3>2. \A k \in 1..k0 : ~is_define_opcode(st[n + k])
        BY <1>1
      <3>3. QED
        BY <2>1, <3>1, <3>2
    <2>3. n + j \in d..(n + k0)
      BY <1>1, <2>2
    <2>4. is_enddefine_opcode(st[n + j])
      BY <1>1
    <2>5. QED
      BY <2>1, <2>3, <2>4
  <1>3. QED
    BY <1>2 DEF st

-----------------------------------------------------------------------------
(* A branch is settled when its target is placed in its own definition, or *)
(* it is outside definitions and goes to the end of implicit main.         *)
Settled(code, i) ==
  \/ code[i].n = 0 /\ At(code, i) = 0
  \/ \E j \in DOMAIN code : /\ is_label_opcode(code[j]) /\ code[j].n = code[i].n
                            /\ At(code, i) = At(code, j)

(* A branch waits for its label while that is on the label stack, which    *)
(* holds labels of the definition that the end of the code is in.          *)
Waits(code, labels, i) ==
  At(code, i) = Here(code) /\ \E p \in DOMAIN labels : labels[p] = code[i].n

Lead(code, labels) ==
  \A i \in DOMAIN code :
    is_branching_opcode(code[i]) => Settled(code, i) \/ Waits(code, labels, i)

(* A label placed where the code goes on, so that a branch may go back.    *)
Led(code, l) ==
  \E j \in DOMAIN code : /\ is_label_opcode(code[j]) /\ code[j].n = l
                         /\ At(code, j) = Here(code)

(* A label stays where it is placed, and a label placed now is placed      *)
(* where the code goes on.                                                 *)
LEMMA LedLater ==
  ASSUME NEW S, NEW s \in Seq(S), NEW t \in Seq(S), Inner(t), NEW l,
         Led(s, l) \/ l \in Placed(t)
  PROVE  Led(s \o t, l)
  <1> DEFINE st == s \o t
  <1>1. /\ \A k \in DOMAIN s : k \in DOMAIN st /\ st[k] = s[k]
        /\ \A k \in DOMAIN t : Len(s) + k \in DOMAIN st /\ st[Len(s) + k] = t[k]
        /\ DOMAIN t = 1..Len(t) /\ Len(t) \in Nat
    BY Joined, LenProperties
  <1>2. \A k \in DOMAIN s : At(st, k) = At(s, k)
    BY AtKept
  <1>3. Here(st) = Here(s)
    BY HereInner
  <1>4. ASSUME NEW k \in DOMAIN t PROVE At(st, Len(s) + k) = Here(s)
    <2>1. \A e \in 1..k : e \in DOMAIN t
      BY <1>1
    <2>2. \A e \in 1..(k - 1) : e \in DOMAIN t
      BY <1>1
    <2>3. \A e \in 1..k : ~is_define_opcode(t[e])
      BY <2>1 DEF Inner
    <2>4. \A e \in 1..(k - 1) : ~is_enddefine_opcode(t[e])
      BY <2>2 DEF Inner
    <2>5. QED
      BY <2>3, <2>4, AtAppended
  <1> HIDE DEF st
  <1>5. CASE Led(s, l)
    BY <1>1, <1>2, <1>3, <1>5 DEF Led, st
  <1>6. CASE l \in Placed(t)
    <2>1. PICK k \in DOMAIN t : is_label_opcode(t[k]) /\ t[k].n = l
      BY <1>6 DEF Placed
    <2>2. QED
      BY <1>1, <1>3, <1>4, <2>1 DEF Led, st
  <1>7. QED
    BY <1>5, <1>6

(* Branches still lead somewhere when a handler has written code that      *)
(* begins and ends no definition, if each label it takes off the stack is  *)
(* placed, and each label it refers to is placed or on the stack.          *)
LEMMA LeadNext ==
  ASSUME NEW S, NEW s \in Seq(S), NEW t \in Seq(S), Inner(t), NEW old, NEW new, Lead(s, old),
         \A p \in DOMAIN old : \/ \E q \in DOMAIN new : new[q] = old[p]
                               \/ old[p] \in Placed(t) \/ Led(s, old[p]),
         \A l \in Referred(t) : \/ \E q \in DOMAIN new : new[q] = l
                                \/ l \in Placed(t) \/ Led(s, l)
                                \/ l = 0 /\ Unended(s) = {}
  PROVE  Lead(s \o t, new)
  <1> DEFINE st == s \o t
  <1>1. /\ \A k \in DOMAIN s : k \in DOMAIN st /\ st[k] = s[k]
        /\ \A k \in DOMAIN t : Len(s) + k \in DOMAIN st /\ st[Len(s) + k] = t[k]
        /\ \A k \in DOMAIN st :
             k \in DOMAIN s \/ (k - Len(s) \in DOMAIN t /\ k = Len(s) + (k - Len(s)))
        /\ DOMAIN t = 1..Len(t) /\ Len(t) \in Nat
    BY Joined, LenProperties
  <1>2. \A k \in DOMAIN s : At(st, k) = At(s, k)
    BY AtKept
  <1>3. Here(st) = Here(s)
    BY HereInner
  <1>4. ASSUME NEW k \in DOMAIN t PROVE At(st, Len(s) + k) = Here(s)
    <2>1. \A e \in 1..k : e \in DOMAIN t
      BY <1>1
    <2>2. \A e \in 1..(k - 1) : e \in DOMAIN t
      BY <1>1
    <2>3. \A e \in 1..k : ~is_define_opcode(t[e])
      BY <2>1 DEF Inner
    <2>4. \A e \in 1..(k - 1) : ~is_enddefine_opcode(t[e])
      BY <2>2 DEF Inner
    <2>5. QED
      BY <2>3, <2>4, AtAppended
  <1>5. \A l : Led(s, l) \/ l \in Placed(t) => Led(st, l)
    BY LedLater
  <1> HIDE DEF st
  <1>6. ASSUME NEW i \in DOMAIN st, At(st, i) = Here(s), Led(st, st[i].n)
        PROVE  Settled(st, i)
    BY <1>3, <1>6 DEF Led, Settled
  <1>7. ASSUME NEW i \in DOMAIN st, At(st, i) = Here(s), \E q \in DOMAIN new : new[q] = st[i].n
        PROVE  Waits(st, new, i)
    BY <1>3, <1>7 DEF Waits
  <1>8. ASSUME NEW i \in DOMAIN s, is_branching_opcode(s[i])
        PROVE  Settled(st, i) \/ Waits(st, new, i)
    <2>1. i \in DOMAIN st /\ st[i] = s[i] /\ At(st, i) = At(s, i)
      BY <1>1, <1>2
    <2>2. CASE Settled(s, i)
      <3>1. CASE s[i].n = 0 /\ At(s, i) = 0
        BY <2>1, <3>1 DEF Settled
      <3>2. CASE \E j \in DOMAIN s : /\ is_label_opcode(s[j]) /\ s[j].n = s[i].n
                                     /\ At(s, i) = At(s, j)
        <4>1. PICK j \in DOMAIN s : /\ is_label_opcode(s[j]) /\ s[j].n = s[i].n
                                    /\ At(s, i) = At(s, j)
          BY <3>2
        <4>2. j \in DOMAIN st /\ st[j] = s[j] /\ At(st, j) = At(s, j)
          BY <1>1, <1>2
        <4>3. QED
          BY <2>1, <4>1, <4>2 DEF Settled
      <3>3. QED
        BY <2>2, <3>1, <3>2 DEF Settled
    <2>3. CASE Waits(s, old, i)
      <3>1. PICK p \in DOMAIN old : old[p] = s[i].n
        BY <2>3 DEF Waits
      <3>2. At(st, i) = Here(s)
        BY <2>1, <2>3 DEF Waits
      <3>3. (\E q \in DOMAIN new : new[q] = s[i].n) \/ Led(st, s[i].n)
        BY <1>5, <3>1
      <3>4. QED
        BY <1>6, <1>7, <2>1, <3>2, <3>3
    <2>4. QED
      BY <1>8, <2>2, <2>3 DEF Lead
  <1>9. ASSUME NEW k \in DOMAIN t, is_branching_opcode(t[k])
        PROVE  Settled(st, Len(s) + k) \/ Waits(st, new, Len(s) + k)
    <2> DEFINE i == Len(s) + k
    <2>1. i \in DOMAIN st /\ st[i] = t[k] /\ At(st, i) = Here(s)
      BY <1>1, <1>4
    <2>2. t[k].n \in Referred(t)
      BY <1>9 DEF Referred
    <2> HIDE DEF i
    <2>3. t[k].n = 0 /\ Unended(s) = {} => Settled(st, i)
      <3>1. Unended(s) = {} => Here(s) = 0
        BY DEF Here
      <3>2. QED
        BY <2>1, <3>1 DEF Settled
    <2>4. (\E q \in DOMAIN new : new[q] = t[k].n) => Waits(st, new, i)
      BY <1>7, <2>1
    <2>5. Led(st, t[k].n) => Settled(st, i)
      BY <1>6, <2>1
    <2>6. Settled(st, i) \/ Waits(st, new, i)
      BY <1>5, <2>2, <2>3, <2>4, <2>5
    <2>7. QED
      BY <2>6 DEF i
  <1>10. QED
    <2>1. ASSUME NEW i \in DOMAIN st, is_branching_opcode(st[i])
          PROVE  Settled(st, i) \/ Waits(st, new, i)
      <3>1. CASE i \in DOMAIN s
        BY <1>1, <1>8, <2>1, <3>1
      <3>2. CASE i - Len(s) \in DOMAIN t /\ i = Len(s) + (i - Len(s))
        <4>1. is_branching_opcode(t[i - Len(s)])
          BY <1>1, <2>1, <3>2
        <4>2. QED
          BY <1>9, <3>2, <4>1
      <3>3. QED
        BY <1>1, <3>1, <3>2
    <2>2. QED
      BY <2>1 DEF Lead, st

-----------------------------------------------------------------------------
(* The outermost construct is open in active code and of one of the kinds. *)
Outermost(kinds) == nest # <<>> /\ nest[1].active /\ nest[1].kind \in kinds

(* Where an open loop began, its label is placed in this definition.       *)
Started ==
  \A i \in DOMAIN nest :
    Start(nest[i]) # 0 => Led(optable_, label_stack_[nest[i].labels + Start(nest[i])])

(* What the break stack holds is the last label of an open loop or CASE.   *)
BreaksKnown ==
  \A p \in DOMAIN break_stack_ : \E i \in DOMAIN nest :
    /\ Breaks(nest[i]) = 1 /\ p = nest[i].breaks + 1
    /\ break_stack_[p] = label_stack_[LabelsEnd(nest[i])]

Guided ==
  /\ Lead(optable_, label_stack_) /\ Started /\ BreaksKnown
  /\ current_definition_ = NoSymbol => Unended(optable_) = {}

(* Definitions are outermost, and the current definition, the exit label   *)
(* and the bottom of the two stacks belong to the outermost construct.     *)
Bound ==
  /\ nest = <<>> => label_stack_ = <<>> /\ break_stack_ = <<>>
  /\ nest # <<>> => nest[1].labels = 0 /\ nest[1].breaks = 0
  /\ \A i \in DOMAIN nest : i > 1 => nest[i].kind \notin Bodies
  /\ nest # <<>> /\ nest[1].kind \in {"code", "coded"} => Len(nest) = 1
  /\ IF Outermost(Bodies) THEN current_definition_ \in Symbols
                          ELSE current_definition_ = NoSymbol
  /\ IF Outermost({"definition", "noname"}) THEN exit_label_ = label_stack_[1]
                                            ELSE exit_label_ = 0

(* A step of the label stacks that writes code with these labels, but no   *)
(* branch inside an assembly word.                                         *)
Proceeds(m, kept, old, fresh, new, used, breaks, code, referred) ==
  /\ Replaces(m, kept, old, fresh, new, breaks)
  /\ Shifts(kept, fresh, used) /\ BreaksMove(breaks)
  /\ Emit(code) /\ Carries(code, NewlyPlaced(kept, old, fresh, new, used), referred)
  /\ referred \subseteq Reachable(used)
  /\ UNCHANGED <<exit_label_, current_definition_>>
  /\ Inside({"code", "coded"}) => referred = {}
  /\ Len(nest) = m + 1 /\ Len(nest') = m + 1 => nest[m + 1].kind = "if"

(* Such a step keeps the frames and labels below it, as NextFrames and     *)
(* KeptBelow say.                                                          *)
LEMMA PassesLabelled ==
  ASSUME NEW m, NEW kept, NEW old, NEW fresh, NEW new, NEW used, NEW breaks, NEW code,
         NEW referred, Proceeds(m, kept, old, fresh, new, used, breaks, code, referred)
  PROVE  /\ Labelled(kept, old, fresh, new, used, breaks)
         /\ code \in Seq(OpcodeSet(Symbols)) /\ Inner(code)
         /\ Placed(code) = NewlyPlaced(kept, old, fresh, new, used) /\ Referred(code) = referred
         /\ optable_' = optable_ \o code
  <1>1. /\ code \in Seq(OpcodeSet(Symbols)) /\ Inner(code) /\ Once(code)
        /\ Placed(code) = NewlyPlaced(kept, old, fresh, new, used) /\ Referred(code) = referred
        /\ optable_' = optable_ \o code
    BY DEF Proceeds, Carries, Emit
  <1>2. Labelled(kept, old, fresh, new, used, breaks)
    BY <1>1 DEF Proceeds, Labelled
  <1>3. QED
    BY <1>1, <1>2

(* A label on the stack stays there, or is placed now, or was placed where *)
(* the loop that holds it began.                                           *)
LEMMA OldLabels ==
  ASSUME TypeOK, TypeOK', Labelling, Started,
         NEW m, NEW kept, NEW old, NEW fresh, NEW new, NEW used, NEW breaks, NEW code,
         NEW referred, Proceeds(m, kept, old, fresh, new, used, breaks, code, referred),
         NEW p \in DOMAIN label_stack_
  PROVE  \/ p \in DOMAIN label_stack_' /\ label_stack_'[p] = label_stack_[p]
         \/ label_stack_[p] \in Placed(code)
         \/ Led(optable_, label_stack_[p])
  <1>1. /\ kept \in 0..Len(label_stack_) /\ fresh \in Nat /\ Len(label_stack_') = kept + fresh
        /\ \A q \in 1..kept : label_stack_'[q] = label_stack_[q]
    BY DEF Proceeds, Shifts
  <1>2. /\ p \in 1..Len(label_stack_) /\ Len(label_stack_) \in Nat
        /\ DOMAIN label_stack_' = 1..Len(label_stack_') /\ kept \in Nat /\ p \in Nat
    <2>1. label_stack_ \in Seq(Nat) /\ label_stack_' \in Seq(Nat)
      BY DEF TypeOK, FlowOK
    <2>2. /\ DOMAIN label_stack_ = 1..Len(label_stack_) /\ Len(label_stack_) \in Nat
          /\ DOMAIN label_stack_' = 1..Len(label_stack_')
      BY <2>1, LenProperties
    <2>3. p \in 1..Len(label_stack_)
      BY <2>2
    <2>4. kept \in Nat /\ p \in Nat
      BY <1>1, <2>2, <2>3
    <2>5. QED
      BY <2>2, <2>3, <2>4
  <1>3. Placed(code) = NewlyPlaced(kept, old, fresh, new, used)
    BY PassesLabelled
  <1>4. CASE p <= kept
    <2>1. p \in 1..kept /\ p \in 1..(kept + fresh)
      BY <1>1, <1>2, <1>4
    <2>2. QED
      BY <1>1, <1>2, <2>1
  <1>5. CASE p > kept /\ p # kept + old
    <2>1. p \in (kept + 1)..Len(label_stack_)
      BY <1>1, <1>2, <1>5
    <2>2. label_stack_[p] \in Above(kept, old)
      BY <1>5, <2>1 DEF Above
    <2>3. QED
      BY <1>3, <2>2 DEF NewlyPlaced
  <1>6. CASE p > kept /\ p = kept + old
    <2>1. Replaces(m, kept, old, fresh, new, breaks)
      BY DEF Proceeds
    <2>2. Len(nest) = m + 1
      BY <1>1, <1>2, <1>6, <2>1 DEF Replaces
    <2>3. /\ m + 1 \in DOMAIN nest /\ nest[m + 1] \in FrameSet /\ nest[m + 1].labels = kept
          /\ old = Start(nest[m + 1])
      <3>1. /\ m + 1 \in DOMAIN nest /\ nest[m + 1] \in FrameSet /\ nest[m + 1].labels = kept
        BY <1>2, <2>1, <2>2, KeptBelow
      <3>2. old = Start(nest[m + 1])
        BY <2>1, <2>2 DEF Replaces
      <3>3. QED
        BY <3>1, <3>2
    <2>4. old \in Nat
      BY <2>3, ShareTyped
    <2>5. old # 0
      BY <1>2, <1>6, <2>4
    <2>6. Led(optable_, label_stack_[nest[m + 1].labels + Start(nest[m + 1])])
      BY <2>3, <2>5 DEF Started
    <2>7. QED
      BY <1>6, <2>3, <2>6
  <1>7. QED
    BY <1>2, <1>4, <1>5, <1>6

(* The last label of a construct that can be left early is on the stack.   *)
LEMMA BreakLabel ==
  ASSUME TypeOK, Labelling, NEW i \in DOMAIN nest, Labels(nest[i]) # 0 \/ Breaks(nest[i]) = 1
  PROVE  /\ LabelsEnd(nest[i]) \in DOMAIN label_stack_
         /\ Labels(nest[i]) >= 1 /\ nest[i] \in FrameSet
  <1>1. /\ DOMAIN nest = 1..Len(nest) /\ Len(nest) \in Nat /\ Len(nest) \in DOMAIN nest
        /\ DOMAIN label_stack_ = 1..Len(label_stack_) /\ Len(label_stack_) \in Nat
        /\ nest # <<>>
    <2>1. /\ DOMAIN nest = 1..Len(nest) /\ Len(nest) \in Nat
          /\ DOMAIN label_stack_ = 1..Len(label_stack_) /\ Len(label_stack_) \in Nat
      BY LenProperties DEF TypeOK, FlowOK
    <2>2. QED
      BY <2>1, EmptySeq
  <1>2. \A k \in DOMAIN nest : nest[k] \in FrameSet
    BY ElementOfSeq DEF TypeOK
  <1>3. \A k \in DOMAIN nest :
          /\ nest[k].labels \in Nat /\ Labels(nest[k]) \in Nat
          /\ LabelsEnd(nest[k]) = nest[k].labels + Labels(nest[k])
    BY <1>2, ShareTyped
  <1>4. Labels(nest[i]) >= 1
    <2>1. Labels(nest[i]) # 0
      BY DEF Labels, Breaks
    <2>2. QED
      BY <1>3, <2>1
  <1>5. LabelsEnd(nest[i]) \in Nat /\ LabelsEnd(nest[i]) >= 1
    BY <1>3, <1>4
  <1>6. LabelsEnd(nest[i]) <= Len(label_stack_)
    <2>1. LabelsEnd(nest[Len(nest)]) = Len(label_stack_)
      BY <1>1 DEF Labelling, Chained
    <2>2. CASE i = Len(nest)
      BY <1>5, <2>1, <2>2
    <2>3. CASE i # Len(nest)
      <3>1. i < Len(nest)
        BY <1>1, <2>3
      <3>2. LabelsEnd(nest[i]) <= nest[Len(nest)].labels
        BY <1>1, <3>1 DEF Labelling, Chained
      <3>3. /\ nest[Len(nest)].labels \in Nat /\ Labels(nest[Len(nest)]) \in Nat
            /\ LabelsEnd(nest[Len(nest)]) = nest[Len(nest)].labels + Labels(nest[Len(nest)])
        BY <1>1, <1>3
      <3>4. QED
        BY <1>5, <2>1, <3>2, <3>3
    <2>4. QED
      BY <2>2, <2>3
  <1>7. QED
    BY <1>1, <1>2, <1>4, <1>5, <1>6

(* The construct that owns the bottom of the label stack.                  *)
LEMMA ExitKnown ==
  ASSUME TypeOK, Labelling, Bound, Outermost({"definition", "noname"})
  PROVE  /\ 1 \in DOMAIN label_stack_ /\ exit_label_ = label_stack_[1]
         /\ 1 \in DOMAIN nest /\ LabelsEnd(nest[1]) = 1 /\ Labels(nest[1]) = 1
         /\ nest[1].labels = 0 /\ Breaks(nest[1]) = 0
  <1>1. /\ nest # <<>> /\ nest[1].active /\ nest[1].kind \in {"definition", "noname"}
        /\ nest[1].labels = 0 /\ exit_label_ = label_stack_[1]
    BY DEF Bound, Outermost
  <1>2. Labels(nest[1]) = 1 /\ Breaks(nest[1]) = 0
    BY <1>1 DEF Labels, Breaks
  <1>3. LabelsEnd(nest[1]) = 1
    BY <1>1, <1>2 DEF LabelsEnd
  <1>4. 1 \in DOMAIN nest
    BY <1>1, EmptySeq, LenProperties DEF TypeOK
  <1>5. 1 \in DOMAIN label_stack_
    BY <1>2, <1>3, <1>4, BreakLabel
  <1>6. QED
    BY <1>1, <1>2, <1>3, <1>4, <1>5

(* What a handler may refer to is on the label stack afterwards, or placed *)
(* in this definition; outside definitions it may be label 0.              *)
LEMMA ReferredKnown ==
  ASSUME TypeOK, TypeOK', Labelling, Guided, Bound,
         NEW m, NEW kept, NEW old, NEW fresh, NEW new, NEW used, NEW breaks, NEW code,
         NEW referred, Proceeds(m, kept, old, fresh, new, used, breaks, code, referred),
         NEW l \in referred
  PROVE  \/ \E q \in DOMAIN label_stack_' : label_stack_'[q] = l
         \/ l \in Placed(code) \/ Led(optable_, l)
         \/ l = 0 /\ Unended(optable_) = {}
  <1> DEFINE Known(k) == \/ \E q \in DOMAIN label_stack_' : label_stack_'[q] = k
                         \/ k \in Placed(code) \/ Led(optable_, k)
  <1>1. \A p \in DOMAIN label_stack_ : Known(label_stack_[p])
    BY OldLabels DEF Guided
  <1>2. CASE l \in Taken(used)
    <2>1. /\ fresh \in Nat /\ used \in Nat
          /\ fresh # 0 => used = fresh
          /\ Len(label_stack_') = kept + fresh /\ kept \in 0..Len(label_stack_)
          /\ \A k \in 1..fresh : label_stack_'[kept + k] = label_sequence_ + k - 1
      BY DEF Proceeds, Shifts
    <2>2. /\ Len(label_stack_) \in Nat /\ label_sequence_ \in Nat
          /\ DOMAIN label_stack_' = 1..Len(label_stack_')
      BY LenProperties DEF TypeOK, FlowOK
    <2>3. kept \in Nat
      BY <2>1, <2>2
    <2>4. l \in label_sequence_..(label_sequence_ + used - 1)
      BY <1>2 DEF Taken
    <2>5. CASE fresh = 0
      <3>1. Placed(code) = NewlyPlaced(kept, old, fresh, new, used)
        BY PassesLabelled
      <3>2. l \in Placed(code)
        BY <1>2, <2>5, <3>1 DEF NewlyPlaced
      <3>3. QED
        BY <3>2
    <2>6. CASE fresh # 0
      <3> DEFINE k == l - label_sequence_ + 1
      <3>0. used = fresh
        BY <2>1, <2>6
      <3>1. k \in 1..fresh /\ l = label_sequence_ + k - 1 /\ k \in Nat
        BY <2>1, <2>2, <2>4, <3>0
      <3> HIDE DEF k
      <3>2. kept + k \in 1..(kept + fresh)
        BY <2>1, <2>3, <3>1
      <3>3. kept + k \in DOMAIN label_stack_' /\ label_stack_'[kept + k] = l
        BY <2>1, <2>2, <3>1, <3>2
      <3>4. QED
        BY <3>3
    <2>7. QED
      BY <2>5, <2>6
  <1>3. CASE \E p \in DOMAIN label_stack_ : l = label_stack_[p]
    BY <1>1, <1>3
  <1>4. CASE \E p \in DOMAIN break_stack_ : l = break_stack_[p]
    <2>1. PICK p \in DOMAIN break_stack_ : l = break_stack_[p]
      BY <1>4
    <2>2. PICK i \in DOMAIN nest : /\ Breaks(nest[i]) = 1 /\ l = label_stack_[LabelsEnd(nest[i])]
      BY <2>1 DEF Guided, BreaksKnown
    <2>3. LabelsEnd(nest[i]) \in DOMAIN label_stack_
      BY <2>2, BreakLabel
    <2>4. QED
      BY <1>1, <2>2, <2>3
  <1>5. CASE l = exit_label_
    <2>1. CASE Outermost({"definition", "noname"})
      <3>1. 1 \in DOMAIN label_stack_ /\ l = label_stack_[1]
        BY <1>5, <2>1, ExitKnown
      <3>2. QED
        BY <1>1, <3>1
    <2>2. CASE ~Outermost({"definition", "noname"})
      <3>1. l = 0
        BY <1>5, <2>2 DEF Bound
      <3>2. ~Outermost(Bodies)
        <4>1. ASSUME Outermost(Bodies) PROVE FALSE
          <5>1. nest # <<>> /\ nest[1].kind \in {"code", "coded"}
            BY <2>2, <4>1 DEF Outermost, Bodies
          <5>2. Len(nest) = 1
            BY <5>1 DEF Bound
          <5>3. Inside({"code", "coded"})
            BY <5>1, <5>2 DEF Inside, Top, Last
          <5>4. QED
            BY <5>3 DEF Proceeds
        <4>2. QED
          BY <4>1
      <3>3. Unended(optable_) = {}
        BY <3>2 DEF Bound, Guided
      <3>4. QED
        BY <3>1, <3>3
    <2>3. QED
      BY <2>1, <2>2
  <1>6. l \in Reachable(used)
    BY DEF Proceeds
  <1>7. QED
    BY <1>2, <1>3, <1>4, <1>5, <1>6 DEF Reachable


(* Positions of two sequences of which one may be longer by one element.   *)
LEMMA Positions ==
  ASSUME NEW m \in Nat, NEW n \in {m, m + 1}
  PROVE  /\ \A k \in 1..m : k \in 1..n
         /\ \A k \in 1..n : k \notin 1..m => k = m + 1 /\ n = m + 1
         /\ n = m + 1 => m + 1 \in 1..n /\ n # m
         /\ \A k \in 1..(m - 1) : k \in 1..m /\ k < m
         /\ m # 0 => m - 1 \in Nat
  OBVIOUS

(* The guidance of branches through a step of the label stacks.            *)
LEMMA GuidedNext ==
  ASSUME TypeOK, TypeOK', Labelling, Guided, Bound,
         NEW m, NEW kept, NEW old, NEW fresh, NEW new, NEW used, NEW breaks, NEW code,
         NEW referred, Proceeds(m, kept, old, fresh, new, used, breaks, code, referred)
  PROVE  Guided'
  <1>1. /\ Labelled(kept, old, fresh, new, used, breaks)
        /\ Replaces(m, kept, old, fresh, new, breaks)
        /\ Shifts(kept, fresh, used) /\ BreaksMove(breaks)
    BY PassesLabelled DEF Proceeds
  <1>2. /\ code \in Seq(OpcodeSet(Symbols)) /\ Inner(code) /\ Referred(code) = referred
        /\ Placed(code) = NewlyPlaced(kept, old, fresh, new, used)
        /\ optable_ \in Seq(OpcodeSet(Symbols)) /\ optable_' = optable_ \o code
    BY PassesLabelled DEF TypeOK, CodeOK
  <1>3. /\ \A p \in DOMAIN label_stack_ : \/ \E q \in DOMAIN label_stack_' :
                                               label_stack_'[q] = label_stack_[p]
                                          \/ label_stack_[p] \in Placed(code)
                                          \/ Led(optable_, label_stack_[p])
    BY OldLabels DEF Guided
  <1>4. \A l \in Referred(code) : \/ \E q \in DOMAIN label_stack_' : label_stack_'[q] = l
                                  \/ l \in Placed(code) \/ Led(optable_, l)
                                  \/ l = 0 /\ Unended(optable_) = {}
    BY <1>2, ReferredKnown
  <1>5. Lead(optable_, label_stack_)'
    <2>1. Lead(optable_ \o code, label_stack_')
      BY <1>2, <1>3, <1>4, LeadNext DEF Guided
    <2>2. QED
      BY <1>2, <2>1
  <1>6. \A l : Led(optable_, l) \/ l \in Placed(code) => Led(optable_', l)
    BY <1>2, LedLater
  <1>7. /\ m \in Nat /\ kept \in Nat /\ fresh \in Nat
        /\ DOMAIN nest' = 1..Len(nest') /\ Len(nest') \in {m, m + 1}
        /\ \A i \in DOMAIN nest' : nest'[i] \in FrameSet
        /\ \A i \in 1..m : Alike(nest[i], nest'[i])
        /\ Len(label_stack_') = kept + fresh
        /\ Len(nest') = m + 1 => /\ nest'[m + 1].labels = kept
                                 /\ LabelsEnd(nest'[m + 1]) = kept + fresh
                                 /\ Start(nest'[m + 1]) = new /\ Labels(nest'[m + 1]) = fresh
                                 /\ BreaksEnd(nest'[m + 1]) = Len(break_stack_')
    BY <1>1, NextFrames
  <1>8. /\ \A i \in 1..m : i \in DOMAIN nest /\ nest[i] \in FrameSet
        /\ \A i \in 1..m : LabelsEnd(nest[i]) <= kept
        /\ Len(nest) = m + 1 => /\ m + 1 \in DOMAIN nest /\ nest[m + 1] \in FrameSet
                                /\ BreaksEnd(nest[m + 1]) = Len(break_stack_)
    BY <1>1, <1>7, KeptBelow
  <1>9. /\ \A p \in 1..kept : label_stack_'[p] = label_stack_[p]
        /\ \A k \in 1..fresh : label_stack_'[kept + k] = label_sequence_ + k - 1
        /\ label_sequence_' = label_sequence_ + used /\ used \in Nat
        /\ fresh # 0 => used = fresh
    BY <1>1 DEF Shifts
  <1>10. Len(nest) \in {m, m + 1} /\ DOMAIN nest = 1..Len(nest) /\ Len(nest) \in Nat
    BY <1>1, LenProperties DEF Replaces, TypeOK
  <1>11. Started'
    <2>1. ASSUME NEW i \in DOMAIN nest', Start(nest'[i]) # 0
          PROVE  Led(optable_', label_stack_'[nest'[i].labels + Start(nest'[i])])
      <3>1. CASE i \in 1..m
        <4> DEFINE p == nest[i].labels + Start(nest[i])
        <4>1. /\ nest'[i].labels = nest[i].labels /\ Start(nest'[i]) = Start(nest[i])
              /\ i \in DOMAIN nest /\ nest[i] \in FrameSet /\ LabelsEnd(nest[i]) <= kept
          BY <1>7, <1>8, <3>1 DEF Alike
        <4>2. /\ nest[i].labels \in Nat /\ Labels(nest[i]) \in Nat
              /\ Start(nest[i]) \in 0..Labels(nest[i])
              /\ LabelsEnd(nest[i]) = nest[i].labels + Labels(nest[i])
          BY <4>1, ShareTyped
        <4>3. Start(nest[i]) # 0
          BY <2>1, <4>1
        <4>4. p \in 1..kept
          BY <1>7, <4>1, <4>2, <4>3, SMTT(30)
        <4>5. Led(optable_, label_stack_[p])
          BY <4>1, <4>3 DEF Guided, Started
        <4>6. Led(optable_', label_stack_'[p])
          BY <1>6, <1>9, <4>4, <4>5
        <4>7. QED
          BY <4>1, <4>6
      <3>2. CASE i \notin 1..m
        <4>1. i = m + 1 /\ Len(nest') = m + 1
          <5>1. m \in Nat /\ i \in 1..Len(nest') /\ Len(nest') \in {m, m + 1}
            BY <1>7
          <5>2. QED
            BY <3>2, <5>1
        <4>2. /\ nest'[i].labels = kept /\ Start(nest'[i]) = new /\ new # 0
              /\ Labels(nest'[i]) = fresh /\ nest'[i] \in FrameSet
          BY <1>7, <2>1, <4>1
        <4>3. new \in 1..fresh
          <5>1. Start(nest'[i]) \in 0..Labels(nest'[i]) /\ Labels(nest'[i]) \in Nat
            BY <4>2, ShareTyped
          <5>2. QED
            BY <4>2, <5>1
        <4>4. fresh # 0
          BY <1>7, <4>3
        <4>5. label_sequence_ + new - 1 \in Placed(code)
          BY <1>2, <4>2, <4>4 DEF NewlyPlaced
        <4>6. label_stack_'[kept + new] = label_sequence_ + new - 1
          BY <1>9, <4>3
        <4>7. QED
          BY <1>6, <4>2, <4>5, <4>6
      <3>3. QED
        BY <3>1, <3>2
    <2>2. QED
      BY <2>1 DEF Started
  <1>12. BreaksKnown'
    <2>0. /\ break_stack_ \in Seq(Nat) /\ break_stack_' \in Seq(Nat)
          /\ DOMAIN break_stack_ = 1..Len(break_stack_) /\ Len(break_stack_) \in Nat
          /\ DOMAIN break_stack_' = 1..Len(break_stack_') /\ Len(break_stack_') \in Nat
      BY LenProperties DEF TypeOK, FlowOK
    <2> DEFINE before == IF Len(nest) = m THEN 0 ELSE Breaks(nest[m + 1])
               after  == IF Len(nest') = m THEN 0 ELSE Breaks(nest'[m + 1])
    <2>1. breaks = after - before
      BY <1>1 DEF Replaces
    <2>2. after \in {0, 1} /\ before \in {0, 1}
      <3>1. \A f \in FrameSet : Breaks(f) \in {0, 1}
        BY ShareTyped
      <3>2. Len(nest) = m + 1 => nest[m + 1] \in FrameSet
        BY <1>8
      <3>3. Len(nest') = m + 1 => nest'[m + 1] \in FrameSet
        <4>1. m \in Nat /\ DOMAIN nest' = 1..Len(nest')
          BY <1>7
        <4>2. Len(nest') = m + 1 => m + 1 \in DOMAIN nest'
          BY <4>1
        <4>3. QED
          BY <1>7, <4>2
      <3>4. Len(nest') \in {m, m + 1}
        BY <1>7
      <3>5. QED
        BY <1>10, <3>1, <3>2, <3>3, <3>4
    (* A construct that stays open, below the one replaced. *)
    <2>3. ASSUME NEW p \in DOMAIN break_stack_, NEW i \in 1..m,
                 Breaks(nest[i]) = 1, p = nest[i].breaks + 1,
                 break_stack_[p] = label_stack_[LabelsEnd(nest[i])]
          PROVE  \E j \in DOMAIN nest' :
                   /\ Breaks(nest'[j]) = 1 /\ p = nest'[j].breaks + 1
                   /\ break_stack_[p] = label_stack_'[LabelsEnd(nest'[j])]
      <3>1. /\ Breaks(nest'[i]) = Breaks(nest[i]) /\ nest'[i].breaks = nest[i].breaks
            /\ LabelsEnd(nest'[i]) = LabelsEnd(nest[i])
        BY <1>7 DEF Alike, LabelsEnd
      <3>2. i \in DOMAIN nest /\ LabelsEnd(nest[i]) <= kept
        BY <1>8
      <3>3. LabelsEnd(nest[i]) \in DOMAIN label_stack_
        BY <2>3, <3>2, BreakLabel
      <3>4. LabelsEnd(nest[i]) \in 1..kept
        <4>1. DOMAIN label_stack_ = 1..Len(label_stack_) /\ Len(label_stack_) \in Nat
          BY LenProperties DEF TypeOK, FlowOK
        <4>2. LabelsEnd(nest[i]) \in 1..Len(label_stack_)
          BY <3>3, <4>1
        <4>3. kept \in Nat /\ LabelsEnd(nest[i]) <= kept
          BY <1>7, <3>2
        <4>4. QED
          BY <4>1, <4>2, <4>3
      <3>5. i \in DOMAIN nest'
        <4>1. m \in Nat /\ DOMAIN nest' = 1..Len(nest') /\ Len(nest') \in {m, m + 1}
          BY <1>7
        <4>2. \A k \in 1..m : k \in 1..Len(nest')
          BY <4>1, Positions
        <4>3. QED
          BY <4>1, <4>2
      <3>6. label_stack_'[LabelsEnd(nest[i])] = label_stack_[LabelsEnd(nest[i])]
        BY <1>9, <3>4
      <3>7. QED
        BY <2>3, <3>1, <3>5, <3>6
    (* The construct replaced ends the break stack. *)
    <2>4. ASSUME NEW p \in DOMAIN break_stack_, p < Len(break_stack_) \/ before = 0 \/ breaks # -1
          PROVE  \E j \in DOMAIN nest' :
                   /\ Breaks(nest'[j]) = 1 /\ p = nest'[j].breaks + 1
                   /\ break_stack_[p] = label_stack_'[LabelsEnd(nest'[j])]
      <3>1. PICK i \in DOMAIN nest : /\ Breaks(nest[i]) = 1 /\ p = nest[i].breaks + 1
                                     /\ break_stack_[p] = label_stack_[LabelsEnd(nest[i])]
        BY DEF Guided, BreaksKnown
      <3>2. CASE i \in 1..m
        BY <2>3, <3>1, <3>2
      <3>3. CASE i \notin 1..m
        <4>1. i = m + 1 /\ Len(nest) = m + 1 /\ Len(nest) # m
          <5>1. m \in Nat /\ i \in 1..Len(nest) /\ Len(nest) \in {m, m + 1}
            BY <1>7, <1>10
          <5>2. \A k \in 1..Len(nest) : k \notin 1..m => k = m + 1 /\ Len(nest) = m + 1
            BY <5>1
          <5>3. m # m + 1
            BY <5>1
          <5>4. QED
            BY <3>3, <5>1, <5>2, <5>3
        <4>2. before = 1
          BY <3>1, <4>1
        <4>3. nest[m + 1].kind # "if"
          BY <3>1, <4>1 DEF Breaks
        <4>4. Len(nest') = m
          BY <1>7, <4>1, <4>3 DEF Proceeds
        <4>5. after = 0
          BY <4>4
        <4>6. breaks = -1
          BY <2>1, <4>2, <4>5
        <4>7. p = BreaksEnd(nest[m + 1])
          BY <3>1, <4>1 DEF BreaksEnd
        <4>8. p = Len(break_stack_)
          BY <1>8, <4>1, <4>7
        <4>9. QED
          BY <2>0, <2>4, <4>2, <4>6, <4>8
      <3>4. QED
        BY <3>2, <3>3
    <2>5. CASE breaks = 0
      <3>1. break_stack_' = break_stack_
        BY <1>1, <2>5 DEF BreaksMove
      <3>2. breaks # -1
        BY <2>5
      <3> HIDE DEF before, after
      <3>3. QED
        BY <2>4, <3>1, <3>2 DEF BreaksKnown
    <2>6. CASE breaks = 1
      <3>1. break_stack_' = Append(break_stack_, label_sequence_' - 1)
        BY <1>1, <2>6 DEF BreaksMove
      <3>2. label_sequence_' - 1 \in Nat
        <4>1. label_sequence_' \in Nat /\ label_sequence_' # 0
          BY DEF TypeOK, FlowOK
        <4>2. QED
          BY <4>1, Positions
      <3>3. /\ Len(break_stack_') = Len(break_stack_) + 1
            /\ \A p \in 1..Len(break_stack_) : break_stack_'[p] = break_stack_[p]
            /\ break_stack_'[Len(break_stack_) + 1] = label_sequence_' - 1
        BY <2>0, <3>1, <3>2, AppendProperties
      <3>4. after = 1 /\ before = 0
        BY <2>1, <2>2, <2>6
      <3>5. Len(nest') = m + 1 /\ Breaks(nest'[m + 1]) = 1
        <4>1. Len(nest') # m /\ after = Breaks(nest'[m + 1])
          BY <3>4
        <4>2. Len(nest') \in {m, m + 1}
          BY <1>7
        <4>3. QED
          BY <3>4, <4>1, <4>2
      <3>6. m + 1 \in DOMAIN nest' /\ nest'[m + 1] \in FrameSet
        BY <1>7, <3>5
      <3>7. nest'[m + 1].breaks + 1 = Len(break_stack_')
        BY <1>7, <3>5 DEF BreaksEnd
      <3>8. fresh >= 1
        <4>1. Labels(nest'[m + 1]) # 0
          BY <3>5 DEF Labels, Breaks
        <4>2. QED
          BY <1>7, <3>5, <4>1
      <3>9. label_stack_'[LabelsEnd(nest'[m + 1])] = label_sequence_' - 1
        <4>1. LabelsEnd(nest'[m + 1]) = kept + fresh /\ fresh \in 1..fresh /\ used = fresh
          BY <1>7, <1>9, <3>5, <3>8
        <4> DEFINE x == kept + fresh
                   y == label_sequence_ + fresh
        <4>2. label_stack_'[x] = y - 1
          <5>1. \A k \in 1..fresh : label_stack_'[kept + k] = label_sequence_ + k - 1
            BY <1>9
          <5>2. label_stack_'[kept + fresh] = label_sequence_ + fresh - 1
            BY <4>1, <5>1
          <5>3. label_sequence_ \in Nat /\ fresh \in Nat
            BY <1>7 DEF TypeOK, FlowOK
          <5>4. label_sequence_ + (fresh - 1) = (label_sequence_ + fresh) - 1
            BY <5>3
          <5>5. QED
            BY <5>2, <5>4
        <4>3. label_sequence_' = y
          BY <1>9, <4>1
        <4>4. LabelsEnd(nest'[m + 1]) = x
          BY <4>1
        <4> HIDE DEF x, y
        <4>5. QED
          BY <4>2, <4>3, <4>4
      <3> HIDE DEF before, after
      <3>10. ASSUME NEW p \in DOMAIN break_stack_'
             PROVE  \E j \in DOMAIN nest' :
                      /\ Breaks(nest'[j]) = 1 /\ p = nest'[j].breaks + 1
                      /\ break_stack_'[p] = label_stack_'[LabelsEnd(nest'[j])]
        <4>1. CASE p = Len(break_stack_')
          <5>1. break_stack_'[p] = label_stack_'[LabelsEnd(nest'[m + 1])]
            BY <3>3, <3>9, <4>1
          <5>2. QED
            BY <3>5, <3>6, <3>7, <4>1, <5>1
        <4>2. CASE p # Len(break_stack_')
          <5>1. p \in DOMAIN break_stack_ /\ break_stack_'[p] = break_stack_[p]
            BY <2>0, <3>3, <4>2
          <5>2. QED
            BY <2>4, <3>4, <5>1
        <4>3. QED
          BY <4>1, <4>2
      <3>11. QED
        BY <3>10 DEF BreaksKnown
    <2>7. CASE breaks = -1
      <3>1. break_stack_ # <<>> /\ break_stack_' = Front(break_stack_)
        BY <1>1, <2>7 DEF BreaksMove
      <3>2. /\ Len(break_stack_') = Len(break_stack_) - 1
            /\ \A p \in 1..(Len(break_stack_) - 1) : break_stack_'[p] = break_stack_[p]
        BY <2>0, <3>1, FrontTyped
      <3>3. \A p \in DOMAIN break_stack_' : /\ p \in DOMAIN break_stack_ /\ p < Len(break_stack_)
                                            /\ break_stack_'[p] = break_stack_[p]
        <4>1. DOMAIN break_stack_' = 1..(Len(break_stack_) - 1)
          BY <2>0, <3>2
        <4>2. Len(break_stack_) \in Nat
          BY <2>0
        <4>3. \A p \in 1..(Len(break_stack_) - 1) : p \in 1..Len(break_stack_)
                                                    /\ p < Len(break_stack_)
          BY <4>2, Positions
        <4>4. QED
          BY <2>0, <3>2, <4>1, <4>3
      <3> HIDE DEF before, after
      <3>4. QED
        BY <2>4, <3>3 DEF BreaksKnown
    <2>8. breaks \in {0, 1, -1}
      BY <2>1, <2>2
    <2>9. QED
      BY <2>5, <2>6, <2>7, <2>8
  <1>13. (current_definition_ = NoSymbol => Unended(optable_) = {})'
    <2>1. Unended(optable_') = Unended(optable_)
      BY <1>2, HereInner
    <2>2. current_definition_' = current_definition_
      BY DEF Proceeds
    <2>3. QED
      BY <2>1, <2>2 DEF Guided
  <1>14. QED
    BY <1>5, <1>11, <1>12, <1>13 DEF Guided


(* A step that opens and closes no definition leaves what belongs to the   *)
(* outermost construct as it is.                                           *)
LEMMA BoundNext ==
  ASSUME TypeOK, TypeOK', Labelling, Bound,
         NEW m, NEW kept, NEW old, NEW fresh, NEW new, NEW used, NEW breaks,
         Replaces(m, kept, old, fresh, new, breaks),
         Labelled(kept, old, fresh, new, used, breaks),
         UNCHANGED <<exit_label_, current_definition_>>,
         Len(nest) = m + 1 => ~Body(nest[m + 1]),
         Len(nest') = m + 1 => ~Body(nest'[m + 1]),
         Len(nest') = m + 1 /\ m > 0 => nest'[m + 1].kind \notin Bodies,
         Len(nest') = m + 1 /\ Len(nest) = m => ~Inside({"code", "coded"})
  PROVE  Bound'
  <1>1. /\ m \in Nat /\ kept \in Nat /\ fresh \in Nat
        /\ DOMAIN nest' = 1..Len(nest') /\ Len(nest') \in {m, m + 1}
        /\ \A i \in 1..m : Alike(nest[i], nest'[i])
        /\ Len(label_stack_') = kept + fresh
        /\ Len(nest') = m + 1 => nest'[m + 1].labels = kept
        /\ Len(nest') = m => fresh = 0
        /\ BreaksKept(m) \in Nat
        /\ Len(nest') = m => Len(break_stack_') = BreaksKept(m)
        /\ Len(nest') = m + 1 => nest'[m + 1].breaks = BreaksKept(m)
    BY NextFrames
  <1>2. Len(nest) \in {m, m + 1} /\ (Len(nest) = m => kept = Len(label_stack_))
    BY DEF Replaces
  <1>3. /\ \A i \in 1..m : i \in DOMAIN nest /\ nest[i] \in FrameSet /\ LabelsEnd(nest[i]) <= kept
        /\ Len(nest) = m + 1 => m + 1 \in DOMAIN nest /\ nest[m + 1].labels = kept
    BY <1>1, KeptBelow
  <1>4. /\ nest \in Seq(FrameSet) /\ nest' \in Seq(FrameSet)
        /\ label_stack_ \in Seq(Nat) /\ label_stack_' \in Seq(Nat)
        /\ break_stack_ \in Seq(Nat) /\ break_stack_' \in Seq(Nat)
    BY DEF TypeOK, FlowOK
  <1>5. \A p \in 1..kept : label_stack_'[p] = label_stack_[p]
    BY DEF Labelled, Shifts
  <1>6. m = 0 => kept = 0 /\ BreaksKept(m) = 0
    <2>1. CASE Len(nest) = m /\ m = 0
      <3>1. label_stack_ = <<>> /\ break_stack_ = <<>>
        BY <1>4, <2>1, EmptySeq DEF Bound
      <3>2. Len(label_stack_) = 0 /\ Len(break_stack_) = 0
        BY <3>1, EmptySeq
      <3>3. QED
        BY <1>2, <2>1, <3>2 DEF BreaksKept
    <2>2. CASE Len(nest) = m + 1 /\ m = 0
      <3>1. Len(nest) = 1 /\ Len(nest) # 0 /\ m + 1 = 1
        BY <2>2
      <3>2. nest[1].labels = 0 /\ nest[1].breaks = 0
        BY <1>4, <3>1, EmptySeq DEF Bound
      <3>3. QED
        BY <1>3, <2>2, <3>1, <3>2 DEF BreaksKept
    <2>3. QED
      BY <1>2, <2>1, <2>2
  <1>7. nest' = <<>> => label_stack_' = <<>> /\ break_stack_' = <<>>
    <2>1. SUFFICES ASSUME nest' = <<>> PROVE label_stack_' = <<>> /\ break_stack_' = <<>>
      OBVIOUS
    <2>2. Len(nest') = 0
      BY <2>1, EmptySeq
    <2>3. m = 0 /\ Len(nest') = m
      BY <1>1, <2>2
    <2>4. Len(label_stack_') = 0 /\ Len(break_stack_') = 0
      BY <1>1, <1>6, <2>3
    <2>5. QED
      BY <1>4, <2>4, EmptySeq
  <1>8. m # 0 => /\ 1 \in 1..m /\ nest # <<>> /\ nest' # <<>> /\ Alike(nest[1], nest'[1])
                 /\ 1 \in DOMAIN nest /\ nest[1] \in FrameSet /\ LabelsEnd(nest[1]) <= kept
    <2>1. SUFFICES ASSUME m # 0
                   PROVE  1 \in 1..m /\ Len(nest) # 0 /\ Len(nest') # 0
      BY <1>1, <1>3, <1>4, EmptySeq
    <2>2. m \in Nat /\ Len(nest) \in {m, m + 1} /\ Len(nest') \in {m, m + 1}
      BY <1>1, <1>2
    <2>3. QED
      BY <2>1, <2>2
  <1>9. nest' # <<>> => nest'[1].labels = 0 /\ nest'[1].breaks = 0
    <2>1. CASE m = 0
      <3>1. nest' # <<>> => Len(nest') = m + 1 /\ m + 1 = 1
        BY <1>1, <1>4, <2>1, EmptySeq
      <3>2. QED
        BY <1>1, <1>6, <2>1, <3>1
    <2>2. CASE m # 0
      BY <1>8, <2>2 DEF Alike, Bound
    <2>3. QED
      BY <2>1, <2>2
  <1>10. \A i \in DOMAIN nest' : i > 1 => nest'[i].kind \notin Bodies
    <2>1. ASSUME NEW i \in DOMAIN nest', i > 1 PROVE nest'[i].kind \notin Bodies
      <3>1. CASE i \in 1..m
        <4>1. i \in DOMAIN nest /\ Alike(nest[i], nest'[i])
          BY <1>1, <1>3, <3>1
        <4>2. nest[i].kind \notin Bodies
          BY <2>1, <4>1 DEF Bound
        <4>3. QED
          BY <4>1, <4>2 DEF Alike
      <3>2. CASE i \notin 1..m
        <4>1. i = m + 1 /\ Len(nest') = m + 1
          BY <1>1, <3>2, Positions
        <4>2. m > 0
          BY <1>1, <2>1, <4>1
        <4>3. QED
          BY <4>1, <4>2
      <3>3. QED
        BY <3>1, <3>2
    <2>2. QED
      BY <2>1
  <1>11. nest' # <<>> /\ nest'[1].kind \in {"code", "coded"} => Len(nest') = 1
    <2>1. SUFFICES ASSUME nest' # <<>>, nest'[1].kind \in {"code", "coded"} PROVE Len(nest') = 1
      OBVIOUS
    <2>2. Len(nest') # 0
      BY <1>4, <2>1, EmptySeq
    <2>3. CASE m = 0
      BY <1>1, <2>2, <2>3
    <2>4. CASE m # 0
      <3>1. nest[1].kind \in {"code", "coded"}
        BY <1>8, <2>1, <2>4 DEF Alike
      <3>2. Len(nest) = 1
        BY <1>8, <2>4, <3>1 DEF Bound
      <3>3. m = 1 /\ Len(nest) = m
        BY <1>1, <1>2, <2>4, <3>2
      <3>4. Inside({"code", "coded"})
        BY <1>8, <2>4, <3>1, <3>2 DEF Inside, Top, Last
      <3>5. Len(nest') # m + 1
        BY <3>3, <3>4
      <3>6. QED
        BY <1>1, <3>3, <3>5
    <2>5. QED
      BY <2>3, <2>4
  <1>12. /\ Outermost(Bodies)' <=> Outermost(Bodies)
         /\ Outermost({"definition", "noname"})' <=> Outermost({"definition", "noname"})
    <2>1. CASE m = 0
      <3>1. Len(nest) = 0 \/ (Len(nest) = m + 1 /\ m + 1 = 1)
        BY <1>2, <2>1
      <3>2. Len(nest') = 0 \/ (Len(nest') = m + 1 /\ m + 1 = 1)
        BY <1>1, <2>1
      <3>3. nest # <<>> => ~Body(nest[1])
        BY <1>4, <3>1, EmptySeq
      <3>4. nest' # <<>> => ~Body(nest'[1])
        BY <1>4, <3>2, EmptySeq
      <3>5. QED
        BY <3>3, <3>4 DEF Outermost, Body, Bodies
    <2>2. CASE m # 0
      <3>1. /\ nest'[1].active = nest[1].active
            /\ nest'[1].kind \in Bodies <=> nest[1].kind \in Bodies
            /\ nest'[1].kind \in {"definition", "noname"}
                 <=> nest[1].kind \in {"definition", "noname"}
        BY <1>8, <2>2 DEF Alike
      <3>2. nest # <<>> /\ nest' # <<>>
        BY <1>8, <2>2
      <3>3. QED
        BY <3>1, <3>2 DEF Outermost
    <2>3. QED
      BY <2>1, <2>2
  <1>13. (IF Outermost(Bodies) THEN current_definition_ \in Symbols
                               ELSE current_definition_ = NoSymbol)'
    BY <1>12 DEF Bound
  <1>14. (IF Outermost({"definition", "noname"}) THEN exit_label_ = label_stack_[1]
                                                 ELSE exit_label_ = 0)'
    <2>1. CASE Outermost({"definition", "noname"})
      <3>1. m # 0
        <4>1. ASSUME m = 0 PROVE FALSE
          <5>1. nest # <<>> /\ Body(nest[1])
            BY <2>1 DEF Outermost, Body, Bodies
          <5>2. Len(nest) = m + 1 /\ m + 1 = 1
            BY <1>2, <1>4, <4>1, <5>1, EmptySeq
          <5>3. QED
            BY <5>1, <5>2
        <4>2. QED
          BY <4>1
      <3>2. LabelsEnd(nest[1]) = 1 /\ exit_label_ = label_stack_[1]
        BY <2>1, ExitKnown
      <3>3. 1 \in 1..kept
        BY <1>1, <1>8, <3>1, <3>2
      <3>4. label_stack_'[1] = label_stack_[1]
        BY <1>5, <3>3
      <3>5. QED
        BY <1>12, <2>1, <3>2, <3>4
    <2>2. CASE ~Outermost({"definition", "noname"})
      BY <1>12, <2>2 DEF Bound
    <2>3. QED
      BY <2>1, <2>2
  <1>15. QED
    BY <1>7, <1>9, <1>10, <1>11, <1>13, <1>14 DEF Bound


(* A step inside definitions, or outside, keeps branches and stacks.       *)
LEMMA OrdinaryBranches ==
  ASSUME TypeOK, TypeOK', Labelling, Guided, Bound, Ordinary
  PROVE  Guided' /\ Bound'
  <1>1. PICK m, kept, old, fresh, new, used, breaks :
          /\ Replaces(m, kept, old, fresh, new, breaks)
          /\ Moved(kept, old, fresh, new, used, breaks)
          /\ Bodiless(m)
    BY DEF Ordinary
  <1>2. PICK referred : /\ referred \subseteq Reachable(used)
                        /\ Writes(NewlyPlaced(kept, old, fresh, new, used), referred)
    BY <1>1 DEF Moved
  <1>3. PICK code : /\ optable_' = optable_ \o code
                    /\ Carries(code, NewlyPlaced(kept, old, fresh, new, used), referred)
    BY <1>2 DEF Writes
  <1>4. Inside({"code", "coded"}) => referred = {}
    <2>1. SUFFICES ASSUME Inside({"code", "coded"}) PROVE referred = {}
      OBVIOUS
    <2>2. optable_' = optable_
      BY <1>1, <2>1 DEF Bodiless
    <2>3. /\ code \in Seq(OpcodeSet(Symbols)) /\ optable_ \in Seq(OpcodeSet(Symbols))
          /\ Referred(code) = referred
      BY <1>3 DEF Carries, TypeOK, CodeOK
    <2>4. Emit(code) /\ Len(code) \in Nat
      BY <1>3, <2>3, LenProperties DEF Emit
    <2>5. Len(code) = 0
      BY <2>2, <2>3, <2>4, LongerCode
    <2>6. DOMAIN code = {}
      BY <2>3, <2>5, LenProperties
    <2>7. QED
      BY <2>3, <2>6 DEF Referred
  <1>5. Proceeds(m, kept, old, fresh, new, used, breaks, code, referred)
    <2>1. Shifts(kept, fresh, used) /\ BreaksMove(breaks)
          /\ UNCHANGED <<exit_label_, current_definition_>>
      BY <1>1 DEF Moved
    <2>2. Len(nest) = m + 1 /\ Len(nest') = m + 1 => nest[m + 1].kind = "if"
      BY <1>1 DEF Bodiless
    <2>3. QED
      BY <1>1, <1>2, <1>3, <1>4, <2>1, <2>2 DEF Proceeds, Emit
  <1>6. Guided'
    BY <1>5, GuidedNext
  <1>7. Labelled(kept, old, fresh, new, used, breaks)
        /\ UNCHANGED <<exit_label_, current_definition_>>
    BY <1>5, PassesLabelled DEF Proceeds
  <1>8. Bound'
    BY <1>1, <1>7, BoundNext DEF Bodiless
  <1>9. QED
    BY <1>6, <1>8

-----------------------------------------------------------------------------
(* Where definitions begin and end.                                        *)

(* A settled branch stays settled.                                         *)
LEMMA SettledLater ==
  ASSUME NEW S, NEW s \in Seq(S), NEW t \in Seq(S), NEW i \in DOMAIN s, Settled(s, i)
  PROVE  Settled(s \o t, i)
  <1> DEFINE st == s \o t
  <1>1. \A k \in DOMAIN s : k \in DOMAIN st /\ st[k] = s[k]
    BY Joined
  <1>2. \A k \in DOMAIN s : At(st, k) = At(s, k)
    BY AtKept
  <1> HIDE DEF st
  <1>3. CASE s[i].n = 0 /\ At(s, i) = 0
    BY <1>1, <1>2, <1>3 DEF Settled, st
  <1>4. CASE \E j \in DOMAIN s : /\ is_label_opcode(s[j]) /\ s[j].n = s[i].n
                                 /\ At(s, i) = At(s, j)
    <2>1. PICK j \in DOMAIN s : /\ is_label_opcode(s[j]) /\ s[j].n = s[i].n
                                /\ At(s, i) = At(s, j)
      BY <1>4
    <2>2. /\ j \in DOMAIN st /\ st[j] = s[j] /\ At(st, j) = At(s, j)
          /\ st[i] = s[i] /\ At(st, i) = At(s, i)
      BY <1>1, <1>2
    <2>3. Settled(st, i)
      BY <2>1, <2>2 DEF Settled
    <2>4. QED
      BY <2>3 DEF st
  <1>5. QED
    BY <1>3, <1>4 DEF Settled

(* Code without branches keeps branches leading somewhere if those that    *)
(* wait need not wait any more.                                            *)
LEMMA LeadSettled ==
  ASSUME NEW S, NEW s \in Seq(S), NEW t \in Seq(S), NEW old, NEW new, Lead(s, old),
         \A k \in DOMAIN t : ~is_branching_opcode(t[k]),
         \A i \in DOMAIN s : Waits(s, old, i) => Settled(s \o t, i)
  PROVE  Lead(s \o t, new)
  <1> DEFINE st == s \o t
  <1>1. /\ \A k \in DOMAIN s : k \in DOMAIN st /\ st[k] = s[k]
        /\ \A k \in DOMAIN t : st[Len(s) + k] = t[k]
        /\ \A k \in DOMAIN st :
             k \in DOMAIN s \/ (k - Len(s) \in DOMAIN t /\ k = Len(s) + (k - Len(s)))
    BY Joined
  <1>2. \A i \in DOMAIN s : is_branching_opcode(s[i]) => Settled(st, i)
    BY SettledLater DEF Lead
  <1> HIDE DEF st
  <1>3. \A k \in DOMAIN st : is_branching_opcode(st[k]) => k \in DOMAIN s
    BY <1>1
  <1>4. QED
    BY <1>1, <1>2, <1>3 DEF Lead, st

(* With an empty label stack nothing waits.                                *)
LEMMA LeadOn ==
  ASSUME TypeOK, Guided, label_stack_ = <<>>, NEW code \in Seq(OpcodeSet(Symbols)), Emit(code),
         \A k \in DOMAIN code : ~is_branching_opcode(code[k])
  PROVE  Lead(optable_, label_stack_)'
  <1>1. optable_ \in Seq(OpcodeSet(Symbols)) /\ optable_' = optable_ \o code
    BY DEF TypeOK, CodeOK, Emit
  <1>2. \A i \in DOMAIN optable_ : ~Waits(optable_, label_stack_, i)
    BY DEF Waits
  <1>3. Lead(optable_ \o code, label_stack_')
    BY <1>1, <1>2, LeadSettled DEF Guided
  <1>4. QED
    BY <1>1, <1>3


(* The first body of a definition, with a label for its exit.              *)
LEMMA BodyOpened ==
  ASSUME ParserAssumption, TypeOK, TypeOK', Guided, Bound, cond_state, nest = <<>>,
         NEW kind \in {"definition", "noname"}, nest' = Append(nest, Frame(kind)),
         NEW s \in Symbols, NEW sort, OpenBody, StartDefinition(s, sort)
  PROVE  Guided' /\ Bound'
  <1>1. label_stack_ = <<>> /\ break_stack_ = <<>> /\ Len(label_stack_) = 0 /\ Len(break_stack_) = 0
    BY EmptySeq DEF Bound
  <1>2. /\ Frame(kind).kind = kind /\ Frame(kind).active
        /\ Frame(kind).labels = 0 /\ Frame(kind).breaks = 0 /\ Start(Frame(kind)) = 0
    BY <1>1, SharesOpened DEF Frame
  <1>3. nest' = <<Frame(kind)>>
    BY EmptySeq DEF TypeOK
  <1>4. Len(nest') = 1 /\ nest'[1] = Frame(kind) /\ DOMAIN nest' = {1} /\ nest' # <<>>
    BY <1>3
  <1>5. Shifts(0, 1, 1)
    BY <1>1, OneLabel DEF OpenBody
  <1>6. label_stack_'[1] = label_sequence_
    <2>1. \A k \in 1..1 : label_stack_'[0 + k] = label_sequence_ + k - 1
      BY <1>5 DEF Shifts
    <2>2. label_stack_'[0 + 1] = label_sequence_ + 1 - 1
      BY <2>1
    <2>3. label_sequence_ \in Nat
      BY DEF TypeOK, FlowOK
    <2>4. QED
      BY <2>2, <2>3
  <1>7. break_stack_' = <<>> /\ exit_label_' = label_sequence_
    BY <1>1 DEF OpenBody
  <1>8. /\ DefineOpcode(s) \in OpcodeSet(Symbols)
        /\ DefineOpcode(s).op \notin BranchingOps /\ DefineOpcode(s).op # "label"
    BY BoundOpcodes
  <1>9. Lead(optable_, label_stack_)'
    <2> DEFINE o == DefineOpcode(s)
               code == <<o>>
    <2> HIDE DEF o
    <2>1. o \in OpcodeSet(Symbols) /\ o.op \notin BranchingOps
      BY <1>8 DEF o
    <2>2. code \in Seq(OpcodeSet(Symbols)) /\ \A k \in DOMAIN code : ~is_branching_opcode(code[k])
      BY <2>1 DEF is_branching_opcode
    <2>3. Emit(code)
      BY DEF StartDefinition, o
    <2> HIDE DEF code
    <2>4. QED
      BY <1>1, <2>2, <2>3, LeadOn
  <1>10. current_definition_' = s /\ current_definition_' # NoSymbol
    BY DEF StartDefinition, ParserAssumption
  <1>11. Guided'
    <2>1. Started'
      BY <1>2, <1>4 DEF Started
    <2>2. BreaksKnown'
      BY <1>7 DEF BreaksKnown
    <2>3. QED
      BY <1>9, <1>10, <2>1, <2>2 DEF Guided
  <1>12. Outermost(Bodies)' /\ Outermost({"definition", "noname"})'
    BY <1>2, <1>4 DEF Outermost, Bodies
  <1>13. Bound'
    <2>1. nest'[1].kind \notin {"code", "coded"}
      BY <1>2, <1>4
    <2>2. \A i \in DOMAIN nest' : ~(i > 1)
      BY <1>4
    <2>3. QED
      BY <1>2, <1>4, <1>6, <1>7, <1>10, <1>12, <2>1, <2>2 DEF Bound
  <1>14. QED
    BY <1>11, <1>13

(* A CODE word is opened without a label.                                  *)
LEMMA CodeOpened ==
  ASSUME ParserAssumption, TypeOK, TypeOK', Guided, Bound, cond_state, nest = <<>>,
         nest' = Append(nest, Frame("code")),
         NEW s \in Symbols, NEW sort, StartDefinition(s, sort), UNCHANGED flow
  PROVE  Guided' /\ Bound'
  <1>1. label_stack_ = <<>> /\ break_stack_ = <<>> /\ Len(label_stack_) = 0 /\ Len(break_stack_) = 0
    BY EmptySeq DEF Bound
  <1>2. /\ Frame("code").kind = "code" /\ Frame("code").active
        /\ Frame("code").labels = 0 /\ Frame("code").breaks = 0 /\ Start(Frame("code")) = 0
    BY <1>1, SharesOpened DEF Frame
  <1>3. nest' = <<Frame("code")>>
    BY EmptySeq DEF TypeOK
  <1>4. Len(nest') = 1 /\ nest'[1] = Frame("code") /\ DOMAIN nest' = {1} /\ nest' # <<>>
    BY <1>3
  <1>5. /\ label_stack_' = <<>> /\ break_stack_' = <<>> /\ exit_label_' = exit_label_
    BY <1>1 DEF flow
  <1>6. exit_label_ = 0
    BY DEF Bound, Outermost
  <1>7. /\ DefineOpcode(s) \in OpcodeSet(Symbols)
        /\ DefineOpcode(s).op \notin BranchingOps /\ DefineOpcode(s).op # "label"
    BY BoundOpcodes
  <1>8. Lead(optable_, label_stack_)'
    <2> DEFINE o == DefineOpcode(s)
               code == <<o>>
    <2> HIDE DEF o
    <2>1. o \in OpcodeSet(Symbols) /\ o.op \notin BranchingOps
      BY <1>7 DEF o
    <2>2. code \in Seq(OpcodeSet(Symbols)) /\ \A k \in DOMAIN code : ~is_branching_opcode(code[k])
      BY <2>1 DEF is_branching_opcode
    <2>3. Emit(code)
      BY DEF StartDefinition, o
    <2> HIDE DEF code
    <2>4. QED
      BY <1>1, <2>2, <2>3, LeadOn
  <1>9. current_definition_' = s /\ current_definition_' # NoSymbol
    BY DEF StartDefinition, ParserAssumption
  <1>10. Guided'
    <2>1. Started'
      BY <1>2, <1>4 DEF Started
    <2>2. BreaksKnown'
      BY <1>5 DEF BreaksKnown
    <2>3. QED
      BY <1>8, <1>9, <2>1, <2>2 DEF Guided
  <1>11. Outermost(Bodies)' /\ ~Outermost({"definition", "noname"})'
    BY <1>2, <1>4 DEF Outermost, Bodies
  <1>12. Bound'
    <2>1. \A i \in DOMAIN nest' : ~(i > 1)
      BY <1>4
    <2>2. QED
      BY <1>2, <1>4, <1>5, <1>6, <1>9, <1>11, <2>1 DEF Bound
  <1>13. QED
    BY <1>10, <1>12

(* The frame that a definition's end closes is the outermost one.          *)
LEMMA BodyAlone ==
  ASSUME TypeOK, Labelling, Bound, nest # <<>>, Top.kind \in Bodies, nest' = Front(nest)
  PROVE  /\ Len(nest) = 1 /\ Top = nest[1] /\ nest[1] \in FrameSet /\ nest' = <<>>
         /\ Len(label_stack_) = Labels(nest[1]) /\ Len(break_stack_) = Breaks(nest[1])
  <1>1. /\ nest \in Seq(FrameSet) /\ DOMAIN nest = 1..Len(nest) /\ Len(nest) \in Nat
        /\ Len(nest) # 0 /\ Top = nest[Len(nest)]
    BY LenProperties, EmptySeq DEF TypeOK, Top, Last
  <1>2. Len(nest) = 1
    <2>1. Len(nest) \in DOMAIN nest
      BY <1>1
    <2>2. ~(Len(nest) > 1)
      BY <1>1, <2>1 DEF Bound
    <2>3. QED
      BY <1>1, <2>2
  <1>3. 1 \in DOMAIN nest /\ nest[1] \in FrameSet
    BY <1>1, <1>2, ElementOfSeq
  <1>4. nest' = <<>>
    <2>1. nest' \in Seq(FrameSet) /\ Len(nest') = Len(nest) - 1
      BY <1>1, FrontTyped
    <2>2. Len(nest') = 0
      BY <1>2, <2>1
    <2>3. QED
      BY <2>1, <2>2, EmptySeq
  <1>5. nest[1].labels = 0 /\ nest[1].breaks = 0
    BY DEF Bound
  <1>6. LabelsEnd(nest[1]) = Len(label_stack_) /\ BreaksEnd(nest[1]) = Len(break_stack_)
    BY <1>2 DEF Labelling, Chained
  <1>7. /\ LabelsEnd(nest[1]) = nest[1].labels + Labels(nest[1])
        /\ BreaksEnd(nest[1]) = nest[1].breaks + Breaks(nest[1])
        /\ Labels(nest[1]) \in Nat /\ Breaks(nest[1]) \in Nat
    BY <1>3, ShareTyped
  <1>8. QED
    BY <1>1, <1>2, <1>3, <1>4, <1>5, <1>6, <1>7

(* When nothing is open any more, what remains is that no branch waits.    *)
LEMMA NothingOpen ==
  ASSUME Lead(optable_, label_stack_)', nest' = <<>>, label_stack_' = <<>>, break_stack_' = <<>>,
         current_definition_' = NoSymbol, exit_label_' = 0, Unended(optable_') = {}
  PROVE  Guided' /\ Bound'
  <1>1. DOMAIN nest' = {} /\ DOMAIN break_stack_' = {}
    OBVIOUS
  <1>2. Guided'
    BY <1>1 DEF Guided, Started, BreaksKnown
  <1>3. Bound'
    BY <1>1 DEF Bound, Outermost
  <1>4. QED
    BY <1>2, <1>3


(* A line of assembly goes into the word that is open.                     *)
LEMMA AssemblyGuided ==
  ASSUME ParserAssumption, TypeOK, TypeOK', Labelling, Guided, Bound,
         nest # <<>>, Top.kind \in {"code", "coded"}, nest' = Continue("coded"),
         NEW comment \in BOOLEAN, f_code(comment)
  PROVE  Guided' /\ Bound'
  <1> DEFINE n == Len(label_stack_)
             m == Len(nest)
             code == IF comment THEN <<>> ELSE <<AssemblyOpcode>>
  <1>1. UNCHANGED <<flow, current_definition_>> /\ Emit(code)
    BY DEF f_code, Handler, Asserting
  <1>2. Carries(code, {}, {})
    <2>1. Mere(AssemblyOpcode)
      BY MereOpcodes
    <2>2. Carries(<<>>, {}, {}) /\ Carries(<<AssemblyOpcode>>, {}, {})
      BY <2>1, MereTuples
    <2>3. QED
      BY <2>2
  <1> HIDE DEF code
  <1>3. Len(nest') = Len(nest) /\ \A i \in 1..Len(nest) : Alike(nest[i], nest'[i])
    <2>1. "coded" \in Kinds
      BY DEF Kinds
    <2>2. QED
      BY <2>1, AlikeContinued
  <1>4. Replaces(m, n, 0, 0, 0, 0)
    BY <1>3, SameReplaces
  <1>5. Shifts(n, 0, 0) /\ BreaksMove(0)
    BY <1>1, OneLabel DEF flow, BreaksMove
  <1>6. NewlyPlaced(n, 0, 0, 0, 0) = {}
    <2>1. n \in Nat
      BY LenProperties DEF TypeOK, FlowOK
    <2>2. Above(n, 0) = {}
      <3>1. (n + 1)..n = {}
        BY <2>1
      <3>2. QED
        BY <3>1 DEF Above
    <2>3. Taken(0) = {}
      BY LabelsAbove
    <2>4. QED
      BY <2>2, <2>3 DEF NewlyPlaced
  <1>7. Len(nest) # m + 1 /\ Len(nest') # m + 1
    <2>1. m \in Nat
      BY LenProperties DEF TypeOK
    <2>2. QED
      BY <1>3, <2>1
  <1>8. Proceeds(m, n, 0, 0, 0, 0, 0, code, {})
    <2>1. Carries(code, NewlyPlaced(n, 0, 0, 0, 0), {})
      BY <1>2, <1>6
    <2>2. UNCHANGED <<exit_label_, current_definition_>> /\ {} \subseteq Reachable(0)
      BY <1>1 DEF flow
    <2> HIDE DEF m, n
    <2>3. QED
      BY <1>1, <1>4, <1>5, <1>7, <2>1, <2>2 DEF Proceeds
  <1> HIDE DEF m, n
  <1>9. Guided'
    BY <1>8, GuidedNext
  <1>10. Labelled(n, 0, 0, 0, 0, 0) /\ UNCHANGED <<exit_label_, current_definition_>>
    BY <1>8, PassesLabelled DEF Proceeds
  <1>11. Bound'
    BY <1>4, <1>7, <1>10, BoundNext
  <1>12. QED
    BY <1>9, <1>11

(* ; places the one label that is left and ends the definition.            *)
LEMMA SemicolonGuided ==
  ASSUME ParserAssumption, TypeOK, TypeOK', Labelling, Guided, Bound, cond_state,
         status' # "asserted", nest # <<>>, Top.kind \in {"definition", "noname"}, Top.active,
         nest' = Front(nest), f_semicolon
  PROVE  Guided' /\ Bound'
  <1>1. /\ Len(nest) = 1 /\ Top = nest[1] /\ nest[1] \in FrameSet /\ nest' = <<>>
        /\ Len(label_stack_) = Labels(nest[1]) /\ Len(break_stack_) = Breaks(nest[1])
    <2>1. Top.kind \in Bodies
      BY DEF Bodies
    <2>2. QED
      BY <2>1, BodyAlone
  <1>2. Len(label_stack_) = 1 /\ Len(break_stack_) = 0
    BY <1>1 DEF Labels, Breaks
  <1>3. Outermost(Bodies)
    BY <1>1 DEF Outermost, Bodies
  <1>4. current_definition_ \in Symbols /\ current_definition_ # NoSymbol
    BY <1>3 DEF Bound, ParserAssumption
  <1>5. /\ LabelUnder(0) \in Nat /\ PopLabels(1) /\ HaveLabels(1)
        /\ UNCHANGED <<label_sequence_, break_stack_>>
        /\ exit_label_' = 0 /\ current_definition_' = NoSymbol
        /\ \E code : EndsBody(code, LabelUnder(0), current_definition_) /\ Emit(code)
    BY <1>4, SemicolonCode
  <1>6. PICK code : EndsBody(code, LabelUnder(0), current_definition_) /\ Emit(code)
    BY <1>5
  <1>7. LabelUnder(0) = label_stack_[1]
    BY <1>2 DEF LabelUnder
  <1>8. /\ code \in Seq(OpcodeSet(Symbols)) /\ DOMAIN code = 1..Len(code) /\ Len(code) \in {2, 4}
        /\ 1 \in DOMAIN code /\ 2 \in DOMAIN code
        /\ is_label_opcode(code[1]) /\ code[1].n = LabelUnder(0)
        /\ is_enddefine_opcode(code[2])
        /\ \A k \in DOMAIN code : ~is_define_opcode(code[k]) /\ ~is_branching_opcode(code[k])
    <2>1. /\ code \in Seq(OpcodeSet(Symbols)) /\ Len(code) \in {2, 4}
          /\ code[1] = LabelOpcode(LabelUnder(0)) /\ code[2] = EndDefineOpcode(current_definition_)
          /\ \A k \in 3..Len(code) : Mere(code[k])
      BY <1>6 DEF EndsBody
    <2>2. DOMAIN code = 1..Len(code)
      BY <2>1, LenProperties
    <2>3. /\ code[1].op = "label" /\ code[1].n = LabelUnder(0)
      BY <2>1 DEF LabelOpcode, Targeted, Opcode
    <2>4. code[2].op = "enddefine"
      BY <2>1, <1>4, BoundOpcodes
    <2>5. \A k \in DOMAIN code : k = 1 \/ k = 2 \/ k \in 3..Len(code)
      BY <2>1, <2>2
    <2>6. \A k \in DOMAIN code : ~is_define_opcode(code[k]) /\ ~is_branching_opcode(code[k])
      BY <2>1, <2>3, <2>4, <2>5 DEF Mere, is_define_opcode, is_branching_opcode, BranchingOps
    <2>7. 1 \in DOMAIN code /\ 2 \in DOMAIN code
      BY <2>1, <2>2
    <2>8. QED
      BY <2>1, <2>2, <2>3, <2>4, <2>6, <2>7 DEF is_label_opcode, is_enddefine_opcode
  <1>9. optable_ \in Seq(OpcodeSet(Symbols)) /\ optable_' = optable_ \o code
    BY <1>6 DEF TypeOK, CodeOK, Emit
  <1>10. Unended(optable_') = {}
    BY <1>8, <1>9, HereEnded
  <1>11. ASSUME NEW i \in DOMAIN optable_, Waits(optable_, label_stack_, i)
         PROVE  Settled(optable_ \o code, i)
    <2> DEFINE st == optable_ \o code
               j  == Len(optable_) + 1
    <2>1. /\ At(optable_, i) = Here(optable_)
          /\ \E p \in DOMAIN label_stack_ : label_stack_[p] = optable_[i].n
      BY <1>11 DEF Waits
    <2>2. label_stack_[1] = optable_[i].n
      <3>1. DOMAIN label_stack_ = 1..1
        BY <1>2, LenProperties DEF TypeOK, FlowOK
      <3>2. QED
        BY <2>1, <3>1
    <2>3. At(st, i) = At(optable_, i) /\ st[i] = optable_[i]
      BY <1>8, <1>9, AtKept, Joined
    <2>4. j \in DOMAIN st /\ st[j] = code[1]
      BY <1>8, <1>9, Joined
    <2>5. At(st, j) = Here(optable_)
      <3>1. \A k \in 1..1 : ~is_define_opcode(code[k])
        BY <1>8
      <3>2. \A k \in 1..(1 - 1) : ~is_enddefine_opcode(code[k])
        OBVIOUS
      <3>3. QED
        BY <1>8, <1>9, <3>1, <3>2, AtAppended
    <2> HIDE DEF st, j
    <2>6. Settled(st, i)
      BY <1>7, <1>8, <2>1, <2>2, <2>3, <2>4, <2>5 DEF Settled
    <2>7. QED
      BY <2>6 DEF st
  <1>12. Lead(optable_, label_stack_)'
    <2>1. Lead(optable_ \o code, label_stack_')
      BY <1>8, <1>9, <1>11, LeadSettled DEF Guided
    <2>2. QED
      BY <1>9, <2>1
  <1>13. label_stack_' = <<>> /\ break_stack_' = <<>>
    <2>1. /\ label_stack_' \in Seq(Nat) /\ break_stack_ \in Seq(Nat)
      BY DEF TypeOK, FlowOK
    <2>2. Len(label_stack_') = 0
      <3>1. Shifts(Len(label_stack_) - 1, 0, 0)
        BY <1>5, OneLabel
      <3>2. Len(label_stack_') = (Len(label_stack_) - 1) + 0
        BY <3>1 DEF Shifts
      <3>3. QED
        BY <1>2, <3>2
    <2>3. QED
      BY <1>2, <1>5, <2>1, <2>2, EmptySeq
  <1>14. QED
    BY <1>1, <1>5, <1>10, <1>12, <1>13, NothingOpen

(* END-CODE ends an assembly word, which had no labels.                    *)
LEMMA EndCodeGuided ==
  ASSUME ParserAssumption, TypeOK, TypeOK', Labelling, Guided, Bound,
         nest # <<>>, Top.kind = "coded", Top.active, nest' = Front(nest), f_end_code
  PROVE  Guided' /\ Bound'
  <1>1. /\ Len(nest) = 1 /\ Top = nest[1] /\ nest[1] \in FrameSet /\ nest' = <<>>
        /\ Len(label_stack_) = Labels(nest[1]) /\ Len(break_stack_) = Breaks(nest[1])
    <2>1. Top.kind \in Bodies
      BY DEF Bodies
    <2>2. QED
      BY <2>1, BodyAlone
  <1>2. Len(label_stack_) = 0 /\ Len(break_stack_) = 0
    BY <1>1 DEF Labels, Breaks
  <1>3. label_stack_ = <<>> /\ break_stack_ = <<>>
    BY <1>2, EmptySeq DEF TypeOK, FlowOK
  <1>4. Outermost(Bodies) /\ ~Outermost({"definition", "noname"})
    BY <1>1 DEF Outermost, Bodies
  <1>5. current_definition_ \in Symbols /\ current_definition_ # NoSymbol /\ exit_label_ = 0
    BY <1>4 DEF Bound, ParserAssumption
  <1>6. /\ UNCHANGED flow /\ current_definition_' = NoSymbol
        /\ Emit(<<EndDefineOpcode(current_definition_)>>)
    BY <1>5 DEF f_end_code, Handler, Asserting
  <1> DEFINE o == EndDefineOpcode(current_definition_)
             code == <<o>>
  <1>7. o \in OpcodeSet(Symbols) /\ o.op = "enddefine" /\ o.op \notin BranchingOps
    BY <1>5, BoundOpcodes
  <1> HIDE DEF o
  <1>8. /\ code \in Seq(OpcodeSet(Symbols)) /\ 1 \in DOMAIN code /\ is_enddefine_opcode(code[1])
        /\ \A k \in DOMAIN code : ~is_define_opcode(code[k]) /\ ~is_branching_opcode(code[k])
    BY <1>7 DEF is_enddefine_opcode, is_define_opcode, is_branching_opcode
  <1>9. Emit(code)
    BY <1>6 DEF o
  <1> HIDE DEF code
  <1>10. Lead(optable_, label_stack_)'
    BY <1>3, <1>8, <1>9, LeadOn
  <1>11. Unended(optable_') = {}
    <2>1. optable_ \in Seq(OpcodeSet(Symbols)) /\ optable_' = optable_ \o code
      BY <1>9 DEF TypeOK, CodeOK, Emit
    <2>2. QED
      BY <1>8, <2>1, HereEnded
  <1>12. label_stack_' = <<>> /\ break_stack_' = <<>> /\ exit_label_' = 0
    BY <1>3, <1>5, <1>6 DEF flow
  <1>13. QED
    BY <1>1, <1>6, <1>10, <1>11, <1>12, NothingOpen

(* What begins a definition, continues it or ends it, without an error.    *)
LEMMA DefiningBranches ==
  ASSUME ParserAssumption, TypeOK, TypeOK', Labelling, Guided, Bound, InStep', status' # "asserted",
         ~GiveUp, Defining, error_count_ = 0, error_count_' = 0
  PROVE  Guided' /\ Bound'
  <1>0. cond_state /\ cond_state \in BOOLEAN
    BY DEF Defining, cond_state
  <1>1. error_count_ + 1 # 0 /\ ~parse_error
    BY DEF parse_error
  <1>2. ASSUME NEW s \in Names, nest = <<>>, nest' = Append(nest, Frame("definition")),
               f_definedword(s)
        PROVE  Guided' /\ Bound'
    <2>1. OpenBody /\ StartDefinition(s, "word") /\ s \in Symbols
      BY <1>1, <1>2 DEF f_definedword, Handler, Asserting, Symbols
    <2>2. QED
      BY <1>0, <1>2, <2>1, BodyOpened
  <1>3. ASSUME NEW s \in Anons, nest = <<>>, nest' = Append(nest, Frame("noname")),
               f_nonameword(s)
        PROVE  Guided' /\ Bound'
    <2>1. OpenBody /\ StartDefinition(s, "anonword") /\ s \in Symbols
      BY <1>3, NonameBegins DEF Symbols
    <2>2. QED
      BY <1>0, <1>3, <2>1, BodyOpened
  <1>4. ASSUME NEW s \in Names, nest = <<>>, nest' = Append(nest, Frame("code")), f_codeword(s)
        PROVE  Guided' /\ Bound'
    <2>1. UNCHANGED flow /\ StartDefinition(s, "codeword") /\ s \in Symbols
      BY <1>1, <1>4 DEF f_codeword, Handler, Asserting, Reject, Symbols
    <2>2. QED
      BY <1>0, <1>4, <2>1, CodeOpened
  <1>5. nest # <<>> /\ split' = (split \/ Top.active # cond_state) => Top.active
    <2>1. SUFFICES ASSUME nest # <<>>, split' = (split \/ Top.active # cond_state) PROVE Top.active
      OBVIOUS
    <2>2. Top \in FrameSet
      BY <2>1, FrontTyped DEF TypeOK, Top
    <2>3. QED
      BY <1>0, <2>1, <2>2 DEF InStep, FrameSet
  <1>6. QED
    BY <1>0, <1>2, <1>3, <1>4, <1>5, AssemblyGuided, SemicolonGuided, EndCodeGuided, DefiningActs


-----------------------------------------------------------------------------
(* What the state of the parse says about errors and open constructs.      *)
StatusOK ==
  /\ status \in {"recovering", "failed"} => error_count_ > 0
  /\ status \in {"accepted", "returned"} /\ error_count_ = 0 => nest = <<>>
  /\ status = "accepted" /\ error_count_ = 0 => cond_stack_ = <<>>

(* The name of some :NONAME word to come is another word's already.        *)
NameTaken == \E s \in Anons : symtable_[s] \notin {"none", "anonword"}

(* A reduction that calls a handler keeps the parse going, or an assert    *)
(* fails, that of the symbol table only where a generated name is taken.   *)
LEMMA ParsingGoesOn ==
  ASSUME Declaration \/ Definition \/ Straight \/ Structures \/ Conditional, ~GiveUp
  PROVE  /\ status = "parsing" /\ status' \in {"parsing", "asserted", "collided"}
         /\ status' = "collided" => NameTaken
  <1>1. CASE Declaration
    BY <1>1 DEF Declaration, Variable, Constant, FConstant, Create, Plainly, Reduce,
       f_definedvariable, f_definedconstant, f_definedfconstant, f_definedarray,
       DefinedConstant, Handler, Asserting
  <1>2. CASE Exit \/ PString \/ AString \/ CString \/ Integer \/ Float \/ StringLiteral \/ CharLiteral
    BY <1>2 DEF Exit, PString, AString, CString, Integer, Float, StringLiteral, CharLiteral,
       Statement, Plainly, Reduce, f_exit, f_pstring, f_astring, f_cstring, f_integer_literal,
       f_float_literal, f_string_literal, f_char_literal, Handler, Asserting
  <1>3. CASE ObjectAddress \/ Word \/ Recurse \/ Leave \/ QueryLeave \/ While
    BY <1>3 DEF ObjectAddress, Word, Recurse, Leave, QueryLeave, While,
       Statement, Plainly, Reduce, f_object_address, f_word, f_recurse, f_leave, f_query_leave,
       f_while, Break, Handler, Asserting
  <1>n. CASE NoName
    BY <1>n DEF NoName, Open, Reduce, f_nonameword, Defined, NameTaken
  <1>4. CASE Colon \/ Code \/ If \/ Do \/ QueryDo \/ Begin \/ Case
    BY <1>4 DEF Colon, Code, If, Do, QueryDo, Begin, Case, Structured, Open, Reduce,
       f_definedword, f_codeword, f_if, f_do, f_query_do, f_begin, f_case,
       Handler, Asserting
  <1>5. CASE Semicolon \/ EndCode \/ Then \/ Loop
    BY <1>5 DEF Semicolon, EndCode, Then, Loop, Close, Reduce, f_semicolon, f_end_code,
       f_then_endif, f_loop, Handler, Asserting
  <1>6. CASE PlusLoop \/ Until \/ Repeat \/ EndOf \/ EndCase
    BY <1>6 DEF PlusLoop, Until, Repeat, EndOf, EndCase, Close, Reduce, f_plus_loop, f_until,
       f_repeat_again, f_endof, f_endcase, Handler, Asserting
  <1>7. CASE Asm \/ Else \/ Of
    BY <1>7 DEF Asm, Else, Of, Reduce, f_code, f_else, f_of, Handler, Asserting
  <1>8. CASE Conditional
    BY <1>8 DEF Conditional, CondIfdef, CondElse, CondThen, Directive
  <1>9. QED
    BY <1>1, <1>2, <1>3, <1>4, <1>5, <1>6, <1>7, <1>8, <1>n DEF Definition, Straight, Structures

(* Every step keeps what StatusOK says.                                    *)
LEMMA StatusStep ==
  ASSUME TypeOK, StatusOK, [Next]_vars
  PROVE  StatusOK'
  <1>0. error_count_ \in Nat /\ error_count_ + 1 > 0 /\ error_count_ + 1 # 0
    BY DEF TypeOK, SymbolsOK
  <1>1. CASE GiveUp
    BY <1>0, <1>1 DEF GiveUp, parse_error, StatusOK
  <1>2. CASE ~GiveUp /\ (Declaration \/ Definition \/ Straight \/ Structures \/ Conditional)
    <2>1. status' \in {"parsing", "asserted", "collided"}
      BY <1>2, ParsingGoesOn
    <2>2. QED
      BY <2>1 DEF StatusOK
  <1>3. CASE SyntaxError
    BY <1>0, <1>3 DEF SyntaxError, parse_error, StatusOK
  <1>4. CASE Recover /\ ~GiveUp
    BY <1>4 DEF Recover, StatusOK
  <1>5. CASE EndInRecovery
    BY <1>5 DEF EndInRecovery, handled, symbols, StatusOK
  <1>6. CASE f_end_of_file /\ ~GiveUp
    <2>1. /\ status' = "accepted" /\ nest = <<>> /\ UNCHANGED <<nest, cond_stack_>>
          /\ error_count_' = error_count_ + (IF cond_stack_ # <<>> THEN 1 ELSE 0)
      BY <1>6 DEF f_end_of_file, AtTop
    <2>2. error_count_' = 0 => cond_stack_ = <<>>
      BY <1>0, <2>1
    <2>3. QED
      BY <2>1, <2>2 DEF StatusOK
  <1>7. CASE parse_cleanup
    <2>1. /\ status \in {"accepted", "failed"} /\ status' = "returned" /\ nest' = nest
          /\ error_count_' = error_count_ + (IF error_count_ = 0 THEN InternalErrors ELSE 0)
      BY <1>7 DEF parse_cleanup
    <2>2. error_count_' = 0 => error_count_ = 0
      BY <1>0, <2>1
    <2>3. error_count_' = 0 => status = "accepted"
      BY <1>0, <2>1, <2>2 DEF StatusOK
    <2>4. error_count_' = 0 => nest' = <<>>
      BY <2>1, <2>2, <2>3 DEF StatusOK
    <2>5. QED
      BY <2>1, <2>4 DEF StatusOK
  <1>8. CASE Stopped \/ UNCHANGED vars
    <2>1. UNCHANGED <<status, nest, cond_stack_, error_count_>>
      BY <1>8 DEF Stopped, vars, handled, symbols
    <2>2. QED
      BY <2>1 DEF StatusOK
  <1>9. QED
    BY <1>1, <1>2, <1>3, <1>4, <1>5, <1>6, <1>7, <1>8 DEF Next, Ending

(* The number of errors never decreases.                                   *)
LEMMA ErrorsGrow ==
  ASSUME ParserAssumption, IInv, IInv', Labelling, InStep', [Next]_vars
  PROVE  error_count_' >= error_count_
  <1>1. CASE Quiet
    BY <1>1 DEF Quiet
  <1>2. CASE Ordinary
    BY <1>2 DEF Ordinary, Named
  <1>3. CASE Defining /\ ~GiveUp
    <2>0. error_count_ \in Nat /\ error_count_ + 1 >= error_count_ /\ error_count_ >= error_count_
      BY DEF IInv, TypeOK, SymbolsOK
    <2>1. \A s \in Names : f_definedword(s) => error_count_' >= error_count_
      BY <2>0 DEF f_definedword, Handler, Asserting, parse_error
    <2>2. \A s \in Anons : f_nonameword(s) => error_count_' >= error_count_
      BY <2>0, NonameBegins
    <2>3. \A s \in Names : f_codeword(s) => error_count_' >= error_count_
      BY <2>0 DEF f_codeword, Handler, Asserting, Reject, parse_error
    <2>4. \A comment \in BOOLEAN : f_code(comment) => error_count_' >= error_count_
      BY <2>0 DEF f_code, Handler, Asserting, symbols
    <2>5. f_end_code => error_count_' >= error_count_
      BY <2>0 DEF f_end_code, Handler, Asserting, symbols
    <2>6. f_semicolon => error_count_' >= error_count_
      <3>1. MainErrors(symtable_, NoSymbol) \in {0, 1}
        BY DEF MainErrors
      <3>2. detect_main(symtable_, NoSymbol, 0) => error_count_' >= error_count_
        BY <2>0, <3>1 DEF detect_main
      <3>3. f_semicolon => UNCHANGED error_count_ \/ detect_main(symtable_, NoSymbol, 0)
        BY DEF f_semicolon, Asserting, symbols, handled
      <3>4. QED
        BY <2>0, <3>2, <3>3
    <2>7. QED
      BY <1>3, <2>1, <2>2, <2>3, <2>4, <2>5, <2>6, DefiningActs
  <1>4. QED
    BY <1>1, <1>2, <1>3, StepClasses

-----------------------------------------------------------------------------
BranchInv == Clean => Guided /\ Bound

(* The invariant that everything below follows from.                       *)
CleanInv == IInv /\ LabelInv /\ StatusOK /\ BranchInv

(* A new parser has compiled nothing.                                      *)
LEMMA InitClean ==
  ASSUME ParserAssumption, Init
  PROVE  CleanInv
  <1>1. IInv /\ LabelInv
    BY InitInv, InitLabels
  <1>2. StatusOK
    BY DEF Init, StatusOK
  <1>3. /\ DOMAIN optable_ = {} /\ DOMAIN nest = {} /\ DOMAIN break_stack_ = {}
        /\ Len(optable_) = 0
    BY EmptySeq DEF Init
  <1>4. Unended(optable_) = {}
    BY <1>3 DEF Unended
  <1>5. Guided
    BY <1>3, <1>4 DEF Guided, Lead, Started, BreaksKnown
  <1>6. Bound
    BY <1>3 DEF Bound, Outermost, Init
  <1>7. QED
    BY <1>1, <1>2, <1>5, <1>6 DEF CleanInv, BranchInv

(* Every step of the parser keeps the invariant.                           *)
LEMMA StepClean ==
  ASSUME ParserAssumption, CleanInv, [Next]_vars
  PROVE  CleanInv'
  <1>1. IInv' /\ LabelInv' /\ StatusOK' /\ TypeOK /\ TypeOK'
    BY StepInv, StepLabels, StatusStep DEF CleanInv, IInv
  <1>2. ASSUME Clean' PROVE Guided' /\ Bound'
    <2>1. InStep' /\ InStep /\ Labelling /\ error_count_' = 0
      BY <1>1, <1>2, StaysSplit DEF Clean, CleanInv, LabelInv
    <2>2. error_count_ = 0
      <3>1. error_count_' >= error_count_
        BY <1>1, <2>1, ErrorsGrow DEF CleanInv
      <3>2. error_count_ \in Nat
        BY <1>1 DEF TypeOK, SymbolsOK
      <3>3. QED
        BY <2>1, <3>1, <3>2
    <2>3. Guided /\ Bound
      BY <2>1, <2>2 DEF CleanInv, BranchInv, Clean
    <2>4. status' # "asserted"
      BY <1>1, <2>1 DEF IInv, AssertionsHold
    <2>5. CASE Quiet
      <3>1. nest' = nest
        BY <2>1, <2>2, <2>5 DEF Quiet
      <3>2. /\ UNCHANGED <<label_stack_, break_stack_, exit_label_, optable_, current_definition_>>
        BY <2>5 DEF Quiet, flow
      <3>3. Guided'
        BY <2>3, <3>1, <3>2 DEF Guided, Started, BreaksKnown
      <3>4. Bound'
        BY <2>3, <3>1, <3>2 DEF Bound, Outermost
      <3>5. QED
        BY <3>3, <3>4
    <2>6. CASE Ordinary
      BY <1>1, <2>1, <2>3, <2>6, OrdinaryBranches
    <2>7. CASE Defining /\ ~GiveUp
      BY <1>1, <2>1, <2>2, <2>3, <2>4, <2>7, DefiningBranches
    <2>8. IInv /\ IInv'
      BY <1>1 DEF CleanInv
    <2>9. QED
      BY <2>1, <2>5, <2>6, <2>7, <2>8, StepClasses
  <1>3. QED
    BY <1>1, <1>2 DEF CleanInv, BranchInv

(* In every reachable state the two label stacks, the current definition   *)
(* and the exit label belong to the constructs that are open, and branches *)
(* lead somewhere, as long as no error was found.                          *)
THEOREM BranchesGuided == Spec => []CleanInv
  <1>1. Init => CleanInv
    BY ParserAssumption, InitClean
  <1>2. CleanInv /\ [Next]_vars => CleanInv'
    BY ParserAssumption, StepClean
  <1>3. QED
    BY <1>1, <1>2, PTL DEF Spec

(* Each branch of code compiled without errors so far goes to a label that *)
(* is placed, or that an open construct or definition holds on the label   *)
(* stack to place it later, or to the end of implicit main.                *)
THEOREM JumpsNeverDangle == Spec => []JumpsResolve
  <1>1. CleanInv => JumpsResolve
    <2>1. SUFFICES ASSUME CleanInv, Clean, NEW l \in Referred(optable_)
                   PROVE  l \in Placed(optable_) \cup ToSet(label_stack_) \cup {0}
      BY DEF JumpsResolve
    <2>2. PICK i \in DOMAIN optable_ : is_branching_opcode(optable_[i]) /\ optable_[i].n = l
      BY <2>1 DEF Referred
    <2>3. Settled(optable_, i) \/ Waits(optable_, label_stack_, i)
      BY <2>1, <2>2 DEF CleanInv, BranchInv, Guided, Lead
    <2>4. CASE Settled(optable_, i)
      BY <2>2, <2>4 DEF Settled, Placed
    <2>5. CASE Waits(optable_, label_stack_, i)
      BY <2>2, <2>5 DEF Waits, ToSet
    <2>6. QED
      BY <2>3, <2>4, <2>5
  <1>2. QED
    BY <1>1, BranchesGuided, PTL

(* When a file has been compiled without errors, no branch leaves its      *)
(* definition: the code of one word never goes on in another word.         *)
THEOREM BranchesStay == Spec => []BranchesStayInDefinition
  <1>1. CleanInv => BranchesStayInDefinition
    <2>1. SUFFICES ASSUME CleanInv, Clean, status = "returned",
                          NEW i \in DOMAIN optable_, is_branching_opcode(optable_[i])
                   PROVE  \/ optable_[i].n = 0 /\ DefinitionAt(i) = 0
                          \/ \E j \in DOMAIN optable_ :
                               /\ is_label_opcode(optable_[j]) /\ optable_[j].n = optable_[i].n
                               /\ DefinitionAt(i) = DefinitionAt(j)
      BY DEF BranchesStayInDefinition
    <2>2. nest = <<>>
      BY <2>1 DEF CleanInv, StatusOK, Clean
    <2>3. label_stack_ = <<>>
      BY <2>1, <2>2 DEF CleanInv, BranchInv, Bound
    <2>4. ~Waits(optable_, label_stack_, i)
      BY <2>3 DEF Waits
    <2>5. Settled(optable_, i)
      BY <2>1, <2>4 DEF CleanInv, BranchInv, Guided, Lead
    <2>6. \A k : DefinitionAt(k) = At(optable_, k)
      BY DEF DefinitionAt, At, OpenAt
    <2>7. QED
      BY <2>5, <2>6 DEF Settled
  <1>2. QED
    BY <1>1, BranchesGuided, PTL

(* The internal errors that parse_cleanup would report, stacks that are    *)
(* not empty or a definition that was not left, never occur after a source *)
(* file was accepted without errors.                                       *)
THEOREM CleanupFindsNothing == Spec => []NoInternalErrors
  <1>1. CleanInv => NoInternalErrors
    <2>1. SUFFICES ASSUME CleanInv, Clean, status = "accepted" PROVE InternalErrors = 0
      BY DEF NoInternalErrors
    <2>2. nest = <<>> /\ cond_stack_ = <<>>
      BY <2>1 DEF CleanInv, StatusOK, Clean
    <2>3. /\ label_stack_ = <<>> /\ break_stack_ = <<>>
          /\ current_definition_ = NoSymbol /\ exit_label_ = 0
      BY <2>1, <2>2 DEF CleanInv, BranchInv, Bound, Outermost
    <2>4. QED
      BY <2>2, <2>3 DEF InternalErrors
  <1>2. QED
    BY <1>1, BranchesGuided, PTL

-----------------------------------------------------------------------------
(* The first of some natural numbers. *)
LEMMA LeastNat ==
  ASSUME NEW T \in SUBSET Nat, T # {}
  PROVE  \E x \in T : \A y \in T : x <= y
  <1> DEFINE R == OpToRel(<, Nat)
  <1>1. IsWellFoundedOn(R, Nat)
    BY NatLessThanWellFounded
  <1>2. \A x, y \in Nat : y < x => <<y, x>> \in R
    BY DEF OpToRel
  <1> HIDE DEF R
  <1>3. PICK x \in T : \A y \in T : ~(<<y, x>> \in R)
    BY <1>1, WFMin
  <1>4. ASSUME NEW y \in T PROVE x <= y
    <2>1. x \in Nat /\ y \in Nat
      BY <1>3
    <2>2. ~(y < x)
      BY <2>1, <1>2, <1>3
    <2>3. QED
      BY <2>1, <2>2
  <1>5. QED
    BY <1>3, <1>4

(* Min and Max of positions of the code are positions of it. *)
LEMMA Extremes ==
  ASSUME NEW n \in Nat, NEW T \in SUBSET (1..n), T # {}
  PROVE  /\ Min(T) \in T /\ \A y \in T : Min(T) <= y
         /\ Max(T) \in T /\ \A y \in T : Max(T) >= y
  <1>1. \E x \in T : \A y \in T : x =< y
    <2>1. T \in SUBSET Nat
      OBVIOUS
    <2>2. QED
      BY <2>1, LeastNat
  <1>2. \E x \in T : \A y \in T : x >= y
    <2> DEFINE U == {n - y : y \in T}
    <2>0. \A y \in 1..n : n - y \in Nat
      OBVIOUS
    <2>1. U \in SUBSET Nat /\ U # {}
      BY <2>0
    <2>2. PICK u \in U : \A y \in U : u <= y
      <3> HIDE DEF U
      <3>1. QED
        BY <2>1, LeastNat
    <2>3. PICK x \in T : u = n - x
      OBVIOUS
    <2>4. \A y \in T : n - x <= n - y
      BY <2>2, <2>3
    <2>5. \A y \in T : y \in Int
      OBVIOUS
    <2>6. QED
      BY <2>3, <2>4, <2>5
  <1>3. QED
    BY <1>1, <1>2 DEF Min, Max

-----------------------------------------------------------------------------
(* Position j ends what a definition opcode at d begins. *)
Ends(code, d, j) ==
  /\ d \in DOMAIN code /\ is_define_opcode(code[d])
  /\ j \in DOMAIN code /\ j > d /\ is_enddefine_opcode(code[j])
  /\ \A e \in (d + 1)..(j - 1) : ~is_enddefine_opcode(code[e])

(* Definitions that have ended did so with their own symbol, and contain   *)
(* no other; the one that has not is the current one.                      *)
Paired(code) ==
  \A d, j \in Int : Ends(code, d, j) =>
    code[j].s = code[d].s /\ \A k \in (d + 1)..j : ~is_define_opcode(code[k])
Continued(code, cur) ==
  /\ \A d \in Unended(code) :
       code[d].s = cur /\ \A k \in (d + 1)..Len(code) : ~is_define_opcode(code[k])
  /\ cur # NoSymbol => Unended(code) # {}
Delimited(code, cur) == Paired(code) /\ Continued(code, cur)

(* A definition of longer code that ends within the older code did so      *)
(* there; one that ends later was not ended there.                         *)
LEMMA EndsLater ==
  ASSUME NEW S, NEW s \in Seq(S), NEW t \in Seq(S), NEW d \in Int, NEW j \in Int,
         Ends(s \o t, d, j)
  PROVE  \/ Ends(s, d, j)
         \/ /\ d \in Unended(s) /\ j - Len(s) \in DOMAIN t /\ is_enddefine_opcode(t[j - Len(s)])
            /\ \A k \in 1..(j - Len(s) - 1) : ~is_enddefine_opcode(t[k])
         \/ d - Len(s) \in DOMAIN t /\ is_define_opcode(t[d - Len(s)])
            /\ j - Len(s) \in DOMAIN t /\ is_enddefine_opcode(t[j - Len(s)])
  <1> DEFINE st == s \o t
             n  == Len(s)
  <1>1. /\ \A k \in DOMAIN s : st[k] = s[k]
        /\ \A k \in DOMAIN t : st[n + k] = t[k]
        /\ DOMAIN s = 1..n /\ n \in Nat /\ DOMAIN t = 1..Len(t) /\ Len(t) \in Nat
        /\ DOMAIN st = 1..(n + Len(t))
    BY Joined, LenProperties
  <1>2. Ends(st, d, j)
    OBVIOUS
  <1> HIDE DEF st, n
  <1>3. /\ d \in 1..(n + Len(t)) /\ j \in 1..(n + Len(t)) /\ j > d
        /\ is_define_opcode(st[d]) /\ is_enddefine_opcode(st[j])
        /\ \A e \in (d + 1)..(j - 1) : ~is_enddefine_opcode(st[e])
    BY <1>1, <1>2 DEF Ends
  <1>4. CASE j <= n
    <2>1. d \in 1..n /\ j \in 1..n
      BY <1>1, <1>3, <1>4
    <2>2. \A e \in (d + 1)..(j - 1) : e \in 1..n
      BY <1>1, <2>1
    <2>3. Ends(s, d, j)
      BY <1>1, <1>3, <2>1, <2>2 DEF Ends
    <2>4. QED
      BY <2>3
  <1>5. CASE j > n /\ d <= n
    <2>1. d \in 1..n /\ j - n \in 1..Len(t) /\ n + (j - n) = j
      BY <1>1, <1>3, <1>5
    <2>2. is_define_opcode(s[d]) /\ is_enddefine_opcode(t[j - n])
      BY <1>1, <1>3, <2>1
    <2>3. \A e \in d..n : e \in 1..n /\ (e = d \/ e \in (d + 1)..(j - 1))
      BY <1>1, <1>3, <1>5
    <2>4. \A e \in d..n : ~is_enddefine_opcode(s[e])
      BY <1>1, <1>3, <2>2, <2>3 DEF is_define_opcode, is_enddefine_opcode
    <2>5. d \in Unended(s)
      BY <2>1, <2>2, <2>4 DEF Unended, n
    <2>6. \A k \in 1..(j - n - 1) : k \in 1..Len(t) /\ n + k \in (d + 1)..(j - 1)
      BY <1>1, <1>3, <1>5, <2>1
    <2>7. \A k \in 1..(j - n - 1) : ~is_enddefine_opcode(t[k])
      BY <1>1, <1>3, <2>6
    <2>8. QED
      BY <1>1, <2>1, <2>2, <2>5, <2>7 DEF n
  <1>6. CASE d > n
    <2>1. /\ d - n \in 1..Len(t) /\ n + (d - n) = d
          /\ j - n \in 1..Len(t) /\ n + (j - n) = j
      BY <1>1, <1>3, <1>6
    <2>2. QED
      BY <1>1, <1>3, <2>1 DEF n
  <1>7. QED
    BY <1>1, <1>3, <1>4, <1>5, <1>6

(* Code that begins and ends no definition disturbs none. *)
LEMMA DelimitedInner ==
  ASSUME NEW S, NEW s \in Seq(S), NEW t \in Seq(S), Inner(t), NEW cur, Delimited(s, cur)
  PROVE  Delimited(s \o t, cur)
  <1> DEFINE st == s \o t
             n  == Len(s)
  <1>1. /\ \A k \in DOMAIN s : st[k] = s[k]
        /\ \A k \in DOMAIN t : st[n + k] = t[k]
        /\ DOMAIN s = 1..n /\ n \in Nat /\ DOMAIN t = 1..Len(t) /\ Len(t) \in Nat
        /\ Len(st) = n + Len(t)
    BY Joined, LenProperties
  <1>2. Unended(st) = Unended(s)
    BY HereInner
  <1>3. \A d, j \in Int : Ends(st, d, j) => Ends(s, d, j)
    BY EndsLater DEF Inner
  <1> HIDE DEF st, n
  <1>4. ASSUME NEW d \in Int, NEW j \in Int, Ends(s, d, j)
        PROVE  /\ st[d] = s[d] /\ st[j] = s[j]
               /\ \A k \in (d + 1)..j : st[k] = s[k]
    <2>1. d \in 1..n /\ j \in 1..n
      BY <1>1, <1>4 DEF Ends
    <2>2. \A k \in (d + 1)..j : k \in 1..n
      BY <1>1, <2>1
    <2>3. QED
      BY <1>1, <2>1, <2>2
  <1>5. Paired(st)
    BY <1>3, <1>4 DEF Paired, Delimited
  <1>6. ASSUME NEW d \in Unended(s)
        PROVE  /\ st[d].s = cur
               /\ \A k \in (d + 1)..(n + Len(t)) : ~is_define_opcode(st[k])
    <2>1. d \in 1..n
      BY DEF Unended, n
    <2>2. s[d].s = cur /\ \A k \in (d + 1)..n : ~is_define_opcode(s[k])
      BY DEF Delimited, Continued, n
    <2>3. \A k \in (d + 1)..(n + Len(t)) :
            \/ k \in 1..n /\ k \in (d + 1)..n
            \/ k - n \in 1..Len(t) /\ n + (k - n) = k
      BY <1>1, <2>1
    <2>4. \A k \in 1..Len(t) : ~is_define_opcode(st[n + k])
      BY <1>1 DEF Inner
    <2>5. \A k \in (d + 1)..(n + Len(t)) : ~is_define_opcode(st[k])
      BY <1>1, <2>2, <2>3, <2>4
    <2>6. QED
      BY <1>1, <2>1, <2>2, <2>5
  <1>7. Continued(st, cur)
    BY <1>1, <1>2, <1>6 DEF Continued, Delimited
  <1>8. QED
    BY <1>5, <1>7 DEF Delimited, st

(* A definition begins where none is open. *)
LEMMA DelimitedBegun ==
  ASSUME NEW S, NEW s \in Seq(S), NEW o \in S, is_define_opcode(o), o.s # NoSymbol,
         NEW cur, Delimited(s, cur), Unended(s) = {}
  PROVE  Delimited(s \o <<o>>, o.s)
  <1> DEFINE t  == <<o>>
             st == s \o t
             n  == Len(s)
  <1>1. t \in Seq(S) /\ Len(t) = 1 /\ DOMAIN t = 1..1 /\ t[1] = o
    OBVIOUS
  <1> HIDE DEF t
  <1>2. /\ \A k \in DOMAIN s : st[k] = s[k]
        /\ \A k \in DOMAIN t : st[n + k] = t[k]
        /\ DOMAIN s = 1..n /\ n \in Nat /\ Len(st) = n + 1 /\ DOMAIN st = 1..(n + 1)
    <2>1. s \o t \in Seq(S)
      BY <1>1, Joined
    <2>2. QED
      BY <1>1, <2>1, Joined, LenProperties
  <1>3. ~is_enddefine_opcode(o)
    BY DEF is_define_opcode, is_enddefine_opcode
  <1>4. \A d, j \in Int : Ends(st, d, j) => Ends(s, d, j)
    BY <1>1, <1>3, EndsLater
  <1> HIDE DEF st, n
  <1>5. ASSUME NEW d \in Int, NEW j \in Int, Ends(s, d, j)
        PROVE  /\ st[d] = s[d] /\ st[j] = s[j]
               /\ \A k \in (d + 1)..j : st[k] = s[k]
    <2>1. d \in 1..n /\ j \in 1..n
      BY <1>2, <1>5 DEF Ends
    <2>2. \A k \in (d + 1)..j : k \in 1..n
      BY <1>2, <2>1
    <2>3. QED
      BY <1>2, <2>1, <2>2
  <1>6. Paired(st)
    BY <1>4, <1>5 DEF Paired, Delimited
  <1>7. st[n + 1] = o
    BY <1>1, <1>2
  <1>8. ASSUME NEW d \in 1..n, \A e \in d..(n + 1) : ~is_enddefine_opcode(st[e])
        PROVE  ~is_define_opcode(st[d])
    <2>1. \A e \in d..n : e \in 1..n /\ e \in d..(n + 1)
      BY <1>2
    <2>2. \A e \in d..n : ~is_enddefine_opcode(s[e])
      BY <1>2, <1>8, <2>1
    <2>3. d \notin Unended(s)
      OBVIOUS
    <2>4. ~is_define_opcode(s[d])
      BY <2>2, <2>3 DEF Unended, n
    <2>5. QED
      BY <1>2, <2>4
  <1>9. Unended(st) = {n + 1}
    <2>1. \A d \in 1..(n + 1) : d \in 1..n \/ d = n + 1
      BY <1>2
    <2>2. \A d \in Unended(st) : d = n + 1
      BY <1>2, <1>8, <2>1 DEF Unended
    <2>3. \A e \in (n + 1)..(n + 1) : e = n + 1
      BY <1>2
    <2>4. n + 1 \in 1..(n + 1)
      BY <1>2
    <2>5. n + 1 \in Unended(st)
      BY <1>2, <1>3, <1>7, <2>3, <2>4 DEF Unended
    <2>6. QED
      BY <2>2, <2>5
  <1>10. (n + 1 + 1)..(n + 1) = {}
    BY <1>2
  <1>11. Continued(st, o.s)
    BY <1>2, <1>7, <1>9, <1>10 DEF Continued
  <1>12. QED
    BY <1>6, <1>11 DEF Delimited, st, t

(* The current definition ends with its own symbol. *)
LEMMA DelimitedEnded ==
  ASSUME NEW S, NEW s \in Seq(S), NEW t \in Seq(S), NEW cur, Delimited(s, cur),
         NEW e \in DOMAIN t, is_enddefine_opcode(t[e]), t[e].s = cur,
         \A k \in DOMAIN t : ~is_define_opcode(t[k]) /\ (is_enddefine_opcode(t[k]) => k = e)
  PROVE  Delimited(s \o t, NoSymbol)
  <1> DEFINE st == s \o t
             n  == Len(s)
  <1>1. /\ \A k \in DOMAIN s : st[k] = s[k]
        /\ \A k \in DOMAIN t : st[n + k] = t[k]
        /\ DOMAIN s = 1..n /\ n \in Nat /\ DOMAIN t = 1..Len(t) /\ Len(t) \in Nat
        /\ Len(st) = n + Len(t)
    BY Joined, LenProperties
  <1>2. Unended(st) = {}
    BY HereEnded
  <1>3. \A d, j \in Int : Ends(st, d, j) =>
          Ends(s, d, j) \/ (d \in Unended(s) /\ j - n \in DOMAIN t /\ is_enddefine_opcode(t[j - n]))
    BY EndsLater
  <1> HIDE DEF st, n
  <1>4. ASSUME NEW d \in Int, NEW j \in Int, Ends(s, d, j)
        PROVE  st[j].s = st[d].s /\ \A k \in (d + 1)..j : ~is_define_opcode(st[k])
    <2>1. d \in 1..n /\ j \in 1..n
      BY <1>1, <1>4 DEF Ends
    <2>2. \A k \in (d + 1)..j : k \in 1..n
      BY <1>1, <2>1
    <2>3. s[j].s = s[d].s /\ \A k \in (d + 1)..j : ~is_define_opcode(s[k])
      BY <1>4 DEF Paired, Delimited
    <2>4. QED
      BY <1>1, <2>1, <2>2, <2>3
  <1>5. ASSUME NEW d \in Unended(s), NEW j \in Int, j - n \in DOMAIN t,
               is_enddefine_opcode(t[j - n])
        PROVE  st[j].s = st[d].s /\ \A k \in (d + 1)..j : ~is_define_opcode(st[k])
    <2>1. d \in 1..n
      BY DEF Unended, n
    <2>2. s[d].s = cur /\ \A k \in (d + 1)..n : ~is_define_opcode(s[k])
      BY DEF Delimited, Continued, n
    <2>3. j - n = e /\ j - n \in 1..Len(t) /\ n + (j - n) = j
      BY <1>1, <1>5
    <2>4. st[j].s = cur
      BY <1>1, <2>3
    <2>5. \A k \in (d + 1)..j : \/ k \in 1..n /\ k \in (d + 1)..n
                                \/ k - n \in 1..Len(t) /\ n + (k - n) = k
      BY <1>1, <2>1, <2>3
    <2>6. \A k \in 1..Len(t) : ~is_define_opcode(st[n + k])
      BY <1>1
    <2>7. \A k \in (d + 1)..j : ~is_define_opcode(st[k])
      BY <1>1, <2>2, <2>5, <2>6
    <2>8. QED
      BY <1>1, <2>1, <2>2, <2>4, <2>7
  <1>6. Paired(st)
    BY <1>3, <1>4, <1>5 DEF Paired
  <1>7. QED
    BY <1>2, <1>6 DEF Delimited, Continued, st

-----------------------------------------------------------------------------
(* Positions of code that are in no definition. *)
Outside(code) == {i \in DOMAIN code : OpenAt(code, i) = {}}

(* Code that is outside definitions stays so. *)
LEMMA OutsideLater ==
  ASSUME NEW S, NEW s \in Seq(S), NEW t \in Seq(S)
  PROVE  /\ Outside(s) \subseteq Outside(s \o t)
         /\ \A i \in Outside(s \o t) : i \in Outside(s) \/ \E k \in DOMAIN t : i = Len(s) + k
  <1> DEFINE st == s \o t
  <1>1. /\ \A i \in DOMAIN s : i \in DOMAIN st
        /\ \A k \in DOMAIN st : k \in DOMAIN s \/ (k - Len(s) \in DOMAIN t /\ k = Len(s) + (k - Len(s)))
    BY Joined
  <1>2. \A i \in DOMAIN s : OpenAt(st, i) = OpenAt(s, i)
    BY AtKept
  <1> HIDE DEF st
  <1>3. Outside(s) \subseteq Outside(st)
    BY <1>1, <1>2 DEF Outside
  <1>4. \A i \in Outside(st) : i \in Outside(s) \/ \E k \in DOMAIN t : i = Len(s) + k
    BY <1>1, <1>2 DEF Outside
  <1>5. QED
    BY <1>3, <1>4 DEF st

(* New code is outside definitions if none is open before it. *)
LEMMA OutsideAt ==
  ASSUME NEW S, NEW s \in Seq(S), NEW t \in Seq(S), NEW i \in DOMAIN t,
         \A k \in 1..i : ~is_define_opcode(t[k]),
         \A k \in 1..(i - 1) : ~is_enddefine_opcode(t[k])
  PROVE  Len(s) + i \in Outside(s \o t) <=> Unended(s) = {}
  <1>1. OpenAt(s \o t, Len(s) + i) = Unended(s)
    BY AtAppended
  <1>2. Len(s) + i \in DOMAIN (s \o t)
    BY Joined
  <1>3. QED
    BY <1>1, <1>2 DEF Outside

(* The opcode that begins a definition is in it. *)
LEMMA InsideBegun ==
  ASSUME NEW S, NEW s \in Seq(S), NEW o \in S, is_define_opcode(o)
  PROVE  Outside(s \o <<o>>) = Outside(s)
  <1> DEFINE t  == <<o>>
             st == s \o t
             n  == Len(s)
  <1>1. t \in Seq(S) /\ DOMAIN t = 1..1 /\ t[1] = o
    OBVIOUS
  <1> HIDE DEF t
  <1>2. /\ Outside(s) \subseteq Outside(st)
        /\ \A i \in Outside(st) : i \in Outside(s) \/ \E k \in DOMAIN t : i = n + k
    BY <1>1, OutsideLater
  <1>3. st[n + 1] = o /\ n \in Nat
    BY <1>1, Joined, LenProperties
  <1> HIDE DEF st, n
  <1>4. n + 1 \in 1..(n + 1) /\ (n + 1)..(n + 1 - 1) = {}
    BY <1>3
  <1>5. n + 1 \in OpenAt(st, n + 1)
    BY <1>3, <1>4 DEF OpenAt
  <1>6. n + 1 \notin Outside(st)
    BY <1>5 DEF Outside
  <1>7. \A k \in DOMAIN t : k = 1
    BY <1>1
  <1>8. QED
    BY <1>2, <1>6, <1>7 DEF st, t

(* Code behind the end of a definition is outside definitions. *)
LEMMA OutsideEnded ==
  ASSUME NEW S, NEW s \in Seq(S), NEW t \in Seq(S), NEW i \in DOMAIN t, NEW j \in 1..(i - 1),
         is_enddefine_opcode(t[j]), \A k \in DOMAIN t : ~is_define_opcode(t[k])
  PROVE  Len(s) + i \in Outside(s \o t)
  <1> DEFINE st == s \o t
             n  == Len(s)
  <1>1. /\ \A k \in DOMAIN t : st[n + k] = t[k]
        /\ n \in Nat /\ DOMAIN t = 1..Len(t) /\ Len(t) \in Nat
        /\ DOMAIN st = 1..(n + Len(t))
    BY Joined, LenProperties
  <1> HIDE DEF st, n
  <1>2. i \in 1..Len(t) /\ j \in 1..Len(t) /\ j < i
    BY <1>1
  <1>3. ASSUME NEW d \in OpenAt(st, n + i) PROVE FALSE
    <2>1. /\ d \in 1..(n + i) /\ is_define_opcode(st[d])
          /\ \A e \in d..((n + i) - 1) : ~is_enddefine_opcode(st[e])
      BY <1>3 DEF OpenAt
    <2>2. d \in 1..n
      <3>1. d \in 1..n \/ (d - n \in 1..Len(t) /\ d = n + (d - n))
        BY <1>1, <1>2, <2>1
      <3>2. \A k \in 1..Len(t) : ~is_define_opcode(st[n + k])
        BY <1>1
      <3>3. QED
        BY <2>1, <3>1, <3>2
    <2>3. n + j \in d..((n + i) - 1)
      BY <1>1, <1>2, <2>2
    <2>4. is_enddefine_opcode(st[n + j])
      BY <1>1, <1>2
    <2>5. QED
      BY <2>1, <2>3, <2>4
  <1>4. n + i \in 1..(n + Len(t))
    BY <1>1, <1>2
  <1>5. QED
    BY <1>1, <1>3, <1>4 DEF Outside, st, n

-----------------------------------------------------------------------------
(* Symbols that the code defines are in the symbol table.                  *)
Declared(code, table) ==
  \A i \in DOMAIN code : is_define_opcode(code[i]) =>
    \E s \in Symbols : code[i] = DefineOpcode(s) /\ table[s] # "none"

(* Code outside definitions is announced as main; main is announced for    *)
(* such code, or for a CASE that has not compiled any yet; and main is a   *)
(* word that no definition opcode defines.                                 *)
Announcing ==
  /\ Outside(optable_) # {} => implicit_main_
  /\ implicit_main_ => \/ Outside(optable_) # {}
                       \/ /\ current_definition_ = NoSymbol
                          /\ \E i \in DOMAIN nest : Choice(nest[i])
  /\ implicit_main_ => symtable_[Main] = "word"
  /\ implicit_main_ => \A i \in DOMAIN optable_ : optable_[i] # DefineOpcode(Main)

Settling == Delimited(optable_, current_definition_) /\ Declared(optable_, symtable_)
              /\ Announcing
NameInv == Clean => Settling

(* New code that defines no symbol leaves the symbols declared. *)
LEMMA DeclaredLater ==
  ASSUME NEW S, NEW s \in Seq(S), NEW t \in Seq(S), NEW table, NEW later, Declared(s, table),
         \A k \in DOMAIN t : is_define_opcode(t[k]) =>
           \E x \in Symbols : t[k] = DefineOpcode(x) /\ later[x] # "none",
         \A x \in Symbols : table[x] # "none" => later[x] # "none"
  PROVE  Declared(s \o t, later)
  <1> DEFINE st == s \o t
  <1>1. /\ \A i \in DOMAIN s : st[i] = s[i]
        /\ \A k \in DOMAIN t : st[Len(s) + k] = t[k]
        /\ \A k \in DOMAIN st : k \in DOMAIN s \/ (k - Len(s) \in DOMAIN t /\ k = Len(s) + (k - Len(s)))
    BY Joined
  <1> HIDE DEF st
  <1>2. ASSUME NEW i \in DOMAIN st, is_define_opcode(st[i])
        PROVE  \E x \in Symbols : st[i] = DefineOpcode(x) /\ later[x] # "none"
    <2>1. CASE i \in DOMAIN s
      BY <1>1, <1>2, <2>1 DEF Declared
    <2>2. CASE i - Len(s) \in DOMAIN t /\ i = Len(s) + (i - Len(s))
      BY <1>1, <1>2, <2>2
    <2>3. QED
      BY <1>1, <2>1, <2>2
  <1>3. QED
    BY <1>2 DEF Declared, st

-----------------------------------------------------------------------------
(* Main stays announced, and announced rightly, by a step that writes code *)
(* of which no position is a definition's begin or end.                    *)
LEMMA OrdinaryNames ==
  ASSUME ParserAssumption, TypeOK, TypeOK', Guided, Settling, Ordinary, error_count_' = 0
  PROVE  Settling'
  <1>1. PICK m, kept, old, fresh, new, used, breaks :
          /\ Replaces(m, kept, old, fresh, new, breaks)
          /\ Moved(kept, old, fresh, new, used, breaks)
          /\ Announced(m)
    BY DEF Ordinary
  <1>2. UNCHANGED current_definition_
    BY <1>1 DEF Moved
  <1>3. PICK referred : Writes(NewlyPlaced(kept, old, fresh, new, used), referred)
    BY <1>1 DEF Moved
  <1>4. PICK code : /\ optable_' = optable_ \o code
                    /\ Carries(code, NewlyPlaced(kept, old, fresh, new, used), referred)
    BY <1>3 DEF Writes
  <1>5. /\ code \in Seq(OpcodeSet(Symbols)) /\ Inner(code)
        /\ optable_ \in Seq(OpcodeSet(Symbols))
    BY <1>4 DEF Carries, TypeOK, CodeOK
  <1>6. /\ Kept(symtable_')
        /\ implicit_main_ => implicit_main_'
        /\ current_definition_ = NoSymbol /\ optable_' # optable_ => implicit_main_'
        /\ implicit_main_' /\ ~implicit_main_ =>
             /\ current_definition_ = NoSymbol
             /\ symtable_[Main] = "none" /\ symtable_'[Main] = "word"
    BY DEF Ordinary, Named
  <1>7. Delimited(optable_, current_definition_)'
    <2>1. Delimited(optable_ \o code, current_definition_)
      BY <1>5, DelimitedInner DEF Settling
    <2>2. QED
      BY <1>2, <1>4, <2>1
  <1>8. Declared(optable_, symtable_)'
    <2>1. \A x \in Symbols : symtable_[x] # "none" => symtable_'[x] # "none"
      BY <1>6 DEF Kept
    <2>2. Declared(optable_ \o code, symtable_')
      <3>1. \A k \in DOMAIN code : ~is_define_opcode(code[k])
        BY <1>5 DEF Inner
      <3>2. QED
        BY <1>5, <2>1, <3>1, DeclaredLater DEF Settling
    <2>3. QED
      BY <1>4, <2>2
  <1>9. /\ DOMAIN code = 1..Len(code) /\ Len(code) \in Nat
        /\ code = <<>> \/ 1 \in DOMAIN code
    BY <1>5, LenProperties, EmptySeq
  <1>10. optable_' # optable_ => 1 \in DOMAIN code
    <2>1. code = <<>> => optable_ \o code = optable_
      BY <1>5
    <2>2. QED
      BY <1>4, <1>9, <2>1
  <1>11. current_definition_ = NoSymbol => Unended(optable_) = {}
    BY DEF Guided
  <1>12. ASSUME NEW i \in DOMAIN code
         PROVE  Len(optable_) + i \in Outside(optable_') <=> Unended(optable_) = {}
    <2>1. \A k \in 1..i : k \in DOMAIN code
      BY <1>9
    <2>2. \A k \in 1..(i - 1) : k \in DOMAIN code
      BY <1>9
    <2>3. Len(optable_) + i \in Outside(optable_ \o code) <=> Unended(optable_) = {}
      BY <1>5, <2>1, <2>2, OutsideAt DEF Inner
    <2>4. QED
      BY <1>4, <2>3
  <1>13. /\ Outside(optable_) \subseteq Outside(optable_')
         /\ \A i \in Outside(optable_') :
              i \in Outside(optable_) \/ \E k \in DOMAIN code : i = Len(optable_) + k
    BY <1>4, <1>5, OutsideLater
  <1>14. Outside(optable_') # {} => implicit_main_'
    <2>1. ASSUME NEW i \in Outside(optable_'), i \notin Outside(optable_) PROVE implicit_main_'
      <3>1. PICK k \in DOMAIN code : i = Len(optable_) + k
        BY <1>13, <2>1
      <3>2. Unended(optable_) = {}
        BY <1>12, <2>1, <3>1
      <3>3. current_definition_ = NoSymbol
        BY <3>2 DEF Settling, Delimited, Continued
      <3>4. code # <<>>
        BY <3>1
      <3>5. optable_' # optable_
        <4>1. Len(optable_ \o code) = Len(optable_) + Len(code)
          BY <1>5, Joined
        <4>2. Len(code) > 0 /\ Len(optable_) \in Nat
          BY <1>5, <1>9, <3>1, LenProperties
        <4>3. QED
          BY <1>4, <1>9, <4>1, <4>2
      <3>6. QED
        BY <1>6, <3>3, <3>5
    <2>2. Outside(optable_) # {} => implicit_main_'
      BY <1>6 DEF Settling, Announcing
    <2>3. QED
      BY <2>1, <2>2
  <1>15. current_definition_ = NoSymbol /\ optable_' # optable_ => Outside(optable_') # {}
    BY <1>10, <1>11, <1>12
  <1>16. implicit_main_' => \/ Outside(optable_') # {}
                            \/ /\ current_definition_' = NoSymbol
                               /\ \E i \in DOMAIN nest' : Choice(nest'[i])
    <2>1. CASE implicit_main_ /\ Outside(optable_) # {}
      BY <1>13, <2>1
    <2>2. CASE implicit_main_ /\ Outside(optable_) = {}
      <3>1. current_definition_ = NoSymbol
        BY <2>2 DEF Settling, Announcing
      <3>2. PICK i \in DOMAIN nest : Choice(nest[i])
        BY <2>2 DEF Settling, Announcing
      <3>3. /\ m \in Nat /\ Len(nest) \in {m, m + 1} /\ Len(nest') \in {m, m + 1}
            /\ \A k \in 1..m : Alike(nest[k], nest'[k])
        BY <1>1 DEF Replaces
      <3>4. DOMAIN nest = 1..Len(nest) /\ DOMAIN nest' = 1..Len(nest')
        BY LenProperties DEF TypeOK
      <3>5. i \in 1..m \/ (i = m + 1 /\ Len(nest) = m + 1)
        BY <3>2, <3>3, <3>4, Positions
      <3>6. CASE i \in 1..m
        <4>1. i \in DOMAIN nest'
          BY <3>3, <3>4, <3>6, Positions
        <4>2. Choice(nest'[i])
          BY <3>2, <3>3, <3>6 DEF Alike, Choice
        <4>3. QED
          BY <1>2, <3>1, <4>1, <4>2
      <3>7. CASE i = m + 1 /\ Len(nest) = m + 1
        BY <1>1, <1>15, <3>1, <3>2, <3>7 DEF Announced
      <3>8. QED
        BY <3>5, <3>6, <3>7
    <2>3. CASE implicit_main_' /\ ~implicit_main_
      <3>1. current_definition_ = NoSymbol
        BY <1>6, <2>3
      <3>2. CASE optable_' # optable_
        BY <1>15, <3>1, <3>2
      <3>3. CASE Len(nest') = m + 1 /\ Choice(nest'[m + 1])
        <4>1. m + 1 \in DOMAIN nest'
          BY <1>1, <3>3, LenProperties DEF TypeOK, Replaces
        <4>2. QED
          BY <1>2, <3>1, <3>3, <4>1
      <3>4. QED
        BY <1>1, <2>3, <3>2, <3>3 DEF Announced, ForCode
    <2>4. QED
      BY <2>1, <2>2, <2>3
  <1>17. Main \in Symbols
    BY DEF ParserAssumption, Symbols
  <1>18. implicit_main_' => symtable_'[Main] = "word"
    <2>1. CASE implicit_main_
      <3>1. symtable_[Main] = "word" /\ "word" # "none"
        BY <2>1 DEF Settling, Announcing
      <3>2. QED
        BY <1>6, <1>17, <3>1 DEF Kept
    <2>2. QED
      BY <1>6, <2>1
  <1>19. ASSUME implicit_main_', NEW i \in DOMAIN optable_', optable_'[i] = DefineOpcode(Main)
         PROVE  FALSE
    <2>1. DefineOpcode(Main).op = "define" /\ DefineOpcode(Main).s = Main
      BY <1>17, BoundOpcodes
    <2>2. i \in DOMAIN optable_ /\ optable_[i] = DefineOpcode(Main)
      <3>1. /\ \A k \in DOMAIN optable_ : (optable_ \o code)[k] = optable_[k]
            /\ \A k \in DOMAIN code : (optable_ \o code)[Len(optable_) + k] = code[k]
            /\ \A k \in DOMAIN (optable_ \o code) :
                 k \in DOMAIN optable_ \/ (k - Len(optable_) \in DOMAIN code
                                            /\ k = Len(optable_) + (k - Len(optable_)))
        BY <1>5, Joined, SMTT(30)
      <3>2. \A k \in DOMAIN code : ~is_define_opcode(code[k])
        BY <1>5 DEF Inner
      <3>3. is_define_opcode(DefineOpcode(Main))
        BY <2>1 DEF is_define_opcode
      <3>4. QED
        BY <1>4, <1>19, <3>1, <3>2, <3>3
    <2>3. ~implicit_main_
      BY <2>2 DEF Settling, Announcing
    <2>4. symtable_[Main] = "none"
      BY <1>6, <1>19, <2>3
    <2>5. PICK s \in Symbols : optable_[i] = DefineOpcode(s) /\ symtable_[s] # "none"
      BY <2>1, <2>2 DEF Settling, Declared, is_define_opcode
    <2>6. DefineOpcode(s).s = s
      BY <2>5, BoundOpcodes
    <2>7. QED
      BY <2>1, <2>2, <2>4, <2>5, <2>6
  <1>20. Announcing'
    BY <1>14, <1>16, <1>18, <1>19 DEF Announcing
  <1>21. QED
    BY <1>7, <1>8, <1>20 DEF Settling

-----------------------------------------------------------------------------
(* An assembly word contains no construct and no conditional directive, so *)
(* it is as active as the source code was where it began.                  *)
CodeFramed ==
  \A i \in DOMAIN nest : nest[i].kind \in {"code", "coded"} =>
    i = Len(nest) /\ nest[i].active = cond_state

(* The ways in which a step changes the constructs that are open.          *)
Restacks ==
  \/ nest' = nest /\ (UNCHANGED cond_stack_ \/ ~Inside({"code", "coded"}))
  \/ nest' = <<>>
  \/ /\ UNCHANGED cond_stack_ /\ ~Inside({"code", "coded"})
     /\ \E kind \in Kinds : nest' = Append(nest, Frame(kind))
  \/ /\ UNCHANGED cond_stack_ /\ Inside({"case", "cased"})
     /\ nest' = Append(Continue("cased"), Frame("of"))
  \/ UNCHANGED cond_stack_ /\ nest # <<>> /\ nest' = Front(nest)
  \/ UNCHANGED cond_stack_ /\ Inside({"if"}) /\ nest' = Continue("else")
  \/ UNCHANGED cond_stack_ /\ Inside({"code", "coded"}) /\ nest' = Continue("coded")

(* Every step is one of them. *)
LEMMA StepRestacks ==
  ASSUME [Next]_vars
  PROVE  Restacks
  <1>1. CASE GiveUp \/ Conditional \/ Ending \/ UNCHANGED vars
    BY <1>1 DEF GiveUp, Conditional, CondIfdef, CondElse, CondThen, Directive, InStatements,
      Ending, SyntaxError, Recover, EndInRecovery, f_end_of_file, parse_cleanup, vars, Restacks
  <1>2. CASE Declaration /\ ~GiveUp
    BY <1>2 DEF Declaration, Variable, Constant, FConstant, Create, Plainly, Reduce, Restacks
  <1>3. CASE Straight /\ ~GiveUp
    BY <1>3 DEF Straight, Exit, PString, AString, CString, Integer, Float, StringLiteral,
      CharLiteral, ObjectAddress, Word, Recurse, Leave, QueryLeave, While, Statement, Plainly,
      Reduce, Restacks
  <1>4. CASE (Colon \/ NoName \/ Code) /\ ~GiveUp
    <2>1. \E kind \in Kinds : nest' = Append(nest, Frame(kind))
      BY <1>4 DEF Colon, NoName, Code, Open, Reduce, Kinds
    <2>2. UNCHANGED cond_stack_ /\ ~Inside({"code", "coded"})
      BY <1>4 DEF Colon, NoName, Code, Open, Reduce, AtTop, Inside
    <2>3. QED
      BY <2>1, <2>2 DEF Restacks
  <1>5. CASE (If \/ Do \/ QueryDo \/ Begin \/ Case) /\ ~GiveUp
    <2>1. \E kind \in Kinds : nest' = Append(nest, Frame(kind))
      BY <1>5 DEF If, Do, QueryDo, Begin, Case, Structured, Open, Reduce, Kinds
    <2>2. UNCHANGED cond_stack_ /\ ~Inside({"code", "coded"})
      BY <1>5 DEF If, Do, QueryDo, Begin, Case, Structured, Open, Reduce, InStatements
    <2>3. QED
      BY <2>1, <2>2 DEF Restacks
  <1>6. CASE Of /\ ~GiveUp
    BY <1>6 DEF Of, Reduce, Restacks
  <1>7. CASE Else /\ ~GiveUp
    BY <1>7 DEF Else, Reduce, Restacks
  <1>8. CASE Asm /\ ~GiveUp
    BY <1>8 DEF Asm, Reduce, Restacks
  <1>9. CASE (\/ Semicolon \/ EndCode \/ Then \/ Loop \/ PlusLoop \/ Until \/ Repeat
              \/ EndOf \/ EndCase) /\ ~GiveUp
    BY <1>9 DEF Semicolon, EndCode, Then, Loop, PlusLoop, Until, Repeat, EndOf, EndCase, Close,
      Reduce, Inside, Restacks
  <1>10. CASE Stopped
    BY <1>10 DEF Stopped, vars, Restacks
  <1>11. QED
    BY <1>1, <1>2, <1>3, <1>4, <1>5, <1>6, <1>7, <1>8, <1>9, <1>10
    DEF Next, Definition, Structures

(* So an assembly word stays as active as it began. *)
LEMMA StepFramed ==
  ASSUME TypeOK, CodeFramed, [Next]_vars
  PROVE  CodeFramed'
  <1> DEFINE C == {"code", "coded"}
             n == Len(nest)
  <1>1. Restacks
    BY StepRestacks
  <1>2. DOMAIN nest = 1..n /\ n \in Nat /\ (nest # <<>> => n > 0 /\ Top = nest[n])
    BY LenProperties, EmptySeq DEF TypeOK, Top, Last
  <1>3. ~Inside(C) => \A i \in DOMAIN nest : nest[i].kind \notin C
    BY <1>2 DEF CodeFramed, Inside
  <1>4. UNCHANGED cond_stack_ => cond_state' = cond_state
    BY DEF cond_state
  <1>5. CASE nest' = nest /\ (UNCHANGED cond_stack_ \/ ~Inside(C))
    BY <1>3, <1>4, <1>5 DEF CodeFramed
  <1>6. CASE nest' = <<>>
    BY <1>6 DEF CodeFramed
  <1>7. ASSUME NEW frames \in Seq(FrameSet), Len(frames) = n,
               \A i \in 1..n : frames[i].kind \notin C,
               NEW kind \in Kinds, UNCHANGED cond_stack_, nest' = Append(frames, Frame(kind))
        PROVE  CodeFramed'
    <2>1. Frame(kind) \in FrameSet /\ Frame(kind).active = cond_state
      BY FrameTyped
    <2>2. /\ Len(nest') = n + 1 /\ DOMAIN nest' = 1..(n + 1) /\ nest'[n + 1] = Frame(kind)
          /\ \A i \in 1..n : nest'[i] = frames[i]
      BY <1>7, <2>1, AppendProperties, LenProperties
    <2>3. \A i \in 1..(n + 1) : i \in 1..n \/ i = n + 1
      BY <1>2
    <2>4. QED
      BY <1>4, <1>7, <2>1, <2>2, <2>3 DEF CodeFramed
  <1>8. ASSUME ~Inside(C), UNCHANGED cond_stack_, NEW kind \in Kinds,
               nest' = Append(nest, Frame(kind))
        PROVE  CodeFramed'
    BY <1>2, <1>3, <1>7, <1>8 DEF TypeOK
  <1>9. CASE UNCHANGED cond_stack_ /\ Inside({"case", "cased"})
              /\ nest' = Append(Continue("cased"), Frame("of"))
    <2>1. ~Inside(C)
      BY <1>9 DEF Inside
    <2>2. /\ Continue("cased") \in Seq(FrameSet) /\ Len(Continue("cased")) = n
          /\ \A i \in 1..n : Alike(nest[i], Continue("cased")[i])
      BY <1>9, AlikeContinued DEF Inside, Kinds
    <2>3. \A i \in 1..n : Continue("cased")[i].kind \notin C
      BY <1>2, <1>3, <2>1, <2>2 DEF Alike
    <2>4. "of" \in Kinds
      BY DEF Kinds
    <2>5. QED
      BY <1>7, <1>9, <2>2, <2>3, <2>4
  <1>10. CASE UNCHANGED cond_stack_ /\ nest # <<>> /\ nest' = Front(nest)
    <2>1. Len(nest') = n - 1 /\ DOMAIN nest' = 1..(n - 1) /\ \A i \in 1..(n - 1) : nest'[i] = nest[i]
      BY <1>10, FrontTyped, LenProperties DEF TypeOK
    <2>2. \A i \in 1..(n - 1) : i \in 1..n /\ i # n
      <3>1. n \in Nat
        BY <1>2
      <3>2. QED
        BY <3>1
    <2>3. QED
      BY <1>2, <2>1, <2>2 DEF CodeFramed
  <1>11. ASSUME NEW kind \in Kinds, UNCHANGED cond_stack_, nest # <<>>, nest' = Continue(kind),
               (kind = "coded" /\ Top.kind \in C) \/ (kind = "else" /\ Top.kind = "if")
        PROVE  CodeFramed'
    <2>1. /\ nest' \in Seq(FrameSet) /\ Len(nest') = n
          /\ \A i \in 1..n : Alike(nest[i], nest'[i])
      BY <1>11, AlikeContinued
    <2>2. DOMAIN nest' = 1..n
      BY <2>1, LenProperties
    <2>3. QED
      BY <1>2, <1>4, <1>11, <2>1, <2>2 DEF CodeFramed, Alike
  <1>12. CASE UNCHANGED cond_stack_ /\ Inside({"if"}) /\ nest' = Continue("else")
    <2>1. "else" \in Kinds /\ nest # <<>> /\ Top.kind = "if"
      BY <1>12 DEF Kinds, Inside
    <2>2. QED
      BY <1>11, <1>12, <2>1
  <1>13. CASE UNCHANGED cond_stack_ /\ Inside(C) /\ nest' = Continue("coded")
    <2>1. "coded" \in Kinds /\ nest # <<>> /\ Top.kind \in C
      BY <1>13 DEF Kinds, Inside
    <2>2. UNCHANGED cond_stack_ /\ nest' = Continue("coded")
      BY <1>13
    <2> HIDE DEF C
    <2>3. QED
      BY <1>11, <2>1, <2>2
  <1>14. CASE UNCHANGED cond_stack_ /\ ~Inside(C)
              /\ \E kind \in Kinds : nest' = Append(nest, Frame(kind))
    BY <1>8, <1>14
  <1>15. QED
    BY <1>1, <1>5, <1>6, <1>9, <1>10, <1>12, <1>13, <1>14 DEF Restacks

-----------------------------------------------------------------------------
(* The null symbol is never the current definition of an open body.        *)
LEMMA CurrentSymbol ==
  ASSUME ParserAssumption
  PROVE  \A s \in Symbols : s # NoSymbol
  BY DEF ParserAssumption

(* A new symbol begins a definition outside all constructs.                *)
LEMMA NamesBegun ==
  ASSUME ParserAssumption, TypeOK, Guided, Bound, Settling, nest = <<>>,
         NEW s \in Symbols, symtable_[s] = "none", NEW sort, sort # "none",
         StartDefinition(s, sort), UNCHANGED implicit_main_
  PROVE  Settling'
  <1> DEFINE o == DefineOpcode(s)
  <1>1. /\ o \in OpcodeSet(Symbols) /\ is_define_opcode(o) /\ o.s = s /\ s # NoSymbol
    BY BoundOpcodes, CurrentSymbol DEF is_define_opcode
  <1>2. current_definition_ = NoSymbol /\ Unended(optable_) = {}
    BY DEF Bound, Outermost, Guided
  <1>3. /\ optable_ \in Seq(OpcodeSet(Symbols)) /\ optable_' = optable_ \o <<o>>
        /\ current_definition_' = s /\ symtable_' = [symtable_ EXCEPT ![s] = sort]
        /\ symtable_ \in [Symbols -> SymbolKinds]
    BY DEF StartDefinition, Emit, TypeOK, CodeOK, SymbolsOK
  <1>4. /\ symtable_'[s] # "none"
        /\ \A x \in Symbols : symtable_[x] # "none" => symtable_'[x] = symtable_[x]
    BY <1>3
  <1>5. Main \in Symbols /\ DefineOpcode(Main).s = Main
    BY BoundOpcodes DEF ParserAssumption, Symbols
  <1>6. <<o>> \in Seq(OpcodeSet(Symbols)) /\ DOMAIN <<o>> = 1..1 /\ <<o>>[1] = o
    BY <1>1
  <1>7. Delimited(optable_, current_definition_)'
    <2>1. Delimited(optable_ \o <<o>>, o.s)
      <3> HIDE DEF o
      <3>1. QED
        BY <1>1, <1>2, <1>3, DelimitedBegun DEF Settling
    <2>2. QED
      BY <1>1, <1>3, <2>1
  <1>8. Declared(optable_, symtable_)'
    <2>1. Declared(optable_ \o <<o>>, symtable_')
      <3>1. \A k \in DOMAIN <<o>> : \E x \in Symbols : <<o>>[k] = DefineOpcode(x) /\ symtable_'[x] # "none"
        BY <1>4, <1>6
      <3>2. \A x \in Symbols : symtable_[x] # "none" => symtable_'[x] # "none"
        BY <1>4
      <3> DEFINE t == <<o>>
      <3>3. \A k \in DOMAIN t : is_define_opcode(t[k]) =>
              \E x \in Symbols : t[k] = DefineOpcode(x) /\ symtable_'[x] # "none"
        BY <3>1
      <3>4. /\ Declared(optable_, symtable_) /\ t \in Seq(OpcodeSet(Symbols))
            /\ optable_ \in Seq(OpcodeSet(Symbols))
        BY <1>3, <1>6 DEF Settling
      <3> HIDE DEF t
      <3>5. Declared(optable_ \o t, symtable_')
        BY <3>2, <3>3, <3>4, DeclaredLater
      <3>6. QED
        BY <3>5 DEF t
    <2>2. QED
      BY <1>3, <2>1
  <1>9. Outside(optable_') = Outside(optable_)
    <2> HIDE DEF o
    <2>1. QED
      BY <1>1, <1>3, InsideBegun
  <1>10. implicit_main_' => Outside(optable_') # {}
    BY <1>9 DEF Settling, Announcing
  <1>11. implicit_main_' => symtable_'[Main] = "word" /\ s # Main
    <2>1. implicit_main_ => symtable_[Main] = "word" /\ "word" # "none"
      BY DEF Settling, Announcing
    <2>2. QED
      BY <1>4, <1>5, <2>1
  <1>12. ASSUME implicit_main_', NEW i \in DOMAIN optable_' PROVE optable_'[i] # DefineOpcode(Main)
    <2>1. /\ \A k \in DOMAIN optable_ : (optable_ \o <<o>>)[k] = optable_[k]
          /\ \A k \in DOMAIN <<o>> : (optable_ \o <<o>>)[Len(optable_) + k] = <<o>>[k]
          /\ \A k \in DOMAIN (optable_ \o <<o>>) :
               k \in DOMAIN optable_ \/ (k - Len(optable_) \in DOMAIN <<o>>
                                          /\ k = Len(optable_) + (k - Len(optable_)))
      <3> HIDE DEF o
      <3>1. QED
        BY <1>3, <1>6, Joined
    <2>2. \A k \in DOMAIN optable_ : optable_[k] # DefineOpcode(Main)
      BY <1>12 DEF Settling, Announcing
    <2>3. o # DefineOpcode(Main)
      BY <1>1, <1>5, <1>11, <1>12
    <2>4. \A k \in DOMAIN <<o>> : <<o>>[k] = o
      BY <1>6
    <2> HIDE DEF o
    <2>5. QED
      BY <1>3, <1>12, <2>1, <2>2, <2>3, <2>4
  <1>13. Announcing'
    BY <1>9, <1>10, <1>11, <1>12 DEF Settling, Announcing
  <1>14. QED
    BY <1>7, <1>8, <1>13 DEF Settling

(* No definition opcode of new code defines main again.                    *)
LEMMA MainUndefined ==
  ASSUME ParserAssumption, TypeOK, Settling, implicit_main_ \/ symtable_[Main] = "none",
         NEW code \in Seq(OpcodeSet(Symbols)), \A k \in DOMAIN code : ~is_define_opcode(code[k])
  PROVE  \A i \in DOMAIN (optable_ \o code) : (optable_ \o code)[i] # DefineOpcode(Main)
  <1>1. Main \in Symbols /\ DefineOpcode(Main).s = Main /\ is_define_opcode(DefineOpcode(Main))
    BY BoundOpcodes DEF ParserAssumption, Symbols, is_define_opcode
  <1>2. \A i \in DOMAIN optable_ : optable_[i] # DefineOpcode(Main)
    <2>1. CASE implicit_main_
      BY <2>1 DEF Settling, Announcing
    <2>2. CASE symtable_[Main] = "none"
      <3>1. ASSUME NEW i \in DOMAIN optable_, optable_[i] = DefineOpcode(Main) PROVE FALSE
        <4>1. PICK s \in Symbols : optable_[i] = DefineOpcode(s) /\ symtable_[s] # "none"
          BY <1>1, <3>1 DEF Settling, Declared
        <4>2. DefineOpcode(s).s = s
          BY BoundOpcodes
        <4>3. QED
          BY <1>1, <2>2, <3>1, <4>1, <4>2
      <3>2. QED
        BY <3>1
    <2>3. QED
      BY <2>1, <2>2
  <1>3. /\ \A k \in DOMAIN optable_ : (optable_ \o code)[k] = optable_[k]
        /\ \A k \in DOMAIN code : (optable_ \o code)[Len(optable_) + k] = code[k]
        /\ \A k \in DOMAIN (optable_ \o code) :
             k \in DOMAIN optable_ \/ (k - Len(optable_) \in DOMAIN code
                                        /\ k = Len(optable_) + (k - Len(optable_)))
    <2>1. optable_ \in Seq(OpcodeSet(Symbols))
      BY DEF TypeOK, CodeOK
    <2>2. QED
      BY <2>1, Joined, SMTT(30)
  <1>4. QED
    BY <1>1, <1>2, <1>3

(* An assembly line is written into the word it belongs to.                *)
LEMMA NamesAssembled ==
  ASSUME ParserAssumption, TypeOK, Settling, current_definition_ # NoSymbol,
         NEW code \in Seq(OpcodeSet(Symbols)), Inner(code), Emit(code),
         UNCHANGED <<symbols, current_definition_>>
  PROVE  Settling'
  <1>1. /\ optable_ \in Seq(OpcodeSet(Symbols)) /\ optable_' = optable_ \o code
        /\ UNCHANGED <<symtable_, implicit_main_, current_definition_>>
    BY DEF TypeOK, CodeOK, Emit, symbols
  <1>2. \A k \in DOMAIN code : ~is_define_opcode(code[k])
    BY DEF Inner
  <1>3. Delimited(optable_, current_definition_)'
    <2>1. Delimited(optable_ \o code, current_definition_)
      BY <1>1, DelimitedInner DEF Settling
    <2>2. QED
      BY <1>1, <2>1
  <1>4. Declared(optable_, symtable_)'
    <2>1. Declared(optable_ \o code, symtable_)
      BY <1>1, <1>2, DeclaredLater DEF Settling
    <2>2. QED
      BY <1>1, <2>1
  <1>5. Unended(optable_) # {}
    BY DEF Settling, Delimited, Continued
  <1>6. ASSUME NEW k \in DOMAIN code PROVE Len(optable_) + k \notin Outside(optable_')
    <2>1. \A j \in 1..k : j \in DOMAIN code
      BY LenProperties
    <2>2. \A j \in 1..(k - 1) : j \in DOMAIN code
      BY LenProperties
    <2>3. Len(optable_) + k \in Outside(optable_ \o code) <=> Unended(optable_) = {}
      BY <1>1, <2>1, <2>2, OutsideAt DEF Inner
    <2>4. QED
      BY <1>1, <1>5, <2>3
  <1>7. Outside(optable_') = Outside(optable_)
    <2>1. /\ Outside(optable_) \subseteq Outside(optable_')
          /\ \A i \in Outside(optable_') :
               i \in Outside(optable_) \/ \E k \in DOMAIN code : i = Len(optable_) + k
      BY <1>1, OutsideLater
    <2>2. QED
      BY <1>6, <2>1
  <1>8. implicit_main_' => \A i \in DOMAIN optable_' : optable_'[i] # DefineOpcode(Main)
    BY <1>1, <1>2, MainUndefined
  <1>9. Announcing'
    BY <1>1, <1>7, <1>8 DEF Settling, Announcing
  <1>10. QED
    BY <1>3, <1>4, <1>9 DEF Settling

(* The end of a definition: what is written behind it, the execution token *)
(* of a :NONAME word, is outside definitions and announces main.           *)
LEMMA NamesEnded ==
  ASSUME ParserAssumption, TypeOK, Settling, current_definition_ # NoSymbol,
         NEW code \in Seq(OpcodeSet(Symbols)), NEW e \in DOMAIN code,
         is_enddefine_opcode(code[e]), code[e].s = current_definition_,
         \A k \in DOMAIN code :
           ~is_define_opcode(code[k]) /\ (is_enddefine_opcode(code[k]) => k = e),
         Emit(code), current_definition_' = NoSymbol,
         \/ e = Len(code) /\ UNCHANGED <<symtable_, implicit_main_>>
         \/ /\ e < Len(code) /\ implicit_main_'
            /\ symtable_' = WithMain(symtable_, NoSymbol)
            /\ ~implicit_main_ => symtable_[Main] = "none"
  PROVE  Settling'
  <1>1. /\ optable_ \in Seq(OpcodeSet(Symbols)) /\ optable_' = optable_ \o code
        /\ symtable_ \in [Symbols -> SymbolKinds]
    BY DEF TypeOK, CodeOK, SymbolsOK, Emit
  <1>2. DOMAIN code = 1..Len(code) /\ Len(code) \in Nat /\ e \in 1..Len(code)
    BY LenProperties
  <1>3. Main \in Symbols
    BY DEF ParserAssumption, Symbols
  <1>4. \A x \in Symbols : symtable_[x] # "none" => symtable_'[x] = symtable_[x]
    <2>1. CASE symtable_' = symtable_
      BY <2>1
    <2>2. CASE symtable_' = WithMain(symtable_, NoSymbol)
      BY <1>1, <1>3, <2>2 DEF WithMain
    <2>3. QED
      BY <2>1, <2>2
  <1>5. Delimited(optable_, current_definition_)'
    <2>1. Delimited(optable_ \o code, NoSymbol)
      BY <1>1, DelimitedEnded DEF Settling
    <2>2. QED
      BY <1>1, <2>1
  <1>6. Declared(optable_, symtable_)'
    <2>1. \A x \in Symbols : symtable_[x] # "none" => symtable_'[x] # "none"
      BY <1>4
    <2>2. Declared(optable_ \o code, symtable_')
      <3>1. \A k \in DOMAIN code : ~is_define_opcode(code[k])
        OBVIOUS
      <3>2. Declared(optable_, symtable_) /\ optable_ \in Seq(OpcodeSet(Symbols))
        BY <1>1 DEF Settling
      <3>3. \A k \in DOMAIN code : is_define_opcode(code[k]) =>
              \E x \in Symbols : code[k] = DefineOpcode(x) /\ symtable_'[x] # "none"
        BY <3>1
      <3>4. QED
        BY <2>1, <3>2, <3>3, DeclaredLater, SMTT(30)
    <2>3. QED
      BY <1>1, <2>2
  <1>7. Unended(optable_) # {}
    BY DEF Settling, Delimited, Continued
  <1>8. ASSUME NEW k \in DOMAIN code, k <= e PROVE Len(optable_) + k \notin Outside(optable_')
    <2>1. \A j \in 1..k : j \in DOMAIN code
      BY <1>2
    <2>2. \A j \in 1..(k - 1) : j \in DOMAIN code /\ j # e
      BY <1>2, <1>8
    <2>3. Len(optable_) + k \in Outside(optable_ \o code) <=> Unended(optable_) = {}
      BY <1>1, <2>1, <2>2, OutsideAt
    <2>4. QED
      BY <1>1, <1>7, <2>3
  <1>9. ASSUME e < Len(code) PROVE Outside(optable_') # {}
    <2>1. e + 1 \in DOMAIN code /\ e \in 1..((e + 1) - 1)
      BY <1>2, <1>9
    <2>2. Len(optable_) + (e + 1) \in Outside(optable_ \o code)
      BY <1>1, <2>1, OutsideEnded
    <2>3. QED
      BY <1>1, <2>2
  <1>10. /\ Outside(optable_) \subseteq Outside(optable_')
         /\ \A i \in Outside(optable_') :
              i \in Outside(optable_) \/ \E k \in DOMAIN code : i = Len(optable_) + k
    BY <1>1, OutsideLater
  <1>11. implicit_main_ => implicit_main_' /\ Outside(optable_) # {}
    BY DEF Settling, Announcing
  <1>12. Outside(optable_') # {} => implicit_main_'
    <2>1. CASE e < Len(code)
      BY <1>2, <2>1
    <2>2. CASE e = Len(code) /\ UNCHANGED implicit_main_
      <3>1. \A k \in DOMAIN code : k <= e
        BY <1>2, <2>2
      <3>2. \A i \in Outside(optable_') : i \in Outside(optable_)
        BY <1>8, <1>10, <3>1
      <3>3. QED
        BY <2>2, <3>2 DEF Settling, Announcing
    <2>3. QED
      BY <2>1, <2>2
  <1>13. implicit_main_' => Outside(optable_') # {}
    BY <1>9, <1>10, <1>11
  <1>14. implicit_main_' => implicit_main_ \/ symtable_[Main] = "none"
    OBVIOUS
  <1>15. implicit_main_' => symtable_'[Main] = "word"
    <2>1. CASE implicit_main_
      <3>1. symtable_[Main] = "word" /\ "word" # "none"
        BY <2>1 DEF Settling, Announcing
      <3>2. QED
        BY <1>3, <1>4, <3>1
    <2>2. CASE ~implicit_main_ /\ implicit_main_'
      <3>1. symtable_' = WithMain(symtable_, NoSymbol) /\ symtable_[Main] = "none"
        BY <2>2
      <3>2. QED
        BY <1>1, <1>3, <2>2, <3>1 DEF WithMain, NeedsMain
    <2>3. QED
      BY <2>1, <2>2
  <1>16. implicit_main_' => \A i \in DOMAIN optable_' : optable_'[i] # DefineOpcode(Main)
    BY <1>1, <1>14, MainUndefined
  <1>17. Announcing'
    BY <1>12, <1>13, <1>15, <1>16 DEF Announcing
  <1>18. QED
    BY <1>5, <1>6, <1>17 DEF Settling

(* Where a body is open in active code it is the current definition.       *)
LEMMA BodyCurrent ==
  ASSUME ParserAssumption, TypeOK, Bound, nest # <<>>, Top = nest[1], Top.kind \in Bodies,
         Top.active
  PROVE  current_definition_ \in Symbols /\ current_definition_ # NoSymbol
  <1>1. Outermost(Bodies)
    BY DEF Outermost
  <1>2. QED
    BY <1>1, CurrentSymbol DEF Bound

(* The steps that begin, continue or end a definition.                     *)
LEMMA DefiningNames ==
  ASSUME ParserAssumption, TypeOK, Labelling, Guided, Bound, CodeFramed, Settling,
         InStep', status' # "asserted", ~GiveUp, Defining, error_count_ = 0, error_count_' = 0
  PROVE  Settling'
  <1>1. cond_state
    BY DEF Defining
  <1>2. CASE \E s \in Names : nest = <<>> /\ f_definedword(s)
    <2>1. PICK s \in Names : nest = <<>> /\ f_definedword(s)
      BY <1>2
    <2>2. s \in Symbols /\ symtable_[s] \in SymbolKinds
      BY <2>1 DEF Symbols, TypeOK, SymbolsOK
    <2>3. /\ symtable_[s] = "none" /\ StartDefinition(s, "word") /\ UNCHANGED implicit_main_
      BY <2>1 DEF f_definedword, Handler, Asserting, Defined, parse_error
    <2>4. "word" # "none"
      OBVIOUS
    <2>5. QED
      BY <2>1, <2>2, <2>3, <2>4, NamesBegun
  <1>3. CASE \E s \in Anons : nest = <<>> /\ f_nonameword(s)
    <2>1. PICK s \in Anons : nest = <<>> /\ f_nonameword(s)
      BY <1>3
    <2>2. s \in Symbols
      BY <2>1 DEF Symbols
    <2>3. /\ symtable_[s] = "none" /\ StartDefinition(s, "anonword") /\ UNCHANGED implicit_main_
      BY <2>1, NonameBegins
    <2>4. "anonword" # "none"
      OBVIOUS
    <2>5. QED
      BY <2>1, <2>2, <2>3, <2>4, NamesBegun
  <1>4. CASE \E s \in Names : nest = <<>> /\ f_codeword(s)
    <2>1. PICK s \in Names : nest = <<>> /\ f_codeword(s)
      BY <1>4
    <2>2. s \in Symbols
      BY <2>1 DEF Symbols
    <2>3. /\ symtable_[s] = "none" /\ StartDefinition(s, "codeword") /\ UNCHANGED implicit_main_
      BY <2>1 DEF f_codeword, Handler, Asserting, Defined, Reject, parse_error
    <2>4. "codeword" # "none"
      OBVIOUS
    <2>5. QED
      BY <2>1, <2>2, <2>3, <2>4, NamesBegun
  <1>5. ASSUME nest # <<>>, Top.kind \in {"code", "coded"}, NEW comment \in BOOLEAN,
               f_code(comment)
        PROVE  Settling'
    <2>1. DOMAIN nest = 1..Len(nest) /\ Len(nest) \in Nat /\ Len(nest) # 0 /\ Top = nest[Len(nest)]
      BY <1>5, LenProperties, EmptySeq DEF TypeOK, Top, Last
    <2>2. Len(nest) \in DOMAIN nest
      BY <2>1
    <2>3. Top.active
      BY <1>1, <1>5, <2>1, <2>2 DEF CodeFramed
    <2>4. Top = nest[1]
      <3>1. Top.kind \in Bodies
        BY <1>5 DEF Bodies
      <3>2. Len(nest) = 1
        BY <2>1, <2>2, <3>1 DEF Bound
      <3>3. QED
        BY <2>1, <3>2
    <2>5. current_definition_ # NoSymbol
      BY <1>5, <2>3, <2>4, BodyCurrent DEF Bodies
    <2>6. /\ Emit(IF comment THEN <<>> ELSE <<AssemblyOpcode>>)
          /\ UNCHANGED <<symbols, current_definition_>>
      BY <1>5 DEF f_code, Handler, Asserting
    <2>7. PICK code : Emit(code) /\ (code = <<>> \/ code = <<AssemblyOpcode>>)
      BY <2>6
    <2>8. Carries(code, {}, {})
      BY <2>7, MereOpcodes, MereTuples
    <2>9. code \in Seq(OpcodeSet(Symbols)) /\ Inner(code)
      BY <2>8 DEF Carries
    <2>10. QED
      BY <2>5, <2>6, <2>7, <2>9, NamesAssembled
  <1>6. ASSUME nest # <<>>, Top.kind \in {"definition", "noname", "coded"}, nest' = Front(nest),
               split' = (split \/ Top.active # cond_state)
        PROVE  current_definition_ \in Symbols /\ current_definition_ # NoSymbol
    <2>1. Top.active
      BY <1>1, <1>6 DEF InStep
    <2>2. Top = nest[1]
      BY <1>6, BodyAlone DEF Bodies
    <2>3. QED
      BY <1>6, <2>1, <2>2, BodyCurrent DEF Bodies
  <1>7. ASSUME nest # <<>>, Top.kind \in {"definition", "noname"}, nest' = Front(nest),
               split' = (split \/ Top.active # cond_state), f_semicolon
        PROVE  Settling'
    <2>1. current_definition_ \in Symbols /\ current_definition_ # NoSymbol
      BY <1>6, <1>7
    <2>2. /\ current_definition_' = NoSymbol
          /\ \E code : /\ EndsBody(code, LabelUnder(0), current_definition_) /\ Emit(code)
                       /\ \/ Len(code) = 2 /\ UNCHANGED symbols
                          \/ Len(code) = 4 /\ detect_main(symtable_, NoSymbol, 0)
      BY <1>1, <1>7, <2>1, SemicolonCode
    <2>3. PICK code : /\ EndsBody(code, LabelUnder(0), current_definition_) /\ Emit(code)
                      /\ \/ Len(code) = 2 /\ UNCHANGED symbols
                         \/ Len(code) = 4 /\ detect_main(symtable_, NoSymbol, 0)
      BY <2>2
    <2>4. /\ code \in Seq(OpcodeSet(Symbols)) /\ Len(code) \in {2, 4}
          /\ code[1] = LabelOpcode(LabelUnder(0)) /\ code[2] = EndDefineOpcode(current_definition_)
          /\ \A k \in 3..Len(code) : Mere(code[k])
      BY <2>3 DEF EndsBody
    <2>5. DOMAIN code = 1..Len(code)
      BY <2>4, LenProperties
    <2>6. code[1].op = "label"
      BY <2>4 DEF LabelOpcode, Targeted, Opcode
    <2>7. code[2].op = "enddefine" /\ code[2].s = current_definition_
      BY <2>1, <2>4, BoundOpcodes
    <2>8. \A k \in DOMAIN code : k = 1 \/ k = 2 \/ k \in 3..Len(code)
      BY <2>4, <2>5
    <2>9. \A k \in DOMAIN code :
            ~is_define_opcode(code[k]) /\ (is_enddefine_opcode(code[k]) => k = 2)
      BY <2>4, <2>6, <2>7, <2>8 DEF Mere, is_define_opcode, is_enddefine_opcode
    <2>10. 2 \in DOMAIN code /\ is_enddefine_opcode(code[2])
      BY <2>4, <2>5, <2>7 DEF is_enddefine_opcode
    <2>11. \/ 2 = Len(code) /\ UNCHANGED <<symtable_, implicit_main_>>
           \/ /\ 2 < Len(code) /\ implicit_main_'
              /\ symtable_' = WithMain(symtable_, NoSymbol)
              /\ ~implicit_main_ => symtable_[Main] = "none"
      <3>1. CASE Len(code) = 2 /\ UNCHANGED symbols
        BY <3>1 DEF symbols
      <3>2. CASE Len(code) = 4 /\ detect_main(symtable_, NoSymbol, 0)
        <4>1. MainErrors(symtable_, NoSymbol) = 0
          BY <3>2 DEF detect_main, MainErrors
        <4>2. ~implicit_main_ => symtable_[Main] = "none"
          BY <4>1 DEF MainErrors, NeedsMain
        <4>3. implicit_main_' /\ symtable_' = WithMain(symtable_, NoSymbol)
          BY <3>2 DEF detect_main
        <4>4. QED
          BY <3>2, <4>2, <4>3
      <3>3. QED
        BY <2>3, <3>1, <3>2
    <2>12. QED
      BY <2>1, <2>2, <2>3, <2>4, <2>7, <2>9, <2>10, <2>11, NamesEnded
  <1>8. ASSUME nest # <<>>, Top.kind = "coded", nest' = Front(nest),
               split' = (split \/ Top.active # cond_state), f_end_code
        PROVE  Settling'
    <2>1. current_definition_ \in Symbols /\ current_definition_ # NoSymbol
      BY <1>6, <1>8
    <2> DEFINE o    == EndDefineOpcode(current_definition_)
               code == <<o>>
    <2>2. /\ Emit(code) /\ current_definition_' = NoSymbol
          /\ UNCHANGED <<symtable_, implicit_main_>>
      BY <1>8, <2>1 DEF f_end_code, Handler, Asserting, symbols
    <2>3. o \in OpcodeSet(Symbols) /\ o.op = "enddefine" /\ o.s = current_definition_
      BY <2>1, BoundOpcodes
    <2> HIDE DEF o
    <2>4. /\ code \in Seq(OpcodeSet(Symbols)) /\ Len(code) = 1 /\ DOMAIN code = 1..1 /\ code[1] = o
      BY <2>3
    <2> HIDE DEF code
    <2>5. 1 \in DOMAIN code /\ is_enddefine_opcode(code[1]) /\ code[1].s = current_definition_
      BY <2>3, <2>4 DEF is_enddefine_opcode
    <2>6. \A k \in DOMAIN code :
            ~is_define_opcode(code[k]) /\ (is_enddefine_opcode(code[k]) => k = 1)
      BY <2>3, <2>4 DEF is_define_opcode
    <2>7. QED
      BY <2>1, <2>2, <2>4, <2>5, <2>6, NamesEnded
  <1>9. QED
    BY <1>2, <1>3, <1>4, <1>5, <1>7, <1>8, DefiningActs

-----------------------------------------------------------------------------
(* The inductive invariant: CleanInv, and what this module adds to it.     *)
NamesInv == CleanInv /\ CodeFramed /\ NameInv

(* A new parser has no code and no symbols. *)
LEMMA InitNames ==
  ASSUME ParserAssumption, Init
  PROVE  NamesInv
  <1>1. CleanInv
    BY InitClean
  <1>2. optable_ = <<>> /\ nest = <<>> /\ current_definition_ = NoSymbol /\ ~implicit_main_
    BY DEF Init
  <1>3. DOMAIN optable_ = {} /\ Len(optable_) = 0 /\ 1..0 = {}
    BY <1>2
  <1>4. CodeFramed
    BY <1>2 DEF CodeFramed
  <1>5. Delimited(optable_, current_definition_)
    BY <1>2, <1>3 DEF Delimited, Paired, Continued, Ends, Unended
  <1>6. Declared(optable_, symtable_)
    BY <1>3 DEF Declared
  <1>7. Announcing
    BY <1>2, <1>3 DEF Announcing, Outside
  <1>8. QED
    BY <1>1, <1>4, <1>5, <1>6, <1>7 DEF NamesInv, NameInv, Settling

(* Every step preserves it. *)
LEMMA StepNames ==
  ASSUME ParserAssumption, NamesInv, [Next]_vars
  PROVE  NamesInv'
  <1>1. CleanInv' /\ CleanInv
    BY StepClean DEF NamesInv
  <1>2. IInv /\ IInv' /\ TypeOK /\ TypeOK'
    BY <1>1 DEF CleanInv, IInv
  <1>3. CodeFramed'
    BY <1>2, StepFramed DEF NamesInv
  <1>4. ASSUME Clean' PROVE Settling'
    <2>1. InStep' /\ InStep /\ Labelling /\ error_count_' = 0
      BY <1>1, <1>2, <1>4, StaysSplit DEF Clean, CleanInv, LabelInv
    <2>2. error_count_ = 0
      <3>1. error_count_' >= error_count_
        BY <1>2, <2>1, ErrorsGrow
      <3>2. error_count_ \in Nat
        BY <1>2 DEF TypeOK, SymbolsOK
      <3>3. QED
        BY <2>1, <3>1, <3>2
    <2>3. Guided /\ Bound /\ Settling
      BY <1>1, <2>1, <2>2 DEF CleanInv, BranchInv, NamesInv, NameInv, Clean
    <2>4. status' # "asserted"
      BY <1>2, <2>1 DEF IInv, AssertionsHold
    <2>5. CASE Quiet
      <3>1. nest' = nest
        BY <2>1, <2>2, <2>5 DEF Quiet
      <3>2. UNCHANGED <<symtable_, implicit_main_, optable_, current_definition_>>
        BY <2>5 DEF Quiet
      <3>3. QED
        BY <2>3, <3>1, <3>2 DEF Settling, Announcing
    <2>6. CASE Ordinary
      BY <1>2, <2>1, <2>3, <2>6, OrdinaryNames
    <2>7. CASE Defining /\ ~GiveUp
      <3>1. CodeFramed
        BY DEF NamesInv
      <3>2. QED
        BY <1>2, <2>1, <2>2, <2>3, <2>4, <2>7, <3>1, DefiningNames
    <2>8. QED
      BY <1>2, <2>1, <2>5, <2>6, <2>7, StepClasses
  <1>5. QED
    BY <1>1, <1>3, <1>4 DEF NamesInv, NameInv

(* In every reachable state: as long as no error was found, definitions    *)
(* are delimited, their symbols known, and main announced as it should be. *)
THEOREM NamesInOrder == Spec => []NamesInv
  <1>1. Init => NamesInv
    BY ParserAssumption, InitNames
  <1>2. NamesInv /\ [Next]_vars => NamesInv'
    BY ParserAssumption, StepNames
  <1>3. QED
    BY <1>1, <1>2, PTL DEF Spec

(* A definition that ends does so at its first end-define opcode.          *)
LEMMA FirstEnd ==
  ASSUME NEW S, NEW code \in Seq(S), Paired(code), NEW i \in DOMAIN code,
         is_define_opcode(code[i]), \E j \in (i + 1)..Len(code) : is_enddefine_opcode(code[j])
  PROVE  LET end == Min({j \in (i + 1)..Len(code) : is_enddefine_opcode(code[j])})
         IN /\ code[end].s = code[i].s
            /\ \A k \in (i + 1)..end : ~is_define_opcode(code[k])
  <1> DEFINE T   == {j \in (i + 1)..Len(code) : is_enddefine_opcode(code[j])}
             end == Min(T)
  <1>1. DOMAIN code = 1..Len(code) /\ Len(code) \in Nat /\ i \in 1..Len(code)
    BY LenProperties
  <1>2. \A j \in (i + 1)..Len(code) : j \in 1..Len(code)
    BY <1>1
  <1>3. T \subseteq 1..Len(code) /\ T # {}
    BY <1>2
  <1>4. end \in T /\ \A y \in T : end <= y
    <2> HIDE DEF T
    <2>1. QED
      BY <1>1, <1>3, Extremes
  <1>5. end \in (i + 1)..Len(code) /\ is_enddefine_opcode(code[end])
    BY <1>4
  <1>6. \A e \in (i + 1)..Len(code) : is_enddefine_opcode(code[e]) => end <= e
    BY <1>4
  <1> HIDE DEF T, end
  <1>7. \A e \in (i + 1)..(end - 1) : e \in (i + 1)..Len(code) /\ ~(end <= e)
    BY <1>1, <1>5
  <1>8. end \in 1..Len(code) /\ end > i /\ end \in Int /\ i \in Int
    BY <1>1, <1>5
  <1>9. Ends(code, i, end)
    BY <1>1, <1>5, <1>6, <1>7, <1>8 DEF Ends
  <1>10. code[end].s = code[i].s /\ \A k \in (i + 1)..end : ~is_define_opcode(code[k])
    BY <1>8, <1>9 DEF Paired
  <1>11. QED
    BY <1>10 DEF end, T

(* Define and end-define opcodes come in pairs of one symbol and are never *)
(* nested, and one definition at most is open, the current one.            *)
THEOREM DefinitionsInPairs == Spec => []DefinitionsDelimited
  <1>1. ASSUME NamesInv, Clean PROVE DefinitionsDelimited
    <2>1. optable_ \in Seq(OpcodeSet(Symbols))
      BY <1>1 DEF NamesInv, CleanInv, IInv, TypeOK, CodeOK
    <2>2. DOMAIN optable_ = 1..Len(optable_) /\ Len(optable_) \in Nat
      BY <2>1, LenProperties
    <2>3. /\ Paired(optable_) /\ Continued(optable_, current_definition_)
          /\ Declared(optable_, symtable_)
      BY <1>1 DEF NamesInv, NameInv, Settling, Delimited
    <2>4. ASSUME NEW i \in DOMAIN optable_, is_define_opcode(optable_[i]),
                 ~\E j \in (i + 1)..Len(optable_) : is_enddefine_opcode(optable_[j])
          PROVE  /\ current_definition_ = optable_[i].s
                 /\ \A k \in (i + 1)..Len(optable_) : ~is_define_opcode(optable_[k])
      <3>1. \A e \in i..Len(optable_) : e = i \/ e \in (i + 1)..Len(optable_)
        BY <2>2
      <3>2. \A e \in i..Len(optable_) : ~is_enddefine_opcode(optable_[e])
        BY <2>4, <3>1 DEF is_define_opcode, is_enddefine_opcode
      <3>3. i \in Unended(optable_)
        BY <2>2, <2>4, <3>2 DEF Unended
      <3>4. QED
        BY <2>3, <3>3 DEF Continued
    <2>5. ASSUME NEW i \in DOMAIN optable_, is_define_opcode(optable_[i])
          PROVE  IF \E j \in (i + 1)..Len(optable_) : is_enddefine_opcode(optable_[j])
                   THEN LET end == Min({j \in (i + 1)..Len(optable_) : is_enddefine_opcode(optable_[j])})
                        IN /\ optable_[end].s = optable_[i].s
                           /\ \A k \in (i + 1)..end : ~is_define_opcode(optable_[k])
                   ELSE current_definition_ = optable_[i].s
                        /\ \A k \in (i + 1)..Len(optable_) : ~is_define_opcode(optable_[k])
      <3>1. CASE \E j \in (i + 1)..Len(optable_) : is_enddefine_opcode(optable_[j])
        BY <2>1, <2>3, <2>5, <3>1, FirstEnd
      <3>2. CASE ~\E j \in (i + 1)..Len(optable_) : is_enddefine_opcode(optable_[j])
        BY <2>4, <2>5, <3>2
      <3>3. QED
        BY <3>1, <3>2
    <2>6. ASSUME current_definition_ # NoSymbol
          PROVE  \E i \in DOMAIN optable_ :
                   /\ optable_[i] = DefineOpcode(current_definition_)
                   /\ \A k \in i..Len(optable_) : ~is_enddefine_opcode(optable_[k])
      <3>1. PICK i \in Unended(optable_) : optable_[i].s = current_definition_
        BY <2>3, <2>6 DEF Continued
      <3>2. /\ i \in 1..Len(optable_) /\ is_define_opcode(optable_[i])
            /\ \A k \in i..Len(optable_) : ~is_enddefine_opcode(optable_[k])
        BY <3>1 DEF Unended
      <3>3. PICK s \in Symbols : optable_[i] = DefineOpcode(s)
        BY <2>2, <2>3, <3>2 DEF Declared
      <3>4. DefineOpcode(s).s = s
        BY ParserAssumption, BoundOpcodes
      <3>5. optable_[i] = DefineOpcode(current_definition_)
        BY <3>1, <3>3, <3>4
      <3>6. QED
        BY <2>2, <3>2, <3>5
    <2>7. QED
      BY <2>5, <2>6 DEF DefinitionsDelimited
  <1>2. NamesInv => DefinitionsDelimited
    BY <1>1 DEF DefinitionsDelimited
  <1>3. QED
    BY <1>2, NamesInOrder, PTL

-----------------------------------------------------------------------------
(* The table with main added knows every symbol it knew.                   *)
LEMMA WithMainKept ==
  ASSUME ParserAssumption, TypeOK, NEW cur, symtable_' = WithMain(symtable_, cur)
  PROVE  Kept(symtable_')
  <1>1. Main \in Symbols /\ symtable_ \in [Symbols -> SymbolKinds]
    BY DEF ParserAssumption, Symbols, TypeOK, SymbolsOK
  <1>2. ASSUME NEW s \in Symbols, symtable_[s] # "none" \/ s \notin Names
        PROVE  symtable_'[s] = symtable_[s]
    BY <1>1, <1>2 DEF WithMain, ParserAssumption
  <1>3. QED
    BY <1>2 DEF Kept

(* A handler of a structure, or its failing assert, keeps the symbols.     *)
LEMMA StructureKept ==
  ASSUME ParserAssumption, TypeOK
  PROVE  /\ \A code : Structure(code) => Kept(symtable_')
         /\ UNCHANGED symtable_ => Kept(symtable_')
         /\ UNCHANGED handled => Kept(symtable_')
         /\ Untouched => Kept(symtable_')
  <1>1. UNCHANGED symtable_ => Kept(symtable_')
    BY DEF Kept
  <1>2. ASSUME NEW code, Structure(code) PROVE Kept(symtable_')
    BY <1>2, WithMainKept DEF Structure, DetectMain, detect_main
  <1>3. QED
    BY <1>1, <1>2 DEF handled, symbols, Untouched

(* Closing a construct, or going on with it, keeps the symbols.            *)
LEMMA ClosingKept ==
  ASSUME ParserAssumption, TypeOK
  PROVE  /\ f_then_endif => Kept(symtable_')
         /\ f_else => Kept(symtable_')
         /\ f_loop => Kept(symtable_')
         /\ f_plus_loop => Kept(symtable_')
         /\ f_until => Kept(symtable_')
         /\ f_repeat_again => Kept(symtable_')
         /\ f_of => Kept(symtable_')
         /\ f_endof => Kept(symtable_')
         /\ f_endcase => Kept(symtable_')
  <1>1. f_then_endif => Kept(symtable_')
    BY StructureKept DEF f_then_endif, Asserting
  <1>2. f_else => Kept(symtable_')
    BY StructureKept DEF f_else, Asserting
  <1>3. f_loop => Kept(symtable_')
    BY StructureKept DEF f_loop, Asserting
  <1>4. f_plus_loop => Kept(symtable_')
    BY StructureKept DEF f_plus_loop, Asserting
  <1>5. f_until => Kept(symtable_')
    BY StructureKept DEF f_until, Asserting
  <1>6. f_repeat_again => Kept(symtable_')
    BY StructureKept DEF f_repeat_again, Asserting
  <1>7. f_of => Kept(symtable_')
    BY StructureKept DEF f_of, Handler, Asserting
  <1>8. f_endof => Kept(symtable_')
    BY StructureKept DEF f_endof, Asserting
  <1>9. f_endcase => Kept(symtable_')
    BY StructureKept DEF f_endcase, Asserting
  <1>10. QED
    BY <1>1, <1>2, <1>3, <1>4, <1>5, <1>6, <1>7, <1>8, <1>9

(* So do the beginning and the end of a definition: a name that is taken   *)
(* is refused, and the name of a :NONAME word is a new one.                *)
LEMMA DefiningKept ==
  ASSUME ParserAssumption, TypeOK
  PROVE  /\ \A s \in Names : f_definedword(s) => Kept(symtable_')
         /\ \A s \in Anons : f_nonameword(s) => Kept(symtable_')
         /\ \A s \in Names : f_codeword(s) => Kept(symtable_')
         /\ \A comment \in BOOLEAN : f_code(comment) => Kept(symtable_')
         /\ f_semicolon => Kept(symtable_')
         /\ f_end_code => Kept(symtable_')
  <1>1. symtable_ \in [Symbols -> SymbolKinds]
    BY DEF TypeOK, SymbolsOK
  <1>2. ASSUME NEW s \in Symbols, symtable_[s] = "none", NEW sort, StartDefinition(s, sort),
               s \notin Names => sort = "anonword"
        PROVE  Kept(symtable_')
    <2>1. symtable_' = [symtable_ EXCEPT ![s] = sort]
      BY <1>2 DEF StartDefinition
    <2>2. QED
      BY <1>1, <1>2, <2>1 DEF Kept
  <1>3. UNCHANGED symtable_ => Kept(symtable_')
    BY StructureKept
  <1>4. ASSUME NEW s \in Names, f_definedword(s) PROVE Kept(symtable_')
    <2>1. s \in Symbols
      BY DEF Symbols
    <2>2. UNCHANGED symtable_ \/ (symtable_[s] = "none" /\ StartDefinition(s, "word"))
      BY <1>4 DEF f_definedword, Handler, Asserting, Defined
    <2>3. QED
      BY <1>2, <1>3, <2>1, <2>2
  <1>5. ASSUME NEW s \in Anons, f_nonameword(s) PROVE Kept(symtable_')
    <2>1. s \in Symbols
      BY DEF Symbols
    <2>2. UNCHANGED symtable_ \/ (symtable_[s] = "none" /\ StartDefinition(s, "anonword"))
      BY <1>5 DEF f_nonameword, Defined, symbols
    <2>3. QED
      BY <1>2, <1>3, <2>1, <2>2
  <1>6. ASSUME NEW s \in Names, f_codeword(s) PROVE Kept(symtable_')
    <2>1. s \in Symbols
      BY DEF Symbols
    <2>2. UNCHANGED symtable_ \/ (symtable_[s] = "none" /\ StartDefinition(s, "codeword"))
      BY <1>6 DEF f_codeword, Handler, Asserting, Defined, Reject
    <2>3. QED
      BY <1>2, <1>3, <2>1, <2>2
  <1>7. ASSUME NEW comment \in BOOLEAN, f_code(comment) PROVE Kept(symtable_')
    BY <1>3, <1>7 DEF f_code, Handler, Asserting, symbols
  <1>8. f_semicolon => Kept(symtable_')
    <2>1. f_semicolon => UNCHANGED symtable_ \/ detect_main(symtable_, NoSymbol, 0)
      BY DEF f_semicolon, Asserting, symbols, handled
    <2>2. detect_main(symtable_, NoSymbol, 0) => symtable_' = WithMain(symtable_, NoSymbol)
      BY DEF detect_main
    <2>3. QED
      BY <1>3, <2>1, <2>2, WithMainKept
  <1>9. f_end_code => Kept(symtable_')
    BY <1>3 DEF f_end_code, Handler, Asserting, symbols
  <1>10. QED
    BY <1>4, <1>5, <1>6, <1>7, <1>8, <1>9

(* Every step keeps the symbols, refused or split constructs or not.       *)
LEMMA StepKept ==
  ASSUME ParserAssumption, TypeOK, [Next]_vars
  PROVE  Kept(symtable_')
  <1>1. CASE GiveUp \/ Conditional \/ Ending \/ UNCHANGED vars
    BY <1>1, QuietSteps, StructureKept DEF Quiet
  <1>2. CASE Declaration \/ Straight
    <2>1. Quiet \/ Ordinary
      BY <1>2, StraightOrdinary
    <2>2. Quiet => Kept(symtable_')
      BY StructureKept DEF Quiet
    <2>3. Ordinary => Kept(symtable_')
      BY DEF Ordinary, Named
    <2>4. QED
      BY <2>1, <2>2, <2>3
  <1>3. CASE (If \/ Do \/ QueryDo \/ Begin \/ Case) /\ ~GiveUp
    <2>1. Ordinary
      BY <1>3, OpeningOrdinary
    <2>2. QED
      BY <2>1 DEF Ordinary, Named
  <1>4. CASE Definition /\ cond_state /\ ~GiveUp
    <2>1. Defining
      <3>1. ~excessive_errors
        BY <1>4 DEF Definition, Colon, NoName, Semicolon, Code, Asm, EndCode, Open, Close, Reduce
      <3>2. QED
        BY <1>4, <3>1 DEF Definition, Defining
    <2>2. \/ \E s \in Names : f_definedword(s)
          \/ \E s \in Anons : f_nonameword(s)
          \/ \E s \in Names : f_codeword(s)
          \/ \E comment \in BOOLEAN : f_code(comment)
          \/ f_semicolon
          \/ f_end_code
      BY <1>4, <2>1, DefiningActs
    <2>3. QED
      BY <2>2, DefiningKept
  <1>5. CASE Definition /\ ~cond_state /\ ~GiveUp
    <2>1. Untouched
      BY <1>5 DEF Definition, Colon, NoName, Semicolon, Code, Asm, EndCode, Open, Close, Reduce
    <2>2. QED
      BY <2>1, StructureKept
  <1>6. CASE (\/ Then \/ Else \/ Loop \/ PlusLoop \/ Until \/ Repeat
              \/ Of \/ EndOf \/ EndCase) /\ ~GiveUp
    <2>1. \/ Untouched
          \/ f_then_endif \/ f_else \/ f_loop \/ f_plus_loop \/ f_until \/ f_repeat_again
          \/ f_of \/ f_endof \/ f_endcase
      BY <1>6 DEF Then, Else, Loop, PlusLoop, Until, Repeat, Of, EndOf, EndCase, Close, Reduce
    <2>2. QED
      BY <2>1, StructureKept, ClosingKept
  <1>7. CASE Stopped
    BY <1>7, StructureKept DEF Stopped, vars, handled, symbols
  <1>8. QED
    BY <1>1, <1>2, <1>3, <1>4, <1>5, <1>6, <1>7 DEF Next, Structures

(* The assert of the symbol table fails only where a generated name has    *)
(* been taken.                                                             *)
LEMMA CollisionTaken ==
  ASSUME [Next]_vars, status # "collided", status' = "collided"
  PROVE  NameTaken
  <1>1. CASE GiveUp
    BY <1>1 DEF GiveUp
  <1>2. CASE Ending /\ ~GiveUp
    BY <1>2 DEF Ending, SyntaxError, Recover, EndInRecovery, f_end_of_file, parse_cleanup
  <1>3. CASE (Declaration \/ Definition \/ Straight \/ Structures \/ Conditional) /\ ~GiveUp
    BY <1>3, ParsingGoesOn
  <1>4. CASE Stopped \/ UNCHANGED vars
    BY <1>4 DEF Stopped, vars
  <1>5. QED
    BY <1>1, <1>2, <1>3, <1>4 DEF Next

(* A symbol that no source file can name is an anonymous word.             *)
Unwritten == \A s \in Symbols \ Names : symtable_[s] \in {"none", "anonword"}

(* No step leaves code outside definitions that is not announced as main   *)
(* where no construct is open, or changes the kind of a symbol; and the    *)
(* table is given a second symbol of one name, which ends the process,     *)
(* only for a :NONAME word whose generated name the source has written.    *)
THEOREM NamesSettle == Spec => NamesSettled
  <1>1. NamesInv => MainAnnounced
    <2>1. SUFFICES ASSUME NamesInv, Clean, AtTop
                   PROVE  /\ implicit_main_ <=> \E i \in DOMAIN optable_ : DefinitionAt(i) = 0
                          /\ implicit_main_ => /\ symtable_[Main] = "word"
                                               /\ DefineOpcode(Main) \notin ToSet(optable_)
      BY DEF MainAnnounced
    <2>2. Announcing
      BY <2>1 DEF NamesInv, NameInv, Settling
    <2>3. nest = <<>>
      BY <2>1 DEF AtTop
    <2>4. implicit_main_ <=> Outside(optable_) # {}
      BY <2>2, <2>3 DEF Announcing
    <2>5. ASSUME NEW i \in DOMAIN optable_
          PROVE  DefinitionAt(i) = 0 <=> OpenAt(optable_, i) = {}
      <3>1. DefinitionAt(i) = At(optable_, i)
        BY DEF DefinitionAt, At, OpenAt
      <3>2. i \in Nat
        BY <2>1, LenProperties DEF NamesInv, CleanInv, IInv, TypeOK, CodeOK
      <3>3. OpenAt(optable_, i) \subseteq 1..i
        BY DEF OpenAt
      <3>4. ASSUME OpenAt(optable_, i) # {} PROVE Max(OpenAt(optable_, i)) # 0
        <4>1. Max(OpenAt(optable_, i)) \in OpenAt(optable_, i)
          BY <3>2, <3>3, <3>4, Extremes
        <4>2. Max(OpenAt(optable_, i)) \in 1..i
          BY <3>3, <4>1
        <4>3. QED
          BY <3>2, <4>2
      <3>5. QED
        BY <3>1, <3>4 DEF At
    <2>6. Outside(optable_) # {} <=> \E i \in DOMAIN optable_ : DefinitionAt(i) = 0
      BY <2>5 DEF Outside
    <2>7. implicit_main_ => DefineOpcode(Main) \notin ToSet(optable_)
      BY <2>2 DEF Announcing, ToSet
    <2>8. QED
      BY <2>2, <2>4, <2>6, <2>7 DEF Announcing
  <1>u. Spec => []Unwritten
    <2>1. Init => Unwritten
      BY DEF Init, Unwritten
    <2>2. Unwritten /\ TypeOK /\ [Next]_vars => Unwritten'
      BY ParserAssumption, StepKept DEF Kept, Unwritten
    <2>3. NamesInv => TypeOK
      BY DEF NamesInv, CleanInv, IInv
    <2>4. QED
      BY <2>1, <2>2, <2>3, NamesInOrder, PTL DEF Spec
  <1>2. NamesInv /\ NamesInv' /\ Unwritten /\ [Next]_vars =>
          [/\ MainAnnounced'
           /\ \A s \in Symbols : symtable_[s] # "none" => symtable_'[s] = symtable_[s]
           /\ status # "collided" /\ status' = "collided" =>
                \E s \in Names \cap Anons : symtable_[s] \notin {"none", "anonword"}]_vars
    <2>1. SUFFICES ASSUME NamesInv, NamesInv', Unwritten, [Next]_vars
                   PROVE  /\ MainAnnounced'
                          /\ \A s \in Symbols : symtable_[s] # "none" => symtable_'[s] = symtable_[s]
                          /\ status # "collided" /\ status' = "collided" =>
                               \E s \in Names \cap Anons : symtable_[s] \notin {"none", "anonword"}
      OBVIOUS
    <2>c. status # "collided" /\ status' = "collided" =>
            \E s \in Names \cap Anons : symtable_[s] \notin {"none", "anonword"}
      BY <2>1, CollisionTaken DEF NameTaken, Unwritten, Symbols
    <2>2. MainAnnounced'
      BY <1>1, <2>1, PTL
    <2>3. TypeOK
      BY <2>1 DEF NamesInv, CleanInv, IInv
    <2>4. Kept(symtable_')
      BY <2>1, <2>3, ParserAssumption, StepKept
    <2>5. QED
      BY <2>2, <2>4, <2>c DEF Kept
  <1>3. QED
    BY <1>2, <1>u, NamesInOrder, PTL DEF Spec, NamesSettled
=============================================================================
