---------------------------- MODULE ParserLabels ----------------------------
(***************************************************************************)
(* Proof that no label is placed twice, for all tokens, names and bounds.  *)
(*                                                                         *)
(* The first part tells what each handler of Parser adds to the code and   *)
(* to the label stacks: the labels that its opcodes place and refer to,    *)
(* those that it leaves on the stack for later, and those it takes off.    *)
(* The proofs about labels, branches and definitions rest on these facts.  *)
(*                                                                         *)
(* The invariant says which labels of the label stack are placed already:  *)
(* only where an open loop began.  The labels of the stack increase and    *)
(* are older than the next one, so a handler that places what it takes off *)
(* the stack, and what it draws, places nothing again.                     *)
(***************************************************************************)
EXTENDS ParserProof

(* No label is placed twice within this code. *)
Once(code) ==
  \A i, j \in DOMAIN code :
    is_label_opcode(code[i]) /\ is_label_opcode(code[j]) /\ code[i].n = code[j].n => i = j

(* The code neither begins nor ends a definition. *)
Inner(code) ==
  \A i \in DOMAIN code : ~is_define_opcode(code[i]) /\ ~is_enddefine_opcode(code[i])

Carries(code, placed, referred) ==
  /\ code \in Seq(OpcodeSet(Symbols))
  /\ Placed(code) = placed /\ Referred(code) = referred /\ Once(code) /\ Inner(code)

(* Where the opcodes of two joined sequences are. *)
LEMMA Joined ==
  ASSUME NEW S, NEW s \in Seq(S), NEW t \in Seq(S)
  PROVE  /\ s \o t \in Seq(S) /\ Len(s \o t) = Len(s) + Len(t)
         /\ DOMAIN (s \o t) = 1..(Len(s) + Len(t))
         /\ \A i \in DOMAIN s : i \in DOMAIN (s \o t) /\ (s \o t)[i] = s[i]
         /\ \A i \in DOMAIN t : Len(s) + i \in DOMAIN (s \o t) /\ (s \o t)[Len(s) + i] = t[i]
         /\ \A k \in DOMAIN (s \o t) :
              k \in DOMAIN s \/ (k - Len(s) \in DOMAIN t /\ k = Len(s) + (k - Len(s)))
  OBVIOUS

(* Joined code places and refers to what either part does. *)
LEMMA JoinedLabels ==
  ASSUME NEW S, NEW s \in Seq(S), NEW t \in Seq(S)
  PROVE  /\ Placed(s \o t) = Placed(s) \cup Placed(t)
         /\ Referred(s \o t) = Referred(s) \cup Referred(t)
  <1> DEFINE st == s \o t
  <1>1. /\ \A i \in DOMAIN s : i \in DOMAIN st /\ st[i] = s[i]
        /\ \A i \in DOMAIN t : Len(s) + i \in DOMAIN st /\ st[Len(s) + i] = t[i]
        /\ \A k \in DOMAIN st :
             k \in DOMAIN s \/ (k - Len(s) \in DOMAIN t /\ k = Len(s) + (k - Len(s)))
    BY Joined
  <1> HIDE DEF st
  <1>2. Placed(st) \subseteq Placed(s) \cup Placed(t)
    BY <1>1 DEF Placed
  <1>3. Placed(s) \subseteq Placed(st)
    BY <1>1 DEF Placed
  <1>4. Placed(t) \subseteq Placed(st)
    BY <1>1 DEF Placed
  <1>5. Referred(st) \subseteq Referred(s) \cup Referred(t)
    BY <1>1 DEF Referred
  <1>6. Referred(s) \subseteq Referred(st)
    BY <1>1 DEF Referred
  <1>7. Referred(t) \subseteq Referred(st)
    BY <1>1 DEF Referred
  <1>8. QED
    BY <1>2, <1>3, <1>4, <1>5, <1>6, <1>7 DEF st

(* Two parts that place different labels, each once, do so together. *)
LEMMA JoinedOnce ==
  ASSUME NEW S, NEW s \in Seq(S), NEW t \in Seq(S), Once(s), Once(t),
         Placed(s) \cap Placed(t) = {}
  PROVE  Once(s \o t)
  <1> DEFINE st == s \o t
  <1>1. /\ Len(s) \in Nat
        /\ \A i \in DOMAIN s : st[i] = s[i]
        /\ \A i \in DOMAIN t : st[Len(s) + i] = t[i]
        /\ \A k \in DOMAIN st :
             k \in DOMAIN s \/ (k - Len(s) \in DOMAIN t /\ k = Len(s) + (k - Len(s)))
    BY Joined
  <1> HIDE DEF st
  <1>2. ASSUME NEW i \in DOMAIN st, NEW j \in DOMAIN st,
               is_label_opcode(st[i]), is_label_opcode(st[j]), st[i].n = st[j].n
        PROVE  i = j
    <2>1. CASE i \in DOMAIN s /\ j \in DOMAIN s
      BY <1>1, <1>2, <2>1 DEF Once
    <2>2. CASE i \in DOMAIN s /\ j \notin DOMAIN s
      <3>1. st[i].n \in Placed(s)
        BY <1>1, <1>2, <2>2 DEF Placed
      <3>2. st[j].n \in Placed(t)
        BY <1>1, <1>2, <2>2 DEF Placed
      <3>3. QED
        BY <1>2, <3>1, <3>2
    <2>3. CASE i \notin DOMAIN s /\ j \in DOMAIN s
      <3>1. st[i].n \in Placed(t)
        BY <1>1, <1>2, <2>3 DEF Placed
      <3>2. st[j].n \in Placed(s)
        BY <1>1, <1>2, <2>3 DEF Placed
      <3>3. QED
        BY <1>2, <3>1, <3>2
    <2>4. CASE i \notin DOMAIN s /\ j \notin DOMAIN s
      <3>1. i - Len(s) = j - Len(s) /\ i = Len(s) + (i - Len(s)) /\ j = Len(s) + (j - Len(s))
        BY <1>1, <1>2, <2>4 DEF Once
      <3>2. QED
        BY <3>1
    <2>5. QED
      BY <2>1, <2>2, <2>3, <2>4
  <1>3. QED
    BY <1>2 DEF Once, st

(* Code written after other code places and refers to the labels of both, and places
   none twice if the two share none. *)
LEMMA JoinedCode ==
  ASSUME NEW s, NEW P, NEW R, Carries(s, P, R),
         NEW t, NEW P2, NEW R2, Carries(t, P2, R2), P \cap P2 = {}
  PROVE  Carries(s \o t, P \cup P2, R \cup R2)
  <1>1. s \in Seq(OpcodeSet(Symbols)) /\ t \in Seq(OpcodeSet(Symbols))
    BY DEF Carries
  <1>2. Inner(s \o t)
    BY <1>1, Joined DEF Carries, Inner
  <1>3. QED
    BY <1>1, <1>2, Joined, JoinedLabels, JoinedOnce DEF Carries

(* Opcodes that are no branches, labels or bounds of definitions. *)
Mere(o) ==
  o \in OpcodeSet(Symbols) /\ o.op \notin BranchingOps \cup {"label", "define", "enddefine"}

(* Code of mere opcodes places no label, refers to none and opens or ends no body. *)
LEMMA MereCode ==
  ASSUME NEW code \in Seq(OpcodeSet(Symbols)), \A i \in DOMAIN code : Mere(code[i])
  PROVE  Carries(code, {}, {})
  BY DEF Carries, Placed, Referred, Once, Inner, Mere, is_label_opcode, is_branching_opcode,
         is_define_opcode, is_enddefine_opcode

(* The same for tuples. *)
LEMMA MereTuples ==
  ASSUME NEW a, Mere(a)
  PROVE  /\ Carries(<<>>, {}, {}) /\ Carries(<<a>>, {}, {})
         /\ \A b : Mere(b) => Carries(<<a, b>>, {}, {})
         /\ \A b, c : Mere(b) /\ Mere(c) => Carries(<<a, b, c>>, {}, {})
  <1>1. Carries(<<>>, {}, {})
    <2> DEFINE none == <<>>
    <2>1. none \in Seq(OpcodeSet(Symbols)) /\ Len(none) = 0
      BY EmptySeq
    <2>2. DOMAIN none = 1..Len(none)
      BY <2>1, LenProperties
    <2> HIDE DEF none
    <2>3. \A i \in DOMAIN none : Mere(none[i])
      BY <2>1, <2>2
    <2>4. Carries(none, {}, {})
      BY <2>1, <2>3, MereCode
    <2>5. QED
      BY <2>4 DEF none
  <1>2. Carries(<<a>>, {}, {})
    <2>1. <<a>> \in Seq(OpcodeSet(Symbols)) /\ \A i \in DOMAIN <<a>> : Mere(<<a>>[i])
      BY DEF Mere
    <2>2. QED
      BY <2>1, MereCode
  <1>3. ASSUME NEW b, Mere(b) PROVE Carries(<<a, b>>, {}, {})
    <2>1. <<a, b>> \in Seq(OpcodeSet(Symbols)) /\ \A i \in DOMAIN <<a, b>> : Mere(<<a, b>>[i])
      BY <1>3 DEF Mere
    <2>2. QED
      BY <2>1, MereCode
  <1>4. ASSUME NEW b, NEW c, Mere(b), Mere(c) PROVE Carries(<<a, b, c>>, {}, {})
    <2>1. /\ <<a, b, c>> \in Seq(OpcodeSet(Symbols))
          /\ \A i \in DOMAIN <<a, b, c>> : Mere(<<a, b, c>>[i])
      BY <1>4 DEF Mere
    <2>2. QED
      BY <2>1, MereCode
  <1>5. QED
    BY <1>1, <1>2, <1>3, <1>4

(* The opcodes the handlers emit besides branches, labels, DEFINE and ENDDEFINE are
   mere ones. *)
LEMMA MereOpcodes ==
  ASSUME ParserAssumption
  PROVE  /\ \A s \in Symbols \cup {NoSymbol} : Mere(CallOpcode(s))
         /\ \A s \in Symbols \cup {NoSymbol}, r \in {"R0", "R1"} :
              /\ Mere(LoadSymbolOpcode(r, s)) /\ Mere(LoadSymbolIndirectOpcode(r, s))
              /\ Mere(StoreSymbolIndirectOpcode(r, s))
         /\ \A r \in {"R0", "R1"} :
              /\ Mere(LoadDataOpcode(r)) /\ Mere(LoadValueOpcode(r, 0)) /\ Mere(AddValueOpcode(r, 1))
              /\ \A q \in {"R0", "R1"} : /\ Mere(AddRegisterOpcode(r, q))
                                        /\ Mere(SubtractRegisterOpcode(r, q))
              /\ \A q \in {"DATA", "RETURN", "FLOAT"} : Mere(PushOpcode(r, q)) /\ Mere(PopOpcode(r, q))
         /\ Mere(AssemblyOpcode)
  <1> USE DEF Mere, BranchingOps
  <1>1. /\ \A s \in Symbols \cup {NoSymbol} : Mere(CallOpcode(s))
        /\ \A s \in Symbols \cup {NoSymbol}, r \in {"R0", "R1"} :
              /\ Mere(LoadSymbolOpcode(r, s)) /\ Mere(LoadSymbolIndirectOpcode(r, s))
              /\ Mere(StoreSymbolIndirectOpcode(r, s))
    BY OpcodesTyped DEF CallOpcode, LoadSymbolOpcode, LoadSymbolIndirectOpcode,
       StoreSymbolIndirectOpcode, Symbolic, Opcode
  <1>2. \A r \in {"R0", "R1"} :
          Mere(LoadDataOpcode(r)) /\ Mere(LoadValueOpcode(r, 0)) /\ Mere(AddValueOpcode(r, 1))
    <2>1. \A r \in {"R0", "R1"} :
            /\ LoadDataOpcode(r) \in OpcodeSet(Symbols)
            /\ LoadValueOpcode(r, 0) \in OpcodeSet(Symbols)
            /\ AddValueOpcode(r, 1) \in OpcodeSet(Symbols)
      BY OpcodesTyped, 0 \in Int, 1 \in Int
    <2>2. QED
      BY <2>1 DEF LoadDataOpcode, LoadValueOpcode, AddValueOpcode, Opcode
  <1>3. \A r \in {"R0", "R1"}, q \in {"R0", "R1"} :
          Mere(AddRegisterOpcode(r, q)) /\ Mere(SubtractRegisterOpcode(r, q))
    BY OpcodesTyped DEF AddRegisterOpcode, SubtractRegisterOpcode, Opcode
  <1>4. \A r \in {"R0", "R1"}, q \in {"DATA", "RETURN", "FLOAT"} :
          Mere(PushOpcode(r, q)) /\ Mere(PopOpcode(r, q))
    BY OpcodesTyped DEF PushOpcode, PopOpcode, Opcode
  <1>5. Mere(AssemblyOpcode)
    BY OpcodesTyped DEF AssemblyOpcode, Plain, Opcode
  <1>6. QED
    BY <1>1, <1>2, <1>3, <1>4, <1>5

(* A single branch, and a single label. *)
Branches(o, l) == o \in OpcodeSet(Symbols) /\ o.op \in BranchingOps /\ o.n = l

(* A single branch opcode refers to its own label and places none. *)
LEMMA BranchCode ==
  ASSUME NEW o, NEW l, Branches(o, l)
  PROVE  Carries(<<o>>, {}, {l})
  BY DEF Branches, Carries, Placed, Referred, Once, Inner, BranchingOps, is_label_opcode,
         is_branching_opcode, is_define_opcode, is_enddefine_opcode

(* The jump opcodes of codegen.h's vocabulary are branches to the label they are built
   with. *)
LEMMA BranchOpcodes ==
  ASSUME ParserAssumption, NEW l \in Nat
  PROVE  /\ Branches(JumpOpcode(l), l)
         /\ \A r \in {"R0", "R1"} :
              /\ Branches(JumpZeroOpcode(r, l), l) /\ Branches(JumpNonZeroOpcode(r, l), l)
              /\ Branches(JumpLessZeroOpcode(r, l), l)
              /\ Branches(JumpGreaterEqualZeroOpcode(r, l), l)
         /\ \A r, q \in {"R0", "R1"} :
              Branches(JumpEqualOpcode(r, q, l), l) /\ Branches(JumpNotEqualOpcode(r, q, l), l)
  BY OpcodesTyped DEF Branches, BranchingOps, JumpOpcode, JumpZeroOpcode, JumpNonZeroOpcode,
     JumpLessZeroOpcode, JumpGreaterEqualZeroOpcode, JumpEqualOpcode, JumpNotEqualOpcode,
     Targeted, Opcode

(* A single label opcode places its own label and refers to none. *)
LEMMA LabelCode ==
  ASSUME ParserAssumption, NEW l \in Nat
  PROVE  Carries(<<LabelOpcode(l)>>, {l}, {})
  <1>1. LabelOpcode(l) \in OpcodeSet(Symbols)
    BY OpcodesTyped
  <1>2. LabelOpcode(l).op = "label" /\ LabelOpcode(l).n = l
    BY DEF LabelOpcode, Targeted, Opcode
  <1> DEFINE o == LabelOpcode(l)
  <1> HIDE DEF o
  <1>3. Carries(<<o>>, {l}, {})
    BY <1>1, <1>2 DEF o, Carries, Placed, Referred, Once, Inner, BranchingOps, is_label_opcode,
       is_branching_opcode, is_define_opcode, is_enddefine_opcode
  <1>4. QED
    BY <1>3 DEF o


-----------------------------------------------------------------------------
(***************************************************************************)
(* What a handler does to the flow.  It keeps the lowest labels of the     *)
(* label stack, takes the rest off, and pushes fresh ones; used counts the *)
(* labels it draws from the sequence.  It places every label it takes off  *)
(* but the old-th, where a loop began, which is placed already; of the     *)
(* fresh ones it places only the new-th, or, if it pushes none, all that   *)
(* it has drawn.  Its branches go to labels that it draws, or that are on  *)
(* one of the stacks, or to the exit.                                      *)
(***************************************************************************)
Writes(placed, referred) ==
  \E code : optable_' = optable_ \o code /\ Carries(code, placed, referred)

Taken(used)      == label_sequence_..(label_sequence_ + used - 1)
Above(kept, old) == {label_stack_[p] : p \in ((kept + 1)..Len(label_stack_)) \ {kept + old}}

NewlyPlaced(kept, old, fresh, new, used) ==
  Above(kept, old) \cup (IF fresh = 0 THEN Taken(used)
                         ELSE IF new = 0 THEN {} ELSE {label_sequence_ + new - 1})

Reachable(used) ==
  Taken(used) \cup {label_stack_[p] : p \in DOMAIN label_stack_}
  \cup {break_stack_[p] : p \in DOMAIN break_stack_} \cup {exit_label_}

Shifts(kept, fresh, used) ==
  /\ kept \in 0..Len(label_stack_) /\ fresh \in Nat /\ used \in Nat
  /\ fresh # 0 => used = fresh
  /\ Len(label_stack_') = kept + fresh
  /\ \A p \in 1..kept : label_stack_'[p] = label_stack_[p]
  /\ \A k \in 1..fresh : label_stack_'[kept + k] = label_sequence_ + k - 1
  /\ label_sequence_' = label_sequence_ + used

BreaksMove(breaks) ==
  /\ breaks = 0 => UNCHANGED break_stack_
  /\ breaks = 1 => break_stack_' = Append(break_stack_, label_sequence_' - 1)
  /\ breaks = -1 => break_stack_ # <<>> /\ break_stack_' = Front(break_stack_)

Moved(kept, old, fresh, new, used, breaks) ==
  /\ status' = status /\ UNCHANGED <<exit_label_, current_definition_>>
  /\ Shifts(kept, fresh, used) /\ BreaksMove(breaks)
  /\ \E referred \in SUBSET Reachable(used) :
       Writes(NewlyPlaced(kept, old, fresh, new, used), referred)

(***************************************************************************)
(* What a handler does to the names.  Errors are only added and symbols    *)
(* only entered; main is announced when code is written outside a          *)
(* definition, and then, unless that is an error, "main" was a new name.   *)
(***************************************************************************)
Kept(table) ==
  \A s \in Symbols : /\ symtable_[s] # "none" => table[s] = symtable_[s]
                     /\ s \notin Names => table[s] \in {symtable_[s], "anonword"}

Named ==
  /\ error_count_' \in Nat /\ error_count_' >= error_count_
  /\ Kept(symtable_')
  /\ implicit_main_ => implicit_main_'
  /\ current_definition_ = NoSymbol /\ optable_' # optable_ => implicit_main_'
  /\ implicit_main_' /\ ~implicit_main_ =>
       /\ current_definition_ = NoSymbol
       /\ error_count_' = 0 => symtable_[Main] = "none" /\ symtable_'[Main] = "word"

(* Main is announced for code alone. *)
ForCode == implicit_main_' /\ ~implicit_main_ => optable_' # optable_

(* A handler may leave the stacks alone, and place a label of its own. *)
Straightly == \E used \in {0, 1} : Moved(Len(label_stack_), 0, 0, 0, used, 0)

(* A handler that emits code writes the labels that code carries. *)
LEMMA CodeWritten ==
  ASSUME NEW code, NEW P, NEW R, Carries(code, P, R), Emit(code)
  PROVE  Writes(P, R)
  BY DEF Emit, Writes

(* A handler that leaves the opcode table alone writes no label. *)
LEMMA NothingWritten ==
  ASSUME TypeOK, UNCHANGED optable_
  PROVE  Writes({}, {})
  <1>1. optable_' = optable_ \o <<>>
    BY EmptySeq DEF TypeOK, CodeOK
  <1>2. Carries(<<>>, {}, {})
    BY EmptySeq DEF Carries, Placed, Referred, Once, Inner
  <1>3. QED
    BY <1>1, <1>2 DEF Writes

(* A handler that leaves the stacks of labels alone, takes at most one label, and
   places just that one, is a straight step. *)
LEMMA StraightMoved ==
  ASSUME TypeOK, NEW used \in {0, 1}, NEW R, R \subseteq Reachable(used),
         status' = status,
         UNCHANGED <<exit_label_, current_definition_, label_stack_, break_stack_>>,
         label_sequence_' = label_sequence_ + used, Writes(Taken(used), R)
  PROVE  Straightly
  <1> DEFINE n == Len(label_stack_)
  <1>1. n \in Nat /\ label_sequence_ \in Nat
    BY LenProperties DEF TypeOK, FlowOK
  <1>2. Above(n, 0) = {}
    BY <1>1 DEF Above
  <1>3. NewlyPlaced(n, 0, 0, 0, used) = Taken(used)
    BY <1>2 DEF NewlyPlaced
  <1>4. Shifts(n, 0, used)
    BY <1>1 DEF Shifts
  <1>5. BreaksMove(0)
    BY DEF BreaksMove
  <1> HIDE DEF n
  <1>6. \E referred \in SUBSET Reachable(used) : Writes(NewlyPlaced(n, 0, 0, 0, used), referred)
    BY <1>3
  <1>7. Moved(n, 0, 0, 0, used, 0)
    BY <1>4, <1>5, <1>6 DEF Moved
  <1>8. QED
    BY <1>7 DEF Straightly, n

(* Code without labels, written without a change of the flow of control, is a straight
   step. *)
LEMMA CompileStraight ==
  ASSUME TypeOK, NEW code, NEW R, R \subseteq Reachable(0), Carries(code, {}, R), Emit(code),
         status' = status, UNCHANGED <<flow, current_definition_>>
  PROVE  Straightly
  <1>1. Taken(0) = {} /\ label_sequence_' = label_sequence_ + 0
    BY DEF Taken, TypeOK, FlowOK, flow
  <1>2. Writes(Taken(0), R)
    BY <1>1, CodeWritten
  <1>3. QED
    BY <1>1, <1>2, StraightMoved DEF flow

(* A handler that changes neither the flow of control nor the code is a straight step.
   *)
LEMMA QuietStraight ==
  ASSUME TypeOK, status' = status, UNCHANGED <<flow, optable_, current_definition_>>
  PROVE  Straightly
  <1>1. Taken(0) = {} /\ label_sequence_' = label_sequence_ + 0
    BY DEF Taken, TypeOK, FlowOK, flow
  <1>2. Writes(Taken(0), {})
    BY <1>1, NothingWritten
  <1>3. QED
    BY <1>1, <1>2, StraightMoved DEF flow

(* A parse error is a straight step: the parser reports it and goes on. *)
LEMMA RejectStraight ==
  ASSUME TypeOK, Handler(Reject)
  PROVE  Straightly
  BY QuietStraight DEF Handler, Asserting, Reject


(* Declarations, and handlers that only write opcodes, announce main when  *)
(* they should.                                                            *)
LEMMA DetectMainNamed ==
  ASSUME ParserAssumption, TypeOK, NEW table \in [Symbols -> SymbolKinds], Kept(table),
         NEW errors \in Nat, detect_main(table, current_definition_, errors)
  PROVE  Named
  <1>1. Main \in Symbols
    BY DEF ParserAssumption, Symbols
  <1>2. MainErrors(table, current_definition_) \in Nat
    BY DEF MainErrors
  <1>3. error_count_' \in Nat /\ error_count_' >= error_count_
    BY <1>2 DEF detect_main, TypeOK, SymbolsOK
  <1>4. Kept(symtable_')
    BY <1>1 DEF detect_main, WithMain, Kept
  <1>5. implicit_main_' = (implicit_main_ \/ current_definition_ = NoSymbol)
    BY DEF detect_main
  <1>6. ASSUME NeedsMain(current_definition_), error_count_' = 0
        PROVE  symtable_[Main] = "none" /\ symtable_'[Main] = "word"
    <2>1. table[Main] = "none"
      BY <1>2, <1>6 DEF detect_main, MainErrors, TypeOK, SymbolsOK
    <2>2. symtable_'[Main] = "word"
      BY <1>1, <1>6, <2>1 DEF detect_main, WithMain
    <2>3. QED
      BY <1>1, <2>1, <2>2 DEF Kept
  <1>7. QED
    BY <1>3, <1>4, <1>5, <1>6 DEF Named, NeedsMain

(* detect_main, as every handler that emits code calls it, declares MAIN and nothing
   else. *)
LEMMA CompileNamed ==
  ASSUME ParserAssumption, TypeOK, DetectMain
  PROVE  Named
  <1>1. symtable_ \in [Symbols -> SymbolKinds] /\ Kept(symtable_) /\ 0 \in Nat
    BY DEF TypeOK, SymbolsOK, Kept
  <1>2. QED
    BY <1>1, DetectMainNamed DEF DetectMain

(* Code that is not empty makes the code longer. *)
LEMMA LongerCode ==
  ASSUME TypeOK, NEW code \in Seq(OpcodeSet(Symbols)), Len(code) > 0, Emit(code)
  PROVE  optable_' # optable_
  <1>1. Len(optable_ \o code) = Len(optable_) + Len(code) /\ Len(optable_) \in Nat
    BY Joined DEF TypeOK, CodeOK
  <1>2. QED
    BY <1>1 DEF Emit

(* A handler that emits some code and does nothing else to the flow of control is
   straight, declares nothing but MAIN, and starts MAIN only for the code. *)
LEMMA CompileGood ==
  ASSUME ParserAssumption, TypeOK, NEW code, NEW R, R \subseteq Reachable(0),
         Carries(code, {}, R), Len(code) > 0, Handler(Compile(code))
  PROVE  Straightly /\ Named /\ ForCode
  <1>1. Compile(code) /\ status' = status
    BY DEF Handler, Asserting
  <1>2. Straightly
    BY <1>1, CompileStraight DEF Compile
  <1>3. Named
    BY <1>1, CompileNamed DEF Compile
  <1>4. optable_' # optable_
    BY <1>1, LongerCode DEF Compile, Carries
  <1>5. QED
    BY <1>2, <1>3, <1>4 DEF ForCode

(* A parse error writes no code, declares nothing and starts no MAIN. *)
LEMMA RejectGood ==
  ASSUME TypeOK, Handler(Reject)
  PROVE  Straightly /\ Named /\ ForCode
  <1>1. Reject
    BY DEF Handler, Asserting
  <1>2. QED
    BY <1>1, RejectStraight DEF Reject, parse_error, Named, ForCode, Kept, TypeOK, SymbolsOK

(* VARIABLE, ARRAY, CONSTANT and FCONSTANT write no code and keep every symbol that is
   declared. *)
LEMMA DeclarationGood ==
  ASSUME ParserAssumption, TypeOK, NEW name \in Names
  PROVE  /\ f_definedvariable(name) => Straightly /\ Named /\ ForCode
         /\ \A valid \in BOOLEAN : f_definedarray(name, valid) => Straightly /\ Named /\ ForCode
         /\ f_definedconstant(name) => Straightly /\ Named /\ ForCode
         /\ f_definedfconstant(name) => Straightly /\ Named /\ ForCode
  <1>0. name \in Symbols
    BY DEF Symbols
  <1>1. ASSUME f_definedvariable(name) PROVE Straightly /\ Named /\ ForCode
    <2>1. CASE Defined(name)
      BY <1>1, <2>1, RejectGood DEF f_definedvariable, Handler, Asserting
    <2>2. CASE ~Defined(name)
      <3>1. /\ UNCHANGED <<flow, optable_, current_definition_, implicit_main_, error_count_>>
            /\ status' = status /\ symtable_' = [symtable_ EXCEPT ![name] = "variable"]
        BY <1>1, <2>2 DEF f_definedvariable, Handler, Asserting
      <3>2. Straightly
        BY <3>1, QuietStraight
      <3>3. QED
        BY <2>2, <3>1, <3>2 DEF Named, ForCode, Kept, Defined, TypeOK, SymbolsOK
    <2>3. QED
      BY <2>1, <2>2
  <1>2. ASSUME NEW valid \in BOOLEAN, f_definedarray(name, valid)
        PROVE  Straightly /\ Named /\ ForCode
    BY <1>1, <1>2, RejectGood DEF f_definedarray
  <1>3. ASSUME NEW kind \in SymbolKinds, NEW stack \in {"DATA", "FLOAT"},
               DefinedConstant(name, kind, stack)
        PROVE  Straightly /\ Named /\ ForCode
    <2>1. CASE Defined(name)
      BY <1>3, <2>1, RejectGood DEF DefinedConstant, Handler, Asserting
    <2>2. CASE ~Defined(name)
      <3> DEFINE code  == <<PopOpcode("R0", stack), StoreSymbolIndirectOpcode("R0", name)>>
                 table == [symtable_ EXCEPT ![name] = kind]
      <3>1. /\ detect_main(table, current_definition_, 0) /\ Emit(code)
            /\ UNCHANGED <<flow, current_definition_>> /\ status' = status
        BY <1>3, <2>2 DEF DefinedConstant, Handler, Asserting
      <3>2. table \in [Symbols -> SymbolKinds] /\ Kept(table)
        BY <2>2 DEF TypeOK, SymbolsOK, Kept, Defined
      <3>3. Carries(code, {}, {})
        BY <1>0, MereOpcodes, MereTuples
      <3>4. Len(code) > 0
        OBVIOUS
      <3> HIDE DEF code, table
      <3>5. Named
        BY <3>1, <3>2, DetectMainNamed, 0 \in Nat
      <3>6. Straightly
        BY <3>1, <3>3, CompileStraight
      <3>7. optable_' # optable_
        BY <3>1, <3>3, <3>4, LongerCode DEF Carries
      <3>8. QED
        BY <3>5, <3>6, <3>7 DEF ForCode
    <2>3. QED
      BY <2>1, <2>2
  <1>4. QED
    BY <1>1, <1>2, <1>3 DEF f_definedconstant, f_definedfconstant, SymbolKinds

(* The code of an address, an integer, and a load that is pushed. *)
LEMMA LoadCode ==
  ASSUME ParserAssumption
  PROVE  /\ Carries(AnAddress, {}, {}) /\ Len(AnAddress) > 0
         /\ Carries(AnInteger, {}, {}) /\ Len(AnInteger) > 0
         /\ \A load, stack : Mere(load) /\ stack \in {"DATA", "FLOAT"} =>
              Carries(LoadAndPush(load, stack), {}, {}) /\ Len(LoadAndPush(load, stack)) > 0
  <1>1. ASSUME NEW load, NEW stack, Mere(load), stack \in {"DATA", "FLOAT"}
        PROVE  Carries(LoadAndPush(load, stack), {}, {}) /\ Len(LoadAndPush(load, stack)) > 0
    <2>1. Mere(PushOpcode("R0", stack))
      BY <1>1, MereOpcodes
    <2>2. Carries(<<load, PushOpcode("R0", stack)>>, {}, {})
      BY <1>1, <2>1, MereTuples
    <2>3. QED
      BY <2>2 DEF LoadAndPush
  <1>2. Mere(LoadDataOpcode("R0")) /\ Mere(LoadValueOpcode("R0", 0))
    BY MereOpcodes
  <1>3. QED
    BY <1>1, <1>2 DEF AnAddress, AnInteger

(* A handler that compiles its code if a check of its operand passes, and reports an
   error if not, is straight either way. *)
LEMMA RefusingGood ==
  ASSUME ParserAssumption, TypeOK, NEW code, NEW fits, Carries(code, {}, {}), Len(code) > 0,
         Handler(IF fits THEN Compile(code) ELSE Reject)
  PROVE  Straightly /\ Named /\ ForCode
  <1>1. CASE fits
    <2>1. Handler(Compile(code)) /\ {} \subseteq Reachable(0)
      BY <1>1 DEF Handler, Asserting
    <2>2. QED
      BY <2>1, CompileGood
  <1>2. CASE ~fits
    <2>1. Handler(Reject)
      BY <1>2 DEF Handler, Asserting
    <2>2. QED
      BY <2>1, RejectGood
  <1>3. QED
    BY <1>1, <1>2

(* A handler that branches to the innermost label a loop is left by (LEAVE, ?LEAVE,
   WHILE) is straight: its branch goes to a label of the stack, and outside of loops
   it reports an error. *)
LEMMA BreakGood ==
  ASSUME ParserAssumption, TypeOK, NEW code,
         HaveBreak => Carries(code, {}, {Last(break_stack_)}) /\ Len(code) > 0, Break(code)
  PROVE  Straightly /\ Named /\ ForCode
  <1>1. CASE HaveBreak
    <2>1. Handler(Compile(code))
      BY <1>1 DEF Break, Handler, Asserting
    <2>2. {Last(break_stack_)} \subseteq Reachable(0)
      <3>1. Len(break_stack_) \in DOMAIN break_stack_
        BY <1>1, EmptySeq, LenProperties DEF HaveBreak, TypeOK, FlowOK
      <3>2. QED
        BY <3>1 DEF Last, Reachable
    <2>3. QED
      BY <1>1, <2>1, <2>2, CompileGood
  <1>2. CASE ~HaveBreak
    <2>1. Handler(Reject)
      BY <1>2 DEF Break, Handler, Asserting
    <2>2. QED
      BY <2>1, RejectGood
  <1>3. QED
    BY <1>1, <1>2

(* A tuple joins what it lists. *)
LEMMA TupleJoin ==
  ASSUME NEW S, NEW a \in S, NEW b \in S
  PROVE  <<a>> \o <<b>> = <<a, b>>
  <1>1. /\ <<a>> \in Seq(S) /\ <<b>> \in Seq(S) /\ <<a, b>> \in Seq(S)
        /\ Len(<<a>>) = 1 /\ Len(<<b>>) = 1 /\ Len(<<a, b>>) = 2
        /\ <<a>>[1] = a /\ <<b>>[1] = b /\ <<a, b>>[1] = a /\ <<a, b>>[2] = b
    OBVIOUS
  <1> DEFINE s == <<a>>
             t == <<b>>
             st == <<a, b>>
  <1> HIDE DEF s, t, st
  <1>2. /\ s \o t \in Seq(S) /\ Len(s \o t) = 2
        /\ (s \o t)[1] = a /\ (s \o t)[2] = b
    BY <1>1 DEF s, t
  <1> DEFINE joined == s \o t
  <1>3. joined \in Seq(S) /\ Len(joined) = 2 /\ joined[1] = a /\ joined[2] = b
    BY <1>2
  <1>4. st \in Seq(S) /\ Len(st) = 2 /\ st[1] = a /\ st[2] = b
    BY <1>1 DEF st
  <1> HIDE DEF joined
  <1>5. Len(joined) = Len(st) /\ \A i \in 1..Len(joined) : joined[i] = st[i]
    BY <1>3, <1>4
  <1>6. joined = st
    BY <1>3, <1>4, <1>5, SeqEqual
  <1>7. QED
    BY <1>6 DEF s, t, st, joined

(* A branch that pops a flag first. *)
LEMMA PopAndBranch ==
  ASSUME ParserAssumption, NEW o, NEW l, Branches(o, l)
  PROVE  Carries(<<PopOpcode("R0", "DATA"), o>>, {}, {l})
  <1>1. Carries(<<PopOpcode("R0", "DATA")>>, {}, {})
    BY MereOpcodes, MereTuples
  <1>2. Carries(<<o>>, {}, {l})
    BY BranchCode
  <1>3. Carries(<<PopOpcode("R0", "DATA")>> \o <<o>>, {} \cup {}, {} \cup {l})
    BY <1>1, <1>2, JoinedCode
  <1>4. <<PopOpcode("R0", "DATA")>> \o <<o>> = <<PopOpcode("R0", "DATA"), o>>
    <2>1. PopOpcode("R0", "DATA") \in OpcodeSet(Symbols) /\ o \in OpcodeSet(Symbols)
      BY OpcodesTyped DEF Branches
    <2>2. QED
      BY <2>1, TupleJoin
  <1>5. {} \cup {} = {} /\ {} \cup {l} = {l}
    OBVIOUS
  <1>6. QED
    BY <1>3, <1>4, <1>5

(* EXIT, the literals, RECURSE and the ways out of a loop are straight. *)
LEMMA LiteralGood ==
  ASSUME ParserAssumption, TypeOK
  PROVE  /\ f_exit => Straightly /\ Named /\ ForCode
         /\ f_string_literal => Straightly /\ Named /\ ForCode
         /\ f_char_literal => Straightly /\ Named /\ ForCode
         /\ \A fits \in BOOLEAN : f_cstring(fits) => Straightly /\ Named /\ ForCode
         /\ \A fits \in BOOLEAN : f_integer_literal(fits) => Straightly /\ Named /\ ForCode
         /\ \A fits \in BOOLEAN : f_float_literal(fits) => Straightly /\ Named /\ ForCode
         /\ f_recurse => Straightly /\ Named /\ ForCode
         /\ f_leave => Straightly /\ Named /\ ForCode
         /\ f_query_leave => Straightly /\ Named /\ ForCode
         /\ f_while => Straightly /\ Named /\ ForCode
  <1>0. {} \subseteq Reachable(0)
    OBVIOUS
  <1>1. ASSUME f_exit PROVE Straightly /\ Named /\ ForCode
    <2>1. Carries(<<JumpOpcode(exit_label_)>>, {}, {exit_label_})
      BY BranchOpcodes, BranchCode DEF TypeOK, FlowOK
    <2>2. {exit_label_} \subseteq Reachable(0) /\ Len(<<JumpOpcode(exit_label_)>>) > 0
      BY DEF Reachable
    <2>3. QED
      BY <1>1, <2>1, <2>2, CompileGood DEF f_exit
  <1>2. ASSUME f_string_literal PROVE Straightly /\ Named /\ ForCode
    <2> DEFINE code == AnAddress \o AnInteger
    <2>1. Carries(code, {} \cup {}, {} \cup {})
      BY LoadCode, JoinedCode
    <2>2. Len(code) > 0
      <3>1. Len(code) = Len(AnAddress) + Len(AnInteger)
        BY LoadCode, Joined DEF Carries
      <3>2. Len(AnAddress) \in Nat /\ Len(AnInteger) \in Nat
        BY LoadCode, LenProperties DEF Carries
      <3>3. QED
        BY <3>1, <3>2, LoadCode
    <2>3. Handler(Compile(code))
      BY <1>2 DEF f_string_literal
    <2>4. {} \cup {} = {}
      OBVIOUS
    <2> HIDE DEF code
    <2>5. QED
      BY <1>0, <2>1, <2>2, <2>3, <2>4, CompileGood
  <1>3. ASSUME f_char_literal PROVE Straightly /\ Named /\ ForCode
    BY <1>0, <1>3, LoadCode, CompileGood DEF f_char_literal
  <1>4. \A fits \in BOOLEAN : f_cstring(fits) => Straightly /\ Named /\ ForCode
    BY LoadCode, RefusingGood DEF f_cstring
  <1>5. \A fits \in BOOLEAN : f_integer_literal(fits) => Straightly /\ Named /\ ForCode
    BY LoadCode, RefusingGood DEF f_integer_literal
  <1>6. \A fits \in BOOLEAN : f_float_literal(fits) => Straightly /\ Named /\ ForCode
    <2>1. Mere(LoadValueOpcode("R0", 0))
      BY MereOpcodes
    <2>2. /\ Carries(LoadAndPush(LoadValueOpcode("R0", 0), "FLOAT"), {}, {})
          /\ Len(LoadAndPush(LoadValueOpcode("R0", 0), "FLOAT")) > 0
      BY <2>1, LoadCode
    <2>3. QED
      BY <2>2, RefusingGood DEF f_float_literal
  <1>7. ASSUME f_recurse PROVE Straightly /\ Named /\ ForCode
    <2> DEFINE code == <<CallOpcode(current_definition_)>>
    <2>1. Carries(code, {}, {}) /\ Len(code) > 0
      BY MereOpcodes, MereTuples DEF TypeOK, CodeOK
    <2>2. Handler(IF current_definition_ # NoSymbol THEN Compile(code) ELSE Reject)
      BY <1>7 DEF f_recurse, Handler, Asserting
    <2> HIDE DEF code
    <2>3. QED
      BY <2>1, <2>2, RefusingGood
  <1>8. HaveBreak => Last(break_stack_) \in Nat
    BY FrontTyped DEF HaveBreak, TypeOK, FlowOK
  <1>9. ASSUME f_leave PROVE Straightly /\ Named /\ ForCode
    <2> DEFINE code == <<JumpOpcode(Last(break_stack_))>>
    <2>1. HaveBreak => Carries(code, {}, {Last(break_stack_)}) /\ Len(code) > 0
      BY <1>8, BranchOpcodes, BranchCode
    <2>2. Break(code)
      BY <1>9 DEF f_leave
    <2> HIDE DEF code
    <2>3. QED
      BY <2>1, <2>2, BreakGood
  <1>10. ASSUME f_query_leave PROVE Straightly /\ Named /\ ForCode
    <2> DEFINE code == <<PopOpcode("R0", "DATA"), JumpNonZeroOpcode("R0", Last(break_stack_))>>
    <2>1. HaveBreak => Carries(code, {}, {Last(break_stack_)}) /\ Len(code) > 0
      BY <1>8, BranchOpcodes, PopAndBranch
    <2>2. Break(code)
      BY <1>10 DEF f_query_leave
    <2> HIDE DEF code
    <2>3. QED
      BY <2>1, <2>2, BreakGood
  <1>11. ASSUME f_while PROVE Straightly /\ Named /\ ForCode
    <2> DEFINE code == <<PopOpcode("R0", "DATA"), JumpZeroOpcode("R0", Last(break_stack_))>>
    <2>1. HaveBreak => Carries(code, {}, {Last(break_stack_)}) /\ Len(code) > 0
      BY <1>8, BranchOpcodes, PopAndBranch
    <2>2. Break(code)
      BY <1>11 DEF f_while
    <2> HIDE DEF code
    <2>3. QED
      BY <2>1, <2>2, BreakGood
  <1>12. QED
    BY <1>1, <1>2, <1>3, <1>4, <1>5, <1>6, <1>7, <1>9, <1>10, <1>11

(* Joined code is not empty if its end is not. *)
LEMMA JoinedLength ==
  ASSUME NEW s, NEW P, NEW R, Carries(s, P, R), NEW t, NEW P2, NEW R2, Carries(t, P2, R2),
         Len(t) > 0
  PROVE  Len(s \o t) > 0
  <1>1. Len(s \o t) = Len(s) + Len(t) /\ Len(s) \in Nat /\ Len(t) \in Nat
    BY Joined, LenProperties DEF Carries
  <1>2. QED
    BY <1>1

(* Code that uses a word declares it external if it is unknown, and is otherwise like
   other code. *)
LEMMA UseWordGood ==
  ASSUME ParserAssumption, TypeOK, NEW name \in Names, NEW code,
         Carries(code, {}, {}), Len(code) > 0,
         symtable_' = WithExternal(WithMain(symtable_, current_definition_), name),
         error_count_' = error_count_ + MainErrors(symtable_, current_definition_),
         implicit_main_' = (implicit_main_ \/ current_definition_ = NoSymbol),
         Emit(code), UNCHANGED <<flow, current_definition_>>, status' = status
  PROVE  Straightly /\ Named /\ ForCode
  <1>1. Main \in Symbols /\ name \in Symbols
    BY DEF ParserAssumption, Symbols
  <1>2. Straightly
    <2>1. {} \subseteq Reachable(0)
      OBVIOUS
    <2>2. QED
      BY <2>1, CompileStraight
  <1>3. error_count_' \in Nat /\ error_count_' >= error_count_
    BY DEF MainErrors, TypeOK, SymbolsOK
  <1> DEFINE table == WithMain(symtable_, current_definition_)
  <1>4. table \in [Symbols -> SymbolKinds] /\ Kept(table)
    BY <1>1, ParserAssumption DEF WithMain, Kept, TypeOK, SymbolsOK, SymbolKinds
  <1>5. NeedsMain(current_definition_) /\ error_count_' = 0 =>
          symtable_[Main] = "none" /\ table[Main] = "word"
    BY <1>1 DEF MainErrors, WithMain, TypeOK, SymbolsOK
  <1> HIDE DEF table
  <1>6. symtable_' = WithExternal(table, name)
    BY DEF table
  <1>7. \A s \in Symbols : table[s] # "none" \/ s \notin Names => symtable_'[s] = table[s]
    BY <1>1, <1>4, <1>6 DEF WithExternal
  <1>8. Kept(symtable_')
    BY <1>4, <1>7 DEF Kept
  <1>9. NeedsMain(current_definition_) /\ error_count_' = 0 =>
          symtable_[Main] = "none" /\ symtable_'[Main] = "word"
    BY <1>1, <1>5, <1>7
  <1>10. Named
    BY <1>3, <1>8, <1>9 DEF Named, NeedsMain
  <1>11. optable_' # optable_
    BY LongerCode DEF Carries
  <1>12. QED
    BY <1>2, <1>10, <1>11 DEF ForCode

(* The uses of a word, of the address of an object and of the strings are straight. *)
LEMMA WordGood ==
  ASSUME ParserAssumption, TypeOK
  PROVE  /\ \A name \in Names : f_word(name) => Straightly /\ Named /\ ForCode
         /\ \A name \in Names : f_object_address(name) => Straightly /\ Named /\ ForCode
         /\ f_pstring => Straightly /\ Named /\ ForCode
         /\ f_astring => Straightly /\ Named /\ ForCode
  <1>1. ASSUME NEW name \in Names, NEW kind
        PROVE  Carries(WordCode(name, kind), {}, {}) /\ Len(WordCode(name, kind)) > 0
    <2>1. /\ Mere(LoadSymbolOpcode("R0", name)) /\ Mere(LoadSymbolIndirectOpcode("R0", name))
          /\ Mere(CallOpcode(name))
      BY MereOpcodes DEF Symbols
    <2>2. Carries(<<CallOpcode(name)>>, {}, {}) /\ Len(<<CallOpcode(name)>>) > 0
      BY <2>1, MereTuples
    <2>3. QED
      BY <2>1, <2>2, LoadCode DEF WordCode
  <1>2. ASSUME NEW name \in Names, f_word(name) PROVE Straightly /\ Named /\ ForCode
    <2> DEFINE table == WithExternal(WithMain(symtable_, current_definition_), name)
               code  == WordCode(name, table[name])
    <2>1. /\ symtable_' = table
          /\ error_count_' = error_count_ + MainErrors(symtable_, current_definition_)
          /\ implicit_main_' = (implicit_main_ \/ current_definition_ = NoSymbol)
          /\ Emit(code) /\ status' = status /\ UNCHANGED <<flow, current_definition_>>
      BY <1>2 DEF f_word, UseWord, Handler, Asserting
    <2>2. Carries(code, {}, {}) /\ Len(code) > 0
      BY <1>1
    <2> HIDE DEF code
    <2>3. QED
      BY <2>1, <2>2, UseWordGood
  <1>3. ASSUME NEW name \in Names, f_object_address(name) PROVE Straightly /\ Named /\ ForCode
    <2> DEFINE code == LoadAndPush(LoadSymbolOpcode("R0", name), "DATA")
    <2>1. /\ symtable_' = WithExternal(WithMain(symtable_, current_definition_), name)
          /\ error_count_' = error_count_ + MainErrors(symtable_, current_definition_)
          /\ implicit_main_' = (implicit_main_ \/ current_definition_ = NoSymbol)
          /\ Emit(code) /\ status' = status /\ UNCHANGED <<flow, current_definition_>>
      BY <1>3 DEF f_object_address, UseWord, Handler, Asserting
    <2>2. Mere(LoadSymbolOpcode("R0", name))
      BY MereOpcodes DEF Symbols
    <2>3. Carries(code, {}, {}) /\ Len(code) > 0
      BY <2>2, LoadCode
    <2> HIDE DEF code
    <2>4. QED
      BY <2>1, <2>3, UseWordGood
  <1>4. ASSUME NEW name \in Names, NEW code, NEW P, NEW R, Carries(code, P, R), Len(code) > 0,
               Emit(code),
               detect_main(WithExternal(symtable_, name), current_definition_,
                           IF Library(name) = NoSymbol THEN 1 ELSE 0)
        PROVE  Named /\ ForCode
    <2>1. /\ WithExternal(symtable_, name) \in [Symbols -> SymbolKinds]
          /\ Kept(WithExternal(symtable_, name))
      BY DEF WithExternal, Symbols, TypeOK, SymbolsOK, SymbolKinds, Kept
    <2>2. (IF Library(name) = NoSymbol THEN 1 ELSE 0) \in Nat
      OBVIOUS
    <2>3. Named
      BY <1>4, <2>1, <2>2, DetectMainNamed
    <2>4. optable_' # optable_
      BY <1>4, LongerCode DEF Carries
    <2>5. QED
      BY <2>3, <2>4 DEF ForCode
  <1>5. ASSUME NEW name \in Names PROVE Mere(CallOpcode(Library(name)))
    <2>1. Library(name) \in Symbols \cup {NoSymbol}
      BY DEF Library, Symbols
    <2>2. QED
      BY <2>1, MereOpcodes
  <1>6. TypeWord \in Names /\ AbortWord \in Names
    BY DEF ParserAssumption
  <1>7. Carries(AnAddress \o AnInteger, {}, {})
    <2>1. {} \cap {} = {} /\ {} \cup {} = {}
      OBVIOUS
    <2>2. Carries(AnAddress \o AnInteger, {} \cup {}, {} \cup {})
      BY <2>1, LoadCode, JoinedCode
    <2>3. QED
      BY <2>1, <2>2
  <1>8. ASSUME f_pstring PROVE Straightly /\ Named /\ ForCode
    <2> DEFINE call == <<CallOpcode(Library(TypeWord))>>
               load == AnAddress \o AnInteger
    <2>1. /\ detect_main(WithExternal(symtable_, TypeWord), current_definition_,
                         IF Library(TypeWord) = NoSymbol THEN 1 ELSE 0)
          /\ Emit(load \o call) /\ status' = status /\ UNCHANGED <<flow, current_definition_>>
      BY <1>8 DEF f_pstring, CompileCall, Handler, Asserting
    <2>2. Carries(call, {}, {}) /\ Len(call) > 0
      BY <1>5, <1>6, MereTuples
    <2> HIDE DEF call, load
    <2>3. Carries(load, {}, {})
      BY <1>7 DEF load
    <2>4. {} \cap {} = {} /\ {} \cup {} = {} /\ {} \subseteq Reachable(0)
      OBVIOUS
    <2>5. Carries(load \o call, {} \cup {}, {} \cup {}) /\ Len(load \o call) > 0
      BY <2>2, <2>3, <2>4, JoinedCode, JoinedLength
    <2>6. QED
      BY <1>4, <1>6, <2>1, <2>4, <2>5, CompileStraight
  <1>9. ASSUME f_astring PROVE Straightly /\ Named /\ ForCode
    <2> DEFINE test  == <<PopOpcode("R0", "DATA"), JumpZeroOpcode("R0", label_sequence_)>>
               call  == CallOpcode(Library(AbortWord))
               label == LabelOpcode(label_sequence_)
               l     == label_sequence_
    <2>1. /\ detect_main(WithExternal(symtable_, AbortWord), current_definition_,
                         IF Library(AbortWord) = NoSymbol THEN 1 ELSE 0)
          /\ Emit(test \o AnAddress \o AnInteger \o <<call, label>>)
          /\ label_sequence_' = label_sequence_ + 1 /\ status' = status
          /\ UNCHANGED <<exit_label_, label_stack_, break_stack_, current_definition_>>
      BY <1>9 DEF f_astring, CompileCall, Handler, Asserting
    <2>2. l \in Nat
      BY DEF TypeOK, FlowOK
    <2>3. Carries(test, {}, {l})
      BY <2>2, BranchOpcodes, PopAndBranch
    <2>4. Carries(<<call>>, {}, {}) /\ call \in OpcodeSet(Symbols)
      BY <1>5, <1>6, MereTuples DEF Mere
    <2>5. Carries(<<label>>, {l}, {}) /\ label \in OpcodeSet(Symbols) /\ Len(<<label>>) > 0
      BY <2>2, LabelCode, OpcodesTyped
    <2> HIDE DEF test, call, label, l
    <2>6. /\ {} \cap {} = {} /\ {} \cap {l} = {} /\ {} \cup {} = {} /\ {} \cup {l} = {l}
          /\ {l} \cup {} = {l}
      OBVIOUS
    <2>7. Carries(<<call, label>>, {} \cup {l}, {} \cup {})
      <3>1. Carries(<<call>> \o <<label>>, {} \cup {l}, {} \cup {})
        BY <2>4, <2>5, <2>6, JoinedCode
      <3>2. <<call>> \o <<label>> = <<call, label>>
        BY <2>4, <2>5, TupleJoin
      <3>3. QED
        BY <3>1, <3>2
    <2>8. Carries(test \o AnAddress, {} \cup {}, {l} \cup {})
      BY <2>3, <2>6, LoadCode, JoinedCode
    <2>9. Carries(test \o AnAddress \o AnInteger, {} \cup {}, {l} \cup {})
      BY <2>6, <2>8, LoadCode, JoinedCode
    <2>10. Carries(test \o AnAddress \o AnInteger \o <<call, label>>, {} \cup {l}, {l} \cup {})
      BY <2>6, <2>7, <2>9, JoinedCode
    <2>11. Len(test \o AnAddress \o AnInteger \o <<call, label>>) > 0
      BY <2>7, <2>9, JoinedLength
    <2>12. Taken(1) = {l} /\ {l} \subseteq Reachable(1)
      BY <2>2 DEF Taken, Reachable, l
    <2>13. Writes({l}, {l})
      BY <2>1, <2>6, <2>10, CodeWritten
    <2>14. QED
      BY <1>4, <1>6, <2>1, <2>10, <2>11, <2>12, <2>13, StraightMoved
  <1>10. QED
    BY <1>2, <1>3, <1>8, <1>9

-----------------------------------------------------------------------------
(* Handlers that open a construct, and those that end one. *)

(* The labels of the label stack increase, and were drawn already. *)
Increasing ==
  /\ \A p, q \in DOMAIN label_stack_ : p < q => label_stack_[p] < label_stack_[q]
  /\ \A p \in DOMAIN label_stack_ : label_stack_[p] < label_sequence_

(* The code of a structure declares nothing but MAIN, and starts MAIN only for that
   code. *)
LEMMA StructureNamed ==
  ASSUME ParserAssumption, TypeOK, NEW code, NEW P, NEW R, Carries(code, P, R), Structure(code)
  PROVE  Named /\ (Len(code) > 0 => ForCode)
  <1>1. Named
    BY CompileNamed DEF Structure
  <1>2. Len(code) > 0 => optable_' # optable_
    BY LongerCode DEF Structure, Carries
  <1>3. QED
    BY <1>1, <1>2 DEF ForCode

(* A handler that pushes the labels of a structure, and perhaps the label it is left
   by, moves the stacks as the words that open a structure do. *)
LEMMA OpenMoved ==
  ASSUME TypeOK, NEW count \in {1, 2, 3}, NEW new \in 0..count, NEW breaks \in {0, 1},
         NEW code, NEW R, R \subseteq Taken(count),
         Carries(code, IF new = 0 THEN {} ELSE {label_sequence_ + new - 1}, R),
         PushLabels(count), Structure(code), status' = status,
         breaks = 0 => UNCHANGED break_stack_, breaks = 1 => PushBreak(count)
  PROVE  Moved(Len(label_stack_), 0, count, new, count, breaks)
  <1> DEFINE n == Len(label_stack_)
             fresh == [i \in 1..count |-> label_sequence_ + i - 1]
  <1>1. /\ n \in Nat /\ label_sequence_ \in Nat /\ count \in Nat /\ DOMAIN label_stack_ = 1..n
        /\ label_stack_ \in Seq(Nat)
    BY LenProperties DEF TypeOK, FlowOK
  <1>2. fresh \in Seq(Nat) /\ Len(fresh) = count /\ DOMAIN fresh = 1..count
    BY <1>1
  <1>3. label_stack_' = label_stack_ \o fresh /\ label_sequence_' = label_sequence_ + count
    BY DEF PushLabels
  <1>4. \A k \in 1..count : fresh[k] = label_sequence_ + k - 1
    OBVIOUS
  <1> HIDE DEF fresh
  <1>5. /\ Len(label_stack_') = n + count
        /\ \A p \in 1..n : label_stack_'[p] = label_stack_[p]
        /\ \A k \in 1..count : label_stack_'[n + k] = label_sequence_ + k - 1
    BY <1>1, <1>2, <1>3, <1>4, Joined
  <1>6. Shifts(n, count, count)
    BY <1>1, <1>3, <1>5 DEF Shifts
  <1>7. Above(n, 0) = {}
    <2>1. ((n + 1)..n) \ {n + 0} = {}
      BY <1>1
    <2>2. Above(n, 0) = {label_stack_[p] : p \in ((n + 1)..n) \ {n + 0}}
      BY DEF Above
    <2>3. QED
      BY <2>1, <2>2
  <1>8. NewlyPlaced(n, 0, count, new, count) = IF new = 0 THEN {} ELSE {label_sequence_ + new - 1}
    BY <1>7 DEF NewlyPlaced
  <1>9. Writes(NewlyPlaced(n, 0, count, new, count), R)
    BY <1>8, CodeWritten DEF Structure
  <1>10. BreaksMove(breaks)
    BY <1>1, <1>3 DEF BreaksMove, PushBreak
  <1>11. R \subseteq Reachable(count)
    BY DEF Reachable
  <1> HIDE DEF n
  <1>12. \E referred \in SUBSET Reachable(count) :
           Writes(NewlyPlaced(n, 0, count, new, count), referred)
    BY <1>9, <1>11
  <1>13. Moved(n, 0, count, new, count, breaks)
    BY <1>6, <1>10, <1>12 DEF Moved, Structure
  <1>14. QED
    BY <1>13 DEF n

(* A handler that pops the labels of a structure, and perhaps the label it is left by,
   moves the stacks as the words that close a structure do. *)
LEMMA CloseMoved ==
  ASSUME TypeOK, NEW count \in {1, 2, 3}, NEW old, NEW used \in {0, 1}, NEW breaks \in {0, -1},
         NEW code, NEW R, R \subseteq Reachable(used),
         Carries(code, Above(Len(label_stack_) - count, old) \cup Taken(used), R),
         HaveLabels(count), PopLabels(count), label_sequence_' = label_sequence_ + used,
         Structure(code), status' = status,
         breaks = 0 => UNCHANGED break_stack_,
         breaks = -1 => HaveBreak /\ break_stack_' = Front(break_stack_)
  PROVE  Moved(Len(label_stack_) - count, old, 0, 0, used, breaks)
  <1> DEFINE n == Len(label_stack_) - count
  <1>1. n \in 0..Len(label_stack_) /\ label_stack_ \in Seq(Nat)
    BY LenProperties DEF HaveLabels, TypeOK, FlowOK
  <1>2. label_stack_' = SubSeq(label_stack_, 1, n)
    BY DEF PopLabels
  <1>3. Len(label_stack_') = n /\ \A p \in 1..n : label_stack_'[p] = label_stack_[p]
    BY <1>1, <1>2
  <1>4. Shifts(n, 0, used)
    BY <1>1, <1>3 DEF Shifts
  <1>5. NewlyPlaced(n, old, 0, 0, used) = Above(n, old) \cup Taken(used)
    BY DEF NewlyPlaced
  <1>6. Writes(NewlyPlaced(n, old, 0, 0, used), R)
    BY <1>5, CodeWritten DEF Structure
  <1>7. BreaksMove(breaks)
    BY DEF BreaksMove, HaveBreak
  <1> HIDE DEF n
  <1>8. \E referred \in SUBSET Reachable(used) :
          Writes(NewlyPlaced(n, old, 0, 0, used), referred)
    BY <1>6
  <1>9. Moved(n, old, 0, 0, used, breaks)
    BY <1>4, <1>7, <1>8 DEF Moved, Structure
  <1>10. QED
    BY <1>9 DEF n

(* The labels that the end of a construct takes off and places. *)
LEMMA LabelsAbove ==
  ASSUME TypeOK
  PROVE  /\ HaveLabels(1) => /\ Above(Len(label_stack_) - 1, 0) = {LabelUnder(0)}
                             /\ LabelUnder(0) \in Nat /\ LabelUnder(0) \in Reachable(0)
         /\ HaveLabels(2) => /\ Above(Len(label_stack_) - 2, 1) = {LabelUnder(0)}
                             /\ LabelUnder(0) \in Nat /\ LabelUnder(0) \in Reachable(0)
                             /\ LabelUnder(1) \in Nat /\ LabelUnder(1) \in Reachable(0)
         /\ HaveLabels(3) => /\ Above(Len(label_stack_) - 3, 2) = {LabelUnder(0), LabelUnder(2)}
                             /\ LabelUnder(0) \in Nat /\ LabelUnder(0) \in Reachable(0)
                             /\ LabelUnder(1) \in Nat /\ LabelUnder(1) \in Reachable(0)
                             /\ LabelUnder(2) \in Nat /\ LabelUnder(2) \in Reachable(0)
                             /\ Increasing => /\ LabelUnder(0) # LabelUnder(2)
                                              /\ LabelUnder(0) # label_sequence_
                                              /\ LabelUnder(2) # label_sequence_
         /\ Taken(0) = {} /\ Taken(1) = {label_sequence_}
         /\ Reachable(0) \subseteq Reachable(1) /\ label_sequence_ \in Reachable(1)
  <1> DEFINE n == Len(label_stack_)
  <1>1. /\ n \in Nat /\ DOMAIN label_stack_ = 1..n /\ label_sequence_ \in Nat
        /\ \A p \in 1..n : label_stack_[p] \in Nat
    BY LenProperties DEF TypeOK, FlowOK
  <1> HIDE DEF n
  <1>2. \A d \in 0..2 : LabelUnder(d) = label_stack_[n - d]
    BY DEF LabelUnder, n
  <1>3. \A d \in 0..2 : n >= d + 1 => LabelUnder(d) \in Nat /\ LabelUnder(d) \in Reachable(0)
    <2>1. ASSUME NEW d \in 0..2, n >= d + 1
          PROVE  LabelUnder(d) \in Nat /\ LabelUnder(d) \in Reachable(0)
      <3>1. n - d \in 1..n
        BY <1>1, <2>1
      <3>2. label_stack_[n - d] \in Nat /\ label_stack_[n - d] \in Reachable(0)
        BY <1>1, <3>1 DEF Reachable
      <3>3. QED
        BY <1>2, <3>2
    <2>2. QED
      BY <2>1
  <1>4. n >= 1 => Above(n - 1, 0) = {LabelUnder(0)}
    <2>1. n >= 1 => ((n - 1 + 1)..n) \ {n - 1 + 0} = {n}
      BY <1>1
    <2>2. Above(n - 1, 0) = {label_stack_[p] : p \in ((n - 1 + 1)..n) \ {n - 1 + 0}}
      BY DEF Above, n
    <2>3. LabelUnder(0) = label_stack_[n]
      BY <1>1, <1>2
    <2>4. QED
      BY <2>1, <2>2, <2>3
  <1>5. n >= 2 => Above(n - 2, 1) = {LabelUnder(0)}
    <2>1. n >= 2 => ((n - 2 + 1)..n) \ {n - 2 + 1} = {n}
      BY <1>1
    <2>2. Above(n - 2, 1) = {label_stack_[p] : p \in ((n - 2 + 1)..n) \ {n - 2 + 1}}
      BY DEF Above, n
    <2>3. LabelUnder(0) = label_stack_[n]
      BY <1>1, <1>2
    <2>4. QED
      BY <2>1, <2>2, <2>3
  <1>6. n >= 3 => Above(n - 3, 2) = {LabelUnder(0), LabelUnder(2)}
    <2>1. n >= 3 => ((n - 3 + 1)..n) \ {n - 3 + 2} = {n, n - 2}
      BY <1>1
    <2>2. Above(n - 3, 2) = {label_stack_[p] : p \in ((n - 3 + 1)..n) \ {n - 3 + 2}}
      BY DEF Above, n
    <2>3. LabelUnder(0) = label_stack_[n] /\ LabelUnder(2) = label_stack_[n - 2]
      BY <1>1, <1>2
    <2>4. QED
      BY <2>1, <2>2, <2>3
  <1>7. n >= 3 /\ Increasing => /\ LabelUnder(0) # LabelUnder(2)
                                /\ LabelUnder(0) # label_sequence_
                                /\ LabelUnder(2) # label_sequence_
    BY <1>1, <1>2, SMTT(30) DEF Increasing
  <1>8. Taken(0) = {} /\ Taken(1) = {label_sequence_}
    BY <1>1 DEF Taken
  <1>9. Reachable(0) \subseteq Reachable(1) /\ label_sequence_ \in Reachable(1)
    BY <1>8 DEF Reachable
  <1>10. QED
    BY <1>1, <1>3, <1>4, <1>5, <1>6, <1>7, <1>8, <1>9 DEF HaveLabels, n

(* What tuples carry follows from what their opcodes do, one by one. *)
LEMMA TupleCode ==
  ASSUME NEW a, NEW P, NEW R, Carries(<<a>>, P, R),
         NEW b, NEW P2, NEW R2, Carries(<<b>>, P2, R2), P \cap P2 = {},
         NEW c, NEW P3, NEW R3, Carries(<<c>>, P3, R3), (P \cup P2) \cap P3 = {},
         NEW d, NEW P4, NEW R4, Carries(<<d>>, P4, R4), (P \cup P2 \cup P3) \cap P4 = {}
  PROVE  /\ Carries(<<a, b>>, P \cup P2, R \cup R2)
         /\ Carries(<<a, b, c>>, P \cup P2 \cup P3, R \cup R2 \cup R3)
         /\ Carries(<<a, b, c, d>>, P \cup P2 \cup P3 \cup P4, R \cup R2 \cup R3 \cup R4)
  <1> DEFINE S == OpcodeSet(Symbols)
  <1>1. a \in S /\ b \in S /\ c \in S /\ d \in S
    <2>1. /\ <<a>> \in Seq(S) /\ <<b>> \in Seq(S) /\ <<c>> \in Seq(S) /\ <<d>> \in Seq(S)
      BY DEF Carries
    <2> HIDE DEF S
    <2>2. QED
      BY <2>1
  <1> HIDE DEF S
  <1>2. <<a>> \o <<b>> = <<a, b>>
    BY <1>1, TupleJoin
  <1>3. ASSUME NEW s \in Seq(S), NEW t \in Seq(S), NEW o \in S, Len(t) = Len(s) + 1,
               \A i \in 1..Len(s) : t[i] = s[i], t[Len(s) + 1] = o
        PROVE  s \o <<o>> = t
    <2>1. /\ s \o <<o>> \in Seq(S) /\ Len(s \o <<o>>) = Len(s) + 1 /\ Len(s) \in Nat
          /\ \A i \in 1..Len(s) : (s \o <<o>>)[i] = s[i]
          /\ (s \o <<o>>)[Len(s) + 1] = o
      OBVIOUS
    <2> DEFINE joined == s \o <<o>>
    <2> HIDE DEF joined
    <2>2. \A i \in 1..Len(joined) : joined[i] = t[i]
      BY <1>3, <2>1 DEF joined
    <2>3. joined \in Seq(S) /\ Len(joined) = Len(t)
      BY <1>3, <2>1 DEF joined
    <2>4. joined = t
      BY <2>2, <2>3, SeqEqual
    <2>5. QED
      BY <2>4 DEF joined
  <1>4. <<a, b>> \o <<c>> = <<a, b, c>>
    <2> DEFINE s == <<a, b>>
               t == <<a, b, c>>
    <2>1. /\ s \in Seq(S) /\ t \in Seq(S) /\ Len(s) = 2 /\ Len(t) = 3
          /\ t[1] = s[1] /\ t[2] = s[2] /\ t[3] = c
      BY <1>1
    <2> HIDE DEF s, t
    <2>2. Len(t) = Len(s) + 1 /\ (\A i \in 1..Len(s) : t[i] = s[i]) /\ t[Len(s) + 1] = c
      BY <2>1
    <2>3. s \o <<c>> = t
      BY <1>1, <1>3, <2>1, <2>2
    <2>4. QED
      BY <2>3 DEF s, t
  <1>5. <<a, b, c>> \o <<d>> = <<a, b, c, d>>
    <2> DEFINE s == <<a, b, c>>
               t == <<a, b, c, d>>
    <2>1. /\ s \in Seq(S) /\ t \in Seq(S) /\ Len(s) = 3 /\ Len(t) = 4
          /\ t[1] = s[1] /\ t[2] = s[2] /\ t[3] = s[3] /\ t[4] = d
      BY <1>1
    <2> HIDE DEF s, t
    <2>2. Len(t) = Len(s) + 1 /\ (\A i \in 1..Len(s) : t[i] = s[i]) /\ t[Len(s) + 1] = d
      BY <2>1
    <2>3. s \o <<d>> = t
      BY <1>1, <1>3, <2>1, <2>2
    <2>4. QED
      BY <2>3 DEF s, t
  <1>6. Carries(<<a, b>>, P \cup P2, R \cup R2)
    <2>1. Carries(<<a>> \o <<b>>, P \cup P2, R \cup R2)
      BY JoinedCode
    <2>2. QED
      BY <1>2, <2>1
  <1>7. Carries(<<a, b, c>>, P \cup P2 \cup P3, R \cup R2 \cup R3)
    <2> DEFINE s == <<a, b>>
    <2> HIDE DEF s
    <2>1. Carries(s, P \cup P2, R \cup R2)
      BY <1>6 DEF s
    <2>2. Carries(s \o <<c>>, P \cup P2 \cup P3, R \cup R2 \cup R3)
      BY <2>1, JoinedCode
    <2>3. QED
      BY <1>4, <2>2 DEF s
  <1>8. Carries(<<a, b, c, d>>, P \cup P2 \cup P3 \cup P4, R \cup R2 \cup R3 \cup R4)
    <2> DEFINE s == <<a, b, c>>
    <2> HIDE DEF s
    <2>1. Carries(s, P \cup P2 \cup P3, R \cup R2 \cup R3)
      BY <1>7 DEF s
    <2>2. Carries(s \o <<d>>, P \cup P2 \cup P3 \cup P4, R \cup R2 \cup R3 \cup R4)
      BY <2>1, JoinedCode
    <2>3. QED
      BY <1>5, <2>2 DEF s
  <1>9. QED
    BY <1>6, <1>7, <1>8

(* Short sequences that end with a label, and the end of a DO loop. *)
LEMMA LabelCodes ==
  ASSUME ParserAssumption, NEW l \in Nat, NEW o, NEW k, Branches(o, k)
  PROVE  /\ Carries(<<o, LabelOpcode(l)>>, {l}, {k})
         /\ \A a : Mere(a) => Carries(<<a, o, LabelOpcode(l)>>, {l}, {k})
         /\ \A a : Mere(a) => Carries(<<LabelOpcode(l), a>>, {l}, {})
         /\ \A a, b : Mere(a) /\ Mere(b) => Carries(<<a, b, LabelOpcode(l)>>, {l}, {})
         /\ \A a, b : Mere(a) /\ Mere(b) => Carries(<<a, b, o>>, {}, {k})
         /\ \A a, b, c : Mere(a) /\ Mere(b) /\ Mere(c) => Carries(<<a, b, c, o>>, {}, {k})
         /\ \A a, b, j : Mere(a) /\ Mere(b) /\ j \in Nat /\ j # l =>
              Carries(<<LabelOpcode(j), a, b, LabelOpcode(l)>>, {j, l}, {})
  <1> DEFINE label == LabelOpcode(l)
  <1>1. Carries(<<label>>, {l}, {}) /\ Carries(<<o>>, {}, {k})
    BY LabelCode, BranchCode
  <1>2. ASSUME NEW a, Mere(a) PROVE Carries(<<a>>, {}, {})
    BY <1>2, MereTuples
  <1> HIDE DEF label
  <1>3. Mere(CallOpcode(NoSymbol))
    BY MereOpcodes
  <1> DEFINE any == CallOpcode(NoSymbol)
  <1>4. Carries(<<any>>, {}, {})
    BY <1>2, <1>3
  <1> HIDE DEF any
  <1>5. /\ \A X : {} \cap X = {} /\ X \cap {} = {} /\ {} \cup X = X /\ X \cup {} = X
    OBVIOUS
  <1>6. Carries(<<o, label>>, {l}, {k})
    <2>1. {} \cap {l} = {} /\ ({} \cup {l}) \cap {} = {} /\ ({} \cup {l} \cup {}) \cap {} = {}
      OBVIOUS
    <2>2. Carries(<<o, label>>, {} \cup {l}, {k} \cup {})
      BY <1>1, <1>4, <2>1, TupleCode
    <2>3. QED
      BY <1>5, <2>2
  <1>7. ASSUME NEW a, Mere(a)
        PROVE  Carries(<<a, o, label>>, {l}, {k}) /\ Carries(<<label, a>>, {l}, {})
    <2>1. Carries(<<a>>, {}, {})
      BY <1>2, <1>7
    <2>2. ({} \cup {}) \cap {l} = {} /\ ({} \cup {} \cup {l}) \cap {} = {}
          /\ ({l} \cup {}) \cap {} = {} /\ ({l} \cup {} \cup {}) \cap {} = {}
      OBVIOUS
    <2>3. Carries(<<a, o, label>>, {} \cup {} \cup {l}, {} \cup {k} \cup {})
      BY <1>1, <1>4, <1>5, <2>1, <2>2, TupleCode
    <2>4. Carries(<<label, a>>, {l} \cup {}, {} \cup {})
      <3>1. {l} \cap {} = {} /\ ({l} \cup {}) \cap {} = {} /\ ({l} \cup {} \cup {}) \cap {} = {}
        OBVIOUS
      <3>2. QED
        BY <1>1, <1>4, <2>1, <3>1, TupleCode, ZenonT(40)
    <2>5. {} \cup {} \cup {l} = {l} /\ {} \cup {k} \cup {} = {k} /\ {l} \cup {} = {l}
          /\ {} \cup {} = {}
      OBVIOUS
    <2>6. QED
      BY <2>3, <2>4, <2>5
  <1>8. ASSUME NEW a, Mere(a), NEW b, Mere(b)
        PROVE  Carries(<<a, b, label>>, {l}, {}) /\ Carries(<<a, b, o>>, {}, {k})
    <2>1. Carries(<<a>>, {}, {}) /\ Carries(<<b>>, {}, {})
      BY <1>2, <1>8
    <2>2. ({} \cup {}) \cap {l} = {} /\ ({} \cup {} \cup {l}) \cap {} = {}
          /\ ({} \cup {}) \cap {} = {} /\ ({} \cup {} \cup {}) \cap {} = {}
      OBVIOUS
    <2>3. Carries(<<a, b, label>>, {} \cup {} \cup {l}, {} \cup {} \cup {})
      BY <1>1, <1>4, <1>5, <2>1, <2>2, TupleCode
    <2>4. Carries(<<a, b, o>>, {} \cup {} \cup {}, {} \cup {} \cup {k})
      BY <1>1, <1>4, <1>5, <2>1, <2>2, TupleCode
    <2>5. {} \cup {} \cup {l} = {l} /\ {} \cup {} \cup {k} = {k} /\ {} \cup {} \cup {} = {}
      OBVIOUS
    <2>6. QED
      BY <2>3, <2>4, <2>5
  <1>9. ASSUME NEW a, Mere(a), NEW b, Mere(b), NEW c, Mere(c)
        PROVE  Carries(<<a, b, c, o>>, {}, {k})
    <2>1. Carries(<<a>>, {}, {}) /\ Carries(<<b>>, {}, {}) /\ Carries(<<c>>, {}, {})
      BY <1>2, <1>9
    <2>2. ({} \cup {}) \cap {} = {} /\ ({} \cup {} \cup {}) \cap {} = {}
      OBVIOUS
    <2>3. Carries(<<a, b, c, o>>, {} \cup {} \cup {} \cup {}, {} \cup {} \cup {} \cup {k})
      BY <1>1, <1>5, <2>1, <2>2, TupleCode
    <2>4. {} \cup {} \cup {} \cup {} = {} /\ {} \cup {} \cup {} \cup {k} = {k}
      OBVIOUS
    <2>5. QED
      BY <2>3, <2>4
  <1>10. ASSUME NEW a, Mere(a), NEW b, Mere(b), NEW j \in Nat, j # l
         PROVE  Carries(<<LabelOpcode(j), a, b, label>>, {j, l}, {})
    <2> DEFINE other == LabelOpcode(j)
    <2>1. Carries(<<a>>, {}, {}) /\ Carries(<<b>>, {}, {}) /\ Carries(<<other>>, {j}, {})
      BY <1>2, <1>10, LabelCode
    <2> HIDE DEF other
    <2>2. ({j} \cup {}) \cap {} = {} /\ ({j} \cup {} \cup {}) \cap {l} = {}
      BY <1>10
    <2>3. Carries(<<other, a, b, label>>, {j} \cup {} \cup {} \cup {l}, {} \cup {} \cup {} \cup {})
      BY <1>1, <1>5, <2>1, <2>2, TupleCode
    <2>4. {j} \cup {} \cup {} \cup {l} = {j, l} /\ {} \cup {} \cup {} \cup {} = {}
      OBVIOUS
    <2>5. QED
      BY <2>3, <2>4 DEF other
  <1>11. QED
    BY <1>6, <1>7, <1>8, <1>9, <1>10 DEF label

(* Handlers that open a construct. *)
LEMMA OpeningMoved ==
  ASSUME ParserAssumption, TypeOK
  PROVE  LET n == Len(label_stack_) IN
         /\ f_if => Moved(n, 0, 1, 0, 1, 0) /\ Named /\ ForCode
         /\ f_of => Moved(n, 0, 1, 0, 1, 0) /\ Named /\ ForCode
         /\ f_do => Moved(n, 0, 3, 2, 3, 1) /\ Named /\ ForCode
         /\ f_query_do => Moved(n, 0, 3, 2, 3, 1) /\ Named /\ ForCode
         /\ f_begin => Moved(n, 0, 2, 1, 2, 1) /\ Named /\ ForCode
         /\ f_case => Moved(n, 0, 1, 0, 1, 1) /\ Named
  <1> DEFINE n == Len(label_stack_)
             l == label_sequence_
             Pop0 == PopOpcode("R0", "DATA")
             Pop1 == PopOpcode("R1", "DATA")
  <1>1. /\ Mere(Pop0) /\ Mere(Pop1) /\ Mere(PushOpcode("R0", "DATA"))
        /\ Mere(PushOpcode("R0", "RETURN")) /\ Mere(PushOpcode("R1", "RETURN"))
    BY MereOpcodes
  <1>2. l \in Nat /\ l + 1 \in Nat /\ l + 1 - 1 = l /\ l + 2 - 1 = l + 1
    BY DEF TypeOK, FlowOK
  <1>3. Taken(1) = {l} /\ {l} \subseteq Taken(2) /\ {l} \subseteq Taken(3)
    BY <1>2 DEF Taken
  <1>4. /\ Branches(JumpZeroOpcode("R0", l), l)
        /\ Branches(JumpNotEqualOpcode("R0", "R1", l), l)
        /\ Branches(JumpEqualOpcode("R0", "R1", l), l)
    BY <1>2, BranchOpcodes
  <1> HIDE DEF n, l, Pop0, Pop1
  <1>5. ASSUME f_if PROVE Moved(n, 0, 1, 0, 1, 0) /\ Named /\ ForCode
    <2> DEFINE code == <<Pop0, JumpZeroOpcode("R0", l)>>
    <2>1. /\ PushLabels(1) /\ UNCHANGED break_stack_ /\ Structure(code) /\ status' = status
      BY <1>5 DEF f_if, Handler, Asserting, l, Pop0
    <2>2. Carries(code, {}, {l}) /\ Len(code) > 0
      BY <1>4, PopAndBranch DEF Pop0
    <2> HIDE DEF code
    <2>3. Moved(n, 0, 1, 0, 1, 0)
      BY <1>3, <2>1, <2>2, OpenMoved DEF n
    <2>4. QED
      BY <2>1, <2>2, <2>3, StructureNamed
  <1>6. ASSUME f_of PROVE Moved(n, 0, 1, 0, 1, 0) /\ Named /\ ForCode
    <2> DEFINE code == <<Pop1, Pop0, PushOpcode("R0", "DATA"), JumpNotEqualOpcode("R0", "R1", l)>>
    <2>1. /\ PushLabels(1) /\ UNCHANGED break_stack_ /\ Structure(code) /\ status' = status
      BY <1>6 DEF f_of, Handler, Asserting, l, Pop0, Pop1
    <2>2. Carries(code, {}, {l}) /\ Len(code) > 0
      <3> DEFINE o == JumpNotEqualOpcode("R0", "R1", l)
      <3>1. Branches(o, l)
        BY <1>4
      <3> HIDE DEF o
      <3>2. \A a, b, c : Mere(a) /\ Mere(b) /\ Mere(c) => Carries(<<a, b, c, o>>, {}, {l})
        BY <1>2, <3>1, LabelCodes
      <3>3. QED
        BY <1>1, <3>2 DEF o
    <2> HIDE DEF code
    <2>3. Moved(n, 0, 1, 0, 1, 0)
      BY <1>3, <2>1, <2>2, OpenMoved DEF n
    <2>4. QED
      BY <2>1, <2>2, <2>3, StructureNamed
  <1>7. ASSUME NEW skip, NEW R, R \subseteq {l}, Carries(skip, {}, R),
               Handler(PushBreak(3) /\ Structure(DoCode(skip)))
        PROVE  Moved(n, 0, 3, 2, 3, 1) /\ Named /\ ForCode
    <2> DEFINE pops  == <<Pop1, Pop0>>
               start == <<PushOpcode("R0", "RETURN"), PushOpcode("R1", "RETURN"),
                          LabelOpcode(l + 1)>>
               code  == pops \o skip \o start
    <2>1. PushBreak(3) /\ Structure(code) /\ status' = status
      BY <1>7 DEF Handler, Asserting, DoCode, l, Pop0, Pop1
    <2>2. Carries(pops, {}, {})
      BY <1>1, MereTuples
    <2>3. Carries(start, {l + 1}, {}) /\ Len(start) > 0
      <3> DEFINE next == l + 1
      <3>1. next \in Nat
        BY <1>2
      <3> HIDE DEF next
      <3>2. \A a, b : Mere(a) /\ Mere(b) => Carries(<<a, b, LabelOpcode(next)>>, {next}, {})
        BY <1>4, <3>1, LabelCodes
      <3>3. QED
        BY <1>1, <3>2 DEF next
    <2> HIDE DEF pops, start
    <2>4. /\ {} \cap {} = {} /\ ({} \cup {}) \cap {l + 1} = {}
          /\ {} \cup {} \cup {l + 1} = {l + 1} /\ {} \cup R \cup {} = R
      OBVIOUS
    <2>5. Carries(pops \o skip, {} \cup {}, {} \cup R)
      BY <1>7, <2>2, <2>4, JoinedCode
    <2>6. Carries(code, {} \cup {} \cup {l + 1}, {} \cup R \cup {})
      BY <2>3, <2>4, <2>5, JoinedCode
    <2>7. Carries(code, {l + 1}, R)
      BY <2>4, <2>6
    <2>8. Len(code) > 0
      BY <2>3, <2>5, JoinedLength
    <2> HIDE DEF code
    <2>9. PushLabels(3) /\ R \subseteq Taken(3)
      BY <1>3, <1>7, <2>1 DEF PushBreak
    <2>10. Carries(code, IF 2 = 0 THEN {} ELSE {label_sequence_ + 2 - 1}, R)
      BY <1>2, <2>7 DEF l
    <2>11. /\ 3 \in {1, 2, 3} /\ 2 \in 0..3 /\ 1 \in {0, 1}
           /\ 1 = 0 => UNCHANGED break_stack_
      OBVIOUS
    <2>12. Moved(n, 0, 3, 2, 3, 1)
      BY <2>1, <2>9, <2>10, <2>11, OpenMoved DEF n
    <2>13. QED
      BY <2>1, <2>7, <2>8, <2>12, StructureNamed
  <1>8. ASSUME f_do PROVE Moved(n, 0, 3, 2, 3, 1) /\ Named /\ ForCode
    <2>1. Carries(<<>>, {}, {})
      BY <1>1, MereTuples
    <2>2. {} \subseteq {l}
      OBVIOUS
    <2>3. QED
      BY <1>7, <1>8, <2>1, <2>2 DEF f_do
  <1>9. ASSUME f_query_do PROVE Moved(n, 0, 3, 2, 3, 1) /\ Named /\ ForCode
    <2>1. Carries(<<JumpEqualOpcode("R0", "R1", l)>>, {}, {l})
      BY <1>4, BranchCode
    <2>2. QED
      BY <1>7, <1>9, <2>1 DEF f_query_do, l
  <1>10. ASSUME f_begin PROVE Moved(n, 0, 2, 1, 2, 1) /\ Named /\ ForCode
    <2> DEFINE code == <<LabelOpcode(l)>>
    <2>1. PushBreak(2) /\ Structure(code) /\ status' = status
      BY <1>10 DEF f_begin, Handler, Asserting, l
    <2>2. Carries(code, {l}, {}) /\ Len(code) > 0
      BY <1>2, LabelCode
    <2> HIDE DEF code
    <2> DEFINE none == {}
    <2>3. /\ PushLabels(2) /\ none \subseteq Taken(2)
          /\ 2 \in {1, 2, 3} /\ 1 \in 0..2 /\ 1 \in {0, 1}
          /\ 1 = 0 => UNCHANGED break_stack_
      BY <2>1 DEF PushBreak
    <2>4. Carries(code, IF 1 = 0 THEN {} ELSE {label_sequence_ + 1 - 1}, none)
      BY <1>2, <2>2 DEF l
    <2> HIDE DEF none
    <2>5. Moved(n, 0, 2, 1, 2, 1)
      BY <2>1, <2>3, <2>4, OpenMoved DEF n
    <2>6. QED
      BY <2>1, <2>2, <2>5, StructureNamed
  <1>11. ASSUME f_case PROVE Moved(n, 0, 1, 0, 1, 1) /\ Named
    <2>1. PushBreak(1) /\ Structure(<<>>) /\ status' = status
      BY <1>11 DEF f_case, Handler, Asserting
    <2>2. Carries(<<>>, {}, {})
      BY <1>1, MereTuples
    <2>3. PushLabels(1) /\ {} \subseteq Taken(1)
      BY <2>1 DEF PushBreak
    <2>4. Moved(n, 0, 1, 0, 1, 1)
      BY <2>1, <2>2, <2>3, OpenMoved DEF n
    <2>5. QED
      BY <2>1, <2>2, <2>4, StructureNamed
  <1>12. QED
    BY <1>5, <1>6, <1>8, <1>9, <1>10, <1>11 DEF n

(* ELSE takes one label off and puts a fresh one in its place. *)
LEMMA ElseMoved ==
  ASSUME ParserAssumption, TypeOK, f_else, status' # "asserted"
  PROVE  /\ HaveLabels(1) /\ Moved(Len(label_stack_) - 1, 0, 1, 0, 1, 0)
         /\ Named /\ ForCode
  <1> DEFINE n == Len(label_stack_)
             l == label_sequence_
             code == <<JumpOpcode(l), LabelOpcode(LabelUnder(0))>>
  <1>1. /\ HaveLabels(1) /\ label_stack_' = Append(Front(label_stack_), l)
        /\ label_sequence_' = l + 1 /\ UNCHANGED break_stack_ /\ Structure(code)
        /\ status' = status
    BY DEF f_else, Asserting
  <1>2. n \in Nat /\ n >= 1 /\ l \in Nat /\ label_stack_ \in Seq(Nat) /\ label_stack_ # <<>>
    BY <1>1, LenProperties, EmptySeq DEF HaveLabels, TypeOK, FlowOK
  <1>3. /\ LabelUnder(0) \in Nat /\ LabelUnder(0) \in Reachable(0)
        /\ Above(n - 1, 0) = {LabelUnder(0)} /\ l \in Reachable(1)
    BY <1>1, LabelsAbove
  <1>4. Carries(code, {LabelUnder(0)}, {l}) /\ Len(code) > 0
    <2> DEFINE o == JumpOpcode(l)
    <2>1. Branches(o, l)
      BY <1>2, BranchOpcodes
    <2> HIDE DEF o
    <2>2. Carries(<<o, LabelOpcode(LabelUnder(0))>>, {LabelUnder(0)}, {l})
      BY <1>3, <2>1, LabelCodes
    <2>3. QED
      BY <2>2 DEF o
  <1> HIDE DEF code
  <1>5. Shifts(n - 1, 1, 1)
    <2> DEFINE front == Front(label_stack_)
    <2>1. front \in Seq(Nat) /\ Len(front) = n - 1 /\ \A i \in 1..(n - 1) : front[i] = label_stack_[i]
      BY <1>2, FrontTyped
    <2> HIDE DEF front
    <2>2. label_stack_' = Append(front, l)
      BY <1>1 DEF front
    <2>3. /\ Len(label_stack_') = n - 1 + 1
          /\ \A i \in 1..(n - 1) : label_stack_'[i] = front[i]
          /\ label_stack_'[n - 1 + 1] = l
      BY <1>2, <2>1, <2>2
    <2>4. \A k \in 1..1 : label_stack_'[n - 1 + k] = l + k - 1
      BY <1>2, <2>3
    <2>5. n - 1 \in 0..n
      BY <1>2
    <2>6. QED
      BY <1>1, <2>1, <2>3, <2>4, <2>5 DEF Shifts
  <1>6. NewlyPlaced(n - 1, 0, 1, 0, 1) = {LabelUnder(0)}
    BY <1>3 DEF NewlyPlaced
  <1>7. Writes(NewlyPlaced(n - 1, 0, 1, 0, 1), {l})
    BY <1>1, <1>4, <1>6, CodeWritten DEF Structure
  <1>8. \E referred \in SUBSET Reachable(1) : Writes(NewlyPlaced(n - 1, 0, 1, 0, 1), referred)
    BY <1>3, <1>7
  <1>9. BreaksMove(0)
    BY <1>1 DEF BreaksMove
  <1>10. Moved(n - 1, 0, 1, 0, 1, 0)
    BY <1>1, <1>5, <1>8, <1>9 DEF Moved, Structure
  <1>11. QED
    BY <1>1, <1>4, <1>10, StructureNamed

(* The code at the end of a DO loop, and a test of +LOOP. *)
LEMMA LoopCodes ==
  ASSUME ParserAssumption, TypeOK, Increasing, HaveLabels(3)
  PROVE  /\ Carries(PushBack, {}, {})
         /\ Carries(EndLoop, {LabelUnder(0), LabelUnder(2)}, {}) /\ Len(EndLoop) > 0
         /\ \A test, k : Branches(test, k) => Carries(PlusLoopTest(test), {}, {k})
  <1>1. /\ Mere(PushOpcode("R0", "RETURN")) /\ Mere(PushOpcode("R1", "RETURN"))
        /\ Mere(PopOpcode("R0", "RETURN")) /\ Mere(SubtractRegisterOpcode("R1", "R0"))
    BY MereOpcodes
  <1>2. Carries(PushBack, {}, {})
    BY <1>1, MereTuples DEF PushBack
  <1>3. Carries(EndLoop, {LabelUnder(0), LabelUnder(2)}, {}) /\ Len(EndLoop) > 0
    <2>1. LabelUnder(0) \in Nat /\ LabelUnder(2) \in Nat /\ LabelUnder(0) # LabelUnder(2)
      BY LabelsAbove
    <2>2. Branches(JumpOpcode(0), 0)
      BY BranchOpcodes
    <2>3. \A a, b : Mere(a) /\ Mere(b) =>
            Carries(<<LabelOpcode(LabelUnder(0)), a, b, LabelOpcode(LabelUnder(2))>>,
                    {LabelUnder(0), LabelUnder(2)}, {})
      BY <2>1, <2>2, LabelCodes
    <2>4. QED
      BY <1>1, <2>3 DEF EndLoop
  <1>4. ASSUME NEW test, NEW k, Branches(test, k)
        PROVE  Carries(PlusLoopTest(test), {}, {k})
    <2> DEFINE pop  == <<PopOpcode("R0", "RETURN")>>
               rest == <<SubtractRegisterOpcode("R1", "R0"), test>>
    <2>1. Carries(pop, {}, {})
      BY <1>1, MereTuples
    <2>2. Carries(rest, {}, {k})
      <3> DEFINE sub == SubtractRegisterOpcode("R1", "R0")
      <3>1. Carries(<<sub>>, {}, {}) /\ sub \in OpcodeSet(Symbols) /\ test \in OpcodeSet(Symbols)
        BY <1>1, <1>4, MereTuples DEF Mere, Branches
      <3>2. Carries(<<test>>, {}, {k})
        BY <1>4, BranchCode
      <3> HIDE DEF sub
      <3>3. {} \cap {} = {} /\ {} \cup {} = {} /\ {} \cup {k} = {k}
        OBVIOUS
      <3>4. Carries(<<sub>> \o <<test>>, {} \cup {}, {} \cup {k})
        BY <3>1, <3>2, <3>3, JoinedCode
      <3>5. <<sub>> \o <<test>> = <<sub, test>>
        BY <3>1, TupleJoin
      <3>6. Carries(<<sub, test>>, {}, {k})
        BY <3>3, <3>4, <3>5
      <3>7. QED
        BY <3>6 DEF sub
    <2> HIDE DEF pop, rest
    <2>3. {} \cap {} = {} /\ {} \cup {} = {} /\ {} \cup {k} = {k}
      OBVIOUS
    <2>4. Carries(pop \o PushBack, {} \cup {}, {} \cup {})
      BY <1>2, <2>1, <2>3, JoinedCode
    <2>5. Carries(pop \o PushBack \o rest, {} \cup {}, {} \cup {k})
      BY <2>2, <2>3, <2>4, JoinedCode
    <2>6. QED
      BY <2>3, <2>5 DEF PlusLoopTest, pop, rest
  <1>5. QED
    BY <1>2, <1>3, <1>4

(* Handlers that end a construct, when their asserts hold. *)
LEMMA ClosingMoved ==
  ASSUME ParserAssumption, TypeOK, Increasing, status' # "asserted"
  PROVE  LET n == Len(label_stack_) IN
         /\ f_then_endif => Moved(n - 1, 0, 0, 0, 0, 0) /\ Named /\ ForCode
         /\ f_endof => Moved(n - 1, 0, 0, 0, 0, 0) /\ Named /\ ForCode
         /\ f_endcase => Moved(n - 1, 0, 0, 0, 0, -1) /\ Named /\ ForCode
         /\ f_until => Moved(n - 2, 1, 0, 0, 0, -1) /\ Named /\ ForCode
         /\ f_repeat_again => Moved(n - 2, 1, 0, 0, 0, -1) /\ Named /\ ForCode
         /\ f_loop => Moved(n - 3, 2, 0, 0, 0, -1) /\ Named /\ ForCode
         /\ f_plus_loop => Moved(n - 3, 2, 0, 0, 1, -1) /\ Named /\ ForCode
  <1> DEFINE n  == Len(label_stack_)
             l  == label_sequence_
             l0 == LabelUnder(0)
             l1 == LabelUnder(1)
             l2 == LabelUnder(2)
             Pop0 == PopOpcode("R0", "DATA")
  <1>1. Mere(Pop0)
    BY MereOpcodes
  <1>2. l \in Nat /\ l + 0 = l
    BY DEF TypeOK, FlowOK
  <1>3. /\ Taken(0) = {} /\ Taken(1) = {l}
        /\ HaveLabels(1) => Above(n - 1, 0) = {l0} /\ l0 \in Nat
        /\ HaveLabels(2) => /\ Above(n - 2, 1) = {l0} /\ l0 \in Nat
                            /\ l1 \in Nat /\ l1 \in Reachable(0)
        /\ HaveLabels(3) => /\ Above(n - 3, 2) = {l0, l2} /\ l0 \in Nat /\ l0 \in Reachable(0)
                            /\ l1 \in Nat /\ l1 \in Reachable(0)
                            /\ l0 # l2 /\ l0 # l /\ l2 # l
        /\ Reachable(0) \subseteq Reachable(1) /\ l \in Reachable(1)
    BY LabelsAbove
  <1>4. HaveBreak => Last(break_stack_) \in Nat /\ Last(break_stack_) \in Reachable(0)
    <2>1. HaveBreak => Last(break_stack_) \in Nat
      BY FrontTyped DEF HaveBreak, TypeOK, FlowOK
    <2>2. HaveBreak => Len(break_stack_) \in DOMAIN break_stack_
      BY EmptySeq, LenProperties DEF HaveBreak, TypeOK, FlowOK
    <2>3. QED
      BY <2>1, <2>2 DEF Last, Reachable
  <1> HIDE DEF n, l, l0, l1, l2, Pop0
  (* With no label of its own, a handler places what it takes off. *)
  <1>5. ASSUME NEW count \in {1, 2, 3}, NEW old, NEW breaks \in {0, -1}, NEW code, NEW R,
               R \subseteq Reachable(0), Carries(code, Above(n - count, old), R), Len(code) > 0,
               HaveLabels(count), PopLabels(count), UNCHANGED label_sequence_,
               Structure(code), status' = status,
               breaks = 0 => UNCHANGED break_stack_,
               breaks = -1 => HaveBreak /\ break_stack_' = Front(break_stack_)
        PROVE  Moved(n - count, old, 0, 0, 0, breaks) /\ Named /\ ForCode
    <2>1. Above(n - count, old) \cup Taken(0) = Above(n - count, old)
      BY <1>3
    <2>2. label_sequence_' = label_sequence_ + 0 /\ 0 \in {0, 1}
      BY <1>2, <1>5 DEF l
    <2>3. Moved(n - count, old, 0, 0, 0, breaks)
      BY <1>5, <2>1, <2>2, CloseMoved DEF n
    <2>4. QED
      BY <1>5, <2>3, StructureNamed
  <1>6. ASSUME f_then_endif PROVE Moved(n - 1, 0, 0, 0, 0, 0) /\ Named /\ ForCode
    <2> DEFINE code == <<LabelOpcode(l0)>>
    <2>1. /\ HaveLabels(1) /\ PopLabels(1) /\ UNCHANGED <<label_sequence_, break_stack_>>
          /\ Structure(code) /\ status' = status
      BY <1>6 DEF f_then_endif, Asserting, l0
    <2>2. Carries(code, {l0}, {}) /\ Len(code) > 0 /\ {} \subseteq Reachable(0)
      BY <1>3, <2>1, LabelCode
    <2> HIDE DEF code
    <2>3. /\ 1 \in {1, 2, 3} /\ 0 \in {0, -1} /\ Carries(code, Above(n - 1, 0), {})
          /\ UNCHANGED label_sequence_
          /\ 0 = 0 => UNCHANGED break_stack_
          /\ 0 = -1 => HaveBreak /\ break_stack_' = Front(break_stack_)
      <3>1. Above(n - 1, 0) = {l0}
        BY <1>3, <2>1
      <3>2. Carries(code, Above(n - 1, 0), {})
        BY <2>2, <3>1
      <3>3. UNCHANGED label_sequence_ /\ UNCHANGED break_stack_
        BY <2>1
      <3>4. QED
        BY <3>2, <3>3
    <2>4. QED
      BY <1>5, <2>1, <2>2, <2>3
  <1>7. ASSUME f_endof PROVE Moved(n - 1, 0, 0, 0, 0, 0) /\ Named /\ ForCode
    <2> DEFINE o    == JumpOpcode(Last(break_stack_))
               code == <<o, LabelOpcode(l0)>>
    <2>1. /\ HaveLabels(1) /\ PopLabels(1) /\ UNCHANGED <<label_sequence_, break_stack_>>
          /\ Structure(code) /\ status' = status /\ HaveBreak
      BY <1>7 DEF f_endof, Asserting, l0
    <2>2. Branches(o, Last(break_stack_)) /\ {Last(break_stack_)} \subseteq Reachable(0)
      BY <1>4, <2>1, BranchOpcodes
    <2> HIDE DEF o
    <2>3. Carries(code, {l0}, {Last(break_stack_)}) /\ Len(code) > 0
      <3>1. l0 \in Nat
        BY <1>3, <2>1
      <3>2. Carries(<<o, LabelOpcode(l0)>>, {l0}, {Last(break_stack_)})
        BY <2>2, <3>1, LabelCodes
      <3>3. QED
        BY <3>2
    <2> HIDE DEF code
    <2>4. /\ 1 \in {1, 2, 3} /\ 0 \in {0, -1}
          /\ Carries(code, Above(n - 1, 0), {Last(break_stack_)})
          /\ UNCHANGED label_sequence_
          /\ 0 = 0 => UNCHANGED break_stack_
          /\ 0 = -1 => HaveBreak /\ break_stack_' = Front(break_stack_)
      <3>1. Above(n - 1, 0) = {l0}
        BY <1>3, <2>1
      <3>2. Carries(code, Above(n - 1, 0), {Last(break_stack_)})
        BY <2>3, <3>1
      <3>3. UNCHANGED label_sequence_ /\ UNCHANGED break_stack_
        BY <2>1
      <3>4. QED
        BY <3>2, <3>3
    <2>5. QED
      BY <1>5, <2>1, <2>2, <2>3, <2>4
  <1>8. ASSUME f_endcase PROVE Moved(n - 1, 0, 0, 0, 0, -1) /\ Named /\ ForCode
    <2> DEFINE code == <<LabelOpcode(l0), Pop0>>
    <2>1. /\ HaveLabels(1) /\ PopBreak(1) /\ Structure(code) /\ status' = status /\ HaveBreak
      BY <1>8 DEF f_endcase, Asserting, l0, Pop0
    <2>2. Carries(code, {l0}, {}) /\ Len(code) > 0 /\ {} \subseteq Reachable(0)
      <3>1. Branches(JumpOpcode(0), 0)
        BY BranchOpcodes
      <3>2. l0 \in Nat
        BY <1>3, <2>1
      <3>3. \A a : Mere(a) => Carries(<<LabelOpcode(l0), a>>, {l0}, {})
        BY <3>1, <3>2, LabelCodes
      <3>4. QED
        BY <1>1, <3>3
    <2> HIDE DEF code
    <2>3. /\ 1 \in {1, 2, 3} /\ -1 \in {0, -1} /\ Carries(code, Above(n - 1, 0), {})
          /\ PopLabels(1) /\ UNCHANGED label_sequence_
          /\ -1 = 0 => UNCHANGED break_stack_
          /\ -1 = -1 => HaveBreak /\ break_stack_' = Front(break_stack_)
      <3>1. Above(n - 1, 0) = {l0}
        BY <1>3, <2>1
      <3>2. Carries(code, Above(n - 1, 0), {})
        BY <2>2, <3>1
      <3>3. /\ PopLabels(1) /\ UNCHANGED label_sequence_
            /\ HaveBreak /\ break_stack_' = Front(break_stack_)
        BY <2>1 DEF PopBreak
      <3>4. QED
        BY <3>2, <3>3
    <2>4. QED
      BY <1>5, <2>1, <2>2, <2>3
  <1>9. ASSUME f_until PROVE Moved(n - 2, 1, 0, 0, 0, -1) /\ Named /\ ForCode
    <2> DEFINE o    == JumpZeroOpcode("R0", l1)
               code == <<Pop0, o, LabelOpcode(l0)>>
    <2>1. /\ HaveLabels(2) /\ PopBreak(2) /\ Structure(code) /\ status' = status /\ HaveBreak
      BY <1>9 DEF f_until, Asserting, l0, l1, Pop0
    <2>2. Branches(o, l1) /\ {l1} \subseteq Reachable(0)
      BY <1>3, <2>1, BranchOpcodes
    <2> HIDE DEF o
    <2>3. Carries(code, {l0}, {l1}) /\ Len(code) > 0
      <3>1. l0 \in Nat
        BY <1>3, <2>1
      <3>2. \A a : Mere(a) => Carries(<<a, o, LabelOpcode(l0)>>, {l0}, {l1})
        BY <2>2, <3>1, LabelCodes
      <3>3. Carries(<<Pop0, o, LabelOpcode(l0)>>, {l0}, {l1})
        BY <1>1, <3>2
      <3>4. QED
        BY <3>3
    <2> HIDE DEF code
    <2>4. /\ 2 \in {1, 2, 3} /\ -1 \in {0, -1} /\ Carries(code, Above(n - 2, 1), {l1})
          /\ PopLabels(2) /\ UNCHANGED label_sequence_
          /\ -1 = 0 => UNCHANGED break_stack_
          /\ -1 = -1 => HaveBreak /\ break_stack_' = Front(break_stack_)
      <3>1. Above(n - 2, 1) = {l0}
        BY <1>3, <2>1
      <3>2. Carries(code, Above(n - 2, 1), {l1})
        BY <2>3, <3>1
      <3>3. /\ PopLabels(2) /\ UNCHANGED label_sequence_
            /\ HaveBreak /\ break_stack_' = Front(break_stack_)
        BY <2>1 DEF PopBreak
      <3>4. QED
        BY <3>2, <3>3
    <2>5. QED
      BY <1>5, <2>1, <2>2, <2>3, <2>4
  <1>10. ASSUME f_repeat_again PROVE Moved(n - 2, 1, 0, 0, 0, -1) /\ Named /\ ForCode
    <2> DEFINE o    == JumpOpcode(l1)
               code == <<o, LabelOpcode(l0)>>
    <2>1. /\ HaveLabels(2) /\ PopBreak(2) /\ Structure(code) /\ status' = status /\ HaveBreak
      BY <1>10 DEF f_repeat_again, Asserting, l0, l1
    <2>2. Branches(o, l1) /\ {l1} \subseteq Reachable(0)
      BY <1>3, <2>1, BranchOpcodes
    <2> HIDE DEF o
    <2>3. Carries(code, {l0}, {l1}) /\ Len(code) > 0
      <3>1. l0 \in Nat
        BY <1>3, <2>1
      <3>2. Carries(<<o, LabelOpcode(l0)>>, {l0}, {l1})
        BY <2>2, <3>1, LabelCodes
      <3>3. QED
        BY <3>2
    <2> HIDE DEF code
    <2>4. /\ 2 \in {1, 2, 3} /\ -1 \in {0, -1} /\ Carries(code, Above(n - 2, 1), {l1})
          /\ PopLabels(2) /\ UNCHANGED label_sequence_
          /\ -1 = 0 => UNCHANGED break_stack_
          /\ -1 = -1 => HaveBreak /\ break_stack_' = Front(break_stack_)
      <3>1. Above(n - 2, 1) = {l0}
        BY <1>3, <2>1
      <3>2. Carries(code, Above(n - 2, 1), {l1})
        BY <2>3, <3>1
      <3>3. /\ PopLabels(2) /\ UNCHANGED label_sequence_
            /\ HaveBreak /\ break_stack_' = Front(break_stack_)
        BY <2>1 DEF PopBreak
      <3>4. QED
        BY <3>2, <3>3
    <2>5. QED
      BY <1>5, <2>1, <2>2, <2>3, <2>4
  <1>11. ASSUME f_loop PROVE Moved(n - 3, 2, 0, 0, 0, -1) /\ Named /\ ForCode
    <2> DEFINE o     == JumpNonZeroOpcode("R1", l1)
               step  == <<PopOpcode("R1", "RETURN"), AddValueOpcode("R1", 1),
                          PopOpcode("R0", "RETURN")>>
               test  == <<SubtractRegisterOpcode("R1", "R0"), o>>
               code  == step \o PushBack \o test \o EndLoop
    <2>1. /\ HaveLabels(3) /\ PopBreak(3) /\ Structure(code) /\ status' = status /\ HaveBreak
      BY <1>11 DEF f_loop, Asserting, l0, l1
    <2>2. Branches(o, l1) /\ {l1} \subseteq Reachable(0)
      BY <1>3, <2>1, BranchOpcodes
    <2>3. Carries(step, {}, {})
      <3>1. /\ Mere(PopOpcode("R1", "RETURN")) /\ Mere(AddValueOpcode("R1", 1))
            /\ Mere(PopOpcode("R0", "RETURN"))
        BY MereOpcodes
      <3>2. QED
        BY <3>1, MereTuples
    <2> HIDE DEF o, step
    <2>4. Carries(test, {}, {l1})
      <3> DEFINE sub == SubtractRegisterOpcode("R1", "R0")
      <3>1. Mere(sub)
        BY MereOpcodes
      <3>2. Carries(<<sub>>, {}, {}) /\ sub \in OpcodeSet(Symbols) /\ o \in OpcodeSet(Symbols)
        BY <2>2, <3>1, MereTuples DEF Mere, Branches
      <3>3. Carries(<<o>>, {}, {l1})
        BY <2>2, BranchCode
      <3> HIDE DEF sub
      <3>4. {} \cap {} = {} /\ {} \cup {} = {} /\ {} \cup {l1} = {l1}
        OBVIOUS
      <3>5. Carries(<<sub>> \o <<o>>, {} \cup {}, {} \cup {l1})
        BY <3>2, <3>3, <3>4, JoinedCode
      <3>6. <<sub>> \o <<o>> = <<sub, o>>
        BY <3>2, TupleJoin
      <3>7. Carries(<<sub, o>>, {}, {l1})
        BY <3>4, <3>5, <3>6
      <3>8. QED
        BY <3>7 DEF sub
    <2> HIDE DEF test
    <2>5. /\ Carries(PushBack, {}, {}) /\ Carries(EndLoop, {l0, l2}, {}) /\ Len(EndLoop) > 0
      BY <2>1, LoopCodes DEF l0, l2
    <2>6. /\ {} \cap {} = {} /\ ({} \cup {}) \cap {} = {} /\ ({} \cup {} \cup {}) \cap {l0, l2} = {}
          /\ {} \cup {} \cup {} \cup {l0, l2} = {l0, l2} /\ {} \cup {} \cup {l1} \cup {} = {l1}
      OBVIOUS
    <2>7. Carries(step \o PushBack, {} \cup {}, {} \cup {})
      BY <2>3, <2>5, <2>6, JoinedCode
    <2>8. Carries(step \o PushBack \o test, {} \cup {} \cup {}, {} \cup {} \cup {l1})
      BY <2>4, <2>6, <2>7, JoinedCode
    <2>9. Carries(code, {} \cup {} \cup {} \cup {l0, l2}, {} \cup {} \cup {l1} \cup {})
      BY <2>5, <2>6, <2>8, JoinedCode
    <2>10. Carries(code, {l0, l2}, {l1}) /\ Len(code) > 0
      BY <2>5, <2>6, <2>8, <2>9, JoinedLength
    <2> HIDE DEF code
    <2>11. /\ 3 \in {1, 2, 3} /\ -1 \in {0, -1} /\ Carries(code, Above(n - 3, 2), {l1})
           /\ PopLabels(3) /\ UNCHANGED label_sequence_
           /\ -1 = 0 => UNCHANGED break_stack_
           /\ -1 = -1 => HaveBreak /\ break_stack_' = Front(break_stack_)
      <3>1. Above(n - 3, 2) = {l0, l2}
        BY <1>3, <2>1
      <3>2. Carries(code, Above(n - 3, 2), {l1})
        BY <2>10, <3>1
      <3>3. /\ PopLabels(3) /\ UNCHANGED label_sequence_
            /\ HaveBreak /\ break_stack_' = Front(break_stack_)
        BY <2>1 DEF PopBreak
      <3>4. QED
        BY <3>2, <3>3
    <2>12. QED
      BY <1>5, <2>1, <2>2, <2>10, <2>11
  <1>12. ASSUME f_plus_loop PROVE Moved(n - 3, 2, 0, 0, 1, -1) /\ Named /\ ForCode
    <2> DEFINE o     == JumpLessZeroOpcode("R0", l)
               up    == JumpLessZeroOpcode("R1", l1)
               down  == JumpGreaterEqualZeroOpcode("R1", l1)
               skip  == JumpOpcode(l0)
               step  == <<Pop0, PopOpcode("R1", "RETURN"), AddRegisterOpcode("R1", "R0"), o>>
               over  == <<skip, LabelOpcode(l)>>
               code  == step \o PlusLoopTest(up) \o over \o PlusLoopTest(down) \o EndLoop
    <2>1. /\ HaveLabels(3) /\ PopLabels(3) /\ break_stack_' = Front(break_stack_)
          /\ label_sequence_' = label_sequence_ + 1
          /\ Structure(code) /\ status' = status /\ HaveBreak
      BY <1>12 DEF f_plus_loop, Asserting, l0, l1, l, Pop0
    <2>2. Branches(o, l) /\ Branches(up, l1) /\ Branches(down, l1) /\ Branches(skip, l0)
      BY <1>2, <1>3, <2>1, BranchOpcodes
    <2> HIDE DEF o, up, down, skip
    <2>3. Carries(step, {}, {l})
      <3>1. \A a, b, c : Mere(a) /\ Mere(b) /\ Mere(c) => Carries(<<a, b, c, o>>, {}, {l})
        BY <1>2, <2>2, LabelCodes
      <3>2. Mere(PopOpcode("R1", "RETURN")) /\ Mere(AddRegisterOpcode("R1", "R0"))
        BY MereOpcodes
      <3>3. QED
        BY <1>1, <3>1, <3>2
    <2>4. Carries(over, {l}, {l0})
      BY <1>2, <2>2, LabelCodes
    <2>5. Carries(PlusLoopTest(up), {}, {l1}) /\ Carries(PlusLoopTest(down), {}, {l1})
      BY <2>1, <2>2, LoopCodes
    <2>6. Carries(EndLoop, {l0, l2}, {}) /\ Len(EndLoop) > 0
      BY <2>1, LoopCodes DEF l0, l2
    <2> DEFINE first == PlusLoopTest(up)
               last  == PlusLoopTest(down)
    <2> HIDE DEF step, over, first, last
    <2>7. Carries(step \o first, {}, {l, l1})
      <3>1. {} \cap {} = {} /\ {} \cup {} = {} /\ {l} \cup {l1} = {l, l1}
        OBVIOUS
      <3>2. Carries(step \o first, {} \cup {}, {l} \cup {l1})
        BY <2>3, <2>5, <3>1, JoinedCode DEF first
      <3>3. QED
        BY <3>1, <3>2
    <2>8. Carries(step \o first \o over, {l}, {l, l1, l0})
      <3>1. {} \cap {l} = {} /\ {} \cup {l} = {l} /\ {l, l1} \cup {l0} = {l, l1, l0}
        OBVIOUS
      <3>2. Carries(step \o first \o over, {} \cup {l}, {l, l1} \cup {l0})
        BY <2>4, <2>7, <3>1, JoinedCode
      <3>3. QED
        BY <3>1, <3>2
    <2>9. Carries(step \o first \o over \o last, {l}, {l, l1, l0})
      <3>1. {l} \cap {} = {} /\ {l} \cup {} = {l} /\ {l, l1, l0} \cup {l1} = {l, l1, l0}
        OBVIOUS
      <3>2. Carries(step \o first \o over \o last, {l} \cup {}, {l, l1, l0} \cup {l1})
        BY <2>5, <2>8, <3>1, JoinedCode DEF last
      <3>3. QED
        BY <3>1, <3>2
    <2>10. Carries(code, {l0, l2} \cup {l}, {l, l1, l0}) /\ Len(code) > 0
      <3>1. {l} \cap {l0, l2} = {}
        BY <1>3, <2>1
      <3>2. {l} \cup {l0, l2} = {l0, l2} \cup {l} /\ {l, l1, l0} \cup {} = {l, l1, l0}
        OBVIOUS
      <3>3. /\ Carries(step \o first \o over \o last \o EndLoop, {l} \cup {l0, l2},
                       {l, l1, l0} \cup {})
            /\ Len(step \o first \o over \o last \o EndLoop) > 0
        BY <2>6, <2>9, <3>1, JoinedCode, JoinedLength
      <3>4. QED
        BY <3>2, <3>3 DEF first, last
    <2>11. /\ 3 \in {1, 2, 3} /\ -1 \in {0, -1} /\ 1 \in {0, 1} /\ Above(n - 3, 2) = {l0, l2}
           /\ -1 = 0 => UNCHANGED break_stack_
           /\ -1 = -1 => HaveBreak /\ break_stack_' = Front(break_stack_)
           /\ {l, l1, l0} \subseteq Reachable(1)
      BY <1>3, <2>1
    <2> HIDE DEF code
    <2>12. Carries(code, Above(Len(label_stack_) - 3, 2) \cup Taken(1), {l, l1, l0})
      BY <1>3, <2>10, <2>11 DEF n
    <2>13. Moved(n - 3, 2, 0, 0, 1, -1)
      <3> DEFINE R == {l, l1, l0}
                 below == -1
      <3>1. 3 \in {1, 2, 3} /\ 1 \in {0, 1} /\ below \in {0, -1} /\ R \subseteq Reachable(1)
        BY <2>11
      <3>2. below = 0 => UNCHANGED break_stack_
        OBVIOUS
      <3>3. below = -1 => HaveBreak /\ break_stack_' = Front(break_stack_)
        BY <2>1
      <3>0. Carries(code, Above(Len(label_stack_) - 3, 2) \cup Taken(1), R)
        BY <2>12
      <3>4. /\ HaveLabels(3) /\ PopLabels(3) /\ label_sequence_' = label_sequence_ + 1
            /\ Structure(code) /\ status' = status
        BY <2>1
      <3> HIDE DEF R, below
      <3>5. Moved(Len(label_stack_) - 3, 2, 0, 0, 1, below)
        BY <3>0, <3>1, <3>2, <3>3, <3>4, CloseMoved
      <3>6. QED
        BY <3>5 DEF n, below
    <2>14. QED
      BY <2>1, <2>10, <2>13, StructureNamed
  <1>13. QED
    BY <1>6, <1>7, <1>8, <1>9, <1>10, <1>11, <1>12 DEF n

-----------------------------------------------------------------------------
(* The invariant. *)

Bodies == {"definition", "noname", "code", "coded"}

(* Which of its labels a construct has placed when it opened; 0 if none. *)
Start(frame) ==
  IF ~frame.active THEN 0
  ELSE IF frame.kind = "do" THEN 2 ELSE IF frame.kind = "begin" THEN 1 ELSE 0

(* The shares of the open constructs lie in the order of nesting, without  *)
(* gaps after the first, and end with the stacks.                          *)
Chained(frames, labels, breaks) ==
  /\ \A i, j \in DOMAIN frames : i < j =>
       /\ LabelsEnd(frames[i]) <= frames[j].labels
       /\ BreaksEnd(frames[i]) <= frames[j].breaks
       /\ j = i + 1 => /\ LabelsEnd(frames[i]) = frames[j].labels
                       /\ BreaksEnd(frames[i]) = frames[j].breaks
  /\ frames # <<>> => /\ LabelsEnd(frames[Len(frames)]) = labels
                      /\ BreaksEnd(frames[Len(frames)]) = breaks

(* Of the labels that open constructs keep only those of Start are placed. *)
Pending(frames, labels, placed) ==
  \A i \in DOMAIN frames : \A p \in (frames[i].labels + 1)..LabelsEnd(frames[i]) :
    labels[p] \in placed => p = frames[i].labels + Start(frames[i])

(* Labels that are placed were drawn. *)
Drawn == \A l \in Placed(optable_) : l < label_sequence_

Labelling ==
  /\ Chained(nest, Len(label_stack_), Len(break_stack_))
  /\ Increasing /\ Drawn /\ Once(optable_)
  /\ Pending(nest, label_stack_, Placed(optable_))

LabelInv == InStep => Labelling

-----------------------------------------------------------------------------
(* One step in terms of nest: the first m constructs stay, at most one     *)
(* that followed them is gone, and at most one follows them now.           *)
Alike(f, g) ==
  /\ g.active = f.active /\ g.labels = f.labels /\ g.breaks = f.breaks
  /\ Labels(g) = Labels(f) /\ Breaks(g) = Breaks(f) /\ Start(g) = Start(f)
  /\ \A kinds \in {Bodies, {"definition", "noname"}, {"code", "coded"}, {"case", "cased"}} :
       g.kind \in kinds <=> f.kind \in kinds

(* How much of the break stack belongs to the constructs that stay. *)
BreaksKept(m) == IF Len(nest) = m THEN Len(break_stack_) ELSE nest[m + 1].breaks

Replaces(m, kept, old, fresh, new, breaks) ==
  /\ m \in Nat /\ Len(nest) \in {m, m + 1} /\ Len(nest') \in {m, m + 1}
  /\ \A i \in 1..m : Alike(nest[i], nest'[i])
  /\ Len(nest) = m => kept = Len(label_stack_)
  /\ Len(nest) = m + 1 => /\ kept + Labels(nest[m + 1]) = Len(label_stack_)
                          /\ old = Start(nest[m + 1])
  /\ Len(nest') = m => fresh = 0
  /\ Len(nest') = m + 1 => LET f == nest'[m + 1] IN
       /\ f.labels = kept /\ Labels(f) = fresh /\ Start(f) = new
       /\ f.breaks = BreaksKept(m)
  /\ breaks = (IF Len(nest') = m THEN 0 ELSE Breaks(nest'[m + 1]))
              - (IF Len(nest) = m THEN 0 ELSE Breaks(nest[m + 1]))

(* What such a step does to the stacks and the labels of the code. *)
Labelled(kept, old, fresh, new, used, breaks) ==
  /\ Shifts(kept, fresh, used) /\ BreaksMove(breaks)
  /\ \E code \in Seq(OpcodeSet(Symbols)) :
       /\ optable_' = optable_ \o code /\ Once(code)
       /\ Placed(code) \subseteq NewlyPlaced(kept, old, fresh, new, used)

(* What a handler of code does to the stacks of labels and to the labels of the code,
   without the labels its branches go to. *)
LEMMA MovedLabelled ==
  ASSUME NEW kept, NEW old, NEW fresh, NEW new, NEW used, NEW breaks,
         Moved(kept, old, fresh, new, used, breaks)
  PROVE  Labelled(kept, old, fresh, new, used, breaks)
  <1>1. PICK referred : Writes(NewlyPlaced(kept, old, fresh, new, used), referred)
    BY DEF Moved
  <1>2. PICK code : /\ optable_' = optable_ \o code
                    /\ Carries(code, NewlyPlaced(kept, old, fresh, new, used), referred)
    BY <1>1 DEF Writes
  <1>3. /\ code \in Seq(OpcodeSet(Symbols)) /\ Once(code)
        /\ Placed(code) \subseteq NewlyPlaced(kept, old, fresh, new, used)
    BY <1>2 DEF Carries
  <1>4. QED
    BY <1>2, <1>3 DEF Moved, Labelled

(* How much of the label stack belongs to the constructs that stay. *)
LEMMA KeptBelow ==
  ASSUME TypeOK, Labelling, NEW m, NEW kept \in Nat, NEW old, NEW fresh, NEW new, NEW breaks,
         Replaces(m, kept, old, fresh, new, breaks)
  PROVE  /\ \A i \in 1..m : i \in DOMAIN nest /\ nest[i] \in FrameSet
         /\ \A i \in 1..m : LabelsEnd(nest[i]) <= kept /\ (i = m => LabelsEnd(nest[i]) = kept)
         /\ Len(nest) = m + 1 =>
              /\ m + 1 \in DOMAIN nest /\ nest[m + 1] \in FrameSet
              /\ nest[m + 1].labels = kept /\ LabelsEnd(nest[m + 1]) = Len(label_stack_)
              /\ BreaksEnd(nest[m + 1]) = Len(break_stack_)
         /\ \A i \in 1..m :
              /\ BreaksEnd(nest[i]) <= BreaksKept(m)
              /\ i = m => BreaksEnd(nest[i]) = BreaksKept(m)
  <1>1. /\ m \in Nat /\ Len(nest) \in {m, m + 1} /\ nest \in Seq(FrameSet)
        /\ DOMAIN nest = 1..Len(nest) /\ Len(label_stack_) \in Nat /\ Len(break_stack_) \in Nat
    BY LenProperties DEF Replaces, TypeOK, FlowOK
  <1>2. \A i \in DOMAIN nest : nest[i] \in FrameSet
    BY <1>1, ElementOfSeq
  <1>3. \A i \in DOMAIN nest :
          /\ nest[i].labels \in Nat /\ nest[i].breaks \in Nat
          /\ Labels(nest[i]) \in Nat /\ Breaks(nest[i]) \in Nat
          /\ LabelsEnd(nest[i]) \in Nat /\ BreaksEnd(nest[i]) \in Nat
          /\ nest[i].labels <= LabelsEnd(nest[i]) /\ nest[i].breaks <= BreaksEnd(nest[i])
          /\ LabelsEnd(nest[i]) = nest[i].labels + Labels(nest[i])
    <2>1. ASSUME NEW f \in FrameSet
          PROVE  /\ f.labels \in Nat /\ f.breaks \in Nat
                 /\ Labels(f) \in Nat /\ Breaks(f) \in Nat
                 /\ LabelsEnd(f) \in Nat /\ BreaksEnd(f) \in Nat
                 /\ f.labels <= LabelsEnd(f) /\ f.breaks <= BreaksEnd(f)
                 /\ LabelsEnd(f) = f.labels + Labels(f)
      <3>1. f.labels \in Nat /\ f.breaks \in Nat
        BY DEF FrameSet
      <3>2. Labels(f) \in Nat /\ Breaks(f) \in Nat
        BY DEF Labels, Breaks
      <3>3. QED
        BY <3>1, <3>2 DEF LabelsEnd, BreaksEnd
    <2>2. QED
      BY <1>2, <2>1
  <1>4. CASE Len(nest) = m
    <2>1. kept = Len(label_stack_)
      BY <1>4 DEF Replaces
    <2>2. nest # <<>> => /\ m \in DOMAIN nest /\ LabelsEnd(nest[m]) = kept
                         /\ BreaksEnd(nest[m]) = Len(break_stack_)
      BY <1>1, <1>4, <2>1, EmptySeq DEF Labelling, Chained
    <2>3. ASSUME NEW i \in 1..m, i # m
          PROVE  LabelsEnd(nest[i]) <= kept /\ BreaksEnd(nest[i]) <= Len(break_stack_)
      <3>1. i \in DOMAIN nest /\ m \in DOMAIN nest /\ i < m /\ nest # <<>>
        BY <1>1, <1>4, <2>3, EmptySeq
      <3>2. LabelsEnd(nest[i]) <= nest[m].labels /\ BreaksEnd(nest[i]) <= nest[m].breaks
        BY <3>1 DEF Labelling, Chained
      <3>3. QED
        BY <1>3, <2>2, <3>1, <3>2
    <2>4. ASSUME NEW i \in 1..m, i = m
          PROVE  LabelsEnd(nest[i]) = kept /\ BreaksEnd(nest[i]) = Len(break_stack_)
      BY <1>1, <1>4, <2>2, <2>4, EmptySeq
    <2>5. Len(nest) # m + 1
      BY <1>1, <1>4
    <2>6. kept \in Nat
      BY <1>1, <2>1
    <2>7. BreaksKept(m) = Len(break_stack_)
      BY <1>4 DEF BreaksKept
    <2>8. QED
      BY <1>1, <1>2, <1>4, <2>3, <2>4, <2>5, <2>6, <2>7
  <1>5. CASE Len(nest) = m + 1
    <2>1. /\ m + 1 \in DOMAIN nest /\ nest # <<>> /\ Len(nest) # m
          /\ LabelsEnd(nest[m + 1]) = Len(label_stack_)
          /\ BreaksEnd(nest[m + 1]) = Len(break_stack_)
      BY <1>1, <1>5, EmptySeq DEF Labelling, Chained
    <2>2. kept + Labels(nest[m + 1]) = Len(label_stack_)
      BY <1>5 DEF Replaces
    <2>3. nest[m + 1].labels = kept
      <3>1. LabelsEnd(nest[m + 1]) = nest[m + 1].labels + Labels(nest[m + 1])
        BY <1>3, <2>1
      <3>2. nest[m + 1].labels \in Nat /\ Labels(nest[m + 1]) \in Nat
        BY <1>3, <2>1
      <3>3. QED
        BY <2>1, <2>2, <3>1, <3>2
    <2>4. ASSUME NEW i \in 1..m
          PROVE  /\ LabelsEnd(nest[i]) <= kept /\ (i = m => LabelsEnd(nest[i]) = kept)
                 /\ BreaksEnd(nest[i]) <= nest[m + 1].breaks
                 /\ i = m => BreaksEnd(nest[i]) = nest[m + 1].breaks
      <3>1. i \in DOMAIN nest /\ i < m + 1
        BY <1>1, <1>5
      <3>2. QED
        BY <2>1, <2>3, <3>1 DEF Labelling, Chained
    <2>5. BreaksKept(m) = nest[m + 1].breaks
      BY <2>1 DEF BreaksKept
    <2>6. QED
      BY <1>1, <1>2, <1>5, <2>1, <2>3, <2>4, <2>5
  <1>6. QED
    BY <1>1, <1>4, <1>5

(* What a frame keeps. *)
LEMMA ShareTyped ==
  ASSUME NEW f \in FrameSet
  PROVE  /\ f.labels \in Nat /\ f.breaks \in Nat
         /\ Labels(f) \in Nat /\ Breaks(f) \in {0, 1} /\ Start(f) \in 0..Labels(f)
         /\ LabelsEnd(f) = f.labels + Labels(f) /\ BreaksEnd(f) = f.breaks + Breaks(f)
  <1>1. f.labels \in Nat /\ f.breaks \in Nat
    BY DEF FrameSet
  <1>2. Labels(f) \in Nat /\ Breaks(f) \in {0, 1} /\ Start(f) \in 0..Labels(f)
    BY DEF Labels, Breaks, Start
  <1>3. QED
    BY <1>1, <1>2 DEF LabelsEnd, BreaksEnd

(* The frames of the next state, and the height of the stacks. *)
LEMMA NextFrames ==
  ASSUME TypeOK, TypeOK', Labelling, NEW m, NEW kept, NEW old, NEW fresh, NEW new, NEW used,
         NEW breaks,
         Replaces(m, kept, old, fresh, new, breaks),
         Labelled(kept, old, fresh, new, used, breaks)
  PROVE  /\ m \in Nat /\ kept \in Nat /\ fresh \in Nat
         /\ DOMAIN nest' = 1..Len(nest') /\ Len(nest') \in {m, m + 1}
         /\ \A i \in DOMAIN nest' : nest'[i] \in FrameSet
         /\ \A i \in 1..m : Alike(nest[i], nest'[i])
         /\ Len(label_stack_') = kept + fresh
         /\ Len(nest') = m + 1 => /\ nest'[m + 1].labels = kept
                                  /\ LabelsEnd(nest'[m + 1]) = kept + fresh
                                  /\ Start(nest'[m + 1]) = new /\ Labels(nest'[m + 1]) = fresh
         /\ Len(nest') = m => fresh = 0
         /\ BreaksKept(m) \in Nat
         /\ Len(nest') = m => Len(break_stack_') = BreaksKept(m)
         /\ Len(nest') = m + 1 => /\ nest'[m + 1].breaks = BreaksKept(m)
                                  /\ BreaksEnd(nest'[m + 1]) = Len(break_stack_')
  <1> DEFINE top == BreaksKept(m)
  <1>1. /\ m \in Nat /\ kept \in 0..Len(label_stack_) /\ fresh \in Nat
        /\ Len(nest) \in {m, m + 1} /\ Len(nest') \in {m, m + 1}
        /\ Len(label_stack_') = kept + fresh
    BY DEF Replaces, Labelled, Shifts
  <1>2. kept \in Nat
    BY <1>1, LenProperties DEF TypeOK, FlowOK
  <1>3. /\ DOMAIN nest' = 1..Len(nest') /\ nest' \in Seq(FrameSet)
        /\ break_stack_ \in Seq(Nat) /\ Len(break_stack_) \in Nat
        /\ break_stack_' \in Seq(Nat) /\ Len(break_stack_') \in Nat
    BY LenProperties DEF TypeOK, FlowOK
  <1>4. \A i \in DOMAIN nest' : nest'[i] \in FrameSet
    BY <1>3, ElementOfSeq
  <1>5. Len(nest') = m + 1 =>
          /\ nest'[m + 1] \in FrameSet
          /\ nest'[m + 1].labels = kept /\ Labels(nest'[m + 1]) = fresh
          /\ Start(nest'[m + 1]) = new /\ nest'[m + 1].breaks = top
    BY <1>1, <1>3, <1>4 DEF Replaces
  <1>6. Len(nest') = m + 1 => LabelsEnd(nest'[m + 1]) = kept + fresh
    BY <1>5, ShareTyped
  <1>7. Len(nest) = m + 1 => /\ nest[m + 1] \in FrameSet
                             /\ BreaksEnd(nest[m + 1]) = Len(break_stack_)
    BY <1>2, KeptBelow
  <1> DEFINE before == IF Len(nest) = m THEN 0 ELSE Breaks(nest[m + 1])
             after  == IF Len(nest') = m THEN 0 ELSE Breaks(nest'[m + 1])
  <1>8. top \in Nat /\ before \in {0, 1} /\ Len(break_stack_) = top + before
    <2>1. CASE Len(nest) = m
      BY <1>3, <2>1 DEF BreaksKept
    <2>2. CASE Len(nest) = m + 1
      <3>1. Len(nest) # m
        BY <1>1, <2>2
      <3>2. /\ top = nest[m + 1].breaks /\ before = Breaks(nest[m + 1])
            /\ nest[m + 1] \in FrameSet /\ BreaksEnd(nest[m + 1]) = Len(break_stack_)
        BY <1>7, <2>2, <3>1 DEF BreaksKept
      <3>3. QED
        BY <3>2, ShareTyped
    <2>3. QED
      BY <1>1, <2>1, <2>2
  <1>9. after \in {0, 1}
    BY <1>1, <1>5, ShareTyped
  <1>10. breaks = after - before
    BY DEF Replaces
  <1> HIDE DEF before, after
  <1>11. Len(break_stack_') = Len(break_stack_) + breaks
    <2>1. BreaksMove(breaks)
      BY DEF Labelled
    <2>2. CASE breaks = 0
      BY <1>3, <2>1, <2>2 DEF BreaksMove
    <2>3. CASE breaks = 1
      <3>1. break_stack_' = Append(break_stack_, label_sequence_' - 1)
        BY <2>1, <2>3 DEF BreaksMove
      <3>2. label_sequence_' - 1 \in Int
        BY DEF TypeOK, FlowOK
      <3>3. Len(break_stack_') = Len(break_stack_) + 1
        BY <1>3, <3>1, <3>2
      <3>4. QED
        BY <2>3, <3>3
    <2>4. CASE breaks = -1
      BY <1>3, <2>1, <2>4, FrontTyped DEF BreaksMove
    <2>5. QED
      BY <1>8, <1>9, <1>10, <2>2, <2>3, <2>4
  <1>12. Len(break_stack_') = top + after
    BY <1>3, <1>8, <1>9, <1>10, <1>11
  <1> HIDE DEF top
  <1>13. Len(nest') = m => Len(break_stack_') = top
    BY <1>8, <1>12 DEF after
  <1>14. Len(nest') = m + 1 => BreaksEnd(nest'[m + 1]) = Len(break_stack_')
    BY <1>1, <1>5, <1>12, ShareTyped DEF after
  <1>15. \A i \in 1..m : Alike(nest[i], nest'[i])
    BY DEF Replaces
  <1>16. Len(nest') = m => fresh = 0
    BY DEF Replaces
  <1>17. QED
    BY <1>1, <1>2, <1>3, <1>4, <1>5, <1>6, <1>8, <1>13, <1>14, <1>15, <1>16 DEF top

(* The constructs that stay, and the one that opens, are chained again. *)
LEMMA ChainedNext ==
  ASSUME TypeOK, TypeOK', Labelling, NEW m, NEW kept, NEW old, NEW fresh, NEW new, NEW used,
         NEW breaks,
         Replaces(m, kept, old, fresh, new, breaks),
         Labelled(kept, old, fresh, new, used, breaks)
  PROVE  Chained(nest, Len(label_stack_), Len(break_stack_))'
  <1> DEFINE top == BreaksKept(m)
  <1>1. /\ m \in Nat /\ kept \in Nat /\ fresh \in Nat /\ top \in Nat
        /\ DOMAIN nest' = 1..Len(nest') /\ Len(nest') \in {m, m + 1}
        /\ \A i \in DOMAIN nest' : nest'[i] \in FrameSet
        /\ \A i \in 1..m : Alike(nest[i], nest'[i])
        /\ Len(label_stack_') = kept + fresh
        /\ Len(nest') = m + 1 => /\ nest'[m + 1].labels = kept
                                 /\ LabelsEnd(nest'[m + 1]) = kept + fresh
                                 /\ nest'[m + 1].breaks = top
                                 /\ BreaksEnd(nest'[m + 1]) = Len(break_stack_')
        /\ Len(nest') = m => fresh = 0 /\ Len(break_stack_') = top
    BY NextFrames
  <1>2. /\ \A i \in 1..m : i \in DOMAIN nest /\ nest[i] \in FrameSet
        /\ \A i \in 1..m : /\ LabelsEnd(nest[i]) <= kept /\ (i = m => LabelsEnd(nest[i]) = kept)
                           /\ BreaksEnd(nest[i]) <= top /\ (i = m => BreaksEnd(nest[i]) = top)
    BY <1>1, KeptBelow
  <1> HIDE DEF top
  <1>3. \A i \in 1..m : /\ nest'[i].labels = nest[i].labels /\ nest'[i].breaks = nest[i].breaks
                        /\ LabelsEnd(nest'[i]) = LabelsEnd(nest[i])
                        /\ BreaksEnd(nest'[i]) = BreaksEnd(nest[i])
    BY <1>1 DEF Alike, LabelsEnd, BreaksEnd
  <1>4. ASSUME NEW i \in DOMAIN nest', NEW j \in DOMAIN nest', i < j
        PROVE  /\ LabelsEnd(nest'[i]) <= nest'[j].labels
               /\ BreaksEnd(nest'[i]) <= nest'[j].breaks
               /\ j = i + 1 => /\ LabelsEnd(nest'[i]) = nest'[j].labels
                               /\ BreaksEnd(nest'[i]) = nest'[j].breaks
    <2>0. Len(nest') \in {m, m + 1} /\ i \in 1..Len(nest') /\ j \in 1..Len(nest') /\ m \in Nat
      BY <1>1, <1>4
    <2>1. i \in 1..m
      BY <1>4, <2>0
    <2>2. CASE j \in 1..m
      <3>1. /\ LabelsEnd(nest[i]) <= nest[j].labels
            /\ BreaksEnd(nest[i]) <= nest[j].breaks
            /\ j = i + 1 => /\ LabelsEnd(nest[i]) = nest[j].labels
                            /\ BreaksEnd(nest[i]) = nest[j].breaks
        BY <1>2, <1>4, <2>1, <2>2 DEF Labelling, Chained
      <3>2. QED
        BY <1>3, <2>1, <2>2, <3>1
    <2>3. CASE j \notin 1..m
      <3>1. j = m + 1 /\ Len(nest') = m + 1 /\ (j = i + 1 => i = m)
        BY <1>4, <2>0, <2>1, <2>3
      <3>2. QED
        BY <1>1, <1>2, <1>3, <2>1, <3>1
    <2>4. QED
      BY <2>2, <2>3
  <1>5. ASSUME nest' # <<>>
        PROVE  /\ LabelsEnd(nest'[Len(nest')]) = Len(label_stack_')
               /\ BreaksEnd(nest'[Len(nest')]) = Len(break_stack_')
    <2>1. CASE Len(nest') = m + 1
      BY <1>1, <2>1
    <2>2. CASE Len(nest') = m
      <3>1. m \in 1..m
        <4>1. Len(nest') # 0
          BY <1>5, EmptySeq DEF TypeOK
        <4>2. QED
          BY <1>1, <2>2, <4>1
      <3>2. LabelsEnd(nest'[m]) = kept /\ BreaksEnd(nest'[m]) = top
        BY <1>2, <1>3, <3>1
      <3>3. fresh = 0 /\ Len(break_stack_') = top
        BY <1>1, <2>2
      <3>4. QED
        BY <1>1, <2>2, <3>2, <3>3
    <2>3. QED
      BY <1>1, <2>1, <2>2
  <1>6. QED
    BY <1>4, <1>5 DEF Chained

(* A label that a step places was on the stack above what stays, where no  *)
(* label is placed yet, or is drawn in the step.                           *)
LEMMA NewLabels ==
  ASSUME TypeOK, TypeOK', Labelling, NEW m, NEW kept, NEW old, NEW fresh, NEW new, NEW used,
         NEW breaks,
         Replaces(m, kept, old, fresh, new, breaks),
         Labelled(kept, old, fresh, new, used, breaks),
         NEW l \in NewlyPlaced(kept, old, fresh, new, used)
  PROVE  \/ \E p \in DOMAIN label_stack_ : p > kept /\ l = label_stack_[p] /\ l \notin Placed(optable_)
         \/ l \in label_sequence_..(label_sequence_' - 1)
  <1>1. /\ m \in Nat /\ kept \in Nat /\ fresh \in Nat /\ Len(nest') \in {m, m + 1}
        /\ DOMAIN nest' = 1..Len(nest') /\ \A i \in DOMAIN nest' : nest'[i] \in FrameSet
        /\ Len(nest') = m => fresh = 0
        /\ Len(nest') = m + 1 => Start(nest'[m + 1]) = new /\ Labels(nest'[m + 1]) = fresh
    BY NextFrames
  <1>2. /\ label_sequence_ \in Nat /\ label_sequence_' \in Nat /\ used \in Nat
        /\ label_sequence_' = label_sequence_ + used /\ (fresh # 0 => used = fresh)
    BY DEF TypeOK, FlowOK, Labelled, Shifts
  <1>3. CASE l \in Above(kept, old)
    <2>1. PICK p \in (kept + 1)..Len(label_stack_) : p # kept + old /\ l = label_stack_[p]
      BY <1>3 DEF Above
    <2>2. DOMAIN label_stack_ = 1..Len(label_stack_)
      BY LenProperties DEF TypeOK, FlowOK
    <2>3. p \in 1..Len(label_stack_) /\ p > kept /\ kept # Len(label_stack_)
      <3>1. kept \in Nat /\ Len(label_stack_) \in Nat
        BY <1>1, LenProperties DEF TypeOK, FlowOK
      <3>2. QED
        BY <2>1, <3>1
    <2>4. Len(nest) = m + 1
      <3>1. Len(nest) = m => kept = Len(label_stack_)
        BY DEF Replaces
      <3>2. Len(nest) \in {m, m + 1}
        BY DEF Replaces
      <3>3. QED
        BY <2>3, <3>1, <3>2
    <2>5. /\ m + 1 \in DOMAIN nest /\ nest[m + 1].labels = kept
          /\ LabelsEnd(nest[m + 1]) = Len(label_stack_)
      BY <1>1, <2>4, KeptBelow
    <2>6. old = Start(nest[m + 1])
      BY <2>4 DEF Replaces
    <2>7. label_stack_[p] \in Placed(optable_) => p = kept + Start(nest[m + 1])
      BY <2>1, <2>5 DEF Labelling, Pending
    <2>8. QED
      BY <2>1, <2>2, <2>3, <2>6, <2>7
  <1>4. CASE l \notin Above(kept, old) /\ fresh = 0
    <2>1. l \in Taken(used)
      BY <1>4 DEF NewlyPlaced
    <2>2. QED
      BY <1>2, <2>1 DEF Taken
  <1>5. CASE l \notin Above(kept, old) /\ fresh # 0
    <2>1. new # 0 /\ l = label_sequence_ + new - 1
      BY <1>5 DEF NewlyPlaced
    <2>2. Len(nest') = m + 1
      BY <1>1, <1>5
    <2>3. m + 1 \in 1..(m + 1)
      <3>1. m \in Nat
        BY <1>1
      <3>2. QED
        BY <3>1
    <2>4. new \in 0..fresh
      BY <1>1, <2>2, <2>3, ShareTyped
    <2>5. fresh \in Nat /\ label_sequence_ \in Nat /\ label_sequence_' = label_sequence_ + fresh
      BY <1>1, <1>2, <1>5
    <2>6. label_sequence_ + new - 1 \in label_sequence_..(label_sequence_ + fresh - 1)
      BY <2>1, <2>4, <2>5
    <2>7. QED
      BY <2>1, <2>5, <2>6
  <1>6. QED
    BY <1>3, <1>4, <1>5

(* The label stack keeps increasing. *)
LEMMA IncreasingNext ==
  ASSUME TypeOK, TypeOK', Increasing, NEW kept, NEW fresh, NEW used, Shifts(kept, fresh, used)
  PROVE  Increasing'
  <1>1. /\ Len(label_stack_) \in Nat /\ DOMAIN label_stack_ = 1..Len(label_stack_)
        /\ DOMAIN label_stack_' = 1..Len(label_stack_') /\ label_sequence_ \in Nat
        /\ label_sequence_' \in Nat
        /\ label_stack_ \in Seq(Nat)
    BY LenProperties DEF TypeOK, FlowOK
  <1>2. /\ kept \in 0..Len(label_stack_) /\ fresh \in Nat /\ used \in Nat
        /\ fresh # 0 => used = fresh
        /\ Len(label_stack_') = kept + fresh
        /\ \A p \in 1..kept : label_stack_'[p] = label_stack_[p]
        /\ \A k \in 1..fresh : label_stack_'[kept + k] = label_sequence_ + k - 1
        /\ label_sequence_' = label_sequence_ + used
    BY DEF Shifts
  <1>3. \A p \in 1..kept : /\ p \in DOMAIN label_stack_ /\ label_stack_[p] \in Nat
                           /\ label_stack_'[p] = label_stack_[p]
                           /\ label_stack_[p] < label_sequence_
    <2>1. \A p \in DOMAIN label_stack_ : label_stack_[p] \in Nat
      BY <1>1, ElementOfSeq
    <2>2. 1..kept \subseteq 1..Len(label_stack_)
      BY <1>1, <1>2
    <2>3. QED
      BY <1>1, <1>2, <2>1, <2>2 DEF Increasing
  <1>4. ASSUME NEW p \in DOMAIN label_stack_', p \notin 1..kept
        PROVE  p > kept /\ p - kept \in 1..fresh
               /\ label_stack_'[p] = label_sequence_ + (p - kept) - 1
    <2>1. p \in 1..(kept + fresh) /\ p \notin 1..kept /\ kept \in Nat /\ fresh \in Nat
      <3>1. kept \in Nat
        BY <1>1, <1>2
      <3>2. DOMAIN label_stack_' = 1..(kept + fresh)
        BY <1>1, <1>2
      <3>3. QED
        BY <1>2, <1>4, <3>1, <3>2
    <2>2. p - kept \in 1..fresh /\ p = kept + (p - kept) /\ p > kept
      BY <2>1
    <2>3. QED
      BY <1>2, <2>2
  <1>5. ASSUME NEW p \in DOMAIN label_stack_' PROVE label_stack_'[p] < label_sequence_'
    <2>1. CASE p \in 1..kept
      BY <1>1, <1>2, <1>3, <2>1
    <2>2. CASE p \notin 1..kept
      <3>1. /\ p - kept \in 1..fresh
            /\ label_stack_'[p] = label_sequence_ + (p - kept) - 1
        BY <1>4, <2>2
      <3>2. /\ fresh \in Nat /\ label_sequence_ \in Nat
            /\ fresh # 0 => label_sequence_' = label_sequence_ + fresh
        BY <1>1, <1>2
      <3>3. QED
        BY <3>1, <3>2
    <2>3. QED
      BY <2>1, <2>2
  <1>6. ASSUME NEW p \in DOMAIN label_stack_', NEW q \in DOMAIN label_stack_', p < q
        PROVE  label_stack_'[p] < label_stack_'[q]
    <2>1. CASE q \in 1..kept
      <3>1. p \in 1..kept
        <4>1. p \in Int /\ p >= 1 /\ kept \in Int
          BY <1>1, <1>2
        <4>2. QED
          BY <1>6, <2>1, <4>1
      <3>2. label_stack_[p] < label_stack_[q]
        BY <1>3, <1>6, <2>1, <3>1 DEF Increasing
      <3>3. QED
        BY <1>3, <2>1, <3>1, <3>2
    <2>2. CASE p \in 1..kept /\ q \notin 1..kept
      <3>1. label_stack_'[q] >= label_sequence_
        BY <1>1, <1>2, <1>4, <2>2
      <3>2. label_stack_'[q] \in Int
        BY <1>1, <1>2, <1>4, <2>2
      <3>3. QED
        BY <1>1, <1>3, <2>2, <3>1, <3>2
    <2>3. CASE p \notin 1..kept /\ q \notin 1..kept
      <3>1. p \in Int /\ q \in Int /\ kept \in Int
        BY <1>1, <1>2
      <3>2. QED
        BY <1>1, <1>4, <1>6, <2>3, <3>1
    <2>4. QED
      BY <2>1, <2>2, <2>3
  <1>7. QED
    BY <1>5, <1>6 DEF Increasing

(* Labels are numbers. *)
LEMMA PlacedTyped ==
  ASSUME NEW code \in Seq(OpcodeSet(Symbols))
  PROVE  Placed(code) \subseteq Int
  <1>1. ASSUME NEW i \in DOMAIN code PROVE code[i].n \in Int
    <2>1. code[i] \in OpcodeSet(Symbols)
      BY ElementOfSeq
    <2>2. QED
      BY <2>1 DEF OpcodeSet
  <1>2. QED
    BY <1>1 DEF Placed

(* A step that moves the stacks like the nesting keeps the labels apart.   *)
LEMMA LabellingNext ==
  ASSUME TypeOK, TypeOK', Labelling, NEW m, NEW kept, NEW old, NEW fresh, NEW new, NEW used,
         NEW breaks,
         Replaces(m, kept, old, fresh, new, breaks),
         Labelled(kept, old, fresh, new, used, breaks)
  PROVE  Labelling'
  <1> DEFINE N == NewlyPlaced(kept, old, fresh, new, used)
  <1>1. /\ m \in Nat /\ kept \in Nat /\ fresh \in Nat
        /\ DOMAIN nest' = 1..Len(nest') /\ Len(nest') \in {m, m + 1}
        /\ \A i \in DOMAIN nest' : nest'[i] \in FrameSet
        /\ \A i \in 1..m : Alike(nest[i], nest'[i])
        /\ Len(nest') = m + 1 => /\ nest'[m + 1].labels = kept
                                 /\ LabelsEnd(nest'[m + 1]) = kept + fresh
                                 /\ Start(nest'[m + 1]) = new
    BY NextFrames
  <1>2. PICK code \in Seq(OpcodeSet(Symbols)) :
          optable_' = optable_ \o code /\ Once(code) /\ Placed(code) \subseteq N
    BY DEF Labelled
  <1>3. /\ optable_ \in Seq(OpcodeSet(Symbols)) /\ Placed(optable_) \subseteq Int
        /\ label_sequence_ \in Nat /\ label_sequence_' \in Nat
        /\ DOMAIN label_stack_ = 1..Len(label_stack_) /\ Len(label_stack_) \in Nat
        /\ \A p \in DOMAIN label_stack_ : label_stack_[p] \in Nat
    BY PlacedTyped, LenProperties, ElementOfSeq DEF TypeOK, FlowOK, CodeOK
  <1>4. Placed(optable_') = Placed(optable_) \cup Placed(code)
    BY <1>2, <1>3, JoinedLabels
  <1>5. ASSUME NEW l \in N
        PROVE  \/ \E p \in DOMAIN label_stack_ :
                    p > kept /\ l = label_stack_[p] /\ l \notin Placed(optable_)
               \/ l \in label_sequence_..(label_sequence_' - 1)
    BY NewLabels
  <1>6. /\ Shifts(kept, fresh, used)
        /\ kept \in 0..Len(label_stack_) /\ used \in Nat /\ label_sequence_' = label_sequence_ + used
        /\ \A p \in 1..kept : label_stack_'[p] = label_stack_[p]
        /\ \A k \in 1..fresh : label_stack_'[kept + k] = label_sequence_ + k - 1
    BY DEF Labelled, Shifts
  <1>7. Increasing'
    BY <1>6, IncreasingNext DEF Labelling
  <1>8. Chained(nest, Len(label_stack_), Len(break_stack_))'
    BY ChainedNext
  <1> HIDE DEF N
  <1>9. ASSUME NEW l \in N PROVE l \in Int /\ l < label_sequence_' /\ l \notin Placed(optable_)
    <2>1. CASE \E p \in DOMAIN label_stack_ :
                 p > kept /\ l = label_stack_[p] /\ l \notin Placed(optable_)
      BY <1>3, <1>6, <2>1 DEF Labelling, Increasing
    <2>2. CASE l \in label_sequence_..(label_sequence_' - 1)
      <3>1. label_sequence_ \in Nat /\ label_sequence_' \in Nat
        BY <1>3
      <3>2. /\ l \in Int
            /\ l < label_sequence_'
            /\ ~(l < label_sequence_)
        <4> DEFINE after == label_sequence_'
        <4>1. l \in label_sequence_..(after - 1)
          BY <2>2
        <4>2. after \in Int /\ label_sequence_ \in Int
          BY <3>1
        <4> HIDE DEF after
        <4>3. l \in Int /\ l < after /\ ~(l < label_sequence_)
          BY <4>1, <4>2
        <4>4. QED
          BY <4>3 DEF after
      <3>3. QED
        BY <3>2 DEF Labelling, Drawn
    <2>3. QED
      BY <1>5, <2>1, <2>2
  <1>10. Drawn'
    <2>1. ASSUME NEW l \in Placed(optable_) PROVE l < label_sequence_'
      BY <1>3, <1>6, <2>1 DEF Labelling, Drawn
    <2>2. QED
      BY <1>2, <1>4, <1>9, <2>1 DEF Drawn
  <1>11. Once(optable_')
    <2>1. Placed(optable_) \cap Placed(code) = {}
      BY <1>2, <1>9
    <2>2. QED
      BY <1>2, <1>3, <2>1, JoinedOnce DEF Labelling
  <1>12. ASSUME NEW i \in 1..m, NEW p \in (nest'[i].labels + 1)..LabelsEnd(nest'[i]),
                label_stack_'[p] \in Placed(optable_')
         PROVE  p = nest'[i].labels + Start(nest'[i])
    <2>1. /\ i \in DOMAIN nest /\ nest[i] \in FrameSet /\ LabelsEnd(nest[i]) <= kept
      BY <1>1, KeptBelow
    <2>2. /\ nest'[i].labels = nest[i].labels /\ LabelsEnd(nest'[i]) = LabelsEnd(nest[i])
          /\ Start(nest'[i]) = Start(nest[i])
      BY <1>1 DEF Alike, LabelsEnd
    <2>3. nest[i].labels \in Nat /\ LabelsEnd(nest[i]) \in Nat
      BY <2>1, ShareTyped
    <2>4. p \in 1..kept /\ kept \in Nat
      <3>1. p \in (nest[i].labels + 1)..LabelsEnd(nest[i])
        BY <1>12, <2>2
      <3>2. kept \in Nat
        BY <1>1
      <3>3. QED
        BY <2>1, <2>3, <3>1, <3>2
    <2>5. label_stack_'[p] = label_stack_[p] /\ p \in DOMAIN label_stack_
      BY <1>3, <1>6, <2>4
    <2>6. label_stack_[p] \notin N
      <3>1. \A q \in DOMAIN label_stack_ : q > kept => label_stack_[p] < label_stack_[q]
        <4>1. \A q \in DOMAIN label_stack_ : q > kept => p < q
          <5>1. DOMAIN label_stack_ \subseteq Int
            BY <1>3
          <5>2. QED
            BY <2>4, <5>1
        <4>2. QED
          BY <2>5, <4>1 DEF Labelling, Increasing
      <3>2. label_stack_[p] < label_sequence_
        BY <2>5 DEF Labelling, Increasing
      <3>3. QED
        BY <1>3, <1>5, <2>5, <3>1, <3>2
    <2>7. label_stack_[p] \in Placed(optable_)
      BY <1>2, <1>4, <1>12, <2>5, <2>6
    <2>8. QED
      BY <2>1, <2>2, <2>7 DEF Labelling, Pending
  <1>13. ASSUME Len(nest') = m + 1,
                NEW p \in (nest'[m + 1].labels + 1)..LabelsEnd(nest'[m + 1]),
                label_stack_'[p] \in Placed(optable_')
         PROVE  p = nest'[m + 1].labels + Start(nest'[m + 1])
    <2>0. kept \in Nat /\ fresh \in Nat /\ label_sequence_ \in Nat
      BY <1>1, <1>3
    <2>1. p - kept \in 1..fresh /\ p = kept + (p - kept)
      <3>1. p \in (kept + 1)..(kept + fresh)
        BY <1>1, <1>13
      <3>2. QED
        BY <2>0, <3>1
    <2>2. label_stack_'[p] = label_sequence_ + (p - kept) - 1
      BY <1>6, <2>1
    <2>3. label_stack_'[p] >= label_sequence_ /\ label_stack_'[p] \in Int
      BY <2>0, <2>1, <2>2
    <2>4. label_stack_'[p] \notin Placed(optable_)
      BY <1>3, <2>3 DEF Labelling, Drawn
    <2>5. label_stack_'[p] \in N
      BY <1>2, <1>4, <1>13, <2>4
    <2>6. label_stack_'[p] \notin Above(kept, old)
      <3>1. Above(kept, old) \subseteq {label_stack_[q] : q \in DOMAIN label_stack_}
        <4>1. (kept + 1)..Len(label_stack_) \subseteq 1..Len(label_stack_)
          BY <2>0
        <4>2. QED
          BY <1>3, <4>1 DEF Above
      <3>2. \A q \in DOMAIN label_stack_ : label_stack_[q] < label_sequence_
        BY DEF Labelling, Increasing
      <3>3. QED
        BY <1>3, <2>3, <3>1, <3>2
    <2>7. fresh # 0
      BY <2>0, <2>1
    <2>8. new # 0 /\ label_stack_'[p] = label_sequence_ + new - 1
      BY <2>5, <2>6, <2>7 DEF N, NewlyPlaced
    <2>9. new \in Nat
      BY <1>1, <1>13, ShareTyped
    <2>10. p - kept = new
      BY <2>0, <2>1, <2>2, <2>8, <2>9
    <2>11. QED
      BY <1>1, <1>13, <2>1, <2>10
  <1>14. Pending(nest, label_stack_, Placed(optable_))'
    <2>1. ASSUME NEW i \in DOMAIN nest', NEW p \in (nest'[i].labels + 1)..LabelsEnd(nest'[i]),
                 label_stack_'[p] \in Placed(optable_')
          PROVE  p = nest'[i].labels + Start(nest'[i])
      <3>1. CASE i \in 1..m
        BY <1>12, <2>1, <3>1
      <3>2. CASE i \notin 1..m
        <4>1. i \in 1..Len(nest') /\ m \in Nat /\ Len(nest') \in {m, m + 1}
          BY <1>1
        <4>2. i = m + 1 /\ Len(nest') = m + 1
          BY <3>2, <4>1
        <4>3. QED
          BY <1>13, <2>1, <4>2
      <3>3. QED
        BY <3>1, <3>2
    <2>2. QED
      BY <2>1 DEF Pending
  <1>15. QED
    BY <1>7, <1>8, <1>10, <1>11, <1>14 DEF Labelling

-----------------------------------------------------------------------------
(* How the reductions of the grammar replace what is open. *)

(* A construct is like itself. *)
LEMMA AlikeItself ==
  ASSUME NEW f
  PROVE  Alike(f, f)
  BY DEF Alike

(* Going on in another part, the innermost construct keeps its share; an   *)
(* IF that has got its ELSE counts as going on in inactive code.           *)
LEMMA AlikeContinued ==
  ASSUME TypeOK, nest # <<>>, NEW kind \in Kinds,
         \/ kind = "coded" /\ Top.kind \in {"code", "coded"}
         \/ kind = "cased" /\ Top.kind \in {"case", "cased"}
         \/ kind = "else" /\ Top.kind = "if"
  PROVE  /\ Continue(kind) \in Seq(FrameSet) /\ Len(Continue(kind)) = Len(nest)
         /\ \A i \in 1..Len(nest) : Alike(nest[i], Continue(kind)[i])
         /\ Continue(kind)[Len(nest)].kind = kind
  <1> DEFINE n    == Len(nest)
             next == [nest[n] EXCEPT !.kind = kind]
  <1>1. /\ nest \in Seq(FrameSet) /\ n \in 1..n /\ DOMAIN nest = 1..n /\ nest[n] \in FrameSet
        /\ Top = nest[n]
    <2>1. nest \in Seq(FrameSet) /\ Len(nest) \in Nat /\ Len(nest) # 0 /\ DOMAIN nest = 1..Len(nest)
      BY EmptySeq, LenProperties DEF TypeOK
    <2>2. n \in 1..n
      BY <2>1
    <2>3. nest[n] \in FrameSet
      BY <2>1, <2>2, ElementOfSeq
    <2>4. QED
      BY <2>1, <2>2, <2>3 DEF Top, Last
  <1>2. /\ next \in FrameSet /\ next.kind = kind /\ next.active = nest[n].active
        /\ next.labels = nest[n].labels /\ next.breaks = nest[n].breaks
    BY <1>1 DEF FrameSet
  <1>3. Continue(kind) = [nest EXCEPT ![n] = next]
    BY DEF Continue
  <1> HIDE DEF next, n
  <1>4. /\ Continue(kind) \in Seq(FrameSet) /\ Len(Continue(kind)) = Len(nest)
        /\ \A i \in 1..n : Continue(kind)[i] = IF i = n THEN next ELSE nest[i]
    BY <1>1, <1>2, <1>3, ExceptSeq DEF n
  <1>5. Alike(nest[n], next)
    <2>1. Labels(next) = Labels(nest[n]) /\ Breaks(next) = Breaks(nest[n]) /\ Start(next) = Start(nest[n])
      BY <1>1, <1>2 DEF Labels, Breaks, Start
    <2>2. \A kinds \in {Bodies, {"definition", "noname"}, {"code", "coded"}, {"case", "cased"}} :
            next.kind \in kinds <=> nest[n].kind \in kinds
      BY <1>1, <1>2 DEF Bodies
    <2>3. QED
      BY <1>2, <2>1, <2>2 DEF Alike
  <1>6. \A i \in 1..n : Alike(nest[i], Continue(kind)[i])
    BY <1>4, <1>5, AlikeItself
  <1>7. QED
    BY <1>1, <1>2, <1>4, <1>6 DEF n

(* A construct opens. *)
LEMMA OpenReplaces ==
  ASSUME TypeOK, NEW frames \in Seq(FrameSet), Len(frames) = Len(nest),
         \A i \in 1..Len(nest) : Alike(nest[i], frames[i]),
         NEW kind \in Kinds, nest' = Append(frames, Frame(kind))
  PROVE  Replaces(Len(nest), Len(label_stack_), 0,
                  Labels(Frame(kind)), Start(Frame(kind)), Breaks(Frame(kind)))
  <1> DEFINE m == Len(nest)
             f == Frame(kind)
  <1>1. m \in Nat
    BY LenProperties DEF TypeOK
  <1>2. /\ f \in FrameSet
        /\ f.labels = Len(label_stack_) /\ f.breaks = Len(break_stack_)
    BY FrameTyped
  <1>3. Breaks(f) \in {0, 1}
    BY <1>2, ShareTyped
  <1> HIDE DEF f
  <1>4. /\ Len(nest') = m + 1 /\ nest'[m + 1] = f
        /\ \A i \in 1..m : nest'[i] = frames[i]
    BY <1>2, AppendProperties DEF f
  <1> HIDE DEF m
  <1>5. Len(nest) = m /\ Len(nest) # m + 1 /\ Len(nest') # m
    BY <1>1, <1>4 DEF m
  <1>6. \A i \in 1..m : Alike(nest[i], nest'[i])
    BY <1>4 DEF m
  <1>7. BreaksKept(m) = Len(break_stack_)
    BY <1>5 DEF BreaksKept
  <1>8. Breaks(f) = (IF Len(nest') = m THEN 0 ELSE Breaks(nest'[m + 1]))
                     - (IF Len(nest) = m THEN 0 ELSE Breaks(nest[m + 1]))
    <2>1. Breaks(f) = Breaks(f) - 0
      BY <1>3
    <2>2. QED
      BY <1>4, <1>5, <2>1
  <1>9. Replaces(m, Len(label_stack_), 0, Labels(f), Start(f), Breaks(f))
    BY <1>1, <1>2, <1>4, <1>5, <1>6, <1>7, <1>8 DEF Replaces
  <1>10. QED
    BY <1>9 DEF m, f

(* Nothing opens or closes. *)
LEMMA SameReplaces ==
  ASSUME TypeOK, Len(nest') = Len(nest), \A i \in 1..Len(nest) : Alike(nest[i], nest'[i])
  PROVE  Replaces(Len(nest), Len(label_stack_), 0, 0, 0, 0)
  <1> DEFINE m == Len(nest)
  <1>1. m \in Nat
    BY LenProperties DEF TypeOK
  <1>2. Len(nest) # m + 1 /\ Len(nest') # m + 1
    BY <1>1
  <1>3. 0 = (IF Len(nest') = m THEN 0 ELSE Breaks(nest'[m + 1]))
             - (IF Len(nest) = m THEN 0 ELSE Breaks(nest[m + 1]))
    OBVIOUS
  <1>4. QED
    BY <1>1, <1>2, <1>3 DEF Replaces

(* The innermost construct closes. *)
LEMMA CloseReplaces ==
  ASSUME TypeOK, Labelling, nest # <<>>, nest' = Front(nest)
  PROVE  /\ Replaces(Len(nest) - 1, Len(label_stack_) - Labels(Top), Start(Top), 0, 0, -Breaks(Top))
         /\ Labels(Top) <= Len(label_stack_)
         /\ Len(nest) - 1 \in Nat /\ Top = nest[Len(nest)]
         /\ Top.labels = Len(label_stack_) - Labels(Top)
         /\ Len(nest') = Len(nest) - 1 /\ Top \in FrameSet
  <1> DEFINE m == Len(nest) - 1
             f == nest[Len(nest)]
  <1>1. /\ nest \in Seq(FrameSet) /\ m \in Nat /\ Len(nest) = m + 1 /\ f \in FrameSet /\ Top = f
        /\ m + 1 \in DOMAIN nest
    <2>1. nest \in Seq(FrameSet) /\ Len(nest) \in Nat /\ Len(nest) # 0 /\ DOMAIN nest = 1..Len(nest)
      BY EmptySeq, LenProperties DEF TypeOK
    <2>2. Len(nest) \in 1..Len(nest) /\ m \in Nat /\ Len(nest) = m + 1
      BY <2>1
    <2>3. f \in FrameSet
      BY <2>1, <2>2, ElementOfSeq
    <2>4. QED
      BY <2>1, <2>2, <2>3 DEF Top, Last
  <1>2. Len(nest') = m /\ \A i \in 1..m : nest'[i] = nest[i]
    BY <1>1, FrontTyped
  <1>3. /\ f.labels \in Nat /\ Labels(f) \in Nat /\ Breaks(f) \in {0, 1}
        /\ LabelsEnd(f) = f.labels + Labels(f) /\ LabelsEnd(f) = Len(label_stack_)
    BY <1>1, ShareTyped DEF Labelling, Chained
  <1> HIDE DEF f
  <1>4. f = nest[m + 1]
    BY <1>1 DEF f
  <1> HIDE DEF m
  <1>5. Labels(f) <= Len(label_stack_) /\ f.labels = Len(label_stack_) - Labels(f)
        /\ Len(label_stack_) - Labels(f) + Labels(f) = Len(label_stack_)
    BY <1>3
  <1>6. Len(nest) # m /\ Len(nest') # m + 1
    BY <1>1, <1>2
  <1>7. -Breaks(f) = (IF Len(nest') = m THEN 0 ELSE Breaks(nest'[m + 1]))
                     - (IF Len(nest) = m THEN 0 ELSE Breaks(nest[m + 1]))
    <2>1. -Breaks(f) = 0 - Breaks(f)
      BY <1>3
    <2>2. QED
      BY <1>2, <1>4, <1>6, <2>1
  <1>8. \A i \in 1..m : Alike(nest[i], nest'[i])
    BY <1>2, AlikeItself
  <1>9. Replaces(m, Len(label_stack_) - Labels(f), Start(f), 0, 0, -Breaks(f))
    BY <1>1, <1>2, <1>4, <1>5, <1>6, <1>7, <1>8 DEF Replaces
  <1>10. QED
    BY <1>1, <1>2, <1>5, <1>9 DEF m, f

(* IF goes on as ELSE, with a label of its own. *)
LEMMA ElseReplaces ==
  ASSUME TypeOK, Labelling, nest # <<>>, Top.kind = "if", Top.active, nest' = Continue("else")
  PROVE  /\ Replaces(Len(nest) - 1, Len(label_stack_) - 1, 0, 1, 0, 0)
         /\ Len(nest) - 1 \in Nat /\ Len(label_stack_) >= 1
         /\ nest[Len(nest)].kind = "if" /\ nest'[Len(nest)].kind = "else"
  <1> DEFINE m == Len(nest) - 1
             f == nest[Len(nest)]
             g == nest'[Len(nest)]
  <1>1. /\ m \in Nat /\ Len(nest) = m + 1 /\ f \in FrameSet /\ Top = f /\ m + 1 \in DOMAIN nest
    <2>1. nest \in Seq(FrameSet) /\ Len(nest) \in Nat /\ Len(nest) # 0 /\ DOMAIN nest = 1..Len(nest)
      BY EmptySeq, LenProperties DEF TypeOK
    <2>2. Len(nest) \in 1..Len(nest) /\ m \in Nat /\ Len(nest) = m + 1
      BY <2>1
    <2>3. f \in FrameSet
      BY <2>1, <2>2, ElementOfSeq
    <2>4. QED
      BY <2>1, <2>2, <2>3 DEF Top, Last
  <1>2. /\ Len(nest') = m + 1 /\ \A i \in 1..(m + 1) : Alike(nest[i], nest'[i])
        /\ g.kind = "else"
    <2>1. "else" \in Kinds
      BY DEF Kinds
    <2>2. QED
      BY <1>1, <2>1, AlikeContinued
  <1>3. /\ f.labels \in Nat /\ LabelsEnd(f) = f.labels + Labels(f)
        /\ LabelsEnd(f) = Len(label_stack_)
    BY <1>1, ShareTyped DEF Labelling, Chained
  <1>4. Labels(f) = 1 /\ Breaks(f) = 0 /\ Start(f) = 0
    BY <1>1 DEF Labels, Breaks, Start
  <1>5. Alike(f, g)
    <2>1. m + 1 \in 1..(m + 1) /\ m + 1 = Len(nest)
      BY <1>1
    <2>2. QED
      BY <1>2, <2>1
  <1> HIDE DEF f, g
  <1>6. f = nest[m + 1] /\ g = nest'[m + 1]
    BY <1>1 DEF f, g
  <1> HIDE DEF m
  <1>7. f.labels = Len(label_stack_) - 1 /\ Len(label_stack_) >= 1
        /\ Len(label_stack_) - 1 + 1 = Len(label_stack_)
    BY <1>3, <1>4
  <1>8. /\ Labels(g) = 1 /\ Breaks(g) = 0 /\ Start(g) = 0
        /\ g.labels = f.labels /\ g.breaks = f.breaks
    BY <1>4, <1>5 DEF Alike
  <1>9. Len(nest) # m /\ Len(nest') # m
    BY <1>1, <1>2
  <1>10. BreaksKept(m) = f.breaks
    BY <1>6, <1>9 DEF BreaksKept
  <1>11. 0 = (IF Len(nest') = m THEN 0 ELSE Breaks(nest'[m + 1]))
             - (IF Len(nest) = m THEN 0 ELSE Breaks(nest[m + 1]))
    BY <1>4, <1>6, <1>8, <1>9
  <1>12. \A i \in 1..m : Alike(nest[i], nest'[i])
    <2>1. 1..m \subseteq 1..(m + 1)
      BY <1>1
    <2>2. QED
      BY <1>2, <2>1
  <1>13. Replaces(m, Len(label_stack_) - 1, 0, 1, 0, 0)
    BY <1>1, <1>2, <1>4, <1>6, <1>7, <1>8, <1>9, <1>10, <1>11, <1>12 DEF Replaces
  <1>14. QED
    BY <1>1, <1>2, <1>7, <1>13 DEF m, f, g

-----------------------------------------------------------------------------
(***************************************************************************)
(* The steps of the parser, in three classes.  A quiet step leaves the     *)
(* handlers' state alone, and what is open too unless it counts an error.  *)
(* An ordinary one replaces what is open as its handler moves the stacks;  *)
(* no active body of a definition opens or closes in it.  The steps that   *)
(* open, write or close an active body are the third class.                *)
(***************************************************************************)
Quiet ==
  /\ UNCHANGED <<symtable_, implicit_main_, flow, optable_, current_definition_>>
  /\ error_count_' \in Nat /\ error_count_' >= error_count_
  /\ nest' = nest \/ (nest' = <<>> /\ error_count_' > error_count_)

Body(frame)   == frame.active /\ frame.kind \in Bodies
Choice(frame) == frame.active /\ frame.kind \in {"case", "cased"}

(* Bodies open at the top level alone, and nothing opens or is written in  *)
(* the body of a CODE word.  Only an IF is replaced by another construct.  *)
Bodiless(m) ==
  /\ Len(nest) = m + 1 => ~Body(nest[m + 1])
  /\ Len(nest') = m + 1 => ~Body(nest'[m + 1])
  /\ Len(nest') = m + 1 /\ m > 0 => nest'[m + 1].kind \notin Bodies
  /\ Len(nest') = m + 1 /\ Len(nest) = m => ~Inside({"code", "coded"})
  /\ Len(nest) = m + 1 /\ Len(nest') = m + 1 => nest[m + 1].kind = "if"
  /\ Inside({"code", "coded"}) => UNCHANGED optable_

(* Main is announced for code, or for a CASE, whose end writes code. *)
Announced(m) ==
  /\ ForCode \/ (Len(nest') = m + 1 /\ Choice(nest'[m + 1]))
  /\ Len(nest) = m + 1 /\ Choice(nest[m + 1]) => optable_' # optable_

Ordinary ==
  /\ Named
  /\ \E m, kept, old, fresh, new, used, breaks :
       /\ Replaces(m, kept, old, fresh, new, breaks)
       /\ Moved(kept, old, fresh, new, used, breaks)
       /\ Bodiless(m) /\ Announced(m)

Defining ==
  /\ cond_state /\ ~excessive_errors
  /\ Colon \/ NoName \/ Semicolon \/ Code \/ Asm \/ EndCode

(* A suppressed handler moves nothing. *)
LEMMA SuppressedMoved ==
  ASSUME TypeOK, status' = status, Untouched, NEW old
  PROVE  /\ Moved(Len(label_stack_), old, 0, 0, 0, 0) /\ Named /\ ForCode
         /\ UNCHANGED optable_
  <1> DEFINE n == Len(label_stack_)
  <1>1. n \in Nat /\ label_sequence_ \in Nat
    BY LenProperties DEF TypeOK, FlowOK
  <1>2. Above(n, old) = {} /\ Taken(0) = {}
    BY <1>1 DEF Above, Taken
  <1>3. NewlyPlaced(n, old, 0, 0, 0) = {}
    BY <1>2 DEF NewlyPlaced
  <1>4. Shifts(n, 0, 0)
    BY <1>1 DEF Shifts, Untouched, flow
  <1>5. BreaksMove(0)
    BY DEF BreaksMove, Untouched, flow
  <1>6. Writes({}, {})
    BY NothingWritten DEF Untouched
  <1> HIDE DEF n
  <1>7. \E referred \in SUBSET Reachable(0) : Writes(NewlyPlaced(n, old, 0, 0, 0), referred)
    BY <1>3, <1>6
  <1>8. Moved(n, old, 0, 0, 0, 0)
    BY <1>4, <1>5, <1>7 DEF Moved, Untouched, flow
  <1>9. Named /\ ForCode
    BY DEF Named, ForCode, Untouched, symbols, Kept, TypeOK, SymbolsOK
  <1>10. QED
    BY <1>8, <1>9 DEF n, Untouched

(* Opening a construct other than an active body. *)
LEMMA Opened ==
  ASSUME TypeOK, NEW frames \in Seq(FrameSet), Len(frames) = Len(nest),
         \A i \in 1..Len(nest) : Alike(nest[i], frames[i]),
         NEW kind \in Kinds, nest' = Append(frames, Frame(kind)), status' = status,
         ~Inside({"code", "coded"}), kind \in Bodies => nest = <<>>,
         ~cond_state => Untouched,
         NEW used,
         cond_state => /\ kind \notin Bodies
                       /\ Moved(Len(label_stack_), 0, Labels(Frame(kind)),
                                Start(Frame(kind)), used, Breaks(Frame(kind)))
                       /\ Named
                       /\ ForCode \/ kind = "case"
  PROVE  Ordinary
  <1> DEFINE m == Len(nest)
             f == Frame(kind)
  <1>1. Replaces(m, Len(label_stack_), 0, Labels(f), Start(f), Breaks(f))
    BY OpenReplaces
  <1>2. f \in FrameSet /\ f.kind = kind /\ f.active = cond_state
    BY FrameTyped
  <1>3. m \in Nat /\ (m > 0 => nest # <<>>)
    BY LenProperties, EmptySeq DEF TypeOK
  <1> HIDE DEF f
  <1>4. Len(nest') = m + 1 /\ nest'[m + 1] = f
    BY <1>2, AppendProperties DEF f
  <1> HIDE DEF m
  <1>5. Len(nest) # m + 1
    BY <1>3 DEF m
  <1>6. Bodiless(m)
    BY <1>2, <1>3, <1>4, <1>5 DEF Bodiless, Body
  <1>7. CASE cond_state
    <2>1. Moved(Len(label_stack_), 0, Labels(f), Start(f), used, Breaks(f)) /\ Named
      BY <1>7 DEF f
    <2>2. ForCode \/ kind = "case"
      BY <1>7
    <2>3. Announced(m)
      BY <1>2, <1>4, <1>5, <1>7, <2>2 DEF Announced, Choice
    <2>4. QED
      BY <1>1, <1>6, <2>1, <2>3 DEF Ordinary
  <1>8. CASE ~cond_state
    <2>1. Labels(f) = 0 /\ Start(f) = 0 /\ Breaks(f) = 0
      BY <1>2, <1>8 DEF Labels, Start, Breaks
    <2>2. Moved(Len(label_stack_), 0, 0, 0, 0, 0) /\ Named /\ ForCode
      BY <1>8, SuppressedMoved
    <2>3. Announced(m)
      BY <1>5, <2>2 DEF Announced
    <2>4. Replaces(m, Len(label_stack_), 0, 0, 0, 0)
      BY <1>1, <2>1
    <2>5. QED
      BY <1>6, <2>2, <2>3, <2>4 DEF Ordinary
  <1>9. QED
    BY <1>7, <1>8

(* A statement, or an inactive construct that goes on. *)
LEMMA Stayed ==
  ASSUME TypeOK, Len(nest') = Len(nest), \A i \in 1..Len(nest) : Alike(nest[i], nest'[i]),
         status' = status,
         ~cond_state => Untouched,
         cond_state => Straightly /\ Named /\ ForCode /\ ~Inside({"code", "coded"})
  PROVE  Ordinary
  <1> DEFINE m == Len(nest)
  <1>1. Replaces(m, Len(label_stack_), 0, 0, 0, 0)
    BY SameReplaces
  <1>2. m \in Nat
    BY LenProperties DEF TypeOK
  <1> HIDE DEF m
  <1>3. Len(nest) # m + 1 /\ Len(nest') # m + 1
    BY <1>2 DEF m
  <1>4. \E used : Moved(Len(label_stack_), 0, 0, 0, used, 0) /\ Named /\ ForCode
    BY SuppressedMoved DEF Straightly
  <1>5. ~cond_state => UNCHANGED optable_
    BY DEF Untouched
  <1>6. Bodiless(m) /\ Announced(m)
    BY <1>3, <1>4, <1>5 DEF Bodiless, Announced
  <1>7. QED
    BY <1>1, <1>4, <1>6 DEF Ordinary

(* Closing a construct other than an active body. *)
LEMMA Closed ==
  ASSUME TypeOK, Labelling, nest # <<>>, nest' = Front(nest), status' = status,
         ~Top.active => Untouched,
         NEW used,
         Top.active => /\ Top.kind \notin Bodies
                       /\ Moved(Len(label_stack_) - Labels(Top), Start(Top), 0, 0, used, -Breaks(Top))
                       /\ Named /\ ForCode,
         Choice(Top) => optable_' # optable_
  PROVE  Ordinary
  <1> DEFINE m == Len(nest) - 1
  <1>1. /\ Replaces(m, Len(label_stack_) - Labels(Top), Start(Top), 0, 0, -Breaks(Top))
        /\ m \in Nat /\ Top = nest[Len(nest)] /\ Len(nest') = m /\ Top \in FrameSet
    BY CloseReplaces
  <1>2. Len(nest) = m + 1 /\ Len(nest') # m + 1
    <2>1. Len(nest) \in Nat
      BY LenProperties DEF TypeOK
    <2>2. QED
      BY <1>1, <2>1
  <1> HIDE DEF m
  <1>3. Top = nest[m + 1] /\ ~Body(nest[m + 1])
    BY <1>1, <1>2 DEF Body
  <1>4. CASE Top.active
    <2>1. Inside({"code", "coded"}) => FALSE
      BY <1>4 DEF Inside, Bodies
    <2>2. Bodiless(m) /\ Announced(m)
      BY <1>2, <1>3, <1>4, <2>1 DEF Bodiless, Announced
    <2>3. QED
      BY <1>1, <1>4, <2>2 DEF Ordinary
  <1>5. CASE ~Top.active
    <2>1. Labels(Top) = 0 /\ Start(Top) = 0 /\ Breaks(Top) = 0
      BY <1>5 DEF Labels, Start, Breaks
    <2>2. /\ Moved(Len(label_stack_), 0, 0, 0, 0, 0) /\ Named /\ ForCode
          /\ UNCHANGED optable_
      BY <1>5, SuppressedMoved
    <2>3. Len(label_stack_) - Labels(Top) = Len(label_stack_) /\ -Breaks(Top) = 0
      <3>1. Len(label_stack_) \in Nat
        BY LenProperties DEF TypeOK, FlowOK
      <3>2. Len(label_stack_) - Labels(Top) = Len(label_stack_)
        BY <2>1, <3>1
      <3>3. -Breaks(Top) = -0
        BY <2>1
      <3>4. QED
        BY <3>2, <3>3
    <2>4. Replaces(m, Len(label_stack_), 0, 0, 0, 0)
      BY <1>1, <2>1, <2>3
    <2>5. Bodiless(m) /\ Announced(m)
      BY <1>2, <1>3, <1>5, <2>2 DEF Bodiless, Announced, Choice
    <2>6. QED
      BY <2>2, <2>4, <2>5 DEF Ordinary
  <1>6. QED
    <2>1. Top.active \in BOOLEAN
      BY <1>1 DEF FrameSet
    <2>2. QED
      BY <1>4, <1>5, <2>1

(* Giving up, conditionals, errors and the end of the parse are quiet. *)
LEMMA QuietSteps ==
  ASSUME TypeOK, GiveUp \/ Conditional \/ Ending \/ UNCHANGED vars
  PROVE  Quiet
  <1>1. error_count_ \in Nat
    BY DEF TypeOK, SymbolsOK
  <1>2. CASE GiveUp
    BY <1>1, <1>2 DEF GiveUp, parse_error, Quiet
  <1>3. CASE UNCHANGED vars
    BY <1>1, <1>3 DEF vars, handled, symbols, Quiet
  <1>4. CASE Conditional /\ ~GiveUp
    BY <1>1, <1>4 DEF Conditional, CondIfdef, CondElse, CondThen, Directive, Quiet
  <1>5. CASE (SyntaxError \/ Recover \/ EndInRecovery \/ f_end_of_file) /\ ~GiveUp
    BY <1>1, <1>5 DEF SyntaxError, Recover, EndInRecovery, f_end_of_file, parse_error, handled,
       symbols, Quiet
  <1>6. CASE parse_cleanup
    <2>1. InternalErrors \in Nat
      BY DEF InternalErrors
    <2>2. QED
      BY <1>1, <1>6, <2>1 DEF parse_cleanup, Quiet
  <1>7. QED
    BY <1>2, <1>3, <1>4, <1>5, <1>6 DEF Ending

(* Declarations, words, literals, strings and breaks. *)
LEMMA StraightOrdinary ==
  ASSUME ParserAssumption, TypeOK, Declaration \/ Straight
  PROVE  Quiet \/ Ordinary
  <1>1. CASE GiveUp
    BY <1>1, QuietSteps
  <1>2. CASE ~GiveUp
    <2>1. /\ nest' = nest /\ ~Inside({"code", "coded"})
          /\ ~cond_state => status' = status /\ Untouched
          /\ cond_state => Straightly /\ Named /\ ForCode
      <3>1. CASE Declaration
        BY <1>2, <3>1, DeclarationGood DEF Declaration, Variable, Constant, FConstant, Create,
           Plainly, Reduce, AtTop, Inside
      <3>2. CASE Exit \/ StringLiteral \/ CharLiteral \/ CString \/ Integer \/ Float \/ Recurse
                   \/ Leave \/ QueryLeave \/ While
        BY <1>2, <3>2, LiteralGood DEF Exit, StringLiteral, CharLiteral, CString, Integer, Float,
           Recurse, Leave, QueryLeave, While, Statement, Plainly, Reduce, InStatements
      <3>3. CASE Word \/ ObjectAddress \/ PString \/ AString
        BY <1>2, <3>3, WordGood DEF Word, ObjectAddress, PString, AString, Statement, Plainly,
           Reduce, InStatements
      <3>4. QED
        BY <3>1, <3>2, <3>3 DEF Straight
    <2>2. /\ Len(nest') = Len(nest) /\ \A i \in 1..Len(nest) : Alike(nest[i], nest'[i])
      BY <2>1, AlikeItself
    <2>3. status' = status
      BY <2>1 DEF Straightly, Moved
    <2>4. QED
      BY <2>1, <2>2, <2>3, Stayed
  <1>3. QED
    BY <1>1, <1>2

(* What the frame of a construct that opens in active code keeps. *)
LEMMA SharesOpened ==
  ASSUME TypeOK, cond_state
  PROVE  /\ \A kind \in {"if", "of", "case", "definition", "noname"} :
              Labels(Frame(kind)) = 1 /\ Start(Frame(kind)) = 0
         /\ Labels(Frame("do")) = 3 /\ Start(Frame("do")) = 2
         /\ Labels(Frame("begin")) = 2 /\ Start(Frame("begin")) = 1
         /\ Labels(Frame("code")) = 0 /\ Start(Frame("code")) = 0
         /\ \A kind \in {"if", "of", "definition", "noname", "code"} : Breaks(Frame(kind)) = 0
         /\ \A kind \in {"do", "begin", "case"} : Breaks(Frame(kind)) = 1
  <1>1. \A kind \in Kinds : Frame(kind).kind = kind /\ Frame(kind).active
    BY FrameTyped
  <1>2. \A kind \in {"if", "of", "case", "definition", "noname", "do", "begin", "code"} :
          Frame(kind).kind = kind /\ Frame(kind).active
    BY <1>1 DEF Kinds
  <1>3. \A kind \in {"if", "of", "case", "definition", "noname"} :
          Labels(Frame(kind)) = 1 /\ Start(Frame(kind)) = 0
    BY <1>2 DEF Labels, Start
  <1>4. /\ Labels(Frame("do")) = 3 /\ Start(Frame("do")) = 2
        /\ Labels(Frame("begin")) = 2 /\ Start(Frame("begin")) = 1
        /\ Labels(Frame("code")) = 0 /\ Start(Frame("code")) = 0
    BY <1>2 DEF Labels, Start
  <1>5. /\ \A kind \in {"if", "of", "definition", "noname", "code"} : Breaks(Frame(kind)) = 0
        /\ \A kind \in {"do", "begin", "case"} : Breaks(Frame(kind)) = 1
    BY <1>2 DEF Breaks
  <1>6. QED
    BY <1>3, <1>4, <1>5

(* The words that open a control structure, and inactive definitions. *)
LEMMA OpeningOrdinary ==
  ASSUME ParserAssumption, TypeOK, ~GiveUp,
         If \/ Do \/ QueryDo \/ Begin \/ Case \/ (~cond_state /\ (Colon \/ NoName \/ Code))
  PROVE  Ordinary
  <1>1. /\ nest \in Seq(FrameSet) /\ Len(nest) = Len(nest)
        /\ \A i \in 1..Len(nest) : Alike(nest[i], nest[i])
    BY AlikeItself DEF TypeOK
  <1>2. ASSUME NEW kind \in Kinds, nest' = Append(nest, Frame(kind)),
               ~Inside({"code", "coded"}), kind \in Bodies => nest = <<>>,
               ~cond_state => Untouched /\ status' = status,
               NEW used, NEW labels, NEW start, NEW breaks,
               cond_state => /\ kind \notin Bodies
                             /\ Labels(Frame(kind)) = labels /\ Start(Frame(kind)) = start
                             /\ Breaks(Frame(kind)) = breaks
                             /\ Moved(Len(label_stack_), 0, labels, start, used, breaks)
                             /\ Named
                             /\ ForCode \/ kind = "case"
        PROVE  Ordinary
    <2>1. status' = status
      BY <1>2 DEF Moved
    <2>2. cond_state => /\ kind \notin Bodies
                        /\ Moved(Len(label_stack_), 0, Labels(Frame(kind)),
                                 Start(Frame(kind)), used, Breaks(Frame(kind)))
                        /\ Named
                        /\ ForCode \/ kind = "case"
      BY <1>2
    <2>3. ~cond_state => Untouched
      BY <1>2
    <2>4. QED
      BY <1>1, <1>2, <2>1, <2>2, <2>3, Opened
  <1>3. CASE If
    <2>1. /\ nest' = Append(nest, Frame("if")) /\ ~Inside({"code", "coded"})
          /\ IF cond_state THEN f_if ELSE status' = status /\ Untouched
      BY <1>3 DEF If, Structured, Open, Reduce, InStatements, GiveUp
    <2>2. "if" \in Kinds /\ "if" \notin Bodies
      BY DEF Kinds, Bodies
    <2>3. cond_state => /\ Labels(Frame("if")) = 1 /\ Start(Frame("if")) = 0
                        /\ Breaks(Frame("if")) = 0
      BY SharesOpened
    <2>4. cond_state => /\ Moved(Len(label_stack_), 0, 1, 0, 1, 0)
                        /\ Named
                        /\ ForCode \/ "if" = "case"
      BY <2>1, OpeningMoved
    <2>5. QED
      BY <1>2, <2>1, <2>2, <2>3, <2>4
  <1>4. CASE Do
    <2>1. /\ nest' = Append(nest, Frame("do")) /\ ~Inside({"code", "coded"})
          /\ IF cond_state THEN f_do ELSE status' = status /\ Untouched
      BY <1>4 DEF Do, Structured, Open, Reduce, InStatements, GiveUp
    <2>2. "do" \in Kinds /\ "do" \notin Bodies
      BY DEF Kinds, Bodies
    <2>3. cond_state => /\ Labels(Frame("do")) = 3 /\ Start(Frame("do")) = 2
                        /\ Breaks(Frame("do")) = 1
      BY SharesOpened
    <2>4. cond_state => /\ Moved(Len(label_stack_), 0, 3, 2, 3, 1)
                        /\ Named
                        /\ ForCode \/ "do" = "case"
      BY <2>1, OpeningMoved
    <2>5. QED
      BY <1>2, <2>1, <2>2, <2>3, <2>4
  <1>5. CASE QueryDo
    <2>1. /\ nest' = Append(nest, Frame("do")) /\ ~Inside({"code", "coded"})
          /\ IF cond_state THEN f_query_do ELSE status' = status /\ Untouched
      BY <1>5 DEF QueryDo, Structured, Open, Reduce, InStatements, GiveUp
    <2>2. "do" \in Kinds /\ "do" \notin Bodies
      BY DEF Kinds, Bodies
    <2>3. cond_state => /\ Labels(Frame("do")) = 3 /\ Start(Frame("do")) = 2
                        /\ Breaks(Frame("do")) = 1
      BY SharesOpened
    <2>4. cond_state => /\ Moved(Len(label_stack_), 0, 3, 2, 3, 1)
                        /\ Named
                        /\ ForCode \/ "do" = "case"
      BY <2>1, OpeningMoved
    <2>5. QED
      BY <1>2, <2>1, <2>2, <2>3, <2>4
  <1>6. CASE Begin
    <2>1. /\ nest' = Append(nest, Frame("begin")) /\ ~Inside({"code", "coded"})
          /\ IF cond_state THEN f_begin ELSE status' = status /\ Untouched
      BY <1>6 DEF Begin, Structured, Open, Reduce, InStatements, GiveUp
    <2>2. "begin" \in Kinds /\ "begin" \notin Bodies
      BY DEF Kinds, Bodies
    <2>3. cond_state => /\ Labels(Frame("begin")) = 2 /\ Start(Frame("begin")) = 1
                        /\ Breaks(Frame("begin")) = 1
      BY SharesOpened
    <2>4. cond_state => /\ Moved(Len(label_stack_), 0, 2, 1, 2, 1)
                        /\ Named
                        /\ ForCode \/ "begin" = "case"
      BY <2>1, OpeningMoved
    <2>5. QED
      BY <1>2, <2>1, <2>2, <2>3, <2>4
  <1>7. CASE Case
    <2>1. /\ nest' = Append(nest, Frame("case")) /\ ~Inside({"code", "coded"})
          /\ IF cond_state THEN f_case ELSE status' = status /\ Untouched
      BY <1>7 DEF Case, Structured, Open, Reduce, InStatements, GiveUp
    <2>2. "case" \in Kinds /\ "case" \notin Bodies
      BY DEF Kinds, Bodies
    <2>3. cond_state => /\ Labels(Frame("case")) = 1 /\ Start(Frame("case")) = 0
                        /\ Breaks(Frame("case")) = 1
      BY SharesOpened
    <2>4. cond_state => /\ Moved(Len(label_stack_), 0, 1, 0, 1, 1)
                        /\ Named
                        /\ ForCode \/ "case" = "case"
      BY <2>1, OpeningMoved
    <2>5. QED
      BY <1>2, <2>1, <2>2, <2>3, <2>4
  <1>8. CASE ~cond_state /\ Colon
    <2>1. /\ nest' = Append(nest, Frame("definition")) /\ nest = <<>>
          /\ status' = status /\ Untouched
      BY <1>8 DEF Colon, Open, Reduce, AtTop, GiveUp
    <2>2. "definition" \in Kinds /\ ~Inside({"code", "coded"})
      BY <2>1 DEF Kinds, Inside
    <2>3. QED
      BY <1>1, <1>8, <2>1, <2>2, Opened
  <1>9. CASE ~cond_state /\ NoName
    <2>1. /\ nest' = Append(nest, Frame("noname")) /\ nest = <<>>
          /\ status' = status /\ Untouched
      BY <1>9 DEF NoName, Open, Reduce, AtTop, GiveUp
    <2>2. "noname" \in Kinds /\ ~Inside({"code", "coded"})
      BY <2>1 DEF Kinds, Inside
    <2>3. QED
      BY <1>1, <1>9, <2>1, <2>2, Opened
  <1>10. CASE ~cond_state /\ Code
    <2>1. /\ nest' = Append(nest, Frame("code")) /\ nest = <<>>
          /\ status' = status /\ Untouched
      BY <1>10 DEF Code, Open, Reduce, AtTop, GiveUp
    <2>2. "code" \in Kinds /\ ~Inside({"code", "coded"})
      BY <2>1 DEF Kinds, Inside
    <2>3. QED
      BY <1>1, <1>10, <2>1, <2>2, Opened
  <1>11. QED
    BY <1>3, <1>4, <1>5, <1>6, <1>7, <1>8, <1>9, <1>10

(* The words that close a control structure, and inactive definitions. *)
LEMMA ClosingOrdinary ==
  ASSUME ParserAssumption, TypeOK, Labelling, InStep', status' # "asserted", ~GiveUp,
         \/ Then \/ Loop \/ PlusLoop \/ Until \/ Repeat \/ EndOf \/ EndCase
         \/ ~cond_state /\ (Semicolon \/ EndCode)
  PROVE  Ordinary
  <1>0. Increasing
    BY DEF Labelling
  <1>1. ASSUME nest # <<>>, nest' = Front(nest), split' = (split \/ Top.active # cond_state),
               ~cond_state => Untouched /\ status' = status,
               NEW used, NEW labels, NEW start, NEW breaks,
               cond_state => Top.kind \notin Bodies,
               cond_state /\ Top.active =>
                             /\ Labels(Top) = labels /\ Start(Top) = start
                             /\ -Breaks(Top) = breaks,
               cond_state => /\ Moved(Len(label_stack_) - labels, start, 0, 0, used, breaks)
                             /\ Named /\ ForCode
                             /\ Top.kind \in {"case", "cased"} => optable_' # optable_
        PROVE  Ordinary
    <2>1. Top.active \in BOOLEAN /\ cond_state \in BOOLEAN
      <3>1. Top \in FrameSet
        BY <1>1, CloseReplaces
      <3>2. QED
        BY <3>1 DEF FrameSet, cond_state
    <2>2. Top.active <=> cond_state
      BY <1>1, <2>1 DEF InStep
    <2>3. status' = status
      BY <1>1 DEF Moved
    <2>4. Top.active => /\ Top.kind \notin Bodies
                        /\ Moved(Len(label_stack_) - Labels(Top), Start(Top), 0, 0, used, -Breaks(Top))
                        /\ Named /\ ForCode
      BY <1>1, <2>2
    <2>5. ~Top.active => Untouched
      BY <1>1, <2>2
    <2>6. Choice(Top) => optable_' # optable_
      BY <1>1, <2>2 DEF Choice
    <2>7. QED
      BY <1>1, <2>3, <2>4, <2>5, <2>6, Closed
  <1>2. CASE Then
    <2>1. /\ nest # <<>> /\ Top.kind \in {"if", "else"} /\ nest' = Front(nest)
          /\ split' = (split \/ Top.active # cond_state)
          /\ IF cond_state THEN f_then_endif ELSE status' = status /\ Untouched
      BY <1>2 DEF Then, Close, Inside, Reduce, GiveUp
    <2>2. Top.kind \notin Bodies
      BY <2>1 DEF Bodies
    <2>3. Top.active => Labels(Top) = 1 /\ Start(Top) = 0 /\ -Breaks(Top) = 0
      <3>1. Top.active => Labels(Top) = 1 /\ Start(Top) = 0
        BY <2>1 DEF Labels, Start
      <3>2. Breaks(Top) = 0
        BY <2>1 DEF Breaks
      <3>3. -Breaks(Top) = -0
        BY <3>2
      <3>4. QED
        BY <3>1, <3>3
    <2>4. cond_state => Moved(Len(label_stack_) - 1, 0, 0, 0, 0, 0) /\ Named /\ ForCode
      BY <1>0, <2>1, ClosingMoved
    <2>5. Top.kind \notin {"case", "cased"}
      BY <2>1
    <2>6. QED
      BY <1>1, <2>1, <2>2, <2>3, <2>4, <2>5
  <1>3. CASE Loop
    <2>1. /\ nest # <<>> /\ Top.kind \in {"do"} /\ nest' = Front(nest)
          /\ split' = (split \/ Top.active # cond_state)
          /\ IF cond_state THEN f_loop ELSE status' = status /\ Untouched
      BY <1>3 DEF Loop, Close, Inside, Reduce, GiveUp
    <2>2. Top.kind \notin Bodies
      BY <2>1 DEF Bodies
    <2>3. Top.active => Labels(Top) = 3 /\ Start(Top) = 2 /\ -Breaks(Top) = -1
      BY <2>1 DEF Labels, Start, Breaks
    <2>4. cond_state => Moved(Len(label_stack_) - 3, 2, 0, 0, 0, -1) /\ Named /\ ForCode
      BY <1>0, <2>1, ClosingMoved
    <2>5. Top.kind \notin {"case", "cased"}
      BY <2>1
    <2>6. QED
      BY <1>1, <2>1, <2>2, <2>3, <2>4, <2>5
  <1>4. CASE PlusLoop
    <2>1. /\ nest # <<>> /\ Top.kind \in {"do"} /\ nest' = Front(nest)
          /\ split' = (split \/ Top.active # cond_state)
          /\ IF cond_state THEN f_plus_loop ELSE status' = status /\ Untouched
      BY <1>4 DEF PlusLoop, Close, Inside, Reduce, GiveUp
    <2>2. Top.kind \notin Bodies
      BY <2>1 DEF Bodies
    <2>3. Top.active => Labels(Top) = 3 /\ Start(Top) = 2 /\ -Breaks(Top) = -1
      BY <2>1 DEF Labels, Start, Breaks
    <2>4. cond_state => Moved(Len(label_stack_) - 3, 2, 0, 0, 1, -1) /\ Named /\ ForCode
      BY <1>0, <2>1, ClosingMoved
    <2>5. Top.kind \notin {"case", "cased"}
      BY <2>1
    <2>6. QED
      BY <1>1, <2>1, <2>2, <2>3, <2>4, <2>5
  <1>5. CASE Until
    <2>1. /\ nest # <<>> /\ Top.kind \in {"begin"} /\ nest' = Front(nest)
          /\ split' = (split \/ Top.active # cond_state)
          /\ IF cond_state THEN f_until ELSE status' = status /\ Untouched
      BY <1>5 DEF Until, Close, Inside, Reduce, GiveUp
    <2>2. Top.kind \notin Bodies
      BY <2>1 DEF Bodies
    <2>3. Top.active => Labels(Top) = 2 /\ Start(Top) = 1 /\ -Breaks(Top) = -1
      BY <2>1 DEF Labels, Start, Breaks
    <2>4. cond_state => Moved(Len(label_stack_) - 2, 1, 0, 0, 0, -1) /\ Named /\ ForCode
      BY <1>0, <2>1, ClosingMoved
    <2>5. Top.kind \notin {"case", "cased"}
      BY <2>1
    <2>6. QED
      BY <1>1, <2>1, <2>2, <2>3, <2>4, <2>5
  <1>6. CASE Repeat
    <2>1. /\ nest # <<>> /\ Top.kind \in {"begin"} /\ nest' = Front(nest)
          /\ split' = (split \/ Top.active # cond_state)
          /\ IF cond_state THEN f_repeat_again ELSE status' = status /\ Untouched
      BY <1>6 DEF Repeat, Close, Inside, Reduce, GiveUp
    <2>2. Top.kind \notin Bodies
      BY <2>1 DEF Bodies
    <2>3. Top.active => Labels(Top) = 2 /\ Start(Top) = 1 /\ -Breaks(Top) = -1
      BY <2>1 DEF Labels, Start, Breaks
    <2>4. cond_state => Moved(Len(label_stack_) - 2, 1, 0, 0, 0, -1) /\ Named /\ ForCode
      BY <1>0, <2>1, ClosingMoved
    <2>5. Top.kind \notin {"case", "cased"}
      BY <2>1
    <2>6. QED
      BY <1>1, <2>1, <2>2, <2>3, <2>4, <2>5
  <1>7. CASE EndOf
    <2>1. /\ nest # <<>> /\ Top.kind \in {"of"} /\ nest' = Front(nest)
          /\ split' = (split \/ Top.active # cond_state)
          /\ IF cond_state THEN f_endof ELSE status' = status /\ Untouched
      BY <1>7 DEF EndOf, Close, Inside, Reduce, GiveUp
    <2>2. Top.kind \notin Bodies
      BY <2>1 DEF Bodies
    <2>3. Top.active => Labels(Top) = 1 /\ Start(Top) = 0 /\ -Breaks(Top) = 0
      <3>1. Top.active => Labels(Top) = 1 /\ Start(Top) = 0
        BY <2>1 DEF Labels, Start
      <3>2. Breaks(Top) = 0
        BY <2>1 DEF Breaks
      <3>3. -Breaks(Top) = -0
        BY <3>2
      <3>4. QED
        BY <3>1, <3>3
    <2>4. cond_state => Moved(Len(label_stack_) - 1, 0, 0, 0, 0, 0) /\ Named /\ ForCode
      BY <1>0, <2>1, ClosingMoved
    <2>5. Top.kind \notin {"case", "cased"}
      BY <2>1
    <2>6. QED
      BY <1>1, <2>1, <2>2, <2>3, <2>4, <2>5
  <1>8. CASE EndCase
    <2>1. /\ nest # <<>> /\ Top.kind \in {"cased"} /\ nest' = Front(nest)
          /\ split' = (split \/ Top.active # cond_state)
          /\ IF cond_state THEN f_endcase ELSE status' = status /\ Untouched
      BY <1>8 DEF EndCase, Close, Inside, Reduce, GiveUp
    <2>2. Top.kind \notin Bodies
      BY <2>1 DEF Bodies
    <2>3. Top.active => Labels(Top) = 1 /\ Start(Top) = 0 /\ -Breaks(Top) = -1
      BY <2>1 DEF Labels, Start, Breaks
    <2>4. cond_state => Moved(Len(label_stack_) - 1, 0, 0, 0, 0, -1) /\ Named /\ ForCode
      BY <1>0, <2>1, ClosingMoved
    <2>5. cond_state => optable_' # optable_
      <3>1. ASSUME cond_state, HaveLabels(1)
            PROVE  optable_' # optable_
        <4> DEFINE code == <<LabelOpcode(LabelUnder(0)), PopOpcode("R0", "DATA")>>
        <4>1. Emit(code)
          BY <2>1, <3>1 DEF f_endcase, Asserting, Structure
        <4>2. LabelOpcode(LabelUnder(0)) \in OpcodeSet(Symbols)
          BY <3>1, LabelsAbove, OpcodesTyped
        <4>3. PopOpcode("R0", "DATA") \in OpcodeSet(Symbols)
          BY OpcodesTyped
        <4>4. code \in Seq(OpcodeSet(Symbols)) /\ Len(code) > 0
          BY <4>2, <4>3
        <4> HIDE DEF code
        <4>5. QED
          BY <4>1, <4>4, LongerCode
      <3>2. cond_state => HaveLabels(1)
        BY <2>1 DEF f_endcase, Asserting
      <3>3. QED
        BY <3>1, <3>2
    <2>6. QED
      BY <1>1, <2>1, <2>2, <2>3, <2>4, <2>5
  <1>9. CASE ~cond_state /\ (Semicolon \/ EndCode)
    <2>1. /\ nest # <<>> /\ nest' = Front(nest)
          /\ split' = (split \/ Top.active # cond_state)
          /\ status' = status /\ Untouched
      BY <1>9 DEF Semicolon, EndCode, Close, Inside, Reduce, GiveUp
    <2>2. QED
      BY <1>1, <1>9, <2>1
  <1>10. QED
    BY <1>2, <1>3, <1>4, <1>5, <1>6, <1>7, <1>8, <1>9

(* ELSE, OF and inactive assembly. *)
LEMMA ContinuingOrdinary ==
  ASSUME ParserAssumption, TypeOK, Labelling, InStep', status' # "asserted", ~GiveUp,
         Else \/ Of \/ (~cond_state /\ Asm)
  PROVE  Ordinary
  <1>1. CASE Else
    <2>1. /\ nest # <<>> /\ Top.kind = "if" /\ nest' = Continue("else")
          /\ split' = (split \/ (~Top.active /\ cond_state))
          /\ IF cond_state THEN f_else ELSE status' = status /\ Untouched
      BY <1>1 DEF Else, Inside, Reduce, GiveUp
    <2>2. CASE ~cond_state
      <3>1. "else" \in Kinds
        BY DEF Kinds
      <3>2. Len(nest') = Len(nest) /\ \A i \in 1..Len(nest) : Alike(nest[i], nest'[i])
        BY <2>1, <3>1, AlikeContinued
      <3>3. QED
        BY <2>1, <2>2, <3>2, Stayed
    <2>3. CASE cond_state
      <3> DEFINE m == Len(nest) - 1
                 n == Len(label_stack_) - 1
      <3>1. Top.active
        BY <2>1, <2>3 DEF InStep
      <3>2. /\ Replaces(m, n, 0, 1, 0, 0) /\ m \in Nat
            /\ nest[Len(nest)].kind = "if" /\ nest'[Len(nest)].kind = "else"
        BY <2>1, <3>1, ElseReplaces
      <3>3. Moved(n, 0, 1, 0, 1, 0) /\ Named /\ ForCode
        BY <2>1, <2>3, ElseMoved
      <3> HIDE DEF n
      <3>4. Len(nest) = m + 1
        <4>1. Len(nest) \in Nat
          BY LenProperties DEF TypeOK
        <4>2. QED
          BY <4>1
      <3> HIDE DEF m
      <3>5. nest[m + 1].kind = "if" /\ nest'[m + 1].kind = "else" /\ ~Inside({"code", "coded"})
        BY <2>1, <3>2, <3>4 DEF Inside
      <3>6. Bodiless(m) /\ Announced(m)
        BY <3>3, <3>5 DEF Bodiless, Announced, Body, Bodies, Choice
      <3>7. QED
        BY <3>2, <3>3, <3>6 DEF Ordinary
    <2>4. QED
      BY <2>2, <2>3
  <1>2. CASE Of
    <2> DEFINE frames == Continue("cased")
    <2>1. /\ nest # <<>> /\ Top.kind \in {"case", "cased"}
          /\ nest' = Append(frames, Frame("of"))
          /\ IF cond_state THEN f_of ELSE status' = status /\ Untouched
      BY <1>2 DEF Of, Inside, Reduce, GiveUp
    <2>2. "cased" \in Kinds /\ "of" \in Kinds /\ "of" \notin Bodies /\ ~Inside({"code", "coded"})
      BY <2>1 DEF Kinds, Bodies, Inside
    <2>3. /\ frames \in Seq(FrameSet) /\ Len(frames) = Len(nest)
          /\ \A i \in 1..Len(nest) : Alike(nest[i], frames[i])
      BY <2>1, <2>2, AlikeContinued
    <2> HIDE DEF frames
    <2>4. cond_state => /\ Moved(Len(label_stack_), 0, 1, 0, 1, 0)
                        /\ Named /\ ForCode
      BY <2>1, OpeningMoved
    <2>5. cond_state => /\ "of" \notin Bodies
                        /\ Moved(Len(label_stack_), 0, Labels(Frame("of")),
                                 Start(Frame("of")), 1, Breaks(Frame("of")))
                        /\ Named
                        /\ ForCode \/ "of" = "case"
      BY <2>2, <2>4, SharesOpened
    <2>6. status' = status /\ (~cond_state => Untouched)
      BY <2>1, <2>4 DEF Moved
    <2>7. QED
      BY <2>1, <2>2, <2>3, <2>5, <2>6, Opened
  <1>3. CASE ~cond_state /\ Asm
    <2>1. /\ nest # <<>> /\ Top.kind \in {"code", "coded"} /\ nest' = Continue("coded")
          /\ status' = status /\ Untouched
      BY <1>3 DEF Asm, Inside, Reduce, GiveUp
    <2>2. "coded" \in Kinds
      BY DEF Kinds
    <2>3. Len(nest') = Len(nest) /\ \A i \in 1..Len(nest) : Alike(nest[i], nest'[i])
      BY <2>1, <2>2, AlikeContinued
    <2>4. QED
      BY <1>3, <2>1, <2>3, Stayed
  <1>4. QED
    BY <1>1, <1>2, <1>3

(* Every step that keeps in step is of one of the three classes. *)
LEMMA StepClasses ==
  ASSUME ParserAssumption, IInv, IInv', Labelling, InStep', [Next]_vars
  PROVE  Quiet \/ Ordinary \/ (Defining /\ ~GiveUp)
  <1>1. TypeOK /\ status' # "asserted"
    BY DEF IInv, AssertionsHold
  <1>2. CASE GiveUp
    BY <1>1, <1>2, QuietSteps
  <1>3. CASE Declaration \/ Straight
    BY <1>1, <1>3, StraightOrdinary
  <1>4. CASE Conditional \/ Ending \/ Stopped \/ UNCHANGED vars
    BY <1>1, <1>4, QuietSteps DEF Stopped
  <1>5. CASE Structures /\ ~GiveUp
    BY <1>1, <1>5, OpeningOrdinary, ClosingOrdinary, ContinuingOrdinary DEF Structures
  <1>6. CASE Definition /\ ~GiveUp
    <2>1. CASE ~cond_state
      BY <1>1, <1>6, <2>1, OpeningOrdinary, ClosingOrdinary, ContinuingOrdinary DEF Definition
    <2>2. CASE cond_state
      <3>1. ~excessive_errors
        BY <1>6 DEF Definition, Colon, NoName, Semicolon, Code, Asm, EndCode, Open, Close, Reduce
      <3>2. QED
        BY <1>6, <2>2, <3>1 DEF Definition, Defining
    <2>3. QED
      BY <2>1, <2>2
  <1>7. QED
    BY <1>2, <1>3, <1>4, <1>5, <1>6 DEF Next

-----------------------------------------------------------------------------
(* The handlers of definitions. *)

(* The code that ends a body: its exit label, its end, and, after :NONAME, *)
(* opcodes that push the execution token.                                  *)
EndsBody(code, l, symbol) ==
  /\ code \in Seq(OpcodeSet(Symbols)) /\ Len(code) \in {2, 4}
  /\ code[1] = LabelOpcode(l) /\ code[2] = EndDefineOpcode(symbol)
  /\ \A i \in 3..Len(code) : Mere(code[i])

(* What ; writes if there is a definition to end. *)
LEMMA SemicolonCode ==
  ASSUME ParserAssumption, TypeOK, cond_state, f_semicolon, status' # "asserted"
  PROVE  /\ HaveLabels(1) /\ status' = status /\ LabelUnder(0) \in Nat
         /\ PopLabels(1) /\ UNCHANGED <<label_sequence_, break_stack_>>
         /\ exit_label_' = 0 /\ current_definition_' = NoSymbol
         /\ current_definition_ = NoSymbol => UNCHANGED <<symbols, optable_>>
         /\ current_definition_ # NoSymbol =>
              \E code : /\ EndsBody(code, LabelUnder(0), current_definition_) /\ Emit(code)
                        /\ \/ Len(code) = 2 /\ UNCHANGED symbols
                           \/ Len(code) = 4 /\ detect_main(symtable_, NoSymbol, 0)
  <1> DEFINE l == LabelUnder(0)
             s == current_definition_
             body == <<LabelOpcode(l), EndDefineOpcode(s)>>
             xt   == <<LoadSymbolOpcode("R0", s), PushOpcode("R0", "DATA")>>
             S == OpcodeSet(Symbols)
  <1>1. /\ HaveLabels(1) /\ status' = status
        /\ PopLabels(1) /\ exit_label_' = 0 /\ UNCHANGED <<label_sequence_, break_stack_>>
        /\ current_definition_' = NoSymbol
        /\ s = NoSymbol => UNCHANGED <<symbols, optable_>>
        /\ s # NoSymbol => \/ Emit(body \o xt) /\ detect_main(symtable_, NoSymbol, 0)
                           \/ Emit(body) /\ UNCHANGED symbols
    BY DEF f_semicolon, Asserting
  <1>2. l \in Nat
    BY <1>1, LabelsAbove
  <1>3. s \in Symbols \cup {NoSymbol}
    BY DEF TypeOK, CodeOK
  <1> HIDE DEF l, s
  <1>4. LabelOpcode(l) \in S /\ EndDefineOpcode(s) \in S
    BY <1>2, <1>3, OpcodesTyped
  <1>5. Mere(LoadSymbolOpcode("R0", s)) /\ Mere(PushOpcode("R0", "DATA"))
    BY <1>3, MereOpcodes
  <1>6. LoadSymbolOpcode("R0", s) \in S /\ PushOpcode("R0", "DATA") \in S
    BY <1>5 DEF Mere
  <1> HIDE DEF S
  <1>7. /\ body \in Seq(S) /\ Len(body) = 2 /\ DOMAIN body = 1..2
        /\ body[1] = LabelOpcode(l) /\ body[2] = EndDefineOpcode(s)
    BY <1>4
  <1>8. /\ xt \in Seq(S) /\ Len(xt) = 2 /\ DOMAIN xt = 1..2
        /\ Mere(xt[1]) /\ Mere(xt[2])
    BY <1>5, <1>6
  <1> HIDE DEF body, xt
  <1>9. EndsBody(body, l, s)
    <2>1. 3..2 = {}
      OBVIOUS
    <2>2. QED
      BY <1>7, <2>1 DEF EndsBody, S
  <1>10. EndsBody(body \o xt, l, s)
    <2> DEFINE code == body \o xt
    <2>1. /\ code \in Seq(S) /\ Len(code) = 4
          /\ code[1] = LabelOpcode(l) /\ code[2] = EndDefineOpcode(s)
          /\ code[3] = xt[1] /\ code[4] = xt[2]
      <3>0. body \in Seq(S) /\ xt \in Seq(S)
        BY <1>7, <1>8
      <3>1. /\ body \o xt \in Seq(S) /\ Len(body \o xt) = Len(body) + Len(xt)
            /\ \A i \in DOMAIN body : (body \o xt)[i] = body[i]
            /\ \A i \in DOMAIN xt : (body \o xt)[Len(body) + i] = xt[i]
        BY <3>0, Joined
      <3>2. 1 \in 1..2 /\ 2 \in 1..2 /\ 2 + 1 = 3 /\ 2 + 2 = 4
        OBVIOUS
      <3>3. code[3] = xt[1] /\ code[4] = xt[2]
        BY <1>7, <1>8, <3>1, <3>2
      <3>4. code[1] = body[1] /\ code[2] = body[2]
        BY <1>7, <3>1, <3>2
      <3>5. QED
        BY <1>7, <1>8, <3>1, <3>2, <3>3, <3>4
    <2> HIDE DEF code
    <2>2. \A i \in 3..4 : Mere(code[i])
      <3>1. \A i \in 3..4 : i = 3 \/ i = 4
        OBVIOUS
      <3>2. QED
        BY <1>8, <2>1, <3>1
    <2>3. EndsBody(code, l, s)
      BY <2>1, <2>2 DEF EndsBody, S
    <2>4. QED
      BY <2>3 DEF code
  <1>11. s # NoSymbol =>
           \E code : /\ EndsBody(code, l, s) /\ Emit(code)
                     /\ \/ Len(code) = 2 /\ UNCHANGED symbols
                        \/ Len(code) = 4 /\ detect_main(symtable_, NoSymbol, 0)
    <2>1. Len(body) = 2
      BY <1>7
    <2>2. Len(body \o xt) = 4
      <3>1. body \in Seq(S) /\ xt \in Seq(S)
        BY <1>7, <1>8
      <3>2. Len(body \o xt) = Len(body) + Len(xt)
        BY <3>1, Joined
      <3>3. QED
        BY <1>7, <1>8, <3>2
    <2>3. CASE Emit(body) /\ UNCHANGED symbols
      BY <1>9, <2>1, <2>3
    <2>4. CASE Emit(body \o xt) /\ detect_main(symtable_, NoSymbol, 0)
      BY <1>10, <2>2, <2>4
    <2>5. QED
      BY <1>1, <2>3, <2>4
  <1>12. QED
    BY <1>1, <1>2, <1>11 DEF l, s

(* That code places the exit label alone, and refers to none. *)
LEMMA EndsBodyPlaces ==
  ASSUME NEW code, NEW l, NEW symbol, EndsBody(code, l, symbol)
  PROVE  Placed(code) = {l} /\ Referred(code) = {} /\ Once(code)
  <1>1. DOMAIN code = 1..Len(code) /\ Len(code) \in {2, 4}
    BY LenProperties DEF EndsBody
  <1>2. code[1].op = "label" /\ code[1].n = l /\ code[2].op = "enddefine"
    BY DEF EndsBody, LabelOpcode, EndDefineOpcode, Targeted, Symbolic, Opcode
  <1>3. \A i \in DOMAIN code : i = 1 \/ i = 2 \/ i \in 3..Len(code)
    BY <1>1
  <1>4. \A i \in DOMAIN code : i = 1 \/ i = 2 \/ Mere(code[i])
    BY <1>3 DEF EndsBody
  <1>5. \A i \in DOMAIN code : is_label_opcode(code[i]) <=> i = 1
    BY <1>2, <1>4 DEF is_label_opcode, Mere
  <1>6. \A i \in DOMAIN code : ~is_branching_opcode(code[i])
    BY <1>2, <1>4 DEF is_branching_opcode, Mere, BranchingOps
  <1>7. 1 \in DOMAIN code
    BY <1>1
  <1>8. QED
    BY <1>2, <1>5, <1>6, <1>7 DEF Placed, Referred, Once

(* A single opcode that is no label and no branch. *)
LEMMA SingleOpcode ==
  ASSUME NEW o \in OpcodeSet(Symbols), o.op # "label", o.op \notin BranchingOps
  PROVE  /\ <<o>> \in Seq(OpcodeSet(Symbols)) /\ Len(<<o>>) = 1 /\ <<o>>[1] = o
         /\ Placed(<<o>>) = {} /\ Referred(<<o>>) = {} /\ Once(<<o>>)
  BY DEF Placed, Referred, Once, is_label_opcode, is_branching_opcode

(* The opcodes that begin and end a definition. *)
LEMMA BoundOpcodes ==
  ASSUME ParserAssumption, NEW s \in Symbols \cup {NoSymbol}
  PROVE  /\ DefineOpcode(s) \in OpcodeSet(Symbols) /\ DefineOpcode(s).op = "define"
         /\ DefineOpcode(s).s = s
         /\ EndDefineOpcode(s) \in OpcodeSet(Symbols) /\ EndDefineOpcode(s).op = "enddefine"
         /\ EndDefineOpcode(s).s = s
         /\ AssemblyOpcode \in OpcodeSet(Symbols) /\ AssemblyOpcode.op = "assembly"
         /\ "define" \notin BranchingOps /\ "enddefine" \notin BranchingOps
         /\ "assembly" \notin BranchingOps
  BY OpcodesTyped DEF DefineOpcode, EndDefineOpcode, AssemblyOpcode, Plain, Symbolic, Opcode,
     BranchingOps

(* One label is pushed, or popped; or none. *)
LEMMA OneLabel ==
  ASSUME TypeOK
  PROVE  LET n == Len(label_stack_) IN
         /\ PushLabels(1) => Shifts(n, 1, 1)
         /\ HaveLabels(1) /\ PopLabels(1) /\ UNCHANGED label_sequence_ => Shifts(n - 1, 0, 0)
         /\ UNCHANGED <<label_stack_, label_sequence_>> => Shifts(n, 0, 0)
  <1> DEFINE n == Len(label_stack_)
             fresh == [i \in 1..1 |-> label_sequence_ + i - 1]
  <1>1. /\ n \in Nat /\ label_sequence_ \in Nat /\ DOMAIN label_stack_ = 1..n
        /\ label_stack_ \in Seq(Nat)
    BY LenProperties DEF TypeOK, FlowOK
  <1>2. ASSUME PushLabels(1) PROVE Shifts(n, 1, 1)
    <2>1. fresh \in Seq(Nat) /\ Len(fresh) = 1 /\ DOMAIN fresh = 1..1
      BY <1>1
    <2>2. label_stack_' = label_stack_ \o fresh /\ label_sequence_' = label_sequence_ + 1
      BY <1>2 DEF PushLabels
    <2>3. \A k \in 1..1 : fresh[k] = label_sequence_ + k - 1
      OBVIOUS
    <2> HIDE DEF fresh
    <2>4. /\ Len(label_stack_ \o fresh) = n + 1
          /\ \A p \in 1..n : (label_stack_ \o fresh)[p] = label_stack_[p]
          /\ \A k \in 1..1 : (label_stack_ \o fresh)[n + k] = fresh[k]
      BY <1>1, <2>1, Joined
    <2>5. /\ Len(label_stack_') = n + 1
          /\ \A p \in 1..n : label_stack_'[p] = label_stack_[p]
          /\ \A k \in 1..1 : label_stack_'[n + k] = label_sequence_ + k - 1
      BY <2>2, <2>3, <2>4
    <2>6. QED
      BY <1>1, <2>2, <2>5 DEF Shifts
  <1>3. ASSUME HaveLabels(1), PopLabels(1), UNCHANGED label_sequence_
        PROVE  Shifts(n - 1, 0, 0)
    <2>1. n - 1 \in 0..n
      BY <1>1, <1>3 DEF HaveLabels
    <2>2. Len(label_stack_') = n - 1 /\ \A p \in 1..(n - 1) : label_stack_'[p] = label_stack_[p]
      BY <1>1, <1>3, <2>1 DEF PopLabels
    <2>3. QED
      BY <1>1, <1>3, <2>1, <2>2 DEF Shifts
  <1>4. ASSUME UNCHANGED <<label_stack_, label_sequence_>> PROVE Shifts(n, 0, 0)
    BY <1>1, <1>4 DEF Shifts
  <1>5. QED
    BY <1>2, <1>3, <1>4

(* A :NONAME word that meets no other of its name begins its definition.   *)
LEMMA NonameBegins ==
  ASSUME NEW s \in Anons, f_nonameword(s), InStep'
  PROVE  /\ symtable_[s] = "none" /\ OpenBody /\ StartDefinition(s, "anonword")
         /\ UNCHANGED <<status, implicit_main_, error_count_>>
  BY DEF f_nonameword, InStep, Defined

(* The definition actions in active code: what opens, goes on or closes,   *)
(* and the handler that runs.                                              *)
LEMMA DefiningActs ==
  ASSUME Defining, ~GiveUp
  PROVE  /\ UNCHANGED cond_stack_ /\ status = "parsing"
         /\ \/ \E s \in Names : /\ nest = <<>> /\ nest' = Append(nest, Frame("definition"))
                                /\ f_definedword(s)
            \/ \E s \in Anons : /\ nest = <<>> /\ nest' = Append(nest, Frame("noname"))
                                /\ symtable_[s] # "anonword" /\ f_nonameword(s)
            \/ \E s \in Names : /\ nest = <<>> /\ nest' = Append(nest, Frame("code"))
                                /\ f_codeword(s)
            \/ \E comment \in BOOLEAN :
                 /\ nest # <<>> /\ Top.kind \in {"code", "coded"} /\ nest' = Continue("coded")
                 /\ f_code(comment)
            \/ /\ nest # <<>> /\ Top.kind \in {"definition", "noname"} /\ nest' = Front(nest)
               /\ split' = (split \/ Top.active # cond_state) /\ f_semicolon
            \/ /\ nest # <<>> /\ Top.kind = "coded" /\ nest' = Front(nest)
               /\ split' = (split \/ Top.active # cond_state) /\ f_end_code
  <1>1. cond_state /\ ~excessive_errors
    BY DEF Defining
  <1>2. CASE Colon
    BY <1>1, <1>2 DEF Colon, AtTop, Open, Reduce
  <1>3. CASE NoName
    BY <1>1, <1>3 DEF NoName, AtTop, Open, Reduce
  <1>4. CASE Code
    BY <1>1, <1>4 DEF Code, AtTop, Open, Reduce
  <1>5. CASE Asm
    BY <1>1, <1>5 DEF Asm, Inside, Reduce
  <1>6. CASE Semicolon
    BY <1>1, <1>6 DEF Semicolon, Close, Inside, Reduce
  <1>7. CASE EndCode
    BY <1>1, <1>7 DEF EndCode, Close, Inside, Reduce
  <1>8. QED
    BY <1>2, <1>3, <1>4, <1>5, <1>6, <1>7 DEF Defining

(* They too keep the labels in order and apart. *)
LEMMA DefiningLabelled ==
  ASSUME ParserAssumption, TypeOK, Labelling, InStep', status' # "asserted", ~GiveUp, Defining
  PROVE  \E m, kept, old, fresh, new, used, breaks :
           Replaces(m, kept, old, fresh, new, breaks) /\ Labelled(kept, old, fresh, new, used, breaks)
  <1> DEFINE n == Len(label_stack_)
             m == Len(nest)
  <1>0. cond_state
    BY DEF Defining
  <1>1. ASSUME NEW kept, NEW old, NEW fresh, Shifts(kept, fresh, fresh), UNCHANGED break_stack_,
               NEW code, code \in Seq(OpcodeSet(Symbols)), Emit(code), Once(code),
               Placed(code) \subseteq Above(kept, old)
        PROVE  Labelled(kept, old, fresh, 0, fresh, 0)
    <2>1. Placed(code) \subseteq NewlyPlaced(kept, old, fresh, 0, fresh)
      BY <1>1 DEF NewlyPlaced
    <2>2. BreaksMove(0)
      BY <1>1 DEF BreaksMove
    <2>3. QED
      BY <1>1, <2>1, <2>2 DEF Labelled, Emit
  <1>2. ASSUME NEW kept, NEW old, NEW fresh, Shifts(kept, fresh, fresh), UNCHANGED break_stack_,
               UNCHANGED optable_
        PROVE  Labelled(kept, old, fresh, 0, fresh, 0)
    <2>1. Emit(<<>>)
      BY <1>2, EmptySeq DEF Emit, TypeOK, CodeOK
    <2>2. /\ <<>> \in Seq(OpcodeSet(Symbols))
          /\ Once(<<>>) /\ Placed(<<>>) = {}
      <3>1. Carries(<<>>, {}, {})
        BY EmptySeq DEF Carries, Placed, Referred, Once, Inner
      <3>2. QED
        BY <3>1 DEF Carries
    <2> DEFINE none == <<>>
    <2> HIDE DEF none
    <2>3. /\ none \in Seq(OpcodeSet(Symbols)) /\ Emit(none) /\ Once(none)
          /\ Placed(none) \subseteq Above(kept, old)
      BY <2>1, <2>2 DEF none
    <2>4. QED
      BY <1>1, <1>2, <2>3
  <1>3. ASSUME NEW kept, NEW old, NEW fresh, Shifts(kept, fresh, fresh), UNCHANGED break_stack_,
               NEW o \in OpcodeSet(Symbols), o.op # "label", o.op \notin BranchingOps, Emit(<<o>>)
        PROVE  Labelled(kept, old, fresh, 0, fresh, 0)
    <2> DEFINE code == <<o>>
    <2>1. /\ code \in Seq(OpcodeSet(Symbols)) /\ Once(code) /\ Placed(code) = {} /\ Emit(code)
      BY <1>3, SingleOpcode
    <2> HIDE DEF code
    <2>2. QED
      BY <1>1, <1>3, <2>1
  <1>4. /\ nest \in Seq(FrameSet) /\ Len(nest) = Len(nest)
        /\ \A i \in 1..Len(nest) : Alike(nest[i], nest[i])
    BY AlikeItself DEF TypeOK
  <1>5. ASSUME NEW s \in Names, nest' = Append(nest, Frame("definition")), f_definedword(s)
        PROVE  Replaces(m, n, 0, 1, 0, 0) /\ Labelled(n, 0, 1, 0, 1, 0)
    <2>1. "definition" \in Kinds
      BY DEF Kinds
    <2>2. Replaces(m, n, 0, Labels(Frame("definition")), Start(Frame("definition")),
                   Breaks(Frame("definition")))
      BY <1>4, <1>5, <2>1, OpenReplaces
    <2>3. Replaces(m, n, 0, 1, 0, 0)
      BY <1>0, <2>2, SharesOpened
    <2>4. PushLabels(1) /\ UNCHANGED break_stack_ /\ (UNCHANGED optable_ \/ Emit(<<DefineOpcode(s)>>))
      BY <1>5 DEF f_definedword, Handler, Asserting, OpenBody, StartDefinition
    <2>5. Shifts(n, 1, 1)
      BY <2>4, OneLabel
    <2>6. CASE UNCHANGED optable_
      BY <1>2, <2>3, <2>4, <2>5, <2>6
    <2>7. CASE Emit(<<DefineOpcode(s)>>)
      <3>1. /\ DefineOpcode(s) \in OpcodeSet(Symbols) /\ DefineOpcode(s).op # "label"
            /\ DefineOpcode(s).op \notin BranchingOps
        BY BoundOpcodes, ZenonT(40) DEF Symbols
      <3>2. QED
        BY <1>3, <2>3, <2>4, <2>5, <2>7, <3>1
    <2>8. QED
      BY <2>4, <2>6, <2>7
  <1>6. ASSUME NEW s \in Anons, nest' = Append(nest, Frame("noname")), f_nonameword(s)
        PROVE  Replaces(m, n, 0, 1, 0, 0) /\ Labelled(n, 0, 1, 0, 1, 0)
    <2>1. "noname" \in Kinds
      BY DEF Kinds
    <2>2. Replaces(m, n, 0, Labels(Frame("noname")), Start(Frame("noname")),
                   Breaks(Frame("noname")))
      BY <1>4, <1>6, <2>1, OpenReplaces
    <2>3. Replaces(m, n, 0, 1, 0, 0)
      BY <1>0, <2>2, SharesOpened
    <2>4. PushLabels(1) /\ UNCHANGED break_stack_ /\ Emit(<<DefineOpcode(s)>>)
      BY <1>6, NonameBegins DEF OpenBody, StartDefinition
    <2>5. Shifts(n, 1, 1)
      BY <2>4, OneLabel
    <2>6. /\ DefineOpcode(s) \in OpcodeSet(Symbols) /\ DefineOpcode(s).op # "label"
          /\ DefineOpcode(s).op \notin BranchingOps
      BY BoundOpcodes, ZenonT(40) DEF Symbols
    <2>7. QED
      BY <1>3, <2>3, <2>4, <2>5, <2>6
  <1>7. ASSUME NEW s \in Names, nest' = Append(nest, Frame("code")), f_codeword(s)
        PROVE  Replaces(m, n, 0, 0, 0, 0) /\ Labelled(n, 0, 0, 0, 0, 0)
    <2>1. "code" \in Kinds
      BY DEF Kinds
    <2>2. Replaces(m, n, 0, Labels(Frame("code")), Start(Frame("code")), Breaks(Frame("code")))
      BY <1>4, <1>7, <2>1, OpenReplaces
    <2>3. Replaces(m, n, 0, 0, 0, 0)
      BY <1>0, <2>2, SharesOpened
    <2>4. UNCHANGED flow /\ (UNCHANGED optable_ \/ Emit(<<DefineOpcode(s)>>))
      BY <1>7 DEF f_codeword, Handler, Asserting, Reject, StartDefinition
    <2>5. Shifts(n, 0, 0)
      BY <2>4, OneLabel DEF flow
    <2>6. CASE UNCHANGED optable_
      BY <1>2, <2>3, <2>4, <2>5, <2>6 DEF flow
    <2>7. CASE Emit(<<DefineOpcode(s)>>)
      <3>1. /\ DefineOpcode(s) \in OpcodeSet(Symbols) /\ DefineOpcode(s).op # "label"
            /\ DefineOpcode(s).op \notin BranchingOps
        BY BoundOpcodes, ZenonT(40) DEF Symbols
      <3>2. UNCHANGED break_stack_
        BY <2>4 DEF flow
      <3>3. QED
        BY <1>3, <2>3, <2>5, <2>7, <3>1, <3>2
    <2>8. QED
      BY <2>4, <2>6, <2>7
  <1>8. ASSUME NEW comment \in BOOLEAN, nest # <<>>, Top.kind \in {"code", "coded"},
               nest' = Continue("coded"), f_code(comment)
        PROVE  Replaces(m, n, 0, 0, 0, 0) /\ Labelled(n, 0, 0, 0, 0, 0)
    <2>1. "coded" \in Kinds
      BY DEF Kinds
    <2>2. Len(nest') = Len(nest) /\ \A i \in 1..Len(nest) : Alike(nest[i], nest'[i])
      BY <1>8, <2>1, AlikeContinued
    <2>3. Replaces(m, n, 0, 0, 0, 0)
      BY <2>2, SameReplaces
    <2>4. UNCHANGED flow /\ (Emit(<<>>) \/ Emit(<<AssemblyOpcode>>))
      BY <1>8 DEF f_code, Handler, Asserting
    <2>5. Shifts(n, 0, 0) /\ UNCHANGED break_stack_
      BY <2>4, OneLabel DEF flow
    <2>6. CASE Emit(<<>>)
      <3>1. UNCHANGED optable_
        BY <2>6, EmptySeq DEF Emit, TypeOK, CodeOK
      <3>2. QED
        BY <1>2, <2>3, <2>5, <3>1
    <2>7. CASE Emit(<<AssemblyOpcode>>)
      <3>1. /\ AssemblyOpcode \in OpcodeSet(Symbols) /\ AssemblyOpcode.op # "label"
            /\ AssemblyOpcode.op \notin BranchingOps
        BY BoundOpcodes
      <3>2. QED
        BY <1>3, <2>3, <2>5, <2>7, <3>1
    <2>8. QED
      BY <2>4, <2>6, <2>7
  <1>9. ASSUME nest # <<>>, Top.kind \in {"definition", "noname"}, nest' = Front(nest),
               split' = (split \/ Top.active # cond_state), f_semicolon
        PROVE  Replaces(m - 1, n - 1, 0, 0, 0, 0) /\ Labelled(n - 1, 0, 0, 0, 0, 0)
    <2>1. Top.active
      <3>1. Top \in FrameSet
        BY <1>9, CloseReplaces
      <3>2. QED
        BY <1>0, <1>9, <3>1 DEF InStep, FrameSet
    <2>2. Labels(Top) = 1 /\ Start(Top) = 0 /\ Breaks(Top) = 0
      BY <1>9, <2>1 DEF Labels, Start, Breaks
    <2>3. Replaces(m - 1, n - Labels(Top), Start(Top), 0, 0, -Breaks(Top))
      BY <1>9, CloseReplaces
    <2>4. -Breaks(Top) = -0
      BY <2>2
    <2>5. -Breaks(Top) = 0
      BY <2>4
    <2>6. Replaces(m - 1, n - 1, 0, 0, 0, 0)
      BY <2>2, <2>3, <2>5
    <2>7. /\ HaveLabels(1) /\ PopLabels(1) /\ UNCHANGED <<label_sequence_, break_stack_>>
          /\ current_definition_ = NoSymbol => UNCHANGED optable_
          /\ current_definition_ # NoSymbol =>
               \E code : EndsBody(code, LabelUnder(0), current_definition_) /\ Emit(code)
      BY <1>0, <1>9, SemicolonCode
    <2>8. Shifts(n - 1, 0, 0)
      BY <2>7, OneLabel
    <2>9. CASE current_definition_ = NoSymbol
      BY <1>2, <2>6, <2>7, <2>8, <2>9
    <2>10. CASE current_definition_ # NoSymbol
      <3>1. PICK code : EndsBody(code, LabelUnder(0), current_definition_) /\ Emit(code)
        BY <2>7, <2>10
      <3>2. Placed(code) = {LabelUnder(0)} /\ Once(code) /\ code \in Seq(OpcodeSet(Symbols))
        BY <3>1, EndsBodyPlaces DEF EndsBody
      <3>3. Above(n - 1, 0) = {LabelUnder(0)}
        BY <2>7, LabelsAbove
      <3> HIDE DEF n
      <3>4. Labelled(n - 1, 0, 0, 0, 0, 0)
        BY <1>1, <2>7, <2>8, <3>1, <3>2, <3>3
      <3>5. QED
        BY <2>6, <3>4
    <2>11. QED
      BY <2>9, <2>10
  <1>10. ASSUME nest # <<>>, Top.kind = "coded", nest' = Front(nest), f_end_code
         PROVE  Replaces(m - 1, n, 0, 0, 0, 0) /\ Labelled(n, 0, 0, 0, 0, 0)
    <2>1. Labels(Top) = 0 /\ Start(Top) = 0 /\ Breaks(Top) = 0
      BY <1>10 DEF Labels, Start, Breaks
    <2>2. Replaces(m - 1, n - Labels(Top), Start(Top), 0, 0, -Breaks(Top))
      BY <1>10, CloseReplaces
    <2>3. -Breaks(Top) = -0
      BY <2>1
    <2>4. -Breaks(Top) = 0 /\ n - Labels(Top) = n
      <3>1. n \in Nat
        BY LenProperties DEF TypeOK, FlowOK
      <3> HIDE DEF n
      <3>2. n - Labels(Top) = n
        BY <2>1, <3>1
      <3>3. QED
        BY <2>3, <3>2
    <2>5. Replaces(m - 1, n, 0, 0, 0, 0)
      BY <2>1, <2>2, <2>4
    <2>6. UNCHANGED flow /\ (UNCHANGED optable_ \/ Emit(<<EndDefineOpcode(current_definition_)>>))
      BY <1>10 DEF f_end_code, Handler, Asserting
    <2>7. Shifts(n, 0, 0) /\ UNCHANGED break_stack_
      BY <2>6, OneLabel DEF flow
    <2>8. CASE UNCHANGED optable_
      BY <1>2, <2>5, <2>7, <2>8
    <2>9. CASE Emit(<<EndDefineOpcode(current_definition_)>>)
      <3> DEFINE o == EndDefineOpcode(current_definition_)
      <3>1. o \in OpcodeSet(Symbols) /\ o.op # "label" /\ o.op \notin BranchingOps
        BY BoundOpcodes DEF TypeOK, CodeOK
      <3> HIDE DEF o
      <3>2. Emit(<<o>>)
        BY <2>9 DEF o
      <3>3. QED
        BY <1>3, <2>5, <2>7, <3>1, <3>2
    <2>10. QED
      BY <2>6, <2>8, <2>9
  <1>11. QED
    BY <1>5, <1>6, <1>7, <1>8, <1>9, <1>10, DefiningActs

-----------------------------------------------------------------------------
(* The invariant. *)

(* Nothing is open and nothing is placed at the start. *)
LEMMA InitLabels ==
  ASSUME Init
  PROVE  LabelInv
  <1>1. DOMAIN nest = {} /\ DOMAIN label_stack_ = {} /\ DOMAIN optable_ = {}
    BY EmptySeq DEF Init
  <1>2. Chained(nest, Len(label_stack_), Len(break_stack_))
    BY <1>1 DEF Chained, Init
  <1>3. Increasing /\ Drawn /\ Once(optable_) /\ Pending(nest, label_stack_, Placed(optable_))
    BY <1>1 DEF Increasing, Drawn, Once, Placed, Pending
  <1>4. QED
    BY <1>2, <1>3 DEF LabelInv, Labelling

(* A quiet step leaves the labels alone; if nothing is open any more, no   *)
(* frame has a share to account for.                                       *)
LEMMA QuietLabels ==
  ASSUME TypeOK, Labelling, Quiet
  PROVE  Labelling'
  <1>1. UNCHANGED <<label_stack_, break_stack_, label_sequence_, optable_>>
    BY DEF Quiet, flow
  <1>2. Increasing' /\ Drawn' /\ Once(optable_')
    BY <1>1 DEF Labelling, Increasing, Drawn
  <1>3. CASE nest' = nest
    BY <1>1, <1>2, <1>3 DEF Labelling
  <1>4. CASE nest' = <<>>
    <2>1. DOMAIN nest' = {}
      BY <1>4
    <2>2. Chained(nest, Len(label_stack_), Len(break_stack_))'
      BY <1>4, <2>1 DEF Chained
    <2>3. Pending(nest, label_stack_, Placed(optable_))'
      BY <2>1 DEF Pending
    <2>4. QED
      BY <1>2, <2>2, <2>3 DEF Labelling
  <1>5. QED
    BY <1>3, <1>4 DEF Quiet

(* A parse that is out of step stays so. *)
LEMMA StaysSplit ==
  ASSUME TypeOK, [Next]_vars, InStep'
  PROVE  InStep
  <1>1. CASE GiveUp
    BY <1>1 DEF GiveUp, InStep
  <1>2. CASE Declaration /\ ~GiveUp
    BY <1>2 DEF Declaration, Variable, Constant, FConstant, Create, Plainly, Reduce, InStep
  <1>3. CASE Straight /\ ~GiveUp
    BY <1>3 DEF Straight, Exit, PString, AString, CString, Integer, Float, StringLiteral,
       CharLiteral, ObjectAddress, Word, Recurse, Leave, QueryLeave, While, Statement, Plainly,
       Reduce, InStep
  <1>4. CASE (Colon \/ NoName \/ Code \/ If \/ Do \/ QueryDo \/ Begin \/ Case) /\ ~GiveUp
    BY <1>4 DEF Colon, NoName, Code, If, Do, QueryDo, Begin, Case, Structured, Open, Reduce, InStep
  <1>5. CASE (Semicolon \/ EndCode \/ Then \/ Loop \/ PlusLoop \/ Until \/ Repeat \/ EndOf \/ EndCase)
               /\ ~GiveUp
    BY <1>5 DEF Semicolon, EndCode, Then, Loop, PlusLoop, Until, Repeat, EndOf, EndCase, Close,
       Reduce, InStep
  <1>6. CASE (Asm \/ Else \/ Of) /\ ~GiveUp
    BY <1>6 DEF Asm, Else, Of, Reduce, InStep
  <1>7. CASE Conditional /\ ~GiveUp
    BY <1>7 DEF Conditional, CondIfdef, CondElse, CondThen, Directive, InStep
  <1>8. CASE (Ending \/ Stopped \/ UNCHANGED vars) /\ ~GiveUp
    BY <1>8 DEF Ending, SyntaxError, Recover, EndInRecovery, f_end_of_file, parse_cleanup, Stopped,
       vars, InStep
  <1>9. QED
    BY <1>1, <1>2, <1>3, <1>4, <1>5, <1>6, <1>7, <1>8 DEF Next, Definition, Structures

(* Every step keeps the labels in order and apart. *)
LEMMA StepLabels ==
  ASSUME ParserAssumption, IInv, LabelInv, [Next]_vars
  PROVE  LabelInv'
  <1>1. SUFFICES ASSUME InStep' PROVE Labelling'
    BY DEF LabelInv
  <1>2. IInv' /\ TypeOK /\ TypeOK'
    BY StepInv DEF IInv
  <1>3. Labelling
    BY <1>1, <1>2, StaysSplit DEF LabelInv
  <1>4. status' # "asserted"
    BY <1>1, <1>2 DEF IInv, AssertionsHold
  <1>5. CASE Quiet
    BY <1>2, <1>3, <1>5, QuietLabels
  <1>6. CASE Ordinary
    <2>1. PICK m, kept, old, fresh, new, used, breaks :
            /\ Replaces(m, kept, old, fresh, new, breaks)
            /\ Moved(kept, old, fresh, new, used, breaks)
      BY <1>6 DEF Ordinary
    <2>2. Labelled(kept, old, fresh, new, used, breaks)
      BY <2>1, MovedLabelled
    <2>3. QED
      BY <1>2, <1>3, <2>1, <2>2, LabellingNext
  <1>7. CASE Defining /\ ~GiveUp
    <2>1. PICK m, kept, old, fresh, new, used, breaks :
            /\ Replaces(m, kept, old, fresh, new, breaks)
            /\ Labelled(kept, old, fresh, new, used, breaks)
      BY <1>1, <1>2, <1>3, <1>4, <1>7, DefiningLabelled
    <2>2. QED
      BY <1>2, <1>3, <2>1, LabellingNext
  <1>8. QED
    BY <1>1, <1>2, <1>3, <1>5, <1>6, <1>7, StepClasses

(* The labels of the open constructs fill the stack in order, are in       *)
(* increasing order, and are placed only where an open loop began.         *)
THEOREM LabelsInOrder == Spec => [](IInv /\ LabelInv)
  <1>1. Init => IInv /\ LabelInv
    BY ParserAssumption, InitInv, InitLabels
  <1>2. IInv /\ LabelInv /\ [Next]_vars => IInv' /\ LabelInv'
    BY ParserAssumption, StepInv, StepLabels
  <1>3. QED
    BY <1>1, <1>2, PTL DEF Spec

(* No label is placed twice, which the assembler would refuse: whatever    *)
(* was refused, and wherever syntax errors were, as long as no construct   *)
(* is split by a conditional.                                              *)
THEOREM NoLabelTwice == Spec => []LabelsPlacedOnce
  <1>1. LabelInv => LabelsPlacedOnce
    BY DEF LabelInv, Labelling, Once, LabelsPlacedOnce
  <1>2. QED
    BY <1>1, LabelsInOrder, PTL
=============================================================================
