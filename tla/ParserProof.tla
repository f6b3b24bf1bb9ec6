----------------------------- MODULE ParserProof -----------------------------
(***************************************************************************)
(* Proofs about Parser, for all tokens, names and bounds.  The invariant   *)
(* IInv joins the types, the frames of the open constructs and the         *)
(* asserts: an assert holds because the frame of the construct that a      *)
(* token closes has its labels on the stacks, and a frame keeps its labels *)
(* because every handler pops exactly the share of one frame.              *)
(*                                                                         *)
(* First the types, handler by handler; then the frames, for a construct   *)
(* that opens, closes or goes on; then one lemma per group of actions.     *)
(***************************************************************************)
EXTENDS Parser, SequenceTheorems, TLAPS

(* Every opcode the handlers write is an opcode over the symbols. *)
LEMMA OpcodesTyped ==
  ASSUME ParserAssumption
  PROVE  /\ \A l \in Nat, r \in {"R0", "R1"} :
              /\ LabelOpcode(l) \in OpcodeSet(Symbols)
              /\ JumpOpcode(l) \in OpcodeSet(Symbols)
              /\ JumpZeroOpcode(r, l) \in OpcodeSet(Symbols)
              /\ JumpNonZeroOpcode(r, l) \in OpcodeSet(Symbols)
              /\ JumpLessZeroOpcode(r, l) \in OpcodeSet(Symbols)
              /\ JumpGreaterEqualZeroOpcode(r, l) \in OpcodeSet(Symbols)
         /\ \A l \in Nat, r, q \in {"R0", "R1"} :
              /\ JumpEqualOpcode(r, q, l) \in OpcodeSet(Symbols)
              /\ JumpNotEqualOpcode(r, q, l) \in OpcodeSet(Symbols)
              /\ AddRegisterOpcode(r, q) \in OpcodeSet(Symbols)
              /\ SubtractRegisterOpcode(r, q) \in OpcodeSet(Symbols)
         /\ \A v \in Int, r \in {"R0", "R1"} :
              /\ LoadValueOpcode(r, v) \in OpcodeSet(Symbols)
              /\ AddValueOpcode(r, v) \in OpcodeSet(Symbols)
              /\ LoadDataOpcode(r) \in OpcodeSet(Symbols)
         /\ \A r \in {"R0", "R1"}, s \in {"DATA", "RETURN", "FLOAT"} :
              /\ PushOpcode(r, s) \in OpcodeSet(Symbols)
              /\ PopOpcode(r, s) \in OpcodeSet(Symbols)
         /\ \A s \in Symbols \cup {NoSymbol}, r \in {"R0", "R1"} :
              /\ CallOpcode(s) \in OpcodeSet(Symbols)
              /\ DefineOpcode(s) \in OpcodeSet(Symbols)
              /\ EndDefineOpcode(s) \in OpcodeSet(Symbols)
              /\ LoadSymbolOpcode(r, s) \in OpcodeSet(Symbols)
              /\ LoadSymbolIndirectOpcode(r, s) \in OpcodeSet(Symbols)
              /\ StoreSymbolIndirectOpcode(r, s) \in OpcodeSet(Symbols)
         /\ AssemblyOpcode \in OpcodeSet(Symbols)
  BY DEF LabelOpcode, JumpOpcode, JumpZeroOpcode, JumpNonZeroOpcode, JumpLessZeroOpcode,
         JumpGreaterEqualZeroOpcode, JumpEqualOpcode, JumpNotEqualOpcode,
         AddRegisterOpcode, SubtractRegisterOpcode, LoadValueOpcode, AddValueOpcode,
         LoadDataOpcode, PushOpcode, PopOpcode, CallOpcode, DefineOpcode,
         EndDefineOpcode, LoadSymbolOpcode, LoadSymbolIndirectOpcode,
         StoreSymbolIndirectOpcode, AssemblyOpcode, Plain, Symbolic, Targeted, Opcode,
         OpcodeSet, BranchingOps, OtherOps

(* Joining two sequences over a set stays over that set. *)
LEMMA SeqJoin ==
  ASSUME NEW S, NEW s \in Seq(S), NEW t \in Seq(S)
  PROVE  s \o t \in Seq(S)
  OBVIOUS

(* detect_main keeps the symbol table, the flag of implicit main and the *)
(* error count typed.                                                    *)
LEMMA DetectMainTyped ==
  ASSUME ParserAssumption, TypeOK, NEW table \in [Symbols -> SymbolKinds],
         NEW cur, NEW errors \in Nat,
         detect_main(table, cur, errors)
  PROVE  SymbolsOK'
  BY DEF ParserAssumption, TypeOK, SymbolsOK, detect_main, WithMain, MainErrors, NeedsMain, SymbolKinds, Symbols

(* A handler that only writes opcodes keeps the code, and all it shares, *)
(* typed.                                                                *)
LEMMA CompileTyped ==
  ASSUME ParserAssumption, TypeOK, NEW code \in Seq(OpcodeSet(Symbols)), Compile(code)
  PROVE  SymbolsOK' /\ FlowOK' /\ CodeOK' /\ UNCHANGED <<label_stack_, break_stack_>>
  <1>1. SymbolsOK'
    BY DetectMainTyped, 0 \in Nat DEF Compile, DetectMain, TypeOK, SymbolsOK
  <1>2. QED
    BY <1>1, SeqJoin DEF TypeOK, FlowOK, CodeOK, Compile, Emit, flow

(* What a handler leaves well typed, and by how much it moves the stacks. *)
Typed == SymbolsOK' /\ FlowOK' /\ CodeOK'
Moves(labels, breaks) ==
  /\ status' = status
  /\ Len(label_stack_') = Len(label_stack_) + labels
  /\ Len(break_stack_') = Len(break_stack_) + breaks

(* A refusal only counts an error. *)
LEMMA RejectTyped ==
  ASSUME TypeOK, Reject
  PROVE  Typed /\ UNCHANGED <<label_stack_, break_stack_>>
  BY DEF TypeOK, SymbolsOK, FlowOK, CodeOK, Reject, parse_error, flow, Typed

(* A handler of a control structure keeps the code and the symbols typed. *)
LEMMA StructureTyped ==
  ASSUME ParserAssumption, TypeOK, NEW code \in Seq(OpcodeSet(Symbols)), Structure(code)
  PROVE  SymbolsOK' /\ CodeOK' /\ exit_label_' \in Nat
  <1>1. SymbolsOK'
    BY DetectMainTyped, 0 \in Nat DEF Structure, DetectMain, TypeOK, SymbolsOK
  <1>2. QED
    BY <1>1, SeqJoin DEF TypeOK, FlowOK, CodeOK, Structure, Emit

(* New labels are natural numbers, and are pushed in order on the label *)
(* stack.                                                               *)
LEMMA PushLabelsTyped ==
  ASSUME FlowOK, NEW count \in Nat, PushLabels(count)
  PROVE  /\ label_stack_' \in Seq(Nat)
         /\ Len(label_stack_') = Len(label_stack_) + count
         /\ label_sequence_' \in Nat \ {0}
  <1> DEFINE fresh == [i \in 1..count |-> label_sequence_ + i - 1]
  <1>1. fresh \in Seq(Nat) /\ Len(fresh) = count
    BY IsASeq DEF FlowOK
  <1> HIDE DEF fresh
  <1>2. label_stack_' = label_stack_ \o fresh
    BY DEF PushLabels, fresh
  <1>3. label_stack_' \in Seq(Nat) /\ Len(label_stack_') = Len(label_stack_) + count
    BY <1>1, <1>2, ConcatProperties DEF FlowOK
  <1>4. QED
    BY <1>3 DEF PushLabels, FlowOK

(* A construct that can be broken out of adds one entry to the break stack. *)
LEMMA PushBreakTyped ==
  ASSUME FlowOK, NEW count \in Nat \ {0}, PushBreak(count), exit_label_' \in Nat
  PROVE  /\ FlowOK'
         /\ Len(label_stack_') = Len(label_stack_) + count
         /\ Len(break_stack_') = Len(break_stack_) + 1
  <1>1. /\ label_stack_' \in Seq(Nat)
        /\ Len(label_stack_') = Len(label_stack_) + count
        /\ label_sequence_' \in Nat \ {0}
    BY PushLabelsTyped DEF PushBreak
  <1>2. /\ break_stack_' \in Seq(Nat)
        /\ Len(break_stack_') = Len(break_stack_) + 1
    BY AppendProperties DEF PushBreak, FlowOK
  <1>3. QED
    BY <1>1, <1>2 DEF FlowOK

(* Popping labels leaves a stack of labels. *)
LEMMA PopLabelsTyped ==
  ASSUME FlowOK, NEW count \in Nat, HaveLabels(count), PopLabels(count)
  PROVE  label_stack_' \in Seq(Nat) /\ Len(label_stack_') = Len(label_stack_) - count
  BY SubSeqProperties DEF FlowOK, HaveLabels, PopLabels

(* A nonempty sequence without its last element stays over the same set. *)
LEMMA FrontTyped ==
  ASSUME NEW S, NEW s \in Seq(S), s # <<>>
  PROVE  Front(s) \in Seq(S) /\ Len(Front(s)) = Len(s) - 1 /\ Last(s) \in S
         /\ \A i \in 1..(Len(s) - 1) : Front(s)[i] = s[i]
  <1>1. Len(s) \in Nat \ {0} /\ 1 \in 1..(Len(s) + 1) /\ Len(s) - 1 \in 0..Len(s)
    BY EmptySeq, LenProperties
  <1>2. /\ SubSeq(s, 1, Len(s) - 1) \in Seq(S)
        /\ Len(SubSeq(s, 1, Len(s) - 1)) = Len(s) - 1
        /\ \A i \in 1..(Len(s) - 1) : SubSeq(s, 1, Len(s) - 1)[i] = s[i]
    <2> DEFINE n == Len(s) - 1
               t == SubSeq(s, 1, n)
    <2>1. n \in Nat /\ \A i \in 1..n : s[i] \in S
      BY <1>1
    <2> HIDE DEF n
    <2>2. /\ t \in Seq(S)
          /\ Len(t) = IF 1 <= n THEN n - 1 + 1 ELSE 0
          /\ \A i \in 1..(n - 1 + 1) : t[i] = s[1 + i - 1]
      BY <2>1, 1 \in Int, SubSeqProperties
    <2> HIDE DEF t
    <2>3. n - 1 + 1 = n /\ \A i \in 1..n : 1 + i - 1 = i
      BY <2>1
    <2>4. t \in Seq(S) /\ Len(t) = n /\ \A i \in 1..n : t[i] = s[i]
      BY <2>1, <2>2, <2>3
    <2> QED
      BY <2>4 DEF n, t
  <1>3. Last(s) \in S
    BY <1>1, ElementOfSeq DEF Last
  <1>4. QED
    BY <1>2, <1>3 DEF Front

(* Leaving a construct that can be broken out of keeps both label stacks *)
(* typed.                                                                *)
LEMMA PopBreakTyped ==
  ASSUME FlowOK, NEW count \in Nat, HaveLabels(count), HaveBreak,
         PopBreak(count), exit_label_' \in Nat
  PROVE  /\ FlowOK'
         /\ Len(label_stack_') = Len(label_stack_) - count
         /\ Len(break_stack_') = Len(break_stack_) - 1
  BY PopLabelsTyped, FrontTyped DEF FlowOK, PopBreak, HaveBreak

(* A label found on the label stack is a natural number. *)
LEMMA LabelUnderTyped ==
  ASSUME FlowOK, NEW depth \in Nat, HaveLabels(depth + 1)
  PROVE  LabelUnder(depth) \in Nat
  BY DEF FlowOK, HaveLabels, LabelUnder

(***************************************************************************)
(* Handlers that leave the label stacks alone.                             *)
(***************************************************************************)
LEMMA RefusingTyped ==
  ASSUME ParserAssumption, TypeOK, NEW code \in Seq(OpcodeSet(Symbols)), NEW fits,
         Handler(IF fits THEN Compile(code) ELSE Reject)
  PROVE  Typed /\ Moves(0, 0)
  <1>1. CASE fits
    <2>1. Compile(code) /\ status' = status
      BY <1>1 DEF Handler, Asserting
    <2>2. QED
      BY <2>1, CompileTyped DEF Typed, Moves, TypeOK, FlowOK
  <1>2. CASE ~fits
    <2>1. Reject /\ status' = status
      BY <1>2 DEF Handler, Asserting
    <2>2. QED
      BY <2>1, RejectTyped DEF Typed, Moves, TypeOK, FlowOK
  <1>3. QED
    BY <1>1, <1>2

(* Every handler that compiles a fixed sequence of opcodes keeps the state *)
(* typed.                                                                  *)
LEMMA CompilingTyped ==
  ASSUME ParserAssumption, TypeOK, NEW code \in Seq(OpcodeSet(Symbols)),
         Handler(Compile(code))
  PROVE  Typed /\ Moves(0, 0)
  <1>1. Compile(code) /\ status' = status
    BY DEF Handler, Asserting
  <1>2. QED
    BY <1>1, CompileTyped DEF Typed, Moves, TypeOK, FlowOK

(* The opcode sequences of words, literals and strings. *)
LEMMA CodeTyped ==
  ASSUME ParserAssumption
  PROVE  /\ AnAddress \in Seq(OpcodeSet(Symbols))
         /\ AnInteger \in Seq(OpcodeSet(Symbols))
         /\ \A name \in Symbols, stack \in {"DATA", "FLOAT"} :
              /\ LoadAndPush(LoadSymbolOpcode("R0", name), stack) \in Seq(OpcodeSet(Symbols))
              /\ LoadAndPush(LoadSymbolIndirectOpcode("R0", name), stack)
                   \in Seq(OpcodeSet(Symbols))
              /\ LoadAndPush(LoadValueOpcode("R0", 0), stack) \in Seq(OpcodeSet(Symbols))
         /\ \A name \in Symbols : \A kind : WordCode(name, kind) \in Seq(OpcodeSet(Symbols))
         /\ \A s \in Symbols \cup {NoSymbol} : <<CallOpcode(s)>> \in Seq(OpcodeSet(Symbols))
  <1>1. \A name \in Symbols, stack \in {"DATA", "FLOAT"} :
          /\ LoadAndPush(LoadSymbolOpcode("R0", name), stack) \in Seq(OpcodeSet(Symbols))
          /\ LoadAndPush(LoadSymbolIndirectOpcode("R0", name), stack)
               \in Seq(OpcodeSet(Symbols))
          /\ LoadAndPush(LoadValueOpcode("R0", 0), stack) \in Seq(OpcodeSet(Symbols))
    BY OpcodesTyped DEF LoadAndPush
  <1>2. /\ AnAddress \in Seq(OpcodeSet(Symbols))
        /\ AnInteger \in Seq(OpcodeSet(Symbols))
    BY OpcodesTyped DEF LoadAndPush, AnAddress, AnInteger
  <1>3. \A s \in Symbols \cup {NoSymbol} : <<CallOpcode(s)>> \in Seq(OpcodeSet(Symbols))
    BY OpcodesTyped
  <1>4. \A name \in Symbols : \A kind : WordCode(name, kind) \in Seq(OpcodeSet(Symbols))
    BY <1>1, <1>3 DEF WordCode
  <1>5. QED
    BY <1>1, <1>2, <1>3, <1>4

(* Making a symbol the current definition keeps the table and the code *)
(* typed.                                                              *)
LEMMA StartTyped ==
  ASSUME ParserAssumption, TypeOK, NEW symbol \in Symbols, NEW kind \in SymbolKinds,
         StartDefinition(symbol, kind), UNCHANGED <<implicit_main_, error_count_>>
  PROVE  SymbolsOK' /\ CodeOK'
  <1>1. SymbolsOK'
    BY DEF StartDefinition, TypeOK, SymbolsOK
  <1>2. <<DefineOpcode(symbol)>> \in Seq(OpcodeSet(Symbols))
    BY OpcodesTyped
  <1>3. QED
    BY <1>1, <1>2, SeqJoin DEF StartDefinition, Emit, TypeOK, CodeOK

(* The handlers of declarations and definitions keep the state of the *)
(* handlers typed.                                                    *)
LEMMA DeclarationHandlers ==
  ASSUME ParserAssumption, TypeOK, NEW name \in Names
  PROVE  /\ f_definedvariable(name) => Typed /\ Moves(0, 0)
         /\ \A valid \in BOOLEAN : f_definedarray(name, valid) => Typed /\ Moves(0, 0)
         /\ f_definedconstant(name) => Typed /\ Moves(0, 0)
         /\ f_definedfconstant(name) => Typed /\ Moves(0, 0)
         /\ f_codeword(name) => Typed /\ Moves(0, 0)
  <1>0. name \in Symbols
    BY DEF Symbols
  <1>1. ASSUME Handler(Reject) PROVE Typed /\ Moves(0, 0)
    BY <1>1, RejectTyped DEF Handler, Asserting, Moves, TypeOK, FlowOK
  <1>2. ASSUME f_definedvariable(name) PROVE Typed /\ Moves(0, 0)
    <2>1. CASE Defined(name)
      BY <1>1, <1>2, <2>1 DEF f_definedvariable, Handler, Asserting
    <2>2. CASE ~Defined(name)
      <3>1. /\ symtable_' = [symtable_ EXCEPT ![name] = "variable"]
            /\ UNCHANGED <<implicit_main_, error_count_, flow, optable_, current_definition_>>
            /\ status' = status
        BY <1>2, <2>2 DEF f_definedvariable, Handler, Asserting
      <3>2. symtable_' \in [Symbols -> SymbolKinds]
        BY <3>1 DEF TypeOK, SymbolsOK, SymbolKinds
      <3>3. SymbolsOK' /\ FlowOK' /\ CodeOK'
        BY <3>1, <3>2 DEF TypeOK, SymbolsOK, FlowOK, CodeOK, flow
      <3>4. QED
        BY <3>1, <3>3 DEF Typed, Moves, TypeOK, FlowOK, flow
    <2>3. QED
      BY <2>1, <2>2
  <1>3. ASSUME NEW valid \in BOOLEAN, f_definedarray(name, valid) PROVE Typed /\ Moves(0, 0)
    BY <1>1, <1>2, <1>3 DEF f_definedarray
  <1>4. ASSUME NEW kind \in SymbolKinds, NEW stack \in {"DATA", "FLOAT"},
               DefinedConstant(name, kind, stack)
        PROVE  Typed /\ Moves(0, 0)
    <2>1. CASE Defined(name)
      BY <1>1, <1>4, <2>1 DEF DefinedConstant, Handler, Asserting
    <2>2. CASE ~Defined(name)
      <3> DEFINE table == [symtable_ EXCEPT ![name] = kind]
                 code == <<PopOpcode("R0", stack), StoreSymbolIndirectOpcode("R0", name)>>
      <3>1. /\ detect_main(table, current_definition_, 0) /\ Emit(code)
            /\ UNCHANGED <<flow, current_definition_>> /\ status' = status
        BY <1>4, <2>2 DEF DefinedConstant, Handler, Asserting
      <3>2. table \in [Symbols -> SymbolKinds]
        BY DEF TypeOK, SymbolsOK
      <3>3. code \in Seq(OpcodeSet(Symbols))
        BY <1>0, OpcodesTyped
      <3> HIDE DEF table, code
      <3>4. SymbolsOK'
        BY <3>1, <3>2, DetectMainTyped, 0 \in Nat
      <3>5. QED
        BY <3>1, <3>3, <3>4, SeqJoin DEF Emit, flow, Typed, Moves, TypeOK, FlowOK, CodeOK
    <2>3. QED
      BY <2>1, <2>2
  <1>5. ASSUME f_codeword(name) PROVE Typed /\ Moves(0, 0)
    <2>1. CASE Defined(name)
      BY <1>1, <1>5, <2>1 DEF f_codeword, Handler, Asserting
    <2>2. CASE ~Defined(name)
      <3>1. <<DefineOpcode(name)>> \in Seq(OpcodeSet(Symbols))
        BY <1>0, OpcodesTyped
      <3>2. /\ StartDefinition(name, "codeword") /\ status' = status
            /\ UNCHANGED <<implicit_main_, error_count_, flow>>
        BY <1>5, <2>2 DEF f_codeword, Handler, Asserting
      <3>3. SymbolsOK' /\ CodeOK'
        BY <1>0, <3>2, StartTyped DEF SymbolKinds
      <3>4. QED
        BY <3>2, <3>3 DEF Typed, Moves, TypeOK, FlowOK, flow
    <2>3. QED
      BY <2>1, <2>2
  <1>6. f_definedconstant(name) => Typed /\ Moves(0, 0)
    BY <1>4 DEF f_definedconstant, SymbolKinds
  <1>7. f_definedfconstant(name) => Typed /\ Moves(0, 0)
    BY <1>4 DEF f_definedfconstant, SymbolKinds
  <1>8. QED
    BY <1>2, <1>3, <1>5, <1>6, <1>7

(* The handlers of CODE words keep the state of the handlers typed. *)
LEMMA AssemblyHandlers ==
  ASSUME ParserAssumption, TypeOK
  PROVE  /\ \A comment \in BOOLEAN : f_code(comment) => Typed /\ Moves(0, 0)
         /\ f_end_code => Typed /\ Moves(0, 0)
  <1>1. ASSUME NEW comment \in BOOLEAN, f_code(comment) PROVE Typed /\ Moves(0, 0)
    <2> DEFINE code == IF comment THEN <<>> ELSE <<AssemblyOpcode>>
    <2>1. code \in Seq(OpcodeSet(Symbols))
      BY OpcodesTyped
    <2>2. Emit(code) /\ UNCHANGED <<symbols, flow, current_definition_>> /\ status' = status
      BY <1>1 DEF f_code, Handler, Asserting
    <2> HIDE DEF code
    <2>3. QED
      BY <2>1, <2>2, SeqJoin DEF Emit, symbols, flow, Typed, Moves, TypeOK, SymbolsOK, FlowOK,
            CodeOK
  <1>2. ASSUME f_end_code PROVE Typed /\ Moves(0, 0)
    <2>1. /\ IF current_definition_ = NoSymbol THEN UNCHANGED optable_
             ELSE Emit(<<EndDefineOpcode(current_definition_)>>)
          /\ current_definition_' = NoSymbol
          /\ UNCHANGED <<symbols, flow>> /\ status' = status
      BY <1>2 DEF f_end_code, Handler, Asserting
    <2>2. <<EndDefineOpcode(current_definition_)>> \in Seq(OpcodeSet(Symbols))
      BY OpcodesTyped DEF TypeOK, CodeOK
    <2>3. CodeOK'
      <3>1. CASE current_definition_ = NoSymbol
        BY <2>1, <3>1 DEF Emit, TypeOK, CodeOK
      <3>2. CASE current_definition_ # NoSymbol
        <4>1. optable_' = optable_ \o <<EndDefineOpcode(current_definition_)>>
          BY <2>1, <3>2 DEF Emit
        <4>2. optable_' \in Seq(OpcodeSet(Symbols))
          BY <2>2, <4>1, SeqJoin DEF TypeOK, CodeOK
        <4>3. QED
          BY <2>1, <4>2 DEF CodeOK
      <3>3. QED
        BY <3>1, <3>2
    <2>4. QED
      BY <2>1, <2>3 DEF symbols, flow, Typed, Moves, TypeOK, SymbolsOK, FlowOK
  <1>3. QED
    BY <1>1, <1>2

(* The handlers of literals and strings keep the state of the handlers *)
(* typed.                                                              *)
LEMMA LiteralHandlers ==
  ASSUME ParserAssumption, TypeOK
  PROVE  /\ f_exit => Typed /\ Moves(0, 0)
         /\ f_string_literal => Typed /\ Moves(0, 0)
         /\ f_char_literal => Typed /\ Moves(0, 0)
         /\ \A fits \in BOOLEAN : f_cstring(fits) => Typed /\ Moves(0, 0)
         /\ \A fits \in BOOLEAN : f_integer_literal(fits) => Typed /\ Moves(0, 0)
         /\ \A fits \in BOOLEAN : f_float_literal(fits) => Typed /\ Moves(0, 0)
         /\ f_recurse => Typed /\ Moves(0, 0)
         /\ f_leave => Typed /\ Moves(0, 0)
         /\ f_query_leave => Typed /\ Moves(0, 0)
         /\ f_while => Typed /\ Moves(0, 0)
  <1>1. f_exit => Typed /\ Moves(0, 0)
    <2>1. <<JumpOpcode(exit_label_)>> \in Seq(OpcodeSet(Symbols))
      BY OpcodesTyped DEF TypeOK, FlowOK
    <2>2. QED
      BY <2>1, CompilingTyped DEF f_exit
  <1>2. f_string_literal => Typed /\ Moves(0, 0)
    BY CodeTyped, SeqJoin, CompilingTyped DEF f_string_literal
  <1>3. f_char_literal => Typed /\ Moves(0, 0)
    BY CodeTyped, CompilingTyped DEF f_char_literal
  <1>4. \A fits \in BOOLEAN : f_cstring(fits) => Typed /\ Moves(0, 0)
    BY CodeTyped, RefusingTyped DEF f_cstring
  <1>5. \A fits \in BOOLEAN : f_integer_literal(fits) => Typed /\ Moves(0, 0)
    BY CodeTyped, RefusingTyped DEF f_integer_literal
  <1>6. \A fits \in BOOLEAN : f_float_literal(fits) => Typed /\ Moves(0, 0)
    <2>1. LoadAndPush(LoadValueOpcode("R0", 0), "FLOAT") \in Seq(OpcodeSet(Symbols))
      BY OpcodesTyped DEF LoadAndPush
    <2>2. QED
      BY <2>1, RefusingTyped DEF f_float_literal
  <1>7. f_recurse => Typed /\ Moves(0, 0)
    <2>1. <<CallOpcode(current_definition_)>> \in Seq(OpcodeSet(Symbols))
      BY CodeTyped DEF TypeOK, CodeOK
    <2>2. ASSUME f_recurse PROVE Handler(IF current_definition_ # NoSymbol
                                  THEN Compile(<<CallOpcode(current_definition_)>>) ELSE Reject)
      BY <2>2 DEF f_recurse, Handler, Asserting
    <2>3. QED
      BY <2>1, <2>2, RefusingTyped
  <1>8. ASSUME NEW code, HaveBreak => code \in Seq(OpcodeSet(Symbols)), Break(code)
        PROVE  Typed /\ Moves(0, 0)
    <2>1. CASE HaveBreak
      BY <1>8, <2>1, RefusingTyped DEF Break
    <2>2. CASE ~HaveBreak
      BY <1>8, <2>2, RejectTyped DEF Break, Handler, Asserting, Moves, TypeOK, FlowOK
    <2>3. QED
      BY <2>1, <2>2
  <1>9. HaveBreak => Last(break_stack_) \in Nat
    BY FrontTyped DEF HaveBreak, TypeOK, FlowOK
  <1>10. f_leave => Typed /\ Moves(0, 0)
    <2>1. HaveBreak => <<JumpOpcode(Last(break_stack_))>> \in Seq(OpcodeSet(Symbols))
      BY <1>9, OpcodesTyped
    <2>2. QED
      BY <1>8, <2>1 DEF f_leave
  <1>11. f_query_leave => Typed /\ Moves(0, 0)
    <2>1. HaveBreak => <<PopOpcode("R0", "DATA"), JumpNonZeroOpcode("R0", Last(break_stack_))>>
                        \in Seq(OpcodeSet(Symbols))
      BY <1>9, OpcodesTyped
    <2>2. QED
      BY <1>8, <2>1 DEF f_query_leave
  <1>12. f_while => Typed /\ Moves(0, 0)
    <2>1. HaveBreak => <<PopOpcode("R0", "DATA"), JumpZeroOpcode("R0", Last(break_stack_))>>
                        \in Seq(OpcodeSet(Symbols))
      BY <1>9, OpcodesTyped
    <2>2. QED
      BY <1>8, <2>1 DEF f_while
  <1>13. QED
    BY <1>1, <1>2, <1>3, <1>4, <1>5, <1>6, <1>7, <1>10, <1>11, <1>12

(* Handlers that call a word, or a library word. *)
LEMMA WordHandlers ==
  ASSUME ParserAssumption, TypeOK
  PROVE  /\ \A name \in Names : f_word(name) => Typed /\ Moves(0, 0)
         /\ \A name \in Names : f_object_address(name) => Typed /\ Moves(0, 0)
         /\ f_pstring => Typed /\ Moves(0, 0)
         /\ f_astring => Typed /\ Moves(0, 0)
  <1>1. ASSUME NEW table \in [Symbols -> SymbolKinds], NEW name \in Names
        PROVE  /\ WithMain(table, current_definition_) \in [Symbols -> SymbolKinds]
               /\ WithExternal(table, name) \in [Symbols -> SymbolKinds]
    BY DEF WithMain, WithExternal, SymbolKinds
  <1>2. MainErrors(symtable_, current_definition_) \in Nat
    BY DEF MainErrors
  <1>3. ASSUME NEW name \in Names, NEW code,
               code \in Seq(OpcodeSet(Symbols)),
               symtable_' = WithExternal(WithMain(symtable_, current_definition_), name),
               error_count_' = error_count_ + MainErrors(symtable_, current_definition_),
               implicit_main_' = (implicit_main_ \/ current_definition_ = NoSymbol),
               Emit(code), UNCHANGED <<status, flow, current_definition_>>
        PROVE  Typed /\ Moves(0, 0)
    <2>1. symtable_' \in [Symbols -> SymbolKinds]
      BY <1>1, <1>3 DEF TypeOK, SymbolsOK
    <2>2. CodeOK'
      BY <1>3, SeqJoin DEF Emit, TypeOK, CodeOK
    <2>3. SymbolsOK'
      BY <1>2, <1>3, <2>1 DEF TypeOK, SymbolsOK
    <2>4. QED
      BY <1>3, <2>2, <2>3 DEF flow, Typed, Moves, TypeOK, FlowOK
  <1>4. ASSUME NEW name \in Names, f_word(name) PROVE Typed /\ Moves(0, 0)
    <2> DEFINE table == WithExternal(WithMain(symtable_, current_definition_), name)
               code  == WordCode(name, table[name])
    <2>1. /\ symtable_' = table
          /\ error_count_' = error_count_ + MainErrors(symtable_, current_definition_)
          /\ implicit_main_' = (implicit_main_ \/ current_definition_ = NoSymbol)
          /\ Emit(code) /\ UNCHANGED <<status, flow, current_definition_>>
      BY <1>4 DEF f_word, UseWord, Handler, Asserting
    <2>2. code \in Seq(OpcodeSet(Symbols))
      BY CodeTyped DEF Symbols
    <2> HIDE DEF code
    <2>3. QED
      BY <1>3, <2>1, <2>2
  <1>5. ASSUME NEW name \in Names, f_object_address(name) PROVE Typed /\ Moves(0, 0)
    <2> DEFINE code == LoadAndPush(LoadSymbolOpcode("R0", name), "DATA")
    <2>1. /\ symtable_' = WithExternal(WithMain(symtable_, current_definition_), name)
          /\ error_count_' = error_count_ + MainErrors(symtable_, current_definition_)
          /\ implicit_main_' = (implicit_main_ \/ current_definition_ = NoSymbol)
          /\ Emit(code) /\ UNCHANGED <<status, flow, current_definition_>>
      BY <1>5 DEF f_object_address, UseWord, Handler, Asserting
    <2>2. code \in Seq(OpcodeSet(Symbols))
      BY CodeTyped DEF Symbols
    <2> HIDE DEF code
    <2>3. QED
      BY <1>3, <2>1, <2>2
  <1>6. ASSUME NEW name \in Names PROVE Library(name) \in Symbols \cup {NoSymbol}
    BY DEF Library, Symbols
  <1>7. ASSUME NEW name \in Names, NEW code,
               code \in Seq(OpcodeSet(Symbols)), Emit(code),
               detect_main(WithExternal(symtable_, name), current_definition_,
                           IF Library(name) = NoSymbol THEN 1 ELSE 0)
        PROVE  SymbolsOK' /\ optable_' \in Seq(OpcodeSet(Symbols))
    <2>1. WithExternal(symtable_, name) \in [Symbols -> SymbolKinds]
      BY <1>1 DEF TypeOK, SymbolsOK
    <2>2. (IF Library(name) = NoSymbol THEN 1 ELSE 0) \in Nat
      OBVIOUS
    <2>3. SymbolsOK'
      BY <1>7, <2>1, <2>2, DetectMainTyped
    <2>4. QED
      BY <1>7, <2>3, SeqJoin DEF Emit, TypeOK, CodeOK
  <1>8. ASSUME f_pstring PROVE Typed /\ Moves(0, 0)
    <2> DEFINE code == AnAddress \o AnInteger \o <<CallOpcode(Library(TypeWord))>>
    <2>1. /\ detect_main(WithExternal(symtable_, TypeWord), current_definition_,
                         IF Library(TypeWord) = NoSymbol THEN 1 ELSE 0)
          /\ Emit(code) /\ UNCHANGED <<status, flow, current_definition_>>
      BY <1>8 DEF f_pstring, CompileCall, Handler, Asserting
    <2>2. TypeWord \in Names
      BY DEF ParserAssumption
    <2>3. code \in Seq(OpcodeSet(Symbols))
      BY <1>6, <2>2, CodeTyped, SeqJoin
    <2> HIDE DEF code
    <2>4. SymbolsOK' /\ optable_' \in Seq(OpcodeSet(Symbols))
      BY <1>7, <2>1, <2>2, <2>3
    <2>5. QED
      BY <2>1, <2>4 DEF flow, Typed, Moves, TypeOK, FlowOK, CodeOK
  <1>9. ASSUME f_astring PROVE Typed /\ Moves(0, 0)
    <2> DEFINE first == <<PopOpcode("R0", "DATA"), JumpZeroOpcode("R0", label_sequence_)>>
               last  == <<CallOpcode(Library(AbortWord)), LabelOpcode(label_sequence_)>>
               code  == first \o AnAddress \o AnInteger \o last
    <2>1. /\ detect_main(WithExternal(symtable_, AbortWord), current_definition_,
                         IF Library(AbortWord) = NoSymbol THEN 1 ELSE 0)
          /\ Emit(code) /\ label_sequence_' = label_sequence_ + 1
          /\ UNCHANGED <<status, exit_label_, label_stack_, break_stack_, current_definition_>>
      BY <1>9 DEF f_astring, CompileCall, Handler, Asserting
    <2>2. AbortWord \in Names
      BY DEF ParserAssumption
    <2>3. first \in Seq(OpcodeSet(Symbols)) /\ last \in Seq(OpcodeSet(Symbols))
      BY <1>6, <2>2, OpcodesTyped DEF TypeOK, FlowOK
    <2> HIDE DEF first, last
    <2>4. code \in Seq(OpcodeSet(Symbols))
      BY <2>3, CodeTyped, SeqJoin
    <2> HIDE DEF code
    <2>5. SymbolsOK' /\ optable_' \in Seq(OpcodeSet(Symbols))
      BY <1>7, <2>1, <2>2, <2>4
    <2>6. QED
      BY <2>1, <2>5 DEF Typed, Moves, TypeOK, FlowOK, CodeOK
  <1>10. QED
    BY <1>4, <1>5, <1>8, <1>9

(***************************************************************************)
(* Handlers that open a construct.                                         *)
(***************************************************************************)
LEMMA OpeningHandlers ==
  ASSUME ParserAssumption, TypeOK
  PROVE  /\ \A name \in Names : f_definedword(name) => Typed /\ Moves(1, 0)
         /\ \A anon \in Anons : ~Defined(anon) /\ f_nonameword(anon) => Typed /\ Moves(1, 0)
         /\ f_if => Typed /\ Moves(1, 0)
         /\ f_do => Typed /\ Moves(3, 1)
         /\ f_query_do => Typed /\ Moves(3, 1)
         /\ f_begin => Typed /\ Moves(2, 1)
         /\ f_case => Typed /\ Moves(1, 1)
         /\ f_of => Typed /\ Moves(1, 0)
  <1>1. ASSUME OpenBody, status' = status, SymbolsOK', CodeOK'
        PROVE  Typed /\ Moves(1, 0)
    BY <1>1, PushLabelsTyped, 1 \in Nat DEF OpenBody, Typed, Moves, TypeOK, FlowOK
  <1>2. ASSUME NEW code \in Seq(OpcodeSet(Symbols)), Structure(code), PushLabels(1),
               UNCHANGED <<status, break_stack_>>
        PROVE  Typed /\ Moves(1, 0)
    <2>1. SymbolsOK' /\ CodeOK' /\ exit_label_' \in Nat
      BY <1>2, StructureTyped
    <2>2. QED
      BY <1>2, <2>1, PushLabelsTyped, 1 \in Nat DEF Typed, Moves, TypeOK, FlowOK
  <1>3. ASSUME NEW count \in Nat \ {0}, NEW code \in Seq(OpcodeSet(Symbols)),
               PushBreak(count), Structure(code), status' = status
        PROVE  Typed /\ Moves(count, 1)
    <2>1. SymbolsOK' /\ CodeOK' /\ exit_label_' \in Nat
      BY <1>3, StructureTyped
    <2>2. QED
      BY <1>3, <2>1, PushBreakTyped DEF Typed, Moves, TypeOK
  <1>4. ASSUME NEW name \in Names, f_definedword(name) PROVE Typed /\ Moves(1, 0)
    <2>1. CASE Defined(name)
      <3>1. /\ OpenBody /\ parse_error /\ status' = status
            /\ UNCHANGED <<symtable_, implicit_main_, optable_, current_definition_>>
        BY <1>4, <2>1 DEF f_definedword, Handler, Asserting
      <3>2. SymbolsOK' /\ CodeOK'
        BY <3>1 DEF parse_error, TypeOK, SymbolsOK, CodeOK
      <3>3. QED
        BY <1>1, <3>1, <3>2
    <2>2. CASE ~Defined(name)
      <3>1. /\ OpenBody /\ StartDefinition(name, "word") /\ status' = status
            /\ UNCHANGED <<implicit_main_, error_count_>>
        BY <1>4, <2>2 DEF f_definedword, Handler, Asserting
      <3>2. SymbolsOK' /\ CodeOK'
        BY <3>1, StartTyped DEF SymbolKinds, Symbols
      <3>3. QED
        BY <1>1, <3>1, <3>2
    <2>3. QED
      BY <2>1, <2>2
  <1>5. ASSUME NEW anon \in Anons, ~Defined(anon), f_nonameword(anon) PROVE Typed /\ Moves(1, 0)
    <2>1. /\ OpenBody /\ StartDefinition(anon, "anonword") /\ status' = status
          /\ UNCHANGED <<implicit_main_, error_count_>>
      BY <1>5 DEF f_nonameword
    <2>2. SymbolsOK' /\ CodeOK'
      BY <2>1, StartTyped DEF SymbolKinds, Symbols
    <2>3. QED
      BY <1>1, <2>1, <2>2
  <1>6. ASSUME f_if PROVE Typed /\ Moves(1, 0)
    <2>1. <<PopOpcode("R0", "DATA"), JumpZeroOpcode("R0", label_sequence_)>>
            \in Seq(OpcodeSet(Symbols))
      BY OpcodesTyped DEF TypeOK, FlowOK
    <2>2. QED
      BY <1>2, <1>6, <2>1 DEF f_if, Handler, Asserting
  <1>7. ASSUME NEW skip \in Seq(OpcodeSet(Symbols)) PROVE DoCode(skip) \in Seq(OpcodeSet(Symbols))
    <2> DEFINE pops   == <<PopOpcode("R1", "DATA"), PopOpcode("R0", "DATA")>>
               pushes == <<PushOpcode("R0", "RETURN"), PushOpcode("R1", "RETURN"),
                           LabelOpcode(label_sequence_ + 1)>>
    <2>1. pops \in Seq(OpcodeSet(Symbols)) /\ pushes \in Seq(OpcodeSet(Symbols))
      BY OpcodesTyped DEF TypeOK, FlowOK
    <2> HIDE DEF pops, pushes
    <2>2. pops \o skip \o pushes \in Seq(OpcodeSet(Symbols))
      BY <2>1, SeqJoin
    <2>3. QED
      BY <2>2 DEF DoCode, pops, pushes
  <1>8. ASSUME f_do PROVE Typed /\ Moves(3, 1)
    <2>1. PushBreak(3) /\ Structure(DoCode(<<>>)) /\ status' = status
      BY <1>8 DEF f_do, Handler, Asserting
    <2>2. DoCode(<<>>) \in Seq(OpcodeSet(Symbols))
      BY <1>7, EmptySeq
    <2>3. QED
      BY <1>3, <2>1, <2>2, 3 \in Nat \ {0}
  <1>9. ASSUME f_query_do PROVE Typed /\ Moves(3, 1)
    <2> DEFINE skip == <<JumpEqualOpcode("R0", "R1", label_sequence_)>>
    <2>1. PushBreak(3) /\ Structure(DoCode(skip)) /\ status' = status
      BY <1>9 DEF f_query_do, Handler, Asserting
    <2>2. skip \in Seq(OpcodeSet(Symbols))
      BY OpcodesTyped DEF TypeOK, FlowOK
    <2> HIDE DEF skip
    <2>3. DoCode(skip) \in Seq(OpcodeSet(Symbols))
      BY <1>7, <2>2
    <2>4. QED
      BY <1>3, <2>1, <2>3, 3 \in Nat \ {0}
  <1>10. ASSUME f_begin PROVE Typed /\ Moves(2, 1)
    <2> DEFINE code == <<LabelOpcode(label_sequence_)>>
    <2>1. PushBreak(2) /\ Structure(code) /\ status' = status
      BY <1>10 DEF f_begin, Handler, Asserting
    <2>2. code \in Seq(OpcodeSet(Symbols)) /\ 2 \in Nat \ {0}
      BY OpcodesTyped DEF TypeOK, FlowOK
    <2>3. QED
      BY <1>3, <2>1, <2>2
  <1>11. ASSUME f_case PROVE Typed /\ Moves(1, 1)
    <2>1. PushBreak(1) /\ Structure(<<>>) /\ status' = status
      BY <1>11 DEF f_case, Handler, Asserting
    <2>2. <<>> \in Seq(OpcodeSet(Symbols)) /\ 1 \in Nat \ {0}
      BY EmptySeq
    <2>3. QED
      BY <1>3, <2>1, <2>2
  <1>12. ASSUME f_of PROVE Typed /\ Moves(1, 0)
    <2>1. <<PopOpcode("R1", "DATA"), PopOpcode("R0", "DATA"), PushOpcode("R0", "DATA"),
            JumpNotEqualOpcode("R0", "R1", label_sequence_)>> \in Seq(OpcodeSet(Symbols))
      BY OpcodesTyped DEF TypeOK, FlowOK
    <2>2. QED
      BY <1>2, <1>12, <2>1 DEF f_of, Handler, Asserting
  <1>13. QED
    BY <1>4, <1>5, <1>6, <1>8, <1>9, <1>10, <1>11, <1>12

(***************************************************************************)
(* Handlers that close a construct, or start another part of it.  Each one *)
(* runs only if its asserts hold; then it pops what the construct pushed.  *)
(***************************************************************************)
Asserted == status' = "asserted" /\ UNCHANGED handled

(* A failed assert leaves the state of the handlers as it was. *)
LEMMA AssertedTyped ==
  ASSUME TypeOK, Asserted
  PROVE  Typed
  BY DEF Asserted, handled, symbols, flow, Typed, TypeOK, SymbolsOK, FlowOK, CodeOK

(* The handlers that end or continue a construct keep the state of the *)
(* handlers typed.                                                     *)
LEMMA ClosingHandlers ==
  ASSUME ParserAssumption, TypeOK
  PROVE  /\ f_semicolon => Typed /\ (HaveLabels(1) => Moves(-1, 0))
                                /\ status' \in {status, "asserted"}
         /\ f_then_endif => Typed /\ (HaveLabels(1) => Moves(-1, 0))
                                 /\ status' \in {status, "asserted"}
         /\ f_else => Typed /\ (HaveLabels(1) => Moves(0, 0))
                           /\ status' \in {status, "asserted"}
         /\ f_loop => Typed /\ (HaveLabels(3) /\ HaveBreak => Moves(-3, -1))
                           /\ status' \in {status, "asserted"}
         /\ f_plus_loop => Typed /\ (HaveLabels(3) /\ HaveBreak => Moves(-3, -1))
                                /\ status' \in {status, "asserted"}
         /\ f_until => Typed /\ (HaveLabels(2) /\ HaveBreak => Moves(-2, -1))
                            /\ status' \in {status, "asserted"}
         /\ f_repeat_again => Typed /\ (HaveLabels(2) /\ HaveBreak => Moves(-2, -1))
                                   /\ status' \in {status, "asserted"}
         /\ f_endof => Typed /\ (HaveLabels(1) /\ HaveBreak => Moves(-1, 0))
                            /\ status' \in {status, "asserted"}
         /\ f_endcase => Typed /\ (HaveLabels(1) /\ HaveBreak => Moves(-1, -1))
                              /\ status' \in {status, "asserted"}
  <1>1. ASSUME NEW count \in {1, 2, 3}, HaveLabels(count), HaveBreak, PopBreak(count),
               NEW code \in Seq(OpcodeSet(Symbols)), Structure(code), status' = status
        PROVE  Typed /\ Moves(-count, -1)
    <2>1. SymbolsOK' /\ CodeOK' /\ exit_label_' \in Nat
      BY <1>1, StructureTyped
    <2>2. QED
      BY <1>1, <2>1, PopBreakTyped DEF Typed, Moves, TypeOK, FlowOK
  <1>2. ASSUME HaveLabels(1), PopLabels(1), UNCHANGED <<status, label_sequence_, break_stack_>>,
               NEW code \in Seq(OpcodeSet(Symbols)), Structure(code)
        PROVE  Typed /\ Moves(-1, 0)
    <2>1. SymbolsOK' /\ CodeOK' /\ exit_label_' \in Nat
      BY <1>2, StructureTyped
    <2>2. QED
      BY <1>2, <2>1, PopLabelsTyped, 1 \in Nat DEF Typed, Moves, TypeOK, FlowOK
  <1>3. ASSUME NEW depth \in {0, 1, 2}, HaveLabels(depth + 1) PROVE LabelUnder(depth) \in Nat
    BY <1>3, LabelUnderTyped DEF TypeOK
  <1>4. ASSUME f_then_endif PROVE Typed /\ (HaveLabels(1) => Moves(-1, 0))
                                        /\ status' \in {status, "asserted"}
    <2>1. CASE HaveLabels(1)
      <3>1. /\ PopLabels(1) /\ UNCHANGED <<status, label_sequence_, break_stack_>>
            /\ Structure(<<LabelOpcode(LabelUnder(0))>>)
        BY <1>4, <2>1 DEF f_then_endif, Asserting
      <3>2. <<LabelOpcode(LabelUnder(0))>> \in Seq(OpcodeSet(Symbols))
        BY <1>3, <2>1, OpcodesTyped
      <3>3. Typed /\ Moves(-1, 0)
        BY <1>2, <2>1, <3>1, <3>2
      <3>4. QED
        BY <3>3 DEF Moves
    <2>2. CASE ~HaveLabels(1)
      BY <1>4, <2>2, AssertedTyped DEF f_then_endif, Asserting, Asserted
    <2>3. QED
      BY <2>1, <2>2
  <1>5. ASSUME f_else PROVE Typed /\ (HaveLabels(1) => Moves(0, 0))
                                  /\ status' \in {status, "asserted"}
    <2>1. CASE HaveLabels(1)
      <3> DEFINE code == <<JumpOpcode(label_sequence_), LabelOpcode(LabelUnder(0))>>
      <3>1. /\ label_stack_' = Append(Front(label_stack_), label_sequence_)
            /\ label_sequence_' = label_sequence_ + 1
            /\ UNCHANGED <<status, break_stack_>>
            /\ Structure(code)
        BY <1>5, <2>1 DEF f_else, Asserting
      <3>2. code \in Seq(OpcodeSet(Symbols))
        BY <1>3, <2>1, OpcodesTyped DEF TypeOK, FlowOK
      <3> HIDE DEF code
      <3>3. SymbolsOK' /\ CodeOK' /\ exit_label_' \in Nat
        BY <3>1, <3>2, StructureTyped
      <3>4. label_stack_' \in Seq(Nat) /\ Len(label_stack_') = Len(label_stack_)
        <4>1. label_stack_ # <<>> /\ label_stack_ \in Seq(Nat) /\ label_sequence_ \in Nat
          BY <2>1 DEF HaveLabels, TypeOK, FlowOK
        <4>2. Front(label_stack_) \in Seq(Nat) /\ Len(Front(label_stack_)) = Len(label_stack_) - 1
          BY <4>1, FrontTyped
        <4>3. QED
          BY <3>1, <4>1, <4>2, AppendProperties
      <3>5. QED
        BY <3>1, <3>3, <3>4 DEF Typed, Moves, TypeOK, FlowOK
    <2>2. CASE ~HaveLabels(1)
      BY <1>5, <2>2, AssertedTyped DEF f_else, Asserting, Asserted
    <2>3. QED
      BY <2>1, <2>2
  <1>6. ASSUME HaveLabels(3) PROVE EndLoop \in Seq(OpcodeSet(Symbols))
    <2>1. LabelUnder(0) \in Nat /\ LabelUnder(2) \in Nat
      BY <1>3, <1>6 DEF HaveLabels, TypeOK, FlowOK
    <2>2. QED
      BY <2>1, OpcodesTyped DEF EndLoop
  <1>7. PushBack \in Seq(OpcodeSet(Symbols))
    BY OpcodesTyped DEF PushBack
  <1>8. ASSUME f_loop PROVE Typed /\ (HaveLabels(3) /\ HaveBreak => Moves(-3, -1))
                                  /\ status' \in {status, "asserted"}
    <2>1. CASE HaveLabels(3) /\ HaveBreak
      <3> DEFINE first == <<PopOpcode("R1", "RETURN"), AddValueOpcode("R1", 1),
                            PopOpcode("R0", "RETURN")>>
                 test  == <<SubtractRegisterOpcode("R1", "R0"),
                            JumpNonZeroOpcode("R1", LabelUnder(1))>>
      <3>1. PopBreak(3) /\ Structure(first \o PushBack \o test \o EndLoop) /\ status' = status
        BY <1>8, <2>1 DEF f_loop, Asserting
      <3>2. LabelUnder(1) \in Nat
        BY <1>3, <2>1 DEF HaveLabels, TypeOK, FlowOK
      <3>3. first \in Seq(OpcodeSet(Symbols)) /\ test \in Seq(OpcodeSet(Symbols))
        BY <3>2, OpcodesTyped
      <3> HIDE DEF first, test
      <3>4. first \o PushBack \o test \o EndLoop \in Seq(OpcodeSet(Symbols))
        BY <1>6, <1>7, <2>1, <3>3, SeqJoin
      <3>5. Typed /\ Moves(-3, -1)
        BY <1>1, <2>1, <3>1, <3>4
      <3>6. QED
        BY <3>5 DEF Moves
    <2>2. CASE ~(HaveLabels(3) /\ HaveBreak)
      BY <1>8, <2>2, AssertedTyped DEF f_loop, Asserting, Asserted
    <2>3. QED
      BY <2>1, <2>2
  <1>9. ASSUME NEW test \in OpcodeSet(Symbols) PROVE PlusLoopTest(test) \in Seq(OpcodeSet(Symbols))
    <2> DEFINE first == <<PopOpcode("R0", "RETURN")>>
               last  == <<SubtractRegisterOpcode("R1", "R0"), test>>
    <2>1. first \in Seq(OpcodeSet(Symbols)) /\ last \in Seq(OpcodeSet(Symbols))
      BY OpcodesTyped
    <2> HIDE DEF first, last
    <2>2. first \o PushBack \o last \in Seq(OpcodeSet(Symbols))
      BY <1>7, <2>1, SeqJoin
    <2>3. QED
      BY <2>2 DEF PlusLoopTest, first, last
  <1>10. ASSUME f_plus_loop PROVE Typed /\ (HaveLabels(3) /\ HaveBreak => Moves(-3, -1))
                                        /\ status' \in {status, "asserted"}
    <2>1. CASE HaveLabels(3) /\ HaveBreak
      <3> DEFINE first == <<PopOpcode("R0", "DATA"), PopOpcode("R1", "RETURN"),
                            AddRegisterOpcode("R1", "R0"),
                            JumpLessZeroOpcode("R0", label_sequence_)>>
                 up    == PlusLoopTest(JumpLessZeroOpcode("R1", LabelUnder(1)))
                 between == <<JumpOpcode(LabelUnder(0)), LabelOpcode(label_sequence_)>>
                 down  == PlusLoopTest(JumpGreaterEqualZeroOpcode("R1", LabelUnder(1)))
                 code  == first \o up \o between \o down \o EndLoop
      <3>1. /\ PopLabels(3) /\ break_stack_' = Front(break_stack_)
            /\ label_sequence_' = label_sequence_ + 1
            /\ Structure(code) /\ status' = status
        BY <1>10, <2>1 DEF f_plus_loop, Asserting
      <3>2. LabelUnder(0) \in Nat /\ LabelUnder(1) \in Nat /\ label_sequence_ \in Nat
        BY <1>3, <2>1, SMTT(30) DEF HaveLabels, TypeOK, FlowOK
      <3>3. /\ first \in Seq(OpcodeSet(Symbols)) /\ between \in Seq(OpcodeSet(Symbols))
            /\ JumpLessZeroOpcode("R1", LabelUnder(1)) \in OpcodeSet(Symbols)
            /\ JumpGreaterEqualZeroOpcode("R1", LabelUnder(1)) \in OpcodeSet(Symbols)
        BY <3>2, OpcodesTyped
      <3>4. up \in Seq(OpcodeSet(Symbols)) /\ down \in Seq(OpcodeSet(Symbols))
        BY <1>9, <3>3
      <3> HIDE DEF first, up, between, down
      <3>5. code \in Seq(OpcodeSet(Symbols))
        BY <1>6, <2>1, <3>3, <3>4, SeqJoin
      <3> HIDE DEF code
      <3>6. SymbolsOK' /\ CodeOK' /\ exit_label_' \in Nat
        BY <3>1, <3>5, StructureTyped
      <3>7. label_stack_' \in Seq(Nat) /\ Len(label_stack_') = Len(label_stack_) - 3
        BY <2>1, <3>1, PopLabelsTyped, 3 \in Nat DEF TypeOK
      <3>8. break_stack_' \in Seq(Nat) /\ Len(break_stack_') = Len(break_stack_) - 1
        BY <2>1, <3>1, FrontTyped DEF HaveBreak, TypeOK, FlowOK
      <3>9. Typed
        BY <3>1, <3>2, <3>6, <3>7, <3>8 DEF Typed, FlowOK, TypeOK
      <3>10. Moves(-3, -1)
        BY <3>1, <3>7, <3>8 DEF Moves, TypeOK, FlowOK
      <3>11. QED
        BY <3>1, <3>9, <3>10
    <2>2. CASE ~(HaveLabels(3) /\ HaveBreak)
      BY <1>10, <2>2, AssertedTyped DEF f_plus_loop, Asserting, Asserted
    <2>3. QED
      BY <2>1, <2>2
  <1>11. ASSUME f_until PROVE Typed /\ (HaveLabels(2) /\ HaveBreak => Moves(-2, -1))
        /\ status' \in {status, "asserted"}
    <2>1. CASE HaveLabels(2) /\ HaveBreak
      <3> DEFINE code == <<PopOpcode("R0", "DATA"), JumpZeroOpcode("R0", LabelUnder(1)),
                           LabelOpcode(LabelUnder(0))>>
      <3>1. PopBreak(2) /\ Structure(code) /\ status' = status
        BY <1>11, <2>1 DEF f_until, Asserting
      <3>2. LabelUnder(0) \in Nat /\ LabelUnder(1) \in Nat
        BY <1>3, <2>1, FrontTyped DEF HaveLabels, HaveBreak, TypeOK, FlowOK
      <3>3. code \in Seq(OpcodeSet(Symbols))
        BY <3>2, OpcodesTyped
      <3> HIDE DEF code
      <3>4. Typed /\ Moves(-2, -1)
        BY <1>1, <1>2, <2>1, <3>1, <3>3
      <3>5. QED
        BY <3>4 DEF Moves
    <2>2. CASE ~(HaveLabels(2) /\ HaveBreak)
      BY <1>11, <2>2, AssertedTyped DEF f_until, Asserting, Asserted
    <2>3. QED
      BY <2>1, <2>2
  <1>12. ASSUME f_repeat_again PROVE Typed /\ (HaveLabels(2) /\ HaveBreak => Moves(-2, -1))
        /\ status' \in {status, "asserted"}
    <2>1. CASE HaveLabels(2) /\ HaveBreak
      <3> DEFINE code == <<JumpOpcode(LabelUnder(1)), LabelOpcode(LabelUnder(0))>>
      <3>1. PopBreak(2) /\ Structure(code) /\ status' = status
        BY <1>12, <2>1 DEF f_repeat_again, Asserting
      <3>2. LabelUnder(0) \in Nat /\ LabelUnder(1) \in Nat
        BY <1>3, <2>1, FrontTyped DEF HaveLabels, HaveBreak, TypeOK, FlowOK
      <3>3. code \in Seq(OpcodeSet(Symbols))
        BY <3>2, OpcodesTyped
      <3> HIDE DEF code
      <3>4. Typed /\ Moves(-2, -1)
        BY <1>1, <1>2, <2>1, <3>1, <3>3
      <3>5. QED
        BY <3>4 DEF Moves
    <2>2. CASE ~(HaveLabels(2) /\ HaveBreak)
      BY <1>12, <2>2, AssertedTyped DEF f_repeat_again, Asserting, Asserted
    <2>3. QED
      BY <2>1, <2>2
  <1>13. ASSUME f_endof PROVE Typed /\ (HaveLabels(1) /\ HaveBreak => Moves(-1, 0))
        /\ status' \in {status, "asserted"}
    <2>1. CASE HaveLabels(1) /\ HaveBreak
      <3> DEFINE code == <<JumpOpcode(Last(break_stack_)), LabelOpcode(LabelUnder(0))>>
      <3>1. PopLabels(1) /\ UNCHANGED <<label_sequence_, break_stack_>> /\ Structure(code) /\ status' = status
        BY <1>13, <2>1 DEF f_endof, Asserting
      <3>2. LabelUnder(0) \in Nat /\ Last(break_stack_) \in Nat
        <4>1. LabelUnder(0) \in Nat
          BY <1>3, <2>1
        <4>2. Last(break_stack_) \in Nat
          BY <2>1, FrontTyped DEF HaveBreak, TypeOK, FlowOK
        <4>3. QED
          BY <4>1, <4>2
      <3>3. code \in Seq(OpcodeSet(Symbols))
        BY <3>2, OpcodesTyped
      <3> HIDE DEF code
      <3>4. Typed /\ Moves(-1, 0)
        BY <1>1, <1>2, <2>1, <3>1, <3>3
      <3>5. QED
        BY <3>4 DEF Moves
    <2>2. CASE ~(HaveLabels(1) /\ HaveBreak)
      BY <1>13, <2>2, AssertedTyped DEF f_endof, Asserting, Asserted
    <2>3. QED
      BY <2>1, <2>2
  <1>14. ASSUME f_endcase PROVE Typed /\ (HaveLabels(1) /\ HaveBreak => Moves(-1, -1))
        /\ status' \in {status, "asserted"}
    <2>1. CASE HaveLabels(1) /\ HaveBreak
      <3> DEFINE code == <<LabelOpcode(LabelUnder(0)), PopOpcode("R0", "DATA")>>
      <3>1. PopBreak(1) /\ Structure(code) /\ status' = status
        BY <1>14, <2>1 DEF f_endcase, Asserting
      <3>2. LabelUnder(0) \in Nat
        BY <1>3, <2>1, FrontTyped DEF HaveLabels, HaveBreak, TypeOK, FlowOK
      <3>3. code \in Seq(OpcodeSet(Symbols))
        BY <3>2, OpcodesTyped
      <3> HIDE DEF code
      <3>4. Typed /\ Moves(-1, -1)
        BY <1>1, <1>2, <2>1, <3>1, <3>3
      <3>5. QED
        BY <3>4 DEF Moves
    <2>2. CASE ~(HaveLabels(1) /\ HaveBreak)
      BY <1>14, <2>2, AssertedTyped DEF f_endcase, Asserting, Asserted
    <2>3. QED
      BY <2>1, <2>2
  <1>15. ASSUME f_semicolon PROVE Typed /\ (HaveLabels(1) => Moves(-1, 0))
                                       /\ status' \in {status, "asserted"}
    <2> DEFINE body == <<LabelOpcode(LabelUnder(0)), EndDefineOpcode(current_definition_)>>
               xt   == <<LoadSymbolOpcode("R0", current_definition_), PushOpcode("R0", "DATA")>>
    <2>1. CASE HaveLabels(1)
      <3>1. /\ PopLabels(1) /\ exit_label_' = 0 /\ status' = status
            /\ UNCHANGED <<label_sequence_, break_stack_>>
            /\ current_definition_' = NoSymbol
            /\ \/ UNCHANGED <<symbols, optable_>>
               \/ detect_main(symtable_, NoSymbol, 0) /\ Emit(body \o xt)
               \/ UNCHANGED symbols /\ Emit(body)
        BY <1>15, <2>1 DEF f_semicolon, Asserting
      <3>2. body \in Seq(OpcodeSet(Symbols)) /\ xt \in Seq(OpcodeSet(Symbols))
        BY <1>3, <2>1, OpcodesTyped DEF TypeOK, CodeOK
      <3> HIDE DEF body, xt
      <3>3. FlowOK' /\ Moves(-1, 0)
        <4>1. label_stack_' \in Seq(Nat) /\ Len(label_stack_') = Len(label_stack_) - 1
          BY <2>1, <3>1, PopLabelsTyped, 1 \in Nat DEF TypeOK
        <4>2. QED
          BY <3>1, <4>1 DEF Moves, TypeOK, FlowOK
      <3>4. SymbolsOK'
        BY <3>1, DetectMainTyped, 0 \in Nat DEF symbols, TypeOK, SymbolsOK
      <3>5. CodeOK'
        <4>1. \/ optable_' = optable_
              \/ optable_' = optable_ \o (body \o xt)
              \/ optable_' = optable_ \o body
          BY <3>1 DEF Emit
        <4>2. optable_ \in Seq(OpcodeSet(Symbols))
          BY DEF TypeOK, CodeOK
        <4>3. /\ optable_ \o (body \o xt) \in Seq(OpcodeSet(Symbols))
              /\ optable_ \o body \in Seq(OpcodeSet(Symbols))
          BY <3>2, <4>2, SeqJoin
        <4>4. optable_' \in Seq(OpcodeSet(Symbols))
          BY <4>1, <4>2, <4>3
        <4>5. QED
          BY <3>1, <4>4 DEF CodeOK
      <3>6. QED
        BY <3>1, <3>3, <3>4, <3>5 DEF Typed
    <2>2. CASE ~HaveLabels(1)
      BY <1>15, <2>2, AssertedTyped DEF f_semicolon, Asserting, Asserted
    <2>3. QED
      BY <2>1, <2>2
  <1>16. QED
    BY <1>4, <1>5, <1>8, <1>10, <1>11, <1>12, <1>13, <1>14, <1>15

(***************************************************************************)
(* The frames of the open constructs and the two flat stacks.              *)
(***************************************************************************)
LEMMA SharesTyped ==
  ASSUME NEW frame \in FrameSet
  PROVE  /\ Labels(frame) \in Nat /\ Breaks(frame) \in Nat
         /\ frame.labels \in Nat /\ frame.breaks \in Nat
         /\ LabelsEnd(frame) = frame.labels + Labels(frame)
         /\ BreaksEnd(frame) = frame.breaks + Breaks(frame)
  BY DEF FrameSet, Labels, Breaks, LabelsEnd, BreaksEnd

(* A frame opened on top takes the heights as they are. *)
LEMMA FitOpened ==
  ASSUME NEW frames \in Seq(FrameSet), NEW labels \in Nat, NEW breaks \in Nat,
         NEW frame \in FrameSet, Fit(frames, labels, breaks),
         frame.labels = labels, frame.breaks = breaks,
         frame.kind = "of" => /\ frames # <<>> /\ Last(frames).kind = "cased"
                              /\ frame.active => Last(frames).active
  PROVE  Fit(Append(frames, frame), labels + Labels(frame), breaks + Breaks(frame))
  <1> DEFINE new == Append(frames, frame)
             n   == Len(frames)
  <1>1. /\ n \in Nat /\ Len(new) = n + 1 /\ new[n + 1] = frame
        /\ \A i \in 1..n : new[i] = frames[i] /\ frames[i] \in FrameSet
        /\ DOMAIN new = 1..(n + 1) /\ DOMAIN frames = 1..n
        /\ new # <<>>
    BY AppendProperties, LenProperties, ElementOfSeq
  <1>2. n # 0 => frames # <<>>
    BY EmptySeq
  <1> HIDE DEF new
  <1>3. ASSUME NEW i \in 1..(Len(new) - 1)
        PROVE  /\ LabelsEnd(new[i]) <= new[i + 1].labels
               /\ BreaksEnd(new[i]) <= new[i + 1].breaks
    <2>1. CASE i = n
      BY <1>1, <1>2, <2>1 DEF Fit
    <2>2. CASE i # n
      <3>1. i \in 1..(n - 1) /\ i + 1 \in 1..n
        <4>1. n \in Nat /\ Len(new) - 1 = n
          BY <1>1
        <4>2. i \in 1..n
          BY <4>1
        <4> HIDE DEF n
        <4>3. QED
          BY <2>2, <4>1, <4>2
      <3>2. new[i] = frames[i] /\ new[i + 1] = frames[i + 1]
        BY <1>1, <3>1
      <3>3. QED
        BY <3>1, <3>2 DEF Fit
    <2>3. QED
      BY <2>1, <2>2
  <1>4. /\ LabelsEnd(new[Len(new)]) <= labels + Labels(frame)
        /\ BreaksEnd(new[Len(new)]) <= breaks + Breaks(frame)
    BY <1>1, SharesTyped, SMTT(30)
  <1>5. ASSUME NEW i \in DOMAIN new, new[i].kind = "of"
        PROVE  /\ i > 1 /\ new[i - 1].kind = "cased"
               /\ new[i].active => new[i - 1].active
    <2>1. CASE i = n + 1
      <3>1. frames # <<>> /\ frames[n].kind = "cased" /\ (frame.active => frames[n].active)
        BY <1>1, <1>5, <2>1 DEF Last
      <3>2. n \in 1..n
        BY <1>1, <3>1, EmptySeq
      <3>3. QED
        BY <1>1, <2>1, <3>1, <3>2
    <2>2. CASE i \in 1..n
      BY <1>1, <1>5, <2>2 DEF Fit
    <2>3. QED
      BY <1>1, <2>1, <2>2
  <1>6. Fit(new, labels + Labels(frame), breaks + Breaks(frame))
    BY <1>3, <1>4, <1>5 DEF Fit
  <1>7. QED
    BY <1>6 DEF new

(* The innermost frame's share is there to be popped, and the rest fits. *)
LEMMA FitClosed ==
  ASSUME NEW frames \in Seq(FrameSet), frames # <<>>,
         NEW labels \in Nat, NEW breaks \in Nat, Fit(frames, labels, breaks)
  PROVE  /\ Last(frames) \in FrameSet
         /\ Labels(Last(frames)) <= labels /\ Breaks(Last(frames)) <= breaks
         /\ Fit(Front(frames), labels - Labels(Last(frames)), breaks - Breaks(Last(frames)))
  <1> DEFINE new  == Front(frames)
             n    == Len(frames)
             last == Last(frames)
  <1>1. n \in Nat \ {0} /\ frames[n] = last /\ last \in FrameSet
    BY EmptySeq, LenProperties, FrontTyped DEF Last
  <1>2. /\ new \in Seq(FrameSet) /\ Len(new) = n - 1
        /\ \A i \in 1..(n - 1) : new[i] = frames[i]
    BY FrontTyped
  <1>3. DOMAIN new = 1..(n - 1) /\ DOMAIN frames = 1..n
    BY <1>2, LenProperties
  <1>4. \A i \in 1..n : frames[i] \in FrameSet
    BY ElementOfSeq
  <1>5. last.labels + Labels(last) <= labels /\ last.breaks + Breaks(last) <= breaks
    BY <1>1, SharesTyped DEF Fit
  <1>6. /\ Labels(last) \in Nat /\ last.labels \in Nat
        /\ Breaks(last) \in Nat /\ last.breaks \in Nat
    BY <1>1, SharesTyped
  <1> HIDE DEF new, last
  <1>7. ASSUME NEW i \in 1..(Len(new) - 1)
        PROVE  /\ LabelsEnd(new[i]) <= new[i + 1].labels
               /\ BreaksEnd(new[i]) <= new[i + 1].breaks
    BY <1>1, <1>2 DEF Fit
  <1>8. ASSUME new # <<>>
        PROVE  /\ LabelsEnd(new[Len(new)]) <= labels - Labels(last)
               /\ BreaksEnd(new[Len(new)]) <= breaks - Breaks(last)
    <2>1. n - 1 \in 1..(n - 1)
      BY <1>1, <1>2, <1>8, EmptySeq
    <2>2. new[Len(new)] = frames[n - 1] /\ frames[n - 1] \in FrameSet
      BY <1>2, <1>4, <2>1
    <2>3. /\ LabelsEnd(frames[n - 1]) <= frames[n - 1 + 1].labels
          /\ BreaksEnd(frames[n - 1]) <= frames[n - 1 + 1].breaks
      BY <2>1 DEF Fit
    <2>4. frames[n - 1 + 1] = last
      BY <1>1
    <2>5. LabelsEnd(frames[n - 1]) \in Nat /\ BreaksEnd(frames[n - 1]) \in Nat
      <3> DEFINE below == frames[n - 1]
      <3>1. below \in FrameSet
        BY <2>2
      <3> HIDE DEF below
      <3>2. LabelsEnd(below) \in Nat /\ BreaksEnd(below) \in Nat
        <4>1. /\ Labels(below) \in Nat /\ Breaks(below) \in Nat
              /\ below.labels \in Nat /\ below.breaks \in Nat
          BY <3>1, SharesTyped
        <4>2. QED
          BY <4>1 DEF LabelsEnd, BreaksEnd
      <3>3. QED
        BY <3>2 DEF below
    <2>6. /\ LabelsEnd(frames[n - 1]) <= last.labels
          /\ BreaksEnd(frames[n - 1]) <= last.breaks
      BY <2>3, <2>4
    <2>7. /\ LabelsEnd(frames[n - 1]) <= labels - Labels(last)
          /\ BreaksEnd(frames[n - 1]) <= breaks - Breaks(last)
      BY <1>5, <1>6, <2>5, <2>6, SMTT(30)
    <2>8. QED
      BY <2>2, <2>7
  <1>9. ASSUME NEW i \in DOMAIN new, new[i].kind = "of"
        PROVE  /\ i > 1 /\ new[i - 1].kind = "cased"
               /\ new[i].active => new[i - 1].active
    BY <1>1, <1>2, <1>3, <1>9 DEF Fit
  <1>10. Fit(new, labels - Labels(last), breaks - Breaks(last))
    BY <1>7, <1>8, <1>9 DEF Fit
  <1>11. Labels(last) <= labels /\ Breaks(last) <= breaks
    BY <1>5, <1>6
  <1>12. QED
    BY <1>1, <1>10, <1>11 DEF new, last

(* The innermost frame may change its kind, if its share stays the same. *)
LEMMA FitContinued ==
  ASSUME NEW frames \in Seq(FrameSet), frames # <<>>, NEW kind \in Kinds \ {"of"},
         NEW labels \in Nat, NEW breaks \in Nat, Fit(frames, labels, breaks),
         LET frame == [Last(frames) EXCEPT !.kind = kind]
         IN Labels(frame) = Labels(Last(frames)) /\ Breaks(frame) = Breaks(Last(frames))
  PROVE  LET new == [frames EXCEPT ![Len(frames)].kind = kind]
         IN /\ new \in Seq(FrameSet) /\ new # <<>>
            /\ Last(new) = [Last(frames) EXCEPT !.kind = kind]
            /\ Fit(new, labels, breaks)
  <1> DEFINE n    == Len(frames)
             last == frames[n]
             frame == [last EXCEPT !.kind = kind]
             new  == [frames EXCEPT ![n] = frame]
  <1>1. n \in Nat \ {0} /\ DOMAIN frames = 1..n /\ n \in 1..n /\ Last(frames) = last
    BY EmptySeq, LenProperties DEF Last
  <1>2. \A i \in 1..n : frames[i] \in FrameSet
    BY ElementOfSeq
  <1>3. last \in FrameSet /\ frame \in FrameSet /\ frame.kind = kind
        /\ frame.labels = last.labels /\ frame.breaks = last.breaks /\ frame.active = last.active
    BY <1>1, <1>2 DEF FrameSet
  <1>4. LabelsEnd(frame) = LabelsEnd(last) /\ BreaksEnd(frame) = BreaksEnd(last)
    BY <1>1, <1>3 DEF LabelsEnd, BreaksEnd
  <1> HIDE DEF frame
  <1>5. /\ new \in Seq(FrameSet) /\ Len(new) = n /\ DOMAIN new = 1..n
        /\ new[n] = frame /\ \A i \in 1..n : i # n => new[i] = frames[i]
    BY <1>1, <1>3, ExceptSeq
  <1>6. new # <<>> /\ Last(new) = frame
    BY <1>1, <1>5, EmptySeq DEF Last
  <1> HIDE DEF new
  <1>7. ASSUME NEW i \in 1..(Len(new) - 1)
        PROVE  /\ LabelsEnd(new[i]) <= new[i + 1].labels
               /\ BreaksEnd(new[i]) <= new[i + 1].breaks
    <2>1. /\ LabelsEnd(frames[i]) <= frames[i + 1].labels
          /\ BreaksEnd(frames[i]) <= frames[i + 1].breaks
      BY <1>1, <1>5, <1>7 DEF Fit
    <2>2. new[i] = frames[i] /\ i + 1 \in 1..n
      BY <1>1, <1>5, <1>7
    <2>3. new[i + 1].labels = frames[i + 1].labels /\ new[i + 1].breaks = frames[i + 1].breaks
      BY <1>1, <1>3, <1>5, <2>2
    <2>4. QED
      BY <2>1, <2>2, <2>3
  <1>8. LabelsEnd(new[Len(new)]) <= labels /\ BreaksEnd(new[Len(new)]) <= breaks
    BY <1>1, <1>4, <1>5 DEF Fit
  <1>9. ASSUME NEW i \in DOMAIN new, new[i].kind = "of"
        PROVE  /\ i > 1 /\ new[i - 1].kind = "cased"
               /\ new[i].active => new[i - 1].active
    <2>1. i # n /\ i \in 1..n /\ new[i] = frames[i]
      BY <1>3, <1>5, <1>9
    <2>2. /\ i > 1 /\ frames[i - 1].kind = "cased"
          /\ frames[i].active => frames[i - 1].active
      BY <1>1, <1>9, <2>1 DEF Fit
    <2>3. i - 1 \in 1..n /\ i - 1 # n
      BY <1>1, <2>1, <2>2
    <2>4. QED
      BY <1>5, <2>1, <2>2, <2>3
  <1>10. Fit(new, labels, breaks)
    BY <1>7, <1>8, <1>9 DEF Fit
  <1>11. [frames EXCEPT ![Len(frames)].kind = kind] = new
    BY DEF new, frame
  <1>12. QED
    BY <1>1, <1>5, <1>6, <1>10, <1>11 DEF frame

(***************************************************************************)
(* The inductive invariant: the types, the two flat stacks in step with    *)
(* the nesting, and no failed assert.  FramesFit is what makes the third   *)
(* inductive: it puts on the stacks what a closing handler asserts.        *)
(***************************************************************************)
IInv == TypeOK /\ FramesFit /\ AssertionsHold

(* A reduction whose handler, if it runs, moves the stacks by so much. *)
Reduced(frames, crossed, labels, breaks) ==
  /\ status = "parsing"
  /\ nest' = frames /\ split' = (split \/ crossed) /\ UNCHANGED cond_stack_
  /\ IF cond_state THEN Typed /\ Moves(labels, breaks)
                   ELSE status' = status /\ Untouched

(* A step that leaves the handlers alone keeps their state typed. *)
LEMMA UntouchedTyped ==
  ASSUME TypeOK, status' = status, Untouched
  PROVE  Typed /\ Moves(0, 0)
  BY DEF TypeOK, SymbolsOK, FlowOK, CodeOK, Untouched, symbols, flow, Typed, Moves

(* Giving up after too many errors keeps the invariant. *)
LEMMA GivenUp ==
  ASSUME IInv, GiveUp
  PROVE  IInv'
  <1>1. TypeOK'
    BY DEF IInv, GiveUp, parse_error, TypeOK, SymbolsOK, FlowOK, CodeOK, flow, Statuses
  <1>2. FramesFit'
    BY DEF IInv, GiveUp, FramesFit, InStep, flow
  <1>3. QED
    BY <1>1, <1>2 DEF IInv, GiveUp, AssertionsHold

(* A reduction that opens and closes nothing keeps the invariant if its *)
(* handler keeps the stacks.                                            *)
LEMMA StatementReduced ==
  ASSUME IInv, Reduced(nest, FALSE, 0, 0)
  PROVE  IInv'
  <1>1. Typed /\ Moves(0, 0)
    BY UntouchedTyped DEF IInv, Reduced
  <1>2. TypeOK'
    BY <1>1 DEF IInv, Reduced, TypeOK, Typed, Moves
  <1>3. FramesFit'
    BY <1>1 DEF IInv, Reduced, FramesFit, InStep, Moves, TypeOK, FlowOK
  <1>4. QED
    BY <1>1, <1>2, <1>3 DEF IInv, Reduced, AssertionsHold, Moves

(* A new frame is a frame. *)
LEMMA FrameTyped ==
  ASSUME TypeOK, NEW kind \in Kinds
  PROVE  /\ Frame(kind) \in FrameSet /\ Frame(kind).kind = kind
         /\ Frame(kind).active = cond_state
         /\ Frame(kind).labels = Len(label_stack_) /\ Frame(kind).labels \in Nat
         /\ Frame(kind).breaks = Len(break_stack_) /\ Frame(kind).breaks \in Nat
  <1>1. cond_state \in BOOLEAN
    BY DEF cond_state
  <1>2. Len(label_stack_) \in Nat /\ Len(break_stack_) \in Nat
    BY LenProperties DEF TypeOK, FlowOK
  <1>3. QED
    BY <1>1, <1>2 DEF Frame, FrameSet

(* Opening a construct, by itself or after the innermost one went on. *)
LEMMA OpenReduced ==
  ASSUME IInv, NEW kind \in Kinds, NEW frames \in Seq(FrameSet), NEW crossed \in BOOLEAN,
         NEW labels \in Nat, NEW breaks \in Nat,
         InStep /\ ~crossed =>
           /\ Fit(frames, Len(label_stack_), Len(break_stack_))
           /\ kind = "of" => /\ frames # <<>> /\ Last(frames).kind = "cased"
                             /\ cond_state => Last(frames).active,
         cond_state => Labels(Frame(kind)) = labels /\ Breaks(Frame(kind)) = breaks,
         Reduced(Append(frames, Frame(kind)), crossed, labels, breaks)
  PROVE  IInv'
  <1>1. /\ Frame(kind) \in FrameSet /\ Frame(kind).kind = kind
        /\ Frame(kind).active = cond_state
        /\ Frame(kind).labels = Len(label_stack_) /\ Frame(kind).labels \in Nat
        /\ Frame(kind).breaks = Len(break_stack_) /\ Frame(kind).breaks \in Nat
    BY FrameTyped DEF IInv
  <1>2. /\ Typed /\ status' = status
        /\ Len(label_stack_') = Len(label_stack_) + Labels(Frame(kind))
        /\ Len(break_stack_') = Len(break_stack_) + Breaks(Frame(kind))
    <2>1. CASE cond_state
      BY <2>1 DEF Reduced, Moves
    <2>2. CASE ~cond_state
      <3>1. Typed /\ Moves(0, 0)
        BY <2>2, UntouchedTyped DEF IInv, Reduced
      <3>2. Labels(Frame(kind)) = 0 /\ Breaks(Frame(kind)) = 0
        BY <1>1, <2>2 DEF Labels, Breaks
      <3>3. QED
        BY <3>1, <3>2 DEF Moves
    <2>3. QED
      BY <2>1, <2>2
  <1>3. nest' \in Seq(FrameSet) /\ nest' = Append(frames, Frame(kind))
    BY <1>1, AppendProperties DEF Reduced
  <1>4. TypeOK'
    BY <1>2, <1>3 DEF IInv, Reduced, TypeOK, Typed
  <1>5. FramesFit'
    <2>1. SUFFICES ASSUME InStep' PROVE Fit(nest, Len(label_stack_), Len(break_stack_))'
      BY DEF FramesFit
    <2>2. InStep /\ ~crossed
      BY <2>1 DEF Reduced, InStep
    <2>3. Fit(Append(frames, Frame(kind)), Len(label_stack_) + Labels(Frame(kind)),
              Len(break_stack_) + Breaks(Frame(kind)))
      BY <1>1, <2>2, FitOpened
    <2>4. QED
      BY <1>2, <1>3, <2>3
  <1>6. QED
    BY <1>2, <1>4, <1>5 DEF IInv, Reduced, AssertionsHold

(* What FramesFit gives a closing handler: its own labels, and its break.  *)
LEMMA CloseHas ==
  ASSUME IInv, InStep, nest # <<>>
  PROVE  /\ HaveLabels(Labels(Top)) /\ (Breaks(Top) > 0 => HaveBreak)
         /\ Top \in FrameSet
         /\ Fit(Front(nest), Len(label_stack_) - Labels(Top), Len(break_stack_) - Breaks(Top))
  <1>1. nest \in Seq(FrameSet) /\ Len(label_stack_) \in Nat /\ Len(break_stack_) \in Nat
    BY LenProperties DEF IInv, TypeOK, FlowOK
  <1>2. /\ Last(nest) \in FrameSet
        /\ Labels(Last(nest)) <= Len(label_stack_) /\ Breaks(Last(nest)) <= Len(break_stack_)
        /\ Fit(Front(nest), Len(label_stack_) - Labels(Last(nest)),
               Len(break_stack_) - Breaks(Last(nest)))
    BY <1>1, FitClosed DEF IInv, FramesFit
  <1>3. Labels(Last(nest)) \in Nat /\ Breaks(Last(nest)) \in Nat
    BY <1>2, SharesTyped
  <1>4. Breaks(Last(nest)) > 0 => break_stack_ # <<>>
    BY <1>1, <1>2, <1>3, EmptySeq
  <1>5. QED
    BY <1>1, <1>2, <1>3, <1>4 DEF Top, HaveLabels, HaveBreak

(* A reduction that ends a construct keeps the invariant if its handler *)
(* pops that construct's share.                                         *)
LEMMA CloseReduced ==
  ASSUME IInv, nest # <<>>, status = "parsing",
         nest' = Front(nest), split' = (split \/ Top.active # cond_state),
         UNCHANGED cond_stack_,
         IF cond_state THEN /\ Typed /\ status' \in {status, "asserted"}
                            /\ InStep /\ Top.active => Moves(-Labels(Top), -Breaks(Top))
                       ELSE status' = status /\ Untouched
  PROVE  IInv'
  <1>1. nest' \in Seq(FrameSet)
    BY FrontTyped DEF IInv, TypeOK
  <1>2. Typed /\ status' \in {status, "asserted"}
    BY UntouchedTyped DEF IInv
  <1>3. TypeOK'
    <2>1. split' \in BOOLEAN
      BY DEF IInv, TypeOK, cond_state
    <2>2. status' \in Statuses
      BY <1>2 DEF IInv, TypeOK, Statuses
    <2>3. QED
      BY <1>1, <1>2, <2>1, <2>2 DEF IInv, TypeOK, Typed
  <1>4. ASSUME InStep'
        PROVE  /\ Fit(nest, Len(label_stack_), Len(break_stack_))'
               /\ status' = status
    <2>1. InStep /\ (Top.active <=> cond_state)
      BY <1>4, CloseHas DEF InStep, FrameSet
    <2>2. /\ Top \in FrameSet
          /\ Fit(Front(nest), Len(label_stack_) - Labels(Top), Len(break_stack_) - Breaks(Top))
      BY <2>1, CloseHas
    <2>3. Moves(-Labels(Top), -Breaks(Top))
      <3>1. CASE cond_state
        BY <2>1, <3>1
      <3>2. CASE ~cond_state
        <4>1. Moves(0, 0)
          BY <3>2, UntouchedTyped DEF IInv
        <4>2. Labels(Top) = 0 /\ Breaks(Top) = 0
          BY <2>1, <3>2 DEF Labels, Breaks
        <4>3. QED
          BY <4>1, <4>2 DEF Moves
      <3>3. QED
        BY <3>1, <3>2
    <2>4. /\ Len(label_stack_') = Len(label_stack_) - Labels(Top)
          /\ Len(break_stack_') = Len(break_stack_) - Breaks(Top)
      <3>1. Labels(Top) \in Nat /\ Breaks(Top) \in Nat
        BY <2>2, SharesTyped
      <3>2. Len(label_stack_) \in Nat /\ Len(break_stack_) \in Nat
        BY LenProperties DEF IInv, TypeOK, FlowOK
      <3>3. QED
        BY <2>3, <3>1, <3>2 DEF Moves
    <2>5. QED
      BY <2>2, <2>3, <2>4 DEF Moves
  <1>5. QED
    BY <1>3, <1>4 DEF IInv, FramesFit, AssertionsHold

(***************************************************************************)
(* One step of the parser preserves the invariant, action by action.       *)
(***************************************************************************)
LEMMA DeclarationStep ==
  ASSUME ParserAssumption, IInv, Declaration
  PROVE  IInv'
  <1>1. GiveUp \/ Reduced(nest, FALSE, 0, 0)
    BY DeclarationHandlers DEF IInv, Declaration, Variable, Constant, FConstant, Create,
       Plainly, Reduce, Reduced
  <1>2. QED
    BY <1>1, GivenUp, StatementReduced

(* Words, literals, strings and breaks keep the invariant. *)
LEMMA StraightStep ==
  ASSUME ParserAssumption, IInv, Straight
  PROVE  IInv'
  <1>1. GiveUp \/ Reduced(nest, FALSE, 0, 0)
    <2>1. Exit \/ StringLiteral \/ CharLiteral \/ CString \/ Integer \/ Float \/ Recurse
            \/ Leave \/ QueryLeave \/ While => GiveUp \/ Reduced(nest, FALSE, 0, 0)
      BY LiteralHandlers DEF IInv, Exit, StringLiteral, CharLiteral, CString, Integer, Float,
         Recurse, Leave, QueryLeave, While, Statement, Plainly, Reduce, Reduced
    <2>2. Word \/ ObjectAddress \/ PString \/ AString => GiveUp \/ Reduced(nest, FALSE, 0, 0)
      BY WordHandlers DEF IInv, Word, ObjectAddress, PString, AString, Statement, Plainly,
         Reduce, Reduced
    <2>3. QED
      BY <2>1, <2>2 DEF Straight
  <1>2. QED
    BY <1>1, GivenUp, StatementReduced

(* The words that open a construct keep the invariant. *)
LEMMA OpeningStep ==
  ASSUME ParserAssumption, IInv,
         Colon \/ NoName \/ Code \/ If \/ Do \/ QueryDo \/ Begin \/ Case
  PROVE  IInv'
  <1>1. ASSUME NEW kind \in Kinds \ {"of"}, NEW labels \in Nat, NEW breaks \in Nat,
               cond_state => Labels(Frame(kind)) = labels /\ Breaks(Frame(kind)) = breaks,
               Reduced(Append(nest, Frame(kind)), FALSE, labels, breaks)
        PROVE  IInv'
    <2>2. InStep => Fit(nest, Len(label_stack_), Len(break_stack_))
      BY DEF IInv, FramesFit
    <2>3. nest \in Seq(FrameSet)
      BY DEF IInv, TypeOK
    <2>4. kind # "of" /\ kind \in Kinds
      BY <1>1
    <2>5. QED
      BY <1>1, <2>2, <2>3, <2>4, OpenReduced
  <1>2. ASSUME Colon PROVE IInv'
    <2>1. GiveUp \/ Reduced(Append(nest, Frame("definition")), FALSE, 1, 0)
      BY <1>2, OpeningHandlers DEF IInv, Colon, Open, Reduce, Reduced
    <2>2. cond_state => Labels(Frame("definition")) = 1 /\ Breaks(Frame("definition")) = 0
      <3>1. "definition" \in Kinds
        BY DEF Kinds
      <3>2. Frame("definition").kind = "definition" /\ Frame("definition").active = cond_state
        BY <3>1, FrameTyped DEF IInv
      <3>3. QED
        BY <3>2 DEF Labels, Breaks
    <2>3. "definition" \in Kinds \ {"of"} /\ 1 \in Nat /\ 0 \in Nat
      BY DEF Kinds
    <2>4. Reduced(Append(nest, Frame("definition")), FALSE, 1, 0) => IInv'
      BY <1>1, <2>2, <2>3
    <2>5. QED
      BY <2>1, <2>4, GivenUp
  <1>3. ASSUME NoName PROVE IInv'
    <2>c. ASSUME NEW anon \in Anons, Defined(anon), f_nonameword(anon), UNCHANGED cond_stack_,
                 nest' = Append(nest, Frame("noname")), split' = (split \/ FALSE)
          PROVE  IInv'
      <3>1. /\ OpenBody /\ status' = "collided"
            /\ UNCHANGED <<symbols, optable_, current_definition_>>
        BY <2>c DEF f_nonameword
      <3>2. FlowOK'
        BY <3>1, PushLabelsTyped, 1 \in Nat DEF OpenBody, IInv, TypeOK, FlowOK
      <3>3. nest' \in Seq(FrameSet)
        <4>1. nest \in Seq(FrameSet) /\ "noname" \in Kinds
          BY DEF IInv, TypeOK, Kinds
        <4>2. QED
          BY <2>c, <4>1, FrameTyped, AppendProperties DEF IInv
      <3>4. TypeOK'
        BY <2>c, <3>1, <3>2, <3>3 DEF IInv, TypeOK, SymbolsOK, CodeOK, symbols, Statuses
      <3>5. QED
        BY <3>1, <3>4 DEF IInv, FramesFit, InStep, AssertionsHold
    <2>1. \/ GiveUp \/ Reduced(Append(nest, Frame("noname")), FALSE, 1, 0)
          \/ \E anon \in Anons :
               /\ Defined(anon) /\ f_nonameword(anon) /\ UNCHANGED cond_stack_
               /\ nest' = Append(nest, Frame("noname")) /\ split' = (split \/ FALSE)
      <3>1. PICK s \in Anons : Open(":NONAME", "noname", f_nonameword(s))
        BY <1>3 DEF NoName
      <3>2. CASE cond_state /\ Defined(s)
        BY <3>1, <3>2 DEF Open, Reduce
      <3>3. CASE ~(cond_state /\ Defined(s))
        BY <3>1, <3>3, OpeningHandlers DEF IInv, Open, Reduce, Reduced
      <3>4. QED
        BY <3>2, <3>3
    <2>2. cond_state => Labels(Frame("noname")) = 1 /\ Breaks(Frame("noname")) = 0
      <3>1. "noname" \in Kinds
        BY DEF Kinds
      <3>2. Frame("noname").kind = "noname" /\ Frame("noname").active = cond_state
        BY <3>1, FrameTyped DEF IInv
      <3>3. QED
        BY <3>2 DEF Labels, Breaks
    <2>3. "noname" \in Kinds \ {"of"} /\ 1 \in Nat /\ 0 \in Nat
      BY DEF Kinds
    <2>4. Reduced(Append(nest, Frame("noname")), FALSE, 1, 0) => IInv'
      BY <1>1, <2>2, <2>3
    <2>5. QED
      BY <2>1, <2>4, <2>c, GivenUp
  <1>4. ASSUME Code PROVE IInv'
    <2>1. GiveUp \/ Reduced(Append(nest, Frame("code")), FALSE, 0, 0)
      BY <1>4, DeclarationHandlers DEF IInv, Code, Open, Reduce, Reduced
    <2>2. cond_state => Labels(Frame("code")) = 0 /\ Breaks(Frame("code")) = 0
      <3>1. "code" \in Kinds
        BY DEF Kinds
      <3>2. Frame("code").kind = "code" /\ Frame("code").active = cond_state
        BY <3>1, FrameTyped DEF IInv
      <3>3. QED
        BY <3>2 DEF Labels, Breaks
    <2>3. "code" \in Kinds \ {"of"} /\ 0 \in Nat /\ 0 \in Nat
      BY DEF Kinds
    <2>4. Reduced(Append(nest, Frame("code")), FALSE, 0, 0) => IInv'
      BY <1>1, <2>2, <2>3
    <2>5. QED
      BY <2>1, <2>4, GivenUp
  <1>5. ASSUME If PROVE IInv'
    <2>1. GiveUp \/ Reduced(Append(nest, Frame("if")), FALSE, 1, 0)
      BY <1>5, OpeningHandlers DEF IInv, If, Structured, Open, Reduce, Reduced
    <2>2. cond_state => Labels(Frame("if")) = 1 /\ Breaks(Frame("if")) = 0
      <3>1. "if" \in Kinds
        BY DEF Kinds
      <3>2. Frame("if").kind = "if" /\ Frame("if").active = cond_state
        BY <3>1, FrameTyped DEF IInv
      <3>3. QED
        BY <3>2 DEF Labels, Breaks
    <2>3. "if" \in Kinds \ {"of"} /\ 1 \in Nat /\ 0 \in Nat
      BY DEF Kinds
    <2>4. Reduced(Append(nest, Frame("if")), FALSE, 1, 0) => IInv'
      BY <1>1, <2>2, <2>3
    <2>5. QED
      BY <2>1, <2>4, GivenUp
  <1>6. ASSUME Do PROVE IInv'
    <2>1. GiveUp \/ Reduced(Append(nest, Frame("do")), FALSE, 3, 1)
      BY <1>6, OpeningHandlers DEF IInv, Do, Structured, Open, Reduce, Reduced
    <2>2. cond_state => Labels(Frame("do")) = 3 /\ Breaks(Frame("do")) = 1
      <3>1. "do" \in Kinds
        BY DEF Kinds
      <3>2. Frame("do").kind = "do" /\ Frame("do").active = cond_state
        BY <3>1, FrameTyped DEF IInv
      <3>3. QED
        BY <3>2 DEF Labels, Breaks
    <2>3. "do" \in Kinds \ {"of"} /\ 3 \in Nat /\ 1 \in Nat
      BY DEF Kinds
    <2>4. Reduced(Append(nest, Frame("do")), FALSE, 3, 1) => IInv'
      BY <1>1, <2>2, <2>3
    <2>5. QED
      BY <2>1, <2>4, GivenUp
  <1>7. ASSUME QueryDo PROVE IInv'
    <2>1. GiveUp \/ Reduced(Append(nest, Frame("do")), FALSE, 3, 1)
      BY <1>7, OpeningHandlers DEF IInv, QueryDo, Structured, Open, Reduce, Reduced
    <2>2. cond_state => Labels(Frame("do")) = 3 /\ Breaks(Frame("do")) = 1
      <3>1. "do" \in Kinds
        BY DEF Kinds
      <3>2. Frame("do").kind = "do" /\ Frame("do").active = cond_state
        BY <3>1, FrameTyped DEF IInv
      <3>3. QED
        BY <3>2 DEF Labels, Breaks
    <2>3. "do" \in Kinds \ {"of"} /\ 3 \in Nat /\ 1 \in Nat
      BY DEF Kinds
    <2>4. Reduced(Append(nest, Frame("do")), FALSE, 3, 1) => IInv'
      BY <1>1, <2>2, <2>3
    <2>5. QED
      BY <2>1, <2>4, GivenUp
  <1>8. ASSUME Begin PROVE IInv'
    <2>1. GiveUp \/ Reduced(Append(nest, Frame("begin")), FALSE, 2, 1)
      BY <1>8, OpeningHandlers DEF IInv, Begin, Structured, Open, Reduce, Reduced
    <2>2. cond_state => Labels(Frame("begin")) = 2 /\ Breaks(Frame("begin")) = 1
      <3>1. "begin" \in Kinds
        BY DEF Kinds
      <3>2. Frame("begin").kind = "begin" /\ Frame("begin").active = cond_state
        BY <3>1, FrameTyped DEF IInv
      <3>3. QED
        BY <3>2 DEF Labels, Breaks
    <2>3. "begin" \in Kinds \ {"of"} /\ 2 \in Nat /\ 1 \in Nat
      BY DEF Kinds
    <2>4. Reduced(Append(nest, Frame("begin")), FALSE, 2, 1) => IInv'
      BY <1>1, <2>2, <2>3
    <2>5. QED
      BY <2>1, <2>4, GivenUp
  <1>9. ASSUME Case PROVE IInv'
    <2>1. GiveUp \/ Reduced(Append(nest, Frame("case")), FALSE, 1, 1)
      BY <1>9, OpeningHandlers DEF IInv, Case, Structured, Open, Reduce, Reduced
    <2>2. cond_state => Labels(Frame("case")) = 1 /\ Breaks(Frame("case")) = 1
      <3>1. "case" \in Kinds
        BY DEF Kinds
      <3>2. Frame("case").kind = "case" /\ Frame("case").active = cond_state
        BY <3>1, FrameTyped DEF IInv
      <3>3. QED
        BY <3>2 DEF Labels, Breaks
    <2>3. "case" \in Kinds \ {"of"} /\ 1 \in Nat /\ 1 \in Nat
      BY DEF Kinds
    <2>4. Reduced(Append(nest, Frame("case")), FALSE, 1, 1) => IInv'
      BY <1>1, <2>2, <2>3
    <2>5. QED
      BY <2>1, <2>4, GivenUp
  <1>10. QED
    BY <1>2, <1>3, <1>4, <1>5, <1>6, <1>7, <1>8, <1>9

(* The words that close a construct keep the invariant. *)
LEMMA ClosingStep ==
  ASSUME ParserAssumption, IInv,
         Semicolon \/ EndCode \/ Then \/ Loop \/ PlusLoop \/ Until \/ Repeat \/ EndCase
  PROVE  IInv'
  <1>1. ASSUME Semicolon PROVE IInv'
    <2>1. CASE GiveUp
      BY <2>1, GivenUp
    <2>2. CASE ~GiveUp
      <3>1. /\ status = "parsing" /\ nest # <<>> /\ Top.kind \in {"definition", "noname"}
            /\ nest' = Front(nest) /\ split' = (split \/ Top.active # cond_state)
            /\ UNCHANGED cond_stack_
            /\ IF cond_state THEN f_semicolon ELSE status' = status /\ Untouched
        BY <1>1, <2>2 DEF Semicolon, Close, Reduce, Inside
      <3>2. ASSUME cond_state, InStep, Top.active
            PROVE  Moves(-Labels(Top), -Breaks(Top))
        <4>1. Labels(Top) = 1 /\ Breaks(Top) = 0
          BY <3>1, <3>2 DEF Labels, Breaks
        <4>2. HaveLabels(1)
          BY <3>1, <3>2, <4>1, CloseHas
        <4>3. QED
          BY <3>1, <3>2, <4>1, <4>2, ClosingHandlers DEF IInv
      <3>3. cond_state => Typed /\ status' \in {status, "asserted"}
        BY <3>1, ClosingHandlers DEF IInv
      <3>4. QED
        BY <3>1, <3>2, <3>3, CloseReduced
    <2>3. QED
      BY <2>1, <2>2
  <1>2. ASSUME Then PROVE IInv'
    <2>1. CASE GiveUp
      BY <2>1, GivenUp
    <2>2. CASE ~GiveUp
      <3>1. /\ status = "parsing" /\ nest # <<>> /\ Top.kind \in {"if", "else"}
            /\ nest' = Front(nest) /\ split' = (split \/ Top.active # cond_state)
            /\ UNCHANGED cond_stack_
            /\ IF cond_state THEN f_then_endif ELSE status' = status /\ Untouched
        BY <1>2, <2>2 DEF Then, Close, Reduce, Inside
      <3>2. ASSUME cond_state, InStep, Top.active
            PROVE  Moves(-Labels(Top), -Breaks(Top))
        <4>1. Labels(Top) = 1 /\ Breaks(Top) = 0
          BY <3>1, <3>2 DEF Labels, Breaks
        <4>2. HaveLabels(1)
          BY <3>1, <3>2, <4>1, CloseHas
        <4>3. QED
          BY <3>1, <3>2, <4>1, <4>2, ClosingHandlers DEF IInv
      <3>3. cond_state => Typed /\ status' \in {status, "asserted"}
        BY <3>1, ClosingHandlers DEF IInv
      <3>4. QED
        BY <3>1, <3>2, <3>3, CloseReduced
    <2>3. QED
      BY <2>1, <2>2
  <1>3. ASSUME Loop PROVE IInv'
    <2>1. CASE GiveUp
      BY <2>1, GivenUp
    <2>2. CASE ~GiveUp
      <3>1. /\ status = "parsing" /\ nest # <<>> /\ Top.kind \in {"do"}
            /\ nest' = Front(nest) /\ split' = (split \/ Top.active # cond_state)
            /\ UNCHANGED cond_stack_
            /\ IF cond_state THEN f_loop ELSE status' = status /\ Untouched
        BY <1>3, <2>2 DEF Loop, Close, Reduce, Inside
      <3>2. ASSUME cond_state, InStep, Top.active
            PROVE  Moves(-Labels(Top), -Breaks(Top))
        <4>1. Labels(Top) = 3 /\ Breaks(Top) = 1
          BY <3>1, <3>2 DEF Labels, Breaks
        <4>2. HaveLabels(3) /\ HaveBreak
          BY <3>1, <3>2, <4>1, CloseHas
        <4>3. QED
          BY <3>1, <3>2, <4>1, <4>2, ClosingHandlers DEF IInv
      <3>3. cond_state => Typed /\ status' \in {status, "asserted"}
        BY <3>1, ClosingHandlers DEF IInv
      <3>4. QED
        BY <3>1, <3>2, <3>3, CloseReduced
    <2>3. QED
      BY <2>1, <2>2
  <1>4. ASSUME PlusLoop PROVE IInv'
    <2>1. CASE GiveUp
      BY <2>1, GivenUp
    <2>2. CASE ~GiveUp
      <3>1. /\ status = "parsing" /\ nest # <<>> /\ Top.kind \in {"do"}
            /\ nest' = Front(nest) /\ split' = (split \/ Top.active # cond_state)
            /\ UNCHANGED cond_stack_
            /\ IF cond_state THEN f_plus_loop ELSE status' = status /\ Untouched
        BY <1>4, <2>2 DEF PlusLoop, Close, Reduce, Inside
      <3>2. ASSUME cond_state, InStep, Top.active
            PROVE  Moves(-Labels(Top), -Breaks(Top))
        <4>1. Labels(Top) = 3 /\ Breaks(Top) = 1
          BY <3>1, <3>2 DEF Labels, Breaks
        <4>2. HaveLabels(3) /\ HaveBreak
          BY <3>1, <3>2, <4>1, CloseHas
        <4>3. QED
          BY <3>1, <3>2, <4>1, <4>2, ClosingHandlers DEF IInv
      <3>3. cond_state => Typed /\ status' \in {status, "asserted"}
        BY <3>1, ClosingHandlers DEF IInv
      <3>4. QED
        BY <3>1, <3>2, <3>3, CloseReduced
    <2>3. QED
      BY <2>1, <2>2
  <1>5. ASSUME Until PROVE IInv'
    <2>1. CASE GiveUp
      BY <2>1, GivenUp
    <2>2. CASE ~GiveUp
      <3>1. /\ status = "parsing" /\ nest # <<>> /\ Top.kind \in {"begin"}
            /\ nest' = Front(nest) /\ split' = (split \/ Top.active # cond_state)
            /\ UNCHANGED cond_stack_
            /\ IF cond_state THEN f_until ELSE status' = status /\ Untouched
        BY <1>5, <2>2 DEF Until, Close, Reduce, Inside
      <3>2. ASSUME cond_state, InStep, Top.active
            PROVE  Moves(-Labels(Top), -Breaks(Top))
        <4>1. Labels(Top) = 2 /\ Breaks(Top) = 1
          BY <3>1, <3>2 DEF Labels, Breaks
        <4>2. HaveLabels(2) /\ HaveBreak
          BY <3>1, <3>2, <4>1, CloseHas
        <4>3. QED
          BY <3>1, <3>2, <4>1, <4>2, ClosingHandlers DEF IInv
      <3>3. cond_state => Typed /\ status' \in {status, "asserted"}
        BY <3>1, ClosingHandlers DEF IInv
      <3>4. QED
        BY <3>1, <3>2, <3>3, CloseReduced
    <2>3. QED
      BY <2>1, <2>2
  <1>6. ASSUME Repeat PROVE IInv'
    <2>1. CASE GiveUp
      BY <2>1, GivenUp
    <2>2. CASE ~GiveUp
      <3>1. /\ status = "parsing" /\ nest # <<>> /\ Top.kind \in {"begin"}
            /\ nest' = Front(nest) /\ split' = (split \/ Top.active # cond_state)
            /\ UNCHANGED cond_stack_
            /\ IF cond_state THEN f_repeat_again ELSE status' = status /\ Untouched
        BY <1>6, <2>2 DEF Repeat, Close, Reduce, Inside
      <3>2. ASSUME cond_state, InStep, Top.active
            PROVE  Moves(-Labels(Top), -Breaks(Top))
        <4>1. Labels(Top) = 2 /\ Breaks(Top) = 1
          BY <3>1, <3>2 DEF Labels, Breaks
        <4>2. HaveLabels(2) /\ HaveBreak
          BY <3>1, <3>2, <4>1, CloseHas
        <4>3. QED
          BY <3>1, <3>2, <4>1, <4>2, ClosingHandlers DEF IInv
      <3>3. cond_state => Typed /\ status' \in {status, "asserted"}
        BY <3>1, ClosingHandlers DEF IInv
      <3>4. QED
        BY <3>1, <3>2, <3>3, CloseReduced
    <2>3. QED
      BY <2>1, <2>2
  <1>7. ASSUME EndCase PROVE IInv'
    <2>1. CASE GiveUp
      BY <2>1, GivenUp
    <2>2. CASE ~GiveUp
      <3>1. /\ status = "parsing" /\ nest # <<>> /\ Top.kind \in {"cased"}
            /\ nest' = Front(nest) /\ split' = (split \/ Top.active # cond_state)
            /\ UNCHANGED cond_stack_
            /\ IF cond_state THEN f_endcase ELSE status' = status /\ Untouched
        BY <1>7, <2>2 DEF EndCase, Close, Reduce, Inside
      <3>2. ASSUME cond_state, InStep, Top.active
            PROVE  Moves(-Labels(Top), -Breaks(Top))
        <4>1. Labels(Top) = 1 /\ Breaks(Top) = 1
          BY <3>1, <3>2 DEF Labels, Breaks
        <4>2. HaveLabels(1) /\ HaveBreak
          BY <3>1, <3>2, <4>1, CloseHas
        <4>3. QED
          BY <3>1, <3>2, <4>1, <4>2, ClosingHandlers DEF IInv
      <3>3. cond_state => Typed /\ status' \in {status, "asserted"}
        BY <3>1, ClosingHandlers DEF IInv
      <3>4. QED
        BY <3>1, <3>2, <3>3, CloseReduced
    <2>3. QED
      BY <2>1, <2>2
  <1>8. ASSUME EndCode PROVE IInv'
    <2>1. CASE GiveUp
      BY <2>1, GivenUp
    <2>2. CASE ~GiveUp
      <3>1. /\ status = "parsing" /\ nest # <<>> /\ Top.kind = "coded"
            /\ nest' = Front(nest) /\ split' = (split \/ Top.active # cond_state)
            /\ UNCHANGED cond_stack_
            /\ IF cond_state THEN f_end_code ELSE status' = status /\ Untouched
        BY <1>8, <2>2 DEF EndCode, Close, Reduce, Inside
      <3>2. Labels(Top) = 0 /\ Breaks(Top) = 0
        BY <3>1 DEF Labels, Breaks
      <3>3. cond_state => Typed /\ Moves(0, 0)
        BY <3>1, AssemblyHandlers DEF IInv
      <3>4. cond_state => status' = status /\ Moves(-Labels(Top), -Breaks(Top))
        BY <3>2, <3>3 DEF Moves
      <3>5. QED
        BY <3>1, <3>3, <3>4, CloseReduced
    <2>3. QED
      BY <2>1, <2>2
  <1>9. QED
    BY <1>1, <1>2, <1>3, <1>4, <1>5, <1>6, <1>7, <1>8

(* The reductions that keep the innermost construct open. *)
LEMMA ContinuingStep ==
  ASSUME ParserAssumption, IInv, Asm \/ Else \/ Of \/ EndOf
  PROVE  IInv'
  <1>1. ASSUME NEW kind \in Kinds \ {"of"}, nest # <<>>, InStep,
               \/ kind = "coded" /\ Top.kind \in {"code", "coded"}
               \/ kind = "else" /\ Top.kind = "if"
               \/ kind = "cased" /\ Top.kind \in {"case", "cased"}
        PROVE  /\ Fit(Continue(kind), Len(label_stack_), Len(break_stack_))
               /\ Last(Continue(kind)).kind = kind
               /\ Last(Continue(kind)).active = Top.active
    <2> DEFINE frame == [Top EXCEPT !.kind = kind]
    <2>1. nest \in Seq(FrameSet) /\ Len(label_stack_) \in Nat /\ Len(break_stack_) \in Nat
      BY LenProperties DEF IInv, TypeOK, FlowOK
    <2>2. Top \in FrameSet
      BY <1>1, CloseHas
    <2>3. frame.kind = kind /\ frame.active = Top.active
      BY <2>2 DEF FrameSet
    <2>4. Labels(frame) = Labels(Top) /\ Breaks(frame) = Breaks(Top)
      BY <1>1, <2>3 DEF Labels, Breaks
    <2>5. Fit(nest, Len(label_stack_), Len(break_stack_))
      BY <1>1 DEF IInv, FramesFit
    <2>6. /\ Last(Continue(kind)) = frame
          /\ Fit(Continue(kind), Len(label_stack_), Len(break_stack_))
      BY <1>1, <2>1, <2>4, <2>5, FitContinued DEF Continue, Top
    <2>7. QED
      BY <2>3, <2>6
  <1>2. ASSUME NEW kind \in Kinds, nest # <<>>
        PROVE  Continue(kind) \in Seq(FrameSet) /\ Continue(kind) # <<>>
    <2>1. nest \in Seq(FrameSet) /\ Len(nest) \in 1..Len(nest) /\ Last(nest) \in FrameSet
      BY <1>2, EmptySeq, LenProperties, FrontTyped DEF IInv, TypeOK
    <2>2. [nest[Len(nest)] EXCEPT !.kind = kind] \in FrameSet
      BY <2>1 DEF FrameSet, Last
    <2>3. [nest EXCEPT ![Len(nest)] = [nest[Len(nest)] EXCEPT !.kind = kind]] \in Seq(FrameSet)
      BY <2>1, <2>2, ExceptSeq
    <2>4. Len([nest EXCEPT ![Len(nest)] = [nest[Len(nest)] EXCEPT !.kind = kind]]) = Len(nest)
      BY <2>1, <2>2, ExceptSeq
    <2>5. QED
      BY <2>1, <2>3, <2>4 DEF Continue
  <1>3. ASSUME NEW kind \in Kinds \ {"of"}, nest # <<>>, NEW crossed \in BOOLEAN,
               InStep /\ ~crossed => Fit(Continue(kind), Len(label_stack_), Len(break_stack_)),
               Typed, status = "parsing", status' \in {status, "asserted"},
               InStep /\ ~crossed => Moves(0, 0),
               nest' = Continue(kind), split' = (split \/ crossed), UNCHANGED cond_stack_
        PROVE  IInv'
    <2>1. TypeOK'
      <3>1. status' \in Statuses
        BY <1>3 DEF Statuses
      <3>2. kind \in Kinds
        BY <1>3
      <3>3. nest' \in Seq(FrameSet)
        BY <1>2, <1>3, <3>2
      <3>4. split' \in BOOLEAN
        BY <1>3 DEF IInv, TypeOK
      <3>5. QED
        BY <1>3, <3>1, <3>3, <3>4 DEF IInv, TypeOK, Typed
    <2>2. ASSUME InStep'
          PROVE  Fit(nest, Len(label_stack_), Len(break_stack_))' /\ status' = status
      <3>1. InStep /\ ~crossed
        BY <1>3, <2>2 DEF InStep
      <3>2. /\ status' = status
            /\ Len(label_stack_') = Len(label_stack_) /\ Len(break_stack_') = Len(break_stack_)
        BY <1>3, <3>1, LenProperties DEF Moves, IInv, TypeOK, FlowOK
      <3>3. QED
        BY <1>3, <3>1, <3>2
    <2>3. QED
      BY <1>3, <2>1, <2>2 DEF IInv, FramesFit, AssertionsHold
  <1>4. ASSUME Asm PROVE IInv'
    <2>1. CASE GiveUp
      BY <2>1, GivenUp
    <2>2. CASE ~GiveUp
      <3>1. /\ status = "parsing" /\ nest # <<>> /\ Top.kind \in {"code", "coded"}
            /\ nest' = Continue("coded") /\ split' = (split \/ FALSE) /\ UNCHANGED cond_stack_
            /\ IF cond_state THEN \E comment \in BOOLEAN : f_code(comment)
                             ELSE status' = status /\ Untouched
        BY <1>4, <2>2 DEF Asm, Reduce, Inside
      <3>2. Typed /\ Moves(0, 0) /\ status' = status
        BY <3>1, AssemblyHandlers, UntouchedTyped DEF IInv, Moves
      <3>3. "coded" \in Kinds \ {"of"}
        BY DEF Kinds
      <3>4. InStep => Fit(Continue("coded"), Len(label_stack_), Len(break_stack_))
        BY <1>1, <3>1, <3>3
      <3>5. QED
        BY <1>3, <3>1, <3>2, <3>3, <3>4
    <2>3. QED
      BY <2>1, <2>2
  <1>5. ASSUME Else PROVE IInv'
    <2>1. CASE GiveUp
      BY <2>1, GivenUp
    <2>2. CASE ~GiveUp
      <3> DEFINE crossed == ~Top.active /\ cond_state
      <3>1. /\ status = "parsing" /\ nest # <<>> /\ Top.kind = "if"
            /\ nest' = Continue("else") /\ split' = (split \/ crossed) /\ UNCHANGED cond_stack_
            /\ IF cond_state THEN f_else ELSE status' = status /\ Untouched
        BY <1>5, <2>2 DEF Else, Reduce, Inside
      <3>2. "else" \in Kinds \ {"of"} /\ crossed \in BOOLEAN
        BY DEF Kinds
      <3>3. InStep => Fit(Continue("else"), Len(label_stack_), Len(break_stack_))
        BY <1>1, <3>1, <3>2
      <3>4. ASSUME InStep, ~crossed PROVE Moves(0, 0)
        <4>1. CASE cond_state
          <5>1. Labels(Top) = 1
            BY <3>1, <3>4, <4>1 DEF Labels
          <5>2. HaveLabels(1)
            BY <3>1, <3>4, <5>1, CloseHas
          <5>3. QED
            BY <3>1, <4>1, <5>2, ClosingHandlers DEF IInv
        <4>2. CASE ~cond_state
          BY <3>1, <4>2, UntouchedTyped DEF IInv
        <4>3. QED
          BY <4>1, <4>2
      <3>5. Typed /\ status' \in {status, "asserted"}
        BY <3>1, ClosingHandlers, UntouchedTyped DEF IInv
      <3> HIDE DEF crossed
      <3>6. QED
        BY <1>3, <3>1, <3>2, <3>3, <3>4, <3>5
    <2>3. QED
      BY <2>1, <2>2
  <1>6. ASSUME Of PROVE IInv'
    <2>1. CASE GiveUp
      BY <2>1, GivenUp
    <2>2. CASE ~GiveUp
      <3> DEFINE crossed == ~Top.active /\ cond_state
                 frames  == Continue("cased")
      <3>1. /\ nest # <<>> /\ Top.kind \in {"case", "cased"}
            /\ Reduced(Append(frames, Frame("of")), crossed, 1, 0)
        BY <1>6, <2>2, OpeningHandlers DEF IInv, Of, Reduce, Reduced, Inside
      <3>2. /\ "cased" \in Kinds \ {"of"} /\ "cased" \in Kinds /\ "of" \in Kinds
            /\ crossed \in BOOLEAN /\ 1 \in Nat /\ 0 \in Nat
        BY DEF Kinds
      <3>3. frames \in Seq(FrameSet) /\ frames # <<>>
        BY <1>2, <3>1, <3>2
      <3>4. InStep => /\ Fit(frames, Len(label_stack_), Len(break_stack_))
                      /\ Last(frames).kind = "cased"
                      /\ Last(frames).active = Top.active
        BY <1>1, <3>1, <3>2
      <3>5. cond_state => Labels(Frame("of")) = 1 /\ Breaks(Frame("of")) = 0
        BY <3>2, FrameTyped DEF IInv, Labels, Breaks
      <3>6. InStep /\ ~crossed =>
              /\ Fit(frames, Len(label_stack_), Len(break_stack_))
              /\ frames # <<>> /\ Last(frames).kind = "cased"
              /\ cond_state => Last(frames).active
        BY <3>3, <3>4
      <3> HIDE DEF crossed, frames
      <3>7. QED
        BY <3>1, <3>2, <3>3, <3>5, <3>6, OpenReduced
    <2>3. QED
      BY <2>1, <2>2
  <1>7. ASSUME EndOf PROVE IInv'
    <2>1. CASE GiveUp
      BY <2>1, GivenUp
    <2>2. CASE ~GiveUp
      <3>1. /\ status = "parsing" /\ nest # <<>> /\ Top.kind = "of"
            /\ nest' = Front(nest) /\ split' = (split \/ Top.active # cond_state)
            /\ UNCHANGED cond_stack_
            /\ IF cond_state THEN f_endof ELSE status' = status /\ Untouched
        BY <1>7, <2>2 DEF EndOf, Close, Reduce, Inside
      <3>2. ASSUME cond_state, InStep, Top.active
            PROVE  Moves(-Labels(Top), -Breaks(Top))
        <4> DEFINE n     == Len(nest)
                   below == nest[n - 1]
        <4>1. Labels(Top) = 1 /\ Breaks(Top) = 0
          BY <3>1, <3>2 DEF Labels, Breaks
        <4>2. HaveLabels(1) /\ Top \in FrameSet
          BY <3>1, <3>2, <4>1, CloseHas
        <4>3. /\ nest \in Seq(FrameSet) /\ n \in Nat \ {0} /\ DOMAIN nest = 1..n
              /\ nest[n] = Top
          BY <3>1, EmptySeq, LenProperties DEF IInv, TypeOK, Top, Last
        <4>4. Fit(nest, Len(label_stack_), Len(break_stack_))
          BY <3>2 DEF IInv, FramesFit
        <4>5. n > 1 /\ below.kind = "cased" /\ below.active
          <5>1. n \in DOMAIN nest /\ nest[n].kind = "of" /\ nest[n].active
            BY <3>1, <3>2, <4>3
          <5>2. QED
            BY <4>4, <5>1 DEF Fit
        <4>6. n - 1 \in 1..n /\ below \in FrameSet
          BY <4>3, <4>5, ElementOfSeq
        <4>7. BreaksEnd(below) <= nest[n - 1 + 1].breaks
          BY <4>3, <4>4, <4>5 DEF Fit
        <4>8. BreaksEnd(Top) <= Len(break_stack_)
          BY <3>1, <4>3, <4>4 DEF Fit
        <4> HIDE DEF below
        <4>9. Breaks(below) = 1
          BY <4>5 DEF Breaks
        <4>10. /\ BreaksEnd(below) = below.breaks + 1 /\ below.breaks \in Nat
               /\ BreaksEnd(Top) = Top.breaks /\ Top.breaks \in Nat
          BY <4>1, <4>2, <4>6, <4>9 DEF BreaksEnd, FrameSet
        <4>11. Len(break_stack_) \in Nat /\ Len(break_stack_) > 0
          BY <4>3, <4>7, <4>8, <4>10, LenProperties DEF IInv, TypeOK, FlowOK
        <4>12. HaveBreak
          BY <4>11, EmptySeq DEF HaveBreak
        <4>13. QED
          BY <3>1, <3>2, <4>1, <4>2, <4>12, ClosingHandlers DEF IInv
      <3>3. cond_state => Typed /\ status' \in {status, "asserted"}
        BY <3>1, ClosingHandlers DEF IInv
      <3>4. QED
        BY <3>1, <3>2, <3>3, CloseReduced
    <2>3. QED
      BY <2>1, <2>2
  <1>8. QED
    BY <1>4, <1>5, <1>6, <1>7

(* Conditionals and the end of the parse leave the label stacks alone. *)
LEMMA OtherStep ==
  ASSUME ParserAssumption, IInv, Conditional \/ Ending \/ UNCHANGED vars
  PROVE  IInv'
  <1>1. ASSUME NEW flags \in Seq(BOOLEAN), NEW errors \in {0, 1}, NEW token,
               Directive(token, flags, errors)
        PROVE  IInv'
    <2>1. CASE GiveUp
      BY <2>1, GivenUp
    <2>2. CASE ~GiveUp
      <3>1. /\ cond_stack_' = flags /\ error_count_' = error_count_ + errors
            /\ UNCHANGED <<status, nest, split, symtable_, implicit_main_, flow, optable_,
                           current_definition_>>
        BY <1>1, <2>2 DEF Directive
      <3>2. TypeOK'
        BY <3>1 DEF IInv, TypeOK, SymbolsOK, FlowOK, CodeOK, flow
      <3>3. QED
        BY <3>1, <3>2 DEF IInv, FramesFit, InStep, AssertionsHold, flow
    <2>3. QED
      BY <2>1, <2>2
  <1>2. cond_stack_ \in Seq(BOOLEAN)
    BY DEF IInv, TypeOK
  <1>3. ASSUME CondIfdef PROVE IInv'
    <2>1. PICK condition \in BOOLEAN :
            Directive("[IFDEF]", Append(cond_stack_, condition), 0)
      BY <1>3 DEF CondIfdef, ParserAssumption
    <2>2. Append(cond_stack_, condition) \in Seq(BOOLEAN)
      BY <1>2, AppendProperties
    <2>3. QED
      BY <1>1, <2>1, <2>2
  <1>4. ASSUME CondElse PROVE IInv'
    <2>1. CASE cond_stack_ = <<>>
      BY <1>1, <1>4, <2>1, EmptySeq DEF CondElse
    <2>2. CASE cond_stack_ # <<>>
      <3> DEFINE flags == [cond_stack_ EXCEPT ![Len(cond_stack_)] = ~Last(cond_stack_)]
      <3>1. Len(cond_stack_) \in 1..Len(cond_stack_) /\ (~Last(cond_stack_)) \in BOOLEAN
        <4>1. Len(cond_stack_) \in Nat /\ Len(cond_stack_) # 0
          BY <1>2, <2>2, EmptySeq, LenProperties
        <4>2. QED
          BY <4>1
      <3>2. flags \in Seq(BOOLEAN)
        BY <1>2, <3>1, ExceptSeq
      <3>3. Directive("[ELSE]", flags, 0)
        BY <1>4, <2>2 DEF CondElse
      <3> HIDE DEF flags
      <3>4. QED
        BY <1>1, <3>2, <3>3
    <2>3. QED
      BY <2>1, <2>2
  <1>5. ASSUME CondThen PROVE IInv'
    <2>1. CASE cond_stack_ = <<>>
      BY <1>1, <1>5, <2>1, EmptySeq DEF CondThen
    <2>2. CASE cond_stack_ # <<>>
      <3>1. Front(cond_stack_) \in Seq(BOOLEAN)
        BY <1>2, <2>2, FrontTyped
      <3>2. Directive("[THEN]", Front(cond_stack_), 0)
        BY <1>5, <2>2 DEF CondThen
      <3>3. QED
        BY <1>1, <3>1, <3>2
    <2>3. QED
      BY <2>1, <2>2
  <1>6. ASSUME SyntaxError PROVE IInv'
    <2>1. <<>> \in Seq(FrameSet) /\ Len(<<>>) = 0
      BY EmptySeq
    <2>2. TypeOK'
      BY <1>6, <2>1 DEF SyntaxError, parse_error, IInv, TypeOK, SymbolsOK, FlowOK, CodeOK, flow,
         Statuses
    <2>3. Fit(<<>>, Len(label_stack_), Len(break_stack_))
      BY <2>1 DEF Fit
    <2>4. QED
      BY <1>6, <2>2, <2>3 DEF SyntaxError, flow, IInv, FramesFit, InStep, AssertionsHold
  <1>7. ASSUME Recover \/ EndInRecovery PROVE IInv'
    <2>1. CASE GiveUp
      BY <2>1, GivenUp
    <2>2. CASE ~GiveUp
      <3>1. /\ status' \in {"parsing", "failed"} /\ status = "recovering"
            /\ UNCHANGED <<nest, split, cond_stack_, handled>>
        BY <1>7, <2>2 DEF Recover, EndInRecovery
      <3>2. TypeOK'
        BY <3>1 DEF IInv, TypeOK, SymbolsOK, FlowOK, CodeOK, handled, symbols, flow, Statuses
      <3>3. QED
        BY <3>1, <3>2 DEF IInv, FramesFit, InStep, AssertionsHold, handled, flow
    <2>3. QED
      BY <2>1, <2>2
  <1>8. ASSUME f_end_of_file \/ parse_cleanup PROVE IInv'
    <2>1. CASE GiveUp
      BY <2>1, GivenUp
    <2>2. CASE ~GiveUp
      <3>1. /\ status' \in {"accepted", "returned"} /\ status \in {"parsing", "accepted", "failed"}
            /\ \E errors \in Nat : error_count_' = error_count_ + errors
            /\ UNCHANGED <<nest, split, cond_stack_, symtable_, implicit_main_, flow, optable_,
                           current_definition_>>
        <4>1. InternalErrors \in Nat
          BY DEF InternalErrors
        <4>2. QED
          BY <1>8, <2>2, <4>1 DEF f_end_of_file, parse_cleanup
      <3>2. TypeOK'
        BY <3>1 DEF IInv, TypeOK, SymbolsOK, FlowOK, CodeOK, flow, Statuses
      <3>3. QED
        BY <3>1, <3>2 DEF IInv, FramesFit, InStep, AssertionsHold, flow
    <2>3. QED
      BY <2>1, <2>2
  <1>9. ASSUME UNCHANGED vars PROVE IInv'
    <2>1. TypeOK'
      BY <1>9 DEF vars, handled, symbols, flow, IInv, TypeOK, SymbolsOK, FlowOK, CodeOK
    <2>2. QED
      BY <1>9, <2>1 DEF vars, handled, flow, IInv, FramesFit, InStep, AssertionsHold
  <1>10. QED
    BY <1>3, <1>4, <1>5, <1>6, <1>7, <1>8, <1>9 DEF Conditional, Ending

(* What the parser starts with: no construct, and empty stacks. *)
LEMMA InitInv ==
  ASSUME ParserAssumption, Init
  PROVE  IInv
  <1>1. TypeOK
    <2>1. /\ nest \in Seq(FrameSet) /\ cond_stack_ \in Seq(BOOLEAN)
          /\ optable_ \in Seq(OpcodeSet(Symbols))
          /\ label_stack_ \in Seq(Nat) /\ break_stack_ \in Seq(Nat)
      BY EmptySeq DEF Init
    <2>2. SymbolsOK /\ label_sequence_ \in Nat \ {0} /\ exit_label_ \in Nat
      <3>1. [s \in Symbols |-> "none"] \in [Symbols -> SymbolKinds]
        BY DEF SymbolKinds
      <3>2. SymbolsOK
        BY <3>1 DEF Init, SymbolsOK
      <3>3. QED
        BY <3>2 DEF Init
    <2>3. status \in Statuses /\ split \in BOOLEAN
          /\ current_definition_ \in Symbols \cup {NoSymbol}
      BY DEF Init, Statuses
    <2>4. QED
      BY <2>1, <2>2, <2>3 DEF TypeOK, FlowOK, CodeOK
  <1>2. Fit(nest, Len(label_stack_), Len(break_stack_))
    BY EmptySeq DEF Init, Fit
  <1>3. QED
    BY <1>1, <1>2 DEF Init, IInv, FramesFit, AssertionsHold

(* Every step keeps the invariant. *)
LEMMA StepInv ==
  ASSUME ParserAssumption, IInv, [Next]_vars
  PROVE  IInv'
  <1>1. CASE Definition
    BY <1>1, OpeningStep, ClosingStep, ContinuingStep DEF Definition
  <1>2. CASE Structures
    BY <1>2, OpeningStep, ClosingStep, ContinuingStep DEF Structures
  <1>3. CASE Stopped
    BY <1>3, OtherStep DEF Stopped
  <1>4. QED
    BY <1>1, <1>2, <1>3, DeclarationStep, StraightStep, OtherStep DEF Next

(* The invariant holds in every state the parser reaches. *)
THEOREM Invariant == Spec => []IInv
  <1>1. Init => IInv
    BY ParserAssumption, InitInv
  <1>2. IInv /\ [Next]_vars => IInv'
    BY ParserAssumption, StepInv
  <1>3. QED
    BY <1>1, <1>2, PTL DEF Spec

(* Every variable of the parser keeps its type, whatever the source file,  *)
(* the bounds and the error limit are.                                     *)
THEOREM TypeCorrect == Spec => []TypeOK
  <1>1. IInv => TypeOK
    BY DEF IInv
  <1>2. QED
    BY <1>1, Invariant, PTL

(* The labels of the open constructs lie on the two stacks in the order of *)
(* nesting, however deep the nesting goes.                                 *)
THEOREM StacksFollowNesting == Spec => []FramesFit
  <1>1. IInv => FramesFit
    BY DEF IInv
  <1>2. QED
    BY <1>1, Invariant, PTL

(* No assert of a handler fails, after whatever errors, as long as no      *)
(* construct is split by a conditional.                                    *)
THEOREM AssertsNeverFailInStep == Spec => []AssertionsHold
  <1>1. IInv => AssertionsHold
    BY DEF IInv
  <1>2. QED
    BY <1>1, Invariant, PTL
=============================================================================
