-------------------------------- MODULE Parser --------------------------------
(***************************************************************************)
(* The front end of the compiler: the grammar of compiler/forth.y and the  *)
(* handlers of compiler/parser.cc that its reductions call.                *)
(*                                                                         *)
(* The input is any sequence of tokens.  One action is one reduction that  *)
(* ends with a token: it checks the error limit (macro MNE), and, unless   *)
(* an inactive [IFDEF] region suppresses it (macro P), runs the handler.   *)
(* yyparse's stack is abstracted to nest, the constructs that are open.    *)
(*                                                                         *)
(* The handlers do not see nest.  They keep two flat stacks of labels of   *)
(* their own, and what this module is about is whether those two stacks    *)
(* stay in step with the nesting that the grammar accepted, under syntax   *)
(* errors, duplicate definitions and conditional compilation.              *)
(***************************************************************************)
EXTENDS Opcodes, SequencesExt

CONSTANTS
  Names,        (* Mangled names of the words a source file may use.      *)
  Anons,        (* Generated names of :NONAME words; bounds their number. *)
                (* A source may use such a name itself.                   *)
  Main,         (* The name "main".                                       *)
  TypeWord,     (* The name "_type", called by ." strings.                *)
  AbortWord,    (* The name "_abortquote", called by ABORT" strings.      *)
  Tokens,       (* The tokens the input may contain.                      *)
  Conditions,   (* Outcomes of the tests of [IFDEF] and [IFUNDEF].        *)
  MAX_ALLOWED_ERRORS,
  MaxNest,      (* Bound: constructs open at a time.                      *)
  MaxCond,      (* Bound: conditionals open at a time.                    *)
  MaxOpcodes,   (* Bound: opcodes after which only closing tokens come.   *)
  MaxLabels     (* Bound: labels after which only closing tokens come.    *)

Symbols == Names \cup Anons

ASSUME ParserAssumption ==
  /\ {Main, TypeWord, AbortWord} \subseteq Names
  /\ NoSymbol \notin Symbols
  /\ Main \notin Anons
  /\ Conditions \subseteq BOOLEAN
  /\ MAX_ALLOWED_ERRORS \in Nat \ {0}
  /\ {MaxNest, MaxCond, MaxOpcodes, MaxLabels} \subseteq Nat

VARIABLES
  status,               (* How far Parser::parse has come.                *)
  nest,                 (* Constructs open on yyparse's stack.            *)
  split,                (* History: a construct was opened and closed     *)
                        (* under different conditional states.            *)
  error_count_,
  symtable_,            (* The kind of each symbol, "none" if not there.  *)
  optable_,
  current_definition_,
  label_sequence_,
  exit_label_,
  label_stack_,
  break_stack_,
  cond_stack_,          (* Flags of the open conditionals.                *)
  implicit_main_

symbols == <<symtable_, implicit_main_, error_count_>>
flow    == <<label_sequence_, exit_label_, label_stack_, break_stack_>>
handled == <<symbols, flow, optable_, current_definition_>>
vars    == <<status, nest, split, cond_stack_, handled>>

(* Code is active unless some open conditional is false. *)
cond_state == \A i \in DOMAIN cond_stack_ : cond_stack_[i]

(***************************************************************************)
(* A frame of nest.  Beside the kind of construct it records, as history   *)
(* that no guard reads, whether the construct was opened in active code    *)
(* and how deep the two label stacks were at that moment.                  *)
(***************************************************************************)
Kinds == {"definition", "noname", "code", "coded", "if", "else", "do",
          "begin", "case", "cased", "of"}

Frame(kind) ==
  [kind |-> kind, active |-> cond_state,
   labels |-> Len(label_stack_), breaks |-> Len(break_stack_)]

FrameSet == [kind: Kinds, active: BOOLEAN, labels: Nat, breaks: Nat]

SymbolKinds == {"none", "variable", "intconstant", "floatconstant", "word",
                "anonword", "codeword", "external"}
is_callable_symbol(kind) == kind \in {"word", "anonword", "codeword", "external"}

Statuses == {"parsing", "recovering", "accepted", "failed", "asserted", "collided", "returned"}

(* What parse_setup leaves, and the stacks of a new Parser object. *)
Init ==
  /\ status = "parsing" /\ nest = <<>> /\ split = FALSE
  /\ error_count_ = 0
  /\ symtable_ = [s \in Symbols |-> "none"]
  /\ optable_ = <<>>
  /\ current_definition_ = NoSymbol
  /\ label_sequence_ = 1 /\ exit_label_ = 0
  /\ label_stack_ = <<>> /\ break_stack_ = <<>> /\ cond_stack_ = <<>>
  /\ implicit_main_ = FALSE

-----------------------------------------------------------------------------
(* Parts the handlers share. *)

excessive_errors == error_count_ >= MAX_ALLOWED_ERRORS

(* Slip: the error is subtracted. *)
SubtractedError == error_count_' = error_count_ - 1
parse_error == error_count_' = error_count_ + 1

(* The symbol table and the number of errors after detect_main(), called   *)
(* with a table and inside (or outside, cur = NoSymbol) a definition.      *)
NeedsMain(cur) == cur = NoSymbol /\ ~implicit_main_
WithMain(table, cur) ==
  IF NeedsMain(cur) /\ table[Main] = "none"
    THEN [table EXCEPT ![Main] = "word"] ELSE table
MainErrors(table, cur) ==
  IF NeedsMain(cur) /\ table[Main] # "none" THEN 1 ELSE 0

detect_main(table, cur, errors) ==
  /\ symtable_' = WithMain(table, cur)
  /\ error_count_' = error_count_ + errors + MainErrors(table, cur)
  /\ implicit_main_' = (implicit_main_ \/ cur = NoSymbol)

DetectMain == detect_main(symtable_, current_definition_, 0)

Emit(code) == optable_' = optable_ \o code

(* An assert of a handler; when it fails the process is gone. *)
Asserting(condition, handler) ==
  IF condition THEN status' = status /\ handler
               ELSE status' = "asserted" /\ UNCHANGED handled

Handler(handler) == Asserting(TRUE, handler)

(* parse_error and return. *)
Reject == parse_error /\ UNCHANGED <<symtable_, implicit_main_, flow, optable_,
                                     current_definition_>>

(* Most handlers only write opcodes into the definition, or implicit main. *)
Compile(code) == DetectMain /\ Emit(code) /\ UNCHANGED <<flow, current_definition_>>

PushLabels(count) ==
  /\ label_stack_' = label_stack_ \o [i \in 1..count |-> label_sequence_ + i - 1]
  /\ label_sequence_' = label_sequence_ + count

PopLabels(count) ==
  label_stack_' = SubSeq(label_stack_, 1, Len(label_stack_) - count)

(* The label below depth others on the label stack. *)
LabelUnder(depth) == label_stack_[Len(label_stack_) - depth]

HaveLabels(count) == Len(label_stack_) >= count
HaveBreak         == break_stack_ # <<>>
-----------------------------------------------------------------------------
(* Handlers of declarations and definitions. *)

Defined(name) == symtable_[name] # "none"

(* Where a name already defined, or already used as external, is refused. *)
f_definedvariable(name) ==
  Handler(IF Defined(name) THEN Reject
          ELSE /\ symtable_' = [symtable_ EXCEPT ![name] = "variable"]
               /\ UNCHANGED <<implicit_main_, error_count_, flow, optable_,
                              current_definition_>>)

(* An array has a valid size and unit, or is refused. *)
f_definedarray(name, valid) ==
  IF valid THEN f_definedvariable(name) ELSE Handler(Reject)

(* The symbol is added before detect_main looks for "main". *)
DefinedConstant(name, kind, stack) ==
  Handler(IF Defined(name) THEN Reject
          ELSE /\ detect_main([symtable_ EXCEPT ![name] = kind], current_definition_, 0)
               /\ Emit(<<PopOpcode("R0", stack), StoreSymbolIndirectOpcode("R0", name)>>)
               /\ UNCHANGED <<flow, current_definition_>>)
f_definedconstant(name)  == DefinedConstant(name, "intconstant", "DATA")
f_definedfconstant(name) == DefinedConstant(name, "floatconstant", "FLOAT")

(* Slip: the exit label is pushed but not remembered. *)
ForgottenExit == PushLabels(1) /\ UNCHANGED <<exit_label_, break_stack_>>

(* Opens a body: label 0 is not used here, the body's exit has a label. *)
OpenBody == PushLabels(1) /\ exit_label_' = label_sequence_ /\ UNCHANGED break_stack_

(* Makes a symbol the current definition. *)
StartDefinition(symbol, kind) ==
  /\ symtable_' = [symtable_ EXCEPT ![symbol] = kind]
  /\ current_definition_' = symbol
  /\ Emit(<<DefineOpcode(symbol)>>)

(* Slip: a duplicate is refused at once, before the body is opened. *)
DuplicateUnopened(name) ==
  Handler(IF Defined(name) THEN Reject
          ELSE /\ OpenBody /\ StartDefinition(name, "word")
               /\ UNCHANGED <<implicit_main_, error_count_>>)

(* A duplicate still opens the body, so that its ; finds a label. *)
f_definedword(name) ==
  Handler(/\ OpenBody
          /\ IF Defined(name)
               THEN /\ parse_error
                    /\ UNCHANGED <<symtable_, implicit_main_, optable_, current_definition_>>
               ELSE /\ StartDefinition(name, "word")
                    /\ UNCHANGED <<implicit_main_, error_count_>>)

(* Slip: the word is entered over another of its name. *)
AnonOverwrites(anon) ==
  Handler(/\ OpenBody
          /\ StartDefinition(anon, "anonword")
          /\ UNCHANGED <<implicit_main_, error_count_>>)

(* The name is made of a number that no symbol had, and not looked up: if   *)
(* the source has used it, the assert of SymbolTable::add fails.            *)
f_nonameword(anon) ==
  /\ OpenBody
  /\ IF Defined(anon)
       THEN status' = "collided" /\ UNCHANGED <<symbols, optable_, current_definition_>>
       ELSE /\ status' = status /\ StartDefinition(anon, "anonword")
            /\ UNCHANGED <<implicit_main_, error_count_>>

(* The xt of a :NONAME word is pushed by the code outside definitions. *)
f_semicolon ==
  Asserting(HaveLabels(1),
    LET body == <<LabelOpcode(LabelUnder(0)), EndDefineOpcode(current_definition_)>>
        xt   == <<LoadSymbolOpcode("R0", current_definition_), PushOpcode("R0", "DATA")>>
    IN /\ PopLabels(1) /\ exit_label_' = 0
       /\ UNCHANGED <<label_sequence_, break_stack_>>
       /\ current_definition_' = NoSymbol
       /\ IF current_definition_ = NoSymbol
            THEN UNCHANGED <<symbols, optable_>>
          ELSE IF symtable_[current_definition_] = "anonword"
            THEN detect_main(symtable_, NoSymbol, 0) /\ Emit(body \o xt)
          ELSE UNCHANGED symbols /\ Emit(body))

(* A CODE word has no exit label. *)
f_codeword(name) ==
  Handler(IF Defined(name) THEN Reject
          ELSE StartDefinition(name, "codeword")
               /\ UNCHANGED <<implicit_main_, error_count_, flow>>)

(* An assembly line may be nothing but a comment. *)
f_code(comment) ==
  Handler(/\ Emit(IF comment THEN <<>> ELSE <<AssemblyOpcode>>)
          /\ UNCHANGED <<symbols, flow, current_definition_>>)

(* Slip: END-CODE leaves its word the current definition. *)
UnendedCode ==
  Handler(/\ IF current_definition_ = NoSymbol THEN UNCHANGED optable_
             ELSE Emit(<<EndDefineOpcode(current_definition_)>>)
          /\ UNCHANGED <<symbols, flow, current_definition_>>)

f_end_code ==
  Handler(/\ IF current_definition_ = NoSymbol THEN UNCHANGED optable_
             ELSE Emit(<<EndDefineOpcode(current_definition_)>>)
          /\ current_definition_' = NoSymbol
          /\ UNCHANGED <<symbols, flow>>)
-----------------------------------------------------------------------------
(* Handlers of words, literals and strings. *)

LoadAndPush(load, stack) == <<load, PushOpcode("R0", stack)>>
AnAddress == LoadAndPush(LoadDataOpcode("R0"), "DATA")
AnInteger == LoadAndPush(LoadValueOpcode("R0", 0), "DATA")

(* A name seen for the first time is taken to be external. *)
WithExternal(table, name) ==
  IF table[name] = "none" THEN [table EXCEPT ![name] = "external"] ELSE table

(* The library word that a string calls, the null symbol if the source     *)
(* defines that name as something else; it is looked up before detect_main. *)
Library(name) ==
  IF is_callable_symbol(WithExternal(symtable_, name)[name]) THEN name ELSE NoSymbol

CompileCall(name, code(_)) ==
  /\ detect_main(WithExternal(symtable_, name), current_definition_,
                 IF Library(name) = NoSymbol THEN 1 ELSE 0)
  /\ Emit(code(Library(name)))

f_pstring ==
  Handler(/\ CompileCall(TypeWord, LAMBDA callee : AnAddress \o AnInteger \o <<CallOpcode(callee)>>)
          /\ UNCHANGED <<flow, current_definition_>>)

(* The string and the call are jumped over when the flag is zero. *)
f_astring ==
  Handler(/\ CompileCall(AbortWord, LAMBDA callee :
                <<PopOpcode("R0", "DATA"), JumpZeroOpcode("R0", label_sequence_)>>
                \o AnAddress \o AnInteger
                \o <<CallOpcode(callee), LabelOpcode(label_sequence_)>>)
          /\ label_sequence_' = label_sequence_ + 1
          /\ UNCHANGED <<exit_label_, label_stack_, break_stack_, current_definition_>>)

(* Literals; those out of range, or too long, are refused. *)
f_string_literal == Handler(Compile(AnAddress \o AnInteger))
f_char_literal   == Handler(Compile(AnInteger))
f_cstring(fits)  == Handler(IF fits THEN Compile(AnAddress) ELSE Reject)
f_integer_literal(fits) == Handler(IF fits THEN Compile(AnInteger) ELSE Reject)
f_float_literal(fits) ==
  Handler(IF fits THEN Compile(LoadAndPush(LoadValueOpcode("R0", 0), "FLOAT"))
                  ELSE Reject)

(* What a word compiles to depends on the kind of symbol it names. *)
WordCode(name, kind) ==
  CASE kind = "variable"      -> LoadAndPush(LoadSymbolOpcode("R0", name), "DATA")
    [] kind = "intconstant"   -> LoadAndPush(LoadSymbolIndirectOpcode("R0", name), "DATA")
    [] kind = "floatconstant" -> LoadAndPush(LoadSymbolIndirectOpcode("R0", name), "FLOAT")
    [] OTHER                  -> <<CallOpcode(name)>>

(* Here detect_main comes first: it may define the very word looked up. *)
UseWord(name, code(_)) ==
  LET table == WithExternal(WithMain(symtable_, current_definition_), name)
  IN /\ symtable_' = table
     /\ error_count_' = error_count_ + MainErrors(symtable_, current_definition_)
     /\ implicit_main_' = (implicit_main_ \/ current_definition_ = NoSymbol)
     /\ Emit(code(table[name]))
     /\ UNCHANGED <<flow, current_definition_>>

f_word(name) == Handler(UseWord(name, LAMBDA kind : WordCode(name, kind)))

f_object_address(name) ==
  Handler(UseWord(name, LAMBDA kind : LoadAndPush(LoadSymbolOpcode("R0", name), "DATA")))

f_exit == Handler(Compile(<<JumpOpcode(exit_label_)>>))

f_recurse ==
  Handler(IF current_definition_ = NoSymbol THEN Reject
          ELSE Compile(<<CallOpcode(current_definition_)>>))

-----------------------------------------------------------------------------
(* Handlers of control structures. *)

(* Writes opcodes while the label stacks change too. *)
Structure(code) == DetectMain /\ Emit(code) /\ UNCHANGED <<exit_label_, current_definition_>>

(* The last label pushed is where LEAVE, ?LEAVE and WHILE go. *)
PushBreak(count) ==
  /\ PushLabels(count)
  /\ break_stack_' = Append(break_stack_, label_sequence_ + count - 1)
PopBreak(count) ==
  /\ PopLabels(count)
  /\ break_stack_' = Front(break_stack_)
  /\ UNCHANGED label_sequence_

f_if ==
  Handler(/\ PushLabels(1) /\ UNCHANGED break_stack_
          /\ Structure(<<PopOpcode("R0", "DATA"), JumpZeroOpcode("R0", label_sequence_)>>))

f_then_endif ==
  Asserting(HaveLabels(1),
    /\ PopLabels(1) /\ UNCHANGED <<label_sequence_, break_stack_>>
    /\ Structure(<<LabelOpcode(LabelUnder(0))>>))

(* Slip: the new label is jumped to, but never put on the stack. *)
UnpushedElse ==
  Asserting(HaveLabels(1),
    /\ label_sequence_' = label_sequence_ + 1
    /\ UNCHANGED <<label_stack_, break_stack_>>
    /\ Structure(<<JumpOpcode(label_sequence_), LabelOpcode(LabelUnder(0))>>))
f_else ==
  Asserting(HaveLabels(1),
    /\ label_stack_' = Append(Front(label_stack_), label_sequence_)
    /\ label_sequence_' = label_sequence_ + 1
    /\ UNCHANGED break_stack_
    /\ Structure(<<JumpOpcode(label_sequence_), LabelOpcode(LabelUnder(0))>>))

(* Three labels: where ?DO skips to, where the body begins, where it ends. *)
DoCode(skip) ==
  <<PopOpcode("R1", "DATA"), PopOpcode("R0", "DATA")>>
  \o skip
  \o <<PushOpcode("R0", "RETURN"), PushOpcode("R1", "RETURN"),
       LabelOpcode(label_sequence_ + 1)>>
(* Slip: DO sets no place to leave to. *)
DoWithoutBreak ==
  Handler(PushLabels(3) /\ UNCHANGED break_stack_ /\ Structure(DoCode(<<>>)))
f_do ==
  Handler(PushBreak(3) /\ Structure(DoCode(<<>>)))
f_query_do ==
  Handler(PushBreak(3) /\ Structure(DoCode(<<JumpEqualOpcode("R0", "R1", label_sequence_)>>)))

PushBack == <<PushOpcode("R0", "RETURN"), PushOpcode("R1", "RETURN")>>
(* Slip: LEAVE goes behind the two pops. *)
LeaveBehindPops == <<PopOpcode("R0", "RETURN"), PopOpcode("R0", "RETURN"),
                     LabelOpcode(LabelUnder(0)), LabelOpcode(LabelUnder(2))>>
EndLoop == <<LabelOpcode(LabelUnder(0)), PopOpcode("R0", "RETURN"),
             PopOpcode("R0", "RETURN"), LabelOpcode(LabelUnder(2))>>

f_loop ==
  Asserting(HaveLabels(3) /\ HaveBreak,
    /\ PopBreak(3)
    /\ Structure(<<PopOpcode("R1", "RETURN"), AddValueOpcode("R1", 1),
                   PopOpcode("R0", "RETURN")>> \o PushBack
                 \o <<SubtractRegisterOpcode("R1", "R0"),
                      JumpNonZeroOpcode("R1", LabelUnder(1))>> \o EndLoop))

(* One test for a step forwards, another for a step backwards. *)
PlusLoopTest(test) ==
  <<PopOpcode("R0", "RETURN")>> \o PushBack
  \o <<SubtractRegisterOpcode("R1", "R0"), test>>
(* Slip: the label of the second test is not used up. *)
ReusedLabel ==
  Asserting(HaveLabels(3) /\ HaveBreak,
    /\ PopBreak(3)
    /\ Structure(<<PopOpcode("R0", "DATA"), PopOpcode("R1", "RETURN"),
                   AddRegisterOpcode("R1", "R0"),
                   JumpLessZeroOpcode("R0", label_sequence_)>>
                 \o PlusLoopTest(JumpLessZeroOpcode("R1", LabelUnder(1)))
                 \o <<JumpOpcode(LabelUnder(0)), LabelOpcode(label_sequence_)>>
                 \o PlusLoopTest(JumpGreaterEqualZeroOpcode("R1", LabelUnder(1)))
                 \o EndLoop))
(* Slip: a step backwards ends at the limit, not below it. *)
ForwardTests ==
  Asserting(HaveLabels(3) /\ HaveBreak,
    /\ PopLabels(3)
    /\ break_stack_' = Front(break_stack_)
    /\ label_sequence_' = label_sequence_ + 1
    /\ Structure(<<PopOpcode("R0", "DATA"), PopOpcode("R1", "RETURN"),
                   AddRegisterOpcode("R1", "R0"),
                   JumpLessZeroOpcode("R0", label_sequence_)>>
                 \o PlusLoopTest(JumpLessZeroOpcode("R1", LabelUnder(1)))
                 \o <<JumpOpcode(LabelUnder(0)), LabelOpcode(label_sequence_)>>
                 \o PlusLoopTest(JumpNonZeroOpcode("R1", LabelUnder(1)))
                 \o EndLoop))
f_plus_loop ==
  Asserting(HaveLabels(3) /\ HaveBreak,
    /\ PopLabels(3)
    /\ break_stack_' = Front(break_stack_)
    /\ label_sequence_' = label_sequence_ + 1
    /\ Structure(<<PopOpcode("R0", "DATA"), PopOpcode("R1", "RETURN"),
                   AddRegisterOpcode("R1", "R0"),
                   JumpLessZeroOpcode("R0", label_sequence_)>>
                 \o PlusLoopTest(JumpLessZeroOpcode("R1", LabelUnder(1)))
                 \o <<JumpOpcode(LabelUnder(0)), LabelOpcode(label_sequence_)>>
                 \o PlusLoopTest(JumpGreaterEqualZeroOpcode("R1", LabelUnder(1)))
                 \o EndLoop))

(* Two labels: where the loop begins and where it ends. *)
f_begin ==
  Handler(PushBreak(2) /\ Structure(<<LabelOpcode(label_sequence_)>>))
f_until ==
  Asserting(HaveLabels(2) /\ HaveBreak,
    PopBreak(2) /\ Structure(<<PopOpcode("R0", "DATA"), JumpZeroOpcode("R0", LabelUnder(1)),
                               LabelOpcode(LabelUnder(0))>>))
f_repeat_again ==
  Asserting(HaveLabels(2) /\ HaveBreak,
    PopBreak(2) /\ Structure(<<JumpOpcode(LabelUnder(1)), LabelOpcode(LabelUnder(0))>>))

(* LEAVE, ?LEAVE and WHILE go to the end of whatever broke last. *)
Break(code) == Handler(IF HaveBreak THEN Compile(code) ELSE Reject)
f_leave       == Break(<<JumpOpcode(Last(break_stack_))>>)
f_query_leave == Break(<<PopOpcode("R0", "DATA"), JumpNonZeroOpcode("R0", Last(break_stack_))>>)
f_while       == Break(<<PopOpcode("R0", "DATA"), JumpZeroOpcode("R0", Last(break_stack_))>>)

f_case == Handler(PushBreak(1) /\ Structure(<<>>))
(* The selector stays on the stack while it is compared. *)
f_of ==
  Handler(/\ PushLabels(1) /\ UNCHANGED break_stack_
          /\ Structure(<<PopOpcode("R1", "DATA"), PopOpcode("R0", "DATA"),
                         PushOpcode("R0", "DATA"),
                         JumpNotEqualOpcode("R0", "R1", label_sequence_)>>))
f_endof ==
  Asserting(HaveBreak /\ HaveLabels(1),
    /\ PopLabels(1) /\ UNCHANGED <<label_sequence_, break_stack_>>
    /\ Structure(<<JumpOpcode(Last(break_stack_)), LabelOpcode(LabelUnder(0))>>))
(* Slip: ENDCASE leaves the place to break to. *)
CaseKeepsBreak ==
  Asserting(HaveLabels(1) /\ HaveBreak,
    /\ PopLabels(1) /\ UNCHANGED <<label_sequence_, break_stack_>>
    /\ Structure(<<LabelOpcode(LabelUnder(0)), PopOpcode("R0", "DATA")>>))
f_endcase ==
  Asserting(HaveLabels(1) /\ HaveBreak,
    PopBreak(1) /\ Structure(<<LabelOpcode(LabelUnder(0)), PopOpcode("R0", "DATA")>>))
-----------------------------------------------------------------------------
(* Reductions of the grammar. *)

Top         == Last(nest)
Inside(kinds) == nest # <<>> /\ Top.kind \in kinds
AtTop       == nest = <<>>
InStatements == ~Inside({"code", "coded"})

(* Bound: past it, only tokens that close something are read. *)
Room == Len(optable_) < MaxOpcodes /\ label_sequence_ <= MaxLabels

Untouched == UNCHANGED <<symbols, flow, optable_, current_definition_>>

(* YYABORT, once there are too many errors. *)
GiveUp ==
  /\ status \in {"parsing", "recovering"} /\ status' = "failed" /\ parse_error
  /\ UNCHANGED <<nest, split, cond_stack_, symtable_, implicit_main_, flow, optable_,
                 current_definition_>>

(* A reduction by a token: MNE, the new nesting, and P(handler).  crossed   *)
(* says that the token belongs to a construct opened in the other state.   *)
Reduce(token, frames, crossed, handler) ==
  /\ status = "parsing"
  /\ token \in Tokens
  /\ IF excessive_errors THEN GiveUp
     ELSE /\ nest' = frames
          /\ split' = (split \/ crossed)
          /\ UNCHANGED cond_stack_
          /\ IF cond_state THEN handler ELSE status' = status /\ Untouched

Open(token, kind, handler) ==
  Len(nest) < MaxNest /\ Room /\ Reduce(token, Append(nest, Frame(kind)), FALSE, handler)
Plainly(token, handler) ==
  Room /\ Reduce(token, nest, FALSE, handler)
Statement(token, handler) ==
  InStatements /\ Plainly(token, handler)
Structured(token, kind, handler) ==
  InStatements /\ Open(token, kind, handler)
Close(token, kinds, handler) ==
  Inside(kinds) /\ Reduce(token, Front(nest), Top.active # cond_state, handler)
(* The innermost construct goes on in another part. *)
Continue(kind) == [nest EXCEPT ![Len(nest)].kind = kind]

(* declaration *)
Variable  == \E s \in Names : AtTop /\ Plainly("VARIABLE", f_definedvariable(s))
Constant  == \E s \in Names : AtTop /\ Plainly("CONSTANT", f_definedconstant(s))
FConstant == \E s \in Names : AtTop /\ Plainly("FCONSTANT", f_definedfconstant(s))
Create    == \E s \in Names, valid \in BOOLEAN :
               AtTop /\ Plainly("CREATE", f_definedarray(s, valid))

(* definition *)
Colon    == \E s \in Names : AtTop /\ Open(":", "definition", f_definedword(s))
NoName   == \E s \in Anons : symtable_[s] # "anonword"
                            /\ AtTop /\ Open(":NONAME", "noname", f_nonameword(s))
Semicolon == Close(";", {"definition", "noname"}, f_semicolon)
Code     == \E s \in Names : AtTop /\ Open("CODE", "code", f_codeword(s))
Asm      == \E comment \in BOOLEAN :
              /\ Inside({"code", "coded"}) /\ (Top.kind = "code" \/ Room)
              /\ Reduce("ASM", Continue("coded"), FALSE, f_code(comment))
EndCode  == Close("END-CODE", {"coded"}, f_end_code)

(* statement *)
Exit          == Statement("EXIT", f_exit)
PString       == Statement("PSTRING", f_pstring)
AString       == Statement("ASTRING", f_astring)
CString       == \E fits \in BOOLEAN : Statement("CSTRING", f_cstring(fits))
Integer       == \E fits \in BOOLEAN : Statement("INTEGER", f_integer_literal(fits))
Float         == \E fits \in BOOLEAN : Statement("FLOAT", f_float_literal(fits))
StringLiteral == Statement("STRING", f_string_literal)
CharLiteral   == Statement("CHAR", f_char_literal)
ObjectAddress == \E s \in Names : Statement("ADDRESS", f_object_address(s))
Word          == \E s \in Names : Statement("WORD", f_word(s))
Recurse       == Statement("RECURSE", f_recurse)
Leave         == Statement("LEAVE", f_leave)
QueryLeave    == Statement("?LEAVE", f_query_leave)
While         == Statement("WHILE", f_while)

(* if_statement, do_loop, begin_loop *)
If   == Structured("IF", "if", f_if)
Then == Close("THEN", {"if", "else"}, f_then_endif)
Else == Inside({"if"}) /\ Room
        /\ Reduce("ELSE", Continue("else"), ~Top.active /\ cond_state, f_else)
Do      == Structured("DO", "do", f_do)
QueryDo == Structured("?DO", "do", f_query_do)
Loop     == Close("LOOP", {"do"}, f_loop)
PlusLoop == Close("+LOOP", {"do"}, f_plus_loop)
Begin  == Structured("BEGIN", "begin", f_begin)
Until  == Close("UNTIL", {"begin"}, f_until)
Repeat == Close("REPEAT", {"begin"}, f_repeat_again)

(* case_statement: one clause at least before ENDCASE *)
Case == Structured("CASE", "case", f_case)
Of   == /\ Inside({"case", "cased"}) /\ (Top.kind = "case" \/ Room)
        /\ Reduce("OF", Append(Continue("cased"), Frame("of")),
                  ~Top.active /\ cond_state, f_of)
EndOf   == Close("ENDOF", {"of"}, f_endof)
EndCase == Close("ENDCASE", {"cased"}, f_endcase)

(* conditional: never suppressed, a statement like the others *)
Directive(token, flags, errors) ==
  /\ InStatements /\ status = "parsing" /\ token \in Tokens
  /\ IF excessive_errors THEN GiveUp
     ELSE /\ cond_stack_' = flags
          /\ error_count_' = error_count_ + errors
          /\ UNCHANGED <<status, nest, split, symtable_, implicit_main_, flow, optable_,
                         current_definition_>>

CondIfdef == /\ Len(cond_stack_) < MaxCond
             /\ \E condition \in Conditions :
                  Directive("[IFDEF]", Append(cond_stack_, condition), 0)
CondElse == IF cond_stack_ = <<>> THEN Directive("[ELSE]", <<>>, 1)
            ELSE Directive("[ELSE]",
                   [cond_stack_ EXCEPT ![Len(cond_stack_)] = ~Last(cond_stack_)], 0)
CondThen == IF cond_stack_ = <<>> THEN Directive("[THEN]", <<>>, 1)
            ELSE Directive("[THEN]", Front(cond_stack_), 0)

-----------------------------------------------------------------------------
(* Errors, the end of the file, and what Parser::parse does afterwards. *)

(* A token that no rule allows here: yyerror, and yyparse's stack is       *)
(* popped to the top level.  The handlers' stacks stay as they are.        *)
SyntaxError ==
  /\ status = "parsing" /\ "ERROR" \in Tokens
  /\ status' = "recovering" /\ nest' = <<>> /\ parse_error
  /\ UNCHANGED <<split, cond_stack_, symtable_, implicit_main_, flow, optable_,
                 current_definition_>>

(* Tokens are dropped up to a WORD; yyerrok ends the recovery. *)
Recover ==
  /\ status = "recovering"
  /\ IF excessive_errors THEN GiveUp
     ELSE status' = "parsing" /\ UNCHANGED <<nest, split, cond_stack_, handled>>

(* yyparse gives up at the end of the file. *)
EndInRecovery ==
  /\ status = "recovering"
  /\ status' = "failed" /\ UNCHANGED <<nest, split, cond_stack_, handled>>

f_end_of_file ==
  /\ AtTop /\ status = "parsing"
  /\ IF excessive_errors THEN GiveUp
     ELSE /\ status' = "accepted"
          /\ error_count_' = error_count_ + (IF cond_stack_ # <<>> THEN 1 ELSE 0)
          /\ UNCHANGED <<nest, split, cond_stack_, symtable_, implicit_main_, flow,
                         optable_, current_definition_>>

(* Internal errors: stacks not emptied, definition not exited, or not ended. *)
InternalErrors ==
  (IF <<label_stack_, break_stack_, cond_stack_>> # <<<<>>, <<>>, <<>>>> THEN 1 ELSE 0)
  + (IF current_definition_ # NoSymbol THEN 1 ELSE 0)
  + (IF exit_label_ # 0 THEN 1 ELSE 0)

parse_cleanup ==
  /\ status \in {"accepted", "failed"}
  /\ status' = "returned"
  /\ error_count_' = error_count_ + (IF error_count_ = 0 THEN InternalErrors ELSE 0)
  /\ UNCHANGED <<nest, split, cond_stack_, symtable_, implicit_main_, flow, optable_,
                 current_definition_>>

Stopped == status \in {"returned", "asserted", "collided"} /\ UNCHANGED vars

Declaration == Variable \/ Constant \/ FConstant \/ Create
Definition  == Colon \/ NoName \/ Semicolon \/ Code \/ Asm \/ EndCode
Straight    == \/ Exit \/ PString \/ AString \/ CString \/ Integer \/ Float
               \/ StringLiteral \/ CharLiteral \/ ObjectAddress \/ Word \/ Recurse
               \/ Leave \/ QueryLeave \/ While
Structures  == \/ If \/ Then \/ Else \/ Do \/ QueryDo \/ Loop \/ PlusLoop
               \/ Begin \/ Until \/ Repeat \/ Case \/ Of \/ EndOf \/ EndCase
Conditional == CondIfdef \/ CondElse \/ CondThen
Ending      == SyntaxError \/ Recover \/ EndInRecovery \/ f_end_of_file \/ parse_cleanup

Next == \/ Declaration \/ Definition \/ Straight \/ Structures \/ Conditional
        \/ Ending \/ Stopped

Spec == Init /\ [][Next]_vars
-----------------------------------------------------------------------------
(***************************************************************************)
(* Properties.  A parse is in step while no construct was split between    *)
(* active and inactive code, and no :NONAME word met its own name in the   *)
(* table, which ends the process; it is clean while nothing was refused    *)
(* either.                                                                 *)
(***************************************************************************)
InStep == ~split /\ status # "collided"
Clean  == InStep /\ error_count_ = 0

(* Every variable keeps its type: the label stacks hold label numbers, the *)
(* code holds opcodes over the symbols, and the table knows every symbol.  *)
SymbolsOK ==
  /\ symtable_ \in [Symbols -> SymbolKinds]
  /\ implicit_main_ \in BOOLEAN
  /\ error_count_ \in Nat
FlowOK ==
  /\ label_sequence_ \in Nat \ {0}
  /\ exit_label_ \in Nat
  /\ label_stack_ \in Seq(Nat) /\ break_stack_ \in Seq(Nat)
CodeOK ==
  /\ optable_ \in Seq(OpcodeSet(Symbols))
  /\ current_definition_ \in Symbols \cup {NoSymbol}
TypeOK ==
  /\ status \in Statuses
  /\ nest \in Seq(FrameSet)
  /\ split \in BOOLEAN
  /\ cond_stack_ \in Seq(BOOLEAN)
  /\ SymbolsOK /\ FlowOK /\ CodeOK

(* What an open construct keeps on the label stack and the break stack. *)
Labels(frame) ==
  IF ~frame.active \/ frame.kind \in {"code", "coded"} THEN 0
  ELSE IF frame.kind = "do" THEN 3 ELSE IF frame.kind = "begin" THEN 2 ELSE 1
Breaks(frame) ==
  IF frame.active /\ frame.kind \in {"do", "begin", "case", "cased"} THEN 1 ELSE 0

LabelsEnd(frame) == frame.labels + Labels(frame)
BreaksEnd(frame) == frame.breaks + Breaks(frame)

(* Frames whose shares, in the order of nesting, do not overlap and lie     *)
(* within stacks of the given heights.  The clause of a CASE belongs to a   *)
(* CASE, and an active one to an active one.                                *)
Fit(frames, labels, breaks) ==
  /\ \A i \in 1..(Len(frames) - 1) : /\ LabelsEnd(frames[i]) <= frames[i + 1].labels
                                     /\ BreaksEnd(frames[i]) <= frames[i + 1].breaks
  /\ frames # <<>> => /\ LabelsEnd(frames[Len(frames)]) <= labels
                      /\ BreaksEnd(frames[Len(frames)]) <= breaks
  /\ \A i \in DOMAIN frames : frames[i].kind = "of" =>
       /\ i > 1 /\ frames[i - 1].kind = "cased"
       /\ frames[i].active => frames[i - 1].active

(* The two flat stacks hold the labels of every open construct, in the      *)
(* order of nesting and without overlap; entries that a syntax error left   *)
(* behind may lie between.                                                  *)
FramesFit == InStep => Fit(nest, Len(label_stack_), Len(break_stack_))

(* The asserts of the handlers ("assert (!label_stack_.empty ())" and the  *)
(* like) never fail, whatever was refused and wherever syntax errors were, *)
(* unless a construct is split by a conditional.                           *)
AssertionsHold == InStep => status # "asserted"

(* The "internal error" reports of parse_cleanup never appear after a      *)
(* source file that was accepted without errors.                           *)
NoInternalErrors == Clean /\ status = "accepted" => InternalErrors = 0

(* While a clean parse goes on, each branch already written goes to a      *)
(* label that is placed, or that an open construct or the definition's end *)
(* still has to place; label 0 stands for the end of implicit main.        *)
JumpsResolve ==
  Clean => Referred(optable_) \subseteq Placed(optable_) \cup ToSet(label_stack_) \cup {0}

(* No label is placed twice, which the assembler would refuse. *)
LabelsPlacedOnce ==
  InStep => \A i, j \in DOMAIN optable_ :
    is_label_opcode(optable_[i]) /\ is_label_opcode(optable_[j])
      /\ optable_[i].n = optable_[j].n => i = j

(* The definition that an opcode is in, as the position of its define      *)
(* opcode; 0 for code outside definitions.                                 *)
DefinitionAt(i) ==
  LET opened == {d \in 1..i : is_define_opcode(optable_[d])
                   /\ \A e \in d..(i - 1) : ~is_enddefine_opcode(optable_[e])}
  IN IF opened = {} THEN 0 ELSE Max(opened)

(* When a file has been compiled, no branch leaves its definition: its     *)
(* target is placed in the same definition, or is the end of implicit main *)
(* for code outside definitions.                                           *)
BranchesStayInDefinition ==
  Clean /\ status = "returned" =>
    \A i \in DOMAIN optable_ : is_branching_opcode(optable_[i]) =>
      \/ optable_[i].n = 0 /\ DefinitionAt(i) = 0
      \/ \E j \in DOMAIN optable_ :
           /\ is_label_opcode(optable_[j]) /\ optable_[j].n = optable_[i].n
           /\ DefinitionAt(i) = DefinitionAt(j)

(* Define and end-define opcodes come in pairs of one symbol, never nested; *)
(* one is open exactly while there is a current definition.                 *)
DefinitionsDelimited ==
  Clean =>
    /\ \A i \in DOMAIN optable_ : is_define_opcode(optable_[i]) =>
         IF \E j \in (i + 1)..Len(optable_) : is_enddefine_opcode(optable_[j])
           THEN LET end == Min({j \in (i + 1)..Len(optable_) : is_enddefine_opcode(optable_[j])})
                IN /\ optable_[end].s = optable_[i].s
                   /\ \A k \in (i + 1)..end : ~is_define_opcode(optable_[k])
           ELSE current_definition_ = optable_[i].s
                /\ \A k \in (i + 1)..Len(optable_) : ~is_define_opcode(optable_[k])
    /\ current_definition_ # NoSymbol =>
         \E i \in DOMAIN optable_ :
           /\ optable_[i] = DefineOpcode(current_definition_)
           /\ \A k \in i..Len(optable_) : ~is_enddefine_opcode(optable_[k])

(* Where no construct is open, code outside definitions exists exactly when *)
(* the parser has announced an implicit main; then "main" is a word that    *)
(* nothing else defines.  This is what synthesize_main expects when it      *)
(* looks "main" up.  (CASE announces it and compiles nothing of its own.)   *)
MainAnnounced ==
  Clean /\ AtTop =>
    /\ implicit_main_ <=> \E i \in DOMAIN optable_ : DefinitionAt(i) = 0
    /\ implicit_main_ => /\ symtable_[Main] = "word"
                         /\ DefineOpcode(Main) \notin ToSet(optable_)

(***************************************************************************)
(* Cells that the code before position i has put on the return stack since *)
(* its definition began, following the code in order; after a jump, the    *)
(* depth of a label is the one its earlier branches arrive with.           *)
(***************************************************************************)
Effect(o) == IF is_push_opcode(o) /\ o.q = "RETURN" THEN 1
             ELSE IF is_pop_opcode(o) /\ o.q = "RETURN" THEN -1 ELSE 0
(* The label before the end of a definition is where its EXITs go. *)
IsExit(i) == i < Len(optable_) /\ is_enddefine_opcode(optable_[i + 1])
ReturnDepth ==
  LET arrivals(i) == {b \in 1..(i - 1) : is_branching_opcode(optable_[b])
                                         /\ optable_[b].n = optable_[i].n /\ ~IsExit(i)}
      depth[i \in 0..Len(optable_)] ==
        IF i = 0 THEN 0
        ELSE IF /\ i > 1 /\ is_jump_opcode(optable_[i - 1])
                /\ is_label_opcode(optable_[i]) /\ arrivals(i) # {}
          THEN depth[Min(arrivals(i))]
          ELSE depth[i - 1] + Effect(optable_[i])
  IN depth

(* Every way to reach a label finds the same number of loop parameters on   *)
(* the return stack, and a definition, like code outside definitions where  *)
(* no construct is open, ends with none, so that a word returns to its      *)
(* caller: LEAVE, ?LEAVE, WHILE, ENDOF and a ?DO that is skipped all agree  *)
(* with the end of the loop or the CASE that the break stack gives them.    *)
(* EXIT leaves with what there is: a definition's exit label is left out.   *)
ReturnStackBalanced ==
  Clean =>
    LET depth    == ReturnDepth
        branches == {i \in DOMAIN optable_ : is_branching_opcode(optable_[i])}
        labels   == {j \in DOMAIN optable_ : is_label_opcode(optable_[j]) /\ ~IsExit(j)}
        bounds   == {i \in DOMAIN optable_ : \/ is_define_opcode(optable_[i])
                                           \/ is_enddefine_opcode(optable_[i])}
    IN /\ \A i \in branches, j \in labels :
            optable_[i].n = optable_[j].n => depth[i] = depth[j]
       /\ \A i \in bounds : depth[i] = 0
       /\ AtTop => depth[Len(optable_)] = 0

(* A step leaves code outside definitions announced as main, and a symbol  *)
(* keeps the kind it was entered with, as word, as variable or as external: *)
(* no handler gives the table a second symbol of one name.  The assert of  *)
(* SymbolTable::add, which would refuse it, fails at a :NONAME word whose   *)
(* generated name the source had used before as the name of another word,  *)
(* and nowhere else.                                                       *)
NamesSettled ==
  [][/\ MainAnnounced'
     /\ \A s \in Symbols : symtable_[s] # "none" => symtable_'[s] = symtable_[s]
     /\ status # "collided" /\ status' = "collided" =>
          \E s \in Names \cap Anons : symtable_[s] \notin {"none", "anonword"}]_vars

(* What the man page says of inactive code, "it is as if the code is not   *)
(* present", for a source file compiled without an error.                  *)
CompiledCodeIsComplete ==
  status = "returned" /\ error_count_ = 0 =>
    Referred(optable_) \subseteq Placed(optable_) \cup {0}

(* The asserts of the handlers, without any proviso. *)
AssertionsNeverFail == status # "asserted"
=============================================================================
