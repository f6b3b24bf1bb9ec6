------------------------------- MODULE Optimizer -------------------------------
(***************************************************************************)
(* What compiler/optable.cc and compiler/optimize.cc do to the code of a   *)
(* whole source file: implicit main becomes a definition, and then eight   *)
(* passes rewrite the code.                                                *)
(*                                                                         *)
(* A pass is an operator from code to code.  The source scans with         *)
(* iterators and replaces opcodes on the way; no pass reads an opcode that *)
(* it replaced before, so each place of the result is defined by the code  *)
(* that the pass was given.  A pass reports a nonzero count exactly when   *)
(* the code it returns is another one.                                     *)
(***************************************************************************)
EXTENDS Opcodes, SequencesExt

CONSTANTS
  TrueWord,     (* The mangled name of TRUE.  *)
  FalseWord,    (* The mangled name of FALSE. *)
  SMALL_FUNCTION_OPCODE_LIMIT

-----------------------------------------------------------------------------
(* Regions and definitions of the code. *)

(* The opcodes from each define to the next end-define, both included. *)
InFunction(code, i) ==
  \E d \in 1..i : /\ is_define_opcode(code[d])
                  /\ \A e \in d..(i - 1) : ~is_enddefine_opcode(code[e])

(* The part of the code at some positions. *)
Part(code, positions) ==
  FlattenSeq([i \in DOMAIN code |-> IF i \in positions THEN <<code[i]>> ELSE <<>>])

(* Labels and no-ops generate no instructions. *)
is_executable(o) == ~is_label_opcode(o) /\ ~is_noop_opcode(o)

(* The position of the definition of a symbol, its end, and its body. *)
DefinedSymbols(code) == {code[d].s : d \in {i \in DOMAIN code : is_define_opcode(code[i])}}
DefineAt(code, s)    == 
  CHOOSE d \in DOMAIN code : is_define_opcode(code[d]) /\ code[d].s = s
EndAt(code, s)       ==
  Min({e \in DefineAt(code, s)..Len(code) : is_enddefine_opcode(code[e])})
ExecutableBody(code, s) ==
  Part(code, {i \in (DefineAt(code, s) + 1)..(EndAt(code, s) - 1) : is_executable(code[i])})

(* The first opcode after position i that is not a no-op, a no-op if none. *)
NextReal(code, i) ==
  LET after == {j \in (i + 1)..Len(code) : ~is_noop_opcode(code[j])}
  IN IF after = {} THEN NoOpOpcode ELSE code[Min(after)]

(* Replaces the opcodes at some positions by no-ops. *)
replace_with_nop(code, obsolete) ==
  [i \in DOMAIN code |-> IF i \in obsolete THEN NoOpOpcode ELSE code[i]]

-----------------------------------------------------------------------------
(* The code inside definitions, and the code outside. *)
Split(code) ==
  [functions |-> Part(code, {i \in DOMAIN code : InFunction(code, i)}),
   main      |-> Part(code, {i \in DOMAIN code : ~InFunction(code, i)})]

(* Code outside definitions becomes the definition of main; label 0, which *)
(* EXIT goes to there, is placed at its end.                               *)
synthesize_main(code, main) ==
  LET split == Split(code)
  IN IF split.main = <<>> THEN code
     ELSE split.functions \o <<DefineOpcode(main)>> \o split.main
          \o <<LabelOpcode(0), EndDefineOpcode(main)>>

(* Slip: a definition that starts is not code. *)
OutsideDefinitions(o) == is_noop_opcode(o) \/ is_label_opcode(o) \/ is_define_opcode(o)
(* What may follow a jump without a warning; nothing may too. *)
Expected(o) == is_noop_opcode(o) \/ is_label_opcode(o)
(* The jumps that a warning of unreachable code names. *)
unreachable_check(code) ==
  {i \in DOMAIN code : is_jump_opcode(code[i]) /\ ~Expected(NextReal(code, i))}

-----------------------------------------------------------------------------
(* The passes. *)

(* Code after a jump, up to a label or the end of the definition. *)
remove_unreachable_code(code) ==
  replace_with_nop(code, {i \in DOMAIN code :
    \E j \in 1..(i - 1) : /\ is_jump_opcode(code[j])
                          /\ \A k \in (j + 1)..i : /\ ~is_label_opcode(code[k])
                                                   /\ ~is_enddefine_opcode(code[k])})

(* A branch to the label that directly follows it. *)
Needless(branch, next) ==
  is_branching_opcode(branch) /\ is_label_opcode(next) /\ next.n = branch.n
remove_unnecessary_jumps(code) ==
  replace_with_nop(code, {i \in DOMAIN code : Needless(code[i], NextReal(code, i))})

(* A definition without an executable opcode, and the calls of those. *)
Empty(code, s) == ExecutableBody(code, s) = <<>>
remove_useless_calls(code) ==
  LET empty_functions == {s \in DefinedSymbols(code) : Empty(code, s)}
  IN replace_with_nop(code, {i \in DOMAIN code :
       is_call_opcode(code[i]) /\ code[i].s \in empty_functions})

(* Calls of TRUE and FALSE, known by their names alone. *)
PushedFlag(v) == <<NoOpOpcode, LoadValueOpcode("R0", v), PushOpcode("R0", "DATA")>>
inline_booleans(code) ==
  FlattenSeq([i \in DOMAIN code |->
    IF code[i] = CallOpcode(TrueWord) THEN PushedFlag(-1)
    ELSE IF code[i] = CallOpcode(FalseWord) THEN PushedFlag(0) ELSE <<code[i]>>])

(* Slip: a definition with branches is inlined too, without its labels. *)
ShortBody(body) ==
  /\ Len(body) \in 1..SMALL_FUNCTION_OPCODE_LIMIT
  /\ \A i \in DOMAIN body : ~is_assembly_opcode(body[i])
(* The body of a definition that is one short basic block; an empty one    *)
(* has nothing to splice, and is left to remove_useless_calls.             *)
SmallBody(body) ==
  /\ Len(body) \in 1..SMALL_FUNCTION_OPCODE_LIMIT
  /\ \A i \in DOMAIN body : ~is_branching_opcode(body[i]) /\ ~is_assembly_opcode(body[i])
inline_small_functions(code) ==
  LET splices == {s \in DefinedSymbols(code) : SmallBody(ExecutableBody(code, s))}
  IN FlattenSeq([i \in DOMAIN code |->
       IF is_call_opcode(code[i]) /\ code[i].s \in splices
         THEN <<NoOpOpcode>> \o ExecutableBody(code, code[i].s) ELSE <<code[i]>>])

Pair(push, pop)    == is_push_opcode(push) /\ is_pop_opcode(pop) /\ push.q = pop.q

(* A push and the pop of the same stack that follows it: a move between    *)
(* registers, or nothing.                                                  *)
replace_adjacent_push_pop_pairs(code) ==
  LET paired(i) == Pair(code[i], NextReal(code, i))
      popped(i) == \E j \in 1..(i - 1) :
                     /\ paired(j) /\ ~is_noop_opcode(code[i])
                     /\ \A k \in (j + 1)..(i - 1) : is_noop_opcode(code[k])
      move(i)   == LET pop == NextReal(code, i)
                   IN IF pop.r = code[i].r THEN NoOpOpcode
                      ELSE LoadRegisterOpcode(pop.r, code[i].r)
  IN [i \in DOMAIN code |-> IF paired(i) THEN move(i)
                            ELSE IF popped(i) THEN NoOpOpcode ELSE code[i]]

(* A label whose next opcode is a jump to a higher label. *)
Suboptimal(label, next) ==
  is_label_opcode(label) /\ is_jump_opcode(next) /\ next.n > label.n

(* Such labels, each with the label to move to: chains are followed to     *)
(* their end.                                                              *)
Relocations(code) ==
  LET places == {i \in DOMAIN code : Suboptimal(code[i], NextReal(code, i))}
      target == [l \in {code[i].n : i \in places} |->
                   NextReal(code, CHOOSE i \in places : code[i].n = l).n]
      final[l \in DOMAIN target] ==
        IF target[l] \in DOMAIN target THEN final[target[l]] ELSE target[l]
  IN final

(* The labels that move to a label, the lower ones (from 0) first. *)
Arriving(relocations, l) ==
  FlattenSeq([k \in 1..(l + 1) |->
    IF k - 1 \in DOMAIN relocations /\ relocations[k - 1] = l
      THEN <<LabelOpcode(k - 1)>> ELSE <<>>])

(* Labels on a jump move to just before the label that the jump leads to.  *)
relocate_suboptimal_labels(code) ==
  LET relocations == Relocations(code)
  IN FlattenSeq([i \in DOMAIN code |->
       IF ~is_label_opcode(code[i]) THEN <<code[i]>>
       ELSE IF code[i].n \in DOMAIN relocations THEN <<NoOpOpcode>>
       ELSE Arriving(relocations, code[i].n) \o <<code[i]>>])

(* Slip: conditional branches do not count. *)
JumpTargets(code) == {code[i].n : i \in {j \in DOMAIN code : is_jump_opcode(code[j])}}
used_labels(code) == Referred(code)

(* Labels that no branch goes to. *)
remove_unnecessary_labels(code) ==
  LET used == used_labels(code)
  IN replace_with_nop(code, {i \in DOMAIN code :
       is_label_opcode(code[i]) /\ code[i].n \notin used})

Passes == {"remove_unreachable_code", "remove_unnecessary_jumps",
           "remove_useless_calls", "inline_booleans", "inline_small_functions",
           "replace_adjacent_push_pop_pairs", "relocate_suboptimal_labels",
           "remove_unnecessary_labels"}

Optimized(code, pass) ==
  CASE pass = "remove_unreachable_code"         -> remove_unreachable_code(code)
    [] pass = "remove_unnecessary_jumps"        -> remove_unnecessary_jumps(code)
    [] pass = "remove_useless_calls"            -> remove_useless_calls(code)
    [] pass = "inline_booleans"                 -> inline_booleans(code)
    [] pass = "inline_small_functions"          -> inline_small_functions(code)
    [] pass = "replace_adjacent_push_pop_pairs" -> replace_adjacent_push_pop_pairs(code)
    [] pass = "relocate_suboptimal_labels"      -> relocate_suboptimal_labels(code)
    [] pass = "remove_unnecessary_labels"       -> remove_unnecessary_labels(code)
=============================================================================
