---------------------------- MODULE ProgramMeaning ----------------------------
(***************************************************************************)
(* Program together with Machine: the code of a program is run before and  *)
(* after it is optimized.                                                  *)
(***************************************************************************)
EXTENDS Program, Machine

(* The source does not define TRUE or FALSE itself. *)
BooleansFromLibrary == \A s \in {TrueWord, FalseWord} : DefineOpcode(s) \notin ToSet(original)

SameMeaning == Meaning(optable_) = Meaning(original)

(* After every iteration of the optimizer, whatever the order of its        *)
(* passes, every definition still does what it did before: it ends in the   *)
(* same way, with the same stacks and memory, and has called the same       *)
(* external words with the same stacks.                                     *)
MeaningKept ==
  BooleansFromLibrary /\ (pending = Passes \/ stage = "built") => SameMeaning

CallsItself(s) == CallOpcode(s) \in ToSet(ExecutableBody(original, s))

(* The same for programs that define TRUE or FALSE themselves, as the       *)
(* manual allows of library words: they "can be overridden in user code".   *)
MeaningKeptWhenOverridden ==
  stage = "built" /\ (\A s \in DefinedSymbols(original) : ~CallsItself(s)) => SameMeaning
=============================================================================
