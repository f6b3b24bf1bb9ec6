------------------------------ MODULE MCProgram ------------------------------
(***************************************************************************)
(* Small instances of ProgramMeaning.  A program is of one of several      *)
(* kinds, each with the tokens and the bounds that give the passes of the  *)
(* optimizer something to do: branches and EXIT, loops and CASE, small     *)
(* words and CODE words to inline, and branches whose passes run in any    *)
(* order.                                                                  *)
(***************************************************************************)
EXTENDS ProgramMeaning

CONSTANTS main, w, x, yes, no, a,
  Files           (* The kinds of program of this run.                     *)

VARIABLE file     (* The kind of the program being built.                  *)

MCNames == {main, w, yes}
MCAnons == {a}
MCInputs == {<<0, 1>>, <<-1, 1>>, <<1, 1>>}

(* The order of the source, which every known compiler of C++ keeps here; *)
(* and no order, as the language has it.                                  *)
SourceOrder == <<"remove_unreachable_code", "remove_unnecessary_jumps",
                 "remove_useless_calls", "inline_booleans", "inline_small_functions",
                 "replace_adjacent_push_pop_pairs", "relocate_suboptimal_labels",
                 "remove_unnecessary_labels">>
AnyOrder    == {}
LeftToRight == UNION {{<<SourceOrder[i], SourceOrder[j]>> : i \in 1..(j - 1)} : j \in 1..8}

BranchTokens  == {":", ";", "IF", "THEN", "BEGIN", "REPEAT", "WHILE", "EXIT", "WORD"}
LoopTokens    == {":", ";", "?DO", "LOOP", "+LOOP", "LEAVE", "CASE", "OF", "ENDOF", "ENDCASE",
                  "INTEGER"}
InlineTokens  == {":", ";", "CODE", "ASM", "END-CODE", "WORD"}
ElseTokens    == {"IF", "ELSE", "THEN", "WORD"}
AllTokens     == BranchTokens \cup LoopTokens \cup InlineTokens \cup ElseTokens

Branches == INSTANCE ProgramMeaning WITH
  Tokens <- BranchTokens, MaxOpcodes <- 5, MaxLabels <- 3
Looping == INSTANCE ProgramMeaning WITH
  Tokens <- LoopTokens, MaxOpcodes <- 8, MaxLabels <- 12
Inlining == INSTANCE ProgramMeaning WITH
  Tokens <- InlineTokens, MaxNest <- 1, MaxOpcodes <- 5, MaxLabels <- 3
Reordering == INSTANCE ProgramMeaning WITH
  Tokens <- ElseTokens, MaxOpcodes <- 5, MaxLabels <- 3,
  EvaluationOrder <- AnyOrder

MCInit == ProgramInit /\ file \in Files

Building(kind, Action) == file = kind /\ Action /\ UNCHANGED file

(* Only programs whose words are to be inlined use a third name. *)
TwoNames == symtable_'[yes] = "none"

MCNext ==
  \/ Building("branches", Branches!ProgramNext /\ TwoNames)
  \/ Building("loops", Looping!ProgramNext /\ TwoNames)
  \/ Building("inline", Inlining!ProgramNext)
  \/ Building("any order", Reordering!ProgramNext /\ TwoNames)

MCSpec == MCInit /\ [][MCNext]_<<pvars, file>>
=============================================================================
