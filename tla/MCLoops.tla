------------------------------ MODULE MCLoops ------------------------------
(* Each kind of loop, with limits and indices over all of a small range. *)
EXTENDS Loops

CONSTANTS main, w, x, yes, no

MCNames == {main, w, x, yes, no}
LoopKinds == {<<"DO", "WORD", "LOOP">>, <<"?DO", "WORD", "LOOP">>,
          <<"?DO", "WORD", "?LEAVE", "LOOP">>,
          <<"DO", "WORD", "+LOOP">>, <<"?DO", "WORD", "+LOOP">>}
MCScripts == {<<":">> \o kind \o <<";">> : kind \in LoopKinds}
MCTokens  == UNION {{s[i] : i \in DOMAIN s} : s \in MCScripts}
MCIncrements == {-2, -1, 0, 1, 3}

SourceOrder == <<"remove_unreachable_code", "remove_unnecessary_jumps",
                 "remove_useless_calls", "inline_booleans", "inline_small_functions",
                 "replace_adjacent_push_pop_pairs", "relocate_suboptimal_labels",
                 "remove_unnecessary_labels">>
LeftToRight == UNION {{<<SourceOrder[i], SourceOrder[j]>> : i \in 1..(j - 1)} : j \in 1..8}

(* The body is called as often as the limits tell, +LOOP ends where its    *)
(* steps cross the boundary, and a loop that is over leaves the stacks as  *)
(* it found them (compiler/parser.cc: f_do, f_loop, f_plus_loop): see      *)
(* Loops.                                                                  *)
TurnsAsTold == LoopVisits /\ PlusLoopSteps /\ LoopLeavesStacks
=============================================================================
