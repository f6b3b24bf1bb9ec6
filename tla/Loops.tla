-------------------------------- MODULE Loops --------------------------------
(***************************************************************************)
(* Counted loops from the source text to the last turn: the parser reads a *)
(* definition with one loop, the optimizer rewrites it or not, and the     *)
(* machine runs it, an opcode at a time, for every limit and index.  The   *)
(* word that is the body of the loop is in another file; it leaves the     *)
(* increment of +LOOP, or the flag of ?LEAVE, on the stack.                *)
(***************************************************************************)
EXTENDS Program, Machine

CONSTANTS
  LoopWord,    (* The name of the word that is defined.                    *)
  BodyWord,    (* The name of the word that its loop repeats.              *)
  Scripts,     (* Source files: sequences of tokens.                       *)
  Increments   (* What the body leaves before +LOOP.                       *)

ASSUME LoopsAssumption ==
  /\ {LoopWord, BodyWord} \subseteq Names \ {Main}
  /\ Increments \subseteq -HalfRange .. HalfRange - 1

VARIABLES
  script,      (* The source file.                                         *)
  at,          (* How many of its tokens have been read.                   *)
  machine,     (* The state of the machine.                                *)
  range,       (* History: the limit and the first index.                  *)
  passes,      (* History: how often the body has been called,             *)
  index,       (* with which index at last,                                *)
  answer       (* and what it answered.                                    *)

running == <<machine, range, passes, index, answer>>
lvars   == <<pvars, script, at, running>>

CellRange == -HalfRange .. HalfRange - 1

LoopsInit ==
  /\ ProgramInit
  /\ script \in Scripts /\ at = 0
  /\ machine = [ended |-> "unborn"]
  /\ range = [limit |-> 0, index |-> 0]
  /\ passes = 0 /\ index = 0 /\ answer = 0

(* The reduction of the next token; the two names are those of the script. *)
Reduction(token) ==
  CASE token = ":"      -> Colon /\ symtable_'[LoopWord] = "word"
    [] token = "WORD"   -> Word /\ Last(optable_') = CallOpcode(BodyWord)
    [] token = "DO"     -> Do
    [] token = "?DO"    -> QueryDo
    [] token = "?LEAVE" -> QueryLeave
    [] token = "LOOP"   -> Loop
    [] token = "+LOOP"  -> PlusLoop
    [] token = ";"      -> Semicolon

Read ==
  /\ stage = "parsing"
  /\ IF at < Len(script) THEN Reduction(script[at + 1]) /\ at' = at + 1
                         ELSE (f_end_of_file \/ parse_cleanup) /\ UNCHANGED at
  /\ UNCHANGED <<stage, optimizing, original, script, running>>

Rewrite == Build /\ UNCHANGED <<script, at, running>>

Has(token) == token \in ToSet(script)

LoopCode == Generated(optable_)

Enter == \E limit, first \in CellRange :
  /\ stage = "built" /\ machine.ended = "unborn"
  /\ machine' = Started(LoopCode, LoopWord, <<limit, first>>)
  /\ range' = [limit |-> limit, index |-> first]
  /\ UNCHANGED <<pvars, script, at, passes, index, answer>>

InBody == machine.ended = "no" /\ LoopCode[machine.at] = CallOpcode(BodyWord)

RunOpcode ==
  /\ machine.ended = "no" /\ ~InBody
  /\ machine' = Step(LoopCode, machine)
  /\ UNCHANGED <<pvars, script, at, range, passes, index, answer>>

Answers == IF Has("+LOOP") THEN Increments ELSE IF Has("?LEAVE") THEN {0, 1} ELSE {0}

(* The body finds its index on the return stack, as I does.  The turns of  *)
(* +LOOP are not counted.                                                  *)
CallBody == \E a \in Answers :
  /\ InBody
  /\ machine' = [Step(LoopCode, [machine EXCEPT !.inputs = <<a>>]) EXCEPT !.events = <<>>]
  /\ passes' = (IF Has("+LOOP") THEN 1 ELSE passes + 1)
  /\ answer' = a
  /\ index' = Last(machine.stacks["RETURN"])
  /\ UNCHANGED <<pvars, script, at, range>>

LoopOver == machine.ended = "returned" /\ UNCHANGED lvars

LoopsNext == Read \/ Rewrite \/ Enter \/ RunOpcode \/ CallBody \/ LoopOver

LoopsSpec == LoopsInit /\ [][LoopsNext]_lvars

(* The compiler and the processor do not stop by themselves. *)
FairLoops == LoopsSpec /\ WF_lvars(Read \/ Rewrite \/ Enter \/ RunOpcode \/ CallBody)
-----------------------------------------------------------------------------
Limit == range.limit
Over  == machine.ended \notin {"no", "unborn"}

(* LOOP counts up by one, past the largest cell if it must, until it meets *)
(* the limit: the number of turns is the distance of the two, or the size  *)
(* of the whole range when they are equal and DO did not skip the loop     *)
(* (compiler/parser.cc, f_loop, f_do and f_query_do).                      *)
Turns ==
  IF Limit = range.index /\ Has("?DO") THEN 0
  ELSE 1 + ((Limit - range.index - 1) % (2 * HalfRange))
LoopVisits ==
  Has("LOOP") /\ machine.ended # "unborn" =>
    /\ passes > 0 => index = Wrap(range.index + passes - 1)
    /\ passes <= Turns
    /\ Over => passes = Turns \/ (Has("?LEAVE") /\ answer # 0)

(* A step of +LOOP from a side on which it leads to the limit, and not so  *)
(* far that a difference overflows, ends the loop exactly when it crosses  *)
(* the boundary between the limit and the cell below it; upwards the limit *)
(* itself is not visited, downwards it is (f_plus_loop).                   *)
Crossed == (index < Limit) # (index + answer < Limit)
Regular ==
  /\ IF answer < 0 THEN index >= Limit ELSE index < Limit
  /\ {index - Limit, index + answer - Limit} \subseteq CellRange
PlusLoopSteps ==
  Has("+LOOP") /\ passes > 0 /\ Regular =>
    /\ InBody => ~Crossed /\ Last(machine.stacks["RETURN"]) = Wrap(index + answer)
    /\ Over => Crossed

(* "Forwards loop: continue if rs0 - rs1 < 0" and "Reverse loop: continue   *)
(* if rs0 - rs1 >= 0" (compiler/parser.cc), rs0 being the index after the  *)
(* step and rs1 the limit.                                                 *)
GoesOn == IF answer < 0 THEN Wrap(index + answer) - Limit >= 0
                        ELSE Wrap(index + answer) - Limit < 0
PlusLoopAsCommented ==
  Has("+LOOP") /\ passes > 0 => (InBody => GoesOn) /\ (Over => ~GoesOn)

(* A loop takes from the stacks what DO was given, and nothing else, which *)
(* ever way it ends: at the limit, by ?LEAVE or skipped by ?DO.            *)
LoopLeavesStacks ==
  Over => /\ machine.ended = "returned"
          /\ machine.stacks["RETURN"] = <<>>
          /\ Len(machine.stacks["DATA"]) = IF Has("LOOP") /\ ~Has("?LEAVE") THEN passes ELSE 0

(* Every loop ends, whatever its limits, LOOP even across the ends of the  *)
(* range, and +LOOP if in the end it steps in one direction.               *)
LoopEnds ==
  (Has("+LOOP") => <>[](answer > 0) \/ <>[](answer < 0)) => <>Over
=============================================================================
