-------------------------------- MODULE Program --------------------------------
(***************************************************************************)
(* Program::build of compiler/program.cc: a source file is parsed, its     *)
(* code outside definitions becomes main, and the optimizer rewrites the   *)
(* code until a whole iteration of its passes changes nothing.             *)
(*                                                                         *)
(* This module composes Parser, which reads the source file, with          *)
(* Optimizer.  The passes of an iteration are the operands of one sum,     *)
(* whose order of evaluation C++ leaves to the compiler that builds this   *)
(* one; EvaluationOrder says what that compiler guarantees.                *)
(***************************************************************************)
EXTENDS Parser, Optimizer

CONSTANTS
  ITERATIONS_LIMIT,
  EvaluationOrder       (* Pairs of passes, the first of which runs first. *)

ASSUME ProgramAssumption ==
  /\ ITERATIONS_LIMIT \in Nat \ {0}
  /\ SMALL_FUNCTION_OPCODE_LIMIT \in Nat
  /\ EvaluationOrder \subseteq Passes \X Passes

VARIABLES
  stage,                (* How far Program::build has come.               *)
  pending,              (* Passes that this iteration has yet to run.     *)
  is_optimizing,        (* Some pass of this iteration changed the code.  *)
  iterations,           (* Iterations completed.                          *)
  original              (* History: the code that optimize_code was given *)

optimizing == <<pending, is_optimizing, iterations>>
pvars      == <<vars, stage, optimizing, original>>

(* What the parser leaves; only the code is touched from then on. *)
ParserDone == UNCHANGED <<status, nest, split, cond_stack_, symbols, flow, current_definition_>>

ProgramInit ==
  /\ Init
  /\ stage = "parsing" /\ original = <<>>
  /\ pending = {} /\ is_optimizing = FALSE /\ iterations = 0

Parse == stage = "parsing" /\ Next /\ UNCHANGED <<stage, optimizing, original>>

(* The source file is refused; no code is generated. *)
Refuse ==
  /\ stage = "parsing" /\ status = "returned" /\ error_count_ > 0
  /\ stage' = "refused" /\ UNCHANGED <<vars, optimizing, original>>

(* With the optimization option, or without. *)
Synthesize(optimize_code) ==
  /\ stage = "parsing" /\ status = "returned" /\ error_count_ = 0
  /\ optable_' = synthesize_main(optable_, Main)
  /\ original' = optable_'
  /\ stage' = IF optimize_code THEN "optimizing" ELSE "built"
  /\ pending' = IF optimize_code THEN Passes ELSE {}
  /\ UNCHANGED <<is_optimizing, iterations>> /\ ParserDone

(* Slip: only the pass that runs last tells whether to go on. *)
LastPassTells(pass) ==
  /\ stage = "optimizing" /\ pass \in pending
  /\ \A earlier \in pending : <<earlier, pass>> \notin EvaluationOrder
  /\ optable_' = Optimized(optable_, pass)
  /\ is_optimizing' = (optable_' # optable_)
  /\ pending' = pending \ {pass}
  /\ UNCHANGED <<stage, iterations, original>> /\ ParserDone

RunPass(pass) ==
  /\ stage = "optimizing" /\ pass \in pending
  /\ \A earlier \in pending : <<earlier, pass>> \notin EvaluationOrder
  /\ optable_' = Optimized(optable_, pass)
  /\ is_optimizing' = (is_optimizing \/ optable_' # optable_)
  /\ pending' = pending \ {pass}
  /\ UNCHANGED <<stage, iterations, original>> /\ ParserDone

Iterate ==
  /\ stage = "optimizing" /\ pending = {}
  /\ iterations' = iterations + 1
  /\ IF is_optimizing /\ iterations' < ITERATIONS_LIMIT
       THEN stage' = stage /\ pending' = Passes
       ELSE stage' = "built" /\ pending' = {}
  /\ is_optimizing' = FALSE
  /\ UNCHANGED <<vars, original>>

Done == stage \in {"built", "refused"} /\ UNCHANGED pvars

Build == Refuse \/ (\E o \in BOOLEAN : Synthesize(o)) \/ (\E p \in Passes : RunPass(p)) \/ Iterate

ProgramNext == Parse \/ Build \/ Done

ProgramSpec == ProgramInit /\ [][ProgramNext]_pvars
-----------------------------------------------------------------------------
(* The optimizer ends with code that no pass would change any more, unless *)
(* it warned that it reached the limit; and it reaches the limit only by   *)
(* so many changes: every iteration but the last one left a no-op in place *)
(* of an opcode, for good.  Long programs may (a dead IF ... THEN takes an *)
(* iteration), and those whose words call one another in a circle do.      *)
Replaced(code) == {i \in DOMAIN code : is_noop_opcode(code[i])}
SettledWhenBuilt ==
  stage = "built" /\ iterations > 0 =>
    /\ iterations < ITERATIONS_LIMIT => \A p \in Passes : Optimized(optable_, p) = optable_
    /\ iterations <= Cardinality(Replaced(optable_)) + 1

(* Code that the optimizer removes as unreachable was warned of when the    *)
(* file had been parsed, although the check runs before the code outside    *)
(* definitions is gathered into main and brings other opcodes together.     *)
RemovalsWarnedOf ==
  LET synthesized == synthesize_main(optable_, Main)
  IN stage = "parsing" /\ status = "returned" /\ Clean
       /\ remove_unreachable_code(synthesized) # synthesized
     => unreachable_check(optable_) # {}

(* There is code to optimize or to generate, from a file none of whose      *)
(* constructs was split between active and inactive code.                   *)
Coded == stage \in {"optimizing", "built"} /\ InStep

(* What the code generator asserts of every opcode that needs an           *)
(* instruction, "assert (current_definition)": it is in a definition.      *)
CodeInDefinitions ==
  Coded =>
    \A i \in DOMAIN optable_ : is_executable(optable_[i]) => DefinitionAt(i) # 0

(* What the assembler asks of the code at any time of the optimization:    *)
(* each branch has exactly one target, and it is in the same definition.   *)
BranchesHaveTargets ==
  Coded =>
    \A i \in DOMAIN optable_ : is_branching_opcode(optable_[i]) =>
      LET targets == {j \in DOMAIN optable_ : /\ is_label_opcode(optable_[j])
                                             /\ optable_[j].n = optable_[i].n}
      IN \E j \in targets : targets = {j} /\ DefinitionAt(i) = DefinitionAt(j)

(* What the optimizer leaves is a program: its branches have their targets, *)
(* and all of its code is in definitions (compiler/opmanip.cc).             *)
StillAProgram == BranchesHaveTargets /\ CodeInDefinitions
=============================================================================
