-------------------------------- MODULE Machine --------------------------------
(***************************************************************************)
(* What the opcodes do when they run: the instructions that                *)
(* compiler/codegen.cc generates for each, over the three stacks of the    *)
(* runtime.  Meaning says what can be seen of a program: how each of its   *)
(* definitions ends, what it leaves on the stacks and in memory, and every *)
(* call that leaves the program, with the stacks as the callee finds them. *)
(*                                                                         *)
(* The hardware's own stack holds return addresses alone (calls), apart    *)
(* from the return stack of Forth.  Words of other source files are        *)
(* external: they answer with the next of a sequence of inputs.            *)
(***************************************************************************)
EXTENDS Optimizer

CONSTANTS
  HalfRange,    (* Cells hold -HalfRange .. HalfRange - 1 and wrap around. *)
  Inputs,       (* Sequences of cells that callers and callees provide.    *)
  Fuel          (* Bound: opcodes run before a program is said to diverge. *)

ASSUME MachineAssumption ==
  /\ HalfRange \in Nat \ {0}
  /\ \A input \in Inputs : ToSet(input) \subseteq -HalfRange .. (HalfRange - 1)
  /\ Fuel \in Nat

Wrap(v) == ((v + HalfRange) % (2 * HalfRange)) - HalfRange

(* The address of any symbol or string: some cell that is not zero. *)
Address == 1

(* No-op opcodes generate nothing. *)
Generated(code) == SelectSeq(code, LAMBDA o : ~is_noop_opcode(o))

(* A machine about to run the definition of s; the caller left the inputs   *)
(* on the data stack, as they are also what external words will answer.     *)
Started(code, s, input) ==
  [at     |-> DefineAt(code, s),
   ended  |-> "no",
   regs   |-> [r \in {"R0", "R1"} |-> 0],
   stacks |-> [q \in {"DATA", "RETURN", "FLOAT"} |-> IF q = "DATA" THEN input ELSE <<>>],
   calls  |-> <<>>,
   memory |-> [x \in {code[i].s : i \in DOMAIN code} |-> 0],
   inputs |-> input,
   events |-> <<>>]

LabelAt(code, l) == CHOOSE i \in DOMAIN code : code[i] = LabelOpcode(l)

(* The next opcode, or the one at a label. *)
Onwards(m)            == [m EXCEPT !.at = @ + 1]
Goto(code, m, l)      == [m EXCEPT !.at = LabelAt(code, l)]
GotoIf(test, code, m, l) == IF test THEN Goto(code, m, l) ELSE Onwards(m)
Set(m, r, v)          == [Onwards(m) EXCEPT !.regs[r] = v]
PushCell(m, q, v)     == [m EXCEPT !.stacks[q] = Append(@, v)]

(* Code of other files, and assembly: it sees all the stacks, answers with *)
(* an input, and need not preserve the registers.                          *)
External(m, callee) ==
  LET seen == [m EXCEPT !.events = Append(@, <<callee, m.stacks>>)]
  IN IF m.inputs = <<>> THEN [seen EXCEPT !.ended = "starved"]
     ELSE LET answer == Head(m.inputs)
          IN [PushCell(Onwards(seen), "DATA", answer) EXCEPT
                !.inputs = Tail(@), !.regs = [r \in DOMAIN @ |-> answer]]

(* TRUE and FALSE of the runtime; they answer without being seen. *)
Boolean(m, v) == [PushCell(Onwards(m), "DATA", v) EXCEPT !.regs["R0"] = v]

Call(code, m, s) ==
  IF DefineOpcode(s) \in ToSet(code)
    THEN [m EXCEPT !.at = DefineAt(code, s),
                   !.calls = Append(@, m.at + 1)]
  ELSE CASE s = TrueWord -> Boolean(m, -1)
         [] s = FalseWord -> Boolean(m, 0)
         [] OTHER -> External(m, s)

Return(m) ==
  IF m.calls = <<>> THEN [m EXCEPT !.ended = "returned"]
  ELSE [m EXCEPT !.at = Last(m.calls), !.calls = Front(@)]

(* A pop of an empty stack throws an exception, which ends the program. *)
Pop(m, r, q) ==
  IF m.stacks[q] = <<>> THEN [m EXCEPT !.ended = "underflow"]
  ELSE [Set(m, r, Last(m.stacks[q])) EXCEPT !.stacks[q] = Front(@)]

Step(code, m) ==
  LET o     == code[m.at]
      first == m.regs[o.r]
      other == m.regs[o.q]
      jumps(test) == GotoIf(test, code, m, o.n)
  IN CASE o.op \in {"define", "label"}     -> Onwards(m)
       [] o.op = "enddefine"               -> Return(m)
       [] o.op = "call"                    -> Call(code, m, o.s)
       [] o.op = "assembly"                -> External(m, NoSymbol)
       [] o.op = "loadvalue"               -> Set(m, o.r, o.n)
       [] o.op = "loadregister"            -> Set(m, o.r, other)
       [] o.op \in {"loadsymbol", "loaddata"} -> Set(m, o.r, Address)
       [] o.op = "loadsymbolindirect"      -> Set(m, o.r, m.memory[o.s])
       [] o.op = "storesymbolindirect"     -> [Onwards(m) EXCEPT !.memory[o.s] = first]
       [] o.op = "push"                    -> PushCell(Onwards(m), o.q, first)
       [] o.op = "pop"                     -> Pop(m, o.r, o.q)
       [] o.op = "addvalue"                -> Set(m, o.r, Wrap(first + o.n))
       [] o.op = "addregister"             -> Set(m, o.r, Wrap(first + other))
       [] o.op = "subtractregister"        -> Set(m, o.r, Wrap(first - other))
       [] o.op = "jump"                    -> Goto(code, m, o.n)
       [] o.op = "jumpzero"                -> jumps(first = 0)
       [] o.op = "jumpnonzero"             -> jumps(first # 0)
       [] o.op = "jumplesszero"            -> jumps(first < 0)
       [] o.op = "jumpgreaterequalzero"    -> jumps(first >= 0)
       [] o.op = "jumpequal"               -> jumps(first = other)
       [] o.op = "jumpnotequal"            -> jumps(first # other)

RECURSIVE Run(_, _, _)
Run(code, m, fuel) ==
  IF m.ended # "no" THEN m
  ELSE IF fuel = 0 THEN [m EXCEPT !.ended = "diverged"]
  ELSE Run(code, Step(code, m), fuel - 1)

(* What is seen of a run; a run without an end is cut off at some point,   *)
(* and the stacks there show nothing.                                      *)
Seen(m) ==
  [ended  |-> m.ended, events |-> m.events,
   stacks |-> IF m.ended = "diverged" THEN <<>> ELSE m.stacks,
   stored |-> {<<s, m.memory[s]>> : s \in {x \in DOMAIN m.memory : m.memory[x] # 0}}]

Meaning(program) ==
  LET code == Generated(program)
  IN [s \in DefinedSymbols(code) |->
        [input \in Inputs |-> Seen(Run(code, Started(code, s, input), Fuel))]]
=============================================================================
