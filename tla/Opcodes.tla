------------------------------- MODULE Opcodes -------------------------------
(***************************************************************************)
(* The intermediate code of the compiler: compiler/opcode.h.               *)
(*                                                                         *)
(* An opcode is a record with five fields, of which a kind of opcode uses  *)
(* only some; the unused ones hold a neutral value.                        *)
(*   op   the kind of opcode                                               *)
(*   r    the register read or written ("R0" or "R1"), "-" if none         *)
(*   q    the second register, or the stack of a push or a pop             *)
(*   n    the number of a label, or an integer value                       *)
(*   s    the symbol called, defined, loaded or stored                     *)
(* Line numbers and the "optimizes" back references, which only annotate   *)
(* listings, are left out.                                                 *)
(***************************************************************************)
EXTENDS Integers, Sequences

CONSTANT
  NoSymbol      (* The null symbol pointer. *)

Opcode(op, r, q, n, s) == [op |-> op, r |-> r, q |-> q, n |-> n, s |-> s]

Plain(op)          == Opcode(op, "-", "-", 0, NoSymbol)
Symbolic(op, s)    == Opcode(op, "-", "-", 0, s)
Targeted(op, r, l) == Opcode(op, r, "-", l, NoSymbol)

CallOpcode(s)      == Symbolic("call", s)
DefineOpcode(s)    == Symbolic("define", s)
EndDefineOpcode(s) == Symbolic("enddefine", s)
LabelOpcode(l)     == Targeted("label", "-", l)
AssemblyOpcode     == Plain("assembly")
NoOpOpcode         == Plain("noop")

LoadValueOpcode(r, v)           == Opcode("loadvalue", r, "-", v, NoSymbol)
LoadRegisterOpcode(r, q)        == Opcode("loadregister", r, q, 0, NoSymbol)
LoadSymbolOpcode(r, s)          == Opcode("loadsymbol", r, "-", 0, s)
LoadSymbolIndirectOpcode(r, s)  == Opcode("loadsymbolindirect", r, "-", 0, s)
LoadDataOpcode(r)               == Opcode("loaddata", r, "-", 0, NoSymbol)
StoreSymbolIndirectOpcode(r, s) == Opcode("storesymbolindirect", r, "-", 0, s)
PushOpcode(r, stack)            == Opcode("push", r, stack, 0, NoSymbol)
PopOpcode(r, stack)             == Opcode("pop", r, stack, 0, NoSymbol)
AddValueOpcode(r, v)            == Opcode("addvalue", r, "-", v, NoSymbol)
AddRegisterOpcode(r, q)         == Opcode("addregister", r, q, 0, NoSymbol)
SubtractRegisterOpcode(r, q)    == Opcode("subtractregister", r, q, 0, NoSymbol)

JumpOpcode(l)                    == Targeted("jump", "-", l)
JumpZeroOpcode(r, l)             == Targeted("jumpzero", r, l)
JumpNonZeroOpcode(r, l)          == Targeted("jumpnonzero", r, l)
JumpLessZeroOpcode(r, l)         == Targeted("jumplesszero", r, l)
JumpGreaterEqualZeroOpcode(r, l) == Targeted("jumpgreaterequalzero", r, l)
JumpEqualOpcode(r, q, l)         == Opcode("jumpequal", r, q, l, NoSymbol)
JumpNotEqualOpcode(r, q, l)      == Opcode("jumpnotequal", r, q, l, NoSymbol)

(***************************************************************************)
(* The classes the optimizer asks an opcode for (is_..._opcode).           *)
(***************************************************************************)
BranchingOps == {"jump", "jumpzero", "jumpnonzero", "jumplesszero",
                 "jumpgreaterequalzero", "jumpequal", "jumpnotequal"}
OtherOps     == {"call", "define", "enddefine", "label", "assembly", "noop",
                 "loadvalue", "loadregister", "loadsymbol",
                 "loadsymbolindirect", "loaddata", "storesymbolindirect",
                 "push", "pop", "addvalue", "addregister", "subtractregister"}

is_branching_opcode(o) == o.op \in BranchingOps
is_jump_opcode(o)      == o.op = "jump"
is_label_opcode(o)     == o.op = "label"
is_noop_opcode(o)      == o.op = "noop"
is_call_opcode(o)      == o.op = "call"
is_define_opcode(o)    == o.op = "define"
is_enddefine_opcode(o) == o.op = "enddefine"
is_assembly_opcode(o)  == o.op = "assembly"
is_push_opcode(o)      == o.op = "push"
is_pop_opcode(o)       == o.op = "pop"

(* Every opcode that the parser writes, over a set of symbols: no-ops are  *)
(* what the optimizer leaves where it removes one.                         *)
OpcodeSet(symbols) ==
  [op: BranchingOps \cup (OtherOps \ {"noop"}),
   r: {"R0", "R1", "-"},
   q: {"R0", "R1", "DATA", "RETURN", "FLOAT", "-"},
   n: Int,
   s: symbols \cup {NoSymbol}]

(* The labels an opcode sequence places, and those its branches refer to. *)
Placed(code)   == {code[i].n : i \in {j \in DOMAIN code : is_label_opcode(code[j])}}
Referred(code) ==
  {code[i].n : i \in {j \in DOMAIN code : is_branching_opcode(code[j])}}
=============================================================================
