---------------------------- MODULE CellNumbers ----------------------------
(***************************************************************************)
(* Cells: unsigned numbers of CellBits bits, as on the stacks.  A word     *)
(* that calls them signed reads the top bit as a sign.  A double is two    *)
(* cells, the low one first.                                               *)
(***************************************************************************)
EXTENDS Integers

CONSTANT CellBits   \* the width of a cell: 32 in the source

CellAssumption == CellBits \in Nat \ {0}

Modulus == 2 ^ CellBits
Half == 2 ^ (CellBits - 1)
Cells == 0 .. Modulus - 1

Cell(n) == n % Modulus
Signed(w) == IF w < Half THEN w ELSE w - Modulus

UDouble(l, h) == h * Modulus + l
Double(l, h) == Signed(h) * Modulus + l
=============================================================================
