-------------------------------- MODULE Heap --------------------------------
(***************************************************************************)
(* What ALLOCATE, FREE and RESIZE promise to a program: a set of blocks    *)
(* that never overlap and keep what was stored in them.  How the memory is *)
(* organized, and where a new block lies, is left open.  Allocator         *)
(* implements this.                                                        *)
(***************************************************************************)
EXTENDS Integers, Sequences, FiniteSets

CONSTANTS
  Cell,       \* the bytes of a cell
  Sizes,      \* the sizes that the program asks for
  Values,     \* what the program stores
  Addresses   \* the addresses of cells

VARIABLES
  blocks,     \* the contents of each allocated block, by its address
  reply       \* the outcome of the last call: [code, addr]

heapVars == <<blocks, reply>>

\* The addresses of the bytes of the block at a of a state.
Extent(b, a) == a .. a + Cell * Len(b[a]) - 1

Disjoint(b) ==
  \A a1, a2 \in DOMAIN b : a1 # a2 => Extent(b, a1) \cap Extent(b, a2) = {}

\* The other blocks stay as they are.
Others(S) ==
  /\ DOMAIN blocks' \ S = DOMAIN blocks \ S
  /\ \A a \in DOMAIN blocks \ S : blocks'[a] = blocks[a]

HeapInit ==
  /\ blocks = << >>
  /\ reply = [code |-> "ok", addr |-> 0]

\* A request for n bytes, n not negative, gives a new block of that size at
\* least; its contents are arbitrary.
Allocated(n) ==
  \E a \in Addresses \ DOMAIN blocks :
    /\ n >= 0
    /\ reply' = [code |-> "ok", addr |-> a]
    /\ a \in DOMAIN blocks'
    /\ Cell * Len(blocks'[a]) >= n
    /\ Others({a})
    /\ Disjoint(blocks')

Freed ==
  \E a \in DOMAIN blocks :
    /\ reply' = [code |-> "ok", addr |-> a]
    /\ a \notin DOMAIN blocks'
    /\ Others({a})

\* The block of a gets a new size, here or elsewhere, and keeps its contents
\* up to the smaller of the two sizes.
Resized(n) ==
  \E a \in DOMAIN blocks, new \in Addresses :
    /\ n >= 0
    /\ reply' = [code |-> "ok", addr |-> new]
    /\ new \in DOMAIN blocks' /\ (new # a => a \notin DOMAIN blocks')
    /\ new \notin DOMAIN blocks \ {a}
    /\ Cell * Len(blocks'[new]) >= n
    /\ \A i \in DOMAIN blocks[a] \cap DOMAIN blocks'[new] :
         blocks'[new][i] = blocks[a][i]
    /\ Others({a, new})
    /\ Disjoint(blocks')

Refused ==
  /\ reply' = [code |-> "einval", addr |-> 0]
  /\ UNCHANGED blocks

\* The program stores into a block of its own.
Stored ==
  \E a \in DOMAIN blocks, v \in Values :
    /\ DOMAIN blocks' = DOMAIN blocks
    /\ Len(blocks'[a]) = Len(blocks[a])
    /\ \A i \in DOMAIN blocks[a] : blocks'[a][i] \in {v, blocks[a][i]}
    /\ Others({a})
    /\ UNCHANGED reply

\* There is no more memory: nothing changes but the reply.
Exhausted ==
  /\ reply' = [code |-> "thrown", addr |-> 0]
  /\ UNCHANGED blocks

HeapNext ==
  \/ \E n \in Sizes : Allocated(n) \/ Resized(n)
  \/ Freed
  \/ Refused
  \/ Stored
  \/ Exhausted

HeapSpec == HeapInit /\ [][HeapNext]_heapVars
=============================================================================
