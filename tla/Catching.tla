------------------------------ MODULE Catching ------------------------------
(***************************************************************************)
(* What CATCH and THROW promise: a THROW ends the word that the innermost  *)
(* CATCH runs, and leaves all stacks as deep as they were at that CATCH,   *)
(* with the code in the place of the word.  Without a CATCH it ends the    *)
(* program, and so does a CATCH without a word.  Exceptions implements     *)
(* this.                                                                   *)
(***************************************************************************)
EXTENDS Integers, Sequences

CONSTANT
  Depths      \* how deep a stack can be

VARIABLES
  data,       \* the depths of the data, return and float stacks
  return,
  float,
  frames,     \* the depths that each CATCH in progress found
  over        \* has the program ended?

catchingVars == <<data, return, float, frames, over>>

Innermost == frames[Len(frames)]

Outer == SubSeq(frames, 1, Len(frames) - 1)

CatchingInit ==
  /\ data = 0 /\ return = 0 /\ float = 0
  /\ frames = << >>
  /\ over = FALSE

\* The program works with its stacks.
Work ==
  /\ {data', return', float'} \subseteq Depths
  /\ UNCHANGED <<frames, over>>

\* CATCH takes the word to run from the data stack.
Enter ==
  /\ data' = data - 1
  /\ return' \in Depths /\ UNCHANGED float
  /\ frames' = Append(frames, [data |-> data - 1, return |-> return, float |-> float])
  /\ UNCHANGED over

\* The word is done; CATCH leaves 0 on what it left.
Leave ==
  /\ frames # << >>
  /\ data' = data + 1 /\ return' = Innermost.return /\ UNCHANGED float
  /\ frames' = Outer
  /\ UNCHANGED over

\* An exception brings the depths of the innermost CATCH back.
Raise ==
  /\ frames # << >>
  /\ data' = Innermost.data + 1
  /\ return' = Innermost.return
  /\ float' = Innermost.float
  /\ frames' = Outer
  /\ UNCHANGED over

\* A program ends, by an exception, only if there is no CATCH, if it takes from
\* an empty return stack, where the frames were, or in a CATCH that has begun
\* its frame and finds no word on the data stack.
End ==
  /\ frames = << >> \/ return = 0 \/ (data = 0 /\ return' > return)
  /\ over' = TRUE
  /\ {data', return', float'} \subseteq Depths
  /\ frames' = << >>

CatchingNext == Work \/ Enter \/ Leave \/ Raise \/ End

CatchingSpec == CatchingInit /\ [][CatchingNext]_catchingVars
=============================================================================
