---------------------------- MODULE MCExceptions ----------------------------
(***************************************************************************)
(* Two kinds of program on small stacks: one with room for a CATCH within  *)
(* a CATCH, and one that redirects its output.  Writes may fail.           *)
(***************************************************************************)
EXTENDS Exceptions

VARIABLE kind     \* the kind of the program

\* Nothing, ABORT and QUIT.
MCCodes == {0, -1, -56}

Nested == INSTANCE Exceptions WITH Redirects <- FALSE
Redirecting == INSTANCE Exceptions WITH FSize <- 0

MCInit == ExceptionsInit /\ kind \in {"nested", "redirecting"}

RunningAs(k, Action) == kind = k /\ Action /\ UNCHANGED kind

MCNext ==
  \/ RunningAs("nested", Nested!ExceptionsNext)
  \/ RunningAs("redirecting", Redirecting!ExceptionsNext)

MCSpec ==
  /\ MCInit /\ [][MCNext]_<<vars, kind>>
  /\ WF_vars(RunningAs("nested", Nested!Report \/ Nested!DoubleException))
  /\ WF_vars(RunningAs("redirecting", Redirecting!Report \/ Redirecting!DoubleException))
=============================================================================
