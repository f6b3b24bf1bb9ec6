----------------------------- MODULE Exceptions -----------------------------
(***************************************************************************)
(* CATCH and THROW of runtime/except.ft, over the stacks of stack.ft,      *)
(* dstack.ft, rstack.ft and float.ft.                                      *)
(*                                                                         *)
(* Of the data and the float stack only the depth is modelled.  The return *)
(* stack has contents, since CATCH keeps its frames there; what lies above *)
(* its index stays in memory.  A word that pushes more than the user's     *)
(* part of a stack raises an exception in its middle, unless _stackeh is   *)
(* set: the words are sequences of the steps below, which stop at the one  *)
(* that fails.                                                             *)
(***************************************************************************)
EXTENDS Integers, Sequences, FiniteSets

CONSTANTS
  DSize,          \* the cells of the data stack that a program may use
  RSize,          \* the same of the return stack
  FSize,          \* the depth of the float stack
  Reserve,        \* the cells kept for exception handling
  Codes,          \* the exceptions that the program throws
  CatchRoom,      \* the program leaves so many data cells free at a CATCH
  Redirects,      \* does it use OUTFILE-EXECUTE?
  WritesFail      \* may a write to the standard error fail?

ASSUME ExceptionsAssumption ==
  /\ {DSize, RSize, FSize, Reserve, CatchRoom} \subseteq Nat /\ Reserve >= 3
  /\ Codes \subseteq Int
  /\ Redirects \in BOOLEAN /\ WritesFail \in BOOLEAN

VARIABLES
  m,        \* the machine: d, the depth of the data stack; r, the index of
            \*   the return stack, and rmem, its memory; f, the depth of the
            \*   float stack; handler, _(ehhandler), an index of the return
            \*   stack or 0; ehflag; stackeh; out, the output file
  host,     \* the words that run others, on the machine's own stack
  status,   \* "running", "reporting" an exception, "double", "aborted",
            \*   "quit", or "overrun" if a stack has left its memory
  redirect  \* history: the output file each word of host found

vars == <<m, host, status, redirect>>

StackOverflow        == -3
StackUnderflow       == -4
ReturnStackOverflow  == -5
ReturnStackUnderflow == -6
FloatStackOverflow   == -44
FloatStackUnderflow  == -45
Quit                 == -56

\* File ids; the program redirects its output to the last.
stdout == 1
stderr == 2
file   == 3

-----------------------------------------------------------------------------
\* The steps of words.  A machine s in which a step has failed has the code
\* in s.raised, and the steps that follow do nothing.

Running(s) == s.raised = 0

\* _starteh: the code goes on the data stack, past its limit.
_starteh(s, code) == [s EXCEPT !.stackeh = TRUE, !.d = @ + 1, !.raised = code]

\* k data cells are pushed and dropped again.
Peak(s, k) ==
  IF ~Running(s) \/ s.stackeh \/ s.d + k <= DSize THEN s
  ELSE _starteh([s EXCEPT !.d = IF @ < DSize THEN DSize ELSE @], StackOverflow)

\* A stack that is popped when empty raises, whatever _stackeh says.  The
\* code is pushed as any cell, so the data stack may overflow instead.
Underflow(s, code) ==
  IF Running(Peak(s, 1)) THEN [s EXCEPT !.d = @ + 1, !.raised = code] ELSE Peak(s, 1)

_dpush(s) ==
  IF Running(Peak(s, 1)) THEN [s EXCEPT !.d = @ + 1] ELSE Peak(s, 1)

_dpop(s) ==
  IF ~Running(s) THEN s
  ELSE IF s.d = 0 THEN Underflow(s, StackUnderflow) ELSE [s EXCEPT !.d = @ - 1]

_rpush(s, v) ==
  IF ~Running(s) THEN s
  ELSE IF s.r >= RSize /\ ~s.stackeh THEN _starteh(s, ReturnStackOverflow)
  ELSE [s EXCEPT !.r = @ + 1, !.rmem[s.r + 1] = v]

_rpop(s) ==
  IF ~Running(s) THEN s
  ELSE IF s.r = 0 THEN Underflow(s, ReturnStackUnderflow) ELSE [s EXCEPT !.r = @ - 1]

_fpush(s) ==
  IF ~Running(s) THEN s
  ELSE IF s.f >= FSize THEN Underflow(s, FloatStackOverflow) ELSE [s EXCEPT !.f = @ + 1]

_fpop(s) ==
  IF ~Running(s) THEN s
  ELSE IF s.f = 0 THEN Underflow(s, FloatStackUnderflow) ELSE [s EXCEPT !.f = @ - 1]

\* A cell that was pushed by a peak of k goes to the return stack.
Save(s, k, v) == _rpush(Peak(s, k), v)

\* R> and what follows on the data stack, k cells in all.
Restore(s, k) == Peak(_rpop(s), k)

-----------------------------------------------------------------------------
\* CATCH up to EXECUTE.  ctx stands for the x86 frame.
CatchEntry(s, ctx) ==
  LET s1 == Save(s, 2, s.d)                          \* sp@ >r
      s2 == Save(s1, 1, s1.f)                        \* _fp@ >r
      s3 == Save(s2, 1, s2.handler)                  \* _(ehhandler) @ >r
      s4 == Peak(Save(s3, 1, ctx), 2)                \* _(ehcontext) >r rp@
      s5 == IF Running(s4) THEN [s4 EXCEPT !.handler = s4.r] ELSE s4
  IN  _dpop(s5)

\* CATCH after EXECUTE.
CatchExit(s) ==
  LET s1 == Restore(s, 1)                            \* rdrop
      s2 == Restore(s1, 2)                           \* r> _(ehhandler) !
      s3 == IF Running(s2) THEN [s2 EXCEPT !.handler = s2.rmem[s2.r + 1]] ELSE s2
      s4 == Restore(Restore(s3, 1), 1)               \* 2rdrop
  IN  _dpush(s4)                                     \* 0

\* OUTFILE-EXECUTE up to EXECUTE, and after; 5 is the most that its words
\* push at a time.
RedirectEntry(s, id) ==
  LET s1 == _rpush(_rpush(Peak(s, 5), s.out), 0)     \* dup @ over 2>r
      s2 == _dpop(s1)                                \* !
      s3 == IF Running(s2) THEN [s2 EXCEPT !.out = id] ELSE s2
  IN  _dpop(s3)

RedirectExit(s) ==
  LET s1 == Peak(_rpop(_rpop(s)), 2)                 \* 2r> !
  IN  IF Running(s1) THEN [s1 EXCEPT !.out = s1.rmem[s1.r + 1]] ELSE s1

-----------------------------------------------------------------------------
\* THROW with a code that is not 0, which lies on the data stack.

\* The beginning of THROW may overflow the data stack itself, which throws
\* again, now with _stackeh set: dup, _(ehflag) @ and _setstackeh.
ThrowEntry(s) ==
  LET s1 == Peak([s EXCEPT !.raised = 0], 2)
  IN  [s1 EXCEPT !.raised = IF Running(s1) THEN s.raised ELSE s1.raised,
                 !.stackeh = TRUE]

\* Slip: the previous handler is not restored.
UnwoundSlip(s) ==
  LET h == s.handler IN
  [s EXCEPT !.r = h - 4, !.f = s.rmem[h - 2], !.d = s.rmem[h - 3] - 1 + 2]

\* Slip: the word that CATCH ran stays on the data stack.
UnwoundKeepsXt(s) ==
  LET h == s.handler IN
  [s EXCEPT !.r       = h - 4,
            !.handler = s.rmem[h - 1],
            !.f       = s.rmem[h - 2],
            !.d       = s.rmem[h - 3] + 2]

\* A CATCH that found no word on the data stack has set its handler, and
\* there is nothing that THROW could drop in the place of the word.
NoWord(s) == s.rmem[s.handler - 3] = 0

\* sp! drop then underflows, with the context and the code on the return stack
\* and _(ehflag) still set.
Undropped(s) ==
  LET h == s.handler IN
  [s EXCEPT !.r       = h - 2,
            !.handler = s.rmem[h - 1],
            !.f       = s.rmem[h - 2],
            !.d       = 1]

\* THROW from rp! on, with a handler: every stack as CATCH found it, then the
\* context and the code on the data stack.
Unwound(s) ==
  LET h == s.handler IN
  [s EXCEPT !.r       = h - 4,
            !.handler = s.rmem[h - 1],
            !.f       = s.rmem[h - 2],
            !.d       = s.rmem[h - 3] - 1 + 2]

\* The flags are cleared one after the other: _stackeh first, and then
\* _ehflag by words that check for overflow again.
FlagsCleared(s) ==
  LET s1 == Peak([s EXCEPT !.stackeh = FALSE, !.raised = 0], 2)
  IN  IF Running(s1) THEN [s1 EXCEPT !.ehflag = FALSE] ELSE s1

\* The machine between two words.
Settled(s) == [s EXCEPT !.raised = 0]

\* What a THROW does to a machine with a code raised.
Thrown(s0) ==
  LET s  == ThrowEntry(s0)
      t  == [s EXCEPT !.ehflag = TRUE,
                      !.handler = IF s.raised = ReturnStackUnderflow THEN 0 ELSE @]
      u  == FlagsCleared(Unwound(t))
      to == t.rmem[t.handler]
  IN  IF s.ehflag
      THEN /\ status' = "double"
           /\ m' = Settled(s)
           /\ UNCHANGED <<host, redirect>>
      ELSE IF t.handler = 0
      THEN /\ status' = IF t.raised = Quit THEN "quit" ELSE "reporting"
           /\ m' = Settled([t EXCEPT !.out = IF t.raised = Quit THEN @ ELSE stderr])
           /\ UNCHANGED <<host, redirect>>
      ELSE IF NoWord(t)
      THEN /\ status' = "double"
           /\ m' = Settled(Undropped(t))
           /\ UNCHANGED <<host, redirect>>
      ELSE IF Running(u)
      THEN /\ m' = _dpop(u)                          \* _(ehrestore)
           /\ host' = SubSeq(host, 1, to - 1)
           /\ redirect' = SubSeq(redirect, 1, to - 1)
           /\ UNCHANGED status
      ELSE /\ status' = "double"
           /\ m' = Settled(u)
           /\ UNCHANGED <<host, redirect>>

\* A word leaves machine s, or throws from it.
Completed(s) ==
  IF Running(s)
  THEN m' = s /\ UNCHANGED <<host, status, redirect>>
  ELSE Thrown(s)

-----------------------------------------------------------------------------
\* The program.

ExceptionsInit ==
  /\ m = [d |-> 0, r |-> 0, rmem |-> [i \in 1 .. RSize + Reserve |-> 0], f |-> 0,
          handler |-> 0, ehflag |-> FALSE, stackeh |-> FALSE, out |-> stdout,
          raised |-> 0]
  /\ host = << >>
  /\ redirect = << >>
  /\ status = "running"

Push == status = "running" /\ Completed(_dpush(m))

Pop == status = "running" /\ Completed(_dpop(m))

\* The index of the return stack when the innermost word of host began.
Base == IF host = << >> THEN 0 ELSE host[Len(host)].base

\* >r and r>.  A program may take what lies below its own cells, but then
\* not write over it.
ToR == status = "running" /\ m.r >= Base /\ Completed(_rpush(_dpop(m), 0))

RFrom == status = "running" /\ Completed(_dpush(_rpop(m)))

ToF == status = "running" /\ Completed(_fpush(_dpop(m)))

FFrom == status = "running" /\ Completed(_dpush(_fpop(m)))

\* A word runs, and will return to the CATCH or OUTFILE-EXECUTE that left s.
Entered(s, kind) ==
  IF Running(s)
  THEN /\ m' = s
       /\ host' = Append(host, [kind |-> kind, base |-> s.r])
       /\ redirect' = Append(redirect, m.out)
       /\ UNCHANGED status
  ELSE Thrown(s)

Catch ==
  /\ status = "running"
  /\ m.d + CatchRoom <= DSize
  /\ m.r >= Base
  /\ Entered(CatchEntry(m, Len(host) + 1), "catch")

OutfileExecute ==
  /\ Redirects
  /\ status = "running"
  /\ m.r >= Base
  /\ Entered(RedirectEntry(m, file), "redirect")

\* The word returns; it has taken its own cells from the return stack.
Return ==
  /\ status = "running"
  /\ host # << >> /\ m.r = Base
  /\ LET kind == host[Len(host)].kind
         s    == IF kind = "catch" THEN CatchExit(m) ELSE RedirectExit(m)
     IN  IF Running(s)
         THEN /\ m' = s
              /\ host' = SubSeq(host, 1, Len(host) - 1)
              /\ redirect' = SubSeq(redirect, 1, Len(host) - 1)
              /\ UNCHANGED status
         ELSE Thrown(s)

\* 0 THROW does nothing.
Throw ==
  \E code \in Codes :
    LET s == _dpush(m) IN
    /\ status = "running"
    /\ IF code = 0 THEN Completed(_dpop(Peak(s, 2)))
       ELSE Thrown(IF Running(s) THEN [s EXCEPT !.raised = code] ELSE s)

-----------------------------------------------------------------------------
\* The end of a program by an exception.

\* Slip: the message is written, and nothing ends the program.
ReportSlip ==
  /\ status = "reporting"
  /\ status' = "reporting"
  /\ UNCHANGED <<m, host, redirect>>

\* The message of an uncaught exception, and _abort.  A write that fails
\* throws from EMIT, which leaves its character and the code.
Report ==
  /\ status = "reporting"
  /\ \/ status' = "aborted" /\ UNCHANGED m
     \/ WritesFail /\ status' = "double" /\ m' = [m EXCEPT !.d = @ + 2]
  /\ UNCHANGED <<host, redirect>>

\* THROW with _ehflag set writes its message before anything else.
DoubleException ==
  /\ status = "double"
  /\ \/ status' = "aborted" /\ UNCHANGED m
     \/ /\ WritesFail
        /\ status' = IF m.d + 2 > DSize + Reserve THEN "overrun" ELSE "double"
        /\ m' = [m EXCEPT !.d = @ + 2]
  /\ UNCHANGED <<host, redirect>>

Over ==
  /\ status \in {"aborted", "quit", "overrun"}
  /\ UNCHANGED vars

ExceptionsNext ==
  \/ Push \/ Pop \/ ToR \/ RFrom \/ ToF \/ FFrom
  \/ Catch \/ OutfileExecute \/ Return \/ Throw
  \/ Report \/ DoubleException \/ Over

ExceptionsSpec == ExceptionsInit /\ [][ExceptionsNext]_vars

-----------------------------------------------------------------------------
\* Properties

TypeOK ==
  /\ m \in [d : 0 .. DSize + Reserve + 2, r : 0 .. RSize + Reserve,
            rmem : [1 .. RSize + Reserve -> Nat],
            f : 0 .. FSize, handler : 0 .. RSize, ehflag : BOOLEAN,
            stackeh : BOOLEAN, out : {stdout, stderr, file}, raised : {0}]
  /\ Len(redirect) = Len(host)
  /\ \A i \in 1 .. Len(host) :
       host[i] \in [kind : {"catch", "redirect"}, base : 0 .. RSize]
  /\ status \in {"running", "reporting", "double", "aborted", "quit", "overrun"}

\* The frames on the return stack, outermost first, by the chain of handlers:
\* a frame has four cells, and the handler in it is below them.
Frames ==
  LET chain[h \in 0 .. RSize] ==
        IF h < 4 \/ m.rmem[h - 1] >= h THEN << >>
        ELSE Append(chain[m.rmem[h - 1]],
                    [data |-> m.rmem[h - 3] - 1, return |-> h - 4, float |-> m.rmem[h - 2]])
  IN  chain[m.handler]

\* While the program runs no flag of an earlier exception is left: a stack
\* that overflows is noticed, and the next exception is not a second one.
FlagsDown ==
  status = "running" =>
    /\ ~m.ehflag /\ ~m.stackeh
    /\ m.d <= DSize /\ m.r <= RSize

\* The chain of handlers on the return stack and the calls of CATCH on the
\* machine's stack are in step, each with as many members and both from the
\* outermost to the innermost: a THROW returns to the CATCH whose depths it
\* restores.
FramesFollowHost ==
  LET catches == {i \in DOMAIN host : host[i].kind = "catch"}
  IN  status = "running" =>
        /\ {Frames[j].return : j \in DOMAIN Frames} = {host[i].base - 4 : i \in catches}
        /\ \A j, k \in DOMAIN Frames : j < k => Frames[j].return < Frames[k].return
        /\ \A i, k \in catches : i < k => host[i].base < host[k].base
        /\ \A i \in catches : m.rmem[host[i].base] = i

\* The chain of handlers is in step with the calls of CATCH, and no flag of an
\* earlier exception is left up while the program runs (except.ft: catch,
\* throw).
HandlersSettled == FramesFollowHost /\ FlagsDown

\* The calls of CATCH that a THROW may still return to.
InProgress == IF status = "running" THEN Frames ELSE << >>

\* Whatever a program does to its stacks, CATCH and THROW do as promised.
AbstractCatching ==
  INSTANCE Catching WITH
    Depths <- 0 .. DSize + RSize + FSize + Reserve + 2,
    data   <- m.d, return <- m.r, float <- m.f,
    frames <- InProgress, over <- status # "running"

ImplementsCatching == AbstractCatching!CatchingSpec

\* An exception that nobody catches ends the program: in _abort, as long as
\* the message can be written, and after as many failures as there is room for
\* otherwise.
UncaughtEnds == status \in {"reporting", "double"} ~> status \in {"aborted", "overrun"}

\* The message of THROW says "Internal error: double exception".  A running
\* program comes to that only in a CATCH with nothing on the data stack, if it
\* leaves three cells of it free at a CATCH; with two it does elsewhere.
DoubleForNoWord ==
  [][status = "running" /\ status' = "double" => Catch /\ m.d = 0]_vars

\* The message goes on "abort forced": a double exception ends in _abort and
\* no stack leaves its memory.  One does, if writes go on failing.
AbortForced == status # "overrun"

\* "Execute xt with output to file-id": the output goes to a file only while
\* the word runs that was given to OUTFILE-EXECUTE.  It stays, if the word
\* throws.
OutputFollowsHost ==
  status = "running" =>
    m.out = IF host = << >> THEN stdout
            ELSE IF host[Len(host)].kind = "redirect" THEN file
            ELSE redirect[Len(redirect)]
=============================================================================
