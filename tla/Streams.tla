------------------------------- MODULE Streams -------------------------------
(***************************************************************************)
(* Input and output of a program: KEY, ACCEPT and TYPE (coreio.ft, io.ft), *)
(* and the system calls they make (syscall.ft).  The host, which is the    *)
(* kernel, gives a call its result: characters read or written, no more of *)
(* them, or the negative of an error number.                               *)
(***************************************************************************)
EXTENDS Integers, Sequences

CONSTANTS
  Inputs,      \* what may come from the input file: sequences of characters
  Newline,     \* the character that ends a line
  Lengths,     \* the sizes of buffers that a program gives to ACCEPT
  Texts,       \* what a program TYPEs
  Errors,      \* error numbers of the host
  ShortWrites, \* whether the host may write a part of what it is given
  MaxCalls     \* calls of ACCEPT and TYPE

StreamsAssumption ==
  /\ Lengths \subseteq Nat /\ Errors \subseteq 1 .. 125
  /\ ShortWrites \in BOOLEAN /\ MaxCalls \in Nat

VARIABLES
  input,    \* what has not been read
  output,   \* what the host has written
  running,  \* the word at work, "none" between words
  buffer,   \* what ACCEPT has stored
  size,     \* the characters it may store
  errno,    \* ERRNO
  status,   \* what the last system call left on the stack
  whole,    \* history: the input at the start
  answer,   \* history: what the host answered last
  accepted, \* history: the calls of ACCEPT, what each stored and how it ended
  typed,    \* history: what TYPE wrote, as it told
  short     \* history: the host once wrote a part only of what it was given

vars == <<input, output, running, buffer, size, errno, status,
          whole, answer, accepted, typed, short>>

\* ERRNO holds no error at first.
StreamsInit ==
  /\ whole \in Inputs /\ input = whole /\ output = <<>>
  /\ running = "none" /\ buffer = <<>> /\ size = 0
  /\ errno = 0 /\ status = 0 /\ answer = 0
  /\ accepted = <<>> /\ typed = <<>> /\ short = FALSE

\* -125 -1 within : -1 itself is not.
IsError(r) == r \in -125 .. -2

\* _post_syscall
PostSyscall(r) ==
  /\ answer' = r
  /\ errno' = IF IsError(r) THEN -r ELSE errno
  /\ status' = IF IsError(r) THEN -1 ELSE r

\* _(iosys) throws -57 when the call leaves one of these.
Throws(left) == left \in {-1, 0}

Failures == {-e : e \in Errors}

Calls == Len(accepted) + Len(typed)

Finish(how) ==
  /\ running' = "none"
  /\ accepted' = Append(accepted, [stored |-> buffer, size |-> size, how |-> how])

AcceptCall == \E n \in Lengths :
  /\ running = "none" /\ Calls < MaxCalls
  /\ running' = "accept" /\ size' = n /\ buffer' = <<>>
  /\ UNCHANGED <<input, output, errno, status, whole, answer, accepted, typed, short>>

FullSlip ==
  /\ running = "accept" /\ Len(buffer) = size
  /\ input' = IF input = <<>> THEN input ELSE Tail(input)
  /\ Finish("full")
  /\ UNCHANGED <<output, buffer, size, errno, status, whole, answer, typed, short>>

\* The loop of ACCEPT is over.
Full ==
  /\ running = "accept" /\ Len(buffer) = size
  /\ Finish("full")
  /\ UNCHANGED <<input, output, buffer, size, errno, status, whole, answer, typed, short>>

\* KEY: the host reads a character, which ACCEPT stores unless it ends the
\* line.
Key ==
  /\ running = "accept" /\ Len(buffer) < size /\ input # <<>>
  /\ input' = Tail(input)
  /\ PostSyscall(1)
  /\ IF Head(input) = Newline
     THEN Finish("line") /\ UNCHANGED buffer
     ELSE buffer' = Append(buffer, Head(input)) /\ UNCHANGED <<running, accepted>>
  /\ UNCHANGED <<output, size, whole, typed, short>>

\* The host has no more characters, or an error.
KeyFails == \E r \in Failures \cup (IF input = <<>> THEN {0} ELSE {}) :
  /\ running = "accept" /\ Len(buffer) < size
  /\ PostSyscall(r)
  /\ Throws(status')
  /\ Finish("throw")
  /\ UNCHANGED <<input, output, buffer, size, whole, typed, short>>

\* What a call to write t may answer.
Answers(t) ==
  (IF ShortWrites THEN 1 .. Len(t) ELSE {Len(t)}) \cup {0} \cup Failures

\* TYPE is one call of the host, and of nothing if there is nothing to type.
\* Whoever calls it goes on with the next word, or catches what it throws.
Type == \E t \in Texts :
  /\ running = "none" /\ Calls < MaxCalls
  /\ IF t = <<>>
     THEN typed' = Append(typed, t) /\ UNCHANGED <<output, errno, status, answer, short>>
     ELSE \E r \in Answers(t) :
            /\ output' = IF r > 0 THEN output \o SubSeq(t, 1, r) ELSE output
            /\ PostSyscall(r)
            /\ short' = (short \/ r \in 1 .. Len(t) - 1)
            /\ typed' = IF Throws(status') THEN typed ELSE Append(typed, t)
  /\ UNCHANGED <<input, running, buffer, size, whole, accepted>>

\* Each word of syscalls.ft makes its call so, and leaves the result to the
\* program.
Syscall == \E r \in {0, 3} \cup Failures :
  /\ running = "none"
  /\ PostSyscall(r)
  /\ UNCHANGED <<input, output, running, buffer, size, whole, accepted, typed, short>>

StreamsNext ==
  \/ AcceptCall \/ Full \/ Key \/ KeyFails \/ Type \/ Syscall

StreamsSpec == StreamsInit /\ [][StreamsNext]_vars

(***************************************************************************)
(* Properties                                                              *)
(***************************************************************************)

RECURSIVE Joined(_)
Joined(texts) == IF texts = <<>> THEN <<>> ELSE Head(texts) \o Joined(Tail(texts))

\* The variables hold what the words of coreio.ft and syscall.ft put there;
\* ERRNO is never negative.
TypeOK ==
  /\ running \in {"none", "accept"}
  /\ errno \in 0 .. 125 /\ status \in -1 .. 125
  /\ Len(buffer) <= size

\* What ACCEPT takes from a line it stores, and what it leaves the next
\* ACCEPT finds: no character is lost between one call and the next, whether
\* a line is longer than a buffer, as long, or shorter, and when a call
\* throws (io.ft, accept).
InputKept ==
  LET Taken(k) == accepted[k].stored
                    \o (IF accepted[k].how = "line" THEN <<Newline>> ELSE <<>>)
  IN Joined([k \in DOMAIN accepted |-> Taken(k)])
       \o (IF running = "accept" THEN buffer ELSE <<>>) \o input = whole

\* ACCEPT stores a line without its end, or as much of it as fits; it stores
\* less only at the end of a line or when it throws (io.ft, accept: "Read in
\* up to n characters to a").
LinesAccepted == \A k \in DOMAIN accepted :
  LET call == accepted[k]
  IN /\ Len(call.stored) <= call.size
     /\ call.how = "full" <=> Len(call.stored) = call.size
     /\ \A c \in DOMAIN call.stored : call.stored[c] # Newline

\* The output is the beginnings of the texts, one after the other.
RECURSIVE Begun(_, _)
Begun(out, texts) ==
  IF texts = <<>> THEN out = <<>>
  ELSE LET t == Head(texts)
       IN \E n \in (IF t = <<>> THEN 0 ELSE 1) .. Len(t) :
            /\ n <= Len(out) /\ SubSeq(out, 1, n) = SubSeq(t, 1, n)
            /\ Begun(SubSeq(out, n + 1, Len(out)), Tail(texts))

\* What TYPE did not throw for is in the output, in order, and nothing else
\* is, whole as long as the host takes what it is given (coreio.ft, type:
\* "Print string of length u at a to outfile-id").  When the host once took
\* less, TYPE did not try again: of each text there is only a beginning.
TypedWhole ==
  /\ ~short => output = Joined(typed)
  /\ Begun(output, typed)

\* A failed call leaves -1 and its error number in ERRNO (syscall.ft: "If
\* not, set ERRNO to -result, and return -1"), except for the error 1, which
\* "-125 -1 within" does not cover: it is left as the -1 that it is.
ErrnoTells == answer < 0 => status = -1 /\ (answer # -1 => errno = -answer)
=============================================================================
