------------------------------- MODULE MCLexer ------------------------------
(***************************************************************************)
(* Files for TLC: all sequences of a few kinds of pieces in which words    *)
(* have blanks or newlines between them.                                   *)
(***************************************************************************)
EXTENDS Lexer

WellSpaced(f) ==
  \A i \in 1..(Len(f) - 1) : f[i] \in Spaces \/ f[i + 1] \in Spaces

FilesOf(pieces, n) ==
  {f \in UNION {[1..k -> pieces] : k \in 0..n} : WellSpaced(f)}

Text_files == FilesOf({"sp", "nl", "\\", "(", ")", "w"}, 7)

\* A CODE word with a name, behind which there may be anything.
Code_words ==
  {<<"CODE", "sp", "w">> \o f : f \in FilesOf({"sp", "nl", "\\", "(", ")", "END-CODE", "w"}, 5)}

Two_lines ==
  <<"CODE", "sp", "w", "sp", "(", "sp", ")", "nl", "nl", "w", "sp", "w", "nl", "nl", "w", "nl", "END-CODE", "nl", "w">>

Code_files == {Two_lines} \cup Code_words \cup FilesOf({"sp", "nl", "\\", "(", ")", "CODE", "END-CODE", "w"}, 4)

\* Files with errors in the first words, that end anywhere.
Whole == <<"[THEN]", "sp", "CODE", "sp", "w", "sp", "(", "sp", ")", "nl", "w", "nl", "END-CODE", "nl", "(", "sp", ")", "nl">>
Cut_files == {SubSeq(Whole, i, j) : i \in {1, 3}, j \in 3..Len(Whole)}

\* Files whose third error leaves the scanner behind the name of a CODE word.
Given_up == {<<"[THEN]", "sp", "[THEN]", "sp", "CODE", "sp", "w", "nl">>}

\* Declarations and conditions, with words and blanks before and behind.
Declaration == <<"CREATE", "sp", "w", "sp", "INT", "sp", "CELLS", "sp", "ALLOT">>
Short       == <<"CREATE", "sp", "w", "nl", "INT", "sp", "ALLOT">>
Condition   == <<"[IFDEF]", "sp", "x">>
Commented   == <<"[IFDEF]", "sp", "(", "sp", "w", "sp", ")", "sp", "x">>
Malformed   == <<"CREATE", "sp", "INT", "sp", "w">>

Fillers == FilesOf({"sp", "nl", "w", "[THEN]"}, 3)

Between(d) == {a \o <<"sp">> \o d \o b : a \in Fillers, b \in {<<>>, <<"nl">>, <<"sp", "w", "nl">>}}

Rule_files == UNION {Between(d) : d \in {Declaration, Short, Condition, Commented, Malformed}}
                \cup {Malformed \o <<"nl">> \o d : d \in {Declaration, Short, Condition \o <<"nl", "[THEN]">>}}
                \cup {Declaration \o <<"nl">> \o Short, Condition \o <<"nl">> \o Declaration \o <<"nl", "[THEN]">>}

MCPieces ==
  {"sp", "nl", "\\", "(", ")", "w", "x", "CODE", "END-CODE", "INT", "CREATE", "ALLOT", "CELLS",
   "[IFDEF]", "[THEN]"}

MCCommandLines ==
  {<<f>> : f \in Text_files \cup Code_files \cup Rule_files}
    \cup (Cut_files \X Cut_files) \cup (Given_up \X FilesOf({"sp", "nl", "(", ")", "w"}, 3))
=============================================================================
