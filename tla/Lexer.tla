------------------------------- MODULE Lexer --------------------------------
(***************************************************************************)
(* The scanner that flex makes of forth.l, its buffer, and the rules of    *)
(* forth.y that use the text of a token after the next one was read.       *)
(*                                                                         *)
(* A file is a sequence of pieces, blanks, newlines and words, each as one *)
(* character in the buffer.  What a token hands over is an address in the  *)
(* buffer; the string there ends behind the latest token.  The rules of    *)
(* forth.y that are not here are taken to find no errors.                  *)
(***************************************************************************)
EXTENDS Integers, Sequences, FiniteSets

CONSTANTS
  Pieces,         \* the blanks, the ends of lines and the words of files
  CommandLines,   \* the sequences of files that one process may compile
  YY_BUF_SIZE,    \* the size of the buffer
  YY_READ_BUF_SIZE, \* the most that is read at a time
  MAX_ALLOWED_ERRORS,
  Definitions     \* the names given with -D

ASSUME LexerAssumption ==
  /\ {YY_BUF_SIZE, YY_READ_BUF_SIZE, MAX_ALLOWED_ERRORS} \subseteq Nat \ {0}
  /\ YY_READ_BUF_SIZE < YY_BUF_SIZE
  /\ CommandLines \subseteq Seq(Seq(Pieces)) \ {<<>>} /\ "NUL" \notin Pieces

VARIABLES
  files,     \* the files of the command line
  number,    \* the number of the one that is read
  dropped,   \* history: was the file before this one given up in the middle?
  taken,     \* so much of it has been read
  buf,       \* the buffer, yy_ch_buf
  yy_n_chars,   \* so much of it is full
  yy_c_buf_p,   \* the address behind the latest token
  eof,       \* has a read returned nothing?
  sc,        \* the start condition
  line,      \* line_number_ of the parser
  errors,    \* error_count_
  yyvs,      \* the tokens of a rule begun, with their values
  recovering,   \* is the parser looking for a word after a syntax error?
  conds,     \* cond_stack_
  status,    \* "lexing", "parsed", "gave up", or "overflow" of the buffer
  tokens,    \* history: the tokens of this file
  uses       \* history: the rules of more than one token that were reduced

input   == <<files, number, dropped, taken, buf, yy_n_chars, eof>>
scanner == <<yy_c_buf_p, sc>>
parser  == <<line, errors, yyvs, recovering, conds>>
vars    == <<input, scanner, parser, status, tokens, uses>>

\* The file that is read, and how much of it has been matched.
file == files[number]
Pos  == (taken - yy_n_chars) + yy_c_buf_p

NUL      == "NUL"
Blank    == "sp"
Newline  == "nl"
Spaces   == {Blank, Newline}

\* Keywords in capitals; other words are names.
Token(piece) ==
  CASE piece = "INT" -> "INTEGER_LITERAL"
    [] piece \in {"CODE", "CREATE", "ALLOT", "[IFDEF]", "[THEN]"} -> piece
    [] OTHER -> "WORD"

\* Words of more than one character.
Long == {"INT", "CODE", "END-CODE", "CREATE", "ALLOT", "[IFDEF]", "[THEN]"}

\* yyrestart, which leaves the start condition alone.
yyrestart ==
  /\ taken' = 0 /\ yy_n_chars' = 0 /\ yy_c_buf_p' = 0
  /\ buf' = [buf EXCEPT ![0] = NUL, ![1] = NUL]
  /\ eof' = FALSE

LexerInit ==
  /\ files \in CommandLines /\ number = 1 /\ dropped = FALSE
  /\ taken = 0 /\ yy_n_chars = 0 /\ yy_c_buf_p = 0 /\ eof = FALSE
  /\ buf = [i \in 0..(YY_BUF_SIZE + 1) |-> NUL]
  /\ sc = "INITIAL"
  /\ line = 1 /\ errors = 0 /\ yyvs = <<>> /\ recovering = FALSE /\ conds = <<>>
  /\ status = "lexing"
  /\ tokens = <<>> /\ uses = <<>>

-----------------------------------------------------------------------------
\* Matching.

\* What is in the buffer from the end of the latest token on.
ahead == [i \in 1..(yy_n_chars - yy_c_buf_p) |-> buf[yy_c_buf_p + i - 1]]

\* The place of the first x in t, or 0.
First(t, x) ==
  IF \E i \in DOMAIN t : t[i] = x
  THEN CHOOSE i \in DOMAIN t : t[i] = x /\ \A j \in 1..(i - 1) : t[j] # x
  ELSE 0

Blanks(t) == IF \E i \in DOMAIN t : t[i] # Blank
             THEN (CHOOSE i \in DOMAIN t : t[i] # Blank /\ \A j \in 1..(i - 1) : t[j] = Blank) - 1
             ELSE Len(t)

Parenthesis(t) == Len(t) > 1 /\ t[1] = "(" /\ t[2] = Blank

\* Does the scanner have to know what follows t?
AtEnd(t) ==
  IF t = <<>> THEN TRUE
  ELSE CASE sc = "comment" -> FALSE
         [] sc = "code3" -> t[1] # Newline /\ First(t, Newline) = 0
         [] OTHER ->
              \/ Blanks(t) = Len(t)
              \/ /\ Len(t) = 1 /\ t[1] # Newline
                 /\ sc = "code2" => t[1] \in {"\\", "("}
              \/ /\ sc \in {"INITIAL", "code2"}
                 /\ Len(t) > 1 /\ t[1] = "\\" /\ t[2] = Blank /\ First(t, Newline) = 0
              \/ sc = "code2" /\ Parenthesis(t) /\ First(t, ")") = 0

\* Slip: the end of the line does not do for the blank.
LineCommentSlip(t) ==
  Len(t) > 1 /\ t[1] = "\\" /\ t[2] = Blank /\ First(t, Newline) # 0

\* A backslash, a blank and the rest of the line with its end.
LineComment(t) ==
  Len(t) > 1 /\ t[1] = "\\" /\ t[2] \in Spaces /\ First(t, Newline) # 0

\* A comment between the name of a CODE word and the end of the line.
CodeComment(t) == Parenthesis(t) /\ First(t, ")") # 0

\* At its end the buffer is filled, or what is left is moved to the front.
Matching == status = "lexing" /\ (IF AtEnd(ahead) THEN eof /\ yy_c_buf_p = 0 ELSE TRUE)

\* k characters are matched, and no token is returned.
Skip(k, condition, lines) ==
  /\ yy_c_buf_p' = yy_c_buf_p + k
  /\ sc' = condition
  /\ line' = line + lines
  /\ UNCHANGED <<input, errors, yyvs, recovering, conds, status, tokens, uses>>

Smaller(a, b) == IF a < b THEN a ELSE b

\* The characters of the token begun are moved to the front, and k follow
\* them; what lies behind stays.
Moved(k) ==
  [i \in DOMAIN buf |->
     IF i < yy_n_chars - yy_c_buf_p THEN buf[yy_c_buf_p + i]
     ELSE IF i < yy_n_chars - yy_c_buf_p + k THEN file[taken + 1 + i - (yy_n_chars - yy_c_buf_p)]
     ELSE IF i < yy_n_chars - yy_c_buf_p + k + 2 THEN NUL
     ELSE buf[i]]

\* Slip: the scanner asks for more for ever.
yy_get_next_bufferSlip ==
  /\ status = "lexing" /\ AtEnd(ahead)
  /\ LET k == Smaller(YY_BUF_SIZE - (yy_n_chars - yy_c_buf_p) - 1, Len(file) - taken)
     IN  /\ buf' = Moved(k)
         /\ taken' = taken + k
         /\ yy_n_chars' = yy_n_chars - yy_c_buf_p + k
         /\ yy_c_buf_p' = 0
  /\ UNCHANGED <<files, number, dropped, eof, sc, status, parser, tokens, uses>>

yy_get_next_buffer ==
  /\ status = "lexing" /\ AtEnd(ahead) /\ (IF eof THEN yy_c_buf_p # 0 ELSE TRUE)
  /\ LET room == YY_BUF_SIZE - (yy_n_chars - yy_c_buf_p) - 1
         k    == Smaller(Smaller(room, YY_READ_BUF_SIZE), Len(file) - taken)
     IN  IF room <= 0 /\ ~eof
         THEN /\ status' = "overflow"
              /\ UNCHANGED <<input, scanner>>
         ELSE /\ buf' = Moved(k)
              /\ taken' = taken + k
              /\ yy_n_chars' = yy_n_chars - yy_c_buf_p + k
              /\ yy_c_buf_p' = 0
              /\ eof' = (k = 0)
              /\ UNCHANGED <<files, number, dropped, sc, status>>
  /\ UNCHANGED <<parser, tokens, uses>>

-----------------------------------------------------------------------------
\* The parser: the rules whose actions look at more than the last token.

\* What a C string at an address of the buffer says, up to the end of the
\* latest token or of the text.
Text(q, end) ==
  LET nul == CHOOSE i \in q..(YY_BUF_SIZE + 2) :
               /\ i = YY_BUF_SIZE + 2 \/ i = end \/ buf[i] = NUL
               /\ \A j \in q..(i - 1) : j # end /\ j < YY_BUF_SIZE + 2 /\ buf[j] # NUL
  IN  [i \in 1..(nul - q) |-> buf[q + i - 1]]

\* The k-th word of a string, if there is one, as a stream reads it.
Word(t, k) ==
  LET words  == {i \in DOMAIN t : t[i] \notin Spaces}
      nth(i) == Cardinality({j \in words : j <= i})
  IN  IF \E i \in words : nth(i) = k THEN t[CHOOSE i \in words : nth(i) = k] ELSE ""

\* strtol, which does not pass blanks to another word here.
Number(t) == IF t # <<>> /\ t[1] = "INT" THEN "INT" ELSE "0"

Active == \A i \in DOMAIN conds : conds[i]

\* A rule begun that may go on with a token.
Continues(rule, token) ==
  \/ rule = <<>> /\ token \in {"CREATE", "[IFDEF]", "CODE"}
  \/ rule = <<"CREATE">> /\ token = "WORD"
  \/ rule = <<"CREATE", "WORD">> /\ token = "INTEGER_LITERAL"
  \/ rule = <<"CREATE", "WORD", "INTEGER_LITERAL">> /\ token = "WORD"

Completes(rule, token) ==
  \/ rule = <<>> /\ token \notin {"CREATE", "[IFDEF]", "CODE"}
  \/ rule = <<"[IFDEF]">> /\ token = "WORD"
  \/ rule = <<"CODE">> /\ token = "WORD"
  \/ rule \in {<<"CREATE", "WORD", "INTEGER_LITERAL">>, <<"CREATE", "WORD", "INTEGER_LITERAL", "WORD">>}
       /\ token = "ALLOT"

Symbols(rule) == [i \in DOMAIN rule |-> rule[i].token]

\* Slip: the string of [IFDEF] begins with its name.
HandledSlip(rule, end) ==
  LET text(i) == Text(rule[i].addr, end) IN
  CASE rule[1].token = "CREATE" ->
         [rule |-> rule,
          read |-> <<Word(text(2), 1), Number(text(3)),
                     IF Len(rule) = 5 THEN Word(text(4), 1) ELSE "CHARS">>]
    [] rule[1].token = "[IFDEF]" -> [rule |-> rule, read |-> <<Word(text(1), 1)>>]

\* What the handler of a rule that is complete reads in the buffer.
Handled(rule, end) ==
  LET text(i) == Text(rule[i].addr, end) IN
  CASE rule[1].token = "CREATE" ->
         [rule |-> rule,
          read |-> <<Word(text(2), 1), Number(text(3)),
                     IF Len(rule) = 5 THEN Word(text(4), 1) ELSE "CHARS">>]
    [] rule[1].token = "[IFDEF]" -> [rule |-> rule, read |-> <<Word(text(1), 2)>>]

\* f_definedarray refuses a size of 0, and a unit it does not know.
Wrong(use) ==
  \/ use.read[2] = "0"
  \/ use.read[3] \notin {"CHARS", "CELLS"}

\* What the scanner hands over: the place in the buffer, and history.
yylval(token, k) ==
  [token |-> token, addr |-> yy_c_buf_p, pos |-> Pos + 1, last |-> Pos + k, line |-> line]

\* The scanner returns a token of k characters.
Return(token, k, condition) ==
  LET end   == yy_c_buf_p + k
      value == yylval(token, k)
      rule  == Append(yyvs, value)
      use   == Handled(rule, end)
  IN  /\ yy_c_buf_p' = end
      /\ sc' = condition
      /\ tokens' = Append(tokens, value)
      /\ UNCHANGED <<input, line>>
      /\ IF recovering /\ token # "WORD"
         THEN UNCHANGED <<errors, yyvs, recovering, conds, status, uses>>
         ELSE IF Continues(Symbols(yyvs), token) /\ ~recovering
         THEN /\ yyvs' = rule
              /\ UNCHANGED <<errors, recovering, conds, status, uses>>
         ELSE IF (Completes(Symbols(yyvs), token) \/ recovering) /\ errors >= MAX_ALLOWED_ERRORS
         THEN /\ status' = "gave up"
              /\ errors' = errors + 1
              /\ UNCHANGED <<yyvs, recovering, conds, uses>>
         ELSE IF Completes(Symbols(yyvs), token) /\ ~recovering
         THEN /\ yyvs' = <<>>
              /\ uses' = IF Len(rule) > 1 /\ rule[1].token # "CODE" /\ (Active \/ rule[1].token = "[IFDEF]")
                         THEN Append(uses, use) ELSE uses
              /\ conds' = IF rule[1].token = "[IFDEF]" THEN Append(conds, use.read[1] \in Definitions)
                          ELSE IF token = "[THEN]" /\ conds # <<>> THEN SubSeq(conds, 1, Len(conds) - 1)
                          ELSE conds
              /\ errors' = IF \/ token = "[THEN]" /\ conds = <<>>
                              \/ rule[1].token = "CREATE" /\ Active /\ Wrong(use)
                           THEN errors + 1 ELSE errors
              /\ UNCHANGED <<recovering, status>>
         ELSE /\ yyvs' = <<>>
              /\ recovering' = (token # "WORD")
              /\ LET counted == errors + (IF recovering THEN 0 ELSE 1)
                     givesUp == token = "WORD" /\ counted >= MAX_ALLOWED_ERRORS
                 IN  /\ status' = IF givesUp THEN "gave up" ELSE status
                     /\ errors' = counted + (IF givesUp THEN 1 ELSE 0)
              /\ UNCHANGED <<conds, uses>>

-----------------------------------------------------------------------------
\* The rules of forth.l, by start condition; t is what lies ahead.

Initial(t) ==
  /\ sc \in {"INITIAL", "rest"}
  /\ \/ t[1] = Newline /\ Skip(1, "INITIAL", 1)
     \/ t[1] = Blank /\ Skip(Blanks(t), "INITIAL", 0)
     \/ LineComment(t) /\ Skip(First(t, Newline), "INITIAL", 1)
     \/ Parenthesis(t) /\ Skip(2, "comment", 0)
     \/ /\ t[1] \notin Spaces /\ ~LineComment(t) /\ ~Parenthesis(t)
        /\ IF sc = "rest" THEN Return("WORD", 1, "INITIAL")
           ELSE Return(Token(t[1]), 1, IF t[1] = "CODE" THEN "code1" ELSE "INITIAL")

Comment(t) ==
  /\ sc = "comment"
  /\ Skip(1, IF t[1] = ")" THEN "INITIAL" ELSE "comment", IF t[1] = Newline THEN 1 ELSE 0)

\* The name of a CODE word; a newline goes to the standard output.
Code1(t) ==
  /\ sc = "code1"
  /\ \/ t[1] = Newline /\ Skip(1, "code1", 1)
     \/ t[1] = Blank /\ Skip(Blanks(t), "code1", 0)
     \/ t[1] \notin Spaces /\ Return("WORD", 1, "code2")

\* parse_error, after which the words of the line are Forth again.
Unexpected(t) ==
  /\ errors' = errors + 1
  /\ sc' = IF t[1] \in Long THEN "rest" ELSE "INITIAL"
  /\ yy_c_buf_p' = yy_c_buf_p + IF t[1] \in Long THEN 0 ELSE 1
  /\ UNCHANGED <<input, line, yyvs, recovering, conds, status, tokens, uses>>

\* Slip: the rest of the line is skipped, whatever it is.
Code2Slip(t) ==
  /\ sc = "code2"
  /\ \/ t[1] = Newline /\ Skip(1, "code3", 1)
     \/ t[1] = Blank /\ Skip(Blanks(t), "code2", 0)
     \/ LineComment(t) /\ Skip(First(t, Newline), "code3", 1)
     \/ CodeComment(t) /\ Skip(First(t, ")"), "code2", 0)
     \/ t[1] \notin Spaces /\ ~LineComment(t) /\ ~CodeComment(t) /\ Skip(1, "code2", 0)

\* The rest of its line.
Code2(t) ==
  /\ sc = "code2"
  /\ \/ t[1] = Newline /\ Skip(1, "code3", 1)
     \/ t[1] = Blank /\ Skip(Blanks(t), "code2", 0)
     \/ LineComment(t) /\ Skip(First(t, Newline), "code3", 1)
     \/ CodeComment(t) /\ Skip(First(t, ")"), "code2", 0)
     \/ t[1] \notin Spaces /\ ~LineComment(t) /\ ~CodeComment(t) /\ Unexpected(t)

\* Its lines.  The longest match wins: END-CODE is that only by itself.
Code3(t) ==
  /\ sc = "code3"
  /\ \/ t[1] = Newline /\ Skip(1, "code3", 1)
     \/ /\ t[1] # Newline
        /\ LET k == IF First(t, Newline) = 0 THEN Len(t) ELSE First(t, Newline) - 1
           IN  IF k = 1 /\ t[1] = "END-CODE" THEN Return("END_CODE", k, "INITIAL")
               ELSE Return("ASM", k, "code3")

\* In a comment or a CODE word that is an error, and in a rule or a condition
\* for the parser.
EndOfFile ==
  /\ ahead = <<>>
  /\ errors' = errors + (IF sc \in {"INITIAL", "rest"} THEN 0 ELSE 1)
                      + (IF ~recovering /\ (yyvs # <<>> \/ conds # <<>>) THEN 1 ELSE 0)
  /\ sc' = "INITIAL"
  /\ status' = "parsed"
  /\ UNCHANGED <<input, yy_c_buf_p, line, yyvs, recovering, conds, tokens, uses>>

yylex ==
  /\ Matching
  /\ \/ EndOfFile
     \/ /\ ahead # <<>>
        /\ Initial(ahead) \/ Comment(ahead) \/ Code1(ahead) \/ Code2(ahead) \/ Code3(ahead)

\* The next file of the command line, by the same scanner and a new parser.
NextFile ==
  /\ status \in {"parsed", "gave up"}
  /\ number < Len(files)
  /\ number' = number + 1 /\ dropped' = (status = "gave up")
  /\ yyrestart
  /\ line' = 1 /\ errors' = 0 /\ yyvs' = <<>> /\ recovering' = FALSE /\ conds' = <<>>
  /\ status' = "lexing"
  /\ tokens' = <<>> /\ uses' = <<>>
  /\ UNCHANGED <<files, sc>>

LexerNext == yy_get_next_buffer \/ yylex \/ NextFile

LexerSpec == LexerInit /\ [][LexerNext]_vars

(***************************************************************************)
(* yyparse calls the scanner until the file ends.                          *)
(***************************************************************************)
FairLexer == LexerSpec /\ WF_vars(LexerNext)

-----------------------------------------------------------------------------
\* Types.
TypeOK ==
  /\ files \in CommandLines /\ number \in 1..Len(files) /\ taken \in 0..Len(file)
  /\ yy_n_chars \in 0..YY_BUF_SIZE /\ yy_c_buf_p \in 0..yy_n_chars
  /\ yy_n_chars <= taken /\ buf[yy_n_chars] = NUL
  /\ sc \in {"INITIAL", "rest", "code1", "code2", "code3", "comment"}
  /\ line \in 1..(Len(file) + 1) /\ errors \in Nat
  /\ eof \in BOOLEAN /\ recovering \in BOOLEAN /\ conds \in Seq(BOOLEAN)
  /\ Len(yyvs) <= 4
  /\ status \in {"lexing", "parsed", "gave up", "overflow"}

Last(s) == s[Len(s)]

\* The lines that end before a token.
LinesBefore(pos) == Cardinality({i \in 1..(pos - 1) : file[i] = Newline})

Has(x) == \E i \in DOMAIN file : file[i] = x

\* Messages and debugging information name the line that a token is on, if no
\* comment follows the name of a CODE word, and the start condition is not that
\* of a file given up.
LinesTold ==
  ~dropped /\ ~(Has("CODE") /\ Has("(")) =>
    \A i \in DOMAIN tokens : tokens[i].line = 1 + LinesBefore(tokens[i].pos)

\* forthc.1:61: "The compiler adds source-line based debugging information, in
\* the same way as cc".
AllLinesTold ==
  \A i \in DOMAIN tokens : tokens[i].line = 1 + LinesBefore(tokens[i].pos)

\* Where a reader sees comments: "(" behind which there is a blank opens one,
\* and a backslash behind which there is a blank or the end of the line.
Begins(f, i, x) == f[i] = x /\ i < Len(f) /\ f[i + 1] \in Spaces
                   /\ (x = "(" => f[i + 1] = Blank)

\* What the character at i leaves the reader in.
Read(f, i, before) ==
  CASE before = "line"  -> IF f[i] = Newline THEN "text" ELSE "line"
    [] before = "paren" -> IF f[i] = ")" THEN "text" ELSE "paren"
    [] before = "text"  -> IF Begins(f, i, "\\") THEN "line"
                           ELSE IF Begins(f, i, "(") THEN "paren" ELSE "text"

\* One who begins to read behind a.
ReadingFrom(f, a) ==
  LET mode[i \in a..Len(f)] == IF i = a THEN "text" ELSE Read(f, i, mode[i - 1])
  IN  mode

Reading(f) == ReadingFrom(f, 0)

\* The words of the text outside comments.
Text_words ==
  LET mode == Reading(file)
  IN  {i \in DOMAIN file : mode[i - 1] = "text" /\ mode[i] = "text" /\ file[i] \notin Spaces}

\* forthc.1:148: "Text inside parentheses or text between a backslash character
\* and the end of the input line is a Forth comment": all the words outside
\* comments are tokens, in order, and nothing else, if the last line has an
\* end, there is no CODE word, and the file before was not given up in one.
CommentsSkipped ==
  status = "parsed" /\ ~dropped /\ ~Has("CODE") /\ (file # <<>> => Last(file) = Newline) =>
    /\ {tokens[i].pos : i \in DOMAIN tokens} = Text_words
    /\ \A i, j \in DOMAIN tokens : i < j => tokens[i].pos < tokens[j].pos

\* The same with any last line.
AllCommentsSkipped ==
  status = "parsed" /\ ~Has("CODE") =>
    {tokens[i].pos : i \in DOMAIN tokens} = Text_words

\* What the parser is handed of a CODE word is the name, lines of assembly and
\* the end; no assembly is handed to it elsewhere.  An error may cut it short,
\* and the rest of a CODE word may be what the next file begins with.
CodeInOrder ==
  LET tok(i) == tokens[i].token IN
  errors = 0 /\ ~dropped =>
    \A i \in DOMAIN tokens :
      /\ tok(i) \in {"ASM", "END_CODE"} =>
           \E j \in 1..(i - 1) : /\ tok(j) = "CODE"
                                 /\ \A k \in (j + 2)..(i - 1) : tok(k) = "ASM"
                                 /\ i > j + 1
      /\ tok(i) = "CODE" =>
           \A k \in (i + 1)..Len(tokens) :
             (\A h \in (i + 1)..(k - 1) : tok(h) # "END_CODE") =>
               tok(k) \in (IF k = i + 1 THEN {"WORD"} ELSE {"ASM", "END_CODE"})

\* From a to b there are blanks and whole comments.
NothingElse(f, a, b) ==
  LET mode == ReadingFrom(f, a)
  IN  /\ mode[b] = "text"
      /\ \A i \in (a + 1)..b : f[i] \in Spaces \/ mode[i] # "text" \/ mode[i - 1] # "text"

WholeLine(f, t) ==
  /\ f[t.pos - 1] = Newline
  /\ t.last < Len(f) => f[t.last + 1] = Newline
  /\ \A j \in t.pos..t.last : f[j] # Newline

\* No line of assembly is left out between two tokens of a CODE word.
Adjoins(f, s, t) ==
  IF s.token = "ASM" THEN \A j \in (s.last + 1)..(t.pos - 1) : f[j] = Newline
  ELSE NothingElse(f, s.last, t.pos - 1)

\* Lines of assembly and END-CODE are whole lines of the file.  Between the
\* name and the first of them there are blanks and comments, between two of them
\* empty lines, and when the file is read the last is END-CODE.
CodeWhole ==
  errors = 0 /\ ~dropped =>
    /\ \A i \in DOMAIN tokens :
         tokens[i].token \in {"ASM", "END_CODE"} =>
           WholeLine(file, tokens[i]) /\ Adjoins(file, tokens[i - 1], tokens[i])
    /\ status = "parsed" /\ tokens # <<>> => Last(tokens).token # "ASM"

\* The code of a CODE word reaches the parser whole, in its order and with its
\* lines, if there are no errors and the file before was not given up (forth.l).
CodeTold == CodeInOrder /\ CodeWhole /\ LinesTold

\* forthc.1:200: a CODE word is "the assembly language instructions up to the
\* END-CODE": no line with nothing but END-CODE is assembly.
EndCodeEnds ==
  \A i \in DOMAIN tokens :
    tokens[i].token = "ASM" =>
      LET from  == tokens[i].pos
          after == IF i = Len(tokens) THEN Pos ELSE tokens[i + 1].pos - 1
          text  == SelectSeq(SubSeq(file, from, after), LAMBDA x : x \notin Spaces)
      IN  text # <<"END-CODE">>

\* compiler.cc:145: "Otherwise, compile each named source file."  None is read
\* as the rest of another; but one is, if there were too many errors before.
AllFilesAnew == status = "lexing" /\ taken = 0 /\ tokens = <<>> /\ ~eof => sc = "INITIAL"

\* What the rule at u should have read: the words its tokens are.
Written(f, u) ==
  LET word(i) == f[u.rule[i].pos] IN
  IF u.rule[1].token = "[IFDEF]" THEN <<word(2)>>
  ELSE <<word(2), word(3), IF Len(u.rule) = 5 THEN word(4) ELSE "CHARS">>

\* No blanks but one line's lie between two tokens of the rule.
Plain(f, u) ==
  \A i \in u.rule[1].pos..Last(u.rule).pos :
    f[i] \in Spaces \/ \E j \in DOMAIN u.rule : u.rule[j].pos = i

ReadWell(f, u) ==
  /\ u.rule[1].pos - u.rule[1].addr = Last(u.rule).pos - Last(u.rule).addr
  /\ u.rule[1].token = "[IFDEF]" => Plain(f, u)
  => u.read = Written(f, u)

\* An array gets the name, the size and the unit that are written, and [IFDEF]
\* tests the name that is, if the buffer was not moved in the middle and, for
\* [IFDEF], no comment lies between.
RulesReadWell == \A i \in DOMAIN uses : ReadWell(file, uses[i])

\* forthc.1:178: "CREATE word size [ CHARS | CELLS ] ALLOT  This defines a new
\* array variable, of size characters or cells."
AllArraysReadWell ==
  \A i \in DOMAIN uses : uses[i].rule[1].token = "CREATE" => uses[i].read = Written(file, uses[i])

\* forthc.1:148 and 359: a comment may stand before the string of [IFDEF].
AllNamesReadWell ==
  \A i \in DOMAIN uses : uses[i].rule[1].token = "[IFDEF]" => uses[i].read = Written(file, uses[i])

\* Every file comes to its end.
LexingEnds == <>(status # "lexing" /\ (number = Len(files) \/ status = "overflow"))
=============================================================================
