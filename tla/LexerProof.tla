----------------------------- MODULE LexerProof -----------------------------
(***************************************************************************)
(* Proofs about Lexer.tla, for all files, sizes of the buffer and limits   *)
(* of errors.  The buffer holds a piece of the file, wherever it is moved; *)
(* so what the scanner matches are the characters that come next in the    *)
(* file, and the invariants compare the scanner with the file instead of   *)
(* the buffer: with the lines before a place, with what a reader of the    *)
(* file takes for a comment, and with the CODE word that is open.          *)
(***************************************************************************)
EXTENDS Lexer, FiniteSetTheorems, WellFoundedInduction, TLAPS

Characters == Pieces \cup {NUL}

Tokens ==
  {"INTEGER_LITERAL", "CODE", "CREATE", "ALLOT", "[IFDEF]", "[THEN]", "WORD", "ASM", "END_CODE"}
Value == [token : Tokens, addr : Nat, pos : Nat, last : Nat, line : Nat]

(* A sequence, of whatever it holds.                                       *)
IsSeq(s) == s \in Seq({s[i] : i \in DOMAIN s})

(* The buffer holds the characters of the file that were read last.        *)
Buffered ==
  /\ files \in CommandLines /\ number \in 1..Len(files) /\ dropped \in BOOLEAN
  /\ taken \in 0..Len(file)
  /\ yy_n_chars \in 0..(YY_BUF_SIZE - 1) /\ yy_n_chars <= taken
  /\ yy_c_buf_p \in 0..yy_n_chars
  /\ buf \in [0..(YY_BUF_SIZE + 1) -> Characters]
  /\ buf[yy_n_chars] = NUL
  /\ \A i \in 0..(yy_n_chars - 1) : buf[i] = file[(taken - yy_n_chars) + (i + 1)]
  /\ eof \in BOOLEAN
  /\ eof => taken = Len(file)

Conditions == {"INITIAL", "rest", "code1", "code2", "code3", "comment"}

(* The types of the parser's state.                                        *)
Parsing ==
  /\ sc \in Conditions
  /\ line \in Nat \ {0} /\ line <= Pos + 1 /\ errors \in Nat
  /\ yyvs \in Seq(Value) /\ tokens \in Seq(Value) /\ IsSeq(uses)
  /\ recovering \in BOOLEAN /\ conds \in Seq(BOOLEAN)
  /\ status \in {"lexing", "parsed", "gave up", "overflow"}
  /\ status = "parsed" => Pos = Len(file) /\ sc = "INITIAL"

(* The rules of more than one token that may have begun.                   *)
Begun ==
  {<<>>, <<"CREATE">>, <<"CREATE", "WORD">>, <<"CREATE", "WORD", "INTEGER_LITERAL">>,
   <<"CREATE", "WORD", "INTEGER_LITERAL", "WORD">>, <<"[IFDEF]">>, <<"CODE">>}

(* How far a token lay from the begin of the file when it was returned, in *)
(* excess of its address: it only grows.                                   *)
Shift(v) == v.pos - v.addr

(* The tokens of a rule begun: words of the file in order.                 *)
RuleBegun ==
  /\ Symbols(yyvs) \in Begun
  /\ \A i \in DOMAIN yyvs :
       /\ yyvs[i].pos \in 1..Pos
       /\ file[yyvs[i].pos] \notin Spaces
       /\ yyvs[i].token = "INTEGER_LITERAL" => file[yyvs[i].pos] = "INT"
       /\ Shift(yyvs[i]) <= (taken - yy_n_chars) + 1
  /\ \A i, j \in DOMAIN yyvs : i < j =>
       yyvs[i].pos < yyvs[j].pos /\ Shift(yyvs[i]) <= Shift(yyvs[j])

Typing == Buffered /\ Parsing /\ RuleBegun

(* The start conditions of CODE words need one.                            *)
CodeNeeded == ~dropped /\ ~Has("CODE") => sc \in {"INITIAL", "comment"}

(* The line of the parser is the one that the scanner has come to.         *)
LinesFollow ==
  ~dropped /\ ~(Has("CODE") /\ Has("(")) =>
    /\ line = 1 + LinesBefore(Pos + 1)
    /\ \A i \in DOMAIN tokens : tokens[i].line = 1 + LinesBefore(tokens[i].pos)

(* The scanner is in a comment where a reader is, and has returned what    *)
(* the reader takes for words so far.                                      *)
CommentsFollow ==
  ~dropped /\ ~Has("CODE") /\ (file # <<>> => Last(file) = Newline) =>
    /\ status = "lexing" => Reading(file)[Pos] = (IF sc = "comment" THEN "paren" ELSE "text")
    /\ {tokens[i].pos : i \in DOMAIN tokens} = {i \in Text_words : i <= Pos}
    /\ \A i, j \in DOMAIN tokens : i < j => tokens[i].pos < tokens[j].pos

(* The CODE word at i has come to its END-CODE.                            *)
Closed(s, i) == \E k \in (i + 1)..Len(s) : s[k].token = "END_CODE"

(* Where in a CODE word the scanner is, by the tokens s.                   *)
CodeOpen(s, condition) ==
  /\ condition \in {"INITIAL", "rest", "comment"} =>
       \A i \in DOMAIN s : s[i].token = "CODE" => Closed(s, i)
  /\ condition = "code1" =>
       /\ s # <<>> /\ s[Len(s)].token = "CODE"
       /\ \A i \in DOMAIN s : i # Len(s) /\ s[i].token = "CODE" => Closed(s, i)
  /\ condition \in {"code2", "code3"} =>
       \E j \in 1..(Len(s) - 1) :
         /\ s[j].token = "CODE"
         /\ \A k \in (j + 2)..Len(s) : s[k].token = "ASM"
         /\ \A i \in DOMAIN s : i # j /\ s[i].token = "CODE" => Closed(s, i)

CodeFollows ==
  errors = 0 /\ ~dropped => CodeOpen(tokens, sc)

(* The lines of CODE words are whole, and since the latest token there are *)
(* blanks and comments behind the name, and newlines behind a line.        *)
LinesAdjoin(s) ==
  \A i \in DOMAIN s :
    s[i].token \in {"ASM", "END_CODE"} =>
      WholeLine(file, s[i]) /\ Adjoins(file, s[i - 1], s[i])

Since(t) ==
  /\ t.last <= Pos
  /\ IF t.token = "ASM"
     THEN sc = "code3" /\ WholeLine(file, t) /\ \A j \in (t.last + 1)..Pos : file[j] = Newline
     ELSE NothingElse(file, t.last, Pos) /\ (sc = "code3" => file[Pos] = Newline)

WholeFollows ==
  errors = 0 /\ ~dropped =>
    /\ LinesAdjoin(tokens)
    /\ IF sc \in {"code2", "code3"} THEN tokens # <<>> /\ Since(Last(tokens))
       ELSE tokens # <<>> => Last(tokens).token # "ASM"

LexerInv ==
  /\ Typing /\ CodeNeeded /\ LinesFollow /\ CommentsFollow
  /\ CodeInOrder /\ CodeFollows /\ WholeFollows /\ RulesReadWell


-----------------------------------------------------------------------------
(* The first of some natural numbers.                                      *)
LEMMA LeastNat ==
  ASSUME NEW T \in SUBSET Nat, T # {}
  PROVE  \E x \in T : \A y \in T : x <= y
  <1> DEFINE R == OpToRel(<, Nat)
  <1>1. IsWellFoundedOn(R, Nat)
    BY NatLessThanWellFounded
  <1>2. \A x, y \in Nat : y < x => <<y, x>> \in R
    BY DEF OpToRel
  <1> HIDE DEF R
  <1>3. PICK x \in T : \A y \in T : ~(<<y, x>> \in R)
    BY <1>1, WFMin
  <1>4. ASSUME NEW y \in T PROVE x <= y
    <2>1. x \in Nat /\ y \in Nat
      BY <1>3
    <2>2. ~(y < x)
      BY <2>1, <1>2, <1>3
    <2>3. QED
      BY <2>1, <2>2
  <1>5. QED
    BY <1>3, <1>4

(* First finds the first x of a text, if there is one.                     *)
LEMMA FirstIs ==
  ASSUME NEW t \in Seq(Characters), NEW x
  PROVE  /\ (\E i \in DOMAIN t : t[i] = x) =>
              /\ First(t, x) \in 1..Len(t) /\ t[First(t, x)] = x
              /\ \A j \in 1..(First(t, x) - 1) : t[j] # x
         /\ (\A i \in DOMAIN t : t[i] # x) => First(t, x) = 0
  <1>1. ASSUME NEW k \in DOMAIN t, t[k] = x
        PROVE  \E i \in DOMAIN t : t[i] = x /\ \A j \in 1..(i - 1) : t[j] # x
    <2> DEFINE T == {i \in DOMAIN t : t[i] = x}
    <2>1. T \in SUBSET Nat /\ T # {}
      BY <1>1
    <2>2. PICK i \in T : \A y \in T : i <= y
      BY <2>1, LeastNat
    <2>3. \A j \in 1..(i - 1) : t[j] # x
      BY <2>2
    <2>4. QED
      BY <2>2, <2>3
  <1>2. QED
    BY <1>1 DEF First

(* Blanks counts the blanks that a text begins with.                       *)
LEMMA BlanksAre ==
  ASSUME NEW t \in Seq(Characters)
  PROVE  /\ Blanks(t) \in 0..Len(t) /\ \A j \in 1..Blanks(t) : t[j] = Blank
         /\ Blanks(t) < Len(t) => t[Blanks(t) + 1] # Blank
  <1>1. CASE \A i \in DOMAIN t : t[i] = Blank
    BY <1>1 DEF Blanks
  <1>2. ASSUME NEW k \in DOMAIN t, t[k] # Blank
        PROVE  \E i \in DOMAIN t : t[i] # Blank /\ \A j \in 1..(i - 1) : t[j] = Blank
    <2> DEFINE T == {i \in DOMAIN t : t[i] # Blank}
    <2>1. T \in SUBSET Nat /\ T # {}
      BY <1>2
    <2>2. PICK i \in T : \A y \in T : i <= y
      BY <2>1, LeastNat
    <2>3. \A j \in 1..(i - 1) : t[j] = Blank
      BY <2>2
    <2>4. QED
      BY <2>2, <2>3
  <1>3. CASE \E k \in DOMAIN t : t[k] # Blank
    <2> DEFINE P(i) == t[i] # Blank /\ \A j \in 1..(i - 1) : t[j] = Blank
               i0 == CHOOSE i \in DOMAIN t : P(i)
    <2>1. \E i \in DOMAIN t : P(i)
      BY <1>2, <1>3
    <2>2. i0 \in DOMAIN t /\ P(i0)
      BY <2>1
    <2>3. Blanks(t) = i0 - 1
      BY <1>3 DEF Blanks
    <2> HIDE DEF i0
    <2>4. i0 \in 1..Len(t)
      BY <2>2
    <2>5. QED
      BY <2>2, <2>3, <2>4
  <1>4. QED
    BY <1>1, <1>3

-----------------------------------------------------------------------------
(* The files.                                                              *)
LEMMA FileIs ==
  ASSUME Buffered
  PROVE  /\ file \in Seq(Characters) /\ files \in Seq(Seq(Characters)) /\ Len(file) \in Nat
         /\ \A i \in DOMAIN file : file[i] \in Pieces /\ file[i] # NUL
         /\ YY_BUF_SIZE \in Nat \ {0} /\ YY_READ_BUF_SIZE \in Nat \ {0}
  <1>1. files \in Seq(Seq(Pieces)) /\ number \in 1..Len(files)
    BY LexerAssumption DEF Buffered
  <1>2. file \in Seq(Pieces)
    BY <1>1 DEF file
  <1>3. \A i \in DOMAIN file : file[i] \in Pieces /\ file[i] # NUL
    BY <1>2, LexerAssumption DEF NUL
  <1>4. ASSUME NEW s \in Seq(Pieces) PROVE s \in Seq(Characters)
    <2>1. \A i \in 1..Len(s) : s[i] \in Characters
      BY DEF Characters
    <2>2. QED
      BY <2>1
  <1>5. file \in Seq(Characters) /\ Len(file) \in Nat
    BY <1>2, <1>4
  <1>6. \A i \in 1..Len(files) : files[i] \in Seq(Characters)
    BY <1>1, <1>4
  <1>7. files \in Seq(Seq(Characters))
    BY <1>1, <1>6
  <1>8. YY_BUF_SIZE \in Nat \ {0} /\ YY_READ_BUF_SIZE \in Nat \ {0}
    BY LexerAssumption
  <1>9. QED
    BY <1>3, <1>5, <1>7, <1>8

(* What lies ahead is what comes next in the file.                         *)
LEMMA AheadIs ==
  ASSUME Buffered
  PROVE  /\ ahead \in Seq(Characters) /\ Len(ahead) = yy_n_chars - yy_c_buf_p
         /\ DOMAIN ahead = 1..Len(ahead)
         /\ Pos \in 0..Len(file) /\ Pos + Len(ahead) = taken
         /\ \A i \in 1..Len(ahead) : Pos + i \in DOMAIN file /\ ahead[i] = file[Pos + i]
  <1> USE FileIs
  <1>1. /\ yy_n_chars \in Nat /\ yy_c_buf_p \in Nat /\ taken \in Nat
        /\ yy_c_buf_p <= yy_n_chars /\ yy_n_chars <= taken /\ taken <= Len(file)
        /\ yy_n_chars <= YY_BUF_SIZE - 1
    BY DEF Buffered
  <1>2. ASSUME NEW i \in 1..(yy_n_chars - yy_c_buf_p)
        PROVE  /\ buf[yy_c_buf_p + i - 1] \in Characters
               /\ buf[yy_c_buf_p + i - 1] = file[Pos + i]
               /\ Pos + i \in DOMAIN file
    <2>1. (yy_c_buf_p + i) - 1 \in 0..(yy_n_chars - 1)
      BY <1>1
    <2>2. (yy_c_buf_p + i) - 1 \in 0..(YY_BUF_SIZE + 1)
      BY <1>1, <2>1
    <2>3. buf[(yy_c_buf_p + i) - 1] = file[(taken - yy_n_chars) + (((yy_c_buf_p + i) - 1) + 1)]
      BY <2>1 DEF Buffered
    <2>4. (taken - yy_n_chars) + (((yy_c_buf_p + i) - 1) + 1) = Pos + i
      BY <1>1 DEF Pos
    <2>5. yy_c_buf_p + i - 1 = (yy_c_buf_p + i) - 1
      BY <1>1
    <2>6. Pos + i \in 1..Len(file)
      BY <1>1 DEF Pos
    <2>7. buf[(yy_c_buf_p + i) - 1] \in Characters
      BY <2>2 DEF Buffered
    <2>8. QED
      BY <2>3, <2>4, <2>5, <2>6, <2>7
  <1>3. ahead \in Seq(Characters) /\ Len(ahead) = yy_n_chars - yy_c_buf_p /\ DOMAIN ahead = 1..Len(ahead)
    <2> DEFINE m == yy_n_chars - yy_c_buf_p
               g(i) == buf[yy_c_buf_p + i - 1]
    <2>0. m \in Nat
      BY <1>1
    <2>1. \A i \in 1..m : g(i) \in Characters
      BY <1>2
    <2>2. ahead = [i \in 1..m |-> g(i)]
      BY DEF ahead
    <2> HIDE DEF m, g
    <2>3. ahead \in Seq(Characters) /\ Len(ahead) = m
      BY <2>0, <2>1, <2>2
    <2>4. QED
      BY <2>3 DEF m
  <1>4. \A i \in 1..Len(ahead) : ahead[i] = buf[yy_c_buf_p + i - 1]
    BY <1>3, <1>1 DEF ahead
  <1>5. Pos \in 0..Len(file) /\ Pos + (yy_n_chars - yy_c_buf_p) = taken
    BY <1>1 DEF Pos
  <1>6. \A i \in 1..Len(ahead) : Pos + i \in DOMAIN file /\ ahead[i] = file[Pos + i]
    BY <1>2, <1>3, <1>4
  <1>7. QED
    BY <1>3, <1>5, <1>6

(* The scanner's places are numbers.                                       *)
LEMMA Places ==
  ASSUME Buffered
  PROVE  /\ Pos \in Nat /\ taken \in Nat /\ yy_n_chars \in Nat /\ yy_c_buf_p \in Nat
         /\ taken - yy_n_chars \in Nat /\ Len(file) \in Nat /\ Pos <= Len(file)
         /\ yy_c_buf_p <= yy_n_chars /\ yy_n_chars <= taken
         /\ Pos = (taken - yy_n_chars) + yy_c_buf_p
         /\ Len(ahead) = yy_n_chars - yy_c_buf_p
  <1>1. /\ taken \in 0..Len(file) /\ yy_n_chars \in 0..(YY_BUF_SIZE - 1) /\ yy_n_chars <= taken
        /\ yy_c_buf_p \in 0..yy_n_chars /\ Len(file) \in Nat /\ YY_BUF_SIZE \in Nat
    BY FileIs DEF Buffered
  <1>2. Pos \in 0..Len(file) /\ Len(ahead) = yy_n_chars - yy_c_buf_p
    BY AheadIs
  <1>3. QED
    BY <1>1, <1>2 DEF Pos

(* A text that the scanner has to see the end of goes to the end of file.  *)
LEMMA Decided ==
  ASSUME Buffered, Matching, AtEnd(ahead)
  PROVE  Pos + Len(ahead) = Len(file)
  <1>1. eof
    BY DEF Matching
  <1>2. QED
    BY <1>1, AheadIs DEF Buffered


(* The buffer is filled, and its content moved: it holds the file still,   *)
(* and the scanner is where it was in the file.                            *)
LEMMA Refilled ==
  ASSUME Buffered, yy_get_next_buffer
  PROVE  /\ Buffered' /\ file' = file /\ Pos' = Pos
         /\ (taken - yy_n_chars) <= (taken - yy_n_chars)'
         /\ UNCHANGED <<files, dropped, sc, parser, tokens, uses>>
         /\ status' \in {status, "overflow"} /\ status = "lexing"
  <1> DEFINE n    == yy_n_chars - yy_c_buf_p
             room == (YY_BUF_SIZE - n) - 1
             k    == Smaller(Smaller(room, YY_READ_BUF_SIZE), Len(file) - taken)
  <1>1. /\ yy_n_chars \in Nat /\ yy_c_buf_p \in Nat /\ taken \in Nat /\ Len(file) \in Nat
        /\ yy_c_buf_p <= yy_n_chars /\ yy_n_chars <= taken /\ taken <= Len(file)
        /\ yy_n_chars <= YY_BUF_SIZE - 1
        /\ YY_BUF_SIZE \in Nat \ {0} /\ YY_READ_BUF_SIZE \in Nat \ {0}
    BY FileIs DEF Buffered
  <1>2. file' = file /\ UNCHANGED <<files, number, dropped, sc, parser, tokens, uses>>
    BY DEF yy_get_next_buffer, file, input, scanner
  <1>3. status' \in {status, "overflow"} /\ status = "lexing"
    BY DEF yy_get_next_buffer
  <1>4. n \in Nat /\ n <= YY_BUF_SIZE - 1 /\ room \in Nat /\ k \in Nat
        /\ k <= room /\ k <= Len(file) - taken
    BY <1>1 DEF Smaller
  <1>5. room = YY_BUF_SIZE - (yy_n_chars - yy_c_buf_p) - 1
    BY <1>1
  <1>6. CASE room <= 0 /\ ~eof
    <2>1. UNCHANGED <<input, scanner>>
      BY <1>5, <1>6 DEF yy_get_next_buffer
    <2>2. UNCHANGED <<files, number, dropped, taken, buf, yy_n_chars, eof, yy_c_buf_p>>
      BY <2>1 DEF input, scanner
    <2>3. Buffered' /\ Pos' = Pos /\ (taken - yy_n_chars)' = taken - yy_n_chars
      BY <2>2, <1>2 DEF Buffered, Pos
    <2>4. QED
      BY <1>1, <1>2, <1>3, <2>3
  <1>7. CASE ~(room <= 0 /\ ~eof)
    <2>1. /\ buf' = Moved(k) /\ taken' = taken + k /\ yy_n_chars' = n + k
          /\ yy_c_buf_p' = 0 /\ eof' = (k = 0)
      BY <1>5, <1>7 DEF yy_get_next_buffer
    <2>2. (taken' - yy_n_chars') = (taken - yy_n_chars) + yy_c_buf_p /\ Pos' = Pos
      BY <2>1, <1>1, <1>4 DEF Pos
    <2>3. /\ taken' \in 0..Len(file) /\ yy_n_chars' \in 0..(YY_BUF_SIZE - 1)
          /\ yy_n_chars' <= taken' /\ yy_c_buf_p' \in 0..yy_n_chars'
      BY <2>1, <1>1, <1>4
    <2>4. eof' \in BOOLEAN /\ (eof' => taken' = Len(file))
      <3>1. CASE eof
        <4>1. taken = Len(file)
          BY <3>1 DEF Buffered
        <4>2. QED
          BY <4>1, <2>1, <1>1, <1>4
      <3>2. CASE ~eof
        <4>1. room > 0
          BY <3>2, <1>4, <1>7
        <4>2. k = 0 => Len(file) - taken = 0
          BY <4>1, <1>1, <1>4 DEF Smaller
        <4>3. eof' => k = 0
          BY <2>1, Zenon
        <4>4. k = 0 => taken' = Len(file)
          BY <4>2, <2>1, <1>1, <1>4
        <4>5. eof' \in BOOLEAN
          BY <2>1, Zenon
        <4>6. QED
          BY <4>3, <4>4, <4>5, Zenon
      <3>3. QED
        BY <3>1, <3>2
    <2>5. DOMAIN buf = 0..(YY_BUF_SIZE + 1)
      BY DEF Buffered
    <2>6. ASSUME NEW i \in 0..(YY_BUF_SIZE + 1)
          PROVE  /\ buf'[i] \in Characters
                 /\ i < yy_n_chars' => buf'[i] = file[(taken' - yy_n_chars') + (i + 1)]
                 /\ i = yy_n_chars' => buf'[i] = NUL
      <3>1. buf'[i] =
              IF i < n THEN buf[yy_c_buf_p + i]
              ELSE IF i < n + k THEN file[taken + 1 + i - n]
              ELSE IF i < n + k + 2 THEN NUL
              ELSE buf[i]
        BY <2>1, <2>5 DEF Moved
      <3>2. CASE i < n
        <4>1. yy_c_buf_p + i \in 0..(yy_n_chars - 1)
          BY <3>2, <1>1
        <4>2. buf[yy_c_buf_p + i] = file[(taken - yy_n_chars) + ((yy_c_buf_p + i) + 1)]
          BY <4>1 DEF Buffered
        <4>3. yy_c_buf_p + i \in 0..(YY_BUF_SIZE + 1)
          BY <4>1, <1>1
        <4>4. buf[yy_c_buf_p + i] \in Characters
          BY <4>3 DEF Buffered
        <4>5. (taken - yy_n_chars) + ((yy_c_buf_p + i) + 1) = (taken' - yy_n_chars') + (i + 1)
          BY <2>2, <1>1
        <4>6. i # yy_n_chars'
          BY <2>1, <3>2, <1>4
        <4>7. QED
          BY <3>1, <3>2, <4>2, <4>4, <4>5, <4>6
      <3>3. CASE ~(i < n) /\ i < n + k
        <4>1. taken + 1 + i - n \in 1..Len(file)
          BY <3>3, <1>1, <1>4
        <4>2. file[taken + 1 + i - n] \in Characters
          BY <4>1, FileIs
        <4>3. taken + 1 + i - n = (taken' - yy_n_chars') + (i + 1)
          <5>1. taken' = taken + k /\ yy_n_chars' = n + k /\ i \in Nat
            BY <2>1
          <5>2. taken \in Nat /\ n \in Nat /\ k \in Nat
            BY <1>1, <1>4
          <5> HIDE DEF n, k
          <5>3. QED
            BY <5>1, <5>2
        <4>4. i # yy_n_chars'
          BY <2>1, <3>3, <1>4
        <4>5. QED
          BY <3>1, <3>3, <4>2, <4>3, <4>4
      <3>4. CASE ~(i < n + k)
        <4>1. ~(i < n) /\ ~(i < yy_n_chars')
          BY <3>4, <1>4, <2>1
        <4>2. buf[i] \in Characters
          BY DEF Buffered
        <4>3. i = yy_n_chars' => buf'[i] = NUL
          BY <3>1, <3>4, <4>1, <1>4, <2>1
        <4>4. buf'[i] = NUL \/ buf'[i] = buf[i]
          BY <3>1, <3>4, <4>1
        <4>5. NUL \in Characters
          BY DEF Characters
        <4>6. QED
          BY <4>1, <4>2, <4>3, <4>4, <4>5, Zenon
      <3>5. QED
        BY <3>2, <3>3, <3>4, <1>4
    <2>7. buf' \in [0..(YY_BUF_SIZE + 1) -> Characters]
      <3>1. buf' = [i \in 0..(YY_BUF_SIZE + 1) |-> buf'[i]]
        BY <2>1, <2>5 DEF Moved
      <3>2. QED
        BY <3>1, <2>6
    <2>8. buf'[yy_n_chars'] = NUL
      <3>1. yy_n_chars' \in 0..(YY_BUF_SIZE + 1)
        BY <2>3, <1>1
      <3>2. QED
        BY <3>1, <2>6
    <2>9. \A i \in 0..(yy_n_chars' - 1) : buf'[i] = file'[(taken' - yy_n_chars') + (i + 1)]
      <3>1. \A i \in 0..(n + k - 1) : i \in 0..(YY_BUF_SIZE + 1) /\ i < n + k
        BY <1>1, <1>4
      <3>2. \A i \in 0..(yy_n_chars' - 1) : i \in 0..(YY_BUF_SIZE + 1) /\ i < yy_n_chars'
        <4>1. yy_n_chars' = n + k /\ n \in Nat /\ k \in Nat
          BY <2>1, <1>4
        <4>2. yy_n_chars' - 1 = n + k - 1
          BY <4>1
        <4>3. QED
          BY <4>1, <4>2, <3>1
      <3>3. QED
        BY <3>2, <2>6, <1>2
    <2>10. files' \in CommandLines /\ number' \in 1..Len(files') /\ dropped' \in BOOLEAN
      BY <1>2 DEF Buffered
    <2>11. Buffered'
      BY <2>3, <2>4, <2>7, <2>8, <2>9, <2>10, <1>2 DEF Buffered
    <2>12. QED
      BY <1>1, <1>2, <1>3, <2>2, <2>11
  <1>8. QED
    BY <1>6, <1>7

(* A new file: the buffer is empty.                                        *)
LEMMA Restarted ==
  ASSUME Buffered, NextFile
  PROVE  Buffered' /\ Pos' = 0 /\ taken' = 0 /\ yy_n_chars' = 0
  <1>0. /\ files' = files /\ number' = number + 1 /\ number < Len(files)
        /\ dropped' = (status = "gave up") /\ eof' = FALSE
        /\ taken' = 0 /\ yy_n_chars' = 0 /\ yy_c_buf_p' = 0
        /\ buf' = [buf EXCEPT ![0] = NUL, ![1] = NUL]
    BY DEF NextFile, yyrestart
  <1>1. number' \in 1..Len(files') /\ dropped' \in BOOLEAN
    <2>1. number \in Nat \ {0} /\ Len(files) \in Nat
      BY FileIs DEF Buffered
    <2>2. files' = files /\ number' = number + 1 /\ number < Len(files)
      BY <1>0
    <2>5. number' \in 1..Len(files')
      BY <2>1, <2>2
    <2>3. dropped' \in BOOLEAN
      BY <1>0, Zenon
    <2>4. QED
      BY <2>5, <2>3
  <1>2. files' \in CommandLines /\ files' \in Seq(Seq(Characters))
    BY <1>0, FileIs DEF Buffered
  <1>3. file' \in Seq(Characters)
    BY <1>1, <1>2 DEF file
  <1>4. YY_BUF_SIZE \in Nat \ {0}
    BY FileIs
  <1>5. buf' \in [0..(YY_BUF_SIZE + 1) -> Characters] /\ buf'[0] = NUL
    <2>0. NUL \in Characters
      BY DEF Characters
    <2>1. buf \in [0..(YY_BUF_SIZE + 1) -> Characters] /\ NUL \in Characters
      BY <2>0 DEF Buffered
    <2>2. 0 \in 0..(YY_BUF_SIZE + 1) /\ 1 \in 0..(YY_BUF_SIZE + 1)
      BY <1>4
    <2> DEFINE b == [buf EXCEPT ![0] = NUL]
    <2>3. b \in [0..(YY_BUF_SIZE + 1) -> Characters] /\ b[0] = NUL
      BY <2>1, <2>2
    <2>4. buf' = [b EXCEPT ![1] = NUL]
      BY <1>0, Zenon
    <2> HIDE DEF b
    <2>5. QED
      BY <2>1, <2>2, <2>3, <2>4
  <1>6. Pos' = 0
    <2>1. Pos' = (taken' - yy_n_chars') + yy_c_buf_p'
      BY DEF Pos
    <2>2. taken' = 0 /\ yy_n_chars' = 0 /\ yy_c_buf_p' = 0
      BY <1>0
    <2>3. QED
      BY <2>1, <2>2
  <1>7. Len(file') \in Nat
    BY <1>3
  <1>8a. taken' = 0 /\ yy_n_chars' = 0 /\ yy_c_buf_p' = 0 /\ eof' = FALSE
    BY <1>0
  <1>8. /\ taken' \in 0..Len(file') /\ yy_n_chars' \in 0..(YY_BUF_SIZE - 1) /\ yy_n_chars' <= taken'
        /\ yy_c_buf_p' \in 0..yy_n_chars' /\ buf'[yy_n_chars'] = NUL
        /\ eof' \in BOOLEAN /\ ~eof' /\ 0..(yy_n_chars' - 1) = {}
    BY <1>8a, <1>4, <1>5, <1>7
  <1>9. Buffered'
    BY <1>1, <1>2, <1>5, <1>8 DEF Buffered
  <1>10. QED
    BY <1>6, <1>8a, <1>9

(* While the scanner matches, the buffer stays.                            *)
LEMMA Matched ==
  ASSUME Buffered, UNCHANGED input, NEW k \in 0..Len(ahead), yy_c_buf_p' = yy_c_buf_p + k
  PROVE  /\ Buffered' /\ Pos' = Pos + k /\ file' = file
         /\ dropped' = dropped /\ taken' = taken /\ yy_n_chars' = yy_n_chars
  <1>1. /\ yy_n_chars \in Nat /\ yy_c_buf_p \in Nat /\ taken \in Nat
        /\ Len(ahead) = yy_n_chars - yy_c_buf_p
    BY AheadIs DEF Buffered
  <1>2. UNCHANGED <<files, number, dropped, taken, buf, yy_n_chars, eof>> /\ file' = file
    BY DEF input, file
  <1>3. yy_c_buf_p' \in 0..yy_n_chars' /\ Pos' = Pos + k
    BY <1>1, <1>2 DEF Pos
  <1>4. QED
    BY <1>2, <1>3 DEF Buffered


-----------------------------------------------------------------------------
(* Sets of two and of three numbers.                                       *)
LEMMA Few ==
  /\ \A a : IsFiniteSet({a}) /\ Cardinality({a}) = 1
  /\ \A a, b : a # b => IsFiniteSet({a, b}) /\ Cardinality({a, b}) = 2
  /\ \A a, b, c : a # b /\ a # c /\ b # c =>
       IsFiniteSet({a, b, c}) /\ Cardinality({a, b, c}) = 3
  <1>1. ASSUME NEW a PROVE IsFiniteSet({a}) /\ Cardinality({a}) = 1
    BY FS_Singleton
  <1>2. ASSUME NEW a, NEW b, a # b
        PROVE  IsFiniteSet({a, b}) /\ Cardinality({a, b}) = 2
    <2> DEFINE A == {a}
    <2>1. IsFiniteSet(A) /\ Cardinality(A) = 1
      BY <1>1
    <2>2. b \notin A /\ {a, b} = A \cup {b}
      BY <1>2
    <2> HIDE DEF A
    <2>3. IsFiniteSet(A \cup {b}) /\ Cardinality(A \cup {b}) = 1 + 1
      BY <2>1, <2>2, FS_AddElement
    <2>4. QED
      BY <2>2, <2>3
  <1>3. ASSUME NEW a, NEW b, NEW c, a # b, a # c, b # c
        PROVE  IsFiniteSet({a, b, c}) /\ Cardinality({a, b, c}) = 3
    <2> DEFINE A == {a, b}
    <2>1. IsFiniteSet(A) /\ Cardinality(A) = 2
      BY <1>2, <1>3
    <2>2. c \notin A /\ {a, b, c} = A \cup {c}
      BY <1>3
    <2> HIDE DEF A
    <2>3. IsFiniteSet(A \cup {c}) /\ Cardinality(A \cup {c}) = 2 + 1
      BY <2>1, <2>2, FS_AddElement
    <2>4. QED
      BY <2>2, <2>3
  <1>4. \A a : IsFiniteSet({a}) /\ Cardinality({a}) = 1
    BY <1>1
  <1>5. \A a, b : a # b => IsFiniteSet({a, b}) /\ Cardinality({a, b}) = 2
    BY <1>2
  <1>6. \A a, b, c : a # b /\ a # c /\ b # c =>
          IsFiniteSet({a, b, c}) /\ Cardinality({a, b, c}) = 3
    BY <1>3
  <1>7. QED
    BY <1>4, <1>5, <1>6

(* A stream reads the word that a string begins with, and the one after    *)
(* the blanks that follow.                                                 *)
LEMMA WordIs ==
  ASSUME NEW t \in Seq(Characters), t # <<>>, t[1] \notin Spaces
  PROVE  /\ Word(t, 1) = t[1]
         /\ \A m \in 2..Len(t) :
              t[m] \notin Spaces /\ (\A j \in 2..(m - 1) : t[j] \in Spaces) => Word(t, 2) = t[m]
  <1> DEFINE words  == {i \in DOMAIN t : t[i] \notin Spaces}
             upto(i) == {j \in words : j <= i}
  <1>1. words \subseteq 1..Len(t) /\ 1 \in words /\ Len(t) \in Nat
    OBVIOUS
  <1>2. IsFiniteSet(words) /\ \A i \in words : IsFiniteSet(upto(i))
    <2>1. IsFiniteSet(1..Len(t))
      BY <1>1, FS_Interval
    <2>2. \A i \in words : upto(i) \subseteq 1..Len(t)
      BY <1>1
    <2>3. QED
      BY <1>1, <2>1, <2>2, FS_Subset
  <1>3. upto(1) = {1}
    BY <1>1
  <1>4. ASSUME NEW i \in words, i # 1
        PROVE  Cardinality(upto(i)) \in Nat /\ Cardinality(upto(i)) >= 2
    <2>1. {1, i} \subseteq upto(i)
      BY <1>1
    <2>2. Cardinality({1, i}) = 2
      BY <1>4, Few
    <2>3. Cardinality({1, i}) <= Cardinality(upto(i))
      BY <1>2, <2>1, FS_Subset
    <2>4. Cardinality(upto(i)) \in Nat
      BY <1>2, FS_CardinalityType
    <2>5. QED
      BY <2>2, <2>3, <2>4
  <1>5. Cardinality(upto(1)) = 1
    BY <1>3, Few
  <1>6. Word(t, 1) = t[1]
    <2>1. \A i \in words : Cardinality(upto(i)) = 1 <=> i = 1
      <3> HIDE DEF upto, words
      <3>1. ASSUME NEW i \in words PROVE Cardinality(upto(i)) = 1 <=> i = 1
        <4>1. CASE i = 1
          BY <4>1, <1>5
        <4>2. CASE i # 1
          BY <4>2, <1>4
        <4>3. QED
          BY <4>1, <4>2
      <3>2. QED
        BY <3>1
    <2>2. (CHOOSE i \in words : Cardinality(upto(i)) = 1) = 1
      BY <1>1, <2>1
    <2>3. QED
      BY <1>1, <1>5, <2>2 DEF Word
  <1>7. ASSUME NEW m \in 2..Len(t), t[m] \notin Spaces, \A j \in 2..(m - 1) : t[j] \in Spaces
        PROVE  Word(t, 2) = t[m]
    <2>1. m \in words /\ m # 1 /\ upto(m) = {1, m}
      BY <1>1, <1>7
    <2>2. Cardinality(upto(m)) = 2
      <3>1. Cardinality({1, m}) = 2
        BY <2>1, Few
      <3>2. QED
        BY <2>1, <3>1, Zenon
    <2>3. ASSUME NEW i \in words, Cardinality(upto(i)) = 2 PROVE i = m
      <3>1. i # 1
        <4>1. ASSUME i = 1 PROVE FALSE
          <5>1. Cardinality(upto(1)) = 2
            BY <2>3, <4>1, Zenon
          <5>2. QED
            BY <1>5, <5>1
        <4>2. QED
          BY <4>1
      <3>2. i >= m
        BY <1>1, <1>7, <3>1
      <3>3. ASSUME i # m PROVE FALSE
        <4>1. {1, m, i} \subseteq upto(i)
          BY <1>1, <2>1, <3>2
        <4>2. Cardinality({1, m, i}) = 3
          BY <2>1, <3>1, <3>3, Few
        <4>3. Cardinality({1, m, i}) <= Cardinality(upto(i))
          BY <1>2, <4>1, FS_Subset
        <4>4. QED
          BY <2>3, <4>2, <4>3
      <3>4. QED
        BY <3>3
    <2>4. (CHOOSE i \in words : Cardinality(upto(i)) = 2) = m
      BY <2>1, <2>2, <2>3
    <2>5. QED
      BY <2>1, <2>2, <2>4 DEF Word
  <1>8. QED
    BY <1>6, <1>7

(* A string that begins in the buffer, at an address q before the end of   *)
(* the latest token, is what the file has there.                           *)
LEMMA TextIs ==
  ASSUME Buffered, NEW end \in 0..yy_n_chars, NEW q \in Nat, q < end
  PROVE  /\ Text(q, end) \in Seq(Characters) /\ Len(Text(q, end)) = end - q
         /\ \A i \in 1..(end - q) :
              Text(q, end)[i] = file[(taken - yy_n_chars) + (q + i)]
  <1> DEFINE N == YY_BUF_SIZE + 2
             Stops(i) == /\ i = N \/ i = end \/ buf[i] = NUL
                         /\ \A j \in q..(i - 1) : j # end /\ j < N /\ buf[j] # NUL
             nul == CHOOSE i \in q..N : Stops(i)
  <1>1. /\ yy_n_chars \in Nat /\ taken \in Nat /\ yy_n_chars <= taken /\ taken <= Len(file)
        /\ yy_n_chars <= YY_BUF_SIZE - 1 /\ YY_BUF_SIZE \in Nat /\ Len(file) \in Nat
        /\ end \in Nat /\ end <= yy_n_chars /\ N \in Nat /\ end < N
    <2>1. /\ yy_n_chars \in 0..(YY_BUF_SIZE - 1) /\ taken \in 0..Len(file) /\ yy_n_chars <= taken
          /\ YY_BUF_SIZE \in Nat /\ Len(file) \in Nat
      BY FileIs DEF Buffered
    <2>2. QED
      BY <2>1
  <1>2. ASSUME NEW j \in q..(end - 1)
        PROVE  buf[j] = file[(taken - yy_n_chars) + (j + 1)] /\ buf[j] # NUL /\ buf[j] \in Characters
    <2>1. j \in 0..(yy_n_chars - 1) /\ (taken - yy_n_chars) + (j + 1) \in 1..Len(file)
          /\ j \in 0..(YY_BUF_SIZE + 1)
      BY <1>1
    <2>2. buf[j] = file[(taken - yy_n_chars) + (j + 1)] /\ buf[j] \in Characters
      BY <2>1 DEF Buffered
    <2>3. (taken - yy_n_chars) + (j + 1) \in DOMAIN file
      BY <2>1, FileIs
    <2>4. QED
      BY <2>2, <2>3, FileIs
  <1>3. end \in q..N /\ Stops(end)
    BY <1>1, <1>2
  <1>4. ASSUME NEW i \in q..N, Stops(i) PROVE i = end
    <2>1. ~(i < end)
      BY <1>1, <1>2, <1>4
    <2>2. ~(i > end)
      BY <1>1, <1>4
    <2>3. QED
      BY <2>1, <2>2, <1>1
  <1>5. nul = end
    BY <1>3, <1>4
  <1>6. Text(q, end) = [i \in 1..(end - q) |-> buf[q + i - 1]]
    BY <1>5 DEF Text
  <1>7. ASSUME NEW i \in 1..(end - q)
        PROVE  /\ buf[q + i - 1] = file[(taken - yy_n_chars) + (q + i)]
               /\ buf[q + i - 1] \in Characters
    <2>1. (q + i) - 1 \in q..(end - 1) /\ ((q + i) - 1) + 1 = q + i /\ (q + i) - 1 = q + i - 1
      BY <1>1
    <2>2. QED
      BY <2>1, <1>2
  <1>8. end - q \in Nat
    BY <1>1
  <1>9. Text(q, end) \in Seq(Characters) /\ Len(Text(q, end)) = end - q
    <2> DEFINE m == end - q
               g(i) == buf[q + i - 1]
    <2>1. m \in Nat
      BY <1>8
    <2>2. \A i \in 1..m : g(i) \in Characters
      BY <1>7
    <2>3. Text(q, end) = [i \in 1..m |-> g(i)]
      BY <1>6
    <2> HIDE DEF m, g, N, nul
    <2>4. Text(q, end) \in Seq(Characters) /\ Len(Text(q, end)) = m
      BY <2>1, <2>2, <2>3
    <2>5. QED
      BY <2>4 DEF m
  <1> HIDE DEF N, nul
  <1>10. \A i \in 1..(end - q) : Text(q, end)[i] = file[(taken - yy_n_chars) + (q + i)]
    BY <1>6, <1>7
  <1>11. QED
    BY <1>9, <1>10


-----------------------------------------------------------------------------
(* What the parser does with a token, whatever it makes of it.             *)
LEMMA ReturnIs ==
  ASSUME Typing, NEW token \in Tokens, NEW k, NEW condition, status = "lexing",
         Return(token, k, condition)
  PROVE  /\ UNCHANGED <<input, line>> /\ yy_c_buf_p' = yy_c_buf_p + k /\ sc' = condition
         /\ tokens' = Append(tokens, yylval(token, k))
         /\ errors' \in Nat /\ errors <= errors'
         /\ recovering' \in BOOLEAN /\ conds' \in Seq(BOOLEAN)
         /\ status' \in {"lexing", "gave up"}
         /\ \/ yyvs' = yyvs \/ yyvs' = <<>>
            \/ yyvs' = Append(yyvs, yylval(token, k)) /\ Continues(Symbols(yyvs), token)
         /\ \/ uses' = uses
            \/ /\ uses' = Append(uses, Handled(Append(yyvs, yylval(token, k)), yy_c_buf_p + k))
               /\ Completes(Symbols(yyvs), token)
               /\ Len(Append(yyvs, yylval(token, k))) > 1
               /\ Append(yyvs, yylval(token, k))[1].token # "CODE"
  <1> DEFINE value == yylval(token, k)
             rule  == Append(yyvs, value)
             use   == Handled(rule, yy_c_buf_p + k)
             counted == errors + (IF recovering THEN 0 ELSE 1)
             givesUp == token = "WORD" /\ counted >= MAX_ALLOWED_ERRORS
  <1>1. /\ UNCHANGED <<input, line>> /\ yy_c_buf_p' = yy_c_buf_p + k /\ sc' = condition
        /\ tokens' = Append(tokens, value)
    BY DEF Return
  <1>2. errors \in Nat /\ recovering \in BOOLEAN /\ conds \in Seq(BOOLEAN)
        /\ counted \in Nat /\ errors <= counted
    BY DEF Typing, Parsing
  <1> HIDE DEF value, rule, use, counted, givesUp
  <1>3. CASE UNCHANGED <<errors, yyvs, recovering, conds, status, uses>>
    BY <1>1, <1>2, <1>3 DEF value
  <1>4. CASE /\ Continues(Symbols(yyvs), token) /\ yyvs' = rule
             /\ UNCHANGED <<errors, recovering, conds, status, uses>>
    BY <1>1, <1>2, <1>4 DEF value, rule
  <1>5. CASE /\ status' = "gave up" /\ errors' = errors + 1
             /\ UNCHANGED <<yyvs, recovering, conds, uses>>
    <2>1. errors' = errors + 1
      BY <1>5, Zenon
    <2>2. errors' \in Nat /\ errors <= errors'
      BY <1>2, <2>1
    <2>3. QED
      BY <1>1, <1>2, <1>5, <2>2, Zenon DEF value
  <1>6. CASE /\ Completes(Symbols(yyvs), token)
             /\ yyvs' = <<>>
             /\ uses' = IF Len(rule) > 1 /\ rule[1].token # "CODE" /\ (Active \/ rule[1].token = "[IFDEF]")
                        THEN Append(uses, use) ELSE uses
             /\ conds' = IF rule[1].token = "[IFDEF]" THEN Append(conds, use.read[1] \in Definitions)
                         ELSE IF token = "[THEN]" /\ conds # <<>> THEN SubSeq(conds, 1, Len(conds) - 1)
                         ELSE conds
             /\ errors' = IF \/ token = "[THEN]" /\ conds = <<>>
                             \/ rule[1].token = "CREATE" /\ Active /\ Wrong(use)
                          THEN errors + 1 ELSE errors
             /\ UNCHANGED <<recovering, status>>
    <2>1. errors' \in Nat /\ errors <= errors'
      <3>1. errors' = errors + 1 \/ errors' = errors
        BY <1>6, Zenon
      <3>2. QED
        BY <3>1, <1>2
    <2>2. conds' \in Seq(BOOLEAN)
      <3> DEFINE b == use.read[1] \in Definitions
      <3>1. b \in BOOLEAN
        OBVIOUS
      <3>2. \/ conds' = Append(conds, b)
            \/ conds # <<>> /\ conds' = SubSeq(conds, 1, Len(conds) - 1)
            \/ conds' = conds
        <4>1. CASE rule[1].token = "[IFDEF]"
          BY <1>6, <4>1, Zenon
        <4>2. CASE ~(rule[1].token = "[IFDEF]") /\ token = "[THEN]" /\ conds # <<>>
          BY <1>6, <4>2, Zenon
        <4>3. CASE ~(rule[1].token = "[IFDEF]") /\ ~(token = "[THEN]" /\ conds # <<>>)
          BY <1>6, <4>3, Zenon
        <4>4. QED
          BY <4>1, <4>2, <4>3, Zenon
      <3> HIDE DEF b
      <3>3. QED
        BY <3>1, <3>2, <1>2
    <2>3. \/ uses' = uses
          \/ uses' = Append(uses, use) /\ Len(rule) > 1 /\ rule[1].token # "CODE"
      BY <1>6, Zenon
    <2>4. Completes(Symbols(yyvs), token) /\ yyvs' = <<>> /\ recovering' = recovering /\ status' = status
      BY <1>6
    <2>5. QED
      BY <1>1, <1>2, <2>1, <2>2, <2>3, <2>4 DEF value, rule, use
  <1>7. CASE /\ yyvs' = <<>>
             /\ recovering' = (token # "WORD")
             /\ status' = IF givesUp THEN "gave up" ELSE status
             /\ errors' = counted + (IF givesUp THEN 1 ELSE 0)
             /\ UNCHANGED <<conds, uses>>
    <2>1. recovering' \in BOOLEAN
      BY <1>7, Zenon
    <2>2. errors' = counted + (IF givesUp THEN 1 ELSE 0)
      BY <1>7, Zenon
    <2>3. errors' \in Nat /\ errors <= errors'
      BY <2>2, <1>2
    <2>4. status' = "gave up" \/ status' = status
      BY <1>7, Zenon
    <2>5. QED
      BY <1>1, <1>2, <1>7, <2>1, <2>3, <2>4 DEF value
  <1>8. \/ UNCHANGED <<errors, yyvs, recovering, conds, status, uses>>
        \/ /\ Continues(Symbols(yyvs), token) /\ yyvs' = rule
           /\ UNCHANGED <<errors, recovering, conds, status, uses>>
        \/ /\ status' = "gave up" /\ errors' = errors + 1
           /\ UNCHANGED <<yyvs, recovering, conds, uses>>
        \/ /\ Completes(Symbols(yyvs), token)
           /\ yyvs' = <<>>
           /\ uses' = IF Len(rule) > 1 /\ rule[1].token # "CODE" /\ (Active \/ rule[1].token = "[IFDEF]")
                      THEN Append(uses, use) ELSE uses
           /\ conds' = IF rule[1].token = "[IFDEF]" THEN Append(conds, use.read[1] \in Definitions)
                       ELSE IF token = "[THEN]" /\ conds # <<>> THEN SubSeq(conds, 1, Len(conds) - 1)
                       ELSE conds
           /\ errors' = IF \/ token = "[THEN]" /\ conds = <<>>
                           \/ rule[1].token = "CREATE" /\ Active /\ Wrong(use)
                        THEN errors + 1 ELSE errors
           /\ UNCHANGED <<recovering, status>>
        \/ /\ yyvs' = <<>>
           /\ recovering' = (token # "WORD")
           /\ status' = IF givesUp THEN "gave up" ELSE status
           /\ errors' = counted + (IF givesUp THEN 1 ELSE 0)
           /\ UNCHANGED <<conds, uses>>
    BY Zenon DEF Return, value, rule, use, counted, givesUp
  <1>9. QED
    BY <1>3, <1>4, <1>5, <1>6, <1>7, <1>8, Zenon


(* A sequence with one more element.                                       *)
LEMMA Appended ==
  ASSUME NEW s, NEW x, IsSeq(s)
  PROVE  /\ IsSeq(Append(s, x)) /\ Len(s) \in Nat /\ DOMAIN s = 1..Len(s)
         /\ Len(Append(s, x)) = Len(s) + 1
         /\ DOMAIN Append(s, x) = 1..(Len(s) + 1)
         /\ Append(s, x)[Len(s) + 1] = x
         /\ \A i \in 1..Len(s) : Append(s, x)[i] = s[i]
  <1> DEFINE R == {s[i] : i \in DOMAIN s} \cup {x}
             a == Append(s, x)
  <1>1. s \in Seq(R)
    <2>1. s \in Seq({s[i] : i \in DOMAIN s})
      BY DEF IsSeq
    <2>2. DOMAIN s = 1..Len(s) /\ Len(s) \in Nat /\ s = [i \in 1..Len(s) |-> s[i]]
      BY <2>1
    <2>3. \A i \in 1..Len(s) : s[i] \in R
      BY <2>2
    <2> HIDE DEF R
    <2>4. QED
      BY <2>2, <2>3
  <1>2. x \in R
    OBVIOUS
  <1> HIDE DEF R
  <1>3. /\ a \in Seq(R) /\ Len(a) = Len(s) + 1 /\ Len(s) \in Nat /\ DOMAIN s = 1..Len(s)
        /\ DOMAIN a = 1..Len(a) /\ a[Len(s) + 1] = x
        /\ \A i \in 1..Len(s) : a[i] = s[i]
    BY <1>1, <1>2
  <1>4. IsSeq(a)
    <2> DEFINE Q == {a[i] : i \in DOMAIN a}
    <2>1. \A i \in 1..Len(a) : a[i] \in Q
      <3>1. DOMAIN a = 1..Len(a)
        BY <1>3, Zenon
      <3>2. QED
        BY <3>1, Zenon
    <2> HIDE DEF Q, a
    <2>2. a = [i \in 1..Len(a) |-> a[i]] /\ Len(a) \in Nat
      BY <1>3
    <2>3. a \in Seq(Q)
      BY <2>1, <2>2
    <2>4. QED
      BY <2>3 DEF IsSeq, Q
  <1>5. DOMAIN a = 1..(Len(s) + 1)
    BY <1>3
  <1>6. QED
    BY <1>3, <1>4, <1>5

(* The symbols of a rule, and of the rule with one more.                   *)
LEMMA SymbolsIs ==
  ASSUME NEW s \in Seq(Value)
  PROVE  /\ Symbols(s) \in Seq(Tokens) /\ Len(Symbols(s)) = Len(s)
         /\ \A i \in 1..Len(s) : Symbols(s)[i] = s[i].token
         /\ \A v \in Value : Symbols(Append(s, v)) = Append(Symbols(s), v.token)
  <1>1. ASSUME NEW q \in Seq(Value)
        PROVE  /\ Symbols(q) \in Seq(Tokens) /\ Len(Symbols(q)) = Len(q)
               /\ \A i \in 1..Len(q) : Symbols(q)[i] = q[i].token
    <2>1. Symbols(q) = [i \in 1..Len(q) |-> q[i].token]
      BY DEF Symbols
    <2>2. \A i \in 1..Len(q) : q[i].token \in Tokens
      <3>1. ASSUME NEW i \in 1..Len(q) PROVE q[i].token \in Tokens
        <4>1. q[i] \in Value
          OBVIOUS
        <4>2. QED
          BY <4>1 DEF Value
      <3>2. QED
        BY <3>1
    <2>3. QED
      BY <2>1, <2>2
  <1>2. ASSUME NEW v \in Value
        PROVE  Symbols(Append(s, v)) = Append(Symbols(s), v.token)
    <2> DEFINE a == Symbols(Append(s, v))
               b == Append(Symbols(s), v.token)
    <2>1. Append(s, v) \in Seq(Value) /\ v.token \in Tokens
      BY DEF Value
    <2>2. /\ a \in Seq(Tokens) /\ Len(a) = Len(s) + 1
          /\ \A i \in 1..(Len(s) + 1) : a[i] = Append(s, v)[i].token
      <3>1. Len(Append(s, v)) = Len(s) + 1
        OBVIOUS
      <3>2. QED
        BY <2>1, <1>1, <3>1
    <2>3. /\ b \in Seq(Tokens) /\ Len(b) = Len(s) + 1
          /\ \A i \in 1..Len(s) : b[i] = s[i].token
          /\ b[Len(s) + 1] = v.token
      BY <2>1, <1>1
    <2>4. \A i \in 1..(Len(s) + 1) : a[i] = b[i]
      BY <2>2, <2>3
    <2>5. a \in Seq(Tokens) /\ b \in Seq(Tokens) /\ Len(a) = Len(b) /\ \A i \in 1..Len(a) : a[i] = b[i]
      BY <2>2, <2>3, <2>4
    <2> HIDE DEF a, b
    <2>6. a = b
      BY <2>5
    <2>7. QED
      BY <2>6 DEF a, b
  <1>3. QED
    BY <1>1, <1>2

(* How to tell a sequence with one more element.                           *)
LEMMA OneMore ==
  ASSUME NEW S, NEW s \in Seq(S), NEW b \in S, NEW y \in Seq(S),
         Len(y) = Len(s) + 1, y[Len(s) + 1] = b, \A i \in 1..Len(s) : y[i] = s[i]
  PROVE  Append(s, b) = y
  <1> DEFINE x == Append(s, b)
  <1>1. /\ x \in Seq(S) /\ Len(x) = Len(s) + 1 /\ x[Len(s) + 1] = b
        /\ \A i \in 1..Len(s) : x[i] = s[i]
    OBVIOUS
  <1> HIDE DEF x
  <1>2. \A i \in 1..Len(x) : x[i] = y[i]
    <2>1. \A i \in 1..Len(x) : i \in 1..Len(s) \/ i = Len(s) + 1
      BY <1>1
    <2>2. QED
      BY <1>1, <2>1
  <1>3. x = y
    BY <1>1, <1>2
  <1>4. QED
    BY <1>3 DEF x

(* A rule begun that goes on with a token is one begun.                    *)
LEMMA BegunGoesOn ==
  ASSUME NEW rule \in Begun, NEW token, Continues(rule, token)
  PROVE  Append(rule, token) \in Begun
  <1> DEFINE C == "CREATE"  W == "WORD"  I == "INTEGER_LITERAL"
  <1>a. C \in Tokens /\ W \in Tokens /\ I \in Tokens
    BY DEF Tokens
  <1> HIDE DEF C, W, I
  <1>b. Append(<<C>>, W) = <<C, W>>
    <2>1. /\ <<C>> \in Seq(Tokens) /\ Len(<<C>>) = 1 /\ <<C>>[1] = C
          /\ <<C, W>> \in Seq(Tokens) /\ Len(<<C, W>>) = 2 /\ <<C, W>>[1] = C /\ <<C, W>>[2] = W
      BY <1>a
    <2> DEFINE s == <<C>>  y == <<C, W>>
    <2> HIDE DEF s, y
    <2>2. Len(y) = Len(s) + 1 /\ y[Len(s) + 1] = W /\ \A i \in 1..Len(s) : y[i] = s[i]
      BY <2>1 DEF s, y
    <2>3. Append(s, W) = y
      BY <1>a, <2>1, <2>2, OneMore DEF s, y
    <2>4. QED
      BY <2>3 DEF s, y
  <1>c. Append(<<C, W>>, I) = <<C, W, I>>
    <2>1. /\ <<C, W>> \in Seq(Tokens) /\ Len(<<C, W>>) = 2 /\ <<C, W>>[1] = C /\ <<C, W>>[2] = W
          /\ <<C, W, I>> \in Seq(Tokens) /\ Len(<<C, W, I>>) = 3
          /\ <<C, W, I>>[1] = C /\ <<C, W, I>>[2] = W /\ <<C, W, I>>[3] = I
      BY <1>a
    <2> DEFINE s == <<C, W>>  y == <<C, W, I>>
    <2> HIDE DEF s, y
    <2>2. Len(y) = Len(s) + 1 /\ y[Len(s) + 1] = I /\ \A i \in 1..Len(s) : y[i] = s[i]
      BY <2>1 DEF s, y
    <2>3. Append(s, I) = y
      BY <1>a, <2>1, <2>2, OneMore DEF s, y
    <2>4. QED
      BY <2>3 DEF s, y
  <1>d. Append(<<C, W, I>>, W) = <<C, W, I, W>>
    <2>1. /\ <<C, W, I>> \in Seq(Tokens) /\ Len(<<C, W, I>>) = 3
          /\ <<C, W, I>>[1] = C /\ <<C, W, I>>[2] = W /\ <<C, W, I>>[3] = I
          /\ <<C, W, I, W>> \in Seq(Tokens) /\ Len(<<C, W, I, W>>) = 4
          /\ <<C, W, I, W>>[1] = C /\ <<C, W, I, W>>[2] = W
          /\ <<C, W, I, W>>[3] = I /\ <<C, W, I, W>>[4] = W
      BY <1>a
    <2> DEFINE s == <<C, W, I>>  y == <<C, W, I, W>>
    <2> HIDE DEF s, y
    <2>2. Len(y) = Len(s) + 1 /\ y[Len(s) + 1] = W /\ \A i \in 1..Len(s) : y[i] = s[i]
      BY <2>1 DEF s, y
    <2>3. Append(s, W) = y
      BY <1>a, <2>1, <2>2, OneMore DEF s, y
    <2>4. QED
      BY <2>3 DEF s, y
  <1>0. /\ Append(<<"CREATE">>, "WORD") = <<"CREATE", "WORD">>
        /\ Append(<<"CREATE", "WORD">>, "INTEGER_LITERAL") = <<"CREATE", "WORD", "INTEGER_LITERAL">>
        /\ Append(<<"CREATE", "WORD", "INTEGER_LITERAL">>, "WORD")
             = <<"CREATE", "WORD", "INTEGER_LITERAL", "WORD">>
    BY <1>b, <1>c, <1>d DEF C, W, I
  <1>1. CASE rule = <<>> /\ token \in {"CREATE", "[IFDEF]", "CODE"}
    BY <1>1 DEF Begun
  <1>2. CASE rule = <<"CREATE">> /\ token = "WORD"
    BY <1>0, <1>2, Zenon DEF Begun
  <1>3. CASE rule = <<"CREATE", "WORD">> /\ token = "INTEGER_LITERAL"
    BY <1>0, <1>3, Zenon DEF Begun
  <1>4. CASE rule = <<"CREATE", "WORD", "INTEGER_LITERAL">> /\ token = "WORD"
    BY <1>0, <1>4, Zenon DEF Begun
  <1>5. QED
    BY <1>1, <1>2, <1>3, <1>4 DEF Continues

(* The token that is returned.                                             *)
LEMMA yylvalIs ==
  ASSUME Typing, NEW token \in Tokens, NEW k \in Nat
  PROVE  /\ yylval(token, k) \in Value /\ yylval(token, k).token = token
         /\ yylval(token, k).pos = Pos + 1 /\ yylval(token, k).addr = yy_c_buf_p
         /\ yylval(token, k).line = line
         /\ Shift(yylval(token, k)) = (taken - yy_n_chars) + 1
  <1>0. Buffered /\ line \in Nat
    BY DEF Typing, Parsing
  <1>1. Pos \in Nat /\ yy_c_buf_p \in Nat /\ taken - yy_n_chars \in Nat
        /\ Pos = (taken - yy_n_chars) + yy_c_buf_p
    BY <1>0, Places
  <1>2. (Pos + 1) - yy_c_buf_p = (taken - yy_n_chars) + 1
    BY <1>1
  <1>3. QED
    BY <1>0, <1>1, <1>2 DEF yylval, Value, Shift

(* A rule begun stays one while the scanner goes on.                       *)
LEMMA RuleStays ==
  ASSUME Typing, file' = file, NEW k \in Nat, Pos' = Pos + k, yyvs' = yyvs,
         NEW d \in Nat, (taken - yy_n_chars)' = (taken - yy_n_chars) + d
  PROVE  RuleBegun'
  <1>0. Buffered
    BY DEF Typing
  <1>1. Pos \in Nat /\ taken - yy_n_chars \in Nat
    BY <1>0, Places
  <1>2. Symbols(yyvs)' = Symbols(yyvs)
    BY DEF Symbols
  <1>3. ASSUME NEW i \in DOMAIN yyvs
        PROVE  /\ yyvs[i].pos \in 1..Pos'
               /\ file'[yyvs[i].pos] \notin Spaces
               /\ yyvs[i].token = "INTEGER_LITERAL" => file'[yyvs[i].pos] = "INT"
               /\ Shift(yyvs[i]) <= (taken' - yy_n_chars') + 1
    <2>1. /\ yyvs[i].pos \in 1..Pos
          /\ file[yyvs[i].pos] \notin Spaces
          /\ yyvs[i].token = "INTEGER_LITERAL" => file[yyvs[i].pos] = "INT"
          /\ Shift(yyvs[i]) <= (taken - yy_n_chars) + 1
      BY DEF Typing, RuleBegun
    <2>2. Shift(yyvs[i]) \in Int
      <3>1. yyvs[i] \in Value
        <4>1. yyvs \in Seq(Value)
          BY DEF Typing, Parsing
        <4>2. QED
          BY <4>1
      <3>2. QED
        BY <3>1 DEF Value, Shift
    <2>3. yyvs[i].pos \in 1..Pos'
      BY <1>1, <2>1
    <2>4. (taken' - yy_n_chars') + 1 = (taken - yy_n_chars) + d + 1
      OBVIOUS
    <2>5. Shift(yyvs[i]) <= (taken' - yy_n_chars') + 1
      BY <1>1, <2>1, <2>2, <2>4
    <2>6. QED
      BY <2>1, <2>3, <2>5
  <1>4. \A i, j \in DOMAIN yyvs : i < j =>
          yyvs[i].pos < yyvs[j].pos /\ Shift(yyvs[i]) <= Shift(yyvs[j])
    BY DEF Typing, RuleBegun
  <1>5. Symbols(yyvs)' \in Begun
    BY <1>2 DEF Typing, RuleBegun
  <1>6. QED
    BY <1>3, <1>4, <1>5 DEF RuleBegun, Shift

(* The rule is over.                                                       *)
LEMMA RuleOver ==
  ASSUME yyvs' = <<>>
  PROVE  RuleBegun'
  <1>1. Symbols(yyvs)' = <<>>
    BY DEF Symbols
  <1>2. DOMAIN yyvs' = {}
    OBVIOUS
  <1>3. QED
    BY <1>1, <1>2 DEF RuleBegun, Begun

(* A token is one more of the rule begun.                                  *)
LEMMA RuleGoesOn ==
  ASSUME Typing, file' = file, NEW k \in Nat \ {0}, Pos' = Pos + k,
         (taken - yy_n_chars)' = taken - yy_n_chars,
         NEW token \in Tokens, Continues(Symbols(yyvs), token),
         file[Pos + 1] \notin Spaces, token = "INTEGER_LITERAL" => file[Pos + 1] = "INT",
         yyvs' = Append(yyvs, yylval(token, k))
  PROVE  RuleBegun'
  <1> DEFINE n == Len(yyvs)
             v == yylval(token, k)
  <1>0. Buffered /\ yyvs \in Seq(Value)
    BY DEF Typing, Parsing
  <1>1. Pos \in Nat /\ taken - yy_n_chars \in Nat /\ yyvs \in Seq(Value) /\ n \in Nat
    BY <1>0, Places
  <1>2. /\ v \in Value /\ v.token = token /\ v.pos = Pos + 1 /\ Shift(v) = (taken - yy_n_chars) + 1
    BY yylvalIs
  <1> HIDE DEF v
  <1>3. Symbols(yyvs') \in Begun
    <2>1. Symbols(yyvs') = Append(Symbols(yyvs), token)
      BY <1>1, <1>2, SymbolsIs DEF v
    <2>2. Symbols(yyvs) \in Begun
      BY DEF Typing, RuleBegun
    <2>3. QED
      BY <2>1, <2>2, BegunGoesOn
  <1>4. DOMAIN yyvs' = 1..(n + 1) /\ yyvs'[n + 1] = v /\ \A i \in 1..n : yyvs'[i] = yyvs[i]
    BY <1>1, <1>2 DEF v
  <1>5. ASSUME NEW i \in 1..n
        PROVE  /\ yyvs[i].pos \in 1..Pos
               /\ file[yyvs[i].pos] \notin Spaces
               /\ yyvs[i].token = "INTEGER_LITERAL" => file[yyvs[i].pos] = "INT"
               /\ Shift(yyvs[i]) <= (taken - yy_n_chars) + 1
               /\ Shift(yyvs[i]) \in Int
    <2>1. i \in DOMAIN yyvs /\ yyvs[i] \in Value
      BY <1>1
    <2>2. QED
      BY <2>1 DEF Typing, RuleBegun, Value, Shift
  <1>6. ASSUME NEW i \in 1..(n + 1)
        PROVE  /\ yyvs'[i].pos \in 1..Pos'
               /\ file'[yyvs'[i].pos] \notin Spaces
               /\ yyvs'[i].token = "INTEGER_LITERAL" => file'[yyvs'[i].pos] = "INT"
               /\ Shift(yyvs'[i]) <= (taken' - yy_n_chars') + 1
    <2>1. CASE i = n + 1
      <3>1. yyvs'[i] = v
        BY <1>4, <2>1
      <3>2. (Pos + 1) \in 1..Pos'
        BY <1>1
      <3>3. QED
        BY <3>1, <3>2, <1>1, <1>2
    <2>2. CASE i \in 1..n
      <3>1. yyvs'[i] = yyvs[i]
        BY <1>4, <2>2
      <3>2. 1..Pos \subseteq 1..Pos'
        BY <1>1
      <3>3. QED
        BY <3>1, <3>2, <2>2, <1>5
    <2>3. QED
      BY <2>1, <2>2, <1>1
  <1>7. ASSUME NEW i \in 1..(n + 1), NEW j \in 1..(n + 1), i < j
        PROVE  yyvs'[i].pos < yyvs'[j].pos /\ Shift(yyvs'[i]) <= Shift(yyvs'[j])
    <2>1. i \in 1..n /\ yyvs'[i] = yyvs[i]
      BY <1>1, <1>4, <1>7
    <2>2. CASE j = n + 1
      <3>1. yyvs'[j] = v
        BY <1>4, <2>2
      <3>2. yyvs[i].pos < Pos + 1 /\ Shift(yyvs[i]) <= (taken - yy_n_chars) + 1
        BY <1>1, <1>5, <2>1
      <3>3. QED
        BY <3>1, <3>2, <2>1, <1>2
    <2>3. CASE j \in 1..n
      <3>1. yyvs'[j] = yyvs[j] /\ i \in DOMAIN yyvs /\ j \in DOMAIN yyvs
        BY <1>1, <1>4, <2>1, <2>3
      <3>2. QED
        BY <3>1, <2>1, <1>7 DEF Typing, RuleBegun
    <2>4. QED
      BY <2>2, <2>3, <1>1
  <1>8. QED
    BY <1>3, <1>4, <1>6, <1>7 DEF RuleBegun, Shift, Symbols


(* What the rule of a token reads for a word of its own, if the buffer was *)
(* not moved since the word was matched.                                   *)
LEMMA WordRead ==
  ASSUME Typing, NEW k \in 1..Len(ahead), NEW v \in Value,
         v.pos \in 1..Pos, Shift(v) = (taken - yy_n_chars) + 1
  PROVE  LET t == Text(v.addr, yy_c_buf_p + k) IN
         /\ t \in Seq(Characters) /\ Len(t) = ((Pos + k) - v.pos) + 1 /\ t # <<>>
         /\ \A i \in 1..Len(t) : t[i] = file[(v.pos - 1) + i]
  <1> DEFINE e == yy_c_buf_p + k
             t == Text(v.addr, e)
  <1>0. Buffered
    BY DEF Typing
  <1>1. /\ Pos \in Nat /\ yy_c_buf_p \in Nat /\ taken - yy_n_chars \in Nat /\ yy_n_chars \in Nat
        /\ Pos = (taken - yy_n_chars) + yy_c_buf_p /\ k \in Nat \ {0}
        /\ k <= yy_n_chars - yy_c_buf_p
    BY <1>0, Places
  <1>2. v.addr \in Nat /\ v.pos \in Nat /\ v.addr = v.pos - ((taken - yy_n_chars) + 1)
    <2>1. v.addr \in Nat /\ v.pos \in Nat
      BY DEF Value
    <2>2. v.pos - v.addr = (taken - yy_n_chars) + 1
      BY DEF Shift
    <2>3. QED
      BY <2>1, <2>2, <1>1
  <1>3. e \in 0..yy_n_chars /\ v.addr < e /\ e - v.addr = ((Pos + k) - v.pos) + 1
    <2> DEFINE d == taken - yy_n_chars
               a == v.addr
               q == v.pos
    <2>1. /\ d \in Nat /\ a \in Nat /\ q \in Nat /\ a = q - (d + 1) /\ q <= Pos /\ q >= 1
          /\ Pos = d + yy_c_buf_p
      BY <1>1, <1>2
    <2> HIDE DEF d, a, q
    <2>a. Pos \in Nat /\ yy_c_buf_p \in Nat /\ k \in Nat /\ k >= 1 /\ e = yy_c_buf_p + k
      BY <1>1
    <2> HIDE DEF e
    <2>b. a < e
      BY <2>1, <2>a
    <2>c. e - a = ((Pos + k) - q) + 1
      BY <2>1, <2>a
    <2>2. a < e /\ e - a = ((Pos + k) - q) + 1
      BY <2>b, <2>c
    <2>3. e \in 0..yy_n_chars
      BY <1>1, <2>a
    <2>4. QED
      BY <2>2, <2>3 DEF a, q
  <1>4. /\ t \in Seq(Characters) /\ Len(t) = e - v.addr
        /\ \A i \in 1..(e - v.addr) : t[i] = file[(taken - yy_n_chars) + (v.addr + i)]
    BY <1>0, <1>2, <1>3, TextIs
  <1>5. \A i \in Nat : (taken - yy_n_chars) + (v.addr + i) = (v.pos - 1) + i
    <2> DEFINE d == taken - yy_n_chars
               a == v.addr
               q == v.pos
    <2>1. d \in Nat /\ a \in Nat /\ q \in Nat /\ a = q - (d + 1)
      BY <1>1, <1>2
    <2> HIDE DEF d, a, q
    <2>2. \A i \in Nat : d + (a + i) = (q - 1) + i
      BY <2>1
    <2>3. QED
      BY <2>2 DEF d, a, q
  <1> HIDE DEF e, t
  <1>6. Len(t) = ((Pos + k) - v.pos) + 1 /\ Len(t) > 0
    BY <1>1, <1>2, <1>3, <1>4
  <1>7. t # <<>>
    BY <1>6
  <1>8. \A i \in 1..Len(t) : t[i] = file[(v.pos - 1) + i]
    <2>1. ASSUME NEW i \in 1..Len(t) PROVE t[i] = file[(v.pos - 1) + i]
      <3>1. i \in Nat /\ i \in 1..(e - v.addr)
        BY <1>4
      <3>2. QED
        BY <3>1, <1>4, <1>5
    <2>2. QED
      BY <2>1
  <1>9. QED
    BY <1>4, <1>6, <1>7, <1>8 DEF t, e

(* An array gets the name, the size and the unit that are written.         *)
LEMMA ArrayReadWell ==
  ASSUME Typing, NEW k \in 1..Len(ahead),
         Symbols(yyvs) \in {<<"CREATE", "WORD", "INTEGER_LITERAL">>,
                            <<"CREATE", "WORD", "INTEGER_LITERAL", "WORD">>}
  PROVE  LET rule == Append(yyvs, yylval("ALLOT", k)) IN
         ReadWell(file, Handled(rule, yy_c_buf_p + k))
  <1> DEFINE v    == yylval("ALLOT", k)
             rule == Append(yyvs, v)
             e    == yy_c_buf_p + k
             u    == Handled(rule, e)
             n    == Len(yyvs)
             D    == (taken - yy_n_chars) + 1
  <1>0. yyvs \in Seq(Value)
    BY DEF Typing, Parsing
  <1>1. yyvs \in Seq(Value) /\ n \in Nat
    BY <1>0
  <1>2. "ALLOT" \in Tokens
    BY DEF Tokens
  <1>3. v \in Value /\ v.token = "ALLOT" /\ Shift(v) = D
    BY <1>2, yylvalIs
  <1>4. D \in Int
    BY Places DEF Typing
  <1>5. /\ n = Len(Symbols(yyvs)) /\ n \in {3, 4}
        /\ Symbols(yyvs)[1] = "CREATE" /\ Symbols(yyvs)[2] = "WORD"
        /\ Symbols(yyvs)[3] = "INTEGER_LITERAL"
    BY <1>1, SymbolsIs
  <1>6. yyvs[1].token = "CREATE" /\ yyvs[2].token = "WORD" /\ yyvs[3].token = "INTEGER_LITERAL"
    BY <1>1, <1>5, SymbolsIs
  <1> HIDE DEF v
  <1>7. /\ rule \in Seq(Value) /\ Len(rule) = n + 1 /\ rule[n + 1] = v
        /\ \A i \in 1..n : rule[i] = yyvs[i]
    BY <1>1, <1>3
  <1> HIDE DEF rule, D
  <1>8. ASSUME NEW i \in 1..n, Shift(rule[1]) = D
        PROVE  /\ yyvs[i] \in Value /\ yyvs[i].pos \in 1..Pos /\ Shift(yyvs[i]) = D
               /\ file[yyvs[i].pos] \notin Spaces
               /\ yyvs[i].token = "INTEGER_LITERAL" => file[yyvs[i].pos] = "INT"
    <2>1. yyvs[i] \in Value /\ Shift(yyvs[i]) \in Int /\ i \in DOMAIN yyvs /\ 1 \in DOMAIN yyvs
      <3>1. yyvs[i] \in Value /\ i \in DOMAIN yyvs /\ 1 \in DOMAIN yyvs
        BY <1>1
      <3>2. QED
        BY <3>1 DEF Value, Shift
    <2>2. /\ yyvs[i].pos \in 1..Pos /\ file[yyvs[i].pos] \notin Spaces
          /\ yyvs[i].token = "INTEGER_LITERAL" => file[yyvs[i].pos] = "INT"
          /\ Shift(yyvs[i]) <= D
      BY <2>1 DEF Typing, RuleBegun, D
    <2>3. Shift(yyvs[1]) = D
      BY <1>5, <1>7, <1>8
    <2>4. i # 1 => Shift(yyvs[1]) <= Shift(yyvs[i])
      <3>1. i # 1 => 1 < i
        BY <1>1
      <3>2. QED
        BY <2>1, <3>1 DEF Typing, RuleBegun
    <2>5. Shift(yyvs[i]) = D
      BY <1>4, <2>1, <2>2, <2>3, <2>4
    <2>6. QED
      BY <2>1, <2>2, <2>5
  <1>9. ASSUME NEW i \in 1..n, Shift(rule[1]) = D
        PROVE  /\ Word(Text(rule[i].addr, e), 1) = file[rule[i].pos]
               /\ rule[i].token = "INTEGER_LITERAL" => Number(Text(rule[i].addr, e)) = file[rule[i].pos]
    <2> DEFINE w == yyvs[i]
               t == Text(w.addr, e)
    <2>1. /\ w \in Value /\ w.pos \in 1..Pos /\ Shift(w) = D /\ file[w.pos] \notin Spaces
          /\ w.token = "INTEGER_LITERAL" => file[w.pos] = "INT"
          /\ rule[i] = w
      BY <1>7, <1>8, <1>9
    <2>2. /\ t \in Seq(Characters) /\ t # <<>> /\ \A j \in 1..Len(t) : t[j] = file[(w.pos - 1) + j]
      BY <2>1, WordRead DEF D
    <2> HIDE DEF t
    <2>3. t[1] = file[w.pos]
      <3>1. 1 \in 1..Len(t) /\ (w.pos - 1) + 1 = w.pos
        BY <2>1, <2>2
      <3>2. QED
        BY <2>2, <3>1
    <2>4. Word(t, 1) = file[w.pos]
      BY <2>1, <2>2, <2>3, WordIs
    <2>5. w.token = "INTEGER_LITERAL" => Number(t) = file[w.pos]
      BY <2>1, <2>2, <2>3 DEF Number
    <2>6. QED
      BY <2>1, <2>4, <2>5 DEF t
  <1>10. rule[1].token = "CREATE"
    BY <1>5, <1>6, <1>7
  <1>11. u = [rule |-> rule,
              read |-> <<Word(Text(rule[2].addr, e), 1), Number(Text(rule[3].addr, e)),
                         IF Len(rule) = 5 THEN Word(Text(rule[4].addr, e), 1) ELSE "CHARS">>]
    BY <1>10 DEF Handled
  <1>12. Written(file, u) =
           <<file[rule[2].pos], file[rule[3].pos], IF Len(rule) = 5 THEN file[rule[4].pos] ELSE "CHARS">>
    <2>1. u.rule = rule /\ u.rule[1].token # "[IFDEF]"
      BY <1>10, <1>11
    <2> HIDE DEF u
    <2>2. QED
      BY <2>1 DEF Written
  <1>13. u.rule = rule
    BY <1>11
  <1>14. ASSUME u.rule[1].pos - u.rule[1].addr = Last(u.rule).pos - Last(u.rule).addr
         PROVE  u.read = Written(file, u)
    <2>1. Last(rule) = v
      BY <1>1, <1>7 DEF Last
    <2>2. Shift(rule[1]) = D
      <3>1. rule[1].pos - rule[1].addr = v.pos - v.addr
        BY <1>13, <1>14, <2>1
      <3>2. QED
        BY <3>1, <1>3 DEF Shift
    <2>3. /\ Word(Text(rule[2].addr, e), 1) = file[rule[2].pos]
          /\ Number(Text(rule[3].addr, e)) = file[rule[3].pos]
          /\ Len(rule) = 5 => Word(Text(rule[4].addr, e), 1) = file[rule[4].pos]
      <3>1. 2 \in 1..n /\ 3 \in 1..n /\ (Len(rule) = 5 => 4 \in 1..n)
        BY <1>5, <1>7
      <3>2. rule[3].token = "INTEGER_LITERAL"
        BY <1>6, <1>7, <3>1
      <3>3. QED
        BY <1>9, <2>2, <3>1, <3>2
    <2>4. QED
      BY <1>11, <1>12, <2>3
  <1> HIDE DEF u
  <1>15. ReadWell(file, u)
    BY <1>14 DEF ReadWell
  <1>16. QED
    BY <1>15 DEF u, e, rule, v


(* [IFDEF] tests the name that is written, if it is next to it.            *)
LEMMA ConditionReadWell ==
  ASSUME Typing, NEW k \in 1..Len(ahead), Symbols(yyvs) = <<"[IFDEF]">>,
         file[Pos + 1] \notin Spaces
  PROVE  LET rule == Append(yyvs, yylval("WORD", k)) IN
         ReadWell(file, Handled(rule, yy_c_buf_p + k))
  <1> DEFINE v    == yylval("WORD", k)
             rule == Append(yyvs, v)
             e    == yy_c_buf_p + k
             u    == Handled(rule, e)
             D    == (taken - yy_n_chars) + 1
             w    == yyvs[1]
             t    == Text(w.addr, e)
  <1>0. yyvs \in Seq(Value) /\ Buffered
    BY DEF Typing, Parsing
  <1>1. "WORD" \in Tokens
    BY DEF Tokens
  <1>2. v \in Value /\ v.token = "WORD" /\ Shift(v) = D /\ v.pos = Pos + 1
    BY <1>1, yylvalIs
  <1>3. Len(yyvs) = 1 /\ w.token = "[IFDEF]"
    <2>1. Len(Symbols(yyvs)) = 1 /\ Symbols(yyvs)[1] = "[IFDEF]"
      OBVIOUS
    <2>2. QED
      BY <1>0, <2>1, SymbolsIs
  <1>4. w \in Value /\ w.pos \in 1..Pos /\ file[w.pos] \notin Spaces /\ w.pos \in Nat
    <2>1. 1 \in DOMAIN yyvs /\ w \in Value
      BY <1>0, <1>3
    <2>2. QED
      BY <2>1 DEF Typing, RuleBegun, Value
  <1> HIDE DEF v
  <1>5. rule \in Seq(Value) /\ Len(rule) = 2 /\ rule[2] = v /\ rule[1] = w /\ DOMAIN rule = {1, 2}
    <2>a. /\ rule \in Seq(Value) /\ Len(rule) = Len(yyvs) + 1 /\ rule[Len(yyvs) + 1] = v
          /\ \A i \in 1..Len(yyvs) : rule[i] = yyvs[i]
      BY <1>0, <1>2
    <2> HIDE DEF rule
    <2>1. rule \in Seq(Value) /\ Len(rule) = 2 /\ rule[2] = v /\ rule[1] = w
      <3>1. Len(yyvs) + 1 = 2 /\ 1 \in 1..Len(yyvs)
        BY <1>3
      <3>2. QED
        BY <2>a, <3>1
    <2>2. DOMAIN rule = 1..2
      BY <2>1
    <2>3. QED
      BY <2>1, <2>2
  <1> HIDE DEF rule, D
  <1>6. u = [rule |-> rule, read |-> <<Word(Text(rule[1].addr, e), 2)>>]
    BY <1>3, <1>5 DEF Handled
  <1>7. u.rule = rule /\ u.read = <<Word(t, 2)>>
    BY <1>5, <1>6
  <1>8. Last(rule) = v
    BY <1>5 DEF Last
  <1> HIDE DEF u
  <1>9. Written(file, u) = <<file[Pos + 1]>>
    <2>1. u.rule[1].token = "[IFDEF]" /\ u.rule[2].pos = Pos + 1
      BY <1>2, <1>3, <1>5, <1>7
    <2>2. QED
      BY <2>1 DEF Written
  <1>10. ASSUME Plain(file, u), w.pos - w.addr = v.pos - v.addr
         PROVE  Word(t, 2) = file[Pos + 1]
    <2>1. Shift(w) = D
      BY <1>2, <1>10 DEF Shift
    <2>2. /\ t \in Seq(Characters) /\ Len(t) = ((Pos + k) - w.pos) + 1 /\ t # <<>>
          /\ \A i \in 1..Len(t) : t[i] = file[(w.pos - 1) + i]
      BY <1>4, <2>1, WordRead DEF D
    <2> HIDE DEF t
    <2> DEFINE m == ((Pos + 1) - w.pos) + 1
    <2>3. Pos \in Nat
      BY <1>0, Places
    <2> DEFINE q == w.pos
    <2>a. q \in Nat /\ q >= 1 /\ q <= Pos /\ Len(t) = ((Pos + k) - q) + 1 /\ k \in Nat /\ k >= 1
      <3>1. k \in Nat \ {0}
        BY <1>0, Places
      <3>2. QED
        BY <1>4, <2>2, <3>1
    <2> HIDE DEF q
    <2>b. m = ((Pos + 1) - q) + 1
      BY DEF q
    <2> HIDE DEF m
    <2>4. m \in 2..Len(t) /\ (w.pos - 1) + m = Pos + 1 /\ 1 \in 1..Len(t) /\ (w.pos - 1) + 1 = w.pos
      <3>1. m \in 2..Len(t) /\ (q - 1) + m = Pos + 1 /\ 1 \in 1..Len(t) /\ (q - 1) + 1 = q
        BY <2>a, <2>b, <2>3
      <3>2. QED
        BY <3>1 DEF q
    <2>5. t[1] \notin Spaces /\ t[m] = file[Pos + 1]
      BY <1>4, <2>2, <2>4
    <2>6. ASSUME NEW j \in 2..(m - 1) PROVE t[j] \in Spaces
      <3>1. /\ j \in 1..Len(t) /\ (w.pos - 1) + j \in w.pos..(Pos + 1)
            /\ (w.pos - 1) + j # w.pos /\ (w.pos - 1) + j # Pos + 1
        <4>1. m \in 2..Len(t) /\ m = ((Pos + 1) - q) + 1 /\ Len(t) \in Nat
          BY <2>2, <2>4, <2>b
        <4>2. j \in Nat /\ j >= 2 /\ j <= m - 1
          BY <4>1
        <4>3. /\ j \in 1..Len(t) /\ (q - 1) + j \in q..(Pos + 1)
              /\ (q - 1) + j # q /\ (q - 1) + j # Pos + 1
          BY <4>1, <4>2, <2>a, <2>3
        <4>4. QED
          BY <4>3 DEF q
      <3>2. \A i \in w.pos..(Pos + 1) : file[i] \in Spaces \/ i = w.pos \/ i = Pos + 1
        <4>1. \A i \in w.pos..(Pos + 1) :
                file[i] \in Spaces \/ \E x \in DOMAIN rule : rule[x].pos = i
          BY <1>2, <1>5, <1>7, <1>8, <1>10 DEF Plain
        <4>2. QED
          BY <4>1, <1>2, <1>5
      <3>3. QED
        BY <2>2, <3>1, <3>2
    <2>7. Word(t, 2) = t[m]
      BY <2>2, <2>4, <2>5, <2>6, WordIs
    <2>8. QED
      BY <2>5, <2>7
  <1>11. ReadWell(file, u)
    <2>1. u.rule[1] = w /\ Last(u.rule) = v /\ u.rule[1].token = "[IFDEF]"
      BY <1>3, <1>5, <1>7, <1>8
    <2>2. /\ w.pos - w.addr = v.pos - v.addr /\ Plain(file, u)
          => u.read = Written(file, u)
      BY <1>7, <1>9, <1>10
    <2>3. QED
      BY <2>1, <2>2 DEF ReadWell
  <1>12. QED
    BY <1>11 DEF u, rule, v, e

(* The types, the rule begun and what the rules have read stay right when  *)
(* a token is returned.                                                    *)
LEMMA ReturnKeeps ==
  ASSUME Typing, RulesReadWell, status = "lexing", NEW token \in Tokens, NEW k \in 1..Len(ahead),
         NEW condition \in Conditions, Return(token, k, condition),
         token \notin {"ASM", "END_CODE"} => file[Pos + 1] \notin Spaces,
         token = "INTEGER_LITERAL" => file[Pos + 1] = "INT"
  PROVE  Typing' /\ RulesReadWell' /\ Pos' = Pos + k /\ file' = file /\ status' \in {"lexing", "gave up"}
  <1>1. Buffered /\ Parsing /\ RuleBegun
    BY DEF Typing
  <1>2. /\ UNCHANGED <<input, line>> /\ yy_c_buf_p' = yy_c_buf_p + k /\ sc' = condition
        /\ tokens' = Append(tokens, yylval(token, k))
        /\ errors' \in Nat
        /\ recovering' \in BOOLEAN /\ conds' \in Seq(BOOLEAN)
        /\ status' \in {"lexing", "gave up"}
    BY ReturnIs
  <1>3. \/ yyvs' = yyvs \/ yyvs' = <<>>
        \/ yyvs' = Append(yyvs, yylval(token, k)) /\ Continues(Symbols(yyvs), token)
    BY ReturnIs
  <1>4. \/ uses' = uses
        \/ /\ uses' = Append(uses, Handled(Append(yyvs, yylval(token, k)), yy_c_buf_p + k))
           /\ Completes(Symbols(yyvs), token)
           /\ Len(Append(yyvs, yylval(token, k))) > 1
           /\ Append(yyvs, yylval(token, k))[1].token # "CODE"
    BY ReturnIs
  <1>5. k \in 0..Len(ahead) /\ k \in Nat \ {0}
    BY <1>1, Places
  <1>6. /\ Buffered' /\ Pos' = Pos + k /\ file' = file
        /\ dropped' = dropped /\ taken' = taken /\ yy_n_chars' = yy_n_chars
    BY <1>1, <1>2, <1>5, Matched
  <1>7. Pos \in Nat /\ taken - yy_n_chars \in Nat
    BY <1>1, Places
  <1>8. yylval(token, k) \in Value
    BY yylvalIs
  <1>9. RuleBegun'
    <2>1. CASE yyvs' = yyvs
      <3>1. (taken - yy_n_chars)' = (taken - yy_n_chars) + 0
        BY <1>6, <1>7
      <3>2. k \in Nat
        BY <1>5
      <3>3. QED
        BY <2>1, <3>1, <3>2, <1>6, RuleStays
    <2>2. CASE yyvs' = <<>>
      BY <2>2, RuleOver
    <2>3. CASE yyvs' = Append(yyvs, yylval(token, k)) /\ Continues(Symbols(yyvs), token)
      <3>1. token \notin {"ASM", "END_CODE"}
        BY <2>3 DEF Continues
      <3>2. (taken - yy_n_chars)' = taken - yy_n_chars
        BY <1>6
      <3>3. QED
        BY <2>3, <3>1, <3>2, <1>5, <1>6, RuleGoesOn
    <2>4. QED
      BY <2>1, <2>2, <2>3, <1>3
  <1>10. IsSeq(uses') /\ RulesReadWell'
    <2>1. IsSeq(uses) /\ \A i \in DOMAIN uses : ReadWell(file, uses[i])
      BY <1>1 DEF Parsing, RulesReadWell
    <2>2. CASE uses' = uses
      BY <2>1, <2>2, <1>6 DEF RulesReadWell
    <2>3. ASSUME NEW u, uses' = Append(uses, u), ReadWell(file, u)
          PROVE  IsSeq(uses') /\ RulesReadWell'
      <3>1. /\ IsSeq(uses') /\ DOMAIN uses' = 1..(Len(uses) + 1) /\ uses'[Len(uses) + 1] = u
            /\ DOMAIN uses = 1..Len(uses) /\ Len(uses) \in Nat
            /\ \A i \in 1..Len(uses) : uses'[i] = uses[i]
        BY <2>1, <2>3, Appended
      <3>2. ASSUME NEW i \in DOMAIN uses' PROVE ReadWell(file, uses'[i])
        <4>1. i \in 1..Len(uses) \/ i = Len(uses) + 1
          BY <3>1
        <4>2. QED
          BY <4>1, <3>1, <2>1, <2>3
      <3>3. QED
        BY <3>1, <3>2, <1>6 DEF RulesReadWell
    <2>4. CASE /\ uses' = Append(uses, Handled(Append(yyvs, yylval(token, k)), yy_c_buf_p + k))
               /\ Completes(Symbols(yyvs), token)
               /\ Len(Append(yyvs, yylval(token, k))) > 1
               /\ Append(yyvs, yylval(token, k))[1].token # "CODE"
      <3>1. yyvs \in Seq(Value)
        BY <1>1 DEF Parsing
      <3>2. Symbols(yyvs) # <<>>
        <4>1. Len(yyvs) # 0
          BY <2>4, <3>1, <1>8
        <4>2. Len(Symbols(yyvs)) # 0
          BY <3>1, <4>1, SymbolsIs
        <4>3. QED
          BY <4>2
      <3>3. Symbols(yyvs) # <<"CODE">>
        <4>1. ASSUME Symbols(yyvs) = <<"CODE">> PROVE FALSE
          <5>1. Len(Symbols(yyvs)) = 1 /\ Symbols(yyvs)[1] = "CODE"
            BY <4>1
          <5>2. Len(yyvs) = 1 /\ yyvs[1].token = "CODE"
            BY <3>1, <5>1, SymbolsIs
          <5>3. Append(yyvs, yylval(token, k))[1] = yyvs[1]
            BY <3>1, <5>2, <1>8
          <5>4. QED
            BY <2>4, <5>2, <5>3
        <4>2. QED
          BY <4>1
      <3>4. \/ Symbols(yyvs) = <<"[IFDEF]">> /\ token = "WORD"
            \/ /\ Symbols(yyvs) \in {<<"CREATE", "WORD", "INTEGER_LITERAL">>,
                                     <<"CREATE", "WORD", "INTEGER_LITERAL", "WORD">>}
               /\ token = "ALLOT"
        BY <2>4, <3>2, <3>3, Zenon DEF Completes
      <3>5. ReadWell(file, Handled(Append(yyvs, yylval(token, k)), yy_c_buf_p + k))
        <4>1. CASE Symbols(yyvs) = <<"[IFDEF]">> /\ token = "WORD"
          <5>1. token \notin {"ASM", "END_CODE"}
            BY <4>1
          <5>2. file[Pos + 1] \notin Spaces
            BY <5>1
          <5>3. ReadWell(file, Handled(Append(yyvs, yylval("WORD", k)), yy_c_buf_p + k))
            BY <4>1, <5>2, ConditionReadWell
          <5>4. QED
            BY <4>1, <5>3
        <4>2. CASE /\ Symbols(yyvs) \in {<<"CREATE", "WORD", "INTEGER_LITERAL">>,
                                        <<"CREATE", "WORD", "INTEGER_LITERAL", "WORD">>}
                   /\ token = "ALLOT"
          <5>1. ReadWell(file, Handled(Append(yyvs, yylval("ALLOT", k)), yy_c_buf_p + k))
            BY <4>2, ArrayReadWell
          <5>2. QED
            BY <4>2, <5>1
        <4>3. QED
          BY <3>4, <4>1, <4>2
      <3>6. QED
        BY <2>3, <2>4, <3>5
    <2>5. QED
      BY <1>4, <2>2, <2>4
  <1>11. Parsing'
    <2>0. line \in Nat \ {0} /\ line <= Pos + 1 /\ tokens \in Seq(Value) /\ yyvs \in Seq(Value)
      BY <1>1 DEF Parsing
    <2>a. line' = line /\ tokens' = Append(tokens, yylval(token, k)) /\ Pos' = Pos + k
      BY <1>2, <1>6
    <2>1. line' = line /\ line \in Nat \ {0} /\ line <= Pos + 1 /\ line <= Pos' + 1
      BY <2>0, <2>a, <1>5, <1>7
    <2>2. tokens' \in Seq(Value)
      BY <2>0, <2>a, <1>8
    <2>3. yyvs' \in Seq(Value)
      <3>1. \/ yyvs' = yyvs \/ yyvs' = <<>> \/ yyvs' = Append(yyvs, yylval(token, k))
        BY <1>3
      <3>2. Append(yyvs, yylval(token, k)) \in Seq(Value) /\ <<>> \in Seq(Value)
        BY <2>0, <1>8
      <3>3. QED
        BY <2>0, <3>1, <3>2
    <2>4. QED
      BY <2>1, <2>2, <2>3, <1>2, <1>10 DEF Parsing
  <1>12. QED
    BY <1>2, <1>6, <1>9, <1>10, <1>11 DEF Typing


-----------------------------------------------------------------------------
(* The steps of the scanner, by the characters of the file.                *)
NewlineStep ==
  /\ sc # "comment" /\ file[Pos + 1] = Newline
  /\ Skip(1, IF sc = "code1" THEN "code1"
             ELSE IF sc \in {"code2", "code3"} THEN "code3" ELSE "INITIAL", 1)

BlankStep ==
  /\ sc \in {"INITIAL", "rest", "code1", "code2"}
  /\ \E k \in 1..Len(ahead) :
       /\ \A j \in 1..k : file[Pos + j] = Blank
       /\ Skip(k, IF sc = "rest" THEN "INITIAL" ELSE sc, 0)

LineStep ==
  /\ sc \in {"INITIAL", "rest", "code2"}
  /\ \E k \in 2..Len(ahead) :
       /\ file[Pos + 1] = "\\" /\ file[Pos + 2] \in Spaces
       /\ file[Pos + k] = Newline /\ \A j \in 1..(k - 1) : file[Pos + j] # Newline
       /\ Skip(k, IF sc = "code2" THEN "code3" ELSE "INITIAL", 1)

ParenStep ==
  /\ sc \in {"INITIAL", "rest"} /\ Len(ahead) >= 2
  /\ file[Pos + 1] = "(" /\ file[Pos + 2] = Blank
  /\ Skip(2, "comment", 0)

CommentStep ==
  /\ sc = "comment"
  /\ Skip(1, IF file[Pos + 1] = ")" THEN "INITIAL" ELSE "comment",
             IF file[Pos + 1] = Newline THEN 1 ELSE 0)

CodeCommentStep ==
  /\ sc = "code2" /\ file[Pos + 1] = "(" /\ file[Pos + 2] = Blank
  /\ \E k \in 2..Len(ahead) :
       /\ file[Pos + k] = ")" /\ \A j \in 1..(k - 1) : file[Pos + j] # ")"
       /\ Skip(k, "code2", 0)

WordStep ==
  /\ sc \in {"INITIAL", "rest"} /\ file[Pos + 1] \notin Spaces
  /\ sc = "INITIAL" => /\ ~Begins(file, Pos + 1, "(")
                       /\ Last(file) = Newline => ~Begins(file, Pos + 1, "\\")
  /\ \E token \in Tokens \ {"ASM", "END_CODE"} :
       /\ token = "INTEGER_LITERAL" => file[Pos + 1] = "INT"
       /\ token = "CODE" => file[Pos + 1] = "CODE"
       /\ Return(token, 1, IF token = "CODE" THEN "code1" ELSE "INITIAL")

NameStep ==
  /\ sc = "code1" /\ file[Pos + 1] \notin Spaces
  /\ Return("WORD", 1, "code2")

ErrorStep ==
  /\ sc = "code2" /\ file[Pos + 1] \notin Spaces
  /\ \E k \in 0..1 : \E condition \in {"rest", "INITIAL"} :
       /\ yy_c_buf_p' = yy_c_buf_p + k /\ sc' = condition
       /\ errors' = errors + 1
       /\ UNCHANGED <<input, line, yyvs, recovering, conds, status, tokens, uses>>

CodeStep ==
  /\ sc = "code3"
  /\ \E k \in 1..Len(ahead), token \in {"ASM", "END_CODE"} :
       /\ \A j \in 1..k : file[Pos + j] # Newline
       /\ Pos + k < Len(file) => file[(Pos + k) + 1] = Newline
       /\ Return(token, k, IF token = "END_CODE" THEN "INITIAL" ELSE "code3")

(* Every step that matches something is one of these.                      *)
LEMMA Steps ==
  ASSUME Typing, yylex
  PROVE  /\ status = "lexing"
         /\ \/ EndOfFile /\ Pos = Len(file)
            \/ /\ 1 \in 1..Len(ahead)
               /\ \/ NewlineStep \/ BlankStep \/ LineStep \/ ParenStep \/ CommentStep
                  \/ CodeCommentStep \/ WordStep \/ NameStep \/ ErrorStep \/ CodeStep
  <1> DEFINE t == ahead
  <1>1. Buffered /\ sc \in Conditions
    BY DEF Typing, Parsing
  <1>2. Matching /\ status = "lexing"
    BY DEF yylex, Matching
  <1>3. /\ t \in Seq(Characters) /\ DOMAIN t = 1..Len(t) /\ Len(t) \in Nat /\ Pos \in Nat
        /\ Len(file) \in Nat /\ Pos + Len(t) <= Len(file)
        /\ \A i \in 1..Len(t) : Pos + i \in DOMAIN file /\ t[i] = file[Pos + i]
    <2>1. /\ Pos \in Nat /\ Len(file) \in Nat /\ taken \in 0..Len(file) /\ Len(t) \in Nat
      <3>1. t \in Seq(Characters)
        BY <1>1, AheadIs
      <3>2. QED
        BY <1>1, <3>1, Places DEF Buffered
    <2>2. QED
      BY <1>1, <2>1, AheadIs
  <1>4. AtEnd(t) => Pos + Len(t) = Len(file)
    BY <1>1, <1>2, Decided
  <1>5. CASE EndOfFile
    <2>1. t = <<>>
      BY <1>5 DEF EndOfFile
    <2>2. AtEnd(t) /\ Len(t) = 0
      BY <2>1 DEF AtEnd
    <2>3. Pos = Len(file)
      BY <1>3, <1>4, <2>2
    <2>4. QED
      BY <1>2, <1>5, <2>3
  <1>6. ASSUME t # <<>> PROVE 1 \in 1..Len(t) /\ t[1] = file[Pos + 1]
    BY <1>3, <1>6
  <1>7. CASE t # <<>> /\ Initial(t)
    <2>1. sc \in {"INITIAL", "rest"} /\ 1 \in 1..Len(t) /\ t[1] = file[Pos + 1]
      BY <1>6, <1>7 DEF Initial
    <2> HIDE DEF t
    <2>2. CASE t[1] = Newline /\ Skip(1, "INITIAL", 1)
      BY <1>2, <2>1, <2>2 DEF NewlineStep, t
    <2>3. CASE t[1] = Blank /\ Skip(Blanks(t), "INITIAL", 0)
      <3>1. /\ Blanks(t) \in 0..Len(t) /\ \A j \in 1..Blanks(t) : t[j] = Blank
            /\ Blanks(t) < Len(t) => t[Blanks(t) + 1] # Blank
        BY <1>3, BlanksAre
      <3>2. Blanks(t) \in 1..Len(t)
        BY <1>3, <2>1, <2>3, <3>1
      <3>3. \A j \in 1..Blanks(t) : file[Pos + j] = Blank
        BY <1>3, <3>1
      <3>4. BlankStep
        BY <2>1, <2>3, <3>2, <3>3 DEF BlankStep, t
      <3>5. QED
        BY <1>2, <2>1, <3>4 DEF t
    <2>4. CASE LineComment(t) /\ Skip(First(t, Newline), "INITIAL", 1)
      <3>1. Len(t) > 1 /\ t[1] = "\\" /\ t[2] \in Spaces /\ First(t, Newline) # 0
        BY <2>4 DEF LineComment
      <3>2. /\ First(t, Newline) \in 1..Len(t) /\ t[First(t, Newline)] = Newline
            /\ \A j \in 1..(First(t, Newline) - 1) : t[j] # Newline
        BY <1>3, <3>1, FirstIs
      <3>3. First(t, Newline) \in 2..Len(t)
        BY <1>3, <3>1, <3>2 DEF Newline
      <3>4. /\ file[Pos + 1] = "\\" /\ file[Pos + 2] \in Spaces /\ file[Pos + First(t, Newline)] = Newline
            /\ \A j \in 1..(First(t, Newline) - 1) : file[Pos + j] # Newline
        <4> DEFINE f == First(t, Newline)
        <4>1. 1 \in 1..Len(t) /\ 2 \in 1..Len(t) /\ f \in 1..Len(t) /\ Len(t) \in Nat
          BY <1>3, <3>1, <3>2
        <4> HIDE DEF f
        <4>2. t[1] = file[Pos + 1] /\ t[2] = file[Pos + 2] /\ t[f] = file[Pos + f]
          BY <1>3, <4>1, Zenon
        <4>3. ASSUME NEW j \in 1..(f - 1) PROVE file[Pos + j] # Newline
          <5>1. j \in 1..Len(t)
            BY <4>1
          <5>2. t[j] = file[Pos + j]
            BY <1>3, <5>1, Zenon
          <5>3. QED
            BY <3>2, <5>2, Zenon DEF f
        <4>4. QED
          BY <3>1, <3>2, <4>2, <4>3, Zenon DEF f
      <3>5. LineStep
        BY <2>1, <2>4, <3>3, <3>4 DEF LineStep, t
      <3>6. QED
        BY <1>2, <2>1, <3>5 DEF t
    <2>5. CASE Parenthesis(t) /\ Skip(2, "comment", 0)
      <3>1. Len(t) > 1 /\ t[1] = "(" /\ t[2] = Blank
        BY <2>5 DEF Parenthesis
      <3>2. file[Pos + 1] = "(" /\ file[Pos + 2] = Blank /\ Len(t) >= 2
        BY <1>3, <3>1
      <3>3. ParenStep
        BY <2>1, <2>5, <3>2 DEF ParenStep, t
      <3>4. QED
        BY <1>2, <2>1, <3>3 DEF t
    <2>6. CASE /\ t[1] \notin Spaces /\ ~LineComment(t) /\ ~Parenthesis(t)
               /\ IF sc = "rest" THEN Return("WORD", 1, "INITIAL")
                  ELSE Return(Token(t[1]), 1, IF t[1] = "CODE" THEN "code1" ELSE "INITIAL")
      <3>1. t[1] # Newline
        BY <2>6 DEF Spaces
      <3>2. ASSUME sc = "INITIAL" PROVE ~Begins(file, Pos + 1, "(")
        <4>1. ASSUME file[Pos + 1] = "(", Pos + 1 < Len(file), file[Pos + 2] = Blank PROVE FALSE
          <5>1. Len(t) # 1
            <6>1. Len(t) = 1 => AtEnd(t)
              BY <1>3, <3>1, <3>2 DEF AtEnd
            <6>2. Len(t) = 1 => Pos + 1 = Len(file)
              BY <1>4, <6>1
            <6>3. Pos \in Nat /\ Len(file) \in Nat
              BY <1>3, Zenon
            <6>4. Pos + 1 # Len(file)
              BY <4>1, <6>3
            <6>5. QED
              BY <6>2, <6>4
          <5>2. Len(t) > 1 /\ t[2] = file[Pos + 2]
            BY <1>3, <2>1, <5>1
          <5>3. QED
            BY <2>1, <2>6, <4>1, <5>2 DEF Parenthesis
        <4>2. (Pos + 1) + 1 = Pos + 2
          BY <1>3
        <4>3. QED
          BY <4>1, <4>2 DEF Begins
      <3>3. ASSUME sc = "INITIAL", Last(file) = Newline PROVE ~Begins(file, Pos + 1, "\\")
        <4>1. ASSUME file[Pos + 1] = "\\", Pos + 1 < Len(file), file[Pos + 2] \in Spaces PROVE FALSE
          <5>1. Len(t) # 1
            <6>1. Len(t) = 1 => AtEnd(t)
              BY <1>3, <3>1, <3>3 DEF AtEnd
            <6>2. Len(t) = 1 => Pos + 1 = Len(file)
              BY <1>4, <6>1
            <6>3. Pos \in Nat /\ Len(file) \in Nat
              BY <1>3, Zenon
            <6>4. Pos + 1 # Len(file)
              BY <4>1, <6>3
            <6>5. QED
              BY <6>2, <6>4
          <5>2. Len(t) > 1 /\ t[2] = file[Pos + 2]
            BY <1>3, <2>1, <5>1
          <5>3. First(t, Newline) = 0
            BY <2>1, <2>6, <4>1, <5>2 DEF LineComment
          <5>4. \A i \in DOMAIN t : t[i] # Newline
            <6>1. (\E i \in DOMAIN t : t[i] = Newline) => First(t, Newline) \in 1..Len(t)
              BY <1>3, FirstIs
            <6>2. QED
              BY <1>3, <5>3, <6>1
          <5>5. t[2] = Blank
            <6>1. t[2] # Newline
              <7>1. DOMAIN t = 1..Len(t) /\ Len(t) \in Nat
                BY <1>3, Zenon
              <7>2. 2 \in DOMAIN t
                BY <5>2, <7>1
              <7>3. QED
                BY <5>4, <7>2
            <6>2. QED
              BY <4>1, <5>2, <6>1 DEF Spaces
          <5>6. AtEnd(t)
            BY <2>1, <3>3, <4>1, <5>2, <5>3, <5>5 DEF AtEnd
          <5>7. Pos + Len(t) = Len(file)
            BY <1>4, <5>6
          <5>8. t[Len(t)] = file[Len(file)] /\ Len(t) \in DOMAIN t
            BY <1>3, <2>1, <5>7
          <5>9. QED
            BY <3>3, <5>4, <5>8 DEF Last
        <4>2. (Pos + 1) + 1 = Pos + 2
          BY <1>3
        <4>3. QED
          BY <4>1, <4>2 DEF Begins
      <3>4. \E token \in Tokens \ {"ASM", "END_CODE"} :
              /\ token = "INTEGER_LITERAL" => file[Pos + 1] = "INT"
              /\ token = "CODE" => file[Pos + 1] = "CODE"
              /\ Return(token, 1, IF token = "CODE" THEN "code1" ELSE "INITIAL")
        <4>1. CASE sc = "rest"
          <5>1. Return("WORD", 1, "INITIAL")
            BY <2>6, <4>1
          <5>2. "WORD" \in Tokens \ {"ASM", "END_CODE"}
            BY DEF Tokens
          <5>3. QED
            BY <5>1, <5>2
        <4>2. CASE sc # "rest"
          <5>1. Return(Token(t[1]), 1, IF t[1] = "CODE" THEN "code1" ELSE "INITIAL")
            BY <2>6, <4>2
          <5>2. /\ Token(t[1]) \in Tokens \ {"ASM", "END_CODE"}
                /\ Token(t[1]) = "INTEGER_LITERAL" => t[1] = "INT"
                /\ Token(t[1]) = "CODE" <=> t[1] = "CODE"
            BY DEF Token, Tokens
          <5>3. Return(Token(t[1]), 1, IF Token(t[1]) = "CODE" THEN "code1" ELSE "INITIAL")
            BY <5>1, <5>2
          <5>4. QED
            BY <2>1, <5>2, <5>3
        <4>3. QED
          BY <4>1, <4>2
      <3>5. WordStep
        BY <2>1, <2>6, <3>2, <3>3, <3>4 DEF WordStep
      <3>6. QED
        BY <1>2, <2>1, <3>5 DEF t
    <2>7. QED
      BY <1>7, <2>2, <2>3, <2>4, <2>5, <2>6 DEF Initial
  <1>8. CASE t # <<>> /\ Comment(t)
    <2>1. CommentStep
      BY <1>6, <1>8 DEF Comment, CommentStep
    <2>2. QED
      BY <1>2, <1>6, <1>8, <2>1
  <1>9. CASE t # <<>> /\ Code1(t)
    <2>1. sc = "code1" /\ 1 \in 1..Len(t) /\ t[1] = file[Pos + 1]
      BY <1>6, <1>9 DEF Code1
    <2> HIDE DEF t
    <2>2. CASE t[1] = Newline /\ Skip(1, "code1", 1)
      BY <1>2, <2>1, <2>2 DEF NewlineStep, t
    <2>3. CASE t[1] = Blank /\ Skip(Blanks(t), "code1", 0)
      <3>1. /\ Blanks(t) \in 0..Len(t) /\ \A j \in 1..Blanks(t) : t[j] = Blank
            /\ Blanks(t) < Len(t) => t[Blanks(t) + 1] # Blank
        BY <1>3, BlanksAre
      <3>2. Blanks(t) \in 1..Len(t)
        BY <1>3, <2>1, <2>3, <3>1
      <3>3. \A j \in 1..Blanks(t) : file[Pos + j] = Blank
        BY <1>3, <3>1
      <3>4. BlankStep
        BY <2>1, <2>3, <3>2, <3>3 DEF BlankStep, t
      <3>5. QED
        BY <1>2, <2>1, <3>4 DEF t
    <2>4. CASE t[1] \notin Spaces /\ Return("WORD", 1, "code2")
      BY <1>2, <2>1, <2>4 DEF NameStep, t
    <2>5. QED
      BY <1>9, <2>2, <2>3, <2>4 DEF Code1
  <1>10. CASE t # <<>> /\ Code2(t)
    <2>1. sc = "code2" /\ 1 \in 1..Len(t) /\ t[1] = file[Pos + 1]
      BY <1>6, <1>10 DEF Code2
    <2> HIDE DEF t
    <2>2. CASE t[1] = Newline /\ Skip(1, "code3", 1)
      BY <1>2, <2>1, <2>2 DEF NewlineStep, t
    <2>3. CASE t[1] = Blank /\ Skip(Blanks(t), "code2", 0)
      <3>1. /\ Blanks(t) \in 0..Len(t) /\ \A j \in 1..Blanks(t) : t[j] = Blank
            /\ Blanks(t) < Len(t) => t[Blanks(t) + 1] # Blank
        BY <1>3, BlanksAre
      <3>2. Blanks(t) \in 1..Len(t)
        BY <1>3, <2>1, <2>3, <3>1
      <3>3. \A j \in 1..Blanks(t) : file[Pos + j] = Blank
        BY <1>3, <3>1
      <3>4. BlankStep
        BY <2>1, <2>3, <3>2, <3>3 DEF BlankStep, t
      <3>5. QED
        BY <1>2, <2>1, <3>4 DEF t
    <2>4. CASE LineComment(t) /\ Skip(First(t, Newline), "code3", 1)
      <3>1. Len(t) > 1 /\ t[1] = "\\" /\ t[2] \in Spaces /\ First(t, Newline) # 0
        BY <2>4 DEF LineComment
      <3>2. /\ First(t, Newline) \in 1..Len(t) /\ t[First(t, Newline)] = Newline
            /\ \A j \in 1..(First(t, Newline) - 1) : t[j] # Newline
        BY <1>3, <3>1, FirstIs
      <3>3. First(t, Newline) \in 2..Len(t)
        BY <1>3, <3>1, <3>2 DEF Newline
      <3>4. /\ file[Pos + 1] = "\\" /\ file[Pos + 2] \in Spaces /\ file[Pos + First(t, Newline)] = Newline
            /\ \A j \in 1..(First(t, Newline) - 1) : file[Pos + j] # Newline
        <4> DEFINE f == First(t, Newline)
        <4>1. 1 \in 1..Len(t) /\ 2 \in 1..Len(t) /\ f \in 1..Len(t) /\ Len(t) \in Nat
          BY <1>3, <3>1, <3>2
        <4> HIDE DEF f
        <4>2. t[1] = file[Pos + 1] /\ t[2] = file[Pos + 2] /\ t[f] = file[Pos + f]
          BY <1>3, <4>1, Zenon
        <4>3. ASSUME NEW j \in 1..(f - 1) PROVE file[Pos + j] # Newline
          <5>1. j \in 1..Len(t)
            BY <4>1
          <5>2. t[j] = file[Pos + j]
            BY <1>3, <5>1, Zenon
          <5>3. QED
            BY <3>2, <5>2, Zenon DEF f
        <4>4. QED
          BY <3>1, <3>2, <4>2, <4>3, Zenon DEF f
      <3>5. LineStep
        BY <2>1, <2>4, <3>3, <3>4 DEF LineStep, t
      <3>6. QED
        BY <1>2, <2>1, <3>5 DEF t
    <2>5. CASE CodeComment(t) /\ Skip(First(t, ")"), "code2", 0)
      <3> DEFINE f == First(t, ")")
      <3>1. Len(t) > 1 /\ t[1] = "(" /\ t[2] = Blank /\ f # 0
        BY <2>5 DEF CodeComment, Parenthesis
      <3>2. f \in 1..Len(t) /\ t[f] = ")" /\ \A j \in 1..(f - 1) : t[j] # ")"
        BY <1>3, <3>1, FirstIs
      <3>n. Skip(f, "code2", 0)
        BY <2>5
      <3> HIDE DEF f
      <3>3. f \in 2..Len(t) /\ f \in 1..Len(t) /\ 2 \in 1..Len(t) /\ \A j \in 1..(f - 1) : j \in 1..Len(t)
        BY <1>3, <3>1, <3>2
      <3>4. /\ file[Pos + 1] = "(" /\ file[Pos + 2] = Blank /\ file[Pos + f] = ")"
            /\ \A j \in 1..(f - 1) : file[Pos + j] # ")"
        BY <1>3, <2>1, <3>1, <3>2, <3>3
      <3>5. CodeCommentStep
        BY <2>1, <3>n, <3>3, <3>4 DEF CodeCommentStep, t
      <3>6. QED
        BY <1>2, <2>1, <3>5 DEF t
    <2>6. CASE t[1] \notin Spaces /\ Unexpected(t)
      <3>1. ErrorStep
        <4>1. CASE t[1] \in Long
          <5>1. yy_c_buf_p' = yy_c_buf_p + 0 /\ sc' = "rest"
            BY <2>6, <4>1 DEF Unexpected
          <5>2. QED
            BY <2>1, <2>6, <5>1 DEF ErrorStep, Unexpected
        <4>2. CASE t[1] \notin Long
          <5>1. yy_c_buf_p' = yy_c_buf_p + 1 /\ sc' = "INITIAL"
            BY <2>6, <4>2 DEF Unexpected
          <5>2. QED
            BY <2>1, <2>6, <5>1 DEF ErrorStep, Unexpected
        <4>3. QED
          BY <4>1, <4>2
      <3>2. QED
        BY <1>2, <2>1, <3>1 DEF t
    <2>7. QED
      BY <1>10, <2>2, <2>3, <2>4, <2>5, <2>6 DEF Code2
  <1>11. CASE t # <<>> /\ Code3(t)
    <2>1. sc = "code3" /\ 1 \in 1..Len(t) /\ t[1] = file[Pos + 1]
      BY <1>6, <1>11 DEF Code3
    <2> HIDE DEF t
    <2>2. CASE t[1] = Newline /\ Skip(1, "code3", 1)
      BY <1>2, <2>1, <2>2 DEF NewlineStep, t
    <2>3. CASE t[1] # Newline
      <3> DEFINE k == IF First(t, Newline) = 0 THEN Len(t) ELSE First(t, Newline) - 1
      <3>1. IF k = 1 /\ t[1] = "END-CODE" THEN Return("END_CODE", k, "INITIAL")
            ELSE Return("ASM", k, "code3")
        BY <1>11, <2>3 DEF Code3
      <3>2. /\ k \in 1..Len(t) /\ \A j \in 1..k : t[j] # Newline
            /\ Pos + k < Len(file) => k < Len(t) /\ t[k + 1] = Newline
        <4>1. CASE \A i \in DOMAIN t : t[i] # Newline
          <5>1. First(t, Newline) = 0
            BY <1>3, <4>1, FirstIs
          <5>2. k = Len(t)
            BY <5>1
          <5>3. DOMAIN t = 1..Len(t) /\ Len(t) \in Nat
            BY <1>3, Zenon
          <5>4. AtEnd(t)
            BY <2>1, <2>3, <5>1 DEF AtEnd
          <5>5. Pos + k = Len(file)
            BY <1>4, <5>2, <5>4
          <5>6. ~(Pos + k < Len(file))
            BY <1>3, <5>2, <5>5
          <5>7. k \in 1..Len(t) /\ \A j \in 1..k : t[j] # Newline
            BY <2>1, <4>1, <5>2, <5>3
          <5>8. QED
            BY <5>6, <5>7
        <4>2. CASE \E i \in DOMAIN t : t[i] = Newline
          <5>1. /\ First(t, Newline) \in 1..Len(t) /\ t[First(t, Newline)] = Newline
                /\ \A j \in 1..(First(t, Newline) - 1) : t[j] # Newline
            BY <1>3, <4>2, FirstIs
          <5>2. First(t, Newline) # 1
            BY <2>3, <5>1
          <5>3. k = First(t, Newline) - 1 /\ k \in 1..Len(t) /\ k < Len(t) /\ k + 1 = First(t, Newline)
            BY <1>3, <5>1, <5>2
          <5>4. QED
            BY <5>1, <5>3
        <4>3. QED
          BY <4>1, <4>2
      <3> HIDE DEF k
      <3>3. /\ \A j \in 1..k : file[Pos + j] # Newline
            /\ Pos + k < Len(file) => file[(Pos + k) + 1] = Newline
        <4>1. \A j \in 1..k : j \in 1..Len(t)
          BY <1>3, <3>2
        <4>2. ASSUME Pos + k < Len(file) PROVE file[(Pos + k) + 1] = Newline
          <5>1. k + 1 \in 1..Len(t) /\ Pos + (k + 1) = (Pos + k) + 1 /\ t[k + 1] = Newline
            BY <1>3, <3>2, <4>2
          <5>2. QED
            BY <1>3, <5>1
        <4>3. QED
          BY <1>3, <3>2, <4>1, <4>2
      <3>4. \E token \in {"ASM", "END_CODE"} :
              Return(token, k, IF token = "END_CODE" THEN "INITIAL" ELSE "code3")
        BY <3>1
      <3>5. CodeStep
        BY <2>1, <3>2, <3>3, <3>4 DEF CodeStep, t
      <3>6. QED
        BY <1>2, <2>1, <3>5 DEF t
    <2>4. QED
      BY <1>11, <2>2, <2>3 DEF Code3
  <1>12. QED
    BY <1>5, <1>7, <1>8, <1>9, <1>10, <1>11 DEF yylex


-----------------------------------------------------------------------------
(* The types, the rule begun and what rules have read, step by step.       *)
LEMMA ReadStays ==
  ASSUME RulesReadWell, file' = file, uses' = uses
  PROVE  RulesReadWell'
  BY DEF RulesReadWell

LEMMA MoveKeeps ==
  ASSUME Typing, RulesReadWell, NEW k \in 0..Len(ahead), yy_c_buf_p' = yy_c_buf_p + k,
         sc' \in Conditions, line' \in Nat \ {0}, line' <= (Pos + k) + 1, errors' \in Nat,
         UNCHANGED <<input, yyvs, recovering, conds, status, tokens, uses>>, status = "lexing"
  PROVE  Typing' /\ RulesReadWell' /\ Pos' = Pos + k /\ file' = file
  <1>1. Buffered /\ Parsing /\ RuleBegun
    BY DEF Typing
  <1>2. /\ Buffered' /\ Pos' = Pos + k /\ file' = file
        /\ dropped' = dropped /\ taken' = taken /\ yy_n_chars' = yy_n_chars
    BY <1>1, Matched
  <1>3. Pos \in Nat /\ taken - yy_n_chars \in Nat /\ k \in Nat
    BY <1>1, Places
  <1>4. RuleBegun'
    <2>1. (taken - yy_n_chars)' = (taken - yy_n_chars) + 0
      BY <1>2, <1>3
    <2>2. QED
      BY <2>1, <1>2, <1>3, RuleStays
  <1>5. Parsing'
    <2>1. status' = "lexing" /\ line' <= Pos' + 1
      BY <1>2
    <2>2. QED
      BY <2>1, <1>1 DEF Parsing, IsSeq
  <1>6. RulesReadWell'
    BY <1>2, ReadStays
  <1>7. QED
    BY <1>2, <1>4, <1>5, <1>6 DEF Typing

LEMMA SkipKeeps ==
  ASSUME Typing, RulesReadWell, status = "lexing", NEW k \in 1..Len(ahead), NEW condition \in Conditions,
         NEW lines \in 0..1, Skip(k, condition, lines)
  PROVE  Typing' /\ RulesReadWell' /\ Pos' = Pos + k /\ file' = file
  <1>1. line \in Nat \ {0} /\ line <= Pos + 1 /\ Buffered
    BY DEF Typing, Parsing
  <1>2. Pos \in Nat /\ k \in 0..Len(ahead) /\ k \in Nat \ {0}
    BY <1>1, Places
  <1>3. line' = line + lines /\ sc' = condition /\ yy_c_buf_p' = yy_c_buf_p + k /\ errors' = errors
        /\ UNCHANGED <<input, yyvs, recovering, conds, status, tokens, uses>>
    BY DEF Skip
  <1>4. line' \in Nat \ {0} /\ line' <= (Pos + k) + 1
    BY <1>1, <1>2, <1>3
  <1>5. errors' \in Nat
    BY <1>3 DEF Typing, Parsing
  <1>6. QED
    BY <1>2, <1>3, <1>4, <1>5, MoveKeeps

(* A step that matches something.                                          *)
LEMMA MatchingKeeps ==
  ASSUME Typing, RulesReadWell, yylex
  PROVE  Typing' /\ RulesReadWell' /\ file' = file /\ dropped' = dropped
  <1>1. status = "lexing" /\ Buffered /\ Pos \in Nat
    BY Steps, Places DEF Typing
  <1>2. dropped' = dropped
    <2>1. UNCHANGED input
      BY DEF yylex, EndOfFile, Initial, Comment, Code1, Code2, Code3, Skip, Return, Unexpected
    <2>2. QED
      BY <2>1 DEF input
  <1>3. CASE EndOfFile /\ Pos = Len(file)
    <2>1. UNCHANGED <<input, yy_c_buf_p, line, yyvs, recovering, conds, tokens, uses>>
          /\ sc' = "INITIAL" /\ status' = "parsed"
      BY <1>3 DEF EndOfFile
    <2>2. errors' \in Nat
      <3>1. errors' = errors + (IF sc \in {"INITIAL", "rest"} THEN 0 ELSE 1)
                      + (IF ~recovering /\ (yyvs # <<>> \/ conds # <<>>) THEN 1 ELSE 0)
        BY <1>3 DEF EndOfFile
      <3>2. errors \in Nat
        BY DEF Typing, Parsing
      <3>3. QED
        BY <3>1, <3>2
    <2>3. 0 \in 0..Len(ahead) /\ yy_c_buf_p' = yy_c_buf_p + 0
      BY <1>1, <2>1, Places
    <2>4. /\ Buffered' /\ Pos' = Pos + 0 /\ file' = file
          /\ taken' = taken /\ yy_n_chars' = yy_n_chars
      BY <1>1, <2>1, <2>3, Matched
    <2>5. Pos' = Pos
      BY <1>1, <2>4
    <2>6. RuleBegun'
      <3>1. (taken - yy_n_chars)' = (taken - yy_n_chars) + 0
        BY <1>1, <2>4, Places
      <3>2. QED
        BY <2>1, <2>4, <3>1, RuleStays
    <2>7. RulesReadWell'
      BY <2>1, <2>4, ReadStays
    <2>8. Parsing'
      <3>1. Parsing
        BY DEF Typing
      <3>2. QED
        BY <1>3, <2>1, <2>2, <2>4, <2>5, <3>1 DEF Parsing, IsSeq, Conditions
    <2>9. QED
      BY <1>2, <2>4, <2>6, <2>7, <2>8 DEF Typing
  <1>4. CASE 1 \in 1..Len(ahead) /\ NewlineStep
    <2>1. (IF sc = "code1" THEN "code1"
           ELSE IF sc \in {"code2", "code3"} THEN "code3" ELSE "INITIAL") \in Conditions
      BY DEF Conditions
    <2>2. 1 \in 1..Len(ahead) /\ 1 \in 0..1
      BY <1>4
    <2>3. QED
      BY <1>1, <1>2, <1>4, <2>1, <2>2, SkipKeeps DEF NewlineStep
  <1>5. CASE BlankStep
    <2>1. PICK k \in 1..Len(ahead) : Skip(k, IF sc = "rest" THEN "INITIAL" ELSE sc, 0)
      BY <1>5 DEF BlankStep
    <2>2. (IF sc = "rest" THEN "INITIAL" ELSE sc) \in Conditions
      BY DEF Typing, Parsing, Conditions
    <2>3. QED
      BY <1>1, <1>2, <2>1, <2>2, SkipKeeps
  <1>6. CASE LineStep
    <2>1. PICK k \in 2..Len(ahead) : Skip(k, IF sc = "code2" THEN "code3" ELSE "INITIAL", 1)
      BY <1>6 DEF LineStep
    <2>2. (IF sc = "code2" THEN "code3" ELSE "INITIAL") \in Conditions
      BY DEF Conditions
    <2>3. k \in 1..Len(ahead)
      BY <1>1, Places
    <2>4. QED
      BY <1>1, <1>2, <2>1, <2>2, <2>3, SkipKeeps
  <1>7. CASE ParenStep
    <2>1. Skip(2, "comment", 0) /\ 2 \in 1..Len(ahead) /\ "comment" \in Conditions
      BY <1>1, <1>7, Places DEF ParenStep, Conditions
    <2>2. QED
      BY <1>1, <1>2, <2>1, SkipKeeps
  <1>8. CASE 1 \in 1..Len(ahead) /\ CommentStep
    <2>1. /\ (IF file[Pos + 1] = ")" THEN "INITIAL" ELSE "comment") \in Conditions
          /\ (IF file[Pos + 1] = Newline THEN 1 ELSE 0) \in 0..1
      BY DEF Conditions
    <2>2. QED
      BY <1>1, <1>2, <1>8, <2>1, SkipKeeps DEF CommentStep
  <1>9. CASE CodeCommentStep
    <2>1. PICK k \in 1..Len(ahead) : Skip(k, "code2", 0)
      BY <1>9 DEF CodeCommentStep
    <2>2. "code2" \in Conditions
      BY DEF Conditions
    <2>3. QED
      BY <1>1, <1>2, <2>1, <2>2, SkipKeeps
  <1>10. CASE 1 \in 1..Len(ahead) /\ WordStep
    <2>1. file[Pos + 1] \notin Spaces
      BY <1>10 DEF WordStep
    <2>2. PICK token \in Tokens \ {"ASM", "END_CODE"} :
            /\ token = "INTEGER_LITERAL" => file[Pos + 1] = "INT"
            /\ Return(token, 1, IF token = "CODE" THEN "code1" ELSE "INITIAL")
      BY <1>10 DEF WordStep
    <2>3. (IF token = "CODE" THEN "code1" ELSE "INITIAL") \in Conditions
      BY DEF Conditions
    <2>4. QED
      BY <1>1, <1>2, <1>10, <2>1, <2>2, <2>3, ReturnKeeps
  <1>11. CASE 1 \in 1..Len(ahead) /\ NameStep
    <2>1. "WORD" \in Tokens /\ "code2" \in Conditions
      BY DEF Tokens, Conditions
    <2>2. file[Pos + 1] \notin Spaces /\ Return("WORD", 1, "code2")
      BY <1>11 DEF NameStep
    <2>3. QED
      BY <1>1, <1>2, <1>11, <2>1, <2>2, ReturnKeeps
  <1>12. CASE 1 \in 1..Len(ahead) /\ ErrorStep
    <2>1. PICK k \in 0..1, condition \in {"rest", "INITIAL"} :
            /\ yy_c_buf_p' = yy_c_buf_p + k /\ sc' = condition
            /\ errors' = errors + 1
            /\ UNCHANGED <<input, line, yyvs, recovering, conds, status, tokens, uses>>
      BY <1>12 DEF ErrorStep
    <2>2. line \in Nat \ {0} /\ line <= Pos + 1 /\ errors \in Nat
      BY DEF Typing, Parsing
    <2>3. k \in 0..Len(ahead) /\ k \in Nat
      BY <1>1, <1>12, Places
    <2>4. sc' \in Conditions /\ line' \in Nat \ {0} /\ line' <= (Pos + k) + 1 /\ errors' \in Nat
      BY <1>1, <2>1, <2>2, <2>3 DEF Conditions
    <2>5. QED
      BY <1>1, <1>2, <2>1, <2>3, <2>4, MoveKeeps
  <1>13. CASE CodeStep
    <2>1. PICK k \in 1..Len(ahead), token \in {"ASM", "END_CODE"} :
            Return(token, k, IF token = "END_CODE" THEN "INITIAL" ELSE "code3")
      BY <1>13 DEF CodeStep
    <2>2. token \in Tokens /\ token \in {"ASM", "END_CODE"} /\ token # "INTEGER_LITERAL"
          /\ (IF token = "END_CODE" THEN "INITIAL" ELSE "code3") \in Conditions
      BY DEF Tokens, Conditions
    <2>3. QED
      BY <1>1, <1>2, <2>1, <2>2, ReturnKeeps
  <1>14. QED
    BY <1>3, <1>4, <1>5, <1>6, <1>7, <1>8, <1>9, <1>10, <1>11, <1>12, <1>13, Steps

(* The first state.                                                        *)
LEMMA TypingInit ==
  ASSUME LexerInit
  PROVE  Typing /\ RulesReadWell /\ Pos = 0
  <1>1. /\ files \in CommandLines /\ number = 1 /\ dropped = FALSE
        /\ taken = 0 /\ yy_n_chars = 0 /\ yy_c_buf_p = 0 /\ eof = FALSE
        /\ buf = [i \in 0..(YY_BUF_SIZE + 1) |-> NUL]
        /\ sc = "INITIAL"
        /\ line = 1 /\ errors = 0 /\ yyvs = <<>> /\ recovering = FALSE /\ conds = <<>>
        /\ status = "lexing" /\ tokens = <<>> /\ uses = <<>>
    BY DEF LexerInit
  <1>2. files \in Seq(Seq(Pieces)) /\ files # <<>> /\ YY_BUF_SIZE \in Nat \ {0}
    BY <1>1, LexerAssumption
  <1>3. 1 \in 1..Len(files)
    BY <1>2
  <1>4. file \in Seq(Pieces) /\ Len(file) \in Nat
    BY <1>1, <1>2, <1>3 DEF file
  <1>5. Pos = 0
    <2>1. Pos = (0 - 0) + 0
      BY <1>1 DEF Pos
    <2>2. QED
      BY <2>1
  <1>6. NUL \in Characters
    BY DEF Characters
  <1>7. buf \in [0..(YY_BUF_SIZE + 1) -> Characters] /\ buf[0] = NUL /\ 0..(0 - 1) = {}
    BY <1>1, <1>2, <1>6
  <1>8. Buffered
    <2>1. taken \in 0..Len(file) /\ yy_n_chars \in 0..(YY_BUF_SIZE - 1) /\ yy_n_chars <= taken
          /\ yy_c_buf_p \in 0..yy_n_chars /\ buf[yy_n_chars] = NUL /\ 0..(yy_n_chars - 1) = {}
      BY <1>1, <1>2, <1>4, <1>7
    <2>2. QED
      BY <1>1, <1>3, <1>7, <2>1 DEF Buffered
  <1>9. <<>> \in Seq(Value) /\ <<>> \in Seq(BOOLEAN)
    OBVIOUS
  <1>10. IsSeq(uses) /\ DOMAIN uses = {} /\ DOMAIN yyvs = {}
    BY <1>1 DEF IsSeq
  <1>11. Parsing
    <2>1. line \in Nat \ {0} /\ line <= Pos + 1 /\ errors \in Nat
      BY <1>1, <1>5
    <2>2. sc \in Conditions /\ yyvs \in Seq(Value) /\ tokens \in Seq(Value) /\ conds \in Seq(BOOLEAN)
      BY <1>1, <1>9 DEF Conditions
    <2>3. QED
      BY <1>1, <1>10, <2>1, <2>2 DEF Parsing
  <1>12. RuleBegun
    BY <1>1, <1>10 DEF RuleBegun, Begun, Symbols
  <1>13. QED
    BY <1>5, <1>8, <1>10, <1>11, <1>12 DEF Typing, RulesReadWell

(* A new file begins.                                                      *)
LEMMA NextFileKeeps ==
  ASSUME Typing, NextFile
  PROVE  Typing' /\ RulesReadWell' /\ Pos' = 0
  <1>1. /\ line' = 1 /\ errors' = 0 /\ yyvs' = <<>> /\ recovering' = FALSE /\ conds' = <<>>
        /\ status' = "lexing" /\ tokens' = <<>> /\ uses' = <<>> /\ sc' = sc
    BY DEF NextFile
  <1>2. Buffered /\ sc \in Conditions
    BY DEF Typing, Parsing
  <1>3. Buffered' /\ Pos' = 0
    BY <1>2, Restarted
  <1>4. RuleBegun'
    BY <1>1, RuleOver
  <1>5. <<>> \in Seq(Value) /\ <<>> \in Seq(BOOLEAN)
    OBVIOUS
  <1>6. IsSeq(uses') /\ DOMAIN uses' = {}
    BY <1>1 DEF IsSeq
  <1>7. Parsing'
    <2>1. line' \in Nat \ {0} /\ line' <= Pos' + 1 /\ errors' \in Nat
      BY <1>1, <1>3
    <2>2. /\ sc' \in Conditions /\ yyvs' \in Seq(Value) /\ tokens' \in Seq(Value)
          /\ conds' \in Seq(BOOLEAN)
      BY <1>1, <1>2, <1>5
    <2>3. QED
      BY <1>1, <1>6, <2>1, <2>2 DEF Parsing
  <1>8. QED
    BY <1>3, <1>4, <1>6, <1>7 DEF Typing, RulesReadWell

(* The buffer is filled.                                                   *)
LEMMA FillingKeeps ==
  ASSUME Typing, RulesReadWell, yy_get_next_buffer
  PROVE  /\ Typing' /\ RulesReadWell' /\ Pos' = Pos /\ file' = file /\ dropped' = dropped
         /\ UNCHANGED <<sc, line, errors, tokens>> /\ status = "lexing"
         /\ status' \in {"lexing", "overflow"}
  <1>1. Buffered /\ Parsing /\ RuleBegun
    BY DEF Typing
  <1>2. /\ Buffered' /\ file' = file /\ Pos' = Pos
        /\ (taken - yy_n_chars) <= (taken - yy_n_chars)'
        /\ UNCHANGED <<files, dropped, sc, parser, tokens, uses>>
        /\ status' \in {status, "overflow"} /\ status = "lexing"
    BY <1>1, Refilled
  <1>3. UNCHANGED <<line, errors, yyvs, recovering, conds>>
    BY <1>2 DEF parser
  <1>4. RuleBegun'
    <2> DEFINE a == taken - yy_n_chars
    <2>1. a \in Nat /\ a' \in Nat /\ Pos \in Nat
      <3>1. a \in Nat /\ Pos \in Nat
        BY <1>1, Places
      <3>2. taken' \in Nat /\ yy_n_chars' \in Nat /\ yy_n_chars' <= taken'
        <4>1. Len(file') \in Nat /\ YY_BUF_SIZE \in Nat
          BY <1>1, <1>2, FileIs
        <4>2. taken' \in 0..Len(file') /\ yy_n_chars' \in 0..(YY_BUF_SIZE - 1) /\ yy_n_chars' <= taken'
          BY <1>2 DEF Buffered
        <4>3. QED
          BY <4>1, <4>2
      <3>3. \A x, y \in Nat : y <= x => x - y \in Nat
        OBVIOUS
      <3>4. taken' - yy_n_chars' \in Nat
        BY <3>2, <3>3, Zenon
      <3>5. QED
        BY <3>1, <3>4
    <2> DEFINE d == a' - a
    <2>2. d \in Nat /\ a' = a + d /\ Pos' = Pos + 0
      BY <1>2, <2>1
    <2>3. (taken - yy_n_chars)' = (taken - yy_n_chars) + d
      BY <2>2
    <2> HIDE DEF d, a
    <2>4. QED
      BY <1>2, <1>3, <2>2, <2>3, RuleStays
  <1>5. Parsing'
    BY <1>1, <1>2, <1>3 DEF Parsing, IsSeq
  <1>6. RulesReadWell'
    BY <1>2, ReadStays
  <1>7. QED
    BY <1>2, <1>3, <1>4, <1>5, <1>6 DEF Typing

(* Nothing changes.                                                        *)
LEMMA StutterKeeps ==
  ASSUME UNCHANGED vars
  PROVE  /\ UNCHANGED <<files, number, dropped, taken, buf, yy_n_chars, eof, yy_c_buf_p, sc>>
         /\ UNCHANGED <<line, errors, yyvs, recovering, conds, status, tokens, uses>>
         /\ file' = file /\ Pos' = Pos
  <1>1. /\ UNCHANGED <<files, number, dropped, taken, buf, yy_n_chars, eof, yy_c_buf_p, sc>>
        /\ UNCHANGED <<line, errors, yyvs, recovering, conds, status, tokens, uses>>
    BY DEF vars, input, scanner, parser
  <1>2. QED
    BY <1>1 DEF file, Pos

LEMMA TypingStep ==
  ASSUME Typing, RulesReadWell, [LexerNext]_vars
  PROVE  Typing' /\ RulesReadWell'
  <1>1. CASE UNCHANGED vars
    <2>1. Buffered'
      BY <1>1, StutterKeeps DEF Typing, Buffered
    <2>2. Parsing'
      BY <1>1, StutterKeeps DEF Typing, Parsing, IsSeq
    <2>3. RuleBegun'
      BY <1>1, StutterKeeps DEF Typing, RuleBegun, Symbols
    <2>4. RulesReadWell'
      BY <1>1, StutterKeeps, ReadStays
    <2>5. QED
      BY <2>1, <2>2, <2>3, <2>4 DEF Typing
  <1>2. CASE yy_get_next_buffer
    BY <1>2, FillingKeeps
  <1>3. CASE yylex
    BY <1>3, MatchingKeeps
  <1>4. CASE NextFile
    BY <1>4, NextFileKeeps
  <1>5. QED
    BY <1>1, <1>2, <1>3, <1>4 DEF LexerNext

(* The files, the buffer and the parser have their types, and rules read   *)
(* the buffer well, in every state.                                        *)
THEOREM LexerTyped == LexerSpec => [](Typing /\ RulesReadWell)
  <1>1. LexerInit => Typing /\ RulesReadWell
    BY TypingInit
  <1>2. (Typing /\ RulesReadWell) /\ [LexerNext]_vars => (Typing /\ RulesReadWell)'
    BY TypingStep
  <1>3. QED
    BY <1>1, <1>2, PTL DEF LexerSpec

(* Arrays get the name, the size and the unit that are written, and        *)
(* conditions the name, as far as RulesReadWell says (forth.y, f_array and *)
(* f_ifdef): for all files and sizes of the buffer.                        *)
THEOREM RulesAreReadWell == LexerSpec => []RulesReadWell
  BY LexerTyped, PTL

(* The types of Lexer.tla.                                                 *)
THEOREM LexerTypes == LexerSpec => []TypeOK
  <1>1. ASSUME Typing PROVE TypeOK
    <2>1. Buffered /\ Parsing /\ RuleBegun
      BY <1>1 DEF Typing
    <2>2. /\ taken \in 0..Len(file) /\ yy_n_chars \in 0..YY_BUF_SIZE
          /\ yy_n_chars <= taken /\ buf[yy_n_chars] = NUL /\ yy_c_buf_p \in 0..yy_n_chars
          /\ files \in CommandLines /\ number \in 1..Len(files) /\ eof \in BOOLEAN
      BY <2>1, FileIs DEF Buffered
    <2>3. line \in 1..(Len(file) + 1)
      <3>1. line \in Nat \ {0} /\ line <= Pos + 1
        BY <2>1 DEF Parsing
      <3>2. Pos \in Nat /\ Len(file) \in Nat /\ Pos <= Len(file)
        BY <2>1, Places
      <3>3. QED
        BY <3>1, <3>2
    <2>4. Len(yyvs) <= 4
      <3>1. yyvs \in Seq(Value)
        BY <2>1 DEF Parsing
      <3>2. Symbols(yyvs) \in Begun
        BY <2>1 DEF RuleBegun
      <3>3. Len(Symbols(yyvs)) <= 4
        <4>1. ASSUME NEW s, s = <<"CREATE", "WORD", "INTEGER_LITERAL", "WORD">> PROVE Len(s) <= 4
          BY <4>1
        <4>2. ASSUME NEW s, s = <<"CREATE", "WORD", "INTEGER_LITERAL">> PROVE Len(s) <= 4
          BY <4>2
        <4>3. ASSUME NEW s, s = <<"CREATE", "WORD">> PROVE Len(s) <= 4
          BY <4>3
        <4>4. ASSUME NEW s, s \in {<<>>, <<"CREATE">>, <<"[IFDEF]">>, <<"CODE">>} PROVE Len(s) <= 4
          <5>1. Len(<<>>) = 0 /\ \A x : Len(<<x>>) = 1
            OBVIOUS
          <5>2. 0 <= 4 /\ 1 <= 4
            OBVIOUS
          <5>3. QED
            BY <4>4, <5>1, <5>2, Zenon
        <4>5. QED
          BY <3>2, <4>1, <4>2, <4>3, <4>4, Zenon DEF Begun
      <3>4. QED
        BY <3>1, <3>3, SymbolsIs
    <2>5. QED
      BY <2>1, <2>2, <2>3, <2>4 DEF TypeOK, Parsing, Conditions
  <1>2. QED
    BY <1>1, LexerTyped, PTL

-----------------------------------------------------------------------------
(* What steps do, by places of the file.                                   *)

(* A match that returns nothing.                                           *)
LEMMA Skipped ==
  ASSUME Typing, RulesReadWell, status = "lexing", NEW k \in 1..Len(ahead), NEW condition \in Conditions,
         NEW lines \in 0..1, Skip(k, condition, lines)
  PROVE  /\ Pos' = Pos + k /\ file' = file /\ dropped' = dropped /\ status' = status
         /\ sc' = condition /\ line' = line + lines /\ tokens' = tokens /\ errors' = errors
  <1>1. /\ dropped' = dropped /\ status' = status /\ sc' = condition /\ line' = line + lines
        /\ tokens' = tokens /\ errors' = errors
    BY DEF Skip, input
  <1>2. QED
    BY <1>1, SkipKeeps

(* A match that returns a token.                                           *)
LEMMA Returned ==
  ASSUME Typing, status = "lexing", NEW token \in Tokens, NEW k \in 1..Len(ahead),
         NEW condition, Return(token, k, condition)
  PROVE  /\ Pos' = Pos + k /\ file' = file /\ dropped' = dropped /\ status' \in {"lexing", "gave up"}
         /\ sc' = condition /\ line' = line /\ tokens' = Append(tokens, yylval(token, k))
         /\ errors' \in Nat /\ errors <= errors'
  <1>1. Buffered
    BY DEF Typing
  <1>2. /\ UNCHANGED <<input, line>> /\ yy_c_buf_p' = yy_c_buf_p + k /\ sc' = condition
        /\ tokens' = Append(tokens, yylval(token, k)) /\ errors' \in Nat /\ errors <= errors'
        /\ status' \in {"lexing", "gave up"}
    BY ReturnIs
  <1>3. k \in 0..Len(ahead)
    BY <1>1, Places
  <1>4. QED
    BY <1>1, <1>2, <1>3, Matched

(* The end of a file.                                                      *)
LEMMA Finished ==
  ASSUME Typing, status = "lexing", EndOfFile
  PROVE  /\ Pos' = Pos /\ file' = file /\ dropped' = dropped /\ status' = "parsed"
         /\ sc' = "INITIAL" /\ line' = line /\ tokens' = tokens
         /\ errors' = 0 => errors = 0 /\ sc \in {"INITIAL", "rest"}
  <1>1. Buffered /\ errors \in Nat
    BY DEF Typing, Parsing
  <1>2. /\ UNCHANGED <<input, yy_c_buf_p, line, tokens>> /\ sc' = "INITIAL" /\ status' = "parsed"
        /\ errors' = errors + (IF sc \in {"INITIAL", "rest"} THEN 0 ELSE 1)
                            + (IF ~recovering /\ (yyvs # <<>> \/ conds # <<>>) THEN 1 ELSE 0)
    BY DEF EndOfFile
  <1>3. Pos' = Pos /\ file' = file /\ dropped' = dropped
    BY <1>2 DEF Pos, file, input
  <1>4. errors' = 0 => errors = 0 /\ sc \in {"INITIAL", "rest"}
    BY <1>1, <1>2
  <1>5. QED
    BY <1>2, <1>3, <1>4

(* A start condition is kept for the next file, which is not seen dropped  *)
(* if this one was parsed.                                                 *)
LEMMA Begins_anew ==
  ASSUME Typing, NextFile
  PROVE  /\ Pos' = 0 /\ line' = 1 /\ tokens' = <<>> /\ status' = "lexing" /\ errors' = 0
         /\ sc' = sc /\ (~dropped' => sc' = "INITIAL")
  <1>1. /\ line' = 1 /\ tokens' = <<>> /\ status' = "lexing" /\ sc' = sc /\ errors' = 0
        /\ dropped' = (status = "gave up") /\ status \in {"parsed", "gave up"}
    BY DEF NextFile
  <1>2. Pos' = 0
    BY Restarted DEF Typing
  <1>3. status = "parsed" => sc = "INITIAL"
    BY DEF Typing, Parsing
  <1>4. ~dropped' => sc' = "INITIAL"
    BY <1>1, <1>3, Zenon
  <1>5. QED
    BY <1>1, <1>2, <1>4

-----------------------------------------------------------------------------
(* The lines before a place.                                               *)
LEMMA LinesIs ==
  ASSUME NEW a \in Nat
  PROVE  /\ LinesBefore(a + 1) = Cardinality({i \in 1..a : file[i] = Newline})
         /\ IsFiniteSet({i \in 1..a : file[i] = Newline})
  <1>1. (a + 1) - 1 = a
    OBVIOUS
  <1>2. IsFiniteSet(1..a)
    BY FS_Interval
  <1>3. {i \in 1..a : file[i] = Newline} \subseteq 1..a
    OBVIOUS
  <1>4. IsFiniteSet({i \in 1..a : file[i] = Newline})
    BY <1>2, <1>3, FS_Subset
  <1>5. QED
    BY <1>1, <1>4 DEF LinesBefore

(* A text of one line ends no line.                                        *)
LEMMA LinesNone ==
  ASSUME NEW a \in Nat, NEW k \in Nat, \A j \in 1..k : file[a + j] # Newline
  PROVE  LinesBefore((a + k) + 1) = LinesBefore(a + 1)
  <1>1. a + k \in Nat
    OBVIOUS
  <1>2. ASSUME NEW i \in 1..(a + k), file[i] = Newline PROVE i \in 1..a
    <2>1. i > a => (i - a) \in 1..k /\ a + (i - a) = i
      OBVIOUS
    <2>2. QED
      BY <1>2, <2>1
  <1>3. {i \in 1..(a + k) : file[i] = Newline} = {i \in 1..a : file[i] = Newline}
    BY <1>2
  <1>4. QED
    BY <1>1, <1>3, LinesIs

(* One character ends a line if it is a newline.                           *)
LEMMA LinesOne ==
  ASSUME NEW a \in Nat
  PROVE  LinesBefore((a + 1) + 1) =
           LinesBefore(a + 1) + (IF file[a + 1] = Newline THEN 1 ELSE 0)
  <1> DEFINE S == {i \in 1..a : file[i] = Newline}
             T == {i \in 1..(a + 1) : file[i] = Newline}
  <1>1. a + 1 \in Nat /\ a + 1 \notin S
    OBVIOUS
  <1>2. LinesBefore(a + 1) = Cardinality(S) /\ IsFiniteSet(S)
    BY LinesIs
  <1>3. LinesBefore((a + 1) + 1) = Cardinality(T)
    BY <1>1, LinesIs
  <1>4. CASE file[a + 1] = Newline
    <2>1. T = S \cup {a + 1}
      BY <1>4
    <2> HIDE DEF S, T
    <2>2. Cardinality(T) = Cardinality(S) + 1
      BY <1>1, <1>2, <2>1, FS_AddElement
    <2>3. QED
      BY <1>2, <1>3, <1>4, <2>2
  <1>5. CASE file[a + 1] # Newline
    <2>1. T = S
      BY <1>5
    <2>2. Cardinality(S) \in Nat
      BY <1>2, FS_CardinalityType
    <2> HIDE DEF S, T
    <2>3. QED
      BY <1>2, <1>3, <1>5, <2>1, <2>2
  <1>6. QED
    BY <1>4, <1>5

(* A text that ends its line, and none before.                             *)
LEMMA LinesLast ==
  ASSUME NEW a \in Nat, NEW k \in Nat \ {0}, file[a + k] = Newline,
         \A j \in 1..(k - 1) : file[a + j] # Newline
  PROVE  LinesBefore((a + k) + 1) = LinesBefore(a + 1) + 1
  <1>1. k - 1 \in Nat /\ a + (k - 1) \in Nat /\ (a + (k - 1)) + 1 = a + k
    OBVIOUS
  <1>2. LinesBefore((a + (k - 1)) + 1) = LinesBefore(a + 1)
    BY <1>1, LinesNone
  <1>3. LinesBefore(((a + (k - 1)) + 1) + 1) =
          LinesBefore((a + (k - 1)) + 1) + (IF file[(a + (k - 1)) + 1] = Newline THEN 1 ELSE 0)
    BY <1>1, LinesOne
  <1>4. LinesBefore((a + k) + 1) = LinesBefore(a + k) + 1
    BY <1>1, <1>3
  <1>5. LinesBefore(a + k) = LinesBefore(a + 1)
    BY <1>1, <1>2
  <1>6. QED
    BY <1>4, <1>5

(* The number of lines, in the next state.                                 *)
LEMMA LinesStay ==
  ASSUME file' = file, NEW a \in Nat, Pos' = a
  PROVE  /\ LinesBefore(Pos + 1)' = LinesBefore(a + 1)
         /\ \A i \in DOMAIN tokens' :
              LinesBefore(tokens[i].pos)' = LinesBefore(tokens'[i].pos)
         /\ Has("CODE")' = Has("CODE") /\ Has("(")' = Has("(")
  BY DEF LinesBefore, Has

(* The parser's line goes with the scanner.                                *)
LEMMA LinesGoOn ==
  ASSUME Typing, LinesFollow, file' = file, dropped' = dropped, NEW k \in Nat, Pos' = Pos + k,
         NEW lines \in Nat, line' = line + lines,
         ~dropped /\ ~(Has("CODE") /\ Has("(")) =>
           LinesBefore((Pos + k) + 1) = LinesBefore(Pos + 1) + lines,
         \/ tokens' = tokens
         \/ \E token : tokens' = Append(tokens, yylval(token, k))
  PROVE  LinesFollow'
  <1>1. Pos \in Nat /\ Pos + k \in Nat
    <2>1. Buffered
      BY DEF Typing
    <2>2. Pos \in Nat
      BY <2>1, Places, Zenon
    <2>3. QED
      BY <2>2
  <1>2. /\ LinesBefore(Pos + 1)' = LinesBefore((Pos + k) + 1)
        /\ \A i \in DOMAIN tokens' :
             LinesBefore(tokens[i].pos)' = LinesBefore(tokens'[i].pos)
        /\ Has("CODE")' = Has("CODE") /\ Has("(")' = Has("(")
    BY <1>1, LinesStay
  <1>3. SUFFICES ASSUME ~dropped, ~(Has("CODE") /\ Has("("))
                 PROVE  /\ line' = 1 + LinesBefore((Pos + k) + 1)
                        /\ \A i \in DOMAIN tokens' :
                             tokens'[i].line = 1 + LinesBefore(tokens'[i].pos)
    BY <1>2 DEF LinesFollow
  <1>4. /\ line = 1 + LinesBefore(Pos + 1)
        /\ \A i \in DOMAIN tokens : tokens[i].line = 1 + LinesBefore(tokens[i].pos)
    BY <1>3 DEF LinesFollow
  <1>5. LinesBefore(Pos + 1) \in Nat
    <2>1. LinesBefore(Pos + 1) = Cardinality({i \in 1..Pos : file[i] = Newline})
          /\ IsFiniteSet({i \in 1..Pos : file[i] = Newline})
      BY <1>1, LinesIs
    <2>2. QED
      BY <2>1, FS_CardinalityType
  <1>6. line' = 1 + LinesBefore((Pos + k) + 1)
    BY <1>3, <1>4, <1>5
  <1>7. ASSUME NEW token, tokens' = Append(tokens, yylval(token, k)), NEW i \in DOMAIN tokens'
        PROVE  tokens'[i].line = 1 + LinesBefore(tokens'[i].pos)
    <2>1. tokens \in Seq(Value)
      BY DEF Typing, Parsing
    <2>2. DOMAIN tokens = 1..Len(tokens) /\ DOMAIN tokens' = 1..(Len(tokens) + 1) /\ Len(tokens) \in Nat
          /\ (\A j \in 1..Len(tokens) : tokens'[j] = tokens[j])
          /\ tokens'[Len(tokens) + 1] = yylval(token, k)
      BY <1>7, <2>1
    <2>3. yylval(token, k).line = line /\ yylval(token, k).pos = Pos + 1
      BY DEF yylval
    <2>4. i \in 1..(Len(tokens) + 1)
      BY <1>7, <2>2, Zenon
    <2>5. i \in 1..Len(tokens) \/ i = Len(tokens) + 1
      BY <2>2, <2>4
    <2>6. QED
      BY <1>4, <2>2, <2>3, <2>5
  <1>8. QED
    BY <1>4, <1>6, <1>7

(* Every step keeps the lines.                                             *)
LEMMA LinesStep ==
  ASSUME Typing, RulesReadWell, CodeNeeded, LinesFollow, [LexerNext]_vars
  PROVE  LinesFollow'
  <1>0. Pos \in Nat /\ line \in Nat /\ Buffered
    BY Places DEF Typing, Parsing
  <1>z. Pos + 0 = Pos /\ line + 0 = line /\ LinesBefore((Pos + 0) + 1) = LinesBefore(Pos + 1) + 0
    <2>1. LinesBefore(Pos + 1) = Cardinality({i \in 1..Pos : file[i] = Newline})
          /\ IsFiniteSet({i \in 1..Pos : file[i] = Newline})
      BY <1>0, LinesIs
    <2>2. LinesBefore(Pos + 1) \in Nat
      BY <2>1, FS_CardinalityType
    <2>3. Pos + 0 = Pos /\ line + 0 = line
      BY <1>0
    <2>4. QED
      BY <2>2, <2>3
  <1>n. ASSUME NEW k \in Nat, \A j \in 1..k : file[Pos + j] # Newline
        PROVE  LinesBefore((Pos + k) + 1) = LinesBefore(Pos + 1) + 0
    <2>1. LinesBefore((Pos + k) + 1) = LinesBefore(Pos + 1)
      BY <1>0, <1>n, LinesNone
    <2>2. QED
      BY <2>1, <1>z
  <1>1. CASE UNCHANGED vars
    <2>1. file' = file /\ dropped' = dropped /\ Pos' = Pos + 0 /\ line' = line + 0 /\ tokens' = tokens
      BY <1>1, <1>z, StutterKeeps
    <2>2. QED
      BY <1>z, <2>1, LinesGoOn
  <1>2. CASE yy_get_next_buffer
    <2>1. file' = file /\ dropped' = dropped /\ Pos' = Pos + 0 /\ line' = line + 0 /\ tokens' = tokens
      BY <1>2, <1>z, FillingKeeps
    <2>2. QED
      BY <1>z, <2>1, LinesGoOn
  <1>3. CASE NextFile
    <2>1. line' = 1 /\ tokens' = <<>> /\ Pos' = 0
      BY <1>3, Begins_anew
    <2>2. LinesBefore(Pos + 1)' = 0
      <3>1. LinesBefore(Pos + 1)' = Cardinality({i \in 1..((0 + 1) - 1) : file'[i] = Newline})
        BY <2>1 DEF LinesBefore
      <3>2. {i \in 1..((0 + 1) - 1) : file'[i] = Newline} = {}
        OBVIOUS
      <3>3. QED
        BY <3>1, <3>2, FS_EmptySet
    <2>3. DOMAIN tokens' = {} /\ line' = 1 + 0
      BY <2>1
    <2>4. QED
      BY <2>2, <2>3 DEF LinesFollow
  <1>4. CASE yylex
    <2>0. status = "lexing"
      BY <1>4, Steps
    <2>a. ASSUME NEW k \in 1..Len(ahead), NEW condition \in Conditions, NEW lines \in 0..1,
                 Skip(k, condition, lines),
                 ~dropped /\ ~(Has("CODE") /\ Has("(")) =>
                   LinesBefore((Pos + k) + 1) = LinesBefore(Pos + 1) + lines
          PROVE  LinesFollow'
      <3>1. /\ Pos' = Pos + k /\ file' = file /\ dropped' = dropped
            /\ line' = line + lines /\ tokens' = tokens
        BY <2>0, <2>a, Skipped
      <3>2. k \in Nat /\ lines \in Nat
        BY <1>0, Places
      <3>3. QED
        BY <2>a, <3>1, <3>2, LinesGoOn
    <2>b. ASSUME NEW token \in Tokens, NEW k \in 1..Len(ahead), NEW condition,
                 Return(token, k, condition), \A j \in 1..k : file[Pos + j] # Newline
          PROVE  LinesFollow'
      <3>1. /\ Pos' = Pos + k /\ file' = file /\ dropped' = dropped
            /\ line' = line /\ tokens' = Append(tokens, yylval(token, k))
        BY <2>0, <2>b, Returned
      <3>2. k \in Nat /\ line' = line + 0
        BY <1>0, <1>z, <3>1, Places
      <3>3. LinesBefore((Pos + k) + 1) = LinesBefore(Pos + 1) + 0
        BY <1>n, <2>b, <3>2
      <3>4. QED
        BY <3>1, <3>2, <3>3, LinesGoOn
    <2>c. file[Pos + 1] \notin Spaces => \A j \in 1..1 : file[Pos + j] # Newline
      BY DEF Spaces
    <2>1. CASE EndOfFile
      <3>1. file' = file /\ dropped' = dropped /\ Pos' = Pos + 0 /\ line' = line + 0 /\ tokens' = tokens
        BY <1>z, <2>0, <2>1, Finished
      <3>2. QED
        BY <1>z, <3>1, LinesGoOn
    <2>2. CASE 1 \in 1..Len(ahead) /\ NewlineStep
      <3>1. (IF sc = "code1" THEN "code1"
             ELSE IF sc \in {"code2", "code3"} THEN "code3" ELSE "INITIAL") \in Conditions
        BY DEF Conditions
      <3>2. LinesBefore((Pos + 1) + 1) = LinesBefore(Pos + 1) + 1
        BY <1>0, <2>2, LinesOne DEF NewlineStep
      <3>3. 1 \in 0..1
        OBVIOUS
      <3>4. QED
        BY <2>2, <2>a, <3>1, <3>2, <3>3 DEF NewlineStep
    <2>3. CASE BlankStep
      <3>1. PICK k \in 1..Len(ahead) :
              /\ \A j \in 1..k : file[Pos + j] = Blank
              /\ Skip(k, IF sc = "rest" THEN "INITIAL" ELSE sc, 0)
        BY <2>3 DEF BlankStep
      <3>2. (IF sc = "rest" THEN "INITIAL" ELSE sc) \in Conditions
        BY DEF Typing, Parsing, Conditions
      <3>3. Blank # Newline /\ k \in Nat /\ 0 \in 0..1
        BY <1>0, Places DEF Blank, Newline
      <3>4. LinesBefore((Pos + k) + 1) = LinesBefore(Pos + 1) + 0
        BY <1>n, <3>1, <3>3
      <3>5. QED
        BY <2>a, <3>1, <3>2, <3>3, <3>4
    <2>4. CASE LineStep
      <3>1. PICK k \in 2..Len(ahead) :
              /\ file[Pos + k] = Newline /\ \A j \in 1..(k - 1) : file[Pos + j] # Newline
              /\ Skip(k, IF sc = "code2" THEN "code3" ELSE "INITIAL", 1)
        BY <2>4 DEF LineStep
      <3>2. (IF sc = "code2" THEN "code3" ELSE "INITIAL") \in Conditions
        BY DEF Conditions
      <3>3. k \in 1..Len(ahead) /\ k \in Nat \ {0} /\ 1 \in 0..1
        BY <1>0, Places
      <3>4. LinesBefore((Pos + k) + 1) = LinesBefore(Pos + 1) + 1
        BY <1>0, <3>1, <3>3, LinesLast
      <3>5. QED
        BY <2>a, <3>1, <3>2, <3>3, <3>4
    <2>5. CASE ParenStep
      <3>1. Skip(2, "comment", 0) /\ "comment" \in Conditions /\ 0 \in 0..1
        BY <2>5 DEF ParenStep, Conditions
      <3>2. file[Pos + 1] # Newline /\ file[Pos + 2] # Newline /\ 1..2 = {1, 2}
        BY <2>5 DEF ParenStep, Newline, Blank
      <3>3. 2 \in 1..Len(ahead) /\ 2 \in Nat
        BY <1>0, <2>5, Places DEF ParenStep
      <3>4. LinesBefore((Pos + 2) + 1) = LinesBefore(Pos + 1) + 0
        BY <1>n, <3>2, <3>3
      <3>5. QED
        BY <2>a, <3>1, <3>3, <3>4
    <2>6. CASE 1 \in 1..Len(ahead) /\ CommentStep
      <3>1. (IF file[Pos + 1] = ")" THEN "INITIAL" ELSE "comment") \in Conditions
            /\ (IF file[Pos + 1] = Newline THEN 1 ELSE 0) \in 0..1
        BY DEF Conditions
      <3>2. LinesBefore((Pos + 1) + 1) = LinesBefore(Pos + 1) + (IF file[Pos + 1] = Newline THEN 1 ELSE 0)
        BY <1>0, LinesOne
      <3>3. QED
        BY <2>6, <2>a, <3>1, <3>2 DEF CommentStep
    <2>7. CASE CodeCommentStep
      <3>1. PICK k \in 1..Len(ahead) : Skip(k, "code2", 0)
        BY <1>0, <2>7, Places DEF CodeCommentStep
      <3>2. "code2" \in Conditions /\ 0 \in 0..1
        BY DEF Conditions
      <3>3. file[Pos + 1] = "(" /\ Pos + 1 \in DOMAIN file /\ sc = "code2"
        <4>1. 1 \in 1..Len(ahead)
          BY <1>0, Places
        <4>2. QED
          BY <1>0, <2>7, <4>1, AheadIs DEF CodeCommentStep
      <3>4. ~dropped => Has("CODE") /\ Has("(")
        BY <3>3 DEF CodeNeeded, Has
      <3>5. QED
        BY <2>a, <3>1, <3>2, <3>4
    <2>8. CASE 1 \in 1..Len(ahead) /\ WordStep
      <3>1. PICK token \in Tokens : Return(token, 1, IF token = "CODE" THEN "code1" ELSE "INITIAL")
        BY <2>8 DEF WordStep
      <3>2. file[Pos + 1] \notin Spaces
        BY <2>8 DEF WordStep
      <3>3. QED
        BY <2>8, <2>b, <2>c, <3>1, <3>2
    <2>9. CASE 1 \in 1..Len(ahead) /\ NameStep
      <3>1. Return("WORD", 1, "code2") /\ file[Pos + 1] \notin Spaces /\ "WORD" \in Tokens
        BY <2>9 DEF NameStep, Tokens
      <3>2. QED
        BY <2>9, <2>b, <2>c, <3>1
    <2>10. CASE 1 \in 1..Len(ahead) /\ ErrorStep
      <3>1. PICK k \in 0..1 :
              /\ yy_c_buf_p' = yy_c_buf_p + k
              /\ UNCHANGED <<input, line, yyvs, recovering, conds, status, tokens, uses>>
        BY <2>10 DEF ErrorStep
      <3>2. k \in 0..Len(ahead) /\ k \in Nat
        BY <1>0, <2>10, Places
      <3>3. Pos' = Pos + k /\ file' = file /\ dropped' = dropped /\ line' = line + 0 /\ tokens' = tokens
        BY <1>0, <1>z, <3>1, <3>2, Matched
      <3>4. \A j \in 1..k : file[Pos + j] # Newline
        <4>1. \A j \in 1..1 : file[Pos + j] # Newline
          BY <2>10, <2>c DEF ErrorStep
        <4>2. \A j \in 1..k : j \in 1..1
          OBVIOUS
        <4>3. QED
          BY <4>1, <4>2
      <3>5. LinesBefore((Pos + k) + 1) = LinesBefore(Pos + 1) + 0
        BY <1>n, <3>2, <3>4
      <3>6. QED
        BY <3>2, <3>3, <3>5, LinesGoOn
    <2>11. CASE CodeStep
      <3>1. PICK k \in 1..Len(ahead), token \in {"ASM", "END_CODE"} :
              /\ \A j \in 1..k : file[Pos + j] # Newline
              /\ Return(token, k, IF token = "END_CODE" THEN "INITIAL" ELSE "code3")
        BY <2>11 DEF CodeStep
      <3>2. token \in Tokens
        BY <3>1 DEF Tokens
      <3>3. QED
        BY <2>b, <3>1, <3>2
    <2>12. QED
      BY <1>4, <2>1, <2>2, <2>3, <2>4, <2>5, <2>6, <2>7, <2>8, <2>9, <2>10, <2>11, Steps
  <1>5. QED
    BY <1>1, <1>2, <1>3, <1>4 DEF LexerNext

-----------------------------------------------------------------------------
(* The tokens of CODE words.                                               *)

(* Without the word CODE the scanner stays out of the conditions of CODE.  *)
LEMMA CodeNeededStep ==
  ASSUME Typing, RulesReadWell, CodeNeeded, [LexerNext]_vars
  PROVE  CodeNeeded'
  <1>0. Pos \in Nat /\ Buffered
    BY Places DEF Typing
  <1>1. CASE UNCHANGED vars
    <2>1. file' = file /\ dropped' = dropped /\ sc' = sc
      BY <1>1, StutterKeeps
    <2>2. QED
      BY <2>1 DEF CodeNeeded, Has
  <1>2. CASE yy_get_next_buffer
    <2>1. file' = file /\ dropped' = dropped /\ sc' = sc
      BY <1>2, FillingKeeps
    <2>2. QED
      BY <2>1 DEF CodeNeeded, Has
  <1>3. CASE NextFile
    BY <1>3, Begins_anew DEF CodeNeeded
  <1>4. CASE yylex
    <2>0. status = "lexing" /\ file' = file /\ dropped' = dropped
      BY <1>4, Steps, MatchingKeeps
    <2>1. SUFFICES ASSUME ~dropped, ~Has("CODE") PROVE sc' \in {"INITIAL", "comment"}
      BY <2>0 DEF CodeNeeded, Has
    <2>2. sc \in {"INITIAL", "comment"}
      BY <2>1 DEF CodeNeeded
    <2>3. CASE EndOfFile
      BY <2>3 DEF EndOfFile
    <2>4. CASE NewlineStep
      BY <2>2, <2>4 DEF NewlineStep, Skip
    <2>5. CASE BlankStep
      BY <2>2, <2>5 DEF BlankStep, Skip
    <2>6. CASE LineStep
      BY <2>2, <2>6 DEF LineStep, Skip
    <2>7. CASE ParenStep
      BY <2>7 DEF ParenStep, Skip
    <2>8. CASE CommentStep
      BY <2>8 DEF CommentStep, Skip
    <2>9. CASE CodeCommentStep \/ NameStep \/ ErrorStep \/ CodeStep
      BY <2>2, <2>9 DEF CodeCommentStep, NameStep, ErrorStep, CodeStep
    <2>10. CASE 1 \in 1..Len(ahead) /\ WordStep
      <3>1. PICK token \in Tokens :
              /\ token = "CODE" => file[Pos + 1] = "CODE"
              /\ Return(token, 1, IF token = "CODE" THEN "code1" ELSE "INITIAL")
        BY <2>10 DEF WordStep
      <3>2. Pos + 1 \in DOMAIN file
        BY <1>0, <2>10, AheadIs
      <3>3. token # "CODE"
        BY <2>1, <3>1, <3>2 DEF Has
      <3>4. QED
        BY <3>1, <3>3 DEF Return
    <2>11. QED
      BY <1>4, <2>3, <2>4, <2>5, <2>6, <2>7, <2>8, <2>9, <2>10, Steps
  <1>5. QED
    BY <1>1, <1>2, <1>3, <1>4 DEF LexerNext

(* The order that CodeInOrder asks of tokens.                              *)
InOrder(s) ==
  \A i \in DOMAIN s :
    /\ s[i].token \in {"ASM", "END_CODE"} =>
         \E j \in 1..(i - 1) : /\ s[j].token = "CODE"
                               /\ \A k \in (j + 2)..(i - 1) : s[k].token = "ASM"
                               /\ i > j + 1
    /\ s[i].token = "CODE" =>
         \A k \in (i + 1)..Len(s) :
           (\A h \in (i + 1)..(k - 1) : s[h].token # "END_CODE") =>
             s[k].token \in (IF k = i + 1 THEN {"WORD"} ELSE {"ASM", "END_CODE"})

LEMMA OrderIs == CodeInOrder <=> (errors = 0 /\ ~dropped => InOrder(tokens))
  BY DEF CodeInOrder, InOrder

(* A token more is in order.                                               *)
LEMMA OrderGrows ==
  ASSUME NEW s \in Seq(Value), NEW v \in Value, InOrder(s),
         v.token \in {"ASM", "END_CODE"} =>
           \E j \in 1..(Len(s) - 1) :
             s[j].token = "CODE" /\ \A k \in (j + 2)..Len(s) : s[k].token = "ASM",
         \A i \in DOMAIN s : s[i].token = "CODE" /\ ~Closed(s, i) =>
           v.token \in (IF i = Len(s) THEN {"WORD"} ELSE {"ASM", "END_CODE"})
  PROVE  InOrder(Append(s, v))
  <1> DEFINE t == Append(s, v)
             n == Len(s)
  <1>1. /\ n \in Nat /\ DOMAIN s = 1..n /\ Len(t) = n + 1 /\ DOMAIN t = 1..(n + 1)
        /\ \A i \in 1..n : t[i] = s[i]
        /\ t[n + 1] = v
    OBVIOUS
  <1> HIDE DEF t
  <1>2. ASSUME NEW i \in 1..(n + 1), t[i].token \in {"ASM", "END_CODE"}
        PROVE  \E j \in 1..(i - 1) : /\ t[j].token = "CODE"
                                     /\ \A k \in (j + 2)..(i - 1) : t[k].token = "ASM"
                                     /\ i > j + 1
    <2>1. CASE i \in 1..n
      <3>1. PICK j \in 1..(i - 1) : /\ s[j].token = "CODE"
                                    /\ \A k \in (j + 2)..(i - 1) : s[k].token = "ASM"
                                    /\ i > j + 1
        BY <1>1, <1>2, <2>1 DEF InOrder
      <3>2. j \in 1..n /\ \A k \in (j + 2)..(i - 1) : k \in 1..n
        BY <1>1, <2>1
      <3>3. t[j].token = "CODE" /\ \A k \in (j + 2)..(i - 1) : t[k].token = "ASM"
        BY <1>1, <3>1, <3>2
      <3>4. QED
        BY <3>1, <3>3
    <2>2. CASE i = n + 1
      <3>1. v.token \in {"ASM", "END_CODE"}
        BY <1>1, <1>2, <2>2
      <3>2. PICK j \in 1..(n - 1) :
              s[j].token = "CODE" /\ \A k \in (j + 2)..n : s[k].token = "ASM"
        BY <3>1
      <3>3. /\ j \in 1..n /\ j \in 1..(i - 1) /\ i > j + 1 /\ i - 1 = n
            /\ \A k \in (j + 2)..n : k \in 1..n
        BY <1>1, <2>2
      <3>4. t[j].token = "CODE" /\ \A k \in (j + 2)..(i - 1) : t[k].token = "ASM"
        BY <1>1, <3>2, <3>3
      <3>5. QED
        BY <3>3, <3>4
    <2>3. QED
      BY <1>1, <2>1, <2>2
  <1>3. ASSUME NEW i \in 1..(n + 1), t[i].token = "CODE", NEW k \in (i + 1)..(n + 1),
               \A h \in (i + 1)..(k - 1) : t[h].token # "END_CODE"
        PROVE  t[k].token \in (IF k = i + 1 THEN {"WORD"} ELSE {"ASM", "END_CODE"})
    <2>0. i \in 1..n /\ s[i].token = "CODE" /\ \A h \in (i + 1)..(k - 1) : h \in 1..n
      BY <1>1, <1>3
    <2>1. \A h \in (i + 1)..(k - 1) : s[h].token # "END_CODE"
      BY <1>1, <1>3, <2>0
    <2>2. CASE k \in 1..n
      <3>1. k \in (i + 1)..n
        BY <1>1, <2>2
      <3>2. s[k].token \in (IF k = i + 1 THEN {"WORD"} ELSE {"ASM", "END_CODE"})
        BY <1>1, <2>0, <2>1, <3>1 DEF InOrder
      <3>3. QED
        BY <1>1, <2>2, <3>2
    <2>3. CASE k = n + 1
      <3>1. k - 1 = n /\ (k = i + 1 <=> i = n)
        <4>1. i \in Nat /\ n \in Nat
          BY <1>1, <2>0
        <4>2. QED
          BY <4>1, <2>3
      <3>2. ~Closed(s, i)
        BY <2>1, <3>1 DEF Closed
      <3>3. v.token \in (IF i = n THEN {"WORD"} ELSE {"ASM", "END_CODE"})
        BY <1>1, <2>0, <3>2
      <3>4. QED
        BY <1>1, <2>3, <3>1, <3>3
    <2>4. QED
      BY <1>1, <2>0, <2>2, <2>3
  <1>4. InOrder(t)
    <2>1. ASSUME NEW i \in DOMAIN t
          PROVE  /\ t[i].token \in {"ASM", "END_CODE"} =>
                      \E j \in 1..(i - 1) : /\ t[j].token = "CODE"
                                            /\ \A k \in (j + 2)..(i - 1) : t[k].token = "ASM"
                                            /\ i > j + 1
                 /\ t[i].token = "CODE" =>
                      \A k \in (i + 1)..Len(t) :
                        (\A h \in (i + 1)..(k - 1) : t[h].token # "END_CODE") =>
                          t[k].token \in (IF k = i + 1 THEN {"WORD"} ELSE {"ASM", "END_CODE"})
      <3>1. i \in 1..(n + 1) /\ Len(t) = n + 1
        BY <1>1, <2>1, Zenon
      <3>2. QED
        BY <1>2, <1>3, <3>1
    <2>2. QED
      BY <2>1 DEF InOrder
  <1>5. QED
    BY <1>4 DEF t

(* Which CODE words are closed by a token more.                            *)
LEMMA ClosedGrows ==
  ASSUME NEW s \in Seq(Value), NEW v \in Value, NEW i \in 1..Len(s), Closed(s, i) \/ v.token = "END_CODE"
  PROVE  Closed(Append(s, v), i)
  <1>1. /\ Len(s) \in Nat /\ Len(Append(s, v)) = Len(s) + 1 /\ Append(s, v)[Len(s) + 1] = v
        /\ \A k \in 1..Len(s) : Append(s, v)[k] = s[k]
    OBVIOUS
  <1>2. CASE v.token = "END_CODE"
    <2>1. Len(s) + 1 \in (i + 1)..(Len(s) + 1)
      BY <1>1
    <2>2. QED
      BY <1>1, <1>2, <2>1 DEF Closed
  <1>3. CASE Closed(s, i)
    <2>1. PICK k \in (i + 1)..Len(s) : s[k].token = "END_CODE"
      BY <1>3 DEF Closed
    <2>2. k \in (i + 1)..(Len(s) + 1) /\ k \in 1..Len(s)
      BY <1>1
    <2>3. QED
      BY <1>1, <2>1, <2>2 DEF Closed
  <1>4. QED
    BY <1>2, <1>3

(* A token outside CODE words.                                             *)
LEMMA CodeOutside ==
  ASSUME NEW s \in Seq(Value), NEW v \in Value, InOrder(s), CodeOpen(s, "INITIAL"),
         v.token \notin {"ASM", "END_CODE"}
  PROVE  /\ InOrder(Append(s, v))
         /\ CodeOpen(Append(s, v), IF v.token = "CODE" THEN "code1" ELSE "INITIAL")
  <1>1. /\ Len(s) \in Nat /\ DOMAIN s = 1..Len(s)
        /\ Len(Append(s, v)) = Len(s) + 1 /\ Append(s, v)[Len(s) + 1] = v
        /\ DOMAIN Append(s, v) = 1..(Len(s) + 1) /\ Append(s, v) # <<>>
        /\ \A k \in 1..Len(s) : Append(s, v)[k] = s[k]
    OBVIOUS
  <1>2. \A i \in DOMAIN s : s[i].token = "CODE" => Closed(s, i)
    BY DEF CodeOpen
  <1>3. InOrder(Append(s, v))
    BY <1>2, OrderGrows
  <1>4. ASSUME NEW i \in DOMAIN Append(s, v), i # Len(s) + 1, Append(s, v)[i].token = "CODE"
        PROVE  Closed(Append(s, v), i)
    <2>1. i \in 1..(Len(s) + 1)
      BY <1>1, <1>4, Zenon
    <2>2. i \in 1..Len(s)
      BY <1>1, <1>4, <2>1
    <2>3. s[i].token = "CODE"
      BY <1>1, <1>4, <2>2
    <2>4. QED
      BY <1>1, <1>2, <2>2, <2>3, ClosedGrows
  <1>5. CASE v.token = "CODE"
    <2>1. CodeOpen(Append(s, v), "code1")
      BY <1>1, <1>4, <1>5 DEF CodeOpen
    <2>2. QED
      BY <1>3, <1>5, <2>1
  <1>6. CASE v.token # "CODE"
    <2>1. CodeOpen(Append(s, v), "INITIAL")
      BY <1>1, <1>4, <1>6 DEF CodeOpen
    <2>2. QED
      BY <1>3, <1>6, <2>1
  <1>7. QED
    BY <1>5, <1>6

(* The name of a CODE word.                                                *)
LEMMA CodeName ==
  ASSUME NEW s \in Seq(Value), NEW v \in Value, InOrder(s), CodeOpen(s, "code1"), v.token = "WORD"
  PROVE  InOrder(Append(s, v)) /\ CodeOpen(Append(s, v), "code2")
  <1> DEFINE n == Len(s)
             t == Append(s, v)
  <1>1. /\ n \in Nat /\ DOMAIN s = 1..n /\ Len(t) = n + 1 /\ t[n + 1] = v
        /\ DOMAIN t = 1..(n + 1) /\ \A k \in 1..n : t[k] = s[k]
    OBVIOUS
  <1>2. /\ s # <<>> /\ s[n].token = "CODE"
        /\ \A i \in DOMAIN s : i # n /\ s[i].token = "CODE" => Closed(s, i)
    BY DEF CodeOpen
  <1>3. InOrder(t)
    BY <1>2, OrderGrows
  <1>4. n \in 1..n
    <2>1. Len(s) # 0
      BY <1>2
    <2>2. QED
      BY <1>1, <2>1
  <1>5. ASSUME NEW i \in 1..n, i # n, s[i].token = "CODE" PROVE Closed(t, i)
    BY <1>1, <1>2, <1>5, ClosedGrows
  <1> HIDE DEF t
  <1>6. ASSUME NEW i \in DOMAIN t, i # n, t[i].token = "CODE" PROVE Closed(t, i)
    <2>1. i \in 1..(n + 1)
      BY <1>1, <1>6, Zenon
    <2>2. i # n + 1
      BY <1>1, <1>6
    <2>3. i \in 1..n
      BY <1>1, <2>1, <2>2
    <2>4. QED
      BY <1>1, <1>5, <1>6, <2>3
  <1>7. n \in 1..(Len(t) - 1) /\ t[n].token = "CODE" /\ (n + 2)..Len(t) = {}
    BY <1>1, <1>2, <1>4
  <1>8. CodeOpen(t, "code2")
    BY <1>6, <1>7 DEF CodeOpen
  <1>9. QED
    BY <1>3, <1>8 DEF t

(* The lines and the end of a CODE word.                                   *)
LEMMA CodeLines ==
  ASSUME NEW s \in Seq(Value), NEW v \in Value, InOrder(s), CodeOpen(s, "code3"),
         v.token \in {"ASM", "END_CODE"}
  PROVE  /\ InOrder(Append(s, v))
         /\ CodeOpen(Append(s, v), IF v.token = "END_CODE" THEN "INITIAL" ELSE "code3")
  <1> DEFINE n == Len(s)
             t == Append(s, v)
  <1>1. /\ n \in Nat /\ DOMAIN s = 1..n /\ Len(t) = n + 1 /\ t[n + 1] = v
        /\ DOMAIN t = 1..(n + 1) /\ \A k \in 1..n : t[k] = s[k]
    OBVIOUS
  <1>2. PICK j \in 1..(n - 1) :
          /\ s[j].token = "CODE"
          /\ \A k \in (j + 2)..n : s[k].token = "ASM"
          /\ \A i \in DOMAIN s : i # j /\ s[i].token = "CODE" => Closed(s, i)
    BY DEF CodeOpen
  <1>3. j \in 1..n /\ j # n /\ j \in 1..((n + 1) - 1)
    <2>1. n \in Nat /\ j \in 1..(n - 1)
      OBVIOUS
    <2> HIDE DEF n
    <2>2. QED
      BY <2>1
  <1>4. InOrder(t)
    <2>1. \A i \in DOMAIN s : s[i].token = "CODE" /\ ~Closed(s, i) => i # n
      BY <1>2, <1>3
    <2>2. QED
      BY <1>2, <2>1, OrderGrows
  <1>5. ASSUME NEW i \in 1..n, s[i].token = "CODE", i # j \/ v.token = "END_CODE" PROVE Closed(t, i)
    BY <1>1, <1>2, <1>5, ClosedGrows
  <1> HIDE DEF t
  <1>6. ASSUME NEW i \in DOMAIN t, i # j \/ v.token = "END_CODE", t[i].token = "CODE" PROVE Closed(t, i)
    <2>1. i \in 1..(n + 1)
      BY <1>1, <1>6, Zenon
    <2>2. i # n + 1
      BY <1>1, <1>6
    <2>3. i \in 1..n
      BY <1>1, <2>1, <2>2
    <2>4. QED
      BY <1>1, <1>5, <1>6, <2>3
  <1>7. CASE v.token = "END_CODE"
    <2>1. CodeOpen(t, "INITIAL")
      BY <1>6, <1>7 DEF CodeOpen
    <2>2. QED
      BY <1>4, <1>7, <2>1 DEF t
  <1>8. CASE v.token = "ASM"
    <2>1. ASSUME NEW k \in (j + 2)..(n + 1) PROVE t[k].token = "ASM"
      <3>1. \/ k \in 1..n /\ k \in (j + 2)..n
            \/ k = n + 1
        BY <1>1
      <3>2. QED
        BY <1>1, <1>2, <1>8, <3>1
    <2>2. j \in 1..(Len(t) - 1) /\ t[j].token = "CODE" /\ Len(t) = n + 1
      BY <1>1, <1>2, <1>3
    <2>3. CodeOpen(t, "code3")
      BY <1>6, <2>1, <2>2 DEF CodeOpen
    <2>4. QED
      BY <1>4, <1>8, <2>3 DEF t
  <1>9. QED
    BY <1>7, <1>8

(* The start conditions of the same place in a CODE word.                  *)
LEMMA CodeSame ==
  ASSUME NEW s, NEW c, NEW d, CodeOpen(s, c),
         \/ c \in {"INITIAL", "rest", "comment"} /\ d \in {"INITIAL", "rest", "comment"}
         \/ c = "code1" /\ d = "code1"
         \/ c \in {"code2", "code3"} /\ d \in {"code2", "code3"}
  PROVE  CodeOpen(s, d)
  BY DEF CodeOpen

(* Every step keeps the order of CODE words.                               *)
LEMMA CodeOrderStep ==
  ASSUME Typing, RulesReadWell, CodeInOrder, CodeFollows, [LexerNext]_vars
  PROVE  CodeInOrder' /\ CodeFollows'
  <1>0. tokens \in Seq(Value) /\ errors \in Nat /\ sc \in Conditions
    BY DEF Typing, Parsing
  <1>i. /\ CodeInOrder <=> (errors = 0 /\ ~dropped => InOrder(tokens))
        /\ CodeInOrder' <=> (errors' = 0 /\ ~dropped' => InOrder(tokens'))
    <2>1. CodeInOrder' <=> (errors' = 0 /\ ~dropped' => InOrder(tokens'))
      BY DEF CodeInOrder, InOrder
    <2>2. QED
      BY <2>1, OrderIs
  <1>s. ASSUME tokens' = tokens, dropped' = dropped, errors' = 0 => errors = 0,
               errors' = 0 /\ CodeOpen(tokens, sc) => CodeOpen(tokens, sc')
        PROVE  CodeInOrder' /\ CodeFollows'
    <2>1. CodeInOrder'
      BY <1>i, <1>s
    <2>2. CodeFollows'
      BY <1>s DEF CodeFollows
    <2>3. QED
      BY <2>1, <2>2
  <1>1. CASE UNCHANGED vars
    <2>1. tokens' = tokens /\ dropped' = dropped /\ errors' = errors /\ sc' = sc
      BY <1>1, StutterKeeps
    <2>2. QED
      BY <1>s, <2>1
  <1>2. CASE yy_get_next_buffer
    <2>1. tokens' = tokens /\ dropped' = dropped /\ errors' = errors /\ sc' = sc
      BY <1>2, FillingKeeps
    <2>2. QED
      BY <1>s, <2>1
  <1>3. CASE NextFile
    <2>1. tokens' = <<>> /\ (~dropped' => sc' = "INITIAL")
      BY <1>3, Begins_anew
    <2>2. InOrder(<<>>) /\ CodeOpen(<<>>, "INITIAL")
      BY DEF InOrder, CodeOpen
    <2>3. QED
      BY <1>i, <2>1, <2>2 DEF CodeFollows
  <1>4. CASE yylex
    <2>0. status = "lexing" /\ Pos \in Nat /\ Buffered
      BY <1>4, Steps, Places DEF Typing
    <2>s. ASSUME NEW k \in 1..Len(ahead), NEW condition \in Conditions, NEW lines \in 0..1,
                 Skip(k, condition, lines),
                 \/ sc \in {"INITIAL", "rest", "comment"} /\ condition \in {"INITIAL", "rest", "comment"}
                 \/ sc = "code1" /\ condition = "code1"
                 \/ sc \in {"code2", "code3"} /\ condition \in {"code2", "code3"}
          PROVE  CodeInOrder' /\ CodeFollows'
      <3>1. sc' = condition /\ dropped' = dropped /\ tokens' = tokens /\ errors' = errors
        BY <2>0, <2>s, Skipped
      <3>2. CodeOpen(tokens, sc) => CodeOpen(tokens, condition)
        BY <2>s, CodeSame
      <3>3. QED
        BY <1>s, <3>1, <3>2
    <2>r. ASSUME NEW token \in Tokens, NEW k \in 1..Len(ahead), NEW condition,
                 Return(token, k, condition),
                 ASSUME NEW v \in Value, v.token = token, InOrder(tokens), CodeOpen(tokens, sc)
                 PROVE  InOrder(Append(tokens, v)) /\ CodeOpen(Append(tokens, v), condition)
          PROVE  CodeInOrder' /\ CodeFollows'
      <3>1. /\ sc' = condition /\ dropped' = dropped /\ tokens' = Append(tokens, yylval(token, k))
            /\ errors' \in Nat /\ errors <= errors'
        BY <2>0, <2>r, Returned
      <3>2. yylval(token, k) \in Value /\ yylval(token, k).token = token
        BY <2>r, yylvalIs DEF yylval
      <3>3. errors' = 0 => errors = 0
        BY <1>0, <3>1
      <3>4. ASSUME errors' = 0, ~dropped'
            PROVE  InOrder(tokens') /\ CodeOpen(tokens', sc')
        <4>1. InOrder(tokens) /\ CodeOpen(tokens, sc)
          BY <1>i, <3>1, <3>3, <3>4 DEF CodeFollows
        <4>2. InOrder(Append(tokens, yylval(token, k))) /\ CodeOpen(Append(tokens, yylval(token, k)), condition)
          BY <2>r, <3>2, <4>1
        <4>3. QED
          BY <3>1, <4>2
      <3>5. QED
        BY <1>i, <3>4 DEF CodeFollows
    <2>1. CASE EndOfFile
      <3>1. /\ dropped' = dropped /\ sc' = "INITIAL" /\ tokens' = tokens
            /\ errors' = 0 => errors = 0 /\ sc \in {"INITIAL", "rest"}
        BY <2>0, <2>1, Finished
      <3>2. errors' = 0 /\ CodeOpen(tokens, sc) => CodeOpen(tokens, sc')
        BY <3>1, CodeSame
      <3>3. QED
        BY <1>s, <3>1, <3>2
    <2>2. CASE 1 \in 1..Len(ahead) /\ NewlineStep
      <3> DEFINE c == IF sc = "code1" THEN "code1"
                      ELSE IF sc \in {"code2", "code3"} THEN "code3" ELSE "INITIAL"
      <3>1. Skip(1, c, 1) /\ sc # "comment" /\ 1 \in 1..Len(ahead) /\ 1 \in 0..1
        BY <2>2 DEF NewlineStep
      <3>2. \/ sc \in {"INITIAL", "rest", "comment"} /\ c \in {"INITIAL", "rest", "comment"}
            \/ sc = "code1" /\ c = "code1"
            \/ sc \in {"code2", "code3"} /\ c \in {"code2", "code3"}
        BY <1>0 DEF Conditions
      <3>3. c \in Conditions
        BY DEF Conditions
      <3> HIDE DEF c
      <3>4. QED
        BY <2>s, <3>1, <3>2, <3>3
    <2>3. CASE BlankStep
      <3> DEFINE c == IF sc = "rest" THEN "INITIAL" ELSE sc
      <3>1. PICK k \in 1..Len(ahead) : Skip(k, c, 0)
        BY <2>3 DEF BlankStep
      <3>2. \/ sc \in {"INITIAL", "rest", "comment"} /\ c \in {"INITIAL", "rest", "comment"}
            \/ sc = "code1" /\ c = "code1"
            \/ sc \in {"code2", "code3"} /\ c \in {"code2", "code3"}
        BY <1>0 DEF Conditions
      <3>3. c \in Conditions /\ 0 \in 0..1
        BY <1>0 DEF Conditions
      <3> HIDE DEF c
      <3>4. QED
        BY <2>s, <3>1, <3>2, <3>3
    <2>4. CASE LineStep
      <3> DEFINE c == IF sc = "code2" THEN "code3" ELSE "INITIAL"
      <3>1. PICK k \in 2..Len(ahead) : Skip(k, c, 1)
        BY <2>4 DEF LineStep
      <3>2. \/ sc \in {"INITIAL", "rest", "comment"} /\ c \in {"INITIAL", "rest", "comment"}
            \/ sc = "code1" /\ c = "code1"
            \/ sc \in {"code2", "code3"} /\ c \in {"code2", "code3"}
        BY <2>4 DEF LineStep
      <3>3. c \in Conditions /\ 1 \in 0..1 /\ k \in 1..Len(ahead)
        BY <2>0, Places DEF Conditions
      <3> HIDE DEF c
      <3>4. QED
        BY <2>s, <3>1, <3>2, <3>3
    <2>5. CASE ParenStep
      <3>1. Skip(2, "comment", 0) /\ "comment" \in Conditions /\ 0 \in 0..1 /\ sc \in {"INITIAL", "rest"}
        BY <2>5 DEF ParenStep, Conditions
      <3>2. 2 \in 1..Len(ahead)
        BY <2>0, <2>5, Places DEF ParenStep
      <3>3. QED
        BY <2>s, <3>1, <3>2
    <2>6. CASE 1 \in 1..Len(ahead) /\ CommentStep
      <3> DEFINE c == IF file[Pos + 1] = ")" THEN "INITIAL" ELSE "comment"
                 l == IF file[Pos + 1] = Newline THEN 1 ELSE 0
      <3>1. Skip(1, c, l) /\ sc = "comment" /\ 1 \in 1..Len(ahead)
        BY <2>6 DEF CommentStep
      <3>2. c \in Conditions /\ c \in {"INITIAL", "rest", "comment"} /\ l \in 0..1
        BY DEF Conditions
      <3> HIDE DEF c, l
      <3>3. QED
        BY <2>s, <3>1, <3>2
    <2>7. CASE CodeCommentStep
      <3>1. PICK k \in 1..Len(ahead) : Skip(k, "code2", 0)
        BY <1>0, <2>7, Places DEF CodeCommentStep
      <3>2. "code2" \in Conditions /\ 0 \in 0..1 /\ sc = "code2"
        BY <2>7 DEF Conditions, CodeCommentStep
      <3>3. QED
        BY <2>s, <3>1, <3>2
    <2>8. CASE 1 \in 1..Len(ahead) /\ WordStep
      <3>1. PICK token \in Tokens \ {"ASM", "END_CODE"} :
              Return(token, 1, IF token = "CODE" THEN "code1" ELSE "INITIAL")
        BY <2>8 DEF WordStep
      <3> DEFINE c == IF token = "CODE" THEN "code1" ELSE "INITIAL"
      <3>2. ASSUME NEW v \in Value, v.token = token, InOrder(tokens), CodeOpen(tokens, sc)
            PROVE  InOrder(Append(tokens, v)) /\ CodeOpen(Append(tokens, v), c)
        <4>1. CodeOpen(tokens, "INITIAL")
          BY <2>8, <3>2, CodeSame DEF WordStep
        <4>2. QED
          BY <1>0, <3>1, <3>2, <4>1, CodeOutside
      <3>3. Return(token, 1, c) /\ token \in Tokens /\ 1 \in 1..Len(ahead)
        BY <2>8, <3>1
      <3> HIDE DEF c
      <3>4. QED
        BY <2>r, <3>2, <3>3
    <2>9. CASE 1 \in 1..Len(ahead) /\ NameStep
      <3>1. Return("WORD", 1, "code2") /\ sc = "code1" /\ "WORD" \in Tokens
        BY <2>9 DEF NameStep, Tokens
      <3>2. ASSUME NEW v \in Value, v.token = "WORD", InOrder(tokens), CodeOpen(tokens, sc)
            PROVE  InOrder(Append(tokens, v)) /\ CodeOpen(Append(tokens, v), "code2")
        BY <1>0, <3>1, <3>2, CodeName
      <3>3. QED
        BY <2>9, <2>r, <3>1, <3>2
    <2>10. CASE 1 \in 1..Len(ahead) /\ ErrorStep
      <3>1. errors' = errors + 1 /\ UNCHANGED <<input, tokens>>
        BY <2>10 DEF ErrorStep
      <3>2. errors' # 0 /\ dropped' = dropped /\ tokens' = tokens
        BY <1>0, <3>1 DEF input
      <3>3. QED
        BY <1>s, <3>2
    <2>11. CASE CodeStep
      <3>1. PICK k \in 1..Len(ahead), token \in {"ASM", "END_CODE"} :
              Return(token, k, IF token = "END_CODE" THEN "INITIAL" ELSE "code3")
        BY <2>11 DEF CodeStep
      <3> DEFINE c == IF token = "END_CODE" THEN "INITIAL" ELSE "code3"
      <3>2. ASSUME NEW v \in Value, v.token = token, InOrder(tokens), CodeOpen(tokens, sc)
            PROVE  InOrder(Append(tokens, v)) /\ CodeOpen(Append(tokens, v), c)
        <4>1. CodeOpen(tokens, "code3")
          BY <2>11, <3>2 DEF CodeStep
        <4>2. QED
          BY <1>0, <3>1, <3>2, <4>1, CodeLines
      <3>3. Return(token, k, c) /\ token \in Tokens
        BY <3>1 DEF Tokens
      <3> HIDE DEF c
      <3>4. QED
        BY <2>r, <3>2, <3>3
    <2>12. QED
      BY <1>4, <2>1, <2>2, <2>3, <2>4, <2>5, <2>6, <2>7, <2>8, <2>9, <2>10, <2>11, Steps
  <1>5. QED
    BY <1>1, <1>2, <1>3, <1>4 DEF LexerNext

-----------------------------------------------------------------------------
(* Comments.                                                               *)

(* What a reader is in where it begins, and behind every character.        *)
LEMMA ReadingFromIs ==
  ASSUME NEW f, Len(f) \in Nat, NEW a \in 0..Len(f)
  PROVE  /\ ReadingFrom(f, a)[a] = "text"
         /\ \A i \in (a + 1)..Len(f) : ReadingFrom(f, a)[i] = Read(f, i, ReadingFrom(f, a)[i - 1])
  <1> DEFINE n == Len(f)
             Mode(m, i) == IF i = a THEN "text" ELSE Read(f, i, m[i - 1])
             Solves(m, k) == /\ m = [i \in a..n |-> m[i]]
                             /\ \A i \in a..n : i <= k => m[i] = Mode(m, i)
  <1>1. \E m : Solves(m, a)
    <2> DEFINE m == [i \in a..n |-> "text"]
    <2>1. Solves(m, a)
      OBVIOUS
    <2>2. QED
      BY <2>1
  <1>2. ASSUME NEW k \in Nat, a <= k, NEW m, Solves(m, k) PROVE \E g : Solves(g, k + 1)
    <2> DEFINE g == [i \in a..n |-> IF i = k + 1 THEN Mode(m, i) ELSE m[i]]
    <2>1. \A i \in a..n : g[i] = IF i = k + 1 THEN Mode(m, i) ELSE m[i]
      OBVIOUS
    <2>2. g = [i \in a..n |-> g[i]]
      OBVIOUS
    <2> HIDE DEF g
    <2>3. ASSUME NEW i \in a..n, i <= k + 1 PROVE g[i] = Mode(g, i)
      <3>1. i # a => i - 1 \in a..n /\ i - 1 # k + 1
        BY <2>3
      <3>2. i # a => g[i - 1] = m[i - 1]
        BY <2>1, <3>1
      <3>3. Mode(g, i) = Mode(m, i)
        BY <3>2
      <3>4. i # k + 1 => i <= k
        BY <2>3
      <3>5. i # k + 1 => m[i] = Mode(m, i)
        BY <1>2, <3>4
      <3> HIDE DEF Mode
      <3>6. QED
        BY <2>1, <3>3, <3>5
    <2>4. Solves(g, k + 1)
      BY <2>2, <2>3
    <2>5. QED
      BY <2>4
  <1>3. \E m : Solves(m, n)
    <2> HIDE DEF Solves
    <2> DEFINE T == {k \in a..n : ~ \E m : Solves(m, k)}
    <2>1. CASE T # {}
      <3>1. T \in SUBSET Nat
        OBVIOUS
      <3>2. PICK k \in T : \A y \in T : k <= y
        BY <2>1, <3>1, LeastNat
      <3>3. k \in a..n /\ k # a
        BY <1>1, <3>2
      <3>4. /\ k - 1 \in a..n /\ k - 1 \in Nat /\ a <= k - 1 /\ ~(k <= k - 1)
            /\ (k - 1) + 1 = k
        BY <3>3
      <3>5. PICK m : Solves(m, k - 1)
        BY <3>2, <3>4
      <3>6. \E g : Solves(g, (k - 1) + 1)
        BY <1>2, <3>4, <3>5
      <3>7. QED
        BY <3>2, <3>4, <3>6
    <2>2. QED
      BY <2>1
  <1>4. PICK m : Solves(m, n)
    BY <1>3
  <1>5. m = [i \in a..n |-> Mode(m, i)]
    <2>1. \A i \in a..n : m[i] = Mode(m, i)
      BY <1>4
    <2> HIDE DEF Mode
    <2>2. QED
      BY <1>4, <2>1
  <1> DEFINE r == CHOOSE h : h = [i \in a..n |-> Mode(h, i)]
  <1>6. r = [i \in a..n |-> Mode(r, i)]
    BY <1>5
  <1>7. ReadingFrom(f, a) = r
    BY DEF ReadingFrom
  <1> HIDE DEF r
  <1>8. \A i \in a..n : r[i] = Mode(r, i)
    BY <1>6
  <1>9. \A i \in (a + 1)..n : i \in a..n /\ i # a
    OBVIOUS
  <1>10. QED
    BY <1>7, <1>8, <1>9

LEMMA ReadingIs ==
  ASSUME NEW f, Len(f) \in Nat
  PROVE  /\ Reading(f)[0] = "text"
         /\ \A i \in 1..Len(f) : Reading(f)[i] = Read(f, i, Reading(f)[i - 1])
  <1>1. 0 \in 0..Len(f) /\ 0 + 1 = 1
    OBVIOUS
  <1>2. QED
    BY <1>1, ReadingFromIs DEF Reading

(* The reader stays in what it is in.                                      *)
LEMMA ReadsFromOn ==
  ASSUME NEW f, Len(f) \in Nat, NEW c \in Nat, NEW a \in Nat, c <= a, NEW k \in Nat, a + k <= Len(f),
         \A j \in 1..k : Read(f, a + j, ReadingFrom(f, c)[a]) = ReadingFrom(f, c)[a]
  PROVE  \A j \in 0..k : ReadingFrom(f, c)[a + j] = ReadingFrom(f, c)[a]
  <1> DEFINE T == {j \in 0..k : ReadingFrom(f, c)[a + j] # ReadingFrom(f, c)[a]}
  <1>1. CASE T # {}
    <2>1. T \in SUBSET Nat
      OBVIOUS
    <2>2. PICK j \in T : \A y \in T : j <= y
      BY <1>1, <2>1, LeastNat
    <2>3. j \in 0..k /\ j # 0
      BY <2>2
    <2>4. /\ j - 1 \in 0..k /\ ~(j <= j - 1) /\ a + j \in (c + 1)..Len(f) /\ j \in 1..k
          /\ (a + j) - 1 = a + (j - 1) /\ c \in 0..Len(f)
      BY <2>3
    <2>5. ReadingFrom(f, c)[a + (j - 1)] = ReadingFrom(f, c)[a]
      BY <2>2, <2>4
    <2>6. ReadingFrom(f, c)[a + j] = Read(f, a + j, ReadingFrom(f, c)[(a + j) - 1])
      BY <2>4, ReadingFromIs
    <2>7. ReadingFrom(f, c)[a + j] = ReadingFrom(f, c)[a]
      BY <2>4, <2>5, <2>6
    <2>8. QED
      BY <2>2, <2>7
  <1>2. QED
    BY <1>1

LEMMA ReadsOn ==
  ASSUME NEW f, Len(f) \in Nat, NEW a \in Nat, NEW k \in Nat, a + k <= Len(f),
         \A j \in 1..k : Read(f, a + j, Reading(f)[a]) = Reading(f)[a]
  PROVE  \A j \in 0..k : Reading(f)[a + j] = Reading(f)[a]
  <1>1. 0 \in Nat /\ 0 <= a
    OBVIOUS
  <1>2. QED
    BY <1>1, ReadsFromOn DEF Reading

(* When comments can be told from the file alone.                          *)
Legible == ~dropped /\ ~Has("CODE") /\ (file # <<>> => Last(file) = Newline)

LEMMA LegibleStays ==
  ASSUME file' = file, dropped' = dropped
  PROVE  Legible' <=> Legible
  BY DEF Legible, Has, Last

(* The words between two places.                                           *)
Between(a, b) == {i \in Text_words : a < i /\ i <= b}

(* The scanner and the reader go on together.                              *)
LEMMA CommentsGoOn ==
  ASSUME Typing, CommentsFollow, Legible, file' = file, dropped' = dropped, NEW k \in Nat, Pos' = Pos + k,
         status' = "lexing" => Reading(file)[Pos + k] = (IF sc' = "comment" THEN "paren" ELSE "text"),
         \/ tokens' = tokens /\ Between(Pos, Pos + k) = {}
         \/ /\ Between(Pos, Pos + k) = {Pos + 1}
            /\ \E token : tokens' = Append(tokens, yylval(token, k))
  PROVE  CommentsFollow'
  <1>1. Pos \in Nat /\ tokens \in Seq(Value)
    BY Places DEF Typing, Parsing
  <1>2. /\ {tokens[i].pos : i \in DOMAIN tokens} = {i \in Text_words : i <= Pos}
        /\ \A i, j \in DOMAIN tokens : i < j => tokens[i].pos < tokens[j].pos
    BY DEF CommentsFollow, Legible
  <1>3. Text_words' = Text_words
    BY DEF Text_words
  <1>4. Text_words \subseteq Int
    <2>1. DOMAIN file = 1..Len(file)
      BY FileIs DEF Typing
    <2>2. QED
      BY <2>1 DEF Text_words
  <1>5. {i \in Text_words : i <= Pos + k} = {i \in Text_words : i <= Pos} \cup Between(Pos, Pos + k)
    <2>1. \A i \in Int : i <= Pos + k <=> i <= Pos \/ (Pos < i /\ i <= Pos + k)
      BY <1>1
    <2>2. \A i \in Text_words : i <= Pos + k <=> i <= Pos \/ (Pos < i /\ i <= Pos + k)
      BY <1>4, <2>1, Zenon
    <2>3. QED
      BY <2>2, Zenon DEF Between
  <1>6. /\ {tokens'[i].pos : i \in DOMAIN tokens'} = {i \in Text_words : i <= Pos + k}
        /\ \A i, j \in DOMAIN tokens' : i < j => tokens'[i].pos < tokens'[j].pos
    <2>1. CASE tokens' = tokens /\ Between(Pos, Pos + k) = {}
      BY <1>2, <1>5, <2>1
    <2>2. ASSUME Between(Pos, Pos + k) = {Pos + 1}, NEW token, tokens' = Append(tokens, yylval(token, k))
          PROVE  <1>6!:
      <3> DEFINE n == Len(tokens)
      <3>1. n \in Nat /\ DOMAIN tokens = 1..n /\ DOMAIN tokens' = 1..(n + 1)
            /\ (\A j \in 1..n : tokens'[j] = tokens[j]) /\ tokens'[n + 1] = yylval(token, k)
        BY <1>1, <2>2
      <3>2. yylval(token, k).pos = Pos + 1
        BY DEF yylval
      <3> HIDE DEF n
      <3>3. {tokens'[i].pos : i \in 1..(n + 1)} = {tokens[i].pos : i \in 1..n} \cup {Pos + 1}
        <4>1. 1..(n + 1) = 1..n \cup {n + 1}
          BY <3>1
        <4>2. {tokens'[i].pos : i \in 1..(n + 1)} = {tokens'[i].pos : i \in 1..n} \cup {tokens'[n + 1].pos}
          BY <4>1
        <4>3. {tokens'[i].pos : i \in 1..n} = {tokens[i].pos : i \in 1..n}
          BY <3>1
        <4>4. QED
          BY <3>1, <3>2, <4>2, <4>3
      <3>4. {tokens'[i].pos : i \in DOMAIN tokens'} = {i \in Text_words : i <= Pos + k}
        BY <1>2, <1>5, <2>2, <3>1, <3>3
      <3>5. \A i \in 1..n : tokens[i].pos \in Int /\ tokens[i].pos <= Pos
        <4>1. \A i \in 1..n : tokens[i].pos \in {x \in Text_words : x <= Pos}
          BY <1>2, <3>1
        <4>2. QED
          BY <1>4, <4>1
      <3>6. ASSUME NEW i \in 1..(n + 1), NEW j \in 1..(n + 1), i < j
            PROVE  tokens'[i].pos < tokens'[j].pos
        <4>1. i \in 1..n /\ (j \in 1..n \/ j = n + 1)
          BY <3>1, <3>6
        <4>2. CASE j \in 1..n
          BY <1>2, <3>1, <3>6, <4>1, <4>2
        <4>3. CASE j = n + 1
          BY <1>1, <3>1, <3>2, <3>5, <4>1, <4>3
        <4>4. QED
          BY <4>1, <4>2, <4>3
      <3>7. QED
        BY <3>1, <3>4, <3>6
    <2>3. QED
      BY <2>1, <2>2
  <1>7. QED
    BY <1>3, <1>6 DEF CommentsFollow

(* A new file has nothing read of it.                                      *)
LEMMA CommentsBegin ==
  ASSUME Buffered, Pos = 0, tokens = <<>>, ~dropped => sc = "INITIAL"
  PROVE  CommentsFollow
  <1>1. DOMAIN file = 1..Len(file) /\ Len(file) \in Nat
    BY FileIs
  <1>2. Reading(file)[0] = "text"
    BY <1>1, ReadingIs
  <1>3. \A i \in Text_words : ~(i <= 0)
    BY <1>1 DEF Text_words
  <1>4. {tokens[i].pos : i \in DOMAIN tokens} = {i \in Text_words : i <= Pos}
    <2>1. {tokens[i].pos : i \in DOMAIN tokens} = {}
      OBVIOUS
    <2>2. {i \in Text_words : i <= Pos} = {}
      BY <1>3
    <2>3. QED
      BY <2>1, <2>2
  <1>5. \A i, j \in DOMAIN tokens : i < j => tokens[i].pos < tokens[j].pos
    OBVIOUS
  <1>6. QED
    BY <1>2, <1>4, <1>5 DEF CommentsFollow

(* A match that returns nothing: the reader is where the scanner is, and   *)
(* there are no words on the way.                                          *)
LEMMA CommentsSkip ==
  ASSUME Typing, RulesReadWell, CommentsFollow, Legible, status = "lexing", NEW k \in 1..Len(ahead),
         NEW condition \in Conditions, NEW lines \in 0..1, Skip(k, condition, lines),
         Reading(file)[Pos + k] = (IF condition = "comment" THEN "paren" ELSE "text"),
         \A j \in 1..k : \/ Reading(file)[(Pos + j) - 1] # "text"
                         \/ Reading(file)[Pos + j] # "text"
                         \/ file[Pos + j] \in Spaces
  PROVE  CommentsFollow'
  <1>1. /\ Pos' = Pos + k /\ file' = file /\ dropped' = dropped /\ sc' = condition /\ tokens' = tokens
    BY Skipped
  <1>2. Pos \in Nat /\ k \in Nat
    BY Places DEF Typing
  <1>3. Text_words \subseteq Int
    <2>1. DOMAIN file = 1..Len(file)
      BY FileIs DEF Typing
    <2>2. QED
      BY <2>1 DEF Text_words
  <1>4. ASSUME NEW i \in Between(Pos, Pos + k) PROVE FALSE
    <2>1. i \in Int /\ Pos < i /\ i <= Pos + k /\ i \in Text_words
      BY <1>3 DEF Between
    <2> DEFINE j == i - Pos
    <2>2. j \in 1..k /\ Pos + j = i
      BY <1>2, <2>1
    <2>3. \/ Reading(file)[i - 1] # "text" \/ Reading(file)[i] # "text" \/ file[i] \in Spaces
      BY <2>2
    <2>4. QED
      BY <2>1, <2>3 DEF Text_words
  <1>5. Between(Pos, Pos + k) = {}
    BY <1>4
  <1>6. QED
    BY <1>1, <1>2, <1>5, CommentsGoOn

(* Every step keeps the scanner with the reader.                           *)
LEMMA CommentsStep ==
  ASSUME Typing, RulesReadWell, CodeNeeded, CommentsFollow, [LexerNext]_vars
  PROVE  CommentsFollow'
  <1>0. /\ Pos \in Nat /\ Buffered /\ Len(file) \in Nat /\ Pos <= Len(file)
        /\ Len(ahead) \in Nat /\ DOMAIN file = 1..Len(file)
        /\ Pos + Len(ahead) <= Len(file)
    <2>1. Pos \in Nat /\ Len(file) \in Nat /\ Pos <= Len(file) /\ taken \in 0..Len(file)
      BY Places DEF Typing, Buffered
    <2>2. Len(ahead) = yy_n_chars - yy_c_buf_p /\ yy_n_chars - yy_c_buf_p \in Nat
          /\ Pos + Len(ahead) = taken
      BY Places, AheadIs DEF Typing
    <2>3. DOMAIN file = 1..Len(file) /\ Buffered
      BY FileIs DEF Typing
    <2>4. QED
      BY <2>1, <2>2, <2>3
  <1>r. /\ Reading(file)[0] = "text"
        /\ \A i \in 1..Len(file) : Reading(file)[i] = Read(file, i, Reading(file)[i - 1])
    BY <1>0, ReadingIs
  <1>1. ASSUME file' = file, dropped' = dropped, Pos' = Pos, tokens' = tokens,
               status' = "lexing" => status = "lexing" /\ sc' = sc
        PROVE  CommentsFollow'
    <2>1. Text_words' = Text_words /\ Legible' = Legible
      BY <1>1 DEF Text_words, Legible, Has, Last
    <2>2. QED
      BY <1>1, <2>1 DEF CommentsFollow, Legible
  <1>2. CASE UNCHANGED vars
    BY <1>1, <1>2, StutterKeeps
  <1>3. CASE yy_get_next_buffer
    BY <1>1, <1>3, FillingKeeps
  <1>4. CASE NextFile
    <2>1. Pos' = 0 /\ tokens' = <<>> /\ (~dropped' => sc' = "INITIAL") /\ Typing'
      BY <1>4, Begins_anew, NextFileKeeps
    <2>2. DOMAIN file' = 1..Len(file') /\ Len(file') \in Nat
      <3>1. files' \in Seq(Seq(Pieces)) /\ number' \in 1..Len(files')
        BY <2>1, LexerAssumption DEF Typing, Buffered
      <3>2. file' \in Seq(Pieces)
        BY <3>1 DEF file
      <3>3. QED
        BY <3>2
    <2>3. Reading(file')[0] = "text"
      BY <2>2, ReadingIs
    <2>4. {i \in Text_words' : i <= Pos'} = {}
      <3>1. Text_words' \subseteq DOMAIN file'
        BY DEF Text_words
      <3>2. \A i \in 1..Len(file') : ~(i <= 0)
        OBVIOUS
      <3>3. QED
        BY <2>1, <2>2, <3>1, <3>2
    <2>5. {tokens'[i].pos : i \in DOMAIN tokens'} = {}
          /\ \A i, j \in DOMAIN tokens' : i < j => tokens'[i].pos < tokens'[j].pos
      BY <2>1
    <2>6. QED
      BY <2>1, <2>3, <2>4, <2>5 DEF CommentsFollow
  <1>5. CASE yylex
    <2>0. status = "lexing" /\ file' = file /\ dropped' = dropped
      BY <1>5, Steps, MatchingKeeps
    <2>l. CASE ~Legible
      BY <2>0, <2>l, LegibleStays DEF CommentsFollow, Legible
    <2>1. CASE EndOfFile
      BY <1>1, <2>0, <2>1, Finished
    <2>2. ASSUME Legible, 1 \in 1..Len(ahead),
                 \/ NewlineStep \/ BlankStep \/ LineStep \/ ParenStep \/ CommentStep
                 \/ CodeCommentStep \/ WordStep \/ NameStep \/ ErrorStep \/ CodeStep
          PROVE  CommentsFollow'
      <3>0. /\ sc \in {"INITIAL", "comment"} /\ Last(file) = Newline
            /\ Reading(file)[Pos] = IF sc = "comment" THEN "paren" ELSE "text"
        <4>1. sc \in {"INITIAL", "comment"}
          BY <2>2 DEF CodeNeeded, Legible
        <4>2. file # <<>>
          BY <1>0, <2>2
        <4>3. QED
          BY <2>0, <2>2, <4>1, <4>2 DEF CommentsFollow, Legible
      <3>1. /\ Pos + 1 \in 1..Len(file) /\ (Pos + 1) - 1 = Pos /\ 0 \in 0..1 /\ 1 \in 0..1
            /\ 1..1 = {1} /\ 1 \in Nat
        BY <1>0, <2>2
      <3>2. Reading(file)[Pos + 1] = Read(file, Pos + 1, Reading(file)[Pos])
        BY <1>r, <3>1
      <3>3. CASE NewlineStep
        <4>1. sc = "INITIAL" /\ file[Pos + 1] = Newline /\ Skip(1, "INITIAL", 1)
          BY <3>0, <3>3 DEF NewlineStep
        <4>2. Reading(file)[Pos + 1] = "text"
          BY <3>0, <3>2, <4>1 DEF Read, Begins, Newline
        <4>3. file[Pos + 1] \in Spaces /\ "INITIAL" \in Conditions
          BY <4>1 DEF Spaces, Conditions
        <4>4. QED
          BY <2>0, <2>2, <3>1, <4>1, <4>2, <4>3, CommentsSkip
      <3>4. CASE BlankStep
        <4>1. sc = "INITIAL" /\ "INITIAL" \in Conditions
          BY <3>0, <3>4 DEF BlankStep, Conditions
        <4>2. PICK k \in 1..Len(ahead) :
                /\ \A j \in 1..k : file[Pos + j] = Blank
                /\ Skip(k, "INITIAL", 0)
          BY <3>4, <4>1 DEF BlankStep
        <4>3. k \in Nat /\ k \in 0..k /\ Pos + k <= Len(file)
          BY <1>0
        <4>4. Reading(file)[Pos] = "text"
          BY <3>0, <4>1
        <4>5. \A j \in 1..k : Read(file, Pos + j, "text") = "text"
          BY <4>2 DEF Read, Begins, Blank
        <4>s. \A j \in 1..k : Read(file, Pos + j, Reading(file)[Pos]) = Reading(file)[Pos]
          BY <4>4, <4>5, Zenon
        <4>t. \A j \in 0..k : Reading(file)[Pos + j] = Reading(file)[Pos]
          BY <1>0, <4>3, <4>s, ReadsOn
        <4>6. \A j \in 0..k : Reading(file)[Pos + j] = "text"
          BY <4>4, <4>t, Zenon
        <4>7. \A j \in 1..k : file[Pos + j] \in Spaces
          BY <4>2 DEF Spaces
        <4>8. Reading(file)[Pos + k] = "text"
          BY <4>3, <4>6
        <4>9. QED
          BY <2>0, <2>2, <3>1, <4>1, <4>2, <4>7, <4>8, CommentsSkip
      <3>5. CASE LineStep
        <4>1. sc = "INITIAL" /\ "INITIAL" \in Conditions /\ file[Pos + 1] = "\\" /\ file[Pos + 2] \in Spaces
          BY <3>0, <3>5 DEF LineStep, Conditions
        <4>2. PICK k \in 2..Len(ahead) :
                /\ file[Pos + k] = Newline /\ \A j \in 1..(k - 1) : file[Pos + j] # Newline
                /\ Skip(k, "INITIAL", 1)
          BY <3>5, <4>1 DEF LineStep
        <4>3. /\ k \in Nat /\ k - 2 \in Nat /\ k \in 1..Len(ahead) /\ Pos + k \in 1..Len(file)
              /\ (Pos + 1) + (k - 2) = (Pos + k) - 1 /\ (Pos + 1) + (k - 2) <= Len(file)
              /\ Pos + 1 < Len(file) /\ (Pos + 1) + 1 = Pos + 2 /\ Pos + 1 \in Nat
              /\ k - 2 \in 0..(k - 2)
          BY <1>0
        <4>4. Reading(file)[Pos] = "text"
          BY <3>0, <4>1
        <4>5. Reading(file)[Pos + 1] = "line"
          <5>1. Begins(file, Pos + 1, "\\")
            BY <4>1, <4>3 DEF Begins
          <5>2. QED
            BY <3>2, <4>4, <5>1 DEF Read
        <4>6. ASSUME NEW j \in 1..(k - 2) PROVE Read(file, (Pos + 1) + j, "line") = "line"
          <5>1. j + 1 \in 1..(k - 1) /\ (Pos + 1) + j = Pos + (j + 1)
            BY <1>0, <4>3
          <5>2. file[(Pos + 1) + j] # Newline
            BY <4>2, <5>1
          <5>3. QED
            BY <5>2 DEF Read
        <4>s. \A j \in 1..(k - 2) :
                Read(file, (Pos + 1) + j, Reading(file)[Pos + 1]) = Reading(file)[Pos + 1]
          BY <4>5, <4>6, Zenon
        <4>t. \A j \in 0..(k - 2) : Reading(file)[(Pos + 1) + j] = Reading(file)[Pos + 1]
          <5> DEFINE a == Pos + 1
                     h == k - 2
          <5>1. a \in Nat /\ h \in Nat /\ a + h <= Len(file)
            BY <4>3
          <5>2. \A j \in 1..h : Read(file, a + j, Reading(file)[a]) = Reading(file)[a]
            BY <4>s
          <5> HIDE DEF a, h
          <5>3. \A j \in 0..h : Reading(file)[a + j] = Reading(file)[a]
            BY <1>0, <5>1, <5>2, ReadsOn
          <5>4. QED
            BY <5>3 DEF a, h
        <4>7. \A j \in 0..(k - 2) : Reading(file)[(Pos + 1) + j] = "line"
          BY <4>5, <4>t, Zenon
        <4>8. Reading(file)[Pos + k] = "text"
          <5>1. Reading(file)[Pos + k] = Read(file, Pos + k, Reading(file)[(Pos + k) - 1])
            BY <1>r, <4>3
          <5>2. Reading(file)[(Pos + k) - 1] = "line"
            BY <4>3, <4>7
          <5>3. QED
            BY <4>2, <5>1, <5>2 DEF Read
        <4>9. ASSUME NEW j \in 1..k
              PROVE  \/ Reading(file)[Pos + j] # "text" \/ file[Pos + j] \in Spaces
          <5>1. CASE j = k
            BY <4>2, <5>1 DEF Spaces
          <5>2. CASE j # k
            <6>1. j - 1 \in 0..(k - 2) /\ (Pos + 1) + (j - 1) = Pos + j
              BY <1>0, <4>3, <5>2
            <6>2. Reading(file)[Pos + j] = "line"
              BY <4>7, <6>1
            <6>3. QED
              BY <6>2
          <5>3. QED
            BY <5>1, <5>2
        <4>10. QED
          BY <2>0, <2>2, <3>1, <4>1, <4>2, <4>3, <4>8, <4>9, CommentsSkip
      <3>6. CASE ParenStep
        <4>1. /\ sc = "INITIAL" /\ Skip(2, "comment", 0) /\ Len(ahead) >= 2
              /\ file[Pos + 1] = "(" /\ file[Pos + 2] = Blank /\ "comment" \in Conditions
          BY <3>0, <3>6 DEF ParenStep, Conditions
        <4>2. /\ 2 \in 1..Len(ahead) /\ Pos + 1 < Len(file) /\ (Pos + 1) + 1 = Pos + 2
              /\ Pos + 2 \in 1..Len(file) /\ (Pos + 2) - 1 = Pos + 1 /\ 1..2 = {1, 2}
          BY <1>0, <4>1
        <4>3. Reading(file)[Pos + 1] = "paren"
          <5>1. Begins(file, Pos + 1, "(") /\ ~Begins(file, Pos + 1, "\\")
            BY <4>1, <4>2 DEF Begins, Spaces
          <5>2. QED
            BY <3>0, <3>2, <4>1, <5>1 DEF Read
        <4>4. Reading(file)[Pos + 2] = "paren"
          <5>1. Reading(file)[Pos + 2] = Read(file, Pos + 2, Reading(file)[Pos + 1])
            BY <1>r, <4>2
          <5>2. QED
            BY <4>1, <4>3, <5>1 DEF Read, Blank
        <4>5. QED
          BY <2>0, <2>2, <3>1, <4>1, <4>2, <4>3, <4>4, CommentsSkip
      <3>7. CASE CommentStep
        <4> DEFINE c == IF file[Pos + 1] = ")" THEN "INITIAL" ELSE "comment"
                   l == IF file[Pos + 1] = Newline THEN 1 ELSE 0
        <4>1. Skip(1, c, l) /\ c \in Conditions /\ l \in 0..1 /\ sc = "comment"
          BY <3>7 DEF CommentStep, Conditions
        <4>2. Reading(file)[Pos] = "paren"
          BY <3>0, <4>1
        <4>3. Reading(file)[Pos + 1] = IF c = "comment" THEN "paren" ELSE "text"
          BY <3>2, <4>2 DEF Read
        <4> HIDE DEF c, l
        <4>4. QED
          BY <2>0, <2>2, <3>1, <4>1, <4>2, <4>3, CommentsSkip
      <3>8. CASE WordStep
        <4>1. PICK token \in Tokens :
                /\ token = "CODE" => file[Pos + 1] = "CODE"
                /\ Return(token, 1, IF token = "CODE" THEN "code1" ELSE "INITIAL")
          BY <3>8 DEF WordStep
        <4>2. /\ sc = "INITIAL" /\ file[Pos + 1] \notin Spaces
              /\ ~Begins(file, Pos + 1, "(") /\ ~Begins(file, Pos + 1, "\\")
          BY <3>0, <3>8 DEF WordStep
        <4>3. token # "CODE"
          BY <1>0, <2>2, <3>1, <4>1 DEF Legible, Has
        <4>4. /\ Pos' = Pos + 1 /\ sc' = "INITIAL" /\ tokens' = Append(tokens, yylval(token, 1))
          BY <2>0, <2>2, <4>1, <4>3, Returned
        <4>5. Reading(file)[Pos] = "text" /\ Reading(file)[Pos + 1] = "text"
          BY <3>0, <3>2, <4>2 DEF Read
        <4>6. Pos + 1 \in Text_words
          BY <1>0, <3>1, <4>2, <4>5 DEF Text_words
        <4>7. Between(Pos, Pos + 1) = {Pos + 1}
          <5>1. \A i \in 1..Len(file) : Pos < i /\ i <= Pos + 1 <=> i = Pos + 1
            BY <1>0
          <5>2. Text_words \subseteq 1..Len(file)
            BY <1>0 DEF Text_words
          <5>3. QED
            BY <4>6, <5>1, <5>2 DEF Between
        <4>8. QED
          BY <2>0, <2>2, <3>1, <4>4, <4>5, <4>7, CommentsGoOn
      <3>9. CASE CodeCommentStep \/ NameStep \/ ErrorStep \/ CodeStep
        BY <3>0, <3>9 DEF CodeCommentStep, NameStep, ErrorStep, CodeStep
      <3>10. QED
        BY <2>2, <3>3, <3>4, <3>5, <3>6, <3>7, <3>8, <3>9
    <2>3. QED
      BY <1>5, <2>l, <2>1, <2>2, Steps
  <1>6. QED
    BY <1>2, <1>3, <1>4, <1>5 DEF LexerNext

-----------------------------------------------------------------------------
(* The lines of CODE words.                                                *)

(* Blanks and comments go on with k characters more of them.               *)
LEMMA NothingElseGrows ==
  ASSUME NEW f, NEW a \in Nat, NEW b \in Nat, a <= b, NEW k \in Nat, NothingElse(f, a, b),
         ReadingFrom(f, a)[b + k] = "text",
         \A j \in 1..k : \/ ReadingFrom(f, a)[(b + j) - 1] # "text"
                         \/ ReadingFrom(f, a)[b + j] # "text"
                         \/ f[b + j] \in Spaces
  PROVE  NothingElse(f, a, b + k)
  <1> DEFINE mode == ReadingFrom(f, a)
  <1>1. ASSUME NEW i \in (a + 1)..(b + k)
        PROVE  f[i] \in Spaces \/ mode[i] # "text" \/ mode[i - 1] # "text"
    <2>1. CASE i \in (a + 1)..b
      BY <2>1 DEF NothingElse
    <2>2. CASE i \notin (a + 1)..b
      <3>1. i - b \in 1..k /\ b + (i - b) = i
        BY <2>2
      <3>2. QED
        BY <3>1
    <2>3. QED
      BY <2>1, <2>2
  <1>2. QED
    BY <1>1 DEF NothingElse

(* Characters that a reader of text takes for text.                        *)
LEMMA BlanksElse ==
  ASSUME NEW f, Len(f) \in Nat, NEW a \in Nat, NEW b \in Nat, a <= b, NEW k \in Nat, b + k <= Len(f),
         NothingElse(f, a, b), \A j \in 1..k : f[b + j] \in Spaces
  PROVE  NothingElse(f, a, b + k)
  <1>1. ReadingFrom(f, a)[b] = "text"
    BY DEF NothingElse
  <1>2. \A j \in 1..k : Read(f, b + j, "text") = "text"
    BY DEF Read, Begins, Spaces, Blank, Newline
  <1>3. \A j \in 1..k : Read(f, b + j, ReadingFrom(f, a)[b]) = ReadingFrom(f, a)[b]
    BY <1>1, <1>2, Zenon
  <1>4. \A j \in 0..k : ReadingFrom(f, a)[b + j] = ReadingFrom(f, a)[b]
    BY <1>3, ReadsFromOn
  <1>5. k \in 0..k
    OBVIOUS
  <1>6. ReadingFrom(f, a)[b + k] = "text"
    BY <1>1, <1>4, <1>5
  <1>7. QED
    BY <1>6, NothingElseGrows

(* The characters after the first, up to the k-th, leave a reader in mode. *)
Inside(f, b, k, mode) == \A j \in 2..(k - 1) : Read(f, b + j, mode) = mode

(* A comment, which begins with c, that leaves a reader in mode until the  *)
(* last of its k characters.                                               *)
LEMMA CommentElse ==
  ASSUME NEW f, Len(f) \in Nat, NEW a \in Nat, NEW b \in Nat, a <= b, NEW k \in Nat, k >= 2,
         b + k <= Len(f), NothingElse(f, a, b), NEW mode \in {"line", "paren"},
         Read(f, b + 1, "text") = mode, Read(f, b + k, mode) = "text", Inside(f, b, k, mode)
  PROVE  NothingElse(f, a, b + k)
  <1> DEFINE c == b + 1
             h == k - 2
  <1>1. ReadingFrom(f, a)[b] = "text"
    BY DEF NothingElse
  <1>2. /\ a \in 0..Len(f) /\ c \in (a + 1)..Len(f) /\ c - 1 = b /\ c \in Nat /\ h \in Nat
        /\ a <= c /\ c + h <= Len(f) /\ b + k \in (a + 1)..Len(f) /\ (b + k) - 1 = c + h
        /\ h \in 0..h
    OBVIOUS
  <1>3. \A i \in (a + 1)..Len(f) : ReadingFrom(f, a)[i] = Read(f, i, ReadingFrom(f, a)[i - 1])
    BY <1>2, ReadingFromIs
  <1>4. ReadingFrom(f, a)[c] = mode
    BY <1>1, <1>2, <1>3
  <1>5. ASSUME NEW j \in 1..h PROVE Read(f, c + j, mode) = mode
    <2>1. j + 1 \in 2..(k - 1) /\ b + (j + 1) = c + j
      OBVIOUS
    <2>2. QED
      BY <2>1 DEF Inside
  <1> HIDE DEF c, h
  <1>6. \A j \in 1..h : Read(f, c + j, ReadingFrom(f, a)[c]) = ReadingFrom(f, a)[c]
    BY <1>4, <1>5, Zenon
  <1>7. \A j \in 0..h : ReadingFrom(f, a)[c + j] = ReadingFrom(f, a)[c]
    <2> DEFINE T == {j \in 0..h : ReadingFrom(f, a)[c + j] # ReadingFrom(f, a)[c]}
    <2>1. CASE T # {}
      <3>1. T \in SUBSET Nat
        BY <1>2
      <3>2. PICK j \in T : \A y \in T : j <= y
        BY <2>1, <3>1, LeastNat
      <3>3. /\ j \in 1..h /\ j - 1 \in 0..h /\ ~(j <= j - 1) /\ c + j \in (a + 1)..Len(f)
            /\ (c + j) - 1 = c + (j - 1)
        BY <1>2, <3>2
      <3>4. ReadingFrom(f, a)[c + (j - 1)] = ReadingFrom(f, a)[c]
        BY <3>2, <3>3
      <3>5. ReadingFrom(f, a)[c + j] = Read(f, c + j, ReadingFrom(f, a)[c])
        BY <1>3, <3>3, <3>4
      <3>6. QED
        BY <1>6, <3>2, <3>3, <3>5
    <2>2. QED
      BY <2>1
  <1>8. \A j \in 0..h : ReadingFrom(f, a)[c + j] # "text"
    BY <1>4, <1>7
  <1>9. ReadingFrom(f, a)[b + k] = "text"
    BY <1>2, <1>3, <1>4, <1>7
  <1>10. ASSUME NEW j \in 1..k
         PROVE  \/ ReadingFrom(f, a)[(b + j) - 1] # "text"
                \/ ReadingFrom(f, a)[b + j] # "text"
    <2>1. CASE j = k
      BY <1>2, <1>8, <2>1
    <2>2. CASE j # k
      <3>1. j - 1 \in 0..h /\ c + (j - 1) = b + j
        BY <2>2 DEF c, h
      <3>2. QED
        BY <1>8, <3>1
    <2>3. QED
      BY <2>1, <2>2
  <1>11. QED
    BY <1>9, <1>10, NothingElseGrows

(* A token more that is not of a CODE word's lines, or that adjoins.       *)
LEMMA AdjoinsGrows ==
  ASSUME tokens \in Seq(Value), InOrder(tokens), LinesAdjoin(tokens), NEW v \in Value,
         v.token \in {"ASM", "END_CODE"} =>
           tokens # <<>> /\ WholeLine(file, v) /\ Adjoins(file, Last(tokens), v)
  PROVE  LinesAdjoin(Append(tokens, v))
  <1> DEFINE n == Len(tokens)
             t == Append(tokens, v)
  <1>1. /\ n \in Nat /\ DOMAIN tokens = 1..n /\ DOMAIN t = 1..(n + 1) /\ t[n + 1] = v
        /\ \A i \in 1..n : t[i] = tokens[i]
    OBVIOUS
  <1> HIDE DEF t
  <1>2. ASSUME NEW i \in 1..(n + 1), t[i].token \in {"ASM", "END_CODE"}
        PROVE  WholeLine(file, t[i]) /\ Adjoins(file, t[i - 1], t[i])
    <2>1. CASE i = n + 1
      <3>1. t[i] = v /\ tokens # <<>> /\ i - 1 = n
        BY <1>1, <1>2, <2>1
      <3>2. n # 0
        BY <3>1
      <3>3. t[i - 1] = Last(tokens)
        BY <1>1, <3>1, <3>2 DEF Last
      <3>4. QED
        BY <1>2, <3>1, <3>3
    <2>2. CASE i # n + 1
      <3>1. i \in 1..n /\ t[i] = tokens[i]
        BY <1>1, <2>2
      <3>2. PICK j \in 1..(i - 1) : i > j + 1
        BY <1>1, <1>2, <3>1 DEF InOrder
      <3>3. i - 1 \in 1..n
        BY <1>1, <3>1, <3>2
      <3>4. WholeLine(file, tokens[i]) /\ Adjoins(file, tokens[i - 1], tokens[i])
        BY <1>1, <1>2, <3>1 DEF LinesAdjoin
      <3>5. QED
        BY <1>1, <3>1, <3>3, <3>4
    <2>3. QED
      BY <2>1, <2>2
  <1>3. QED
    BY <1>1, <1>2 DEF LinesAdjoin, t

(* Every step keeps the lines of CODE words whole.                         *)
LEMMA WholeStep ==
  ASSUME Typing, RulesReadWell, CodeInOrder, CodeFollows, WholeFollows, [LexerNext]_vars
  PROVE  WholeFollows'
  <1>0. /\ Pos \in Nat /\ Buffered /\ Len(file) \in Nat /\ Len(ahead) \in Nat
        /\ Pos + Len(ahead) <= Len(file) /\ tokens \in Seq(Value) /\ errors \in Nat
        /\ sc \in Conditions
    <2>1. Pos \in Nat /\ Len(file) \in Nat /\ Pos <= Len(file) /\ taken \in 0..Len(file)
      BY Places DEF Typing, Buffered
    <2>2. Len(ahead) = yy_n_chars - yy_c_buf_p /\ yy_n_chars - yy_c_buf_p \in Nat
          /\ Pos + Len(ahead) = taken
      BY Places, AheadIs DEF Typing
    <2>3. Buffered /\ tokens \in Seq(Value) /\ errors \in Nat /\ sc \in Conditions
      BY DEF Typing, Parsing
    <2>4. QED
      BY <2>1, <2>2, <2>3
  <1>s. ASSUME file' = file, dropped' = dropped, Pos' = Pos, tokens' = tokens, errors' = 0 => errors = 0,
               sc' # sc => sc \notin {"code2", "code3"} /\ sc' \notin {"code2", "code3"}
        PROVE  WholeFollows'
    <2>1. SUFFICES ASSUME errors' = 0, ~dropped'
                   PROVE  /\ LinesAdjoin(tokens)'
                          /\ IF sc' \in {"code2", "code3"} THEN tokens' # <<>> /\ Since(Last(tokens))'
                             ELSE tokens' # <<>> => Last(tokens').token # "ASM"
      BY DEF WholeFollows, Last
    <2>2. /\ LinesAdjoin(tokens)
          /\ IF sc \in {"code2", "code3"} THEN tokens # <<>> /\ Since(Last(tokens))
             ELSE tokens # <<>> => Last(tokens).token # "ASM"
      BY <1>s, <2>1 DEF WholeFollows
    <2>3. LinesAdjoin(tokens)'
      BY <1>s, <2>2 DEF LinesAdjoin
    <2>4. sc' = sc /\ Since(Last(tokens)) => Since(Last(tokens))'
      BY <1>s DEF Since, Last
    <2>5. QED
      BY <1>s, <2>2, <2>3, <2>4
  <1>1. CASE UNCHANGED vars
    <2>1. /\ file' = file /\ dropped' = dropped /\ Pos' = Pos /\ tokens' = tokens
          /\ errors' = errors /\ sc' = sc
      BY <1>1, StutterKeeps
    <2>2. QED
      BY <1>s, <2>1
  <1>2. CASE yy_get_next_buffer
    <2>1. /\ file' = file /\ dropped' = dropped /\ Pos' = Pos /\ tokens' = tokens
          /\ errors' = errors /\ sc' = sc
      BY <1>2, FillingKeeps
    <2>2. QED
      BY <1>s, <2>1
  <1>3. CASE NextFile
    <2>1. tokens' = <<>> /\ (~dropped' => sc' = "INITIAL")
      BY <1>3, Begins_anew
    <2>2. LinesAdjoin(tokens)'
      BY <2>1 DEF LinesAdjoin
    <2>3. QED
      BY <2>1, <2>2 DEF WholeFollows
  <1>4. CASE yylex
    <2>0. status = "lexing" /\ file' = file /\ dropped' = dropped
      BY <1>4, Steps, MatchingKeeps
    <2>s. ASSUME NEW k \in 1..Len(ahead), NEW condition \in Conditions, NEW lines \in 0..1,
                 Skip(k, condition, lines),
                 IF sc \in {"code2", "code3"}
                 THEN /\ condition \in {"code2", "code3"}
                      /\ sc = "code3" => condition = "code3" /\ k = 1 /\ file[Pos + 1] = Newline
                      /\ sc = "code2" => \A a \in Nat : a <= Pos /\ NothingElse(file, a, Pos)
                                                       => NothingElse(file, a, Pos + k)
                      /\ condition = "code3" => file[Pos + k] = Newline
                 ELSE condition \notin {"code2", "code3"}
          PROVE  WholeFollows'
      <3>1. /\ Pos' = Pos + k /\ sc' = condition /\ tokens' = tokens /\ errors' = errors
        BY <2>0, <2>s, Skipped
      <3>2. SUFFICES ASSUME errors = 0, ~dropped
                     PROVE  /\ LinesAdjoin(tokens)'
                            /\ IF sc' \in {"code2", "code3"} THEN tokens' # <<>> /\ Since(Last(tokens))'
                               ELSE tokens' # <<>> => Last(tokens').token # "ASM"
        BY <2>0, <3>1 DEF WholeFollows, Last
      <3>3. /\ LinesAdjoin(tokens)
            /\ IF sc \in {"code2", "code3"} THEN tokens # <<>> /\ Since(Last(tokens))
               ELSE tokens # <<>> => Last(tokens).token # "ASM"
        BY <3>2 DEF WholeFollows
      <3>4. LinesAdjoin(tokens)'
        BY <2>0, <3>1, <3>3 DEF LinesAdjoin
      <3>5. CASE sc \notin {"code2", "code3"}
        BY <2>s, <3>1, <3>3, <3>4, <3>5
      <3>6. CASE sc \in {"code2", "code3"}
        <4> DEFINE t == Last(tokens)
        <4>1. tokens # <<>> /\ Since(t)
          BY <3>3, <3>6
        <4>2. t.last \in Nat
          <5>1. t \in Value
            BY <1>0, <4>1 DEF Last
          <5>2. QED
            BY <5>1 DEF Value
        <4> HIDE DEF t
        <4>3. k \in Nat /\ t.last <= Pos /\ t.last <= Pos + k
          <5>1. t.last <= Pos /\ k \in Nat
            BY <1>0, <4>1 DEF Since
          <5>2. QED
            BY <1>0, <4>2, <5>1
        <4>4. CASE t.token = "ASM"
          <5>1. sc = "code3" /\ WholeLine(file, t) /\ \A j \in (t.last + 1)..Pos : file[j] = Newline
            BY <4>1, <4>4 DEF Since
          <5>2. condition = "code3" /\ k = 1 /\ file[Pos + 1] = Newline
            BY <2>s, <5>1
          <5>3. \A j \in (t.last + 1)..(Pos + 1) : j \in (t.last + 1)..Pos \/ j = Pos + 1
            BY <1>0, <4>2
          <5>4. \A j \in (t.last + 1)..(Pos + 1) : file[j] = Newline
            BY <5>1, <5>2, <5>3
          <5>5. /\ t.last <= Pos'
                /\ sc' = "code3" /\ WholeLine(file', t) /\ \A j \in (t.last + 1)..Pos' : file'[j] = Newline
            BY <2>0, <3>1, <4>3, <5>1, <5>2, <5>4
          <5>6. Last(tokens)' = t
            BY <3>1 DEF Last, t
          <5>7. Since(Last(tokens))'
            BY <4>4, <5>5, <5>6 DEF Since
          <5>8. QED
            BY <3>1, <3>4, <4>1, <5>2, <5>7
        <4>5. CASE t.token # "ASM"
          <5>1. NothingElse(file, t.last, Pos)
            BY <4>1, <4>5 DEF Since
          <5>2. NothingElse(file, t.last, Pos + k)
            <6>1. CASE sc = "code2"
              BY <2>s, <4>2, <4>3, <5>1, <6>1
            <6>2. CASE sc = "code3"
              <7>1. k = 1 /\ file[Pos + 1] = Newline
                BY <2>s, <6>2
              <7>2. \A j \in 1..1 : file[Pos + j] \in Spaces
                BY <7>1 DEF Spaces
              <7>3. 1 \in Nat /\ Pos + 1 <= Len(file)
                BY <1>0, <2>s, <7>1
              <7>4. NothingElse(file, t.last, Pos + 1)
                BY <1>0, <4>2, <4>3, <5>1, <7>2, <7>3, BlanksElse
              <7>5. QED
                BY <7>1, <7>4
            <6>3. QED
              BY <3>6, <6>1, <6>2
          <5>3. /\ t.last <= Pos' /\ NothingElse(file', t.last, Pos')
                /\ sc' = "code3" => file'[Pos'] = Newline
            BY <2>0, <2>s, <3>1, <3>6, <4>3, <5>2
          <5>4. Last(tokens)' = t
            BY <3>1 DEF Last, t
          <5>5. Since(Last(tokens))'
            BY <4>5, <5>3, <5>4 DEF Since
          <5>6. QED
            BY <2>s, <3>1, <3>4, <3>6, <4>1, <5>5
        <4>6. QED
          BY <4>4, <4>5
      <3>7. QED
        BY <3>5, <3>6
    <2>r. ASSUME NEW token \in Tokens, NEW k \in 1..Len(ahead), NEW condition,
                 Return(token, k, condition),
                 errors = 0, ~dropped => LinesAdjoin(Append(tokens, yylval(token, k))),
                 IF condition \in {"code2", "code3"}
                 THEN IF token = "ASM" THEN condition = "code3" /\ WholeLine(file, yylval(token, k))
                      ELSE condition = "code2"
                 ELSE token # "ASM"
          PROVE  WholeFollows'
      <3> DEFINE v == yylval(token, k)
      <3>1. /\ Pos' = Pos + k /\ sc' = condition /\ tokens' = Append(tokens, v)
        BY <2>0, <2>r, Returned
      <3>2. v.token = token /\ v.last = Pos + k
        BY DEF yylval
      <3>3. Last(tokens)' = v /\ tokens' # <<>>
        BY <1>0, <3>1 DEF Last
      <3> HIDE DEF v
      <3>4. SUFFICES ASSUME ~dropped
                     PROVE  /\ LinesAdjoin(tokens)'
                            /\ IF sc' \in {"code2", "code3"} THEN Since(Last(tokens))'
                               ELSE Last(tokens)'.token # "ASM"
        BY <2>0, <3>3 DEF WholeFollows, Last
      <3>5. LinesAdjoin(tokens)'
        BY <2>0, <2>r, <3>1, <3>4 DEF LinesAdjoin, v
      <3>6. CASE condition \notin {"code2", "code3"}
        BY <2>r, <3>1, <3>2, <3>3, <3>5, <3>6
      <3>7. CASE condition \in {"code2", "code3"}
        <4>1. v.last <= Pos' /\ v.last = Pos' /\ (v.last + 1)..Pos' = {}
          <5>1. Pos + k \in Nat /\ ((Pos + k) + 1)..(Pos + k) = {}
            BY <1>0
          <5>2. v.last = Pos + k /\ Pos' = Pos + k
            BY <3>1, <3>2
          <5>3. QED
            BY <5>1, <5>2
        <4>2. CASE token = "ASM"
          <5>1. \A j \in (v.last + 1)..Pos' : file'[j] = Newline
            BY <4>1
          <5>2. sc' = "code3" /\ WholeLine(file', v)
            BY <2>0, <2>r, <3>1, <3>7, <4>2 DEF v
          <5>3. QED
            BY <3>1, <3>2, <3>3, <3>5, <4>1, <4>2, <5>1, <5>2 DEF Since
        <4>3. CASE token # "ASM"
          <5>1. sc' = "code2"
            BY <2>r, <3>1, <3>7, <4>3
          <5>2. v.last \in 0..Len(file')
            BY <1>0, <2>0, <2>r, <3>2
          <5>3. ReadingFrom(file', v.last)[v.last] = "text"
            <6>1. file' = file /\ Len(file) \in Nat
              BY <1>0, <2>0
            <6>2. v.last \in 0..Len(file)
              BY <5>2, <6>1
            <6>3. ReadingFrom(file, v.last)[v.last] = "text"
              BY <6>1, <6>2, ReadingFromIs
            <6>4. QED
              BY <6>1, <6>3
          <5>4. NothingElse(file', v.last, Pos')
            BY <4>1, <5>3 DEF NothingElse
          <5>5. QED
            BY <3>1, <3>2, <3>3, <3>5, <4>1, <4>3, <5>1, <5>4 DEF Since
        <4>4. QED
          BY <4>2, <4>3
      <3>8. QED
        BY <3>6, <3>7
    <2>e. ASSUME errors' # 0 PROVE WholeFollows'
      BY <2>e DEF WholeFollows
    <2>1. CASE EndOfFile
      <3>1. /\ Pos' = Pos /\ sc' = "INITIAL" /\ tokens' = tokens
            /\ errors' = 0 => errors = 0 /\ sc \in {"INITIAL", "rest"}
        BY <2>0, <2>1, Finished
      <3>2. QED
        BY <1>s, <2>0, <2>e, <3>1
    <2>2. CASE 1 \in 1..Len(ahead) /\ NewlineStep
      <3> DEFINE c == IF sc = "code1" THEN "code1"
                      ELSE IF sc \in {"code2", "code3"} THEN "code3" ELSE "INITIAL"
      <3>1. /\ Skip(1, c, 1) /\ file[Pos + 1] = Newline /\ 1 \in 1..Len(ahead) /\ 1 \in 0..1
            /\ c \in Conditions /\ 1 \in Nat /\ Pos + 1 <= Len(file)
        BY <1>0, <2>2 DEF NewlineStep, Conditions
      <3>2. \A a \in Nat : a <= Pos /\ NothingElse(file, a, Pos) => NothingElse(file, a, Pos + 1)
        <4>1. \A j \in 1..1 : file[Pos + j] \in Spaces
          BY <3>1 DEF Spaces
        <4>2. QED
          BY <1>0, <3>1, <4>1, BlanksElse
      <3>3. IF sc \in {"code2", "code3"} THEN c = "code3" ELSE c \notin {"code2", "code3"}
        OBVIOUS
      <3> HIDE DEF c
      <3>4. QED
        BY <2>s, <3>1, <3>2, <3>3
    <2>3. CASE BlankStep
      <3> DEFINE c == IF sc = "rest" THEN "INITIAL" ELSE sc
      <3>1. PICK k \in 1..Len(ahead) : (\A j \in 1..k : file[Pos + j] = Blank) /\ Skip(k, c, 0)
        BY <2>3 DEF BlankStep
      <3>2. k \in Nat /\ Pos + k <= Len(file) /\ 0 \in 0..1
        BY <1>0
      <3>3. \A a \in Nat : a <= Pos /\ NothingElse(file, a, Pos) => NothingElse(file, a, Pos + k)
        <4>1. \A j \in 1..k : file[Pos + j] \in Spaces
          BY <3>1 DEF Spaces
        <4>2. QED
          BY <1>0, <3>2, <4>1, BlanksElse
      <3>4. /\ c \in Conditions /\ sc # "code3"
            /\ IF sc \in {"code2", "code3"} THEN c = "code2" ELSE c \notin {"code2", "code3"}
        BY <1>0, <2>3 DEF BlankStep, Conditions
      <3> HIDE DEF c
      <3>5. QED
        BY <2>s, <3>1, <3>2, <3>3, <3>4
    <2>4. CASE LineStep
      <3> DEFINE c == IF sc = "code2" THEN "code3" ELSE "INITIAL"
      <3>1. PICK k \in 2..Len(ahead) :
              /\ file[Pos + 1] = "\\" /\ file[Pos + 2] \in Spaces
              /\ file[Pos + k] = Newline /\ \A j \in 1..(k - 1) : file[Pos + j] # Newline
              /\ Skip(k, c, 1)
        BY <2>4 DEF LineStep
      <3>2. /\ k \in Nat /\ k >= 2 /\ Pos + k <= Len(file) /\ 1 \in 0..1 /\ k \in 1..Len(ahead)
            /\ Pos + 1 < Len(file) /\ (Pos + 1) + 1 = Pos + 2
        BY <1>0
      <3>3. /\ Read(file, Pos + 1, "text") = "line" /\ Read(file, Pos + k, "line") = "text"
            /\ Inside(file, Pos, k, "line")
        <4>1. Begins(file, Pos + 1, "\\")
          BY <3>1, <3>2 DEF Begins
        <4>2. \A j \in 2..(k - 1) : j \in 1..(k - 1)
          BY <3>2
        <4>3. QED
          BY <3>1, <4>1, <4>2 DEF Read, Inside
      <3>4. \A a \in Nat : a <= Pos /\ NothingElse(file, a, Pos) => NothingElse(file, a, Pos + k)
        BY <1>0, <3>2, <3>3, CommentElse
      <3>5. /\ c \in Conditions /\ sc # "code3"
            /\ IF sc \in {"code2", "code3"} THEN c = "code3" ELSE c \notin {"code2", "code3"}
        BY <1>0, <2>4 DEF LineStep, Conditions
      <3> HIDE DEF c
      <3>6. QED
        BY <2>s, <3>1, <3>2, <3>4, <3>5
    <2>5. CASE ParenStep
      <3>1. /\ Skip(2, "comment", 0) /\ "comment" \in Conditions /\ 0 \in 0..1
            /\ sc \notin {"code2", "code3"}
        BY <2>5 DEF ParenStep, Conditions
      <3>2. 2 \in 1..Len(ahead)
        BY <1>0, <2>5 DEF ParenStep
      <3>3. QED
        BY <2>s, <3>1, <3>2
    <2>6. CASE 1 \in 1..Len(ahead) /\ CommentStep
      <3> DEFINE c == IF file[Pos + 1] = ")" THEN "INITIAL" ELSE "comment"
                 l == IF file[Pos + 1] = Newline THEN 1 ELSE 0
      <3>1. Skip(1, c, l) /\ sc = "comment" /\ 1 \in 1..Len(ahead)
        BY <2>6 DEF CommentStep
      <3>2. c \in Conditions /\ c \notin {"code2", "code3"} /\ l \in 0..1
        BY DEF Conditions
      <3> HIDE DEF c, l
      <3>3. QED
        BY <2>s, <3>1, <3>2
    <2>7. CASE CodeCommentStep
      <3>1. PICK k \in 2..Len(ahead) :
              /\ file[Pos + k] = ")" /\ \A j \in 1..(k - 1) : file[Pos + j] # ")"
              /\ Skip(k, "code2", 0)
        BY <2>7 DEF CodeCommentStep
      <3>2. /\ k \in Nat /\ k >= 2 /\ Pos + k <= Len(file) /\ 0 \in 0..1 /\ k \in 1..Len(ahead)
            /\ Pos + 1 < Len(file) /\ (Pos + 1) + 1 = Pos + 2
        BY <1>0
      <3>3. /\ Read(file, Pos + 1, "text") = "paren" /\ Read(file, Pos + k, "paren") = "text"
            /\ Inside(file, Pos, k, "paren")
        <4>1. file[Pos + 1] = "(" /\ file[Pos + 2] = Blank
          BY <2>7 DEF CodeCommentStep
        <4>2. Begins(file, Pos + 1, "(") /\ ~Begins(file, Pos + 1, "\\")
          BY <3>2, <4>1 DEF Begins, Spaces
        <4>3. \A j \in 2..(k - 1) : j \in 1..(k - 1)
          BY <3>2
        <4>4. QED
          BY <3>1, <4>2, <4>3 DEF Read, Inside
      <3>4. \A a \in Nat : a <= Pos /\ NothingElse(file, a, Pos) => NothingElse(file, a, Pos + k)
        BY <1>0, <3>2, <3>3, CommentElse
      <3>5. "code2" \in Conditions /\ sc = "code2"
        BY <2>7 DEF CodeCommentStep, Conditions
      <3>6. QED
        BY <2>s, <3>1, <3>2, <3>4, <3>5
    <2>o. ASSUME NEW token \in Tokens \ {"ASM", "END_CODE"}, NEW k \in 1..Len(ahead), NEW condition,
                 Return(token, k, condition), condition # "code3"
          PROVE  WholeFollows'
      <3>1. /\ yylval(token, k) \in Value /\ yylval(token, k).token = token
            /\ errors' \in Nat /\ errors <= errors'
        <4>1. token \in Tokens /\ k \in Nat
          BY <1>0, <2>o
        <4>2. yylval(token, k) \in Value /\ yylval(token, k).token = token
          BY <4>1, yylvalIs
        <4>3. errors' \in Nat /\ errors <= errors'
          BY <2>0, <2>o, <4>1, Returned
        <4>4. QED
          BY <4>2, <4>3
      <3>2. CASE errors' # 0
        BY <2>e, <3>2
      <3>3. CASE errors' = 0
        <4>1. errors = 0
          BY <1>0, <3>1, <3>3
        <4>2. ASSUME ~dropped PROVE LinesAdjoin(Append(tokens, yylval(token, k)))
          <5>1. InOrder(tokens) /\ LinesAdjoin(tokens)
            BY <4>1, <4>2, OrderIs DEF WholeFollows
          <5>2. QED
            BY <1>0, <2>o, <3>1, <5>1, AdjoinsGrows
        <4>3. QED
          BY <2>o, <2>r, <4>1, <4>2
      <3>4. QED
        BY <3>2, <3>3
    <2>8. CASE 1 \in 1..Len(ahead) /\ WordStep
      <3>1. PICK token \in Tokens \ {"ASM", "END_CODE"} :
              Return(token, 1, IF token = "CODE" THEN "code1" ELSE "INITIAL")
        BY <2>8 DEF WordStep
      <3>2. (IF token = "CODE" THEN "code1" ELSE "INITIAL") # "code3"
        OBVIOUS
      <3>3. QED
        BY <2>8, <2>o, <3>1, <3>2
    <2>9. CASE 1 \in 1..Len(ahead) /\ NameStep
      <3>1. Return("WORD", 1, "code2") /\ "WORD" \in Tokens \ {"ASM", "END_CODE"} /\ "code2" # "code3"
        BY <2>9 DEF NameStep, Tokens
      <3>2. QED
        BY <2>9, <2>o, <3>1
    <2>10. CASE 1 \in 1..Len(ahead) /\ ErrorStep
      <3>1. errors' = errors + 1
        BY <2>10 DEF ErrorStep
      <3>2. errors' # 0
        BY <1>0, <3>1
      <3>3. QED
        BY <2>e, <3>2
    <2>11. CASE CodeStep
      <3>1. PICK k \in 1..Len(ahead), token \in {"ASM", "END_CODE"} :
              /\ \A j \in 1..k : file[Pos + j] # Newline
              /\ Pos + k < Len(file) => file[(Pos + k) + 1] = Newline
              /\ Return(token, k, IF token = "END_CODE" THEN "INITIAL" ELSE "code3")
        BY <2>11 DEF CodeStep
      <3> DEFINE v == yylval(token, k)
                 c == IF token = "END_CODE" THEN "INITIAL" ELSE "code3"
      <3>2. /\ token \in Tokens /\ v \in Value /\ v.token = token /\ v.pos = Pos + 1 /\ v.last = Pos + k
            /\ errors' \in Nat /\ errors <= errors'
        <4>1. token \in Tokens
          BY DEF Tokens
        <4>2. k \in Nat
          BY <1>0
        <4>3. v \in Value /\ v.token = token /\ v.pos = Pos + 1
          BY <4>1, <4>2, yylvalIs
        <4>4. v.last = Pos + k
          BY DEF yylval
        <4>5. errors' \in Nat /\ errors <= errors'
          BY <2>0, <3>1, <4>1, Returned
        <4>6. QED
          BY <4>1, <4>3, <4>4, <4>5
      <3> HIDE DEF v
      <3>3. CASE errors' # 0 \/ dropped
        BY <2>0, <3>3 DEF WholeFollows
      <3>4. CASE errors' = 0 /\ ~dropped
        <4> DEFINE t == Last(tokens)
        <4>1. errors = 0
          BY <1>0, <3>2, <3>4
        <4>2. sc = "code3"
          BY <2>11 DEF CodeStep
        <4>3. InOrder(tokens) /\ LinesAdjoin(tokens) /\ tokens # <<>> /\ Since(t)
          BY <3>4, <4>1, <4>2, OrderIs DEF WholeFollows
        <4>4. t.last \in Nat
          <5>1. t \in Value
            BY <1>0, <4>3 DEF Last
          <5>2. QED
            BY <5>1 DEF Value
        <4> HIDE DEF t
        <4>5. t.last <= Pos
          BY <4>3 DEF Since
        <4>6. file[Pos] = Newline /\ Adjoins(file, t, v)
          <5>1. CASE t.token = "ASM"
            <6>1. WholeLine(file, t) /\ \A j \in (t.last + 1)..Pos : file[j] = Newline
              BY <4>3, <5>1 DEF Since
            <6>2. t.last # Pos
              <7>1. 1 \in 1..k /\ Pos + 1 <= Len(file)
                BY <1>0
              <7>2. file[Pos + 1] # Newline /\ Pos < Len(file)
                BY <1>0, <3>1, <7>1
              <7>3. QED
                BY <6>1, <7>2 DEF WholeLine
            <6>3. Pos \in (t.last + 1)..Pos /\ v.pos - 1 = Pos
              BY <1>0, <3>2, <4>4, <4>5, <6>2
            <6>4. QED
              BY <5>1, <6>1, <6>3 DEF Adjoins
          <5>2. CASE t.token # "ASM"
            <6>1. NothingElse(file, t.last, Pos) /\ file[Pos] = Newline
              BY <4>2, <4>3, <5>2 DEF Since
            <6>2. v.pos - 1 = Pos
              BY <1>0, <3>2
            <6>3. QED
              BY <5>2, <6>1, <6>2 DEF Adjoins
          <5>3. QED
            BY <5>1, <5>2
        <4>7. WholeLine(file, v)
          <5>1. v.pos - 1 = Pos /\ v.last = Pos + k
            BY <1>0, <3>2
          <5>2. ASSUME NEW j \in v.pos..v.last PROVE file[j] # Newline
            <6>1. j - Pos \in 1..k /\ Pos + (j - Pos) = j
              BY <1>0, <3>2
            <6>2. QED
              BY <3>1, <6>1
          <5>3. QED
            BY <3>1, <4>6, <5>1, <5>2 DEF WholeLine
        <4>8. LinesAdjoin(Append(tokens, v))
          BY <1>0, <3>2, <4>3, <4>6, <4>7, AdjoinsGrows DEF t
        <4>9. IF c \in {"code2", "code3"}
              THEN IF token = "ASM" THEN c = "code3" /\ WholeLine(file, v) ELSE c = "code2"
              ELSE token # "ASM"
          BY <4>7
        <4>10. Return(token, k, c)
          BY <3>1
        <4> HIDE DEF c
        <4>11. QED
          BY <2>r, <3>2, <4>1, <4>8, <4>9, <4>10 DEF v
      <3>5. QED
        BY <3>3, <3>4
    <2>12. QED
      BY <1>4, <2>1, <2>2, <2>3, <2>4, <2>5, <2>6, <2>7, <2>8, <2>9, <2>10, <2>11, Steps
  <1>5. QED
    BY <1>1, <1>2, <1>3, <1>4 DEF LexerNext

-----------------------------------------------------------------------------
(* The invariant of the scanner, the parser's rules and the file: all of   *)
(* it together, since comments, lines and CODE words go on from it.        *)
THEOREM LexerInvariant == LexerSpec => []LexerInv
  <1>1. LexerInit => LexerInv
    <2>1. SUFFICES ASSUME LexerInit PROVE LexerInv
      OBVIOUS
    <2>2. Typing /\ RulesReadWell /\ Pos = 0
      BY <2>1, TypingInit
    <2>3. sc = "INITIAL" /\ tokens = <<>> /\ line = 1
      BY <2>1 DEF LexerInit
    <2>4. CodeNeeded
      BY <2>3 DEF CodeNeeded
    <2>5. CommentsFollow
      BY <2>2, <2>3, CommentsBegin DEF Typing
    <2>6. LinesFollow
      <3>1. LinesBefore(Pos + 1) = Cardinality({i \in 1..((0 + 1) - 1) : file[i] = Newline})
        BY <2>2 DEF LinesBefore
      <3>2. {i \in 1..((0 + 1) - 1) : file[i] = Newline} = {}
        OBVIOUS
      <3>3. LinesBefore(Pos + 1) = 0
        BY <3>1, <3>2, FS_EmptySet
      <3>4. DOMAIN tokens = {} /\ line = 1 + 0
        BY <2>3
      <3>5. QED
        BY <3>3, <3>4 DEF LinesFollow
    <2>7. CodeInOrder /\ CodeFollows
      <3>1. InOrder(<<>>) /\ CodeOpen(<<>>, "INITIAL")
        BY DEF InOrder, CodeOpen
      <3>2. QED
        BY <2>3, <3>1, OrderIs DEF CodeFollows
    <2>8. WholeFollows
      BY <2>3 DEF WholeFollows, LinesAdjoin
    <2>9. QED
      BY <2>2, <2>4, <2>5, <2>6, <2>7, <2>8 DEF LexerInv
  <1>2. LexerInv /\ [LexerNext]_vars => LexerInv'
    <2>1. SUFFICES ASSUME LexerInv, [LexerNext]_vars PROVE LexerInv'
      OBVIOUS
    <2>2. /\ Typing /\ CodeNeeded /\ LinesFollow /\ CommentsFollow
          /\ CodeInOrder /\ CodeFollows /\ WholeFollows /\ RulesReadWell
      BY <2>1 DEF LexerInv
    <2>3. Typing' /\ RulesReadWell'
      BY <2>1, <2>2, TypingStep
    <2>4. CodeNeeded'
      BY <2>1, <2>2, CodeNeededStep
    <2>5. LinesFollow'
      BY <2>1, <2>2, LinesStep
    <2>6. CommentsFollow'
      BY <2>1, <2>2, CommentsStep
    <2>7. CodeInOrder' /\ CodeFollows'
      BY <2>1, <2>2, CodeOrderStep
    <2>8. WholeFollows'
      BY <2>1, <2>2, WholeStep
    <2>9. QED
      BY <2>3, <2>4, <2>5, <2>6, <2>7, <2>8 DEF LexerInv
  <1>3. QED
    BY <1>1, <1>2, PTL DEF LexerSpec

(* CODE words reach the parser whole and in the order that CodeInOrder     *)
(* tells, no line of them left out or cut, and every token has the line it *)
(* is on, as LinesTold tells (forth.l): for all files and sizes of the     *)
(* buffer, as far as there are no errors and the file before was not given *)
(* up.                                                                     *)
THEOREM CodeIsTold == LexerSpec => []CodeTold
  <1>1. LexerInv => CodeWhole
    <2>1. SUFFICES ASSUME LexerInv, errors = 0, ~dropped
                   PROVE  /\ \A i \in DOMAIN tokens :
                               tokens[i].token \in {"ASM", "END_CODE"} =>
                                 WholeLine(file, tokens[i]) /\ Adjoins(file, tokens[i - 1], tokens[i])
                          /\ status = "parsed" /\ tokens # <<>> => Last(tokens).token # "ASM"
      BY DEF CodeWhole
    <2>2. LinesAdjoin(tokens) /\ (status = "parsed" => sc = "INITIAL")
      BY <2>1 DEF LexerInv, WholeFollows, Typing, Parsing
    <2>3. sc = "INITIAL" /\ tokens # <<>> => Last(tokens).token # "ASM"
      BY <2>1 DEF LexerInv, WholeFollows
    <2>4. QED
      BY <2>2, <2>3 DEF LinesAdjoin
  <1>2. LexerInv => CodeTold
    BY <1>1 DEF LexerInv, LinesFollow, LinesTold, CodeTold
  <1>3. QED
    BY <1>2, LexerInvariant, PTL

(* All words outside comments are tokens, and nothing else is, where       *)
(* CommentsSkipped says that (forthc.1:148): for all files and sizes of    *)
(* the buffer.                                                             *)
THEOREM CommentsAreSkipped == LexerSpec => []CommentsSkipped
  <1>1. ASSUME LexerInv PROVE CommentsSkipped
    <2>1. Typing /\ CommentsFollow
      BY <1>1 DEF LexerInv
    <2>2. SUFFICES ASSUME status = "parsed", Legible
                   PROVE  /\ {tokens[i].pos : i \in DOMAIN tokens} = Text_words
                          /\ \A i, j \in DOMAIN tokens : i < j => tokens[i].pos < tokens[j].pos
      BY DEF CommentsSkipped, Legible
    <2>3. /\ {tokens[i].pos : i \in DOMAIN tokens} = {i \in Text_words : i <= Pos}
          /\ \A i, j \in DOMAIN tokens : i < j => tokens[i].pos < tokens[j].pos
      BY <2>1, <2>2 DEF CommentsFollow, Legible
    <2>4. Pos = Len(file)
      BY <2>1, <2>2 DEF Typing, Parsing
    <2>5. DOMAIN file = 1..Len(file)
      BY <2>1, FileIs DEF Typing
    <2>6. Text_words \subseteq 1..Len(file)
      BY <2>5 DEF Text_words
    <2>7. {i \in Text_words : i <= Pos} = Text_words
      <3>1. \A i \in 1..Len(file) : i <= Len(file)
        OBVIOUS
      <3>2. \A i \in Text_words : i <= Pos
        BY <2>4, <2>6, <3>1
      <3>3. QED
        BY <3>2
    <2>8. QED
      BY <2>3, <2>7
  <1>2. QED
    BY <1>1, LexerInvariant, PTL
=============================================================================
