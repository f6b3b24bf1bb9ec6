------------------------------ MODULE Mangler -------------------------------
(***************************************************************************)
(* Names of Forth words as symbols of the assembler, and back              *)
(* (compiler/mangler.cc).  A name is a sequence of characters; which       *)
(* characters have a name of their own, and which code, is given by        *)
(* constants, so that a small alphabet can stand for all of it.            *)
(***************************************************************************)
EXTENDS Integers, SequencesExt

CONSTANTS
  Names,      \* the names that are mangled
  Entity,     \* the characters with a name of their own, and the name
  Code,       \* two hexadecimal digits for a character
  Lower,      \* the capital letters, and the small ones
  Digits,     \* the decimal digits
  HighWater   \* longer symbols are not extended: HIGH_WATER_MARK

CodeAssumption ==
  /\ IsInjective(Code)
  /\ \A i, j \in Digits : <<i, j>> \in Range(Code)

\* No entity is the beginning of another, and each has a capital first.
EntityAssumption ==
  \A c, d \in DOMAIN Entity :
    /\ Head(Entity[c]) \in DOMAIN Lower
    /\ IsPrefix(Entity[c], Entity[d]) => c = d

VARIABLES
  name,       \* the name of a word
  symbol,     \* its symbol
  left,       \* what is left of the symbol, and the name found in it so far
  demangled,
  status

vars == <<name, symbol, left, demangled, status>>

Unmangled == {<<"_", "s", "t", "a", "r", "t">>, <<"m", "a", "i", "n">>}

Underscores == <<"_", "_">>

Prefix == <<"v", "4", "_">>

IsRestricted(s) == Len(s) > 2 /\ IsPrefix(Underscores, s)

to_lower(s) == [i \in DOMAIN s |-> IF s[i] \in DOMAIN Lower THEN Lower[s[i]] ELSE s[i]]

-----------------------------------------------------------------------------
(***************************************************************************)
(* Mangling, one character after the other.                                *)
(***************************************************************************)

IsEntity(c) == c \in DOMAIN Entity

IsSimple(c) == ~IsEntity(c) /\ (c \in Digits \/ c \notin DOMAIN Code)

transform_simple(c, mangled) ==
  IF mangled = << >> /\ c \in Digits THEN <<"z", c>> ELSE Append(mangled, c)

transform_entity(c, mangled) == mangled \o Entity[c]

transform_hex(c, mangled) == mangled \o <<"x">> \o Code[c]

transform(mangled, c) ==
  LET separated == mangled \o (IF mangled = << >> THEN << >> ELSE <<"_">>) IN
  CASE Len(mangled) > HighWater -> mangled
    [] IsSimple(c)              -> transform_simple(c, mangled)
    [] IsEntity(c)              -> transform_entity(c, separated)
    [] OTHER                    -> transform_hex(c, separated)

\* All characters of s, one by one.
Transformed(s) ==
  LET mangled[i \in 0..Len(s)] == IF i = 0 THEN << >> ELSE transform(mangled[i - 1], s[i])
  IN mangled[Len(s)]

mangle(s) ==
  CASE s \in Unmangled   -> s
    [] s = Underscores   -> << >>
    [] IsRestricted(s)   -> Transformed(SubSeq(s, 3, Len(s)))
    [] OTHER             -> Prefix \o Transformed(to_lower(s))

-----------------------------------------------------------------------------
(***************************************************************************)
(* Demangling, one turn of the loop at a time.  Before the first character *)
(* the separator that mangling left out is put back.                       *)
(***************************************************************************)

Separated(s, d) == (IF d = << >> THEN <<"_">> ELSE << >>) \o s

SpellsHex(s) == Len(s) >= 4 /\ s[1] = "_" /\ s[2] = "x" /\ <<s[3], s[4]>> \in Range(Code)

Decoded(s) == CHOOSE c \in DOMAIN Code : Code[c] = <<s[3], s[4]>>

Spelt(s) == {c \in DOMAIN Entity : IsPrefix(<<"_">> \o Entity[c], s)}

AfterZ(s) == IF Len(s) > 1 /\ s[1] = "z" /\ s[2] \in Digits THEN Tail(s) ELSE s

untransform_simple(s, d) ==
  LET rest == IF d = << >> THEN AfterZ(s) ELSE s IN <<Tail(rest), Append(d, Head(rest))>>

untransformSlip(s, d) ==
  LET ss == Separated(s, << >>) IN
  CASE SpellsHex(ss)    -> <<SubSeq(ss, 5, Len(ss)), Append(d, Decoded(ss))>>
    [] ~SpellsHex(ss) /\ Spelt(ss) # {} ->
         LET c == CHOOSE c \in Spelt(ss) : TRUE IN
         <<SubSeq(ss, Len(Entity[c]) + 2, Len(ss)), Append(d, c)>>
    [] OTHER            -> untransform_simple(s, d)

untransform(s, d) ==
  LET ss == Separated(s, d) IN
  CASE SpellsHex(ss)    -> <<SubSeq(ss, 5, Len(ss)), Append(d, Decoded(ss))>>
    [] ~SpellsHex(ss) /\ Spelt(ss) # {} ->
         LET c == CHOOSE c \in Spelt(ss) : TRUE IN
         <<SubSeq(ss, Len(Entity[c]) + 2, Len(ss)), Append(d, c)>>
    [] OTHER            -> untransform_simple(s, d)

-----------------------------------------------------------------------------
ManglerInit ==
  /\ name \in Names
  /\ symbol = << >> /\ left = << >> /\ demangled = << >>
  /\ status = "typed"

Mangle ==
  /\ status = "typed"
  /\ symbol' = mangle(name)
  /\ status' = "mangled"
  /\ UNCHANGED <<name, left, demangled>>

\* Symbols without the prefix are those of C, except the two that stay.
DemangleOther ==
  /\ status = "mangled"
  /\ ~IsPrefix(Prefix, symbol)
  /\ demangled' = IF symbol \in Unmangled THEN symbol ELSE Underscores \o symbol
  /\ status' = "done"
  /\ UNCHANGED <<name, symbol, left>>

DemanglePrefixed ==
  /\ status = "mangled"
  /\ IsPrefix(Prefix, symbol)
  /\ left' = SubSeq(symbol, 4, Len(symbol))
  /\ status' = "demangling"
  /\ UNCHANGED <<name, symbol, demangled>>

Untransform ==
  /\ status = "demangling" /\ left # << >>
  /\ LET step == untransform(left, demangled) IN left' = step[1] /\ demangled' = step[2]
  /\ UNCHANGED <<name, symbol, status>>

Return ==
  /\ status = "demangling" /\ left = << >>
  /\ status' = "done"
  /\ UNCHANGED <<name, symbol, left, demangled>>

ManglerNext == Mangle \/ DemangleOther \/ DemanglePrefixed \/ Untransform \/ Return

ManglerSpec == ManglerInit /\ [][ManglerNext]_vars

-----------------------------------------------------------------------------
(***************************************************************************)
(* What a name must not spell to come back as it was.                      *)
(***************************************************************************)

SpellsCode(s) ==
  LET t == <<"_">> \o s IN
  \E i \in DOMAIN t : (i = 1 \/ i > 2) /\ SpellsHex(SubSeq(t, i, Len(t)))

SpellsDigit(s) == Len(s) > 1 /\ s[1] = "z" /\ s[2] \in Digits

Bare(s) == IF IsRestricted(s) THEN SubSeq(s, 3, Len(s)) ELSE s

\* A symbol of C that is written as if Forth had made it.
Disguised(s) == IsRestricted(s) /\ IsPrefix(Prefix, Bare(s))

Whole == Len(symbol) <= HighWater

\* The variables have their types, and a symbol goes beyond the mark by one
\* character at most (mangler.cc: transform).
TypeOK ==
  /\ {name, symbol, left, demangled} \subseteq Seq(STRING)
  /\ Len(symbol) <= Len(Prefix) + HighWater + 1 + Max({Len(Entity[c]) : c \in DOMAIN Entity})
  /\ status \in {"typed", "mangled", "demangling", "done"}

\* -X gives back the name that -M was given, in small letters: so different
\* names have different symbols (mangler.cc: mangle, demangle).  Excepted are
\* the names that spell a code or a digit with its z, very long ones, and
\* symbols of C.
NamesComeBack ==
  (status = "done" /\ Whole /\ ~SpellsCode(name) /\ ~SpellsDigit(name) /\ ~IsPrefix(Underscores, name))
    => demangled \in {name, to_lower(name)}

\* The name that -X prints can be used for the symbol that it was given,
\* whatever it was before (mangler.cc: demangle), also when it was cut
\* short; but not for symbols of C that are cut, or look as if Forth made them.
PrintedNamesServe ==
  (status = "done" /\ ~SpellsCode(Bare(name)) /\ ~Disguised(name) /\ (IsRestricted(name) => Whole))
    => mangle(demangled) = symbol

\* Symbols can be used in C and in the assembler (forthc.1, NAME MANGLING): no
\* special character is left, and no digit comes first.
IsSymbol(s) ==
  /\ s # << >> /\ Head(s) \notin Digits
  /\ \A i \in DOMAIN s : IsSimple(s[i])

SymbolsAreValid == (status = "mangled" /\ name # Underscores) => IsSymbol(symbol)

\* The same of every name, as the manual has it: "does only enough name
\* mangling to prevent invalid 'C' symbols from being generated".
AllSymbolsAreValid == status = "mangled" => IsSymbol(symbol)
=============================================================================
