------------------------------ MODULE MCDriver ------------------------------
(***************************************************************************)
(* Command lines for TLC: with many options and one source, and with many  *)
(* sources, some of the same name and some with an extension of forthc's   *)
(* own, and few options.                                                   *)
(***************************************************************************)
EXTENDS Driver, TLC

Option(opt, arg) == [opt |-> opt, arg |-> arg]
File(name, ext)  == [name |-> name, ext |-> ext]

MCLower == [x \in {"x", "X"} |-> "x"]

OneSource == {File("a", ".ft")}

AllOptions ==
  {Option(o, "") : o \in {"--help", "g", "p", "w", "O", "P", "s", "S", "M", "X", "#", "h", "v", "?", ":"}}
    \cup {Option("p", a) : a \in {"g", "gg"}}
    \cup {Option("f", a) : a \in {"PIC", "pie"}}
    \cup {Option(o, a) : o \in {"D", "U"}, a \in DOMAIN MCLower}
    \cup {Option("", p) : p \in OneSource}

Modal ==
  {Option(o, "") : o \in {"g", "p", "w", "M", "X", "#"}}
    \cup {Option("D", "x"), Option("", File("a", ".ft"))}

Defines ==
  {Option(o, a) : o \in {"D", "U"}, a \in DOMAIN MCLower}
    \cup {Option("X", ""), Option("", File("a", ".ft"))}

\* a.ft and a.fs share their outputs; b.s and b.p are outputs themselves.
ManySources == {File("a", ".ft"), File("a", ".fs"), File("b", ".s"), File("b", ".p"), File("c", "")}

ManyFiles ==
  {Option(o, "") : o \in {"P", "S"}} \cup {Option("", p) : p \in ManySources}

Upto(n, items) == UNION {[1..k -> items] : k \in 0..n}

\* Two options of all, three that exclude each other, four definitions, or
\* three files with options.
MCCommandLines ==
  Upto(2, AllOptions) \cup Upto(3, Modal) \cup Upto(4, Defines) \cup Upto(3, ManyFiles)
=============================================================================
