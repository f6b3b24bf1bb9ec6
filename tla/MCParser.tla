------------------------------ MODULE MCParser ------------------------------
(***************************************************************************)
(* Small instances of Parser.  A source file is of one of several kinds,   *)
(* each with the tokens and the bounds that let one thing happen in depth: *)
(* loops and IFs, loops and CASEs, definitions with EXIT, every sort of    *)
(* symbol, errors and recovery, and constructs within conditionals.        *)
(***************************************************************************)
EXTENDS Parser

CONSTANTS main, w, a,
  Files           (* The kinds of source file of this run.                 *)

VARIABLE file     (* The kind of the file being parsed.                    *)

MCNames == {main, w}
MCAnons == {a}
(* A source that uses the very name that a :NONAME word is given. *)
MCTaken == MCNames \cup MCAnons

Definitions == {":", ";"}
Ifs         == {"IF", "ELSE", "THEN"}
Cases       == {"CASE", "OF", "ENDOF", "ENDCASE"}
Directives  == {"[IFDEF]", "[ELSE]", "[THEN]"}

ControlTokens     == Ifs \cup {"?DO", "LOOP", "BEGIN", "UNTIL", "LEAVE", "WHILE"}
CaseTokens        == Cases \cup {"DO", "+LOOP", "BEGIN", "REPEAT", "?LEAVE"}
ExitTokens        == Definitions \cup {"EXIT", "IF", "THEN", "?DO", "LOOP", "BEGIN",
                       "REPEAT", "?LEAVE", "ASTRING", "RECURSE"}
SymbolTokens      == Definitions \cup {":NONAME", "CODE", "ASM", "END-CODE", "VARIABLE",
                       "CONSTANT", "FCONSTANT", "CREATE", "WORD", "ADDRESS", "PSTRING",
                       "ASTRING", "RECURSE", "EXIT", "STRING", "CHAR", "CSTRING",
                       "INTEGER", "FLOAT", "ERROR"}
ErrorTokens       == Definitions \cup {"IF", "THEN", "DO", "LOOP", "LEAVE", "CASE", "OF",
                       "ENDOF", "ENDCASE", "INTEGER", "ERROR"}
ConditionalTokens == Directives \cup Definitions \cup {"IF", "ELSE", "THEN", "DO", "LOOP"}
ChoiceTokens      == Directives \cup {":", "DO", "LOOP"} \cup Cases
AllTokens == ControlTokens \cup CaseTokens \cup ExitTokens \cup SymbolTokens
               \cup ErrorTokens \cup ConditionalTokens \cup ChoiceTokens

Control == INSTANCE Parser WITH
  Tokens <- ControlTokens, MAX_ALLOWED_ERRORS <- 1,
  MaxNest <- 3, MaxCond <- 0, MaxOpcodes <- 10, MaxLabels <- 20
Casing == INSTANCE Parser WITH
  Tokens <- CaseTokens, MAX_ALLOWED_ERRORS <- 1,
  MaxNest <- 3, MaxCond <- 0, MaxOpcodes <- 12, MaxLabels <- 20
Exiting == INSTANCE Parser WITH
  Tokens <- ExitTokens, MAX_ALLOWED_ERRORS <- 1,
  MaxNest <- 2, MaxCond <- 0, MaxOpcodes <- 8, MaxLabels <- 20
Naming == INSTANCE Parser WITH
  Tokens <- SymbolTokens, MAX_ALLOWED_ERRORS <- 2,
  MaxNest <- 1, MaxCond <- 0, MaxOpcodes <- 3, MaxLabels <- 20
Failing == INSTANCE Parser WITH
  Tokens <- ErrorTokens, MAX_ALLOWED_ERRORS <- 2,
  MaxNest <- 3, MaxCond <- 0, MaxOpcodes <- 5, MaxLabels <- 10
Conditioning == INSTANCE Parser WITH
  Tokens <- ConditionalTokens, MAX_ALLOWED_ERRORS <- 1,
  MaxNest <- 2, MaxCond <- 2, MaxOpcodes <- 3, MaxLabels <- 4
Choosing == INSTANCE Parser WITH
  Tokens <- ChoiceTokens, MAX_ALLOWED_ERRORS <- 1,
  MaxNest <- 2, MaxCond <- 2, MaxOpcodes <- 3, MaxLabels <- 4

MCInit == Init /\ file \in Files

Parsing(kind, Step) == file = kind /\ Step /\ UNCHANGED file

MCNext ==
  \/ Parsing("control", Control!Next)
  \/ Parsing("cases", Casing!Next)
  \/ Parsing("exits", Exiting!Next)
  \/ Parsing("symbols", Naming!Next)
  \/ Parsing("errors", Failing!Next)
  \/ Parsing("conditionals", Conditioning!Next)
  \/ Parsing("choices", Choosing!Next)

MCSpec == MCInit /\ [][MCNext]_<<vars, file>>
=============================================================================
