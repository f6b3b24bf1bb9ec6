SPECIFICATION FairLexer
CHECK_DEADLOCK FALSE
CONSTANTS
  Pieces <- MCPieces
  CommandLines <- MCCommandLines
  YY_BUF_SIZE = 8
  YY_READ_BUF_SIZE = 5
  MAX_ALLOWED_ERRORS = 2
  Definitions = {"x"}
INVARIANTS CommentsSkipped CodeTold RulesReadWell
PROPERTIES LexingEnds
