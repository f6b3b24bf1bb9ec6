CONSTANTS
  main = main
  w = w
  x = x
  yes = yes
  no = no
  NoSymbol = NoSymbol
  Names <- MCNames
  Anons = {}
  Main = main
  TypeWord = main
  AbortWord = main
  TrueWord = yes
  FalseWord = no
  LoopWord = w
  BodyWord = x
  Scripts <- MCScripts
  Tokens <- MCTokens
  Increments <- MCIncrements
  Conditions = {}
  MAX_ALLOWED_ERRORS = 1
  MaxNest = 2
  MaxCond = 0
  MaxOpcodes = 40
  MaxLabels = 12
  HalfRange = 4
  SMALL_FUNCTION_OPCODE_LIMIT = 10
  ITERATIONS_LIMIT = 8
  EvaluationOrder <- LeftToRight
  Inputs = {}
  Fuel = 0
SPECIFICATION FairLoops
INVARIANTS TurnsAsTold
PROPERTY LoopEnds
