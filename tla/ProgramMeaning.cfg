CONSTANTS
  main = main
  w = w
  x = x
  yes = yes
  no = no
  a = a
  NoSymbol = NoSymbol
  Names <- MCNames
  Anons <- MCAnons
  Main = main
  TypeWord = w
  AbortWord = w
  TrueWord = yes
  FalseWord = no
  Tokens <- AllTokens
  Conditions = {}
  MAX_ALLOWED_ERRORS = 1
  MaxNest = 2
  MaxCond = 0
  MaxOpcodes = 9
  MaxLabels = 12
  HalfRange = 2
  SMALL_FUNCTION_OPCODE_LIMIT = 10
  ITERATIONS_LIMIT = 4
  EvaluationOrder <- LeftToRight
  Inputs <- MCInputs
  Fuel = 70
  Files = {"branches", "loops", "inline", "any order"}
SPECIFICATION MCSpec
INVARIANTS MeaningKept StillAProgram RemovalsWarnedOf SettledWhenBuilt
