CONSTANTS
  main = main
  w = w
  a = a
  NoSymbol = NoSymbol
  Names <- MCNames
  Anons <- MCAnons
  Main = main
  TypeWord = w
  AbortWord = w
  Tokens <- AllTokens
  Conditions = {TRUE, FALSE}
  MAX_ALLOWED_ERRORS = 2
  MaxNest = 3
  MaxCond = 2
  MaxOpcodes = 9
  MaxLabels = 20
  Files = {"conditionals"}
SPECIFICATION MCSpec
INVARIANT CompiledCodeIsComplete
