CONSTANTS
  DSize = 6
  RSize = 8
  FSize = 1
  Reserve = 4
  Codes <- MCCodes
  CatchRoom = 3
  Redirects = TRUE
  WritesFail = TRUE
SPECIFICATION MCSpec
INVARIANT HandlersSettled
PROPERTIES ImplementsCatching UncaughtEnds
