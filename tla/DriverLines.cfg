SPECIFICATION FairDriver
CHECK_DEADLOCK FALSE
CONSTANTS
  CommandLines <- MCCommandLines
  Sources <- ManySources
  Lower <- MCLower
INVARIANTS ObjectsMade StatusTells DefinitionsInOrder
PROPERTIES SourcesKept ProcessEnds
