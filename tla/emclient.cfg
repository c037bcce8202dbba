SPECIFICATION Spec
CONSTANTS
  UpperCase <- MCUpperCase
  LineTyped <- MCLineTyped
  IntMax = 12
  MaxTitle = 1
  MaxDate = 1
  MaxDesc = 2
  MaxLogged = 5
INVARIANTS
  TypeOK
  TokensSplitTheLine
  ServerReadsWhatWasChecked
  LogMissesAtMostTheLast
PROPERTIES
  LogNamesTheAcceptedEvent
CHECK_DEADLOCK FALSE
