\* No allocation fails.
CONSTANTS
  ClientName <- MCClientName
  ToUpper <- MCToUpper
  Title = {"lunch"}
  Info = {"noon", "one"}
  RequestId <- MCRequestId
  TopCount = 1
  AllocFailures <- MCNoFailure
  MaxEvents = 2
  LowestId = 0
SPECIFICATION Spec
PROPERTIES
  TopLinesNameEvents
\* The process ends with exitServer.
CHECK_DEADLOCK FALSE
