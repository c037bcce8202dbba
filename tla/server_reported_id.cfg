\* The allocation or the listing of an event fails.
CONSTANTS
  ClientName <- MCClientName
  ToUpper <- MCToUpper
  Title = {"lunch"}
  Info = {"noon"}
  RequestId <- MCRequestId
  TopCount = 1
  AllocFailures <- MCEventFailure
  MaxEvents = 2
  LowestId <- MCLowestId
SPECIFICATION Spec
INVARIANTS
  ReportedIdIsAssigned
\* The process ends with exitServer.
CHECK_DEADLOCK FALSE
