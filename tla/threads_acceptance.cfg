\* Two clients create events.
CONSTANTS
  p1 = p1
  p2 = p2
  p3 = p3
  Process = {p1, p2}
  ClientName <- MCClientName
  ToUpper <- MCToUpper
  NameOf <- MCOwnNames
  Title = {"lunch"}
  Info = {"noon"}
  RequestId = {1, 2}
  TopCount = 1
  Creator = {p1, p2}
  RaceOutcomes <- MCAtomic
  AllocFailures <- MCNoFailure
  MaxEvents = 2
  MaxAccepted = 3
  LowestId = 0
SPECIFICATION Spec
INVARIANTS
  AcceptanceIsKept
