\* Two emClients are started under one name.
CONSTANTS
  p1 = p1
  p2 = p2
  p3 = p3
  Process = {p1, p2}
  ClientName <- MCClientName
  ToUpper <- MCToUpper
  NameOf <- MCSharedName
  Title = {"lunch"}
  Info = {"noon"}
  RequestId = {1}
  TopCount = 1
  Creator = {p1}
  RaceOutcomes <- MCAtomic
  AllocFailures <- MCNoFailure
  MaxEvents = 1
  MaxAccepted = 3
  LowestId = 0
SPECIFICATION Spec
INVARIANTS
  NameGivenOnce
