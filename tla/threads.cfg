\* Two emClients under one name beside a third; updates that overlap are lost or crash the server.
CONSTANTS
  p1 = p1
  p2 = p2
  p3 = p3
  Process = {p1, p2, p3}
  ClientName <- MCClientName
  ToUpper <- MCToUpper
  NameOf <- MCTwoAndOne
  Title = {"lunch"}
  Info = {"noon"}
  RequestId = {1}
  TopCount = 1
  Creator = {p3}
  RaceOutcomes <- MCLostOrCrash
  AllocFailures = {"create_new"}
  MaxEvents = 2
  MaxAccepted = 1
  LowestId = 1
SPECIFICATION Spec
SYMMETRY MCSymmetry
INVARIANTS
  TypeOK
  MapKeysAreEventIds
  GuestsAreRegistered
  RegisteredMeansMember
  GuestListsAgree
  ReachableEventsAreListed
  TopIsComplete
\* The server may crash.
CHECK_DEADLOCK FALSE
