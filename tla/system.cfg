SPECIFICATION Spec
CONSTANTS
  Process <- MCProcess
  NameOf <- MCNameOf
  LineTyped <- MCLineTyped
  NameSays <- MCNameSays
  InfoSays <- MCInfoSays
  ClientName <- MCClientName
  ToUpper <- MCToUpper
  UpperCase <- MCUpperCase
  Title <- MCTitle
  Info <- MCInfo
  RequestId <- MCRequestId
  AllocFailures <- MCNoFailure
  LowestId <- MCLowestId
  TopCount = 1
  MaxEvents = 1
  MaxFaults = 1
  MaxServers = 2
  IntMax = 12
  MaxTitle = 1
  MaxDate = 1
  MaxDesc = 2
INVARIANTS
  TypeOK
  RegisteredMeansKnown
  NamesAreHeld
  StaleClientsAreStrangers
  LoggedAcceptanceIsKept
  ChangesAreUnderstood
PROPERTIES
  EveryRequestEnds
CHECK_DEADLOCK FALSE
