\* Clients connect for ever, system calls fail, stdin is a pipe.
CONSTANTS
  Conn = {c1, c2}
  MAX_PEND_CONNECT = 2
  Terminal = FALSE
  MaxLines = 2
  CallErrors = TRUE
SPECIFICATION FairSpec
INVARIANTS
  TypeOK
  NoHandlerOutlivesServer
  CallsDoNotBlock
  ConnectionsAreHeld
PROPERTIES
  AcceptedAreAnswered
  ShutdownEnds
  EveryClientIsServed
\* The process ends.
CHECK_DEADLOCK FALSE
