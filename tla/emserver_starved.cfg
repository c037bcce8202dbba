\* Clients connect for ever, EXIT is typed at a terminal.
CONSTANTS
  Conn = {c1, c2}
  MAX_PEND_CONNECT = 2
  Terminal = TRUE
  MaxLines = 1
  CallErrors = FALSE
SPECIFICATION FairSpec
PROPERTIES
  ExitLineEndsServer
\* The process ends.
CHECK_DEADLOCK FALSE
