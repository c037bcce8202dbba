------------------------------ MODULE EmClient ------------------------------
(***************************************************************************)
(* One emClient process: main's loop around a Client and its log, in front *)
(* of a user who types any line and a network and a server that may fail   *)
(* or answer whatever the server's handler of the command can answer.      *)
(***************************************************************************)
EXTENDS Client, Logger

CONSTANT LineTyped   \* the lines users type, <<>> for the end of the input

ASSUME LineAssumption == \A typed \in LineTyped : IsLine(typed)

VARIABLES
  phase,    \* where main is
  client,   \* *client
  logger,   \* *client->_logger
  line,     \* userCommandBuff, while it holds a valid command
  logged    \* the last line log_response has logged (history)

vars == <<phase, client, logger, line, logged>>

NoLine == [command |-> "ILLEGAL", verdict |-> "nothing", id |-> 0]

Init ==
  /\ phase = "start"
  /\ client = NewClient
  /\ logger \in NewLogger
  /\ line = <<>>
  /\ logged = NoLine

(* log is one of the outcomes of logCommand: an exception ends the process.*)
Logs(log, next) ==
  /\ logger' = log.log
  /\ phase' = IF log.throws THEN "ended" ELSE next

(***************************************************************************)
(* clientSystemCallError.  "ERROR" + '\t' points 9 characters into a text  *)
(* of 5: what is logged is whatever lies there, if it can be read at all.  *)
(* exit(1) destroys no Logger: what is pending is lost.                    *)
(***************************************************************************)
clientSystemCallError ==
  /\ \/ \E log \in logCommand(logger) : logger' = log.log
     \/ UNCHANGED logger
  /\ phase' = "ended"
  /\ line' = <<>>
  /\ UNCHANGED <<client, logged>>

(* Two arguments pass the check that should ask for three, and atoi is     *)
(* given a null pointer; the host may be unknown.                          *)
Start ==
  /\ phase = "start"
  /\ \/ clientSystemCallError
     \/ phase' \in {"prompt", "ended"} /\ UNCHANGED <<client, logger, line, logged>>

(* fgets and validateCommand, at whose end errMsg is logged. *)
ReadCommand(typed) ==
  /\ phase = "prompt"
  /\ logger.asked < MaxLogged
  /\ UNCHANGED logged
  /\ IF validateDies(typed)
     THEN phase' = "ended" /\ UNCHANGED <<client, logger, line>>
     ELSE LET check == validateCommand(client, typed)
          IN  /\ client' = check.client
              /\ line' = IF check.valid THEN typed ELSE <<>>
              /\ \E log \in logCommand(logger) :
                   Logs(log, IF check.valid THEN "valid" ELSE "prompt")

(* socket, connect and write. *)
SendRequest ==
  /\ phase = "valid"
  /\ \/ phase' = "sent" /\ UNCHANGED <<client, logger, line, logged>>
     \/ logger.asked < MaxLogged /\ clientSystemCallError

(***************************************************************************)
(* The markers in the texts the server has for a command, or none at all   *)
(* if its process ends.  NOT_REGISTERED, "ERROR: first command must be     *)
(* REGISTER.", has two of them.  Names and descriptions are sent back as   *)
(* they were typed, with the markers in them.                              *)
(***************************************************************************)
ResponseTo(comm) ==
  LET refused == {"ERROR: ", "REGISTER"}
      error == {"ERROR: "}
  IN  CASE comm = "REGISTER" -> {{"SUCCESS"}, error, {}}
        [] comm = "UNREGISTER" -> {{"SUCCESS"}, refused, {}}
        [] comm = "CREATE" -> {{}, error, refused}
        [] comm = "SEND_RSVP" -> {{"SUCCESS"}, {}, error, refused}
        [] OTHER -> SUBSET Marker

(* read, and log_response. *)
ReadResponse(response) ==
  /\ phase = "sent"
  /\ logger.asked < MaxLogged
  /\ line' = <<>>
  /\ LET result == log_response(client, response)
     IN  /\ client' = result.client
         /\ IF result.logs = <<>>
            THEN /\ UNCHANGED logged
                 /\ IF result.exits
                    THEN logger' \in closeLog(logger) /\ phase' = "ended"
                    ELSE phase' = "prompt" /\ UNCHANGED logger
            ELSE /\ logged' = result.logs[1]
                 /\ \E log \in logCommand(logger) :
                      IF result.exits /\ ~log.throws
                      THEN logger' \in closeLog(log.log) /\ phase' = "ended"
                      ELSE Logs(log, "prompt")

ReadFails == phase = "sent" /\ logger.asked < MaxLogged /\ clientSystemCallError

Next ==
  \/ Start
  \/ \E typed \in LineTyped : ReadCommand(typed)
  \/ SendRequest
  \/ \E response \in ResponseTo(client.commandType) : ReadResponse(response)
  \/ ReadFails

Spec == Init /\ [][Next]_vars

-----------------------------------------------------------------------------
(* Every variable holds a value of its type. *)
TypeOK ==
  /\ phase \in {"start", "prompt", "valid", "sent", "ended"}
  /\ client \in ClientType
  /\ logger \in LoggerType
  /\ line \in LineTyped \cup {<<>>}
  /\ logged \in [command : Commands, verdict : Verdicts, id : 0 .. IntMax]

(* Reference for CommandParser::tokenize on a line that goes to the server:*)
(* a token begins wherever a space, or nothing, is before a character that *)
(* is no space, and it ends before the next space.                         *)
TokensSplitTheLine ==
  LET starts == {i \in DOMAIN line : line[i] # Space /\ (i = 1 \/ line[i - 1] = Space)}
      Spaced(i) == i > Len(line) \/ line[i] = Space
      tokens == tokenize(line)
  IN  phase \in {"valid", "sent"} =>
      /\ Len(tokens) = Cardinality(starts)
      /\ \A i \in starts :
           LET token == tokens[Cardinality({j \in starts : j <= i})]
               end == i + Len(UpToNewLine(token)) + (IF Contains(token, NewLine) THEN 1 ELSE 0)
           IN  /\ token = SubSeq(line, i, i + Len(token) - 1)
               /\ Spaced(end)

(* The line handleClient takes out of the request. *)
LineRead == UpToNewLine(line)

(* What the client has checked is what the server reads, though it splits  *)
(* the line again and without its end: the same command, arguments within  *)
(* the limits, a number that stoi can return, and as many arguments as the *)
(* handler reads.  But a space before the end of a CREATE can be a token   *)
(* to the client and none to the server, which then has no description.    *)
ServerReadsWhatWasChecked ==
  phase \in {"valid", "sent"} =>
    LET tokens == joinTokens(tokenize(LineRead))
    IN  /\ tokens # <<>> /\ getCommandType(tokens[1]) = client.commandType
        /\ client.commandType = "CREATE" =>
             /\ Len(tokens) = 4 \/ (Len(tokens) = 3 /\ Last(LineRead) = Space)
             /\ Len(tokens[2]) <= MaxTitle
             /\ Len(tokens[3]) <= MaxDate
             /\ Len(tokens) = 4 => Len(tokens[4]) <= MaxDesc
        /\ client.commandType \in {"SEND_RSVP", "GET_RSVPS_LIST"} =>
             /\ Len(tokens) >= 2 /\ isStrNumber(tokens[2])
             /\ stoi(tokens[2]) =
                  IF client.commandType = "SEND_RSVP" THEN client.eventIdSent
                                                      ELSE client.eventIdRequest

(* A client whose log was opened and that goes on has in the file every    *)
(* line it was given but at most the last: one more attempt after a flush  *)
(* that failed, and the process is gone.                                   *)
LogMissesAtMostTheLast ==
  phase # "ended" => /\ logger.asked = logger.file + logger.pending
                     /\ logger.pending <= 1

(* The log says of an acceptance the id that the server has read, whatever *)
(* ids were typed, refused or asked about in between.                      *)
LogNamesTheAcceptedEvent ==
  [][phase = "sent" /\ client.commandType = "SEND_RSVP" /\ logged' # logged =>
       logged'.id = stoi(tokenize(LineRead)[2])]_vars
=============================================================================
