------------------------------- MODULE Client -------------------------------
(***************************************************************************)
(* The class Client: what an emClient knows of itself, which lines it lets *)
(* through to the server, and what it makes of the answers.  An object is  *)
(* a record; the methods are operators that return the object they leave,  *)
(* together with what they return or log.                                  *)
(***************************************************************************)
EXTENDS CommandParser

CONSTANTS MaxTitle, MaxDate, MaxDesc   \* MAX_TITLE, MAX_DATE, MAX_DESC

ASSUME LimitAssumption == {MaxTitle, MaxDate, MaxDesc} \subseteq Nat

(* The words log_response looks for in an answer. *)
Marker == {"ERROR: ", "REGISTER", "SUCCESS"}

CommandResult == {"COMMAND_NOTEXIST", "NO_REGISTER", "MISS_ARGS",
                  "INVALID_ARG_COMMAND", "ALREADY_REGISTER"}

(* What an answer is taken for. *)
Verdicts == {"failed", "done", "nothing", "not_registered", "already_sent"}

ClientType ==
  [registered : BOOLEAN, commandType : Commands,
   eventIdSent : 0 .. IntMax, eventIdRequest : 0 .. IntMax]

NewClient == [registered |-> FALSE, commandType |-> "REGISTER",
              eventIdSent |-> 0, eventIdRequest |-> 0]

(* What fgets can return: nothing follows an end of line.                  *)
IsLine(line) ==
  line \in Seq(ToSet(line)) /\ \A i \in 1 .. Len(line) - 1 : line[i] # NewLine

(* What the tokens of a line ask for.  The argument of SEND_RSVP and of    *)
(* GET_RSVPS_LIST is looked at without its end of line.                    *)
CommandOf(tokens) == getCommandType(UpToNewLine(tokens[1]))
Argument(tokens) == UpToNewLine(tokens[2])
NamesEvent(tokens) ==
  /\ Len(tokens) >= 2
  /\ CommandOf(tokens) \in {"SEND_RSVP", "GET_RSVPS_LIST"}
  /\ isStrNumber(Argument(tokens))
EventIdIn(tokens) == stoi(Argument(tokens))

When(condition, error) == IF condition THEN <<error>> ELSE <<>>

(* Faulty variant: only the length of the fourth token is checked. *)
TooLong_NotJoined(tokens) ==
  \/ Len(tokens[2]) > MaxTitle
  \/ Len(tokens[3]) > MaxDate
  \/ Len(tokens[4]) > MaxDesc

TooLong(tokens) ==
  \/ Len(tokens[2]) > MaxTitle
  \/ Len(tokens[3]) > MaxDate
  \/ Len(joinTokens(tokens)[4]) > MaxDesc

(* Faulty variant: who is registered may register again. *)
RegisterErrors_Again(c, tokens) == When(Len(tokens) > 1, "MISS_ARGS")

RegisterErrors(c, tokens) ==
  When(Len(tokens) > 1, "MISS_ARGS") \o When(c.registered, "ALREADY_REGISTER")

(* Everything the switch of validateCommand finds wrong with a line, in    *)
(* the order in which it assigns errMsg.                                   *)
Errors(c, tokens) ==
  LET comm == CommandOf(tokens)
      unknown == When(~c.registered, "NO_REGISTER")
      extra == When(Len(tokens) > 1, "MISS_ARGS")
  IN  CASE comm = "REGISTER" -> RegisterErrors(c, tokens)
        [] comm = "CREATE" ->
             unknown \o IF Len(tokens) < 4 THEN <<"MISS_ARGS">>
                        ELSE When(TooLong(tokens), "INVALID_ARG_COMMAND")
        [] comm \in {"UNREGISTER", "GET_TOP_5"} -> unknown \o extra
        [] comm \in {"SEND_RSVP", "GET_RSVPS_LIST"} ->
             unknown \o IF Len(tokens) < 2 THEN <<"MISS_ARGS">>
                        ELSE When(~NamesEvent(tokens), "INVALID_ARG_COMMAND")
        [] OTHER -> <<"COMMAND_NOTEXIST">>

(* Faulty variant: the number is not compared with the largest int. *)
validateDies_Unbounded(line) == tokenize(line) = <<>>

(* tokens[0] of a line without tokens, as at the end of the input, or stoi *)
(* of too large a number: the process dies.                                *)
validateDies(line) ==
  LET tokens == tokenize(line)
  IN  tokens = <<>> \/ (NamesEvent(tokens) /\ EventIdIn(tokens) > IntMax)

(* The ids are remembered whether or not the line is valid; the last error *)
(* is the one that is logged, an empty string if there is none.            *)
validateCommand(c, line) ==
  LET tokens == tokenize(line)
      comm == CommandOf(tokens)
      errors == Errors(c, tokens)
      IdAfter(old, asking) ==
        IF comm = asking /\ NamesEvent(tokens) THEN EventIdIn(tokens) ELSE old
  IN  [client |-> [c EXCEPT !.commandType = comm,
                            !.eventIdSent = IdAfter(@, "SEND_RSVP"),
                            !.eventIdRequest = IdAfter(@, "GET_RSVPS_LIST")],
       valid  |-> errors = <<>>,
       errMsg |-> IF errors = <<>> THEN "" ELSE Last(errors)]

(* Faulty variant: what is not an error is a success. *)
Verdict_Lenient(comm, response) ==
  IF "ERROR: " \in response THEN "failed" ELSE "done"

(* What log_response takes an answer for, given the markers in its text.   *)
Verdict(comm, response) ==
  CASE "ERROR: " \in response -> "failed"
    [] "ERROR: " \notin response /\ comm \in {"REGISTER", "UNREGISTER"} ->
         IF "SUCCESS" \in response THEN "done" ELSE "nothing"
    [] "ERROR: " \notin response /\ comm \notin {"REGISTER", "UNREGISTER"} ->
         IF "REGISTER" \in response THEN "not_registered"
         ELSE IF comm = "SEND_RSVP" /\ "SUCCESS" \notin response
              THEN "already_sent" ELSE "done"

(* Faulty variant: the id of the last list that was asked for. *)
LoggedId_Request(c) == c.eventIdRequest

(* eventID in logRSVP_response, and also in logEventList_response. *)
LoggedId(c) == c.eventIdSent

(* Faulty variant: UNREGISTER ends the process whatever the answer is. *)
Exits_Early(comm, verdict) ==
  comm = "UNREGISTER" \/ (comm = "REGISTER" /\ verdict = "failed")

(* When log_response ends the process: the name is taken, or given up. *)
Exits(comm, verdict) ==
  <<comm, verdict>> \in {<<"REGISTER", "failed">>, <<"UNREGISTER", "done">>}

(* The object log_response leaves, the lines it logs, and whether it ends  *)
(* the process.  Nothing is logged when a name is taken, nor when the      *)
(* answer to UNREGISTER has none of the markers.                           *)
log_response(c, response) ==
  LET comm == c.commandType
      verdict == Verdict(comm, response)
      line == [command |-> comm, verdict |-> verdict, id |-> LoggedId(c)]
  IN  [client |-> [c EXCEPT !.registered =
                     CASE comm = "REGISTER" /\ verdict # "nothing" -> verdict = "done"
                       [] comm = "UNREGISTER" /\ verdict = "done" -> FALSE
                       [] OTHER -> @],
       logs   |-> IF <<comm, verdict>> \in {<<"REGISTER", "failed">>,
                                            <<"UNREGISTER", "nothing">>}
                  THEN <<>> ELSE <<line>>,
       exits  |-> Exits(comm, verdict)]
=============================================================================
