--------------------------- MODULE EmClientProofs ---------------------------
(***************************************************************************)
(* What holds of one emClient for any lines its user can type, whatever    *)
(* the server answers and wherever the network and the log fail.           *)
(***************************************************************************)
EXTENDS EmClient, ParserProofs

-----------------------------------------------------------------------------
(* The log, at each call: a line is in the file, in the buffer or, once    *)
(* the process is ended, lost.  Only a stream that is bad holds one back.  *)
LogKept(log) ==
  /\ log.asked = log.file + log.pending
  /\ log.pending = 0 \/ (log.pending = 1 /\ log.bad)

LogInv ==
  /\ logger \in LoggerType
  /\ logger.file + logger.pending <= logger.asked
  /\ phase = "start" => logger.asked = 0
  /\ phase # "ended" => LogKept(logger)

Types ==
  /\ phase \in {"start", "prompt", "valid", "sent", "ended"}
  /\ client \in ClientType
  /\ line \in LineTyped \cup {<<>>}
  /\ logged \in [command : Commands, verdict : Verdicts, id : 0 .. IntMax]

(* From the check to the answer the client has a line without errors, and  *)
(* of an event it remembers the number that is in the line.                *)
Passed(c, tokens) ==
  LET comm == c.commandType
  IN  /\ tokens # <<>> /\ comm = CommandOf(tokens) /\ comm # "ILLEGAL"
      /\ comm = "CREATE" => Len(tokens) >= 4 /\ ~TooLong(tokens)
      /\ comm \in {"SEND_RSVP", "GET_RSVPS_LIST"} => NamesEvent(tokens)
      /\ comm = "SEND_RSVP" => c.eventIdSent = EventIdIn(tokens)
      /\ comm = "GET_RSVPS_LIST" => c.eventIdRequest = EventIdIn(tokens)

LineChecked ==
  phase \in {"valid", "sent"} => line \in LineTyped /\ Passed(client, tokenize(line))

ClientInv == LogInv /\ Types /\ LineChecked

-----------------------------------------------------------------------------
LEMMA FlushedType ==
  ASSUME NEW log \in LoggerType, log.file + log.pending \in 0 .. MaxLogged
  PROVE  LET new == Flushed(log)
         IN  /\ new \in LoggerType /\ new.asked = log.asked
             /\ new.file = log.file + log.pending /\ new.pending = 0
<1> DEFINE whole == log.file + log.pending
<1>1. Flushed(log) = [log EXCEPT !.file = whole, !.pending = 0]
  BY DEF Flushed
<1>2. whole \in 0 .. MaxLogged /\ 0 \in 0 .. MaxLogged
  BY LogAssumption
<1> HIDE DEF whole
<1>3. /\ Flushed(log) \in LoggerType /\ Flushed(log).asked = log.asked
      /\ Flushed(log).file = whole /\ Flushed(log).pending = 0
  BY <1>1, <1>2 DEF LoggerType
<1> QED
  BY <1>3 DEF whole

LEMMA LogStep ==
  ASSUME NEW log \in LoggerType, log.asked < MaxLogged, log.file + log.pending <= log.asked,
         LogKept(log), NEW result \in logCommand(log)
  PROVE  /\ result.log \in LoggerType
         /\ result.log.file + result.log.pending <= result.log.asked
         /\ ~result.throws => LogKept(result.log)
<1> DEFINE given == [log EXCEPT !.asked = @ + 1]
           buffered == [given EXCEPT !.pending = @ + 1]
<1>1. /\ log.asked \in Nat /\ log.pending \in Nat /\ log.file \in Nat /\ MaxLogged \in Nat
      /\ log.open \in BOOLEAN /\ log.bad \in BOOLEAN
  BY LogAssumption DEF LoggerType
<1>2. /\ given \in LoggerType /\ given.asked = log.asked + 1 /\ given.pending = log.pending
      /\ given.file = log.file /\ given.bad = log.bad /\ given.open = log.open
  BY <1>1 DEF LoggerType
<1> DEFINE more == given.pending + 1
<1>3. more \in 0 .. MaxLogged /\ more = log.pending + 1
  BY <1>1, <1>2
<1> HIDE DEF given
<1>4. /\ buffered \in LoggerType /\ buffered.asked = given.asked
      /\ buffered.pending = log.pending + 1 /\ buffered.file = log.file /\ buffered.bad = log.bad
  <2> HIDE DEF more
  <2>1. buffered = [given EXCEPT !.pending = more]
    BY DEF more
  <2> HIDE DEF buffered
  <2> QED
    BY <1>2, <1>3, <2>1 DEF LoggerType
<1> HIDE DEF buffered
<1>5. CASE ~log.open
  BY <1>5 DEF logCommand, Done
<1>6. CASE log.open /\ log.bad
  <2>1. result = Thrown(given)
    BY <1>6 DEF logCommand, InsertInBad, given
  <2>2. result.log = given /\ result.throws
    BY <2>1 DEF Thrown
  <2> QED
    BY <1>1, <1>2, <2>2
<1>7. CASE log.open /\ ~log.bad
  <2>1. log.pending = 0
    BY <1>7 DEF LogKept
  <2>2. CASE result = Done(Flushed(buffered))
    <3> DEFINE flushed == Flushed(buffered)
    <3>1. buffered.file + buffered.pending \in 0 .. MaxLogged
      BY <1>1, <1>4
    <3>2. /\ flushed \in LoggerType /\ flushed.asked = buffered.asked
          /\ flushed.file = buffered.file + buffered.pending /\ flushed.pending = 0
      BY <1>4, <3>1, FlushedType
    <3>3. result.log = flushed
      BY <2>2 DEF Done
    <3> HIDE DEF flushed
    <3> QED
      BY <1>1, <1>2, <1>4, <3>2, <3>3 DEF LogKept
  <2>3. CASE result = Done([buffered EXCEPT !.bad = TRUE])
    <3> DEFINE broken == [buffered EXCEPT !.bad = TRUE]
    <3>1. /\ broken \in LoggerType /\ broken.asked = buffered.asked /\ broken.bad
          /\ broken.file = buffered.file /\ broken.pending = buffered.pending
      BY <1>4 DEF LoggerType
    <3>2. result.log = broken
      BY <2>3 DEF Done
    <3> HIDE DEF broken
    <3> QED
      BY <1>1, <1>2, <1>4, <2>1, <3>1, <3>2 DEF LogKept
  <2>4. CASE result = Thrown([given EXCEPT !.bad = TRUE])
    <3> DEFINE broken == [given EXCEPT !.bad = TRUE]
    <3>1. /\ broken \in LoggerType /\ broken.asked = given.asked
          /\ broken.file = given.file /\ broken.pending = given.pending
      BY <1>2 DEF LoggerType
    <3>2. result.log = broken /\ result.throws
      BY <2>4 DEF Thrown
    <3> HIDE DEF broken
    <3> QED
      BY <1>1, <1>2, <3>1, <3>2
  <2>5. result \in {Done(Flushed(buffered)), Done([buffered EXCEPT !.bad = TRUE]),
                    Thrown([given EXCEPT !.bad = TRUE])}
    BY <1>7 DEF logCommand, given, buffered
  <2> QED
    BY <2>2, <2>3, <2>4, <2>5
<1> QED
  BY <1>1, <1>5, <1>6, <1>7

LEMMA CloseStep ==
  ASSUME NEW log \in LoggerType, log.file + log.pending <= log.asked, NEW new \in closeLog(log)
  PROVE  new \in LoggerType /\ new.file + new.pending <= new.asked
<1> DEFINE whole == log.file + log.pending
<1>1. /\ log.asked \in Nat /\ log.pending \in Nat /\ log.file \in Nat /\ whole \in 0 .. MaxLogged
      /\ log.asked <= MaxLogged /\ MaxLogged \in Nat
  BY LogAssumption DEF LoggerType
<1> HIDE DEF whole
<1>2. CASE new = [log EXCEPT !.open = FALSE, !.pending = 0]
  <2>1. 0 \in 0 .. MaxLogged
    BY <1>1
  <2>2. new \in LoggerType /\ new.file = log.file /\ new.pending = 0 /\ new.asked = log.asked
    BY <1>2, <2>1 DEF LoggerType
  <2> QED
    BY <1>1, <2>2
<1>3. CASE new = [Flushed(log) EXCEPT !.open = FALSE]
  <2>1. Flushed(log) \in LoggerType /\ Flushed(log).file = whole /\ Flushed(log).pending = 0
        /\ Flushed(log).asked = log.asked
    BY <1>1, FlushedType DEF whole
  <2>2. new \in LoggerType /\ new.file = whole /\ new.pending = 0 /\ new.asked = log.asked
    <3> DEFINE flushed == Flushed(log)
    <3>1. new = [flushed EXCEPT !.open = FALSE]
      BY <1>3
    <3> HIDE DEF flushed
    <3> QED
      BY <2>1, <3>1 DEF LoggerType, flushed
  <2> QED
    BY <1>1, <2>2 DEF whole
<1> QED
  BY <1>2, <1>3 DEF closeLog

-----------------------------------------------------------------------------
(* What validateCommand leaves of the object, and of a line it lets        *)
(* through.                                                                *)
LEMMA NoErrors ==
  ASSUME NEW S, NEW s \in Seq(S), NEW t \in Seq(S), s \o t = <<>>
  PROVE  s = <<>> /\ t = <<>>
<1>1. Len(s \o t) = Len(s) + Len(t) /\ Len(s) \in Nat /\ Len(t) \in Nat /\ Len(s \o t) = 0
  BY ConcatProperties
<1> QED
  BY <1>1, EmptySeq

LEMMA ErrorTexts ==
  \A s : s \in {<<>>, <<"NO_REGISTER">>, <<"MISS_ARGS">>, <<"INVALID_ARG_COMMAND">>} =>
    s \in Seq(CommandResult)
<1>1. \A r \in CommandResult : <<r>> \in Seq(CommandResult)
  OBVIOUS
<1>2. <<>> \in Seq(CommandResult)
  OBVIOUS
<1>3. {"NO_REGISTER", "MISS_ARGS", "INVALID_ARG_COMMAND"} \subseteq CommandResult
  BY DEF CommandResult
<1> QED
  BY <1>1, <1>2, <1>3

(* The last of the errors of a command is that of its arguments.           *)
LEMMA ValidArguments ==
  ASSUME NEW c, NEW tokens, Errors(c, tokens) = <<>>
  PROVE  /\ CommandOf(tokens) # "ILLEGAL"
         /\ CommandOf(tokens) = "CREATE" => ~(Len(tokens) < 4) /\ ~TooLong(tokens)
         /\ CommandOf(tokens) \in {"SEND_RSVP", "GET_RSVPS_LIST"} => NamesEvent(tokens)
<1> DEFINE comm == CommandOf(tokens)
           unknown == When(~c.registered, "NO_REGISTER")
           event == IF Len(tokens) < 4 THEN <<"MISS_ARGS">>
                    ELSE When(TooLong(tokens), "INVALID_ARG_COMMAND")
           number == IF Len(tokens) < 2 THEN <<"MISS_ARGS">>
                     ELSE When(~NamesEvent(tokens), "INVALID_ARG_COMMAND")
<1>1. /\ unknown \in Seq(CommandResult) /\ event \in Seq(CommandResult)
      /\ number \in Seq(CommandResult)
  <2>1. unknown \in {<<>>, <<"NO_REGISTER">>}
    BY DEF When
  <2>2. event \in {<<>>, <<"MISS_ARGS">>, <<"INVALID_ARG_COMMAND">>}
    BY DEF When
  <2>3. number \in {<<>>, <<"MISS_ARGS">>, <<"INVALID_ARG_COMMAND">>}
    BY DEF When
  <2> HIDE DEF unknown, event, number
  <2> QED
    BY <2>1, <2>2, <2>3, ErrorTexts
<1>2. comm = "CREATE" => Errors(c, tokens) = unknown \o event
  BY DEF Errors
<1>3. comm \in {"SEND_RSVP", "GET_RSVPS_LIST"} => Errors(c, tokens) = unknown \o number
  BY DEF Errors
<1>4. comm = "ILLEGAL" => Errors(c, tokens) = <<"COMMAND_NOTEXIST">>
  BY DEF Errors
<1>5. comm # "ILLEGAL"
  BY <1>4
<1>6. comm = "CREATE" => event = <<>>
  <2> HIDE DEF unknown, event, comm
  <2> QED
    BY <1>1, <1>2, NoErrors
<1>7. comm \in {"SEND_RSVP", "GET_RSVPS_LIST"} => number = <<>>
  <2> HIDE DEF unknown, number, comm
  <2> QED
    BY <1>1, <1>3, NoErrors
<1>8. event = <<>> => ~(Len(tokens) < 4) /\ ~TooLong(tokens)
  BY DEF When
<1>9. number = <<>> => NamesEvent(tokens)
  BY DEF When
<1> QED
  BY <1>5, <1>6, <1>7, <1>8, <1>9

LEMMA CheckedLine ==
  ASSUME NEW c \in ClientType, NEW typed \in LineTyped, ~validateDies(typed)
  PROVE  LET check == validateCommand(c, typed)
         IN  /\ check.client \in ClientType
             /\ check.valid => Passed(check.client, tokenize(typed))
<1> DEFINE tokens == tokenize(typed)
           comm == CommandOf(tokens)
           check == validateCommand(c, typed)
           sent == IF comm = "SEND_RSVP" /\ NamesEvent(tokens) THEN EventIdIn(tokens)
                   ELSE c.eventIdSent
           asked == IF comm = "GET_RSVPS_LIST" /\ NamesEvent(tokens) THEN EventIdIn(tokens)
                    ELSE c.eventIdRequest
<1>1. /\ comm \in Commands /\ tokens # <<>>
      /\ NamesEvent(tokens) => EventIdIn(tokens) \in Nat
  <2>1. IsLine(typed)
    BY LineAssumption
  <2> QED
    BY <2>1, CommandType, SameEvent DEF CommandOf, validateDies
<1>2. NamesEvent(tokens) => EventIdIn(tokens) \in 0 .. IntMax
  <2>1. NamesEvent(tokens) => ~(EventIdIn(tokens) > IntMax)
    BY DEF validateDies
  <2> DEFINE id == EventIdIn(tokens)
  <2>2. NamesEvent(tokens) => id \in Nat /\ ~(id > IntMax)
    BY <1>1, <2>1
  <2> HIDE DEF id
  <2>3. NamesEvent(tokens) => id \in 0 .. IntMax
    BY <2>2, ParserAssumption
  <2> QED
    BY <2>3 DEF id
<1>3. sent \in 0 .. IntMax /\ asked \in 0 .. IntMax
  BY <1>2 DEF ClientType
<1>4. check.client = [c EXCEPT !.commandType = comm, !.eventIdSent = sent, !.eventIdRequest = asked]
  BY DEF validateCommand
<1>5. check.valid =>
        /\ comm # "ILLEGAL"
        /\ comm = "CREATE" => ~(Len(tokens) < 4) /\ ~TooLong(tokens)
        /\ comm \in {"SEND_RSVP", "GET_RSVPS_LIST"} => NamesEvent(tokens)
  <2>1. check.valid => Errors(c, tokens) = <<>>
    BY DEF validateCommand
  <2> HIDE DEF check, tokens
  <2> QED
    BY <2>1, ValidArguments
<1>6. Len(tokens) \in Nat
  <2>1. IsLine(typed)
    BY LineAssumption
  <2>2. tokens \in Seq(Seq(ToSet(typed) \ {Space}))
    BY <2>1, TokensOf
  <2> QED
    BY <2>2
<1>7. /\ check.valid /\ comm = "SEND_RSVP" => sent = EventIdIn(tokens)
      /\ check.valid /\ comm = "GET_RSVPS_LIST" => asked = EventIdIn(tokens)
  BY <1>5
<1> HIDE DEF tokens, check, sent, asked
<1>8. check.client \in ClientType /\ check.client.commandType = comm
      /\ check.client.eventIdSent = sent /\ check.client.eventIdRequest = asked
  <2> HIDE DEF comm
  <2> QED
    BY <1>1, <1>3, <1>4 DEF ClientType
<1>9. Len(tokens) >= 4 <=> ~(Len(tokens) < 4)
  BY <1>6
<1>10. check.valid => Passed(check.client, tokens)
  BY <1>1, <1>5, <1>7, <1>8, <1>9 DEF Passed
<1> QED
  BY <1>8, <1>10 DEF check, tokens

(* What log_response leaves and logs.                                      *)
LEMMA ReadAnswer ==
  ASSUME NEW c \in ClientType, NEW response
  PROVE  LET result == log_response(c, response)
         IN  /\ result.client \in ClientType
             /\ result.logs # <<>> =>
                  /\ result.logs[1] \in [command : Commands, verdict : Verdicts, id : 0 .. IntMax]
                  /\ result.logs[1].id = c.eventIdSent
<1> DEFINE comm == c.commandType
           verdict == Verdict(comm, response)
           entry == [command |-> comm, verdict |-> verdict, id |-> LoggedId(c)]
           stays == CASE comm = "REGISTER" /\ verdict # "nothing" -> verdict = "done"
                      [] comm = "UNREGISTER" /\ verdict = "done" -> FALSE
                      [] OTHER -> c.registered
           result == log_response(c, response)
<1>1. verdict \in Verdicts
  <2> HIDE DEF comm
  <2>1. CASE "ERROR: " \in response
    BY <2>1 DEF Verdict, Verdicts
  <2>2. CASE "ERROR: " \notin response /\ comm \in {"REGISTER", "UNREGISTER"}
    BY <2>2 DEF Verdict, Verdicts
  <2>3. CASE "ERROR: " \notin response /\ comm \notin {"REGISTER", "UNREGISTER"}
    BY <2>3 DEF Verdict, Verdicts
  <2> QED
    BY <2>1, <2>2, <2>3
<1>2. /\ comm \in Commands /\ c.eventIdSent \in 0 .. IntMax /\ c.registered \in BOOLEAN
  BY DEF ClientType
<1>3. entry \in [command : Commands, verdict : Verdicts, id : 0 .. IntMax]
      /\ entry.id = c.eventIdSent
  BY <1>1, <1>2 DEF LoggedId
<1>4. stays \in BOOLEAN
  BY <1>2
<1>5. result.client = [c EXCEPT !.registered = stays] /\ result.logs \in {<<>>, <<entry>>}
  BY DEF log_response
<1> HIDE DEF entry, stays, result, verdict
<1>6. result.client \in ClientType
  BY <1>4, <1>5 DEF ClientType
<1>7. result.logs # <<>> => result.logs[1] = entry
  BY <1>5
<1> QED
  BY <1>3, <1>6, <1>7 DEF result
-----------------------------------------------------------------------------
LEMMA InitClient == Init => ClientInv
<1> SUFFICES ASSUME Init PROVE ClientInv
  OBVIOUS
<1>1. 0 \in 0 .. IntMax /\ 0 \in 0 .. MaxLogged
  BY ParserAssumption, LogAssumption
<1>2. {"REGISTER", "ILLEGAL"} \subseteq Commands /\ "nothing" \in Verdicts
  BY DEF Commands, Verdicts
<1>3. Types
  <2>1. NewClient \in ClientType
    BY <1>1, <1>2 DEF ClientType, NewClient
  <2>2. NoLine \in [command : Commands, verdict : Verdicts, id : 0 .. IntMax]
    BY <1>1, <1>2 DEF NoLine
  <2> QED
    BY <2>1, <2>2 DEF Types, Init
<1>4. /\ logger \in LoggerType /\ logger.asked = 0 /\ logger.pending = 0 /\ logger.file = 0
  <2>1. PICK isOpen \in BOOLEAN :
          logger = [open |-> isOpen, bad |-> FALSE, asked |-> 0, pending |-> 0, file |-> 0]
    BY DEF Init, NewLogger
  <2> QED
    BY <1>1, <2>1 DEF LoggerType
<1>5. LogInv
  BY <1>4 DEF LogInv, LogKept
<1> QED
  BY <1>3, <1>5 DEF ClientInv, LineChecked, Init

(* The log of a running process takes a line, or the process does.         *)
LEMMA LoggedStep ==
  ASSUME LogInv, phase # "ended", logger.asked < MaxLogged, NEW log \in logCommand(logger)
  PROVE  /\ log.log \in LoggerType
         /\ log.log.file + log.log.pending <= log.log.asked
         /\ ~log.throws => LogKept(log.log)
BY LogStep DEF LogInv

LEMMA CallErrorStep ==
  ASSUME ClientInv, phase # "ended", logger.asked < MaxLogged, clientSystemCallError
  PROVE  ClientInv'
<1>1. /\ logger' \in LoggerType
      /\ logger'.file + logger'.pending <= logger'.asked
  <2>1. CASE UNCHANGED logger
    BY <2>1 DEF ClientInv, LogInv
  <2>2. CASE \E log \in logCommand(logger) : logger' = log.log
    BY <2>2, LoggedStep DEF ClientInv
  <2> QED
    BY <2>1, <2>2 DEF clientSystemCallError
<1>2. phase' = "ended" /\ line' = <<>> /\ client' = client /\ logged' = logged
  BY DEF clientSystemCallError
<1>3. LogInv'
  BY <1>1, <1>2 DEF LogInv
<1>4. Types'
  BY <1>2 DEF Types, ClientInv
<1> QED
  BY <1>2, <1>3, <1>4 DEF ClientInv, LineChecked

LEMMA StartStep == ClientInv /\ Start => ClientInv'
<1> SUFFICES ASSUME ClientInv, Start PROVE ClientInv'
  OBVIOUS
<1>1. phase = "start" /\ logger.asked = 0 /\ 0 < MaxLogged /\ LogKept(logger)
  BY LogAssumption DEF Start, ClientInv, LogInv
<1>2. CASE clientSystemCallError
  BY <1>1, <1>2, CallErrorStep
<1>3. CASE phase' \in {"prompt", "ended"} /\ UNCHANGED <<client, logger, line, logged>>
  <2>1. LogInv'
    BY <1>1, <1>3 DEF ClientInv, LogInv, LogKept
  <2>2. Types' /\ LineChecked'
    BY <1>3 DEF ClientInv, Types, LineChecked
  <2> QED
    BY <2>1, <2>2 DEF ClientInv
<1> QED
  BY <1>2, <1>3 DEF Start

(* A result of logCommand is taken over; the next phase is not the first.  *)
LEMMA LogsStep ==
  ASSUME LogInv, phase # "ended", logger.asked < MaxLogged,
         NEW next \in {"prompt", "valid"}, NEW log \in logCommand(logger), Logs(log, next)
  PROVE  LogInv' /\ phase' \in {next, "ended"}
<1>1. /\ log.log \in LoggerType
      /\ log.log.file + log.log.pending <= log.log.asked
      /\ ~log.throws => LogKept(log.log)
  BY LoggedStep
<1>2. logger' = log.log /\ phase' = IF log.throws THEN "ended" ELSE next
  BY DEF Logs
<1>3. CASE log.throws
  BY <1>1, <1>2, <1>3 DEF LogInv
<1>4. CASE ~log.throws
  BY <1>1, <1>2, <1>4 DEF LogInv, LogKept
<1> QED
  BY <1>3, <1>4, <1>2

LEMMA ReadCommandStep ==
  ASSUME ClientInv, NEW typed \in LineTyped, ReadCommand(typed)
  PROVE  ClientInv'
<1>1. phase = "prompt" /\ logger.asked < MaxLogged /\ logged' = logged
  BY DEF ReadCommand
<1>2. CASE validateDies(typed)
  <2>1. phase' = "ended" /\ client' = client /\ logger' = logger /\ line' = line
    BY <1>2 DEF ReadCommand
  <2> QED
    BY <1>1, <2>1 DEF ClientInv, LogInv, Types, LineChecked
<1>3. CASE ~validateDies(typed)
  <2> DEFINE check == validateCommand(client, typed)
             next == IF check.valid THEN "valid" ELSE "prompt"
  <2>1. PICK log \in logCommand(logger) : Logs(log, next)
    BY <1>3 DEF ReadCommand
  <2>2. client' = check.client /\ line' = IF check.valid THEN typed ELSE <<>>
    BY <1>3 DEF ReadCommand
  <2>3. /\ check.client \in ClientType
        /\ check.valid => Passed(check.client, tokenize(typed))
    BY <1>3, CheckedLine DEF ClientInv, Types
  <2> HIDE DEF check
  <2>4. next \in {"prompt", "valid"} /\ (next = "valid" => check.valid)
    OBVIOUS
  <2> HIDE DEF next
  <2>5. LogInv' /\ phase' \in {next, "ended"}
    BY <1>1, <2>1, <2>4, LogsStep DEF ClientInv
  <2>6. Types'
    BY <1>1, <2>2, <2>3, <2>4, <2>5 DEF ClientInv, Types
  <2>7. LineChecked'
    <3>1. phase' \in {"valid", "sent"} => check.valid /\ line' = typed
      BY <2>2, <2>4, <2>5
    <3> QED
      BY <2>2, <2>3, <3>1 DEF LineChecked
  <2> QED
    BY <2>5, <2>6, <2>7 DEF ClientInv
<1> QED
  BY <1>2, <1>3

LEMMA SendRequestStep == ClientInv /\ SendRequest => ClientInv'
<1> SUFFICES ASSUME ClientInv, SendRequest PROVE ClientInv'
  OBVIOUS
<1>1. CASE logger.asked < MaxLogged /\ clientSystemCallError
  BY <1>1, CallErrorStep DEF SendRequest
<1>2. CASE phase' = "sent" /\ UNCHANGED <<client, logger, line, logged>>
  <2>1. phase = "valid" /\ LogKept(logger)
    BY DEF SendRequest, ClientInv, LogInv
  <2>2. LogInv'
    BY <1>2, <2>1 DEF ClientInv, LogInv, LogKept
  <2>3. Types'
    BY <1>2 DEF ClientInv, Types
  <2>4. LineChecked'
    BY <1>2, <2>1 DEF ClientInv, LineChecked
  <2> QED
    BY <2>2, <2>3, <2>4 DEF ClientInv
<1> QED
  BY <1>1, <1>2 DEF SendRequest

LEMMA ReadResponseStep ==
  ASSUME ClientInv, NEW response, ReadResponse(response)
  PROVE  ClientInv'
<1> DEFINE result == log_response(client, response)
<1>1. /\ phase = "sent" /\ logger.asked < MaxLogged /\ line' = <<>>
      /\ client' = result.client
  BY DEF ReadResponse
<1>2. /\ result.client \in ClientType
      /\ result.logs # <<>> =>
           result.logs[1] \in [command : Commands, verdict : Verdicts, id : 0 .. IntMax]
  BY ReadAnswer DEF ClientInv, Types
<1>3. LogKept(logger) /\ logger \in LoggerType
      /\ logger.file + logger.pending <= logger.asked
  BY <1>1 DEF ClientInv, LogInv
<1>4. /\ LogInv' /\ phase' \in {"prompt", "ended"}
      /\ logged' \in [command : Commands, verdict : Verdicts, id : 0 .. IntMax]
  <2>1. CASE result.logs = <<>>
    <3>1. logged' = logged
      BY <2>1 DEF ReadResponse
    <3>2. CASE logger' \in closeLog(logger) /\ phase' = "ended"
      <4>1. logger' \in LoggerType /\ logger'.file + logger'.pending <= logger'.asked
        BY <1>3, <3>2, CloseStep
      <4> QED
        BY <3>1, <3>2, <4>1 DEF ClientInv, LogInv, Types
    <3>3. CASE phase' = "prompt" /\ UNCHANGED logger
      <4>1. LogInv'
        BY <1>3, <3>3 DEF LogInv, LogKept
      <4> QED
        BY <3>1, <3>3, <4>1 DEF ClientInv, Types
    <3> QED
      BY <2>1, <3>2, <3>3 DEF ReadResponse
  <2>2. CASE result.logs # <<>>
    <3>1. logged' = result.logs[1]
      BY <2>2 DEF ReadResponse
    <3>2. PICK log \in logCommand(logger) :
            IF result.exits /\ ~log.throws
            THEN logger' \in closeLog(log.log) /\ phase' = "ended"
            ELSE Logs(log, "prompt")
      BY <2>2 DEF ReadResponse
    <3>3. CASE logger' \in closeLog(log.log) /\ phase' = "ended"
      <4>1. log.log \in LoggerType /\ log.log.file + log.log.pending <= log.log.asked
        BY <1>1, <1>3, LogStep
      <4>2. logger' \in LoggerType /\ logger'.file + logger'.pending <= logger'.asked
        BY <3>3, <4>1, CloseStep
      <4> QED
        BY <1>2, <2>2, <3>1, <3>3, <4>2 DEF LogInv
    <3>4. CASE Logs(log, "prompt")
      <4>1. LogInv' /\ phase' \in {"prompt", "ended"}
        BY <1>1, <3>4, LogsStep DEF ClientInv
      <4> QED
        BY <1>2, <2>2, <3>1, <4>1
    <3> QED
      BY <3>2, <3>3, <3>4
  <2> QED
    BY <2>1, <2>2
<1> HIDE DEF result
<1>5. Types' /\ LineChecked'
  BY <1>1, <1>2, <1>4 DEF Types, LineChecked
<1> QED
  BY <1>4, <1>5 DEF ClientInv

LEMMA ClientStep == ClientInv /\ [Next]_vars => ClientInv'
<1> SUFFICES ASSUME ClientInv, [Next]_vars PROVE ClientInv'
  OBVIOUS
<1>1. CASE Start
  BY <1>1, StartStep
<1>2. ASSUME NEW typed \in LineTyped, ReadCommand(typed) PROVE ClientInv'
  BY <1>2, ReadCommandStep
<1>3. CASE SendRequest
  BY <1>3, SendRequestStep
<1>4. ASSUME NEW response \in ResponseTo(client.commandType), ReadResponse(response)
      PROVE  ClientInv'
  BY <1>4, ReadResponseStep
<1>5. CASE ReadFails
  BY <1>5, CallErrorStep DEF ReadFails
<1>6. CASE UNCHANGED vars
  BY <1>6 DEF vars, ClientInv, LogInv, LogKept, Types, LineChecked
<1> QED
  BY <1>1, <1>2, <1>3, <1>4, <1>5, <1>6 DEF Next

LEMMA AlwaysClient == Spec => []ClientInv
BY InitClient, ClientStep, PTL DEF Spec

-----------------------------------------------------------------------------
(* Every variable of an emClient holds a value of its type, in particular  *)
(* the ids are numbers an int holds: what is larger ends the process.      *)
THEOREM TypeCorrect == Spec => []TypeOK
<1>1. ClientInv => TypeOK
  BY DEF ClientInv, LogInv, Types, TypeOK
<1> QED
  BY <1>1, AlwaysClient, PTL

(* As long as the process runs its log lacks at most the last line it was  *)
(* given, wherever the file system fails.                                  *)
THEOREM LogKeepsUp == Spec => []LogMissesAtMostTheLast
<1>1. ClientInv => LogMissesAtMostTheLast
  BY DEF ClientInv, LogInv, LogKept, LogMissesAtMostTheLast
<1> QED
  BY <1>1, AlwaysClient, PTL

(* Only an answer changes the last line of log_response, and the line says *)
(* of an acceptance the number the server has read.                        *)
THEOREM AcceptanceIsNamed == Spec => LogNamesTheAcceptedEvent
<1> DEFINE Named == phase = "sent" /\ client.commandType = "SEND_RSVP" /\ logged' # logged =>
                      logged'.id = stoi(tokenize(LineRead)[2])
<1>1. ClientInv /\ [Next]_vars => Named
  <2> SUFFICES ASSUME ClientInv, [Next]_vars, phase = "sent",
                      client.commandType = "SEND_RSVP", logged' # logged
               PROVE  logged'.id = stoi(tokenize(LineRead)[2])
    OBVIOUS
  <2>1. PICK response : ReadResponse(response)
    BY DEF Next, vars, Start, ReadCommand, SendRequest, ReadFails, clientSystemCallError
  <2>2. logged' = log_response(client, response).logs[1]
        /\ log_response(client, response).logs # <<>>
    BY <2>1 DEF ReadResponse
  <2>3. logged'.id = client.eventIdSent
    BY <2>2, ReadAnswer DEF ClientInv, Types
  <2>4. /\ line \in LineTyped /\ NamesEvent(tokenize(line))
        /\ client.eventIdSent = EventIdIn(tokenize(line))
    BY DEF ClientInv, LineChecked, Passed
  <2>5. IsLine(line)
    BY <2>4, LineAssumption
  <2>6. stoi(tokenize(LineRead)[2]) = EventIdIn(tokenize(line))
    BY <2>4, <2>5, SameEvent DEF LineRead
  <2> QED
    BY <2>3, <2>4, <2>6
<1> QED
  BY <1>1, AlwaysClient, PTL DEF Spec, LogNamesTheAcceptedEvent

(* The server finds in every line the command the client has let through,  *)
(* and arguments within the limits, though each of the two splits the line *)
(* for itself, the client with its end and the server without: all of them *)
(* but for a description, if a space ends the line.                        *)
THEOREM TheServerReadsIt == Spec => []ServerReadsWhatWasChecked
<1>1. ClientInv => ServerReadsWhatWasChecked
  <2> SUFFICES ASSUME ClientInv, phase \in {"valid", "sent"}
               PROVE  LET tokens == joinTokens(tokenize(LineRead))
                      IN  /\ tokens # <<>> /\ getCommandType(tokens[1]) = client.commandType
                          /\ client.commandType = "CREATE" =>
                               /\ \/ Len(tokens) = 4
                                  \/ Len(tokens) = 3 /\ Last(LineRead) = Space
                               /\ Len(tokens[2]) <= MaxTitle
                               /\ Len(tokens[3]) <= MaxDate
                               /\ Len(tokens) = 4 => Len(tokens[4]) <= MaxDesc
                          /\ client.commandType \in {"SEND_RSVP", "GET_RSVPS_LIST"} =>
                               /\ Len(tokens) >= 2 /\ isStrNumber(tokens[2])
                               /\ stoi(tokens[2]) =
                                    IF client.commandType = "SEND_RSVP"
                                    THEN client.eventIdSent ELSE client.eventIdRequest
    BY DEF ServerReadsWhatWasChecked
  <2> DEFINE read == tokenize(LineRead)
             args == joinTokens(read)
             tokens == tokenize(line)
             comm == client.commandType
  <2>1. Passed(client, tokens) /\ IsLine(line)
    BY LineAssumption DEF ClientInv, LineChecked
  <2>2. /\ read # <<>> /\ read \in Seq(WordsOf(ToSet(LineRead)))
        /\ getCommandType(read[1]) = comm
    BY <2>1, SameCommand DEF Passed, LineRead
  <2>3. args # <<>> /\ getCommandType(args[1]) = comm
    <3>1. read \in Seq(Seq(ToSet(LineRead)))
      <4>1. WordsOf(ToSet(LineRead)) \subseteq Seq(ToSet(LineRead))
        BY SeqMonotonic DEF WordsOf
      <4> QED
        BY <2>2, <4>1, SeqMonotonic
    <3>2. /\ Len(args) = IF Len(read) < 4 THEN Len(read) ELSE 4
          /\ \A k \in 1 .. 3 : k <= Len(read) => args[k] = read[k]
      BY <3>1, JoinedTokens
    <3>3. Len(read) \in Nat /\ Len(read) >= 1
      <4> HIDE DEF read
      <4> QED
        BY <2>2, <3>1
    <3> HIDE DEF read, args
    <3>4. args[1] = read[1] /\ Len(args) >= 1
      BY <3>2, <3>3
    <3>5. args # <<>>
      BY <3>4
    <3> QED
      BY <2>2, <3>4, <3>5
  <2>4. comm = "CREATE" =>
          /\ Len(args) = 4 \/ (Len(args) = 3 /\ Last(LineRead) = Space)
          /\ Len(args[2]) <= MaxTitle
          /\ Len(args[3]) <= MaxDate
          /\ Len(args) = 4 => Len(args[4]) <= MaxDesc
    <3> SUFFICES ASSUME comm = "CREATE"
                 PROVE  /\ Len(args) = 4 \/ (Len(args) = 3 /\ Last(LineRead) = Space)
                        /\ Len(args[2]) <= MaxTitle
                        /\ Len(args[3]) <= MaxDate
                        /\ Len(args) = 4 => Len(args[4]) <= MaxDesc
      OBVIOUS
    <3>1. Len(tokens) >= 4 /\ ~TooLong(tokens)
      BY <2>1 DEF Passed
    <3>2. LineRead # <<>>
      <4>1. LineRead = <<>> => read = <<>>
        <5>1. Scan(<<>>)[0] = [tokens |-> <<>>, temp |-> <<>>]
          <6>1. <<>> \in Seq({})
            OBVIOUS
          <6> QED
            BY <6>1, ScanIs
        <5>2. tokenize(<<>>) = <<>>
          BY <5>1 DEF tokenize
        <5> QED
          BY <5>2
      <4> QED
        BY <2>2, <4>1
    <3>3. /\ Len(args) = 4 \/ (Len(args) = 3 /\ Last(LineRead) = Space)
          /\ args[2] = tokens[2] /\ args[3] = tokens[3]
          /\ Len(tokens[2]) \in Nat /\ Len(tokens[3]) \in Nat
          /\ Len(args) = 4 =>
               /\ Len(args[4]) \in Nat /\ Len(joinTokens(tokens)[4]) \in Nat
               /\ Len(args[4]) <= Len(joinTokens(tokens)[4])
      BY <2>1, <3>1, <3>2, SameArguments DEF LineRead
    <3>4. /\ ~(Len(tokens[2]) > MaxTitle) /\ ~(Len(tokens[3]) > MaxDate)
          /\ ~(Len(joinTokens(tokens)[4]) > MaxDesc)
      BY <3>1 DEF TooLong
    <3>5. MaxTitle \in Nat /\ MaxDate \in Nat /\ MaxDesc \in Nat
      BY LimitAssumption
    <3> DEFINE title == Len(tokens[2])
               date == Len(tokens[3])
               desc == Len(joinTokens(tokens)[4])
               short == Len(args[4])
    <3>6. /\ title \in Nat /\ date \in Nat
          /\ ~(title > MaxTitle) /\ ~(date > MaxDate) /\ ~(desc > MaxDesc)
          /\ title = Len(args[2]) /\ date = Len(args[3])
          /\ Len(args) = 4 => desc \in Nat /\ short \in Nat /\ short <= desc
      BY <3>3, <3>4
    <3> HIDE DEF title, date, desc
    <3>7. title <= MaxTitle /\ date <= MaxDate /\ (Len(args) = 4 => short <= MaxDesc)
      <4> HIDE DEF short, args
      <4> QED
        BY <3>5, <3>6
    <3> QED
      BY <3>3, <3>6, <3>7
  <2>5. comm \in {"SEND_RSVP", "GET_RSVPS_LIST"} =>
          /\ Len(args) >= 2 /\ isStrNumber(args[2])
          /\ stoi(args[2]) = IF comm = "SEND_RSVP" THEN client.eventIdSent
                                                   ELSE client.eventIdRequest
    <3> SUFFICES ASSUME comm \in {"SEND_RSVP", "GET_RSVPS_LIST"}
                 PROVE  /\ Len(args) >= 2 /\ isStrNumber(args[2])
                        /\ stoi(args[2]) = IF comm = "SEND_RSVP" THEN client.eventIdSent
                                                                 ELSE client.eventIdRequest
      OBVIOUS
    <3>1. NamesEvent(tokens)
      BY <2>1 DEF Passed
    <3>2. /\ Len(args) >= 2 /\ isStrNumber(args[2])
          /\ stoi(args[2]) = EventIdIn(tokens)
      BY <2>1, <3>1, SameEvent DEF LineRead
    <3>3. EventIdIn(tokens) = IF comm = "SEND_RSVP" THEN client.eventIdSent
                                                    ELSE client.eventIdRequest
      BY <2>1 DEF Passed
    <3> QED
      BY <3>2, <3>3
  <2> QED
    BY <2>3, <2>4, <2>5
<1> QED
  BY <1>1, AlwaysClient, PTL

(* Of a line that goes to the server, the tokens are what lies between the *)
(* spaces: none is lost, none is empty, and none is cut.                   *)
THEOREM TokensAreTheLine == Spec => []TokensSplitTheLine
<1>1. ClientInv => TokensSplitTheLine
  <2> SUFFICES ASSUME ClientInv, phase \in {"valid", "sent"}
               PROVE  TokensSplitTheLine
    BY DEF TokensSplitTheLine
  <2> DEFINE starts == {i \in DOMAIN line : line[i] # Space /\ (i = 1 \/ line[i - 1] = Space)}
             tokens == tokenize(line)
  <2>1. IsLine(line)
    BY LineAssumption DEF ClientInv, LineChecked
  <2>2. DOMAIN line = 1 .. Len(line) /\ Len(line) \in Nat
    BY <2>1 DEF IsLine
  <2>3. starts = Starts(line, Len(line))
    BY <2>2 DEF Starts, IsStart
  <2>4. \A i \in starts : {j \in starts : j <= i} = Starts(line, i)
    BY <2>2, <2>3 DEF Starts
  <2>5. /\ Len(tokens) = Cardinality(Starts(line, Len(line)))
        /\ \A i \in Starts(line, Len(line)) :
             LET token == tokens[Cardinality(Starts(line, i))]
                 end == i + Len(UpToNewLine(token)) + (IF Contains(token, NewLine) THEN 1 ELSE 0)
             IN  /\ token = SubSeq(line, i, i + Len(token) - 1)
                 /\ end > Len(line) \/ line[end] = Space
    BY <2>1, TokensAreThePieces
  <2> HIDE DEF starts
  <2>6. \A i \in starts :
          LET token == tokens[Cardinality({j \in starts : j <= i})]
              end == i + Len(UpToNewLine(token)) + (IF Contains(token, NewLine) THEN 1 ELSE 0)
          IN  /\ token = SubSeq(line, i, i + Len(token) - 1)
              /\ end > Len(line) \/ line[end] = Space
    BY <2>3, <2>4, <2>5
  <2> QED
    BY <2>3, <2>5, <2>6 DEF TokensSplitTheLine, starts
<1> QED
  BY <1>1, AlwaysClient, PTL
=============================================================================
