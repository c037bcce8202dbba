---------------------------- MODULE EventSystem ----------------------------
(***************************************************************************)
(* The whole system: users at their emClients and a server that handles    *)
(* one request at a time.  The server stops and is started again with      *)
(* nothing of what it knew, emClients are killed, and a request or an      *)
(* answer may reach the other side in part.                                *)
(***************************************************************************)
EXTENDS Client

CONSTANTS
  Process,      \* the emClients, one at a time under each name
  NameOf,       \* argv[1] of each
  LineTyped,    \* the lines the user of each types
  NameSays,     \* the markers that each name contains
  InfoSays,     \* and each date with its description
  MaxFaults,    \* bound: how often an emClient is killed, or a message cut
  MaxServers,   \* bound: how often the server is started
  ClientName, ToUpper, Title, Info, RequestId, TopCount, AllocFailures,
  MaxEvents, LowestId

(* INSTANCE takes over no assumption: those of Event and Server are made   *)
(* again here.                                                             *)
ASSUME ServerConstants ==
  /\ ToUpper \in [ClientName -> ClientName]
  /\ \A c \in ClientName : ToUpper[ToUpper[c]] = ToUpper[c]
  /\ RequestId \subseteq Nat
  /\ TopCount \in Nat \ {0}
  /\ AllocFailures \subseteq {"event", "map", "response"}
  /\ MaxEvents \in Nat /\ LowestId \in Int

ASSUME SystemAssumption ==
  /\ NameOf \in [Process -> ClientName]
  /\ \A p, q \in Process : ToUpper[NameOf[p]] = ToUpper[NameOf[q]] => p = q
  /\ NameSays \in [ClientName -> SUBSET Marker]
  /\ InfoSays \in [Info -> SUBSET Marker]
  /\ MaxFaults \in Nat /\ MaxServers \in Nat \ {0}

VARIABLES
  clientsSet, eventsMap, eventList, nextEventId, running, reply,
  phase,         \* where each emClient is in main's loop
  client,        \* its Client
  request,       \* what it has sent
  response,      \* what it can read
  leftBehind,    \* requests of killed emClients that were not handled yet
  lifetime,      \* which server this is (history)
  memberOf,      \* the server each was registered by, 0 for none (history)
  accepted,      \* the events each has logged that it accepted, while this
                 \* server runs (history)
  misread,       \* those it took from an answer that did not say so (history)
  unheard,       \* what each has asked of this server without hearing the
                 \* answer, or "membership" (history)
  faults

S == INSTANCE Server

state == <<clientsSet, eventsMap, eventList, nextEventId>>
server == <<state, running>>
history == <<lifetime, memberOf, accepted, misread, unheard>>
vars == <<server, reply, phase, client, request, response, leftBehind, history, faults>>

NoRequest == [text |-> <<>>]
NoResponse ==
  [result |-> "NONE", says |-> {}, accepts |-> {}, whole |-> FALSE, from |-> 0]

Init ==
  /\ S!Init
  /\ phase = [p \in Process |-> "down"]
  /\ client = [p \in Process |-> NewClient]
  /\ request = [p \in Process |-> NoRequest]
  /\ response = [p \in Process |-> NoResponse]
  /\ leftBehind = {}
  /\ lifetime = 1
  /\ memberOf = [p \in Process |-> 0]
  /\ accepted = [p \in Process |-> {}]
  /\ misread = [p \in Process |-> {}]
  /\ unheard = [p \in Process |-> {}]
  /\ faults = 0

Fault == faults < MaxFaults /\ faults' = faults + 1

-----------------------------------------------------------------------------
(* The markers in the text of an answer. *)
TextOf(r) ==
  CASE r.result = "SUCCESS" -> {"SUCCESS"}
    [] r.result = "NOT_REGISTERED" -> {"ERROR: ", "REGISTER"}
    [] r.result = "ALREADY_REGISTERED" -> {"ERROR: "} \cup NameSays[r.to]
    [] r.result = "GUESTS" -> UNION {NameSays[c] : c \in r.guests}
    [] r.result = "TOP" -> UNION {InfoSays[r.lines[i].info] : i \in DOMAIN r.lines}
    [] r.result \in {"CREATED", "ALREADY_SENT"} -> {}
    [] OTHER -> {"ERROR: "}

(* A line as handleClient reads it, with what parseCommand finds in it.    *)
Request(text) ==
  [text |-> text, command |-> CommandOf(tokenize(text)),
   args |-> joinTokens(tokenize(text))]

(* What a read of the server may return of a text, but for nothing.  A     *)
(* part ends between two lexemes, or in the command word.                  *)
Parts(text) == (Prefixes(text) \ {text}) \cup {<<"part">>}

(* No line of these users ends their emClient, and a piece of a command    *)
(* word is no command.                                                     *)
ASSUME LineAssumption ==
  /\ "part" \notin DOMAIN UpperCase
  /\ \A p \in Process : \A line \in LineTyped[p] : IsLine(line) /\ ~validateDies(line)

(* What the server makes of a line.  It counts no tokens: reading one past *)
(* the last is undefined, and what lies there is taken for the argument if *)
(* the server does not die (ServerStops).                                  *)
parseCommand(name, r) ==
  LET comm == r.command
      args == r.args
  IN  \/ comm = "REGISTER" /\ S!registerClient(name)
      \/ comm = "UNREGISTER" /\ S!unregisterClient(name)
      \/ comm = "GET_TOP_5" /\ S!getTop5Events(name)
      \/ comm = "ILLEGAL" /\ S!illegalCommand(name)
      \/ comm = "CREATE" /\ S!RejectUnregistered(name, "CREATE", 0)
      \/ /\ comm = "CREATE"
         /\ \E title \in Title, info \in Info :
              /\ Len(args) >= 2 => title = args[2]
              /\ Len(args) >= 3 => info[1] = args[3]
              /\ Len(args) >= 4 => info[2] = args[4]
              /\ S!createEvent(name, title, info)
      \/ /\ comm \in {"SEND_RSVP", "GET_RSVPS_LIST"}
         /\ IF Len(args) >= 2 /\ isStrNumber(args[2])
            THEN IF comm = "SEND_RSVP" THEN S!sendRSVP(name, stoi(args[2]))
                                       ELSE S!getRSVP_List(name, stoi(args[2]))
            ELSE S!invalidArgument(name, comm)

(* The server does nothing. *)
Quiet == UNCHANGED server /\ reply' = S!NoReply

-----------------------------------------------------------------------------
(* A user starts an emClient. *)
StartClient(p) ==
  /\ phase[p] = "down"
  /\ phase' = [phase EXCEPT ![p] = "prompt"]
  /\ client' = [client EXCEPT ![p] = NewClient]
  /\ Quiet
  /\ UNCHANGED <<request, response, leftBehind, history, faults>>

(* p has asked the server that runs for something, and not heard of it. *)
Waiting(p) ==
  phase[p] = "sent" \/ (phase[p] = "answered" /\ response[p].from = lifetime)

(* unheard after the end of p. *)
Abandon(p) ==
  unheard' = [unheard EXCEPT ![p] =
                @ \cup (IF Waiting(p) THEN {client[p].commandType} ELSE {})
                  \cup (IF memberOf[p] = lifetime THEN {"membership"} ELSE {})]

(* The requests under way in which an event may be made. *)
CreatesUnderWay ==
  Cardinality({p \in Process : phase[p] = "sent" /\ client[p].commandType = "CREATE"})
  + Cardinality({left \in leftBehind : left.request.command = "CREATE"})

(* The process of p ends. *)
End(p) ==
  /\ phase' = [phase EXCEPT ![p] = "down"]
  /\ client' = [client EXCEPT ![p] = NewClient]
  /\ request' = [request EXCEPT ![p] = NoRequest]
  /\ response' = [response EXCEPT ![p] = NoResponse]
  /\ memberOf' = [memberOf EXCEPT ![p] = 0]

(* Back to the prompt.  Of what the client remembers only _registered has  *)
(* a bearing on later requests; the ids only go into the log (EmClient).   *)
AtPrompt(c) == [NewClient EXCEPT !.registered = c.registered]

(* A user types a line; validateCommand refuses it, or it is sent to the   *)
(* server, or the connection is refused and the process exits.             *)
TypeLine(p, typed) ==
  LET check == validateCommand(client[p], typed)
  IN  /\ phase[p] = "prompt"
      /\ CommandOf(tokenize(typed)) = "CREATE" =>
           Len(eventList) + CreatesUnderWay < MaxEvents
      /\ IF check.valid /\ ~running
         THEN End(p) /\ UNCHANGED <<lifetime, accepted, misread, unheard>>
         ELSE /\ IF check.valid
                 THEN /\ phase' = [phase EXCEPT ![p] = "sent"]
                      /\ client' = [client EXCEPT ![p] = check.client]
                      /\ request' = [request EXCEPT ![p] = Request(UpToNewLine(typed))]
                 ELSE /\ client' = [client EXCEPT ![p] = AtPrompt(check.client)]
                      /\ UNCHANGED <<phase, request>>
              /\ UNCHANGED <<response, history>>
      /\ Quiet
      /\ UNCHANGED <<leftBehind, faults>>

(* The event whose guest a reply says its client is.                       *)
AcceptedBy(r) ==
  IF r.command = "SEND_RSVP" /\ r.result \in {"SUCCESS", "ALREADY_SENT"} THEN {r.id} ELSE {}

(* The server's answer to p, whose request was read whole or in part.      *)
Answer(p, result, says, accepts, whole) ==
  /\ phase' = [phase EXCEPT ![p] = "answered"]
  /\ response' = [response EXCEPT ![p] = [result |-> result, says |-> says, accepts |-> accepts,
                                          whole |-> whole, from |-> lifetime]]
  /\ request' = [request EXCEPT ![p] = NoRequest]

(* handleClient for a request that is read whole. *)
Serve(p) ==
  /\ running /\ phase[p] = "sent"
  /\ parseCommand(NameOf[p], request[p])
  /\ Answer(p, reply'.result, TextOf(reply'), AcceptedBy(reply'), TRUE)
  /\ UNCHANGED <<running, client, leftBehind, history, faults>>

(* Its only read returns a part, or nothing: then nothing is parsed, and   *)
(* the answer is empty.                                                    *)
ServePart(p) ==
  /\ running /\ phase[p] = "sent" /\ Fault
  /\ \/ \E part \in Parts(request[p].text) :
          /\ tokenize(part) # <<>>
          /\ parseCommand(NameOf[p], Request(part))
          /\ Answer(p, reply'.result, TextOf(reply'), AcceptedBy(reply'), FALSE)
     \/ Answer(p, "NONE", {}, {}, FALSE) /\ Quiet
  /\ UNCHANGED <<running, client, leftBehind, history>>

(* handleClient for a request whose sender is no more. *)
ServeLeftBehind(left) ==
  /\ running
  /\ parseCommand(left.name, left.request)
  /\ leftBehind' = leftBehind \ {left}
  /\ UNCHANGED <<running, phase, client, request, response, history, faults>>

(* The single read of an emClient returns a part of the answer. *)
CutResponse(p) ==
  /\ phase[p] = "answered" /\ response[p].whole /\ Fault
  /\ \E part \in SUBSET response[p].says \ {response[p].says} :
       response' = [response EXCEPT ![p].says = part, ![p].whole = FALSE]
  /\ unheard' = [unheard EXCEPT ![p] =
                    @ \cup (IF Waiting(p) THEN {client[p].commandType} ELSE {})]
  /\ Quiet
  /\ UNCHANGED <<phase, client, request, leftBehind, lifetime,
                 memberOf, accepted, misread>>

(* The event that the line logged for this answer says is accepted.  No    *)
(* answer at all is logged as "already sent" too.                          *)
LoggedAsAccepted(p, verdict) ==
  IF client[p].commandType = "SEND_RSVP" /\ verdict \in {"done", "already_sent"}
  THEN {client[p].eventIdSent} ELSE {}

(* The answer is the running server's, and says the same.                  *)
Earned(p, ids) == response[p].from = lifetime /\ ids \subseteq response[p].accepts

(* read and log_response. *)
LogResponse(p) ==
  LET comm == client[p].commandType
      verdict == Verdict(comm, response[p].says)
      result == log_response(client[p], response[p].says)
      ids == LoggedAsAccepted(p, verdict)
  IN  /\ phase[p] = "answered"
      /\ IF result.exits
         THEN /\ End(p)
              /\ accepted' = [accepted EXCEPT ![p] = {}]
              /\ misread' = [misread EXCEPT ![p] = {}]
         ELSE /\ phase' = [phase EXCEPT ![p] = "prompt"]
              /\ client' = [client EXCEPT ![p] = AtPrompt(result.client)]
              /\ response' = [response EXCEPT ![p] = NoResponse]
              /\ memberOf' = [memberOf EXCEPT ![p] =
                                IF comm = "REGISTER" /\ verdict = "done"
                                THEN response[p].from ELSE @]
              /\ accepted' = [accepted EXCEPT ![p] = @ \cup ids]
              /\ misread' = [misread EXCEPT ![p] = IF Earned(p, ids) THEN @ \ ids
                                                  ELSE @ \cup (ids \ accepted[p])]
              /\ UNCHANGED request
      /\ Quiet
      /\ UNCHANGED <<leftBehind, lifetime, unheard, faults>>

(* The server closed the connection without reading all of the request:    *)
(* the answer may be lost, and the process exits.                          *)
ReadFails(p) ==
  /\ phase[p] = "answered" /\ ~response[p].whole
  /\ End(p)
  /\ Abandon(p)
  /\ Quiet
  /\ UNCHANGED <<leftBehind, lifetime, accepted, misread, faults>>

(* Killed, or at the end of its input.  The request it has sent stays (but *)
(* of two that are the same, only one).                                    *)
Kill(p) ==
  /\ phase[p] # "down" /\ Fault
  /\ End(p)
  /\ Abandon(p)
  /\ leftBehind' = IF phase[p] = "sent"
                   THEN leftBehind \cup {[name |-> NameOf[p], request |-> request[p]]}
                   ELSE leftBehind
  /\ Quiet
  /\ UNCHANGED <<lifetime, accepted, misread>>

(* EXIT or a crash.  Who waits for an answer finds its connection closed.  *)
ServerStops ==
  /\ running
  /\ running' = FALSE
  /\ clientsSet' = {} /\ eventsMap' = <<>> /\ eventList' = <<>>
  /\ nextEventId' = 1
  /\ reply' = S!NoReply
  /\ leftBehind' = {}
  /\ phase' = [p \in Process |-> IF phase[p] = "sent" THEN "answered" ELSE phase[p]]
  /\ request' = [p \in Process |-> NoRequest]
  /\ accepted' = [p \in Process |-> {}]
  /\ misread' = [p \in Process |-> {}]
  /\ unheard' = [p \in Process |-> {}]
  /\ lifetime' = lifetime + 1
  /\ UNCHANGED <<client, response, memberOf, faults>>

StartServer ==
  /\ ~running /\ lifetime <= MaxServers
  /\ running' = TRUE
  /\ reply' = S!NoReply
  /\ UNCHANGED <<state, phase, client, request, response, leftBehind, history, faults>>

Next ==
  \/ \E p \in Process :
       \/ StartClient(p)
       \/ \E typed \in LineTyped[p] : TypeLine(p, typed)
       \/ Serve(p) \/ ServePart(p)
       \/ CutResponse(p) \/ LogResponse(p) \/ ReadFails(p)
       \/ Kill(p)
  \/ \E left \in leftBehind : ServeLeftBehind(left)
  \/ ServerStops \/ StartServer

(* The handler of a request runs, and an emClient in read is woken. *)
Fairness ==
  \A p \in Process : WF_vars(Serve(p)) /\ WF_vars(LogResponse(p))

Spec == Init /\ [][Next]_vars /\ Fairness

-----------------------------------------------------------------------------
(* Every variable holds a value of its type: the server's as in Server, on *)
(* every emClient an object whose ids are those of some line, and an empty *)
(* buffer unless a request is under way.                                   *)
TypeOK ==
  /\ clientsSet \subseteq {ToUpper[NameOf[p]] : p \in Process}
  /\ \A id \in DOMAIN eventsMap : eventsMap[id] \in 1 .. Len(eventList)
  /\ Len(eventList) <= MaxEvents /\ nextEventId = Len(eventList) + 1
  /\ \A i \in DOMAIN eventList :
       eventList[i].guestsNames \subseteq {ToUpper[NameOf[p]] : p \in Process}
  /\ phase \in [Process -> {"down", "prompt", "sent", "answered"}]
  /\ client \in [Process -> ClientType]
  /\ \A p \in Process : (request[p] # NoRequest) = (phase[p] = "sent")
  /\ memberOf \in [Process -> 0 .. lifetime] /\ lifetime \in 1 .. MaxServers + 1
  /\ unheard \in [Process -> SUBSET (Commands \cup {"membership"})]

UpperName(p) == ToUpper[NameOf[p]]

(* An UNREGISTER under the name of p is under way, or its sender has not   *)
(* heard what became of it.                                                *)
Leaving(p) ==
  \/ "UNREGISTER" \in unheard[p]
  \/ client[p].commandType = "UNREGISTER" /\ Waiting(p)

(* A client that the running server has told SUCCESS is known to it, until *)
(* an UNREGISTER: nothing that goes wrong with other requests, other       *)
(* clients or earlier servers takes its name away.                         *)
RegisteredMeansKnown ==
  \A p \in Process :
    running /\ memberOf[p] = lifetime /\ ~Leaving(p) => UpperName(p) \in clientsSet

(* A name is taken only as long as somebody holds it: a client that is     *)
(* registered or about to hear so, or one that went away without saying    *)
(* so, or did not hear the answer to its REGISTER.                         *)
NamesAreHeld ==
  \A p \in Process :
    UpperName(p) \in clientsSet =>
      \/ memberOf[p] = lifetime
      \/ client[p].commandType = "REGISTER" /\ Waiting(p)
      \/ {"REGISTER", "membership"} \cap unheard[p] # {}

(* A client registered with an earlier server is a stranger to this one,   *)
(* and stays so until it is killed, since it may not register again: all   *)
(* it ever has is refused.                                                 *)
StaleClientsAreStrangers ==
  \A p \in Process :
    client[p].registered /\ memberOf[p] < lifetime => UpperName(p) \notin clientsSet

OnTheList(p, ids) ==
  \A id \in ids : id \in DOMAIN eventsMap /\ UpperName(p) \in S!EventOf(id).guestsNames

(* What a client has logged as accepted, the server has on the guest list, *)
(* through the comings and goings of other clients, and though the answer  *)
(* was cut: but for what the client took from an answer that did not say   *)
(* so.  That takes a message that was cut, or a server that has stopped.   *)
LoggedAcceptanceIsKept ==
  \A p \in Process :
    /\ ~Leaving(p) => OnTheList(p, accepted[p] \ misread[p])
    /\ misread[p] # {} => faults > 0 \/ lifetime > 1

(* Client.cpp, logRSVP_response: "RSVP to event id N was already sent."    *)
(* What the log says was sent, the server has.                             *)
LogIsTrue == \A p \in Process : ~Leaving(p) => OnTheList(p, accepted[p])

(* No name and no text in an event makes a client take the answer to a     *)
(* request that changes something for anything but what the server did.    *)
ChangesAreUnderstood ==
  \A p \in Process :
    phase[p] = "answered" /\ response[p].whole =>
      LET result == response[p].result
          verdict == Verdict(client[p].commandType, response[p].says)
      IN  client[p].commandType \notin {"GET_RSVPS_LIST", "GET_TOP_5"} =>
            CASE result \in {"SUCCESS", "CREATED"} -> verdict = "done"
              [] result = "ALREADY_SENT" -> verdict = "already_sent"
              [] OTHER -> verdict = "failed"

(* Whatever stops, is cut or killed, an emClient does not wait for ever.   *)
EveryRequestEnds ==
  \A p \in Process : phase[p] \in {"sent", "answered"} ~> phase[p] \in {"prompt", "down"}
=============================================================================
