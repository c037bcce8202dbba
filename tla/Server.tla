------------------------------- MODULE Server -------------------------------
(***************************************************************************)
(* The singleton Server, one request at a time: every handler runs to its  *)
(* end before the next begins, as it does while no two emClients have a    *)
(* request under way together.  (Module ServerThreads interleaves them.)   *)
(*                                                                         *)
(* An Event* is the position of its Event in _eventList: objects are only  *)
(* ever appended there, and an Event that never got there is unreachable.  *)
(* createEvent handles a failed allocation, which may strike before, in    *)
(* the middle of or after its updates: AllocFailures says where it may.    *)
(***************************************************************************)
EXTENDS Event, FiniteSets

CONSTANTS
  RequestId,      \* the event ids clients ask for: stoi of some digits
  TopCount,       \* the 5 of GET_TOP_5
  AllocFailures,  \* where std::bad_alloc may strike in createEvent
  MaxEvents,      \* bound: how many events are ever stored
  LowestId        \* bound: how far failures may push _nextEventId down

ASSUME ServerAssumption ==
  /\ RequestId \subseteq Nat
  /\ TopCount \in Nat \ {0}
  /\ AllocFailures \subseteq {"event", "map", "response"}
  /\ MaxEvents \in Nat
  /\ LowestId \in Int

VARIABLES
  clientsSet,   \* _clientsSet: the names of the registered clients
  eventsMap,    \* _eventsMap: id -> Event*
  eventList,    \* _eventList: every Event, oldest first
  nextEventId,  \* _nextEventId
  running,      \* exitServer has not been called
  reply         \* the answer to the last request

state == <<clientsSet, eventsMap, eventList, nextEventId>>
vars == <<state, running, reply>>

Command == {"REGISTER", "UNREGISTER", "CREATE", "SEND_RSVP",
            "GET_RSVPS_LIST", "GET_TOP_5", "EXIT", "ILLEGAL"}

Result == {"SUCCESS", "ALREADY_REGISTERED", "NOT_REGISTERED", "CREATED",
           "CANNOT_ALLOCATE", "ALREADY_SENT", "NO_EVENT", "GUESTS", "TOP",
           "INVALID_ARGUMENT", "ILLEGAL_COMMAND", "NONE"}

(* id is the event that a reply or its request names.                      *)
Reply ==
  [to : ClientName, command : Command, result : Result, id : Int,
   guests : SUBSET Name, lines : Seq(Line)]

NoReply == [to |-> "nobody"]

Init ==
  /\ clientsSet = {}
  /\ eventsMap = <<>>
  /\ eventList = <<>>
  /\ nextEventId = 1
  /\ running = TRUE
  /\ reply = NoReply

isClientExist(client) == ToUpper[client] \in clientsSet

isEventExist(eventId) == eventId \in DOMAIN eventsMap

EventOf(eventId) == eventList[eventsMap[eventId]]

Respond(client, command, result, id) ==
  reply' = [to |-> client, command |-> command, result |-> result, id |-> id,
            guests |-> {}, lines |-> <<>>]

(* The early return every handler but registerClient begins with.          *)
RejectUnregistered(client, command, id) ==
  /\ ~isClientExist(client)
  /\ Respond(client, command, "NOT_REGISTERED", id)
  /\ UNCHANGED state

(* Faulty variant: no answer when the name is taken. *)
registerClient_Silent(client) ==
  /\ ~isClientExist(client)
  /\ clientsSet' = clientsSet \cup {ToUpper[client]}
  /\ Respond(client, "REGISTER", "SUCCESS", 0)
  /\ UNCHANGED <<eventsMap, eventList, nextEventId>>

registerClient(client) ==
  \/ /\ ~isClientExist(client)
     /\ clientsSet' = clientsSet \cup {ToUpper[client]}
     /\ Respond(client, "REGISTER", "SUCCESS", 0)
     /\ UNCHANGED <<eventsMap, eventList, nextEventId>>
  \/ /\ isClientExist(client)
     /\ Respond(client, "REGISTER", "ALREADY_REGISTERED", 0)
     /\ UNCHANGED state

(* Faulty variant: the events are left as they are. *)
removeClientFromEvents_Forgotten(client) == eventList

(* _eventList after the loop over the events of _eventsMap. *)
removeClientFromEvents(client) ==
  [i \in DOMAIN eventList |->
     IF \E id \in DOMAIN eventsMap : eventsMap[id] = i
     THEN removeGuest(eventList[i], client)
     ELSE eventList[i]]

unregisterClient(client) ==
  \/ /\ isClientExist(client)
     /\ clientsSet' = clientsSet \ {ToUpper[client]}
     /\ eventList' = removeClientFromEvents(ToUpper[client])
     /\ Respond(client, "UNREGISTER", "SUCCESS", 0)
     /\ UNCHANGED <<eventsMap, nextEventId>>
  \/ RejectUnregistered(client, "UNREGISTER", 0)

(* Faulty variant: no check that the next id is free. *)
eventIdToAssign_Unchecked == nextEventId

(* The id createEvent gives: the next one, or the one after it if that is  *)
(* taken.                                                                  *)
eventIdToAssign ==
  IF isEventExist(nextEventId) THEN nextEventId + 1 ELSE nextEventId

(* Faulty variant: the string is made after the counter has moved. *)
eventIdStr_AfterIncrement == eventIdToAssign + 1

(* The id the answer names: the string is made when the handler begins,    *)
(* before the id is looked for.                                            *)
eventIdStr == nextEventId

(* Faulty variant: the map is keyed with the id the handler began with. *)
InsertInMap_StaleKey(eventId, event) ==
  [k \in DOMAIN eventsMap \cup {nextEventId} |->
     IF k = nextEventId THEN event ELSE eventsMap[k]]

(* _eventsMap[eventId] = event *)
InsertInMap(eventId, event) ==
  [k \in DOMAIN eventsMap \cup {eventId} |->
     IF k = eventId THEN event ELSE eventsMap[k]]

PushBack(client, title, info) ==
  Append(eventList, NewEvent(client, eventIdToAssign, title, info))

createEvent(client, title, info) ==
  /\ isClientExist(client)
  /\ Len(eventList) < MaxEvents
  /\ eventList' = PushBack(client, title, info)
  /\ eventsMap' = InsertInMap(eventIdToAssign, Len(eventList) + 1)
  /\ nextEventId' = eventIdToAssign + 1
  /\ Respond(client, "CREATE", "CREATED", eventIdStr)
  /\ UNCHANGED clientsSet

(***************************************************************************)
(* The catch block of createEvent.  bad_alloc came from `new' or push_back *)
(* ("event": nothing stored), from the insertion into the map ("map": the  *)
(* event is in the list only) or from the response string ("response": it  *)
(* is in both).  Only the counter is put back.                             *)
(***************************************************************************)
createEventFails(client, title, info, at) ==
  /\ isClientExist(client)
  /\ Len(eventList) < MaxEvents
  /\ nextEventId > LowestId
  /\ eventList' = IF at = "event" THEN eventList
                                  ELSE PushBack(client, title, info)
  /\ eventsMap' = IF at = "response"
                  THEN InsertInMap(eventIdToAssign, Len(eventList) + 1)
                  ELSE eventsMap
  /\ nextEventId' = eventIdToAssign - 1
  /\ Respond(client, "CREATE", "CANNOT_ALLOCATE", 0)
  /\ UNCHANGED clientsSet

sendRSVP(client, eventId) ==
  \/ /\ isClientExist(client)
     /\ UNCHANGED <<clientsSet, eventsMap, nextEventId>>
     /\ \/ /\ ~isEventExist(eventId)
           /\ Respond(client, "SEND_RSVP", "NO_EVENT", eventId)
           /\ UNCHANGED eventList
        \/ /\ isEventExist(eventId)
           /\ isNewGuest(EventOf(eventId), client)
           /\ eventList' = [eventList EXCEPT ![eventsMap[eventId]] =
                                               AddGuest(@, client)]
           /\ Respond(client, "SEND_RSVP", "SUCCESS", eventId)
        \/ /\ isEventExist(eventId)
           /\ ~isNewGuest(EventOf(eventId), client)
           /\ Respond(client, "SEND_RSVP", "ALREADY_SENT", eventId)
           /\ UNCHANGED eventList
  \/ RejectUnregistered(client, "SEND_RSVP", eventId)

(* The guest list is sent in alphabetical order, whatever the order of the *)
(* acceptances: the set of the names stands for it.                        *)
getRSVP_List(client, eventId) ==
  \/ /\ isClientExist(client)
     /\ UNCHANGED state
     /\ \/ /\ ~isEventExist(eventId)
           /\ Respond(client, "GET_RSVPS_LIST", "NO_EVENT", eventId)
        \/ /\ isEventExist(eventId)
           /\ reply' = [to |-> client, command |-> "GET_RSVPS_LIST",
                        result |-> "GUESTS", id |-> eventId,
                        guests |-> ToSet(EventOf(eventId).RSVP_List),
                        lines |-> <<>>]
  \/ RejectUnregistered(client, "GET_RSVPS_LIST", eventId)

(* Faulty variant: one event too many once there are more than TopCount. *)
firstIdx_OneEarly(size) == IF size > TopCount THEN size - TopCount - 1 ELSE 0

firstIdx(size) == IF size > TopCount THEN size - TopCount ELSE 0

NewestLines ==
  LET first == firstIdx(Len(eventList))
  IN  [i \in 1 .. Len(eventList) - first |-> toString(eventList[first + i])]

getTop5Events(client) ==
  \/ /\ isClientExist(client)
     /\ reply' = [to |-> client, command |-> "GET_TOP_5", result |-> "TOP",
                  id |-> 0, guests |-> {}, lines |-> NewestLines]
     /\ UNCHANGED state
  \/ RejectUnregistered(client, "GET_TOP_5", 0)

illegalCommand(client) ==
  /\ Respond(client, "ILLEGAL", "ILLEGAL_COMMAND", 0)
  /\ UNCHANGED state

(* The argument is no number; whether the client exists is not asked.      *)
invalidArgument(client, command) ==
  /\ Respond(client, command, "INVALID_ARGUMENT", 0)
  /\ UNCHANGED state

(* The switch has no case for EXIT: the response stays empty.              *)
exitCommand(client) ==
  /\ Respond(client, "EXIT", "NONE", 0)
  /\ UNCHANGED state

withoutEffect(client) ==
  \/ illegalCommand(client)
  \/ \E command \in {"SEND_RSVP", "GET_RSVPS_LIST"} : invalidArgument(client, command)
  \/ exitCommand(client)

(* The switch on the command type. *)
parseCommand(client) ==
  \/ registerClient(client)
  \/ unregisterClient(client)
  \/ \E title \in Title, info \in Info :
       \/ createEvent(client, title, info)
       \/ \E at \in AllocFailures : createEventFails(client, title, info, at)
  \/ RejectUnregistered(client, "CREATE", 0)
  \/ \E id \in RequestId : sendRSVP(client, id) \/ getRSVP_List(client, id)
  \/ getTop5Events(client)
  \/ withoutEffect(client)

(* A request, and the response to it. *)
handleClient(client) ==
  /\ running
  /\ parseCommand(client)
  /\ UNCHANGED running

(* EXIT was typed and no request is under way: the containers are emptied  *)
(* and the process ends.                                                   *)
exitServer ==
  /\ running
  /\ running' = FALSE
  /\ clientsSet' = {}
  /\ eventsMap' = <<>>
  /\ eventList' = <<>>
  /\ reply' = NoReply
  /\ UNCHANGED nextEventId

Next == (\E client \in ClientName : handleClient(client)) \/ exitServer

Spec == Init /\ [][Next]_vars

-----------------------------------------------------------------------------
(* Every variable holds a value of its C++ type, names in upper case, and  *)
(* the pointers in _eventsMap point at events of _eventList.               *)
TypeOK ==
  /\ clientsSet \subseteq Name
  /\ DOMAIN eventsMap \subseteq Int
  /\ \A id \in DOMAIN eventsMap : eventsMap[id] \in 1 .. Len(eventList)
  /\ eventList \in Seq(EventType)
  /\ nextEventId \in Int
  /\ running \in BOOLEAN
  /\ reply \in Reply \cup {NoReply}

(* Who has unregistered is on the guest list of no event that a client can *)
(* ask for: unregisterClient clears every one of them, and sendRSVP lets   *)
(* only registered clients in.                                             *)
GuestsAreRegistered ==
  \A id \in DOMAIN eventsMap : ToSet(EventOf(id).RSVP_List) \subseteq clientsSet

(* The set an RSVP is checked against and the list that is sent to clients *)
(* never disagree, through any sequence of acceptances and withdrawals, in *)
(* any spelling.                                                           *)
GuestListsAgree ==
  \A i \in DOMAIN eventList : GuestsAgree(eventList[i])

(* The map finds under an id the event that was made with that id.         *)
MapKeysAreEventIds ==
  \A id \in DOMAIN eventsMap : EventOf(id).eventId = id

(* An event that GET_TOP_5 shows can be accepted: createEvent has put it   *)
(* in the map too, and no later createEvent has taken its id from it.      *)
ListedEventsAreReachable ==
  \A i \in DOMAIN eventList : \E id \in DOMAIN eventsMap : eventsMap[id] = i

(* The order of _eventList is the order of the ids, so that "the newest    *)
(* five" are those with the five largest ids.                              *)
NewestHasLargestId ==
  \A i, j \in DOMAIN eventList : i < j => eventList[i].eventId < eventList[j].eventId

(* "Event id N was created successfully" names the id under which the new  *)
(* event, the last of the list, can be found.                              *)
ReportedIdIsAssigned ==
  running /\ reply # NoReply /\ reply.result = "CREATED" =>
    /\ isEventExist(reply.id)
    /\ eventsMap[reply.id] = Len(eventList)

(* As long as the server runs, an id goes on naming the same event.        *)
IdsNameOneEvent ==
  [][running' => \A id \in DOMAIN eventsMap :
       /\ id \in DOMAIN eventsMap'
       /\ eventsMap'[id] = eventsMap[id]]_vars

(* An acceptance is only withdrawn by its guest: a name leaves the guest   *)
(* list an id names only in the step that answers that client's UNREGISTER.*)
OnlyGuestsWithdraw ==
  [][running' => \A id \in DOMAIN eventsMap :
       \A guest \in ToSet(EventOf(id).RSVP_List) \ ToSet(EventOf(id)'.RSVP_List) :
         /\ reply'.command = "UNREGISTER"
         /\ ToUpper[reply'.to] = guest]_vars

-----------------------------------------------------------------------------
(* What EventService calls the meetings and their order.                   *)
Meetings ==
  [id \in DOMAIN eventsMap |->
     [by |-> EventOf(id).creator, title |-> EventOf(id).title,
      info |-> EventOf(id).info, guests |-> EventOf(id).guestsNames]]

Order == [i \in DOMAIN eventList |-> eventList[i].eventId]

(* The server keeps the promises of EventService, but that a line of       *)
(* GET_TOP_5 says of an event only what toString returns.                  *)
Service ==
  INSTANCE EventService WITH
    LineShows <- Shown,
    EventId   <- 1 .. MaxEvents,
    members   <- clientsSet,
    meetings  <- Meetings,
    order     <- Order,
    open      <- running,
    answer    <- reply

ImplementsEventService == Service!Spec

(* With lines "in the following format: <eventId>\t<eventTitle>\t           *)
(* <eventDate>\t<eventDescription>" (Server.cpp, getTop5Events), that is   *)
(* with the id that a client needs for its RSVP.                           *)
DocumentedService ==
  INSTANCE EventService WITH
    LineShows <- {"id", "title", "info"},
    EventId   <- 1 .. MaxEvents,
    members   <- clientsSet,
    meetings  <- Meetings,
    order     <- Order,
    open      <- running,
    answer    <- reply

TopLinesNameEvents == DocumentedService!Spec
=============================================================================
