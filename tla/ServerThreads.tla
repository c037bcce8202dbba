--------------------------- MODULE ServerThreads ---------------------------
(***************************************************************************)
(* The singleton Server under concurrent requests: one thread per request, *)
(* no lock anywhere.  A step is one access to a shared structure with the  *)
(* thread-local work that follows it; the label of the step under way is   *)
(* pc.  A Process is an emClient, with at most one request under way, that *)
(* checks each line against its own _registered before it sends it; when   *)
(* it exits, the next emClient started under the same name takes its place.*)
(*                                                                         *)
(* With RaceOutcomes = {} the accesses are taken to be atomic, and iterators *)
(* to stay valid.  They are not protected, so RaceOutcomes may add what     *)
(* overlapping ones do: one of two updates is "lost", or the server is in a *)
(* "crash".                                                                 *)
(***************************************************************************)
EXTENDS Event, FiniteSets

CONSTANTS
  Process,
  NameOf,         \* argv[1] of each emClient
  RequestId,      \* the event ids clients ask for
  TopCount,       \* the 5 of GET_TOP_5
  Creator,        \* bound: the emClients whose users type CREATE
  RaceOutcomes,
  AllocFailures,  \* the steps of createEvent where std::bad_alloc may strike
  MaxEvents,      \* bound: how many events are ever made
  MaxAccepted,    \* bound: names in one RSVP_List (a lost insertion in the
                  \* set lets a client accept again)
  LowestId        \* bound: how far failures may push _nextEventId down

ASSUME ThreadsAssumption ==
  /\ IsFiniteSet(Process)
  /\ NameOf \in [Process -> ClientName]
  /\ RequestId \subseteq Nat
  /\ TopCount \in Nat \ {0}
  /\ Creator \subseteq Process
  /\ RaceOutcomes \subseteq {"lost", "crash"}
  /\ AllocFailures \subseteq {"create_new", "create_push", "create_map", "create_inc"}
  /\ MaxEvents \in Nat /\ MaxAccepted \in Nat
  /\ LowestId \in Int /\ LowestId <= 1

VARIABLES
  clientsSet,   \* _clientsSet
  eventsMap,    \* _eventsMap: id -> the address of an Event
  eventList,    \* _eventList: addresses
  nextEventId,  \* _nextEventId
  heap,         \* the Event objects, by address
  crashed,      \* the server process has died
  pc,           \* what the handler of each client's request does next
  loc,          \* its local variables
  registered,   \* Client::_registered of each emClient
  accepted,     \* {id} while the last answer to an emClient is that its
                \* RSVP to event id was received, else {}
  shared,       \* history: names that two emClients have held at once
  overlapped    \* history: names whose handlers have changed a container
                \* while another handler was at the same change

server == <<clientsSet, eventsMap, eventList, nextEventId, heap>>
client == <<registered, accepted>>
history == <<shared, overlapped>>
vars == <<server, crashed, pc, loc, client, history>>

(* id is eventId, or the key removeClientFromEvents has come to; told the  *)
(* number in eventIdStr; event an Event*; it the position of an iterator   *)
(* over _eventList (first: listSize); lines how many events are printed.   *)
NoLocals == [id |-> 0, told |-> 0, event |-> 0, it |-> 0, lines |-> 0]

Init ==
  /\ clientsSet = {}
  /\ eventsMap = <<>>
  /\ eventList = <<>>
  /\ nextEventId = 1
  /\ heap = <<>>
  /\ crashed = FALSE
  /\ pc = [p \in Process |-> "idle"]
  /\ loc = [p \in Process |-> NoLocals]
  /\ registered = [p \in Process |-> FALSE]
  /\ accepted = [p \in Process |-> {}]
  /\ shared = {}
  /\ overlapped = {}

UpperName(p) == ToUpper[NameOf[p]]
isClientExist(p) == UpperName(p) \in clientsSet
isEventExist(id) == id \in DOMAIN eventsMap

(* The keys of _eventsMap an iterator has not come to yet, and the next.   *)
KeysAfter(id) == {k \in DOMAIN eventsMap : k > id}
NextKey(id) == CHOOSE k \in KeysAfter(id) : \A l \in KeysAfter(id) : k <= l

-----------------------------------------------------------------------------
(* What the next access of a handler writes and reads.                     *)
Written(p) ==
  CASE pc[p] \in {"reg_insert", "unreg_erase"} -> {<<"_clientsSet", 0>>}
    [] pc[p] = "create_push" -> {<<"_eventList", 0>>}
    [] pc[p] = "create_map"  -> {<<"_eventsMap", 0>>}
    [] pc[p] \in {"create_bump", "create_inc", "create_catch"} -> {<<"_nextEventId", 0>>}
    [] pc[p] = "rsvp_insert" -> {<<"_guestsNames", loc[p].event>>}
    [] pc[p] = "rsvp_push"   -> {<<"RSVP_List", loc[p].event>>}
    [] pc[p] = "unreg_sweep" /\ KeysAfter(loc[p].id) # {} ->
         {"_guestsNames", "RSVP_List"} \X {eventsMap[NextKey(loc[p].id)]}
    [] OTHER -> {}

ReadBy(p) ==
  CASE pc[p] \in {"reg_find", "unreg_find", "create_find", "rsvp_find",
                  "list_find", "top_find"} -> {<<"_clientsSet", 0>>}
    [] pc[p] \in {"create_exists", "rsvp_exists", "list_exists", "unreg_sweep"} ->
         {<<"_eventsMap", 0>>}
    [] pc[p] \in {"top_size", "top_read"} -> {<<"_eventList", 0>>}
    [] pc[p] = "rsvp_check" -> {<<"_guestsNames", loc[p].event>>}
    [] pc[p] = "list_copy"  -> {<<"RSVP_List", loc[p].event>>}
    [] OTHER -> {}

(* Another handler is at an update of what p is about to update.           *)
Overlaps(p) ==
  /\ "lost" \in RaceOutcomes
  /\ \E q \in Process \ {p} : Written(p) \cap Written(q) # {}

(* What may be stored by p's update of a structure from old to new.        *)
Stored(p, old, new) == {new} \cup (IF Overlaps(p) THEN {old} ELSE {})

(* Two threads are at the same container, one of them in an update.        *)
Crash ==
  /\ "crash" \in RaceOutcomes
  /\ \E p, q \in Process :
       /\ p # q
       /\ (Written(p) \cap (Written(q) \cup ReadBy(q))) \ {<<"_nextEventId", 0>>} # {}
  /\ crashed' = TRUE
  /\ UNCHANGED <<server, pc, loc, client, history>>

-----------------------------------------------------------------------------
At(p, label) == pc[p] = label
Goto(p, label) == pc' = [pc EXCEPT ![p] = label]

(* The response is written to the socket, and the emClient acts on it.     *)
Answer(p, result, id) ==
  /\ pc' = [pc EXCEPT ![p] = "idle"]
  /\ loc' = [loc EXCEPT ![p] = NoLocals]
  /\ accepted' = [accepted EXCEPT ![p] = IF result = "ACCEPTED" THEN {id} ELSE {}]
  /\ registered' =
       [registered EXCEPT ![p] = IF result = "REGISTERED" THEN TRUE
                                 ELSE IF result = "UNREGISTERED" THEN FALSE
                                 ELSE @]

(* The emClient sends a line its validateCommand has passed.               *)
Send(p, label, id) ==
  /\ At(p, "idle")
  /\ Goto(p, label)
  /\ loc' = [loc EXCEPT ![p].id = id]
  /\ accepted' = [accepted EXCEPT ![p] = {}]
  /\ UNCHANGED <<server, registered>>

PendingCreates == {p \in Process : pc[p] \in {"create_next", "create_find",
                     "create_exists", "create_bump", "create_reload", "create_new"}}

Request(p) ==
  \/ ~registered[p] /\ Send(p, "reg_find", 0)
  \/ registered[p] /\ Send(p, "unreg_find", 0)
  \/ /\ registered[p]
     /\ p \in Creator
     /\ Len(heap) + Cardinality(PendingCreates) < MaxEvents
     /\ Send(p, "create_next", 0)
  \/ /\ registered[p]
     /\ \A a \in DOMAIN heap : Len(heap[a].RSVP_List) < MaxAccepted
     /\ \E id \in RequestId : Send(p, "rsvp_find", id)
  \/ registered[p] /\ \E id \in RequestId : Send(p, "list_find", id)
  \/ registered[p] /\ Send(p, "top_size", 0)

(* The early return of a handler whose client is unknown.                  *)
Find(p, label, next) ==
  /\ At(p, label)
  /\ UNCHANGED server
  /\ \/ isClientExist(p) /\ Goto(p, next) /\ UNCHANGED <<loc, client>>
     \/ ~isClientExist(p) /\ Answer(p, "NOT_REGISTERED", 0)

-----------------------------------------------------------------------------
(* Faulty variant: the new name is stored as typed.                        *)
InsertClient_AsTyped(p) == clientsSet \cup {NameOf[p]}
InsertClient(p) == clientsSet \cup {UpperName(p)}

registerClient(p) ==
  \/ /\ At(p, "reg_find")
     /\ UNCHANGED server
     /\ \/ ~isClientExist(p) /\ Goto(p, "reg_insert") /\ UNCHANGED <<loc, client>>
        \/ isClientExist(p) /\ Answer(p, "ALREADY_REGISTERED", 0)
  \/ /\ At(p, "reg_insert")
     /\ clientsSet' \in Stored(p, clientsSet, InsertClient(p))
     /\ Answer(p, "REGISTERED", 0)
     /\ UNCHANGED <<eventsMap, eventList, nextEventId, heap>>

(* Faulty variant: the loop begins after the first event.                  *)
SweepStart_Late == IF eventsMap = <<>> THEN LowestId - 1 ELSE NextKey(LowestId - 1)
SweepStart == LowestId - 1

(* removeGuest works on the names of one guest in one event; no other      *)
(* guest's handler can tell its two erasures apart.                        *)
unregisterClient(p) ==
  \/ Find(p, "unreg_find", "unreg_erase")
  \/ /\ At(p, "unreg_erase")
     /\ clientsSet' \in Stored(p, clientsSet, clientsSet \ {UpperName(p)})
     /\ Goto(p, "unreg_sweep")
     /\ loc' = [loc EXCEPT ![p].id = SweepStart]
     /\ UNCHANGED <<eventsMap, eventList, nextEventId, heap, client>>
  \/ /\ At(p, "unreg_sweep")
     /\ KeysAfter(loc[p].id) # {}
     /\ LET key == NextKey(loc[p].id)
        IN  /\ heap' \in Stored(p, heap, [heap EXCEPT ![eventsMap[key]] =
                                            removeGuest(@, UpperName(p))])
            /\ loc' = [loc EXCEPT ![p].id = key]
     /\ UNCHANGED <<clientsSet, eventsMap, eventList, nextEventId, pc, client>>
  \/ /\ At(p, "unreg_sweep")
     /\ KeysAfter(loc[p].id) = {}
     /\ Answer(p, "UNREGISTERED", 0)
     /\ UNCHANGED server

(* Faulty variant: the event is put in the map first, in the list second.  *)
CreateSteps_MapFirst == <<"create_new", "create_map", "create_push", "create_inc">>
(* The order of what createEvent does once it has an id.                   *)
CreateSteps == <<"create_new", "create_push", "create_map", "create_inc">>
After(label) == CreateSteps[1 + CHOOSE i \in 1 .. 3 : CreateSteps[i] = label]

(* Faulty variant: the key is the id the handler began with.               *)
MapKey_Told(p) == loc[p].told
MapKey(p) == loc[p].id

NextIdTaken == isEventExist(nextEventId)

createEvent(p) ==
  \/ /\ At(p, "create_next")
     /\ loc' = [loc EXCEPT ![p].id = nextEventId, ![p].told = nextEventId]
     /\ Goto(p, "create_find")
     /\ UNCHANGED <<server, client>>
  \/ Find(p, "create_find", "create_exists")
  \/ /\ At(p, "create_exists")
     /\ Goto(p, IF NextIdTaken THEN "create_bump" ELSE CreateSteps[1])
     /\ UNCHANGED <<server, loc, client>>
  \/ /\ At(p, "create_bump")
     /\ nextEventId' \in Stored(p, nextEventId, nextEventId + 1)
     /\ Goto(p, "create_reload")
     /\ UNCHANGED <<clientsSet, eventsMap, eventList, heap, loc, client>>
  \/ /\ At(p, "create_reload")
     /\ loc' = [loc EXCEPT ![p].id = nextEventId]
     /\ Goto(p, CreateSteps[1])
     /\ UNCHANGED <<server, client>>
  \/ /\ At(p, "create_new")
     /\ \E title \in Title, info \in Info :
          heap' = Append(heap, NewEvent(NameOf[p], loc[p].id, title, info))
     /\ loc' = [loc EXCEPT ![p].event = Len(heap) + 1]
     /\ Goto(p, After("create_new"))
     /\ UNCHANGED <<clientsSet, eventsMap, eventList, nextEventId, client>>
  \/ /\ At(p, "create_push")
     /\ eventList' \in Stored(p, eventList, Append(eventList, loc[p].event))
     /\ Goto(p, After("create_push"))
     /\ UNCHANGED <<clientsSet, eventsMap, nextEventId, heap, loc, client>>
  \/ /\ At(p, "create_map")
     /\ eventsMap' \in Stored(p, eventsMap,
                                [k \in DOMAIN eventsMap \cup {MapKey(p)} |->
                                   IF k = MapKey(p) THEN loc[p].event ELSE eventsMap[k]])
     /\ Goto(p, After("create_map"))
     /\ UNCHANGED <<clientsSet, eventList, nextEventId, heap, loc, client>>
  \/ /\ At(p, "create_inc")
     /\ nextEventId' \in Stored(p, nextEventId, nextEventId + 1)
     /\ Answer(p, "CREATED", loc[p].told)
     /\ UNCHANGED <<clientsSet, eventsMap, eventList, heap>>

(* bad_alloc strikes in new, push_back, the insertion in the map, or       *)
(* (before the last step) the making of the response; then the catch block.*)
createEventFails(p) ==
  \/ /\ pc[p] \in AllocFailures
     /\ nextEventId - Cardinality({q \in Process : At(q, "create_catch")}) > LowestId
     /\ Goto(p, "create_catch")
     /\ UNCHANGED <<server, loc, client>>
  \/ /\ At(p, "create_catch")
     /\ nextEventId' \in Stored(p, nextEventId, nextEventId - 1)
     /\ Answer(p, "CANNOT_ALLOCATE", 0)
     /\ UNCHANGED <<clientsSet, eventsMap, eventList, heap>>

-----------------------------------------------------------------------------
InsertGuest(event, p) == [event EXCEPT !.guestsNames = @ \cup {UpperName(p)}]
PushGuest(event, p) == [event EXCEPT !.RSVP_List = Append(@, UpperName(p))]

(* sendRSVP, and the Event::registerClient it calls.                       *)
sendRSVP(p) ==
  \/ Find(p, "rsvp_find", "rsvp_exists")
  \/ /\ At(p, "rsvp_exists")
     /\ UNCHANGED server
     /\ \/ /\ isEventExist(loc[p].id)
           /\ loc' = [loc EXCEPT ![p].event = eventsMap[loc[p].id]]
           /\ Goto(p, "rsvp_check")
           /\ UNCHANGED client
        \/ ~isEventExist(loc[p].id) /\ Answer(p, "NO_EVENT", loc[p].id)
  \/ /\ At(p, "rsvp_check")
     /\ UNCHANGED server
     /\ \/ /\ isNewGuest(heap[loc[p].event], NameOf[p])
           /\ Goto(p, "rsvp_insert")
           /\ UNCHANGED <<loc, client>>
        \/ /\ ~isNewGuest(heap[loc[p].event], NameOf[p])
           /\ Answer(p, "ALREADY_SENT", loc[p].id)
  \/ /\ At(p, "rsvp_insert")
     /\ heap' \in Stored(p, heap, [heap EXCEPT ![loc[p].event] = InsertGuest(@, p)])
     /\ Goto(p, "rsvp_push")
     /\ UNCHANGED <<clientsSet, eventsMap, eventList, nextEventId, loc, client>>
  \/ /\ At(p, "rsvp_push")
     /\ heap' \in Stored(p, heap, [heap EXCEPT ![loc[p].event] = PushGuest(@, p)])
     /\ Answer(p, "ACCEPTED", loc[p].id)
     /\ UNCHANGED <<clientsSet, eventsMap, eventList, nextEventId>>

getRSVP_List(p) ==
  /\ UNCHANGED server
  /\ \/ Find(p, "list_find", "list_exists")
     \/ /\ At(p, "list_exists")
        /\ \/ /\ isEventExist(loc[p].id)
              /\ loc' = [loc EXCEPT ![p].event = eventsMap[loc[p].id]]
              /\ Goto(p, "list_copy")
              /\ UNCHANGED client
           \/ ~isEventExist(loc[p].id) /\ Answer(p, "NO_EVENT", loc[p].id)
     \/ /\ At(p, "list_copy")
        /\ Answer(p, "GUESTS", loc[p].id)

(* Faulty variant: one event too few once there are more than TopCount.    *)
firstIdx_OneLate(size) == IF size > TopCount THEN size - TopCount + 1 ELSE 0
firstIdx(size) == IF size > TopCount THEN size - TopCount ELSE 0

(* The size is read first, the end of the vector at every turn of the loop.*)
getTop5Events(p) ==
  /\ UNCHANGED server
  /\ \/ /\ At(p, "top_size")
        /\ loc' = [loc EXCEPT ![p].it = Len(eventList)]
        /\ Goto(p, "top_find")
        /\ UNCHANGED client
     \/ /\ At(p, "top_find")
        /\ \/ /\ isClientExist(p)
              /\ loc' = [loc EXCEPT ![p].it = firstIdx(@)]
              /\ Goto(p, "top_read")
              /\ UNCHANGED client
           \/ ~isClientExist(p) /\ Answer(p, "NOT_REGISTERED", 0)
     \/ /\ At(p, "top_read")
        /\ \/ /\ loc[p].it < Len(eventList)
              /\ loc' = [loc EXCEPT ![p].it = @ + 1, ![p].lines = @ + 1]
              /\ UNCHANGED <<pc, client>>
           \/ loc[p].it >= Len(eventList) /\ Answer(p, "TOP", 0)

handleClient(p) ==
  \/ registerClient(p) \/ unregisterClient(p) \/ createEvent(p) \/ createEventFails(p)
  \/ sendRSVP(p) \/ getRSVP_List(p) \/ getTop5Events(p)

(* The names that two emClients hold.                                      *)
HeldTwice ==
  {UpperName(p) : p \in {p \in Process :
     registered[p] /\ \E q \in Process \ {p} : registered[q] /\ UpperName(q) = UpperName(p)}}

Next ==
  /\ ~crashed
  /\ \/ \E p \in Process :
          /\ Request(p) \/ handleClient(p)
          /\ shared' = shared \cup HeldTwice'
          /\ overlapped' = overlapped \cup (IF Overlaps(p) THEN {UpperName(p)} ELSE {})
          /\ UNCHANGED crashed
     \/ Crash

Spec == Init /\ [][Next]_vars

-----------------------------------------------------------------------------
(* What the steps of one thread are in the middle of.                      *)
Leaving == {UpperName(p) : p \in {q \in Process : pc[q] = "unreg_sweep"}}
HalfAccepted(a) ==
  {UpperName(p) : p \in {q \in Process : pc[q] = "rsvp_push" /\ loc[q].event = a}}

(* Every variable holds a value of its C++ type, and every pointer kept in *)
(* a container or a local variable points at an Event.                     *)
TypeOK ==
  /\ clientsSet \subseteq Name
  /\ DOMAIN eventsMap \subseteq Int
  /\ \A id \in DOMAIN eventsMap : eventsMap[id] \in 1 .. Len(heap)
  /\ eventList \in Seq(1 .. Len(heap))
  /\ nextEventId \in Int
  /\ heap \in Seq(EventType)
  /\ \A p \in Process : loc[p].event \in 0 .. Len(heap)
  /\ registered \in [Process -> BOOLEAN]

(* The map finds under an id an event that was made with that id, however  *)
(* the handlers interleave and whatever updates are lost.                  *)
MapKeysAreEventIds ==
  \A id \in DOMAIN eventsMap : heap[eventsMap[id]].eventId = id

(* The names nothing is said of: nothing in the code keeps two emClients   *)
(* from holding one name (NameGivenOnce), nor updates from being lost.     *)
Disturbed == shared \cup overlapped

(* Who is on a guest list is registered, or is just being taken off the    *)
(* lists.  For one name the RSVP and the UNREGISTER may be requests of     *)
(* different emClients, one that leaves and one that takes the name while  *)
(* the sweep is under way: only then does an RSVP slip behind the sweep.   *)
GuestsAreRegistered ==
  \A id \in DOMAIN eventsMap :
    ToSet(heap[eventsMap[id]].RSVP_List) \subseteq clientsSet \cup Leaving \cup Disturbed

(* An emClient that was told SUCCESS is a client of the server until it    *)
(* asks to leave, though others are told the same of the name before it    *)
(* and after: as long as no two hold it at once, and no update of the set  *)
(* is lost, no other's UNREGISTER takes it away.                           *)
RegisteredMeansMember ==
  \A p \in Process :
    registered[p] => UpperName(p) \in clientsSet \cup Leaving \cup Disturbed

(* The set RSVPs are checked against and the list sent to clients agree    *)
(* but for the guests whose RSVP is between the two, and nobody is listed  *)
(* twice: what overlapping updates lose is lost for their own names only.  *)
GuestListsAgree ==
  \A a \in DOMAIN heap :
    LET list == heap[a].RSVP_List
    IN  /\ ToSet(list) \ Disturbed =
             (heap[a].guestsNames \ HalfAccepted(a)) \ Disturbed
        /\ \A i, j \in DOMAIN list : list[i] = list[j] => i = j \/ list[i] \in Disturbed

(* An event a client can accept is one that GET_TOP_5 counts, unless its   *)
(* creator's update of the list may have been lost.                        *)
ReachableEventsAreListed ==
  \A id \in DOMAIN eventsMap :
    \/ eventsMap[id] \in ToSet(eventList)
    \/ ToUpper[heap[eventsMap[id]].creator] \in overlapped

(* What GET_TOP_5 shows from its first event on to the end of the list is  *)
(* TopCount events or all there are, however the list grows meanwhile.     *)
TopIsComplete ==
  \A p \in Process :
    LET start == loc[p].it - loc[p].lines
    IN  pc[p] = "top_read" => start = 0 \/ Len(eventList) - start >= TopCount

(* Client.cpp, logRSVP_response: "RSVP to event id N was received          *)
(* successfully."  While the client stays, the event that the id names has *)
(* it on its list.                                                         *)
AcceptanceIsKept ==
  \A p \in Process : \A id \in accepted[p] :
    UpperName(p) \in ToSet(heap[eventsMap[id]].RSVP_List)

(* Client.cpp, logRegister_response: "if client tries to register with     *)
(* taken client name, it's program should exit".                           *)
NameGivenOnce ==
  \A p, q \in Process :
    p # q /\ registered[p] /\ registered[q] => UpperName(p) # UpperName(q)
=============================================================================
