---------------------------- MODULE ServerProofs ----------------------------
(***************************************************************************)
(* What holds of Server for any clients and any number of events.  Types,  *)
(* guest lists and keys stay right wherever an allocation fails in         *)
(* createEvent; the order of the ids, and the answers that name them, need *)
(* an assumption on AllocFailures, which their theorems state.  At the end *)
(* is what clients may rely on from one answer to the next: acceptances    *)
(* are only withdrawn by their guests, and the server, as long as no       *)
(* allocation fails, implements EventService.                              *)
(***************************************************************************)
EXTENDS Server, EventProofs, FiniteSetTheorems

-----------------------------------------------------------------------------
(***************************************************************************)
(* The inductive invariant: the types of what the server keeps, and what   *)
(* makes guest lists right.  The answers add nothing to it.  Leaving the   *)
(* lists takes one occurrence of a name out of each, so that a client who  *)
(* has left is on none only if no list holds a name twice: this is why     *)
(* GuestsAreRegistered needs GuestListsAgree beside it.                    *)
(***************************************************************************)
StateTypeOK ==
  /\ clientsSet \subseteq Name
  /\ DOMAIN eventsMap \subseteq Int
  /\ \A id \in DOMAIN eventsMap : eventsMap[id] \in 1 .. Len(eventList)
  /\ eventList \in Seq(EventType)
  /\ nextEventId \in Int
  /\ running \in BOOLEAN

StateInv ==
  /\ StateTypeOK
  /\ GuestsAreRegistered
  /\ GuestListsAgree
  /\ MapKeysAreEventIds

LEMMA InitStateInv == Init => StateInv
BY DEF Init, StateInv, StateTypeOK, GuestsAreRegistered, GuestListsAgree, MapKeysAreEventIds

LEMMA RegisterStateInv ==
  ASSUME StateInv, NEW c \in ClientName, registerClient(c), UNCHANGED running
  PROVE  StateInv'
<1>1. /\ clientsSet \subseteq clientsSet' /\ clientsSet' \subseteq Name
      /\ UNCHANGED <<eventsMap, eventList, nextEventId, running>>
  BY NameProperties DEF registerClient, state, StateInv, StateTypeOK
<1> QED
  BY <1>1 DEF StateInv, StateTypeOK, GuestsAreRegistered, GuestListsAgree,
              MapKeysAreEventIds, EventOf

LEMMA UnregisterStateInv ==
  ASSUME StateInv, NEW c \in ClientName, isClientExist(c),
         clientsSet' = clientsSet \ {ToUpper[c]},
         eventList' = removeClientFromEvents(ToUpper[c]),
         UNCHANGED <<eventsMap, nextEventId, running>>
  PROVE  StateInv'
<1> DEFINE u == ToUpper[c]
           Swept(i) == \E id \in DOMAIN eventsMap : eventsMap[id] = i
<1>1. u \in ClientName /\ ToUpper[u] = u
  BY NameProperties
<1>2. \A i \in DOMAIN eventList : eventList[i] \in EventType /\ GuestsAgree(eventList[i])
  BY DEF StateInv, StateTypeOK, GuestListsAgree
<1> HIDE DEF u
<1>3. /\ DOMAIN eventList' = DOMAIN eventList
      /\ \A i \in DOMAIN eventList :
           eventList'[i] = IF Swept(i) THEN removeGuest(eventList[i], u) ELSE eventList[i]
  BY DEF removeClientFromEvents, u
<1>4. ASSUME NEW i \in DOMAIN eventList
      PROVE  /\ eventList'[i] \in EventType
             /\ GuestsAgree(eventList'[i])
             /\ eventList'[i].eventId = eventList[i].eventId
             /\ Swept(i) => ToSet(eventList'[i].RSVP_List) = ToSet(eventList[i].RSVP_List) \ {u}
  <2>1. CASE Swept(i)
    <3>1. eventList'[i] = removeGuest(eventList[i], u)
      BY <1>3, <2>1
    <3>2. /\ removeGuest(eventList[i], u) \in EventType
          /\ GuestsAgree(removeGuest(eventList[i], u))
          /\ removeGuest(eventList[i], u).eventId = eventList[i].eventId
          /\ ToSet(removeGuest(eventList[i], u).RSVP_List) = ToSet(eventList[i].RSVP_List) \ {u}
      BY <1>1, <1>2, RemoveGuestProperties
    <3> QED
      BY <3>1, <3>2
  <2>2. CASE ~Swept(i)
    BY <1>2, <1>3, <2>2
  <2> QED
    BY <2>1, <2>2
<1>5. eventList' \in Seq(EventType) /\ Len(eventList') = Len(eventList)
  <2>1. DOMAIN eventList = 1 .. Len(eventList) /\ Len(eventList) \in Nat
    BY DEF StateInv, StateTypeOK
  <2> QED
    BY <1>3, <1>4, <2>1 DEF removeClientFromEvents
<1>6. StateTypeOK'
  BY <1>5 DEF StateInv, StateTypeOK
<1>7. GuestListsAgree'
  BY <1>3, <1>4 DEF GuestListsAgree
<1>8. ASSUME NEW id \in DOMAIN eventsMap
      PROVE  /\ eventsMap[id] \in DOMAIN eventList
             /\ Swept(eventsMap[id])
  BY DEF StateInv, StateTypeOK
<1>9. GuestsAreRegistered'
  BY <1>4, <1>8 DEF StateInv, GuestsAreRegistered, EventOf, u
<1>10. MapKeysAreEventIds'
  BY <1>4, <1>8 DEF StateInv, MapKeysAreEventIds, EventOf
<1> QED
  BY <1>6, <1>7, <1>9, <1>10 DEF StateInv

(* What createEvent and its catch block do to the list and the map.        *)
LEMMA StoreStateInv ==
  ASSUME StateInv, NEW c \in ClientName, NEW title \in Title, NEW info \in Info,
         eventList' = PushBack(c, title, info),
         eventsMap' \in {eventsMap, InsertInMap(eventIdToAssign, Len(eventList) + 1)},
         nextEventId' \in Int,
         UNCHANGED <<clientsSet, running>>
  PROVE  StateInv'
<1> DEFINE n == Len(eventList)
           id == eventIdToAssign
           e == NewEvent(c, id, title, info)
<1>1. n \in Nat /\ id \in Int /\ DOMAIN eventList = 1 .. n
  BY DEF StateInv, StateTypeOK, eventIdToAssign
<1>2. e \in EventType /\ e.eventId = id /\ GuestsAgree(e) /\ ToSet(e.RSVP_List) = {}
  BY <1>1, NewEventProperties
<1>3. eventList' = Append(eventList, e)
  BY DEF PushBack
<1> HIDE DEF e
<1>4. /\ eventList' \in Seq(EventType) /\ Len(eventList') = n + 1
      /\ \A i \in 1 .. n : eventList'[i] = eventList[i]
      /\ eventList'[n + 1] = e
  BY <1>1, <1>2, <1>3 DEF StateInv, StateTypeOK
<1>5. \A k \in DOMAIN eventsMap' :
        \/ k \in DOMAIN eventsMap /\ eventsMap'[k] = eventsMap[k]
        \/ k = id /\ eventsMap'[k] = n + 1
  BY DEF InsertInMap
<1>6. \A k \in DOMAIN eventsMap : eventsMap[k] \in 1 .. n
  BY DEF StateInv, StateTypeOK
<1> HIDE DEF n, id
<1>7. StateTypeOK'
  BY <1>1, <1>4, <1>5, <1>6 DEF StateInv, StateTypeOK
<1>8. GuestListsAgree'
  <2>1. ASSUME NEW i \in DOMAIN eventList'
        PROVE  GuestsAgree(eventList'[i])
    <3>1. i \in 1 .. n \/ i = n + 1
      BY <1>1, <1>4
    <3> QED
      BY <1>1, <1>2, <1>4, <3>1 DEF StateInv, GuestListsAgree
  <2> QED
    BY <2>1 DEF GuestListsAgree
<1>9. GuestsAreRegistered'
  BY <1>2, <1>4, <1>5, <1>6 DEF StateInv, GuestsAreRegistered, EventOf
<1>10. MapKeysAreEventIds'
  BY <1>2, <1>4, <1>5, <1>6 DEF StateInv, MapKeysAreEventIds, EventOf
<1> QED
  BY <1>7, <1>8, <1>9, <1>10 DEF StateInv

LEMMA AcceptStateInv ==
  ASSUME StateInv, NEW c \in ClientName, NEW id \in DOMAIN eventsMap,
         isClientExist(c), isNewGuest(EventOf(id), c),
         eventList' = [eventList EXCEPT ![eventsMap[id]] = AddGuest(@, c)],
         UNCHANGED <<clientsSet, eventsMap, nextEventId, running>>
  PROVE  StateInv'
<1> DEFINE k == eventsMap[id]
           e == AddGuest(eventList[k], c)
<1>1. k \in DOMAIN eventList /\ DOMAIN eventList = 1 .. Len(eventList)
  BY DEF StateInv, StateTypeOK
<1>2. /\ e \in EventType /\ GuestsAgree(e) /\ e.eventId = eventList[k].eventId
      /\ ToSet(e.RSVP_List) = ToSet(eventList[k].RSVP_List) \cup {ToUpper[c]}
  BY <1>1, AddGuestProperties DEF StateInv, StateTypeOK, GuestListsAgree, EventOf
<1> HIDE DEF e
<1>3. /\ eventList' \in Seq(EventType) /\ Len(eventList') = Len(eventList)
      /\ DOMAIN eventList' = DOMAIN eventList
      /\ \A i \in DOMAIN eventList : eventList'[i] = IF i = k THEN e ELSE eventList[i]
  BY <1>1, <1>2 DEF StateInv, StateTypeOK, e
<1> HIDE DEF k
<1>4. StateTypeOK'
  BY <1>3 DEF StateInv, StateTypeOK
<1>5. GuestListsAgree'
  BY <1>2, <1>3 DEF StateInv, GuestListsAgree
<1>6. \A i \in DOMAIN eventsMap : eventsMap[i] \in DOMAIN eventList
  BY <1>1 DEF StateInv, StateTypeOK
<1>7. GuestsAreRegistered'
  BY <1>2, <1>3, <1>6 DEF StateInv, GuestsAreRegistered, EventOf, isClientExist, k
<1>8. MapKeysAreEventIds'
  BY <1>2, <1>3, <1>6 DEF StateInv, MapKeysAreEventIds, EventOf
<1> QED
  BY <1>4, <1>5, <1>7, <1>8 DEF StateInv

LEMMA CreateStateInv ==
  ASSUME StateInv, NEW c \in ClientName, NEW title \in Title, NEW info \in Info,
         createEvent(c, title, info), UNCHANGED running
  PROVE  StateInv'
<1>1. eventIdToAssign \in Int
  BY DEF StateInv, StateTypeOK, eventIdToAssign
<1>2. /\ eventList' = PushBack(c, title, info)
      /\ eventsMap' = InsertInMap(eventIdToAssign, Len(eventList) + 1)
      /\ nextEventId' \in Int
      /\ UNCHANGED <<clientsSet, running>>
  BY <1>1 DEF createEvent
<1> QED
  BY <1>2, StoreStateInv

LEMMA CreateFailsStateInv ==
  ASSUME StateInv, NEW c \in ClientName, NEW title \in Title, NEW info \in Info,
         NEW at \in AllocFailures,
         createEventFails(c, title, info, at), UNCHANGED running
  PROVE  StateInv'
<1>1. eventIdToAssign \in Int
  BY DEF StateInv, StateTypeOK, eventIdToAssign
<1>2. nextEventId' \in Int /\ UNCHANGED <<clientsSet, running>>
  BY <1>1 DEF createEventFails
<1>3. CASE at = "event"
  <2>1. eventList' = eventList /\ eventsMap' = eventsMap
    BY <1>3 DEF createEventFails
  <2> QED
    BY <1>2, <2>1 DEF StateInv, StateTypeOK, GuestsAreRegistered, GuestListsAgree,
                      MapKeysAreEventIds, EventOf
<1>4. CASE at # "event"
  <2>1. /\ eventList' = PushBack(c, title, info)
        /\ eventsMap' \in {eventsMap, InsertInMap(eventIdToAssign, Len(eventList) + 1)}
    BY <1>4 DEF createEventFails
  <2> QED
    BY <1>2, <2>1, StoreStateInv
<1> QED
  BY <1>3, <1>4

LEMMA SameStateInv ==
  ASSUME StateInv, UNCHANGED <<state, running>>
  PROVE  StateInv'
BY DEF state, StateInv, StateTypeOK, GuestsAreRegistered, GuestListsAgree,
       MapKeysAreEventIds, EventOf

(* One step per handler.                                                   *)
LEMMA HandlerStateInv ==
  ASSUME StateInv, NEW c \in ClientName, parseCommand(c), UNCHANGED running
  PROVE  StateInv'
<1>1. CASE registerClient(c)
  BY <1>1, RegisterStateInv
<1>2. CASE unregisterClient(c)
  <2>1. CASE RejectUnregistered(c, "UNREGISTER", 0)
    BY <2>1, SameStateInv DEF RejectUnregistered
  <2>2. CASE ~RejectUnregistered(c, "UNREGISTER", 0)
    BY <1>2, <2>2, UnregisterStateInv DEF unregisterClient
  <2> QED
    BY <2>1, <2>2
<1>3. CASE \E title \in Title, info \in Info : createEvent(c, title, info)
  BY <1>3, CreateStateInv
<1>4. CASE \E title \in Title, info \in Info, at \in AllocFailures :
             createEventFails(c, title, info, at)
  BY <1>4, CreateFailsStateInv
<1>5. CASE RejectUnregistered(c, "CREATE", 0)
  BY <1>5, SameStateInv DEF RejectUnregistered
<1>6. CASE \E id \in RequestId : sendRSVP(c, id)
  <2> PICK id \in RequestId : sendRSVP(c, id)
    BY <1>6
  <2>1. CASE UNCHANGED state
    BY <2>1, SameStateInv
  <2>2. CASE ~UNCHANGED state
    <3>1. /\ isClientExist(c)
          /\ isEventExist(id)
          /\ isNewGuest(EventOf(id), c)
          /\ eventList' = [eventList EXCEPT ![eventsMap[id]] = AddGuest(@, c)]
          /\ UNCHANGED <<clientsSet, eventsMap, nextEventId, running>>
      BY <2>2 DEF sendRSVP, RejectUnregistered, state
    <3> QED
      BY <3>1, AcceptStateInv DEF isEventExist
  <2> QED
    BY <2>1, <2>2
<1>7. CASE \E id \in RequestId : getRSVP_List(c, id)
  BY <1>7, SameStateInv DEF getRSVP_List, RejectUnregistered
<1>8. CASE getTop5Events(c)
  BY <1>8, SameStateInv DEF getTop5Events, RejectUnregistered
<1>9. CASE withoutEffect(c)
  BY <1>9, SameStateInv DEF withoutEffect, illegalCommand, invalidArgument, exitCommand
<1> QED
  BY <1>1, <1>2, <1>3, <1>4, <1>5, <1>6, <1>7, <1>8, <1>9 DEF parseCommand

LEMMA ExitStateInv ==
  ASSUME StateInv, exitServer
  PROVE  StateInv'
<1>1. /\ clientsSet' = {} /\ eventsMap' = <<>> /\ eventList' = <<>>
      /\ nextEventId' = nextEventId /\ running' = FALSE
  BY DEF exitServer
<1>2. /\ <<>> \in Seq(EventType) /\ DOMAIN <<>> = {}
  OBVIOUS
<1>3. StateTypeOK'
  BY <1>1, <1>2 DEF StateInv, StateTypeOK
<1>4. GuestsAreRegistered' /\ MapKeysAreEventIds'
  BY <1>1, <1>2 DEF GuestsAreRegistered, MapKeysAreEventIds
<1>5. GuestListsAgree'
  BY <1>1, <1>2 DEF GuestListsAgree
<1> QED
  BY <1>3, <1>4, <1>5 DEF StateInv

LEMMA NextStateInv == StateInv /\ [Next]_vars => StateInv'
<1> SUFFICES ASSUME StateInv, [Next]_vars
             PROVE  StateInv'
  OBVIOUS
<1>1. ASSUME NEW c \in ClientName, handleClient(c)
      PROVE  StateInv'
  BY <1>1, HandlerStateInv DEF handleClient
<1>2. CASE exitServer
  BY <1>2, ExitStateInv
<1>3. CASE UNCHANGED vars
  BY <1>3, SameStateInv DEF vars
<1> QED
  BY <1>1, <1>2, <1>3 DEF Next

LEMMA StateInvariant == Spec => []StateInv
BY InitStateInv, NextStateInv, PTL DEF Spec

-----------------------------------------------------------------------------
(* Whoever is on a guest list that clients can ask for is registered: an   *)
(* UNREGISTER is never survived by an RSVP, whatever was allocated or not. *)
THEOREM GuestsStayRegistered == Spec => []GuestsAreRegistered
<1>1. StateInv => GuestsAreRegistered
  BY DEF StateInv
<1> QED
  BY <1>1, StateInvariant, PTL

(* The set and the list of the guests of an event agree for ever.          *)
THEOREM GuestListsStayEqual == Spec => []GuestListsAgree
<1>1. StateInv => GuestListsAgree
  BY DEF StateInv
<1> QED
  BY <1>1, StateInvariant, PTL

(* _eventsMap finds under an id only an event made with that id, even if   *)
(* creations failed half way.                                              *)
THEOREM MapFindsEventIds == Spec => []MapKeysAreEventIds
<1>1. StateInv => MapKeysAreEventIds
  BY DEF StateInv
<1> QED
  BY <1>1, StateInvariant, PTL

-----------------------------------------------------------------------------
(* Types: what remains is that every answer is one.                        *)
LEMMA ResponseType ==
  ASSUME NEW c \in ClientName, NEW command \in Command, NEW result \in Result,
         NEW id \in Int, Respond(c, command, result, id)
  PROVE  reply' \in Reply
<1>1. {} \in SUBSET Name /\ <<>> \in Seq(Line)
  OBVIOUS
<1> QED
  BY <1>1 DEF Respond, Reply

LEMMA NewestLinesType ==
  ASSUME eventList \in Seq(EventType)
  PROVE  NewestLines \in Seq(Line)
<1> DEFINE n == Len(eventList)
           first == firstIdx(n)
           m == n - first
<1>1. n \in Nat /\ first \in Nat /\ m \in Nat
  BY ServerAssumption DEF firstIdx
<1>2. ASSUME NEW i \in 1 .. m
      PROVE  toString(eventList[first + i]) \in Line
  <2>1. first + i \in 1 .. n
    BY <1>1
  <2>2. eventList[first + i] \in EventType
    BY <2>1
  <2> QED
    BY <2>2 DEF toString, Line, Shown, EventType
<1>3. NewestLines = [i \in 1 .. m |-> toString(eventList[first + i])]
  BY DEF NewestLines
<1> HIDE DEF m, first
<1> QED
  BY <1>1, <1>2, <1>3

LEMMA ReplyType ==
  ASSUME StateInv, NEW c \in ClientName, parseCommand(c)
  PROVE  reply' \in Reply
<1>1. RequestId \subseteq Int /\ nextEventId \in Int /\ 0 \in Int
  BY ServerAssumption DEF StateInv, StateTypeOK
<1>2. ASSUME NEW command \in Command, NEW id \in Int, RejectUnregistered(c, command, id)
      PROVE  reply' \in Reply
  BY <1>2, ResponseType DEF RejectUnregistered, Result
<1>3. CASE registerClient(c)
  BY <1>1, <1>3, ResponseType DEF registerClient, Command, Result
<1>4. CASE unregisterClient(c)
  BY <1>1, <1>2, <1>4, ResponseType DEF unregisterClient, Command, Result
<1>5. CASE \E title \in Title, info \in Info : createEvent(c, title, info)
  BY <1>1, <1>5, ResponseType DEF createEvent, eventIdStr, Command, Result
<1>6. CASE \E title \in Title, info \in Info, at \in AllocFailures :
             createEventFails(c, title, info, at)
  BY <1>1, <1>6, ResponseType DEF createEventFails, Command, Result
<1>7. CASE RejectUnregistered(c, "CREATE", 0)
  BY <1>1, <1>2, <1>7 DEF Command
<1>8. CASE \E id \in RequestId : sendRSVP(c, id)
  BY <1>1, <1>2, <1>8, ResponseType DEF sendRSVP, Command, Result
<1>9. ASSUME NEW id \in RequestId, getRSVP_List(c, id)
      PROVE  reply' \in Reply
  <2>1. CASE RejectUnregistered(c, "GET_RSVPS_LIST", id)
    BY <1>1, <1>2, <2>1 DEF Command
  <2>2. CASE ~isEventExist(id) /\ Respond(c, "GET_RSVPS_LIST", "NO_EVENT", id)
    BY <1>1, <2>2, ResponseType DEF Command, Result
  <2>3. CASE /\ isEventExist(id)
             /\ reply' = [to |-> c, command |-> "GET_RSVPS_LIST", result |-> "GUESTS",
                          id |-> id, guests |-> ToSet(EventOf(id).RSVP_List),
                          lines |-> <<>>]
    <3>1. EventOf(id) \in EventType
      BY <2>3 DEF isEventExist, EventOf, StateInv, StateTypeOK
    <3>2. EventOf(id).RSVP_List \in Seq(Name)
      BY <3>1 DEF EventType
    <3>3. ToSet(EventOf(id).RSVP_List) \in SUBSET Name /\ <<>> \in Seq(Line)
      BY <3>2 DEF ToSet
    <3> QED
      BY <1>1, <2>3, <3>3 DEF Reply, Command, Result
  <2> QED
    BY <1>9, <2>1, <2>2, <2>3 DEF getRSVP_List
<1>10. CASE getTop5Events(c)
  <2>1. CASE RejectUnregistered(c, "GET_TOP_5", 0)
    BY <1>1, <1>2, <2>1 DEF Command
  <2>2. CASE reply' = [to |-> c, command |-> "GET_TOP_5", result |-> "TOP",
                       id |-> 0, guests |-> {}, lines |-> NewestLines]
    <3>1. NewestLines \in Seq(Line)
      BY NewestLinesType DEF StateInv, StateTypeOK
    <3> QED
      BY <1>1, <2>2, <3>1 DEF Reply, Command, Result
  <2> QED
    BY <1>10, <2>1, <2>2 DEF getTop5Events
<1>11. CASE withoutEffect(c)
  BY <1>1, <1>11, ResponseType DEF withoutEffect, illegalCommand, invalidArgument, exitCommand, Command, Result
<1> QED
  BY <1>3, <1>4, <1>5, <1>6, <1>7, <1>8, <1>9, <1>10, <1>11 DEF parseCommand

(* Every variable keeps a value of its type: above all no pointer of       *)
(* _eventsMap ever points outside _eventList.                              *)
THEOREM TypeCorrect == Spec => []TypeOK
<1> DEFINE ReplyOK == reply \in Reply \cup {NoReply}
<1>1. Init => ReplyOK
  BY DEF Init
<1>2. StateInv /\ ReplyOK /\ [Next]_vars => ReplyOK'
  <2> SUFFICES ASSUME StateInv, ReplyOK, [Next]_vars
               PROVE  ReplyOK'
    OBVIOUS
  <2>1. ASSUME NEW c \in ClientName, handleClient(c)
        PROVE  ReplyOK'
    BY <2>1, ReplyType DEF handleClient
  <2>2. CASE exitServer
    BY <2>2 DEF exitServer, NoReply
  <2>3. CASE UNCHANGED vars
    BY <2>3 DEF vars, Reply, NoReply
  <2> QED
    BY <2>1, <2>2, <2>3 DEF Next
<1>3. StateInv /\ ReplyOK => TypeOK
  BY DEF StateInv, StateTypeOK, TypeOK
<1> QED
  BY <1>1, <1>2, <1>3, StateInvariant, PTL DEF Spec

-----------------------------------------------------------------------------
(***************************************************************************)
(* The ids, when an allocation may fail only before the event is stored.   *)
(* _nextEventId may then lag behind by one, so that the newest id is taken *)
(* when createEvent begins, but never by two: that is enough for its one   *)
(* check for a free id.                                                    *)
(***************************************************************************)
IdsInOrder ==
  /\ \A i \in DOMAIN eventList :
       /\ eventList[i].eventId \in DOMAIN eventsMap
       /\ eventsMap[eventList[i].eventId] = i
       /\ eventList[i].eventId <= nextEventId
  /\ NewestHasLargestId

OrderInv == StateInv /\ IdsInOrder

(* The id given to an event is larger than every id in use.                *)
LEMMA AssignedIdIsNew ==
  ASSUME OrderInv
  PROVE  /\ eventIdToAssign \in Int
         /\ eventIdToAssign \notin DOMAIN eventsMap
         /\ \A i \in DOMAIN eventList : eventList[i].eventId < eventIdToAssign
<1>1. /\ nextEventId \in Int
      /\ \A i \in DOMAIN eventList :
           eventList[i].eventId \in Int /\ eventList[i].eventId <= nextEventId
  BY DEF OrderInv, IdsInOrder, StateInv, StateTypeOK, EventType
<1>2. \A id \in DOMAIN eventsMap :
        eventsMap[id] \in DOMAIN eventList /\ eventList[eventsMap[id]].eventId = id
  BY DEF OrderInv, StateInv, StateTypeOK, MapKeysAreEventIds, EventOf
<1>3. CASE isEventExist(nextEventId)
  <2>1. eventIdToAssign = nextEventId + 1
    BY <1>3 DEF eventIdToAssign
  <2> QED
    BY <1>1, <1>2, <2>1
<1>4. CASE ~isEventExist(nextEventId)
  <2>1. eventIdToAssign = nextEventId /\ nextEventId \notin DOMAIN eventsMap
    BY <1>4 DEF eventIdToAssign, isEventExist
  <2>2. \A i \in DOMAIN eventList : eventList[i].eventId # nextEventId
    BY <2>1 DEF OrderInv, IdsInOrder
  <2> QED
    BY <1>1, <2>1, <2>2
<1> QED
  BY <1>3, <1>4

(* A step that keeps the ids, the map and the counter.                     *)
LEMMA SameIdsInOrder ==
  ASSUME IdsInOrder, UNCHANGED <<eventsMap, nextEventId>>,
         DOMAIN eventList' = DOMAIN eventList,
         \A i \in DOMAIN eventList : eventList'[i].eventId = eventList[i].eventId
  PROVE  IdsInOrder'
BY DEF IdsInOrder, NewestHasLargestId

LEMMA CreateIdsInOrder ==
  ASSUME OrderInv, NEW c \in ClientName, NEW title \in Title, NEW info \in Info,
         createEvent(c, title, info)
  PROVE  /\ IdsInOrder'
         /\ \A id \in DOMAIN eventsMap :
              id \in DOMAIN eventsMap' /\ eventsMap'[id] = eventsMap[id]
<1> DEFINE n == Len(eventList)
           new == eventIdToAssign
           e == NewEvent(c, new, title, info)
<1>1. /\ n \in Nat /\ DOMAIN eventList = 1 .. n /\ eventList \in Seq(EventType)
      /\ \A i \in 1 .. n : eventList[i].eventId \in Int
  <2>1. /\ n \in Nat /\ DOMAIN eventList = 1 .. n /\ eventList \in Seq(EventType)
        /\ \A i \in 1 .. n : eventList[i] \in EventType
    BY DEF OrderInv, StateInv, StateTypeOK
  <2> QED
    BY <2>1 DEF EventType
<1>2. /\ new \in Int /\ new \notin DOMAIN eventsMap
      /\ \A i \in 1 .. n : eventList[i].eventId < new
  BY <1>1, AssignedIdIsNew
<1>3. e \in EventType /\ e.eventId = new
  BY <1>2, NewEventProperties
<1>4. /\ eventList' = Append(eventList, e)
      /\ eventsMap' = InsertInMap(new, n + 1)
      /\ nextEventId' = new + 1
  BY DEF createEvent, PushBack
<1> HIDE DEF e, new, n
<1>5. /\ DOMAIN eventList' = 1 .. n + 1
      /\ \A i \in 1 .. n : eventList'[i] = eventList[i]
      /\ eventList'[n + 1].eventId = new
  BY <1>1, <1>3, <1>4 DEF n
<1>6. /\ DOMAIN eventsMap' = DOMAIN eventsMap \cup {new}
      /\ eventsMap'[new] = n + 1
      /\ \A id \in DOMAIN eventsMap : eventsMap'[id] = eventsMap[id]
  BY <1>2, <1>4 DEF InsertInMap
<1>7. ASSUME NEW i \in DOMAIN eventList'
      PROVE  /\ eventList'[i].eventId \in DOMAIN eventsMap'
             /\ eventsMap'[eventList'[i].eventId] = i
             /\ eventList'[i].eventId <= nextEventId'
  <2>1. CASE i = n + 1
    BY <1>2, <1>4, <1>5, <1>6, <2>1
  <2>2. CASE i \in 1 .. n
    <3>1. eventList[i].eventId \in DOMAIN eventsMap /\ eventsMap[eventList[i].eventId] = i
      BY <1>1, <2>2 DEF OrderInv, IdsInOrder
    <3> QED
      BY <1>1, <1>2, <1>4, <1>5, <1>6, <2>2, <3>1
  <2> QED
    BY <1>1, <1>5, <2>1, <2>2
<1>8. NewestHasLargestId'
  <2> SUFFICES ASSUME NEW i \in 1 .. n + 1, NEW j \in 1 .. n + 1, i < j
               PROVE  eventList'[i].eventId < eventList'[j].eventId
    BY <1>5 DEF NewestHasLargestId
  <2>1. i \in 1 .. n
    BY <1>1
  <2>2. CASE j = n + 1
    BY <1>2, <1>5, <2>1, <2>2
  <2>3. CASE j \in 1 .. n
    BY <1>1, <1>5, <2>1, <2>3 DEF OrderInv, IdsInOrder, NewestHasLargestId
  <2> QED
    BY <1>1, <2>2, <2>3
<1> QED
  BY <1>6, <1>7, <1>8 DEF IdsInOrder

(* The counter after a failed creation is still not below an id in use.    *)
LEMMA CreateFailsIdsInOrder ==
  ASSUME OrderInv, NEW c \in ClientName, NEW title \in Title, NEW info \in Info,
         createEventFails(c, title, info, "event")
  PROVE  IdsInOrder' /\ eventsMap' = eventsMap
<1>1. /\ eventList' = eventList /\ eventsMap' = eventsMap
      /\ nextEventId' = eventIdToAssign - 1
  BY DEF createEventFails
<1>2. \A i \in DOMAIN eventList :
        eventList[i].eventId \in Int /\ eventList[i].eventId < eventIdToAssign
  <2>1. \A i \in DOMAIN eventList : eventList[i] \in EventType
    BY DEF OrderInv, StateInv, StateTypeOK
  <2> QED
    BY <2>1, AssignedIdIsNew DEF EventType
<1>3. \A i \in DOMAIN eventList : eventList[i].eventId <= nextEventId'
  BY <1>1, <1>2, AssignedIdIsNew
<1> QED
  BY <1>1, <1>3 DEF OrderInv, IdsInOrder, NewestHasLargestId

LEMMA HandlerIdsInOrder ==
  ASSUME OrderInv, AllocFailures \subseteq {"event"}, NEW c \in ClientName, parseCommand(c)
  PROVE  /\ IdsInOrder'
         /\ \A id \in DOMAIN eventsMap :
              id \in DOMAIN eventsMap' /\ eventsMap'[id] = eventsMap[id]
<1>1. \A i \in DOMAIN eventList : eventList[i] \in EventType /\ GuestsAgree(eventList[i])
  BY DEF OrderInv, StateInv, StateTypeOK, GuestListsAgree
<1>2. CASE UNCHANGED <<eventsMap, eventList, nextEventId>>
  BY <1>2, SameIdsInOrder DEF OrderInv
<1>3. CASE registerClient(c)
  BY <1>2, <1>3 DEF registerClient, state
<1>4. CASE unregisterClient(c)
  <2>1. CASE RejectUnregistered(c, "UNREGISTER", 0)
    BY <1>2, <2>1 DEF RejectUnregistered, state
  <2>2. CASE /\ eventList' = removeClientFromEvents(ToUpper[c])
             /\ UNCHANGED <<eventsMap, nextEventId>>
    <3>1. ASSUME NEW i \in DOMAIN eventList
          PROVE  removeGuest(eventList[i], ToUpper[c]).eventId = eventList[i].eventId
      BY <1>1, NameProperties, RemoveGuestProperties
    <3>2. /\ DOMAIN eventList' = DOMAIN eventList
          /\ \A i \in DOMAIN eventList :
               eventList'[i] \in {eventList[i], removeGuest(eventList[i], ToUpper[c])}
      BY <2>2 DEF removeClientFromEvents
    <3>3. \A i \in DOMAIN eventList : eventList'[i].eventId = eventList[i].eventId
      BY <3>1, <3>2
    <3> QED
      BY <2>2, <3>2, <3>3, SameIdsInOrder DEF OrderInv
  <2> QED
    BY <1>4, <2>1, <2>2 DEF unregisterClient
<1>5. CASE \E title \in Title, info \in Info : createEvent(c, title, info)
  BY <1>5, CreateIdsInOrder
<1>6. CASE \E title \in Title, info \in Info, at \in AllocFailures :
             createEventFails(c, title, info, at)
  BY <1>6, CreateFailsIdsInOrder
<1>7. CASE RejectUnregistered(c, "CREATE", 0)
  BY <1>2, <1>7 DEF RejectUnregistered, state
<1>8. ASSUME NEW id \in RequestId, sendRSVP(c, id)
      PROVE  /\ IdsInOrder'
             /\ \A k \in DOMAIN eventsMap :
                  k \in DOMAIN eventsMap' /\ eventsMap'[k] = eventsMap[k]
  <2>1. CASE UNCHANGED state
    BY <1>2, <2>1 DEF state
  <2>2. CASE /\ isEventExist(id)
             /\ isNewGuest(EventOf(id), c)
             /\ eventList' = [eventList EXCEPT ![eventsMap[id]] = AddGuest(@, c)]
             /\ UNCHANGED <<eventsMap, nextEventId>>
    <3>1. eventsMap[id] \in DOMAIN eventList
      BY <2>2 DEF isEventExist, OrderInv, StateInv, StateTypeOK
    <3>2. AddGuest(eventList[eventsMap[id]], c).eventId = eventList[eventsMap[id]].eventId
      BY <1>1, <2>2, <3>1, AddGuestProperties DEF EventOf
    <3>3. \A i \in DOMAIN eventList : eventList'[i].eventId = eventList[i].eventId
      BY <2>2, <3>1, <3>2
    <3> QED
      BY <2>2, <3>3, SameIdsInOrder DEF OrderInv
  <2> QED
    BY <1>8, <2>1, <2>2 DEF sendRSVP, RejectUnregistered, state
<1>9. CASE \E id \in RequestId : getRSVP_List(c, id)
  BY <1>2, <1>9 DEF getRSVP_List, RejectUnregistered, state
<1>10. CASE getTop5Events(c)
  BY <1>2, <1>10 DEF getTop5Events, RejectUnregistered, state
<1>11. CASE withoutEffect(c)
  BY <1>2, <1>11 DEF withoutEffect, illegalCommand, invalidArgument, exitCommand, state
<1> QED
  BY <1>3, <1>4, <1>5, <1>6, <1>7, <1>8, <1>9, <1>10, <1>11 DEF parseCommand

LEMMA OrderInvariant ==
  ASSUME AllocFailures \subseteq {"event"}
  PROVE  Spec => []OrderInv
<1>1. Init => OrderInv
  BY InitStateInv DEF Init, OrderInv, IdsInOrder, NewestHasLargestId
<1>2. OrderInv /\ [Next]_vars => OrderInv'
  <2> SUFFICES ASSUME OrderInv, [Next]_vars
               PROVE  OrderInv'
    OBVIOUS
  <2>1. StateInv'
    BY NextStateInv DEF OrderInv
  <2>2. ASSUME NEW c \in ClientName, handleClient(c)
        PROVE  IdsInOrder'
    BY <2>2, HandlerIdsInOrder DEF handleClient
  <2>3. ASSUME exitServer
        PROVE  IdsInOrder'
    <3>1. eventList' = <<>> /\ DOMAIN <<>> = {}
      BY <2>3 DEF exitServer
    <3> QED
      BY <3>1 DEF IdsInOrder, NewestHasLargestId
  <2>4. ASSUME UNCHANGED vars
        PROVE  IdsInOrder'
    BY <2>4, SameIdsInOrder DEF vars, state, OrderInv
  <2> QED
    BY <2>1, <2>2, <2>3, <2>4 DEF Next, OrderInv
<1> QED
  BY <1>1, <1>2, PTL DEF Spec

(* Every event that GET_TOP_5 can show is found in the map, unless an      *)
(* allocation fails after the event was listed.                            *)
THEOREM ListedEventsStayReachable ==
  ASSUME AllocFailures \subseteq {"event"}
  PROVE  Spec => []ListedEventsAreReachable
<1>1. OrderInv => ListedEventsAreReachable
  BY DEF OrderInv, IdsInOrder, ListedEventsAreReachable
<1> QED
  BY <1>1, OrderInvariant, PTL

(* Later events have larger ids, although a failed allocation decrements   *)
(* the counter that was never incremented.                                 *)
THEOREM IdsGrow ==
  ASSUME AllocFailures \subseteq {"event"}
  PROVE  Spec => []NewestHasLargestId
<1>1. OrderInv => NewestHasLargestId
  BY DEF OrderInv, IdsInOrder
<1> QED
  BY <1>1, OrderInvariant, PTL

(* An id that was given never names another event while the server runs.   *)
THEOREM IdsKeepTheirEvent ==
  ASSUME AllocFailures \subseteq {"event"}
  PROVE  Spec => IdsNameOneEvent
<1>1. OrderInv /\ [Next]_vars => [running' => \A id \in DOMAIN eventsMap :
                                                 /\ id \in DOMAIN eventsMap'
                                                 /\ eventsMap'[id] = eventsMap[id]]_vars
  <2> SUFFICES ASSUME OrderInv, Next, running'
               PROVE  \A id \in DOMAIN eventsMap :
                        /\ id \in DOMAIN eventsMap'
                        /\ eventsMap'[id] = eventsMap[id]
    OBVIOUS
  <2>1. ASSUME NEW c \in ClientName, handleClient(c)
        PROVE  \A id \in DOMAIN eventsMap :
                 /\ id \in DOMAIN eventsMap'
                 /\ eventsMap'[id] = eventsMap[id]
    BY <2>1, HandlerIdsInOrder DEF handleClient
  <2>2. ~exitServer
    BY DEF exitServer
  <2> QED
    BY <2>1, <2>2 DEF Next
<1> QED
  BY <1>1, OrderInvariant, PTL DEF Spec, IdsNameOneEvent

-----------------------------------------------------------------------------
(***************************************************************************)
(* Without failed allocations the next id is always free, so that the id   *)
(* the answer named before it was looked for is the one that was given.    *)
(***************************************************************************)
NextIdIsFree == \A i \in DOMAIN eventList : eventList[i].eventId < nextEventId

AnswerInv == OrderInv /\ NextIdIsFree /\ ReportedIdIsAssigned

LEMMA HandlerAnswerInv ==
  ASSUME AnswerInv, AllocFailures = {}, NEW c \in ClientName, parseCommand(c)
  PROVE  NextIdIsFree' /\ ReportedIdIsAssigned'
<1>1. \A i \in DOMAIN eventList : eventList[i] \in EventType /\ GuestsAgree(eventList[i])
  BY DEF AnswerInv, OrderInv, StateInv, StateTypeOK, GuestListsAgree
<1>2. ~isEventExist(nextEventId)
  <2>1. \A id \in DOMAIN eventsMap :
          eventsMap[id] \in DOMAIN eventList /\ eventList[eventsMap[id]].eventId = id
    BY DEF AnswerInv, OrderInv, StateInv, StateTypeOK, MapKeysAreEventIds, EventOf
  <2>2. nextEventId \in Int
    BY DEF AnswerInv, OrderInv, StateInv, StateTypeOK
  <2> QED
    BY <2>1, <2>2 DEF AnswerInv, NextIdIsFree, isEventExist
<1>3. CASE UNCHANGED <<eventList, nextEventId>> /\ reply'.result # "CREATED"
  BY <1>3 DEF AnswerInv, NextIdIsFree, ReportedIdIsAssigned
<1>4. ASSUME NEW command \in Command, NEW id \in Int, RejectUnregistered(c, command, id)
      PROVE  NextIdIsFree' /\ ReportedIdIsAssigned'
  BY <1>3, <1>4 DEF RejectUnregistered, Respond, state
<1>5. RequestId \subseteq Int /\ 0 \in Int
  BY ServerAssumption
<1>6. CASE registerClient(c)
  BY <1>3, <1>6 DEF registerClient, Respond, state
<1>7. CASE unregisterClient(c)
  <2>1. CASE RejectUnregistered(c, "UNREGISTER", 0)
    BY <1>4, <1>5, <2>1 DEF Command
  <2>2. CASE /\ eventList' = removeClientFromEvents(ToUpper[c])
             /\ Respond(c, "UNREGISTER", "SUCCESS", 0)
             /\ UNCHANGED <<eventsMap, nextEventId>>
    <3>1. ASSUME NEW i \in DOMAIN eventList
          PROVE  removeGuest(eventList[i], ToUpper[c]).eventId = eventList[i].eventId
      BY <1>1, NameProperties, RemoveGuestProperties
    <3>2. /\ DOMAIN eventList' = DOMAIN eventList
          /\ \A i \in DOMAIN eventList :
               eventList'[i] \in {eventList[i], removeGuest(eventList[i], ToUpper[c])}
      BY <2>2 DEF removeClientFromEvents
    <3>3. \A i \in DOMAIN eventList : eventList'[i].eventId = eventList[i].eventId
      BY <3>1, <3>2
    <3>4. reply'.result # "CREATED"
      BY <2>2 DEF Respond
    <3> QED
      BY <2>2, <3>2, <3>3, <3>4 DEF AnswerInv, NextIdIsFree, ReportedIdIsAssigned
  <2> QED
    BY <1>7, <2>1, <2>2 DEF unregisterClient
<1>8. ASSUME NEW title \in Title, NEW info \in Info, createEvent(c, title, info)
      PROVE  NextIdIsFree' /\ ReportedIdIsAssigned'
  <2> DEFINE n == Len(eventList)
             e == NewEvent(c, nextEventId, title, info)
  <2>1. /\ n \in Nat /\ DOMAIN eventList = 1 .. n /\ eventList \in Seq(EventType)
        /\ nextEventId \in Int
    BY DEF AnswerInv, OrderInv, StateInv, StateTypeOK
  <2>2. eventIdToAssign = nextEventId
    BY <1>2 DEF eventIdToAssign
  <2>3. e \in EventType /\ e.eventId = nextEventId
    BY <2>1, NewEventProperties
  <2>4. /\ eventList' = Append(eventList, e)
        /\ eventsMap' = InsertInMap(nextEventId, n + 1)
        /\ nextEventId' = nextEventId + 1
        /\ reply'.id = nextEventId
    BY <1>8, <2>2 DEF createEvent, PushBack, Respond, eventIdStr
  <2> HIDE DEF e
  <2>5. /\ DOMAIN eventList' = 1 .. n + 1 /\ Len(eventList') = n + 1
        /\ \A i \in 1 .. n : eventList'[i] = eventList[i]
        /\ eventList'[n + 1].eventId = nextEventId
    BY <2>1, <2>3, <2>4
  <2> HIDE DEF n
  <2>6. NextIdIsFree'
    <3>1. \A i \in 1 .. n : eventList[i].eventId \in Int /\ eventList[i].eventId < nextEventId
      BY <1>1, <2>1 DEF AnswerInv, NextIdIsFree, EventType
    <3> SUFFICES ASSUME NEW i \in 1 .. n + 1
                 PROVE  eventList'[i].eventId < nextEventId'
      BY <2>5 DEF NextIdIsFree
    <3>2. CASE i = n + 1
      BY <2>1, <2>4, <2>5, <3>2
    <3>3. CASE i \in 1 .. n
      BY <2>1, <2>4, <2>5, <3>1, <3>3
    <3> QED
      BY <2>1, <3>2, <3>3
  <2>7. ReportedIdIsAssigned'
    BY <2>4, <2>5 DEF ReportedIdIsAssigned, isEventExist, InsertInMap
  <2> QED
    BY <2>6, <2>7
<1>9. CASE RejectUnregistered(c, "CREATE", 0)
  BY <1>4, <1>5, <1>9 DEF Command
<1>10. ASSUME NEW id \in RequestId, sendRSVP(c, id)
       PROVE  NextIdIsFree' /\ ReportedIdIsAssigned'
  <2>1. CASE UNCHANGED state
    <3>1. reply'.result # "CREATED"
      BY <1>10 DEF sendRSVP, RejectUnregistered, Respond
    <3> QED
      BY <1>3, <2>1, <3>1 DEF state
  <2>2. CASE /\ isEventExist(id)
             /\ isNewGuest(EventOf(id), c)
             /\ eventList' = [eventList EXCEPT ![eventsMap[id]] = AddGuest(@, c)]
             /\ Respond(c, "SEND_RSVP", "SUCCESS", id)
             /\ UNCHANGED <<eventsMap, nextEventId>>
    <3>1. eventsMap[id] \in DOMAIN eventList
      BY <2>2 DEF isEventExist, AnswerInv, OrderInv, StateInv, StateTypeOK
    <3>2. AddGuest(eventList[eventsMap[id]], c).eventId = eventList[eventsMap[id]].eventId
      BY <1>1, <2>2, <3>1, AddGuestProperties DEF EventOf
    <3>3. /\ DOMAIN eventList' = DOMAIN eventList
          /\ \A i \in DOMAIN eventList : eventList'[i].eventId = eventList[i].eventId
      BY <2>2, <3>1, <3>2
    <3>4. reply'.result # "CREATED"
      BY <2>2 DEF Respond
    <3> QED
      BY <2>2, <3>3, <3>4 DEF AnswerInv, NextIdIsFree, ReportedIdIsAssigned
  <2> QED
    BY <1>10, <2>1, <2>2 DEF sendRSVP, RejectUnregistered, state
<1>11. CASE \E id \in RequestId : getRSVP_List(c, id)
  BY <1>3, <1>11 DEF getRSVP_List, RejectUnregistered, Respond, state
<1>12. CASE getTop5Events(c)
  BY <1>3, <1>12 DEF getTop5Events, RejectUnregistered, Respond, state
<1>13. CASE withoutEffect(c)
  BY <1>3, <1>13 DEF withoutEffect, illegalCommand, invalidArgument, exitCommand, Respond, state
<1> QED
  BY <1>6, <1>7, <1>8, <1>9, <1>10, <1>11, <1>12, <1>13 DEF parseCommand

(* "Event id N was created successfully" names the new event, if no        *)
(* allocation has failed.                                                  *)
THEOREM ReportedIdsAreAssigned ==
  ASSUME AllocFailures = {}
  PROVE  Spec => []ReportedIdIsAssigned
<1>1. Init => NextIdIsFree /\ ReportedIdIsAssigned
  BY DEF Init, NextIdIsFree, ReportedIdIsAssigned
<1>2. OrderInv /\ NextIdIsFree /\ ReportedIdIsAssigned /\ [Next]_vars
        => NextIdIsFree' /\ ReportedIdIsAssigned'
  <2> SUFFICES ASSUME AnswerInv, [Next]_vars
               PROVE  NextIdIsFree' /\ ReportedIdIsAssigned'
    BY DEF AnswerInv
  <2>1. ASSUME NEW c \in ClientName, handleClient(c)
        PROVE  NextIdIsFree' /\ ReportedIdIsAssigned'
    BY <2>1, HandlerAnswerInv DEF handleClient
  <2>2. CASE exitServer
    <3>1. eventList' = <<>> /\ DOMAIN <<>> = {} /\ running' = FALSE
      BY <2>2 DEF exitServer
    <3> QED
      BY <3>1 DEF NextIdIsFree, ReportedIdIsAssigned
  <2>3. CASE UNCHANGED vars
    BY <2>3 DEF vars, state, AnswerInv, NextIdIsFree, ReportedIdIsAssigned, isEventExist
  <2> QED
    BY <2>1, <2>2, <2>3 DEF Next
<1>3. Spec => []OrderInv
  BY OrderInvariant
<1> QED
  BY <1>1, <1>2, <1>3, PTL DEF Spec

-----------------------------------------------------------------------------
(* Acceptances.                                                            *)
LEMMA HandlerWithdrawals ==
  ASSUME OrderInv, AllocFailures \subseteq {"event"}, NEW c \in ClientName, parseCommand(c)
  PROVE  \A i \in DOMAIN eventList :
           \A guest \in ToSet(eventList[i].RSVP_List) \ ToSet(eventList'[i].RSVP_List) :
             reply'.command = "UNREGISTER" /\ ToUpper[reply'.to] = guest
<1> DEFINE Kept == \A i \in DOMAIN eventList :
                     ToSet(eventList[i].RSVP_List) \subseteq ToSet(eventList'[i].RSVP_List)
<1>1. /\ DOMAIN eventList = 1 .. Len(eventList)
      /\ eventList \in Seq(EventType)
      /\ \A i \in DOMAIN eventList : eventList[i] \in EventType /\ GuestsAgree(eventList[i])
  BY DEF OrderInv, StateInv, StateTypeOK, GuestListsAgree
<1>2. CASE UNCHANGED eventList
  BY <1>2
<1>3. CASE registerClient(c)
  BY <1>2, <1>3 DEF registerClient, state
<1>4. CASE unregisterClient(c)
  <2>1. CASE RejectUnregistered(c, "UNREGISTER", 0)
    BY <1>2, <2>1 DEF RejectUnregistered, state
  <2>2. CASE /\ eventList' = removeClientFromEvents(ToUpper[c])
             /\ Respond(c, "UNREGISTER", "SUCCESS", 0)
    <3> DEFINE u == ToUpper[c]
    <3>0. u \in ClientName /\ ToUpper[u] = u
      BY NameProperties
    <3> HIDE DEF u
    <3>1. ASSUME NEW i \in DOMAIN eventList
          PROVE  ToSet(removeGuest(eventList[i], u).RSVP_List)
                   = ToSet(eventList[i].RSVP_List) \ {u}
      <4>1. eventList[i] \in EventType /\ GuestsAgree(eventList[i])
        BY <1>1
      <4> QED
        BY <3>0, <4>1, RemoveGuestProperties
    <3>2. \A i \in DOMAIN eventList :
            eventList'[i] \in {eventList[i], removeGuest(eventList[i], u)}
      BY <2>2 DEF removeClientFromEvents, u
    <3>3. reply'.command = "UNREGISTER" /\ reply'.to = c
      BY <2>2 DEF Respond
    <3> QED
      BY <3>1, <3>2, <3>3 DEF u
  <2> QED
    BY <1>4, <2>1, <2>2 DEF unregisterClient
<1>5. CASE \E title \in Title, info \in Info : createEvent(c, title, info)
  <2> PICK title \in Title, info \in Info : createEvent(c, title, info)
    BY <1>5
  <2>1. eventIdToAssign \in Int
    BY AssignedIdIsNew
  <2>2. NewEvent(c, eventIdToAssign, title, info) \in EventType
    BY <2>1, NewEventProperties
  <2>3. \A i \in DOMAIN eventList : eventList'[i] = eventList[i]
    BY <1>1, <2>2 DEF createEvent, PushBack
  <2> QED
    BY <2>3
<1>6. CASE \E title \in Title, info \in Info, at \in AllocFailures :
             createEventFails(c, title, info, at)
  BY <1>2, <1>6 DEF createEventFails
<1>7. CASE RejectUnregistered(c, "CREATE", 0)
  BY <1>2, <1>7 DEF RejectUnregistered, state
<1>8. ASSUME NEW id \in RequestId, sendRSVP(c, id)
      PROVE  Kept
  <2>1. CASE UNCHANGED eventList
    BY <2>1
  <2>2. CASE /\ isEventExist(id)
             /\ isNewGuest(EventOf(id), c)
             /\ eventList' = [eventList EXCEPT ![eventsMap[id]] = AddGuest(@, c)]
    <3>1. eventsMap[id] \in DOMAIN eventList
      BY <2>2 DEF isEventExist, OrderInv, StateInv, StateTypeOK
    <3>2. ToSet(AddGuest(eventList[eventsMap[id]], c).RSVP_List)
            = ToSet(eventList[eventsMap[id]].RSVP_List) \cup {ToUpper[c]}
      BY <1>1, <2>2, <3>1, AddGuestProperties DEF EventOf
    <3> QED
      BY <2>2, <3>1, <3>2
  <2> QED
    BY <1>8, <2>1, <2>2 DEF sendRSVP, RejectUnregistered, state
<1>9. CASE \E id \in RequestId : getRSVP_List(c, id)
  BY <1>2, <1>9 DEF getRSVP_List, RejectUnregistered, state
<1>10. CASE getTop5Events(c)
  BY <1>2, <1>10 DEF getTop5Events, RejectUnregistered, state
<1>11. CASE withoutEffect(c)
  BY <1>2, <1>11 DEF withoutEffect, illegalCommand, invalidArgument, exitCommand, state
<1> QED
  BY <1>3, <1>4, <1>5, <1>6, <1>7, <1>8, <1>9, <1>10, <1>11 DEF parseCommand

(* A guest leaves the list an id names only in the step that answers the   *)
(* guest's own UNREGISTER, in whatever spelling it was registered: no      *)
(* handler of another client's request takes an acceptance back.           *)
THEOREM GuestsWithdrawThemselves ==
  ASSUME AllocFailures \subseteq {"event"}
  PROVE  Spec => OnlyGuestsWithdraw
<1> DEFINE Own == \A id \in DOMAIN eventsMap :
                    \A guest \in ToSet(EventOf(id).RSVP_List) \ ToSet(EventOf(id)'.RSVP_List) :
                      /\ reply'.command = "UNREGISTER"
                      /\ ToUpper[reply'.to] = guest
<1>1. OrderInv /\ [Next]_vars => [running' => Own]_vars
  <2> SUFFICES ASSUME OrderInv, Next, running'
               PROVE  Own
    OBVIOUS
  <2>1. ASSUME NEW c \in ClientName, handleClient(c)
        PROVE  Own
    <3>1. parseCommand(c)
      BY <2>1 DEF handleClient
    <3>2. \A id \in DOMAIN eventsMap : eventsMap'[id] = eventsMap[id]
      BY <3>1, HandlerIdsInOrder
    <3>3. \A id \in DOMAIN eventsMap : eventsMap[id] \in DOMAIN eventList
      BY DEF OrderInv, StateInv, StateTypeOK
    <3> QED
      BY <3>1, <3>2, <3>3, HandlerWithdrawals DEF EventOf
  <2>2. ~exitServer
    BY DEF exitServer
  <2> QED
    BY <2>1, <2>2 DEF Next
<1> QED
  BY <1>1, OrderInvariant, PTL DEF Spec, OnlyGuestsWithdraw

-----------------------------------------------------------------------------
(***************************************************************************)
(* The refinement.  Without failed allocations the ids are the positions   *)
(* in _eventList: this is what makes the id that createEvent names, before *)
(* it has looked for a free one, the id of the new meeting, and the end of *)
(* the list the newest meetings.                                           *)
(***************************************************************************)
Numbered ==
  /\ DOMAIN eventsMap = DOMAIN eventList
  /\ \A i \in DOMAIN eventList : eventsMap[i] = i /\ eventList[i].eventId = i
  /\ running => nextEventId = Len(eventList) + 1

NumberedInv == StateInv /\ Numbered

LEMMA NumberedProperties ==
  ASSUME NumberedInv
  PROVE  /\ Len(eventList) \in Nat
         /\ DOMAIN eventList = 1 .. Len(eventList)
         /\ DOMAIN eventsMap = 1 .. Len(eventList)
         /\ \A i \in 1 .. Len(eventList) :
              /\ eventList[i] \in EventType
              /\ GuestsAgree(eventList[i])
              /\ eventsMap[i] = i
              /\ eventList[i].eventId = i
BY DEF NumberedInv, Numbered, StateInv, StateTypeOK, GuestListsAgree

(* What the service calls a meeting, of an event.                          *)
MeetingOf(event) ==
  [by |-> event.creator, title |-> event.title, info |-> event.info,
   guests |-> event.guestsNames]

MeetingsTable ==
  /\ Meetings = [i \in 1 .. Len(eventList) |-> MeetingOf(eventList[i])]
  /\ Order = [i \in 1 .. Len(eventList) |-> i]

LEMMA MeetingsProperties == NumberedInv => MeetingsTable
BY NumberedProperties DEF MeetingsTable, Meetings, Order, MeetingOf, EventOf

LEMMA NextMeetingsProperties == NumberedInv' => MeetingsTable'
BY MeetingsProperties, PTL

LEMMA SameMeetings ==
  ASSUME UNCHANGED <<eventsMap, eventList>>
  PROVE  UNCHANGED <<Meetings, Order>>
BY DEF Meetings, Order, EventOf

LEMMA AddGuestMeeting ==
  ASSUME NEW e \in EventType, NEW g \in ClientName
  PROVE  MeetingOf(AddGuest(e, g)) = [MeetingOf(e) EXCEPT !.guests = @ \cup {ToUpper[g]}]
<1> DEFINE guests == e.guestsNames \cup {ToUpper[g]}
<1>1. /\ AddGuest(e, g).creator = e.creator /\ AddGuest(e, g).title = e.title
      /\ AddGuest(e, g).info = e.info /\ AddGuest(e, g).guestsNames = guests
  BY DEF AddGuest, EventType
<1> QED
  BY <1>1 DEF MeetingOf

LEMMA RemoveGuestMeeting ==
  ASSUME NEW e \in EventType, NEW g \in ClientName
  PROVE  MeetingOf(removeGuest(e, g)) = [MeetingOf(e) EXCEPT !.guests = @ \ {ToUpper[g]}]
<1> DEFINE guests == e.guestsNames \ {ToUpper[g]}
<1>1. CASE isNewGuest(e, g)
  <2>1. guests = e.guestsNames
    BY <1>1 DEF isNewGuest
  <2>2. removeGuest(e, g) = e
    BY <1>1 DEF removeGuest
  <2> QED
    BY <2>1, <2>2 DEF MeetingOf
<1>2. CASE ~isNewGuest(e, g)
  <2> DEFINE rest == RemoveFirst(e.RSVP_List, ToUpper[g])
  <2>1. removeGuest(e, g) = [e EXCEPT !.guestsNames = guests, !.RSVP_List = rest]
    BY <1>2 DEF removeGuest
  <2> HIDE DEF rest
  <2>2. /\ removeGuest(e, g).creator = e.creator /\ removeGuest(e, g).title = e.title
        /\ removeGuest(e, g).info = e.info /\ removeGuest(e, g).guestsNames = guests
    BY <2>1 DEF EventType
  <2>3. MeetingOf(e).guests \ {ToUpper[g]} = guests
    BY DEF MeetingOf
  <2> HIDE DEF guests
  <2>4. MeetingOf(removeGuest(e, g)) = [MeetingOf(e) EXCEPT !.guests = guests]
    BY <2>2 DEF MeetingOf
  <2> QED
    BY <2>3, <2>4
<1> QED
  BY <1>1, <1>2

LEMMA RejectRefines ==
  ASSUME Numbered, UNCHANGED running,
         NEW c \in ClientName, NEW command, NEW id, RejectUnregistered(c, command, id)
  PROVE  Numbered' /\ Service!TurnAway(c, command, id)
<1>1. UNCHANGED <<Meetings, Order>>
  BY SameMeetings DEF RejectUnregistered, state
<1> QED
  BY <1>1 DEF RejectUnregistered, Respond, state, isClientExist, Numbered,
              Service!TurnAway, Service!Says, Service!Member

LEMMA RegisterRefines ==
  ASSUME Numbered, UNCHANGED running, NEW c \in ClientName, registerClient(c)
  PROVE  Numbered' /\ Service!Join(c)
<1>1. UNCHANGED <<eventsMap, eventList, nextEventId>>
  BY DEF registerClient, state
<1>2. UNCHANGED <<Meetings, Order>>
  BY <1>1, SameMeetings
<1>3. Numbered'
  BY <1>1 DEF Numbered
<1> QED
  BY <1>2, <1>3 DEF registerClient, Respond, state, isClientExist,
              Service!Join, Service!Says, Service!Member

LEMMA UnregisterRefines ==
  ASSUME NumberedInv, NumberedInv', UNCHANGED running, NEW c \in ClientName,
         unregisterClient(c)
  PROVE  Service!Leave(c)
<1>1. CASE RejectUnregistered(c, "UNREGISTER", 0)
  BY <1>1, RejectRefines DEF NumberedInv, Service!Leave
<1>2. CASE /\ isClientExist(c)
           /\ clientsSet' = clientsSet \ {ToUpper[c]}
           /\ eventList' = removeClientFromEvents(ToUpper[c])
           /\ Respond(c, "UNREGISTER", "SUCCESS", 0)
           /\ UNCHANGED eventsMap
  <2> DEFINE n == Len(eventList)
             u == ToUpper[c]
  <2>1. u \in ClientName /\ ToUpper[u] = u
    BY NameProperties
  <2>2. /\ n \in Nat /\ DOMAIN eventList = 1 .. n /\ DOMAIN eventsMap = 1 .. n
        /\ \A i \in 1 .. n : eventList[i] \in EventType /\ eventsMap[i] = i
    BY NumberedProperties
  <2> HIDE DEF u
  <2>3. /\ DOMAIN eventList' = 1 .. n
        /\ \A i \in 1 .. n : eventList'[i] = removeGuest(eventList[i], u)
    BY <1>2, <2>2 DEF removeClientFromEvents, u
  <2>4. Len(eventList') = n
    BY <2>3, NumberedProperties DEF NumberedInv, StateInv, StateTypeOK
  <2>5. /\ Meetings = [i \in 1 .. n |-> MeetingOf(eventList[i])]
        /\ Order = [i \in 1 .. n |-> i]
    BY MeetingsProperties DEF MeetingsTable
  <2>6. /\ Meetings' = [i \in 1 .. n |-> MeetingOf(eventList'[i])]
        /\ Order' = [i \in 1 .. n |-> i]
    BY <2>4, NextMeetingsProperties DEF MeetingsTable, MeetingOf
  <2>7. \A i \in 1 .. n :
          MeetingOf(eventList'[i]) = [MeetingOf(eventList[i]) EXCEPT !.guests = @ \ {u}]
    BY <2>1, <2>2, <2>3, RemoveGuestMeeting
  <2>8. Meetings' = [i \in DOMAIN Meetings |->
                       [Meetings[i] EXCEPT !.guests = @ \ {u}]]
    BY <2>5, <2>6, <2>7
  <2> QED
    BY <1>2, <2>5, <2>6, <2>8 DEF u, Respond, isClientExist,
       Service!Leave, Service!Says, Service!Member
<1> QED
  BY <1>1, <1>2 DEF unregisterClient

LEMMA CreateRefines ==
  ASSUME NumberedInv, running, NumberedInv', UNCHANGED running,
         NEW c \in ClientName, NEW title \in Title, NEW info \in Info,
         createEvent(c, title, info)
  PROVE  Service!Announce(c, title, info)
<1> DEFINE n == Len(eventList)
           e == NewEvent(c, n + 1, title, info)
           table == [i \in 1 .. n |-> MeetingOf(eventList[i])]
<1>1. /\ n \in Nat /\ DOMAIN eventList = 1 .. n /\ DOMAIN eventsMap = 1 .. n
      /\ eventList \in Seq(EventType) /\ nextEventId = n + 1
  BY NumberedProperties DEF NumberedInv, Numbered, StateInv, StateTypeOK
<1>2. ~isEventExist(nextEventId)
  BY <1>1 DEF isEventExist
<1>3. eventIdToAssign = n + 1 /\ eventIdStr = n + 1
  BY <1>1, <1>2 DEF eventIdToAssign, eventIdStr
<1>4. e \in EventType /\ MeetingOf(e) = [by |-> c, title |-> title, info |-> info, guests |-> {}]
  BY <1>1, NewEventProperties DEF MeetingOf, NewEvent
<1>5. eventList' = Append(eventList, e)
  BY <1>3 DEF createEvent, PushBack
<1> HIDE DEF e
<1>6. /\ Len(eventList') = n + 1
      /\ \A i \in 1 .. n : eventList'[i] = eventList[i]
      /\ eventList'[n + 1] = e
  BY <1>1, <1>4, <1>5
<1>7. Meetings = table /\ Order = [i \in 1 .. n |-> i]
  BY MeetingsProperties DEF MeetingsTable
<1>8. /\ Meetings' = [i \in 1 .. n + 1 |-> MeetingOf(eventList'[i])]
      /\ Order' = [i \in 1 .. n + 1 |-> i]
  BY <1>6, NextMeetingsProperties DEF MeetingsTable, MeetingOf
<1>9. Order' = Append(Order, n + 1)
  <2>1. [i \in 1 .. n |-> i] \in Seq(Nat) /\ Len([i \in 1 .. n |-> i]) = n
    BY <1>1
  <2> QED
    BY <1>1, <1>7, <1>8, <2>1
<1>10. Meetings' = [i \in DOMAIN Meetings \cup {n + 1} |->
                      IF i \in DOMAIN Meetings THEN Meetings[i]
                      ELSE [by |-> c, title |-> title, info |-> info, guests |-> {}]]
  <2>1. DOMAIN Meetings \cup {n + 1} = 1 .. n + 1
    BY <1>1, <1>7
  <2>2. ASSUME NEW i \in 1 .. n + 1
        PROVE  MeetingOf(eventList'[i]) = IF i \in DOMAIN Meetings THEN Meetings[i]
                                                                    ELSE MeetingOf(e)
    BY <1>1, <1>6, <1>7
  <2> QED
    BY <1>4, <1>8, <2>1, <2>2
<1>11. n + 1 \in 1 .. MaxEvents
  BY <1>1, ServerAssumption DEF createEvent
<1>12. \A old \in DOMAIN Meetings : old < n + 1
  BY <1>1, <1>7
<1>13. reply' = [to |-> c, command |-> "CREATE", result |-> "CREATED",
                 id |-> n + 1, guests |-> {}, lines |-> <<>>]
  BY <1>3 DEF createEvent, Respond
<1> HIDE DEF n, table
<1> QED
  BY <1>9, <1>10, <1>11, <1>12, <1>13
     DEF createEvent, isClientExist, Service!Announce, Service!Says, Service!Member

LEMMA AcceptRefines ==
  ASSUME NumberedInv, NumberedInv', UNCHANGED running, NEW c \in ClientName,
         NEW id \in RequestId, sendRSVP(c, id)
  PROVE  Service!Accept(c, id)
<1> DEFINE n == Len(eventList)
           u == ToUpper[c]
<1>1. /\ n \in Nat /\ DOMAIN eventList = 1 .. n /\ DOMAIN eventsMap = 1 .. n
      /\ \A i \in 1 .. n : eventList[i] \in EventType /\ eventsMap[i] = i
  BY NumberedProperties
<1>2. /\ Meetings = [i \in 1 .. n |-> MeetingOf(eventList[i])]
      /\ Order = [i \in 1 .. n |-> i]
  BY MeetingsProperties DEF MeetingsTable
<1>3. isEventExist(id) <=> id \in DOMAIN Meetings
  BY <1>1, <1>2 DEF isEventExist
<1>4. ASSUME id \in DOMAIN Meetings
      PROVE  /\ EventOf(id) = eventList[id] /\ eventsMap[id] = id
             /\ Meetings[id].guests = eventList[id].guestsNames
  BY <1>1, <1>2, <1>4 DEF EventOf, MeetingOf
<1>5. CASE RejectUnregistered(c, "SEND_RSVP", id)
  BY <1>5, RejectRefines DEF NumberedInv, Service!Accept
<1>6. CASE /\ isClientExist(c)
           /\ ~isEventExist(id)
           /\ Respond(c, "SEND_RSVP", "NO_EVENT", id)
           /\ UNCHANGED <<clientsSet, eventsMap, eventList>>
  <2>1. UNCHANGED <<Meetings, Order>>
    BY <1>6, SameMeetings
  <2> QED
    BY <1>3, <1>6, <2>1 DEF Respond, isClientExist, Service!Accept, Service!Says, Service!Member
<1>7. CASE /\ isClientExist(c)
           /\ isEventExist(id)
           /\ ~isNewGuest(EventOf(id), c)
           /\ Respond(c, "SEND_RSVP", "ALREADY_SENT", id)
           /\ UNCHANGED <<clientsSet, eventsMap, eventList>>
  <2>1. UNCHANGED <<Meetings, Order>>
    BY <1>7, SameMeetings
  <2>2. u \in Meetings[id].guests
    BY <1>3, <1>4, <1>7 DEF isNewGuest
  <2>3. Meetings[id].guests \cup {u} = Meetings[id].guests
    BY <2>2
  <2>4. Meetings' = [Meetings EXCEPT ![id].guests = @ \cup {u}]
    <3>1. Meetings[id] = [Meetings[id] EXCEPT !.guests = Meetings[id].guests]
      BY <1>2, <1>3, <1>7 DEF MeetingOf
    <3> QED
      BY <1>2, <2>1, <2>3, <3>1
  <2> QED
    BY <1>3, <1>7, <2>1, <2>2, <2>4
       DEF Respond, isClientExist, Service!Accept, Service!Says, Service!Member
<1>8. CASE /\ isClientExist(c)
           /\ isEventExist(id)
           /\ isNewGuest(EventOf(id), c)
           /\ eventList' = [eventList EXCEPT ![eventsMap[id]] = AddGuest(@, c)]
           /\ Respond(c, "SEND_RSVP", "SUCCESS", id)
           /\ UNCHANGED <<clientsSet, eventsMap>>
  <2>1. id \in 1 .. n /\ eventsMap[id] = id
    BY <1>1, <1>8 DEF isEventExist
  <2>2. u \notin Meetings[id].guests
    BY <1>3, <1>4, <1>8 DEF isNewGuest
  <2>3. eventList' = [eventList EXCEPT ![id] = AddGuest(eventList[id], c)]
    BY <1>8, <2>1
  <2>4. Len(eventList') = n
    BY <2>3 DEF NumberedInv, StateInv, StateTypeOK
  <2>5. /\ Meetings' = [i \in 1 .. n |-> MeetingOf(eventList'[i])]
        /\ Order' = [i \in 1 .. n |-> i]
    BY <2>4, NextMeetingsProperties DEF MeetingsTable, MeetingOf
  <2>6. MeetingOf(eventList'[id]) = [MeetingOf(eventList[id]) EXCEPT !.guests = @ \cup {u}]
    BY <1>1, <2>1, <2>3, AddGuestMeeting
  <2>7. \A i \in 1 .. n : i # id => eventList'[i] = eventList[i]
    BY <1>1, <2>3
  <2>8. Meetings' = [Meetings EXCEPT ![id].guests = @ \cup {u}]
    BY <1>2, <2>1, <2>5, <2>6, <2>7
  <2> HIDE DEF u
  <2>9. Order' = Order
    BY <1>2, <2>5
  <2> QED
    BY <1>3, <1>8, <2>2, <2>8, <2>9
       DEF u, Respond, isClientExist, Service!Accept, Service!Says, Service!Member
<1> QED
  BY <1>5, <1>6, <1>7, <1>8 DEF sendRSVP

LEMMA GuestListRefines ==
  ASSUME NumberedInv, UNCHANGED running, NEW c \in ClientName,
         NEW id \in RequestId, getRSVP_List(c, id)
  PROVE  Service!WhoComes(c, id)
<1>1. CASE RejectUnregistered(c, "GET_RSVPS_LIST", id)
  BY <1>1, RejectRefines DEF NumberedInv, Service!WhoComes
<1>2. CASE ~RejectUnregistered(c, "GET_RSVPS_LIST", id)
  <2>1. isClientExist(c) /\ UNCHANGED state
    BY <1>2 DEF getRSVP_List
  <2>2. UNCHANGED <<Meetings, Order>>
    BY <2>1, SameMeetings DEF state
  <2>3. isEventExist(id) <=> id \in DOMAIN Meetings
    BY DEF isEventExist, Meetings
  <2>4. ASSUME isEventExist(id)
        PROVE  ToSet(EventOf(id).RSVP_List) = Meetings[id].guests
    <3>1. GuestsAgree(EventOf(id))
      BY <2>4, NumberedProperties DEF isEventExist, EventOf
    <3> QED
      BY <2>3, <2>4, <3>1 DEF Meetings, GuestsAgree
  <2> QED
    BY <1>2, <2>1, <2>2, <2>3, <2>4
       DEF getRSVP_List, Respond, state, isClientExist,
           Service!WhoComes, Service!Says, Service!Member
<1> QED
  BY <1>1, <1>2

LEMMA ServiceCardinality == \A T : Service!Cardinality(T) = Cardinality(T)
BY DEF Service!Cardinality, Cardinality

(* The newest meetings of the service are the end of _eventList that       *)
(* getTop5Events begins at firstIdx.                                       *)
LEMMA NewestIsTheEnd ==
  ASSUME NumberedInv
  PROVE  /\ firstIdx(Len(eventList)) \in 0 .. Len(eventList)
         /\ Cardinality(Service!Newest) = Len(eventList) - firstIdx(Len(eventList))
<1> DEFINE n == Len(eventList)
           first == firstIdx(n)
           Newer(i) == {id \in DOMAIN Meetings : id > Order[i]}
<1>1. /\ n \in Nat /\ TopCount \in Nat /\ TopCount > 0
  BY NumberedProperties, ServerAssumption
<1>2. first = IF n > TopCount THEN n - TopCount ELSE 0
  BY DEF firstIdx
<1>3. first \in 0 .. n
  BY <1>1, <1>2
<1>4. DOMAIN Meetings = 1 .. n /\ DOMAIN Order = 1 .. n /\ \A i \in 1 .. n : Order[i] = i
  BY MeetingsProperties DEF MeetingsTable
<1> HIDE DEF n, first, Newer
<1>5. ASSUME NEW i \in 1 .. n
      PROVE  Cardinality(Newer(i)) < TopCount <=> i > first
  <2>1. Newer(i) = i + 1 .. n
    BY <1>1, <1>4 DEF Newer
  <2>2. Cardinality(i + 1 .. n) = IF i + 1 > n THEN 0 ELSE n - (i + 1) + 1
    BY <1>1, FS_Interval
  <2>3. Cardinality(Newer(i)) = n - i
    BY <1>1, <2>1, <2>2
  <2> QED
    BY <1>1, <1>2, <2>3
<1>6. Service!Newest = first + 1 .. n
  <2>1. Service!Newest = {i \in DOMAIN Order : Cardinality(Newer(i)) < TopCount}
    BY ServiceCardinality DEF Service!Newest, Newer
  <2>2. Service!Newest = {i \in 1 .. n : i > first}
    BY <1>4, <1>5, <2>1
  <2> QED
    BY <1>1, <1>3, <2>2
<1>7. Cardinality(first + 1 .. n) = n - first
  <2>1. first + 1 \in Int /\ n \in Int
    BY <1>1, <1>3
  <2>2. Cardinality(first + 1 .. n) = IF first + 1 > n THEN 0 ELSE n - (first + 1) + 1
    BY <2>1, FS_Interval
  <2> QED
    BY <1>1, <1>3, <2>2
<1> QED
  BY <1>3, <1>6, <1>7 DEF n, first

LEMMA TopRefines ==
  ASSUME NumberedInv, UNCHANGED running, NEW c \in ClientName, getTop5Events(c)
  PROVE  Service!WhatIsNew(c)
<1>1. CASE RejectUnregistered(c, "GET_TOP_5", 0)
  BY <1>1, RejectRefines DEF NumberedInv, Service!WhatIsNew
<1>2. CASE ~RejectUnregistered(c, "GET_TOP_5", 0)
  <2> DEFINE n == Len(eventList)
             first == firstIdx(n)
  <2>1. /\ isClientExist(c) /\ UNCHANGED state
        /\ reply' = [to |-> c, command |-> "GET_TOP_5", result |-> "TOP",
                     id |-> 0, guests |-> {}, lines |-> NewestLines]
    BY <1>2 DEF getTop5Events
  <2>2. UNCHANGED <<Meetings, Order>>
    BY <2>1, SameMeetings DEF state
  <2>3. n \in Nat /\ first \in 0 .. n /\ Cardinality(Service!Newest) = n - first
    BY NumberedProperties, NewestIsTheEnd
  <2>4. Len(Order) = n /\ \A i \in 1 .. n : Order[i] = i
    BY <2>3, MeetingsProperties DEF MeetingsTable
  <2>5. NewestLines = [i \in 1 .. n - first |-> toString(eventList[first + i])]
    BY DEF NewestLines
  <2> HIDE DEF n, first
  <2>6. n - (n - first) = first
    BY <2>3
  <2>7. ASSUME NEW i \in 1 .. n - first
        PROVE  toString(eventList[first + i]) = Service!LineOf(Order[first + i])
    <3>1. first + i \in 1 .. n
      BY <2>3
    <3>2. Meetings[first + i].info = eventList[first + i].info
      BY <3>1, MeetingsProperties DEF MeetingsTable, MeetingOf, n
    <3>3. \A part \in Shown : /\ part # "id"
                               /\ Meetings[first + i][part] = eventList[first + i][part]
      BY <3>2 DEF Shown
    <3> QED
      BY <2>4, <3>1, <3>3 DEF toString, Service!LineOf
  <2>8. NewestLines = [i \in 1 .. Cardinality(Service!Newest) |->
          Service!LineOf(Order[Len(Order) - Cardinality(Service!Newest) + i])]
    BY <2>3, <2>4, <2>5, <2>6, <2>7
  <2> DEFINE lines == [i \in 1 .. Cardinality(Service!Newest) |->
          Service!LineOf(Order[Len(Order) - Cardinality(Service!Newest) + i])]
  <2>9. Service!Says(c, "GET_TOP_5", "TOP", 0, {}, lines)
    BY <2>1, <2>8 DEF Service!Says
  <2>10. \A T : Service!Cardinality(T) = Cardinality(T)
    BY ServiceCardinality
  <2>11. Service!Member(c) /\ UNCHANGED <<clientsSet, Meetings, Order, running>>
    BY <2>1, <2>2 DEF state, isClientExist, Service!Member
  <2> QED
    BY <2>9, <2>10, <2>11 DEF Service!WhatIsNew
<1> QED
  BY <1>1, <1>2

LEMMA WithoutEffectRefines ==
  ASSUME Numbered, UNCHANGED running, NEW c \in ClientName, withoutEffect(c)
  PROVE  Service!Refuse(c)
<1>1. UNCHANGED <<Meetings, Order>>
  BY SameMeetings DEF withoutEffect, illegalCommand, invalidArgument, exitCommand, state
<1> QED
  BY <1>1 DEF withoutEffect, illegalCommand, invalidArgument, exitCommand, Respond, state, Service!Refuse, Service!Says

-----------------------------------------------------------------------------
(* The ids stay the positions.                                             *)
LEMMA SameNumbered ==
  ASSUME Numbered, UNCHANGED <<eventsMap, nextEventId, running>>,
         DOMAIN eventList' = DOMAIN eventList, Len(eventList') = Len(eventList),
         \A i \in DOMAIN eventList : eventList'[i].eventId = eventList[i].eventId
  PROVE  Numbered'
BY DEF Numbered

LEMMA HandlerNumbered ==
  ASSUME NumberedInv, AllocFailures = {}, running, UNCHANGED running,
         NEW c \in ClientName, parseCommand(c)
  PROVE  Numbered'
<1> DEFINE n == Len(eventList)
<1>1. /\ n \in Nat /\ DOMAIN eventList = 1 .. n /\ DOMAIN eventsMap = 1 .. n
      /\ eventList \in Seq(EventType)
      /\ \A i \in 1 .. n : /\ eventList[i] \in EventType /\ GuestsAgree(eventList[i])
                           /\ eventsMap[i] = i /\ eventList[i].eventId = i
  BY NumberedProperties DEF NumberedInv, StateInv, StateTypeOK
<1>2. CASE UNCHANGED <<eventsMap, eventList, nextEventId>>
  BY <1>2, SameNumbered DEF NumberedInv
<1>3. CASE registerClient(c)
  BY <1>2, <1>3 DEF registerClient, state
<1>4. CASE unregisterClient(c)
  <2>1. CASE RejectUnregistered(c, "UNREGISTER", 0)
    BY <1>2, <2>1 DEF RejectUnregistered, state
  <2>2. CASE /\ eventList' = removeClientFromEvents(ToUpper[c])
             /\ UNCHANGED <<eventsMap, nextEventId>>
    <3>1. ASSUME NEW i \in 1 .. n
          PROVE  removeGuest(eventList[i], ToUpper[c]).eventId = eventList[i].eventId
      BY <1>1, NameProperties, RemoveGuestProperties
    <3>2. /\ DOMAIN eventList' = 1 .. n
          /\ \A i \in 1 .. n :
               eventList'[i] \in {eventList[i], removeGuest(eventList[i], ToUpper[c])}
      BY <1>1, <2>2 DEF removeClientFromEvents
    <3>3. StateInv'
      BY <1>4, HandlerStateInv DEF NumberedInv, parseCommand
    <3>4. Len(eventList') = n
      BY <1>1, <3>2, <3>3 DEF StateInv, StateTypeOK
    <3>5. \A i \in 1 .. n : eventList'[i].eventId = eventList[i].eventId
      BY <3>1, <3>2
    <3> QED
      BY <1>1, <2>2, <3>2, <3>4, <3>5, SameNumbered DEF NumberedInv
  <2> QED
    BY <1>4, <2>1, <2>2 DEF unregisterClient
<1>5. ASSUME NEW title \in Title, NEW info \in Info, createEvent(c, title, info)
      PROVE  Numbered'
  <2> DEFINE e == NewEvent(c, n + 1, title, info)
  <2>1. nextEventId = n + 1 /\ n + 1 \notin DOMAIN eventsMap
    BY <1>1 DEF NumberedInv, Numbered
  <2>2. eventIdToAssign = n + 1
    BY <2>1 DEF eventIdToAssign, isEventExist
  <2>3. e \in EventType /\ e.eventId = n + 1
    BY <1>1, NewEventProperties
  <2>4. /\ eventList' = Append(eventList, e)
        /\ eventsMap' = InsertInMap(n + 1, n + 1)
        /\ nextEventId' = (n + 1) + 1
    BY <1>5, <2>2 DEF createEvent, PushBack
  <2> HIDE DEF e
  <2>5. /\ Len(eventList') = n + 1 /\ DOMAIN eventList' = 1 .. n + 1
        /\ \A i \in 1 .. n : eventList'[i] = eventList[i]
        /\ eventList'[n + 1] = e
    BY <1>1, <2>3, <2>4
  <2> HIDE DEF n
  <2>6. /\ DOMAIN eventsMap' = 1 .. n + 1
        /\ eventsMap'[n + 1] = n + 1
        /\ \A i \in 1 .. n : eventsMap'[i] = eventsMap[i]
    BY <1>1, <2>4 DEF InsertInMap
  <2>7. \A i \in 1 .. n + 1 : i \in 1 .. n \/ i = n + 1
    BY <1>1
  <2> QED
    BY <1>1, <2>3, <2>4, <2>5, <2>6, <2>7 DEF Numbered
<1>6. CASE RejectUnregistered(c, "CREATE", 0)
  BY <1>2, <1>6 DEF RejectUnregistered, state
<1>7. ASSUME NEW id \in RequestId, sendRSVP(c, id)
      PROVE  Numbered'
  <2>1. CASE UNCHANGED state
    BY <1>2, <2>1 DEF state
  <2>2. CASE /\ isEventExist(id)
             /\ isNewGuest(EventOf(id), c)
             /\ eventList' = [eventList EXCEPT ![eventsMap[id]] = AddGuest(@, c)]
             /\ UNCHANGED <<eventsMap, nextEventId>>
    <3>1. id \in 1 .. n /\ eventsMap[id] = id /\ EventOf(id) = eventList[id]
      BY <1>1, <2>2 DEF isEventExist, EventOf
    <3>2. AddGuest(eventList[id], c).eventId = eventList[id].eventId
      BY <1>1, <2>2, <3>1, AddGuestProperties
    <3>3. eventList' = [eventList EXCEPT ![id] = AddGuest(eventList[id], c)]
      BY <2>2, <3>1
    <3>4. /\ DOMAIN eventList' = 1 .. n /\ Len(eventList') = n
          /\ \A i \in 1 .. n : eventList'[i].eventId = eventList[i].eventId
      BY <1>1, <3>1, <3>2, <3>3
    <3> QED
      BY <1>1, <2>2, <3>4, SameNumbered DEF NumberedInv
  <2> QED
    BY <1>7, <2>1, <2>2 DEF sendRSVP, RejectUnregistered, state
<1>8. CASE \E id \in RequestId : getRSVP_List(c, id)
  BY <1>2, <1>8 DEF getRSVP_List, RejectUnregistered, state
<1>9. CASE getTop5Events(c)
  BY <1>2, <1>9 DEF getTop5Events, RejectUnregistered, state
<1>10. CASE withoutEffect(c)
  BY <1>2, <1>10 DEF withoutEffect, illegalCommand, invalidArgument, exitCommand, state
<1> QED
  BY <1>3, <1>4, <1>5, <1>6, <1>7, <1>8, <1>9, <1>10 DEF parseCommand

LEMMA NumberedInvariant ==
  ASSUME AllocFailures = {}
  PROVE  Spec => []NumberedInv
<1>1. Init => NumberedInv
  <2>1. Len(<<>>) = 0 /\ DOMAIN <<>> = {}
    OBVIOUS
  <2> QED
    BY <2>1, InitStateInv DEF Init, NumberedInv, Numbered
<1>2. NumberedInv /\ [Next]_vars => NumberedInv'
  <2> SUFFICES ASSUME NumberedInv, [Next]_vars
               PROVE  NumberedInv'
    OBVIOUS
  <2>1. StateInv'
    BY NextStateInv DEF NumberedInv
  <2>2. ASSUME NEW c \in ClientName, handleClient(c)
        PROVE  Numbered'
    BY <2>2, HandlerNumbered DEF handleClient
  <2>3. ASSUME exitServer
        PROVE  Numbered'
    <3>1. DOMAIN eventsMap' = {} /\ DOMAIN eventList' = {} /\ ~running'
      BY <2>3 DEF exitServer
    <3> QED
      BY <3>1 DEF Numbered
  <2>4. ASSUME UNCHANGED vars
        PROVE  Numbered'
    BY <2>4 DEF vars, state, NumberedInv, Numbered
  <2> QED
    BY <2>1, <2>2, <2>3, <2>4 DEF Next, NumberedInv
<1> QED
  BY <1>1, <1>2, PTL DEF Spec

-----------------------------------------------------------------------------
(* Every request is one step of the service, of the kind it asks for.      *)
LEMMA HandlerRefines ==
  ASSUME NumberedInv, NumberedInv', AllocFailures = {}, running, UNCHANGED running,
         NEW c \in ClientName, parseCommand(c)
  PROVE  Service!Next
<1>1. CASE registerClient(c)
  <2>1. Service!Join(c)
    BY <1>1, RegisterRefines DEF NumberedInv
  <2> QED
    BY <2>1 DEF Service!Next
<1>2. CASE unregisterClient(c)
  <2>1. Service!Leave(c)
    BY <1>2, UnregisterRefines
  <2> QED
    BY <2>1 DEF Service!Next
<1>3. ASSUME NEW title \in Title, NEW info \in Info, createEvent(c, title, info)
      PROVE  Service!Next
  <2>1. Service!Announce(c, title, info)
    BY <1>3, CreateRefines
  <2> QED
    BY <2>1 DEF Service!Next
<1>4. CASE RejectUnregistered(c, "CREATE", 0)
  <2>1. Service!TurnAway(c, "CREATE", 0)
    BY <1>4, RejectRefines DEF NumberedInv
  <2> QED
    BY <2>1 DEF Service!Next
<1>5. ASSUME NEW id \in RequestId, sendRSVP(c, id)
      PROVE  Service!Next
  <2>1. Service!Accept(c, id)
    BY <1>5, AcceptRefines
  <2> QED
    BY <2>1 DEF Service!Next
<1>6. ASSUME NEW id \in RequestId, getRSVP_List(c, id)
      PROVE  Service!Next
  <2>1. Service!WhoComes(c, id)
    BY <1>6, GuestListRefines
  <2> QED
    BY <2>1 DEF Service!Next
<1>7. CASE getTop5Events(c)
  <2>1. Service!WhatIsNew(c)
    BY <1>7, TopRefines
  <2> QED
    BY <2>1 DEF Service!Next
<1>8. CASE withoutEffect(c)
  <2>1. Service!Refuse(c)
    BY <1>8, WithoutEffectRefines DEF NumberedInv
  <2> QED
    BY <2>1 DEF Service!Next
<1> QED
  BY <1>1, <1>2, <1>3, <1>4, <1>5, <1>6, <1>7, <1>8 DEF parseCommand

LEMMA ExitRefines ==
  ASSUME exitServer
  PROVE  Service!Next
<1>1. clientsSet' = {} /\ eventsMap' = <<>> /\ eventList' = <<>> /\ reply' = NoReply
  BY DEF exitServer
<1>2. Meetings' = <<>> /\ Order' = <<>>
  <2>1. DOMAIN eventsMap' = {} /\ DOMAIN eventList' = {}
    BY <1>1
  <2> QED
    BY <2>1 DEF Meetings, Order
<1>3. Service!Shutdown
  BY <1>1, <1>2 DEF exitServer, Service!Shutdown, Service!NoAnswer, NoReply
<1> QED
  BY <1>3 DEF exitServer, Service!Next

(* As long as no allocation fails, the server keeps the promises of        *)
(* EventService: each answer is the one that its members, meetings and     *)
(* their order call for, "event id N was created" names the new meeting,   *)
(* and GET_TOP_5 shows the newest ones, of each what toString returns.     *)
THEOREM ServerImplementsService ==
  ASSUME AllocFailures = {}
  PROVE  Spec => ImplementsEventService
<1>1. Init => Service!Init
  <2>1. ASSUME Init
        PROVE  Meetings = <<>> /\ Order = <<>>
    <3>1. DOMAIN eventsMap = {} /\ DOMAIN eventList = {}
      BY <2>1 DEF Init
    <3> QED
      BY <3>1 DEF Meetings, Order
  <2> QED
    BY <2>1 DEF Init, NoReply, Service!Init, Service!NoAnswer
<1>2. NumberedInv /\ NumberedInv' /\ [Next]_vars => [Service!Next]_(Service!vars)
  <2> SUFFICES ASSUME NumberedInv, NumberedInv', [Next]_vars
               PROVE  [Service!Next]_(Service!vars)
    OBVIOUS
  <2>1. ASSUME NEW c \in ClientName, handleClient(c)
        PROVE  Service!Next
    BY <2>1, HandlerRefines DEF handleClient
  <2>2. CASE exitServer
    BY <2>2, ExitRefines
  <2>3. CASE UNCHANGED vars
    <3>1. UNCHANGED <<Meetings, Order, clientsSet, running, reply>>
      BY <2>3, SameMeetings DEF vars, state
    <3> QED
      BY <3>1 DEF Service!vars
  <2> QED
    BY <2>1, <2>2, <2>3 DEF Next
<1> QED
  BY <1>1, <1>2, NumberedInvariant, PTL DEF Spec, ImplementsEventService, Service!Spec
=============================================================================
