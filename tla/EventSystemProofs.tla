------------------------- MODULE EventSystemProofs -------------------------
(***************************************************************************)
(* What holds between the emClients and the server for any clients, names  *)
(* and lines, and for any number of events, restarts of the server, killed *)
(* emClients and cut messages.                                             *)
(***************************************************************************)
EXTENDS EventSystem, ParserProofs

(* What is proved of the server in ServerProofs is used here.              *)
P == INSTANCE ServerProofs

-----------------------------------------------------------------------------
(* S and P are the same server.                                            *)
LEMMA SameGuestOperators ==
  /\ \A e, c : S!isNewGuest(e, c) = P!isNewGuest(e, c)
  /\ \A e, c : S!AddGuest(e, c) = P!AddGuest(e, c)
  /\ \A e, c : S!removeGuest(e, c) = P!removeGuest(e, c)
BY DEF S!isNewGuest, P!isNewGuest, S!AddGuest, P!AddGuest, S!removeGuest, P!removeGuest,
       S!RemoveFirst, P!RemoveFirst, S!SelectInSeq, P!SelectInSeq, S!Min, P!Min,
       S!RemoveAt, P!RemoveAt

LEMMA SameHandlers ==
  ASSUME NEW c
  PROVE  /\ S!registerClient(c) => P!registerClient(c)
         /\ S!isClientExist(c) <=> P!isClientExist(c)
         /\ S!removeClientFromEvents(c) = P!removeClientFromEvents(c)
         /\ \A title, info : S!createEvent(c, title, info) => P!createEvent(c, title, info)
         /\ S!EventOf(c) = P!EventOf(c)
BY SameGuestOperators DEF S!registerClient, P!registerClient, S!Respond, P!Respond,
   S!state, P!state, S!isClientExist, P!isClientExist, S!EventOf, P!EventOf,
   S!removeClientFromEvents, P!removeClientFromEvents, S!createEvent, P!createEvent,
   S!PushBack, P!PushBack, S!NewEvent, P!NewEvent, S!eventIdStr, P!eventIdStr,
   S!eventIdToAssign, P!eventIdToAssign, S!isEventExist, P!isEventExist,
   S!InsertInMap, P!InsertInMap

LEMMA Names ==
  ASSUME NEW p \in Process
  PROVE  /\ NameOf[p] \in ClientName
         /\ ToUpper[NameOf[p]] = UpperName(p)
         /\ ToUpper[UpperName(p)] = UpperName(p)
         /\ UpperName(p) \in ClientName
         /\ \A q \in Process : UpperName(q) = UpperName(p) => q = p
BY ServerConstants, SystemAssumption DEF UpperName

-----------------------------------------------------------------------------
(***************************************************************************)
(* The server's part of the invariant: that of ServerProofs, and, since no *)
(* allocation fails here, an event's id is its position in _eventList.     *)
(***************************************************************************)
Positions ==
  /\ DOMAIN eventsMap = DOMAIN eventList
  /\ \A i \in DOMAIN eventList : eventsMap[i] = i
  /\ nextEventId = Len(eventList) + 1
  /\ Len(eventList) <= MaxEvents
  /\ clientsSet \subseteq {UpperName(p) : p \in Process}
  /\ ~running => clientsSet = {}

ServerInv == P!StateInv /\ Positions

LEMMA ServerFacts ==
  ASSUME ServerInv
  PROVE  /\ Len(eventList) \in Nat
         /\ DOMAIN eventList = 1 .. Len(eventList)
         /\ DOMAIN eventsMap = 1 .. Len(eventList)
         /\ eventList \in Seq(P!EventType)
         /\ \A i \in 1 .. Len(eventList) :
              /\ eventsMap[i] = i
              /\ S!EventOf(i) = eventList[i]
              /\ eventList[i] \in P!EventType
              /\ P!GuestsAgree(eventList[i])
BY DEF ServerInv, Positions, P!StateInv, P!StateTypeOK, P!GuestListsAgree, S!EventOf

(* What an UNREGISTER and an RSVP do to the guests of one event.           *)
LEMMA RemovedGuests ==
  ASSUME NEW e \in P!EventType, NEW c
  PROVE  S!removeGuest(e, c).guestsNames = e.guestsNames \ {ToUpper[c]}
<1> DEFINE rest == S!RemoveFirst(e.RSVP_List, ToUpper[c])
           names == e.guestsNames \ {ToUpper[c]}
<1>1. CASE S!isNewGuest(e, c)
  BY <1>1 DEF S!removeGuest, S!isNewGuest
<1>2. CASE ~S!isNewGuest(e, c)
  <2>1. S!removeGuest(e, c) = [e EXCEPT !.guestsNames = names, !.RSVP_List = rest]
    BY <1>2 DEF S!removeGuest
  <2> HIDE DEF rest
  <2> QED
    BY <2>1 DEF P!EventType
<1> QED
  BY <1>1, <1>2

LEMMA AddedGuests ==
  ASSUME NEW e \in P!EventType, NEW c
  PROVE  S!AddGuest(e, c).guestsNames = e.guestsNames \cup {ToUpper[c]}
BY DEF S!AddGuest, P!EventType

-----------------------------------------------------------------------------
(***************************************************************************)
(* What a request does to the server, whoever waits for the answer: to the *)
(* names, to the guests of each event, and what it is answered.            *)
(***************************************************************************)
IsGuest(p, id) ==
  id \in DOMAIN eventsMap /\ UpperName(p) \in S!EventOf(id).guestsNames

NamesAfter(q, comm) ==
  clientsSet' = CASE comm = "REGISTER" -> clientsSet \cup {UpperName(q)}
                  [] comm = "UNREGISTER" -> clientsSet \ {UpperName(q)}
                  [] OTHER -> clientsSet

GuestsAfter(q, comm) ==
  \A p \in Process : \A id \in DOMAIN eventsMap :
    IsGuest(p, id) => IsGuest(p, id)' \/ (p = q /\ comm = "UNREGISTER")

ResultAfter(q, r) ==
  reply'.result \in
    CASE r.command = "REGISTER" ->
           {IF UpperName(q) \in clientsSet THEN "ALREADY_REGISTERED" ELSE "SUCCESS"}
      [] r.command = "UNREGISTER" ->
           {IF UpperName(q) \in clientsSet THEN "SUCCESS" ELSE "NOT_REGISTERED"}
      [] r.command = "CREATE" -> {"CREATED", "NOT_REGISTERED"}
      [] r.command = "SEND_RSVP" ->
           {"NOT_REGISTERED", "NO_EVENT", "INVALID_ARGUMENT", "SUCCESS", "ALREADY_SENT"}
      [] r.command = "ILLEGAL" -> {"ILLEGAL_COMMAND"}
      [] OTHER -> {"GUESTS", "TOP", "NO_EVENT", "INVALID_ARGUMENT", "NOT_REGISTERED"}

AcceptsAfter(q, r) ==
  \/ /\ reply'.result \notin {"SUCCESS", "ALREADY_SENT"} \/ r.command # "SEND_RSVP"
     /\ AcceptedBy(reply') = {}
  \/ /\ r.command = "SEND_RSVP"
     /\ AcceptedBy(reply') = {stoi(r.args[2])} /\ IsGuest(q, stoi(r.args[2]))'

Effects(q, r) ==
  /\ ServerInv' /\ NamesAfter(q, r.command) /\ GuestsAfter(q, r.command)
  /\ ResultAfter(q, r) /\ AcceptsAfter(q, r)

LEMMA NothingAccepted ==
  ASSUME NEW q, NEW r, NEW to, NEW id, NEW guests, NEW lines, NEW result,
         reply' = [to |-> to, command |-> r.command, result |-> result, id |-> id,
                   guests |-> guests, lines |-> lines],
         result \notin {"SUCCESS", "ALREADY_SENT"} \/ r.command # "SEND_RSVP"
  PROVE  AcceptsAfter(q, r) /\ reply'.result = result
BY DEF AcceptsAfter, AcceptedBy

LEMMA SameServer ==
  ASSUME ServerInv, UNCHANGED <<state, running>>
  PROVE  ServerInv' /\ \A p, id : IsGuest(p, id)' = IsGuest(p, id)
<1>1. P!StateInv'
  BY P!SameStateInv, ServerConstants DEF ServerInv, state, P!state
<1>2. Positions'
  BY DEF ServerInv, Positions, state
<1>3. \A p, id : IsGuest(p, id)' = IsGuest(p, id)
  BY DEF IsGuest, S!EventOf, state
<1> QED
  BY <1>1, <1>2, <1>3 DEF ServerInv

LEMMA RegisterEffects ==
  ASSUME ServerInv, running, UNCHANGED running, NEW q \in Process,
         NEW r, r.command = "REGISTER", S!registerClient(NameOf[q])
  PROVE  Effects(q, r)
<1> DEFINE c == NameOf[q]
<1>1. c \in ClientName /\ ToUpper[c] = UpperName(q)
  BY Names
<1>2. P!StateInv'
  BY <1>1, SameHandlers, P!RegisterStateInv, ServerConstants DEF ServerInv
<1>3. /\ UNCHANGED <<eventsMap, eventList, nextEventId>>
      /\ clientsSet' = clientsSet \cup {UpperName(q)}
  BY <1>1 DEF S!registerClient, S!isClientExist, S!state
<1>4. Positions'
  BY <1>3 DEF ServerInv, Positions
<1>5. \A p, id : IsGuest(p, id)' = IsGuest(p, id)
  BY <1>3 DEF IsGuest, S!EventOf
<1>6. ResultAfter(q, r)
  BY <1>1 DEF S!registerClient, S!isClientExist, S!Respond, ResultAfter
<1>7. AcceptsAfter(q, r)
  BY NothingAccepted DEF S!registerClient, S!Respond
<1> QED
  BY <1>2, <1>3, <1>4, <1>5, <1>6, <1>7 DEF ServerInv, Effects, NamesAfter, GuestsAfter

LEMMA UnregisterEffects ==
  ASSUME ServerInv, running, UNCHANGED running, NEW q \in Process,
         NEW r, r.command = "UNREGISTER", S!unregisterClient(NameOf[q])
  PROVE  Effects(q, r)
<1> DEFINE c == NameOf[q]
           u == UpperName(q)
<1>1. c \in ClientName /\ ToUpper[c] = u /\ u \in ClientName /\ ToUpper[u] = u
  BY Names
<1>2. CASE S!RejectUnregistered(c, "UNREGISTER", 0)
  <2>1. UNCHANGED <<state, running>> /\ u \notin clientsSet
    BY <1>1, <1>2 DEF S!RejectUnregistered, S!isClientExist, S!state, state
  <2>2. reply'.result = "NOT_REGISTERED" /\ AcceptsAfter(q, r)
    BY <1>2, NothingAccepted DEF S!RejectUnregistered, S!Respond
  <2>3. clientsSet' = clientsSet \ {u}
    BY <2>1 DEF state
  <2> QED
    BY <2>1, <2>2, <2>3, SameServer DEF Effects, NamesAfter, GuestsAfter, ResultAfter
<1>3. CASE /\ S!isClientExist(c)
           /\ clientsSet' = clientsSet \ {ToUpper[c]}
           /\ eventList' = S!removeClientFromEvents(ToUpper[c])
           /\ S!Respond(c, "UNREGISTER", "SUCCESS", 0)
           /\ UNCHANGED <<eventsMap, nextEventId>>
  <2> DEFINE n == Len(eventList)
  <2>1. P!StateInv'
    <3>1. P!isClientExist(c) /\ eventList' = P!removeClientFromEvents(ToUpper[c])
      BY <1>3, SameHandlers
    <3> QED
      BY <1>1, <1>3, <3>1, P!UnregisterStateInv, ServerConstants DEF ServerInv
  <2>2. /\ n \in Nat /\ DOMAIN eventList = 1 .. n /\ DOMAIN eventsMap = 1 .. n
        /\ \A i \in 1 .. n : eventsMap[i] = i /\ eventList[i] \in P!EventType
    BY ServerFacts
  <2>3. /\ DOMAIN eventList' = 1 .. n
        /\ \A i \in 1 .. n : eventList'[i] = S!removeGuest(eventList[i], u)
    BY <1>1, <1>3, <2>2 DEF S!removeClientFromEvents
  <2>4. Len(eventList') = n
    BY <2>1, <2>2, <2>3 DEF P!StateInv, P!StateTypeOK
  <2>5. Positions'
    BY <1>3, <2>2, <2>3, <2>4 DEF ServerInv, Positions
  <2>6. \A i \in 1 .. n : eventList'[i].guestsNames = eventList[i].guestsNames \ {u}
    BY <1>1, <2>2, <2>3, RemovedGuests
  <2>7. GuestsAfter(q, "UNREGISTER")
    <3> SUFFICES ASSUME NEW p \in Process, NEW id \in DOMAIN eventsMap,
                        IsGuest(p, id), p # q
                 PROVE  IsGuest(p, id)'
      BY DEF GuestsAfter
    <3>1. UpperName(p) # u
      BY Names
    <3>2. id \in 1 .. n /\ S!EventOf(id) = eventList[id] /\ S!EventOf(id)' = eventList'[id]
      BY <1>3, <2>2 DEF S!EventOf
    <3> QED
      BY <1>3, <2>6, <3>1, <3>2 DEF IsGuest
  <2>8. NamesAfter(q, "UNREGISTER") /\ ResultAfter(q, r)
    BY <1>1, <1>3 DEF NamesAfter, ResultAfter, S!isClientExist, S!Respond
  <2>9. AcceptsAfter(q, r)
    BY <1>3, NothingAccepted DEF S!Respond
  <2> QED
    BY <2>1, <2>5, <2>7, <2>8, <2>9 DEF ServerInv, Effects
<1> QED
  BY <1>2, <1>3 DEF S!unregisterClient

LEMMA CreateEffects ==
  ASSUME ServerInv, running, UNCHANGED running, NEW q \in Process,
         NEW r, r.command = "CREATE", NEW title \in Title, NEW info \in Info,
         S!createEvent(NameOf[q], title, info)
  PROVE  Effects(q, r)
<1> DEFINE c == NameOf[q]
           n == Len(eventList)
           e == S!NewEvent(c, n + 1, title, info)
<1>1. c \in ClientName
  BY Names
<1>2. P!StateInv'
  BY <1>1, SameHandlers, P!CreateStateInv, ServerConstants DEF ServerInv
<1>3. /\ n \in Nat /\ DOMAIN eventList = 1 .. n /\ DOMAIN eventsMap = 1 .. n
      /\ eventList \in Seq(P!EventType) /\ nextEventId = n + 1
      /\ \A i \in 1 .. n : eventsMap[i] = i
  BY ServerFacts DEF ServerInv, Positions
<1>4. S!eventIdToAssign = n + 1
  BY <1>3 DEF S!eventIdToAssign, S!isEventExist
<1>5. /\ n < MaxEvents
      /\ eventList' = Append(eventList, e)
      /\ eventsMap' = S!InsertInMap(n + 1, n + 1)
      /\ nextEventId' = n + 2
      /\ clientsSet' = clientsSet
  BY <1>3, <1>4 DEF S!createEvent, S!PushBack
<1> HIDE DEF e
<1>6. /\ Len(eventList') = n + 1 /\ DOMAIN eventList' = 1 .. n + 1
      /\ \A i \in 1 .. n : eventList'[i] = eventList[i]
  BY <1>3, <1>5
<1>7. /\ DOMAIN eventsMap' = 1 .. n + 1
      /\ \A i \in 1 .. n + 1 : eventsMap'[i] = i
  <2>1. eventsMap' = [k \in 1 .. n + 1 |-> IF k = n + 1 THEN n + 1 ELSE eventsMap[k]]
    BY <1>3, <1>5 DEF S!InsertInMap
  <2> QED
    BY <1>3, <2>1
<1>8. MaxEvents \in Nat
  BY ServerConstants
<1>9. Positions'
  BY <1>3, <1>5, <1>6, <1>7, <1>8 DEF ServerInv, Positions
<1>10. \A p, id : id \in DOMAIN eventsMap /\ IsGuest(p, id) => IsGuest(p, id)'
  BY <1>3, <1>6, <1>7 DEF IsGuest, S!EventOf
<1>11. ResultAfter(q, r) /\ NamesAfter(q, r.command)
  BY <1>5 DEF ResultAfter, NamesAfter, S!createEvent, S!Respond
<1>12. AcceptsAfter(q, r)
  BY NothingAccepted DEF S!createEvent, S!Respond
<1> QED
  BY <1>2, <1>9, <1>10, <1>11, <1>12 DEF Effects, ServerInv, GuestsAfter

(* An RSVP that is not refused, of a number that the line names.           *)
LEMMA AcceptEffects ==
  ASSUME ServerInv, running, UNCHANGED running, NEW q \in Process,
         NEW r, r.command = "SEND_RSVP", Len(r.args) >= 2, isStrNumber(r.args[2]),
         NEW id, id = stoi(r.args[2]), id \in DOMAIN eventsMap,
         S!isClientExist(NameOf[q]),
         S!isNewGuest(S!EventOf(id), NameOf[q]),
         eventList' = [eventList EXCEPT ![eventsMap[id]] = S!AddGuest(@, NameOf[q])],
         UNCHANGED <<clientsSet, eventsMap, nextEventId>>,
         S!Respond(NameOf[q], "SEND_RSVP", "SUCCESS", id)
  PROVE  Effects(q, r)
<1> DEFINE c == NameOf[q]
           n == Len(eventList)
           e == S!AddGuest(eventList[id], c)
<1>1. c \in ClientName /\ ToUpper[c] = UpperName(q)
  BY Names
<1>2. /\ n \in Nat /\ DOMAIN eventList = 1 .. n /\ id \in 1 .. n
      /\ \A i \in 1 .. n : eventsMap[i] = i /\ eventList[i] \in P!EventType
  BY ServerFacts
<1>3. P!StateInv'
  <2>1. /\ P!isClientExist(c) /\ P!isNewGuest(P!EventOf(id), c)
        /\ eventList' = [eventList EXCEPT ![eventsMap[id]] = P!AddGuest(@, c)]
    BY <1>1, SameHandlers, SameGuestOperators
  <2> QED
    BY <1>1, <2>1, P!AcceptStateInv, ServerConstants DEF ServerInv
<1>4. /\ DOMAIN eventList' = 1 .. n
      /\ \A i \in 1 .. n : eventList'[i] = IF i = id THEN e ELSE eventList[i]
  BY <1>2
<1>5. e.guestsNames = eventList[id].guestsNames \cup {UpperName(q)}
  BY <1>1, <1>2, AddedGuests
<1> HIDE DEF e
<1>6. Len(eventList') = n
  BY <1>2, <1>3, <1>4 DEF P!StateInv, P!StateTypeOK
<1>7. Positions'
  BY <1>2, <1>4, <1>6 DEF ServerInv, Positions
<1>8. \A i \in 1 .. n : S!EventOf(i) = eventList[i] /\ S!EventOf(i)' = eventList'[i]
  BY <1>2 DEF S!EventOf
<1>9. \A p \in Process : \A i \in DOMAIN eventsMap : IsGuest(p, i) => IsGuest(p, i)'
  BY <1>2, <1>4, <1>5, <1>8, ServerFacts DEF IsGuest
<1>10. IsGuest(q, id)'
  BY <1>2, <1>4, <1>5, <1>8 DEF IsGuest
<1>11. ResultAfter(q, r) /\ NamesAfter(q, r.command)
  BY DEF ResultAfter, NamesAfter, S!Respond
<1>12. AcceptsAfter(q, r)
  BY <1>10 DEF AcceptsAfter, AcceptedBy, S!Respond
<1> QED
  BY <1>3, <1>7, <1>9, <1>11, <1>12 DEF Effects, ServerInv, GuestsAfter

(* A request that changes nothing.                                         *)
LEMMA NoEffects ==
  ASSUME ServerInv, UNCHANGED <<state, running>>, NEW q \in Process, NEW r,
         r.command \notin {"REGISTER", "UNREGISTER"}, ResultAfter(q, r), AcceptsAfter(q, r)
  PROVE  Effects(q, r)
<1>1. ServerInv' /\ \A p, id : IsGuest(p, id)' = IsGuest(p, id)
  BY SameServer
<1>2. NamesAfter(q, r.command) /\ GuestsAfter(q, r.command)
  BY <1>1 DEF NamesAfter, GuestsAfter, state
<1> QED
  BY <1>1, <1>2 DEF Effects

LEMMA RsvpEffects ==
  ASSUME ServerInv, running, UNCHANGED running, NEW q \in Process,
         NEW r, r.command = "SEND_RSVP", Len(r.args) >= 2, isStrNumber(r.args[2]),
         S!sendRSVP(NameOf[q], stoi(r.args[2]))
  PROVE  Effects(q, r)
<1> DEFINE c == NameOf[q]
<1> DEFINE id == stoi(r.args[2])
<1> HIDE DEF id
<1>1. S!sendRSVP(c, id)
  BY DEF id
<1>2. CASE S!RejectUnregistered(c, "SEND_RSVP", id)
  <2>1. UNCHANGED state /\ reply'.result = "NOT_REGISTERED" /\ AcceptsAfter(q, r)
    BY <1>2, NothingAccepted DEF S!RejectUnregistered, S!Respond, S!state, state
  <2> QED
    BY <2>1, NoEffects DEF ResultAfter
<1>3. CASE /\ ~S!isEventExist(id)
           /\ S!Respond(c, "SEND_RSVP", "NO_EVENT", id)
           /\ UNCHANGED eventList
           /\ UNCHANGED <<clientsSet, eventsMap, nextEventId>>
  <2>1. UNCHANGED state /\ reply'.result = "NO_EVENT" /\ AcceptsAfter(q, r)
    BY <1>3, NothingAccepted DEF S!Respond, state
  <2> QED
    BY <2>1, NoEffects DEF ResultAfter
<1>4. CASE /\ S!isClientExist(c)
           /\ UNCHANGED <<clientsSet, eventsMap, nextEventId>>
           /\ S!isEventExist(id)
           /\ S!isNewGuest(S!EventOf(id), c)
           /\ eventList' = [eventList EXCEPT ![eventsMap[id]] = S!AddGuest(@, c)]
           /\ S!Respond(c, "SEND_RSVP", "SUCCESS", id)
  <2>1. id \in DOMAIN eventsMap
    BY <1>4 DEF S!isEventExist
  <2> QED
    BY <1>4, <2>1, AcceptEffects DEF id
<1>5. CASE /\ S!isEventExist(id)
           /\ ~S!isNewGuest(S!EventOf(id), c)
           /\ S!Respond(c, "SEND_RSVP", "ALREADY_SENT", id)
           /\ UNCHANGED eventList
           /\ UNCHANGED <<clientsSet, eventsMap, nextEventId>>
  <2>1. UNCHANGED state /\ reply'.result = "ALREADY_SENT"
    BY <1>5 DEF S!Respond, state
  <2>2. IsGuest(q, id)
    BY <1>5, Names DEF S!isEventExist, S!isNewGuest, IsGuest
  <2>3. IsGuest(q, id)'
    BY <2>1, <2>2, SameServer
  <2>4. AcceptedBy(reply') = {id}
    BY <1>5 DEF AcceptedBy, S!Respond
  <2> QED
    BY <2>1, <2>3, <2>4, NoEffects DEF ResultAfter, AcceptsAfter, id
<1> QED
  BY <1>1, <1>2, <1>3, <1>4, <1>5 DEF S!sendRSVP

(* Whatever arrives, whole, in part or from an emClient that is no more.   *)
LEMMA HandlerEffects ==
  ASSUME ServerInv, running, UNCHANGED running, NEW q \in Process,
         NEW r, parseCommand(NameOf[q], r)
  PROVE  Effects(q, r)
<1> DEFINE c == NameOf[q]
<1>1. CASE r.command = "REGISTER" /\ S!registerClient(c)
  BY <1>1, RegisterEffects
<1>2. CASE r.command = "UNREGISTER" /\ S!unregisterClient(c)
  BY <1>2, UnregisterEffects
<1>3. CASE r.command = "GET_TOP_5" /\ S!getTop5Events(c)
  <2>1. UNCHANGED state /\ reply'.result \in {"TOP", "NOT_REGISTERED"} /\ AcceptsAfter(q, r)
    BY <1>3, NothingAccepted DEF S!getTop5Events, S!RejectUnregistered, S!Respond, S!state, state
  <2> QED
    BY <1>3, <2>1, NoEffects DEF ResultAfter
<1>4. CASE r.command = "ILLEGAL" /\ S!illegalCommand(c)
  <2>1. UNCHANGED state /\ reply'.result = "ILLEGAL_COMMAND" /\ AcceptsAfter(q, r)
    BY <1>4, NothingAccepted DEF S!illegalCommand, S!Respond, S!state, state
  <2> QED
    BY <1>4, <2>1, NoEffects DEF ResultAfter
<1>5. CASE r.command = "CREATE" /\ S!RejectUnregistered(c, "CREATE", 0)
  <2>1. UNCHANGED state /\ reply'.result = "NOT_REGISTERED" /\ AcceptsAfter(q, r)
    BY <1>5, NothingAccepted DEF S!RejectUnregistered, S!Respond, S!state, state
  <2> QED
    BY <1>5, <2>1, NoEffects DEF ResultAfter
<1>6. ASSUME r.command = "CREATE", NEW title \in Title, NEW info \in Info,
             S!createEvent(c, title, info)
      PROVE  Effects(q, r)
  BY <1>6, CreateEffects
<1>7. CASE /\ r.command = "SEND_RSVP" /\ Len(r.args) >= 2 /\ isStrNumber(r.args[2])
           /\ S!sendRSVP(c, stoi(r.args[2]))
  BY <1>7, RsvpEffects
<1>8. CASE /\ r.command = "GET_RSVPS_LIST" /\ S!getRSVP_List(c, stoi(r.args[2]))
  <2>1. /\ UNCHANGED state /\ reply'.result \in {"GUESTS", "NO_EVENT", "NOT_REGISTERED"}
        /\ AcceptsAfter(q, r)
    BY <1>8, NothingAccepted DEF S!getRSVP_List, S!RejectUnregistered, S!Respond, S!state, state
  <2> QED
    BY <1>8, <2>1, NoEffects DEF ResultAfter
<1>9. CASE /\ r.command \in {"SEND_RSVP", "GET_RSVPS_LIST"}
           /\ S!invalidArgument(c, r.command)
  <2>1. UNCHANGED state /\ reply'.result = "INVALID_ARGUMENT" /\ AcceptsAfter(q, r)
    BY <1>9, NothingAccepted DEF S!invalidArgument, S!Respond, S!state, state
  <2> QED
    BY <1>9, <2>1, NoEffects DEF ResultAfter
<1> QED
  BY <1>1, <1>2, <1>3, <1>4, <1>5, <1>6, <1>7, <1>8, <1>9 DEF parseCommand

-----------------------------------------------------------------------------
(***************************************************************************)
(* The clients' part of the invariant.  Each conjunct is about one client  *)
(* and what the server knows of it, so that a step keeps it for everybody  *)
(* whose variables, name and acceptances it leaves alone.                  *)
(***************************************************************************)
Types ==
  /\ phase \in [Process -> {"down", "prompt", "sent", "answered"}]
  /\ client \in [Process -> ClientType]
  /\ DOMAIN request = Process /\ DOMAIN response = Process
  /\ DOMAIN accepted = Process /\ DOMAIN misread = Process
  /\ lifetime \in 1 .. MaxServers + 1
  /\ running => lifetime <= MaxServers
  /\ memberOf \in [Process -> 0 .. lifetime]
  /\ unheard \in [Process -> SUBSET (Commands \cup {"membership"})]

Known(p) == UpperName(p) \in clientsSet

(* The commands that validateCommand lets through.                         *)
Sendable == {"REGISTER", "UNREGISTER", "CREATE", "SEND_RSVP", "GET_RSVPS_LIST", "GET_TOP_5"}

(* A request under way is a line of its user's.                            *)
Sent(p) ==
  \E typed \in LineTyped[p] :
    /\ request[p] = Request(UpToNewLine(typed))
    /\ client[p].commandType = CommandOf(tokenize(typed))
    /\ client[p].commandType = "SEND_RSVP" =>
         NamesEvent(tokenize(typed)) /\ client[p].eventIdSent = EventIdIn(tokenize(typed))

UnderWay(p) ==
  /\ phase[p] = "sent" => running /\ Sent(p)
  /\ phase[p] # "sent" => request[p] = NoRequest
  /\ phase[p] # "answered" => response[p] = NoResponse
  /\ phase[p] \in {"sent", "answered"} =>
       /\ client[p].commandType \in Sendable
       /\ client[p].registered => client[p].commandType # "REGISTER"
  /\ memberOf[p] # 0 => phase[p] # "down" /\ client[p].registered

(* p has an answer of this server before it; one that ends its membership; *)
(* one that begins it.                                                     *)
Here(p) == phase[p] = "answered" /\ response[p].from = lifetime
Removed(p) ==
  Here(p) /\ client[p].commandType = "UNREGISTER" /\ response[p].result = "SUCCESS"
Registering(p) ==
  Here(p) /\ client[p].commandType = "REGISTER" /\ response[p].result = "SUCCESS"

(* An answer is of no later server; one of an earlier server means that    *)
(* this one has heard nothing of p.  What can be read of an answer of this *)
(* server agrees with what it knows, as far as nothing else of p's is in   *)
(* doubt.                                                                  *)
IsResponse(r) ==
  r = [result |-> r.result, says |-> r.says, accepts |-> r.accepts, whole |-> r.whole,
       from |-> r.from]

Answered(p) ==
  phase[p] = "answered" =>
    /\ IsResponse(response[p])
    /\ response[p].from \in 0 .. lifetime
    /\ response[p].from < lifetime => memberOf[p] < lifetime /\ unheard[p] = {}
    /\ Removed(p) \/ Registering(p) =>
         client[p].commandType \in unheard[p] \/ response[p].says = {"SUCCESS"}
    /\ Here(p) /\ client[p].commandType = "REGISTER" /\ "SUCCESS" \in response[p].says =>
         Known(p) \/ "UNREGISTER" \in unheard[p]
    /\ Here(p) /\ client[p].commandType = "UNREGISTER" /\ "SUCCESS" \in response[p].says =>
         ~Known(p) \/ "REGISTER" \in unheard[p]

(* What ChangesAreUnderstood says of one client.                           *)
Understood(p) ==
  phase[p] = "answered" /\ response[p].whole =>
    LET result == response[p].result
        verdict == Verdict(client[p].commandType, response[p].says)
    IN  client[p].commandType \notin {"GET_RSVPS_LIST", "GET_TOP_5"} =>
          CASE result \in {"SUCCESS", "CREATED"} -> verdict = "done"
            [] result = "ALREADY_SENT" -> verdict = "already_sent"
            [] OTHER -> verdict = "failed"

(* What p may have left at the server without a trace in its process.      *)
Doubt(p) == {"REGISTER", "membership"} \cap unheard[p] # {}

(* A client that thinks it is registered, with whom, and a taken name.     *)
Membership(p) ==
  /\ memberOf[p] = lifetime => Known(p) \/ "UNREGISTER" \in unheard[p] \/ Removed(p)
  /\ Known(p) => memberOf[p] = lifetime \/ Doubt(p) \/ Registering(p)
  /\ client[p].registered /\ memberOf[p] < lifetime => ~Doubt(p)

(* What p has logged because the server had said so, and what the server   *)
(* has said in the answer before it.                                       *)
Acceptances(p) ==
  \/ "UNREGISTER" \in unheard[p] \/ Removed(p)
  \/ /\ \A id \in accepted[p] \ misread[p] : IsGuest(p, id)
     /\ Here(p) => \A id \in response[p].accepts : IsGuest(p, id)

ClientInv(p) ==
  UnderWay(p) /\ Answered(p) /\ Understood(p) /\ Membership(p) /\ Acceptances(p)

(* A request without a sender was sent under a client's name, and what it  *)
(* asks for is among what that client has not heard of.                    *)
Left ==
  \A left \in leftBehind : \E q \in Process :
    left.name = NameOf[q] /\ left.request.command \in unheard[q]

SystemInv ==
  /\ Types
  /\ ServerInv
  /\ Left
  /\ \A p \in Process : ClientInv(p)

-----------------------------------------------------------------------------
(* Who is not concerned by a step.                                         *)
Same(p) ==
  UNCHANGED <<phase[p], client[p], request[p], response[p], memberOf[p], accepted[p],
              misread[p], unheard[p], lifetime>>

LEMMA Bystander ==
  ASSUME NEW p \in Process, ClientInv(p), Same(p), running => running',
         Known(p)' = Known(p), \A id : IsGuest(p, id) => IsGuest(p, id)'
  PROVE  ClientInv(p)'
<1>1. UnderWay(p)'
  BY DEF ClientInv, UnderWay, Same, Sent
<1>2. Answered(p)' /\ Removed(p)' = Removed(p) /\ Registering(p)' = Registering(p)
  BY DEF ClientInv, Answered, IsResponse, Same, Removed, Registering, Here
<1>3. Understood(p)'
  BY DEF ClientInv, Understood, Same
<1>4. Membership(p)'
  BY <1>2 DEF ClientInv, Membership, Same, Doubt
<1>5. Acceptances(p)'
  BY <1>2 DEF ClientInv, Acceptances, Same, Here
<1> QED
  BY <1>1, <1>2, <1>3, <1>4, <1>5 DEF ClientInv

(* A step of q's own that the server does not notice.                      *)
LEMMA QuietStep ==
  ASSUME SystemInv, NEW q \in Process, Quiet, lifetime' = lifetime,
         \A p \in Process : p # q => Same(p),
         Types', Left', ClientInv(q)'
  PROVE  SystemInv'
<1>1. ServerInv' /\ \A p, id : IsGuest(p, id)' = IsGuest(p, id)
  BY SameServer DEF SystemInv, Quiet, server
<1>2. ASSUME NEW p \in Process, p # q
      PROVE  ClientInv(p)'
  BY <1>1, <1>2, Bystander DEF SystemInv, Quiet, server, state, Known
<1> QED
  BY <1>1, <1>2 DEF SystemInv

-----------------------------------------------------------------------------
(* What validateCommand lets through.                                      *)
LEMMA NoErrors ==
  ASSUME NEW a, NEW x \in CommandResult, NEW t \in Seq(CommandResult), When(a, x) \o t = <<>>
  PROVE  ~a /\ t = <<>>
<1>1. When(a, x) \in Seq(CommandResult)
  <2>1. <<x>> \in Seq(CommandResult) /\ <<>> \in Seq(CommandResult)
    OBVIOUS
  <2> QED
    BY <2>1 DEF When
<1>2. Len(When(a, x)) + Len(t) = 0
  BY <1>1
<1>3. Len(When(a, x)) = 0 /\ Len(t) = 0
  BY <1>1, <1>2
<1> QED
  BY <1>1, <1>3 DEF When

LEMMA NoError ==
  ASSUME NEW a, NEW x, When(a, x) = <<>>
  PROVE  ~a
BY DEF When

LEMMA ValidCommand ==
  ASSUME NEW c, NEW tokens, Errors(c, tokens) = <<>>
  PROVE  /\ CommandOf(tokens) \in Sendable
         /\ c.registered => CommandOf(tokens) # "REGISTER"
         /\ CommandOf(tokens) = "SEND_RSVP" => NamesEvent(tokens)
<1> DEFINE comm == CommandOf(tokens)
           unknown == When(~c.registered, "NO_REGISTER")
<1>1. comm \in Sendable
  <2>1. ASSUME comm \notin Sendable
        PROVE  Errors(c, tokens) = <<"COMMAND_NOTEXIST">>
    BY <2>1 DEF Errors, Sendable
  <2> QED
    BY <2>1
<1>2. CASE comm = "REGISTER"
  <2>1. When(Len(tokens) > 1, "MISS_ARGS") \o When(c.registered, "ALREADY_REGISTER") = <<>>
    BY <1>2 DEF Errors, RegisterErrors
  <2>2. When(c.registered, "ALREADY_REGISTER") \in Seq(CommandResult)
    <3>1. <<"ALREADY_REGISTER">> \in Seq(CommandResult) /\ <<>> \in Seq(CommandResult)
      BY DEF CommandResult
    <3> QED
      BY <3>1 DEF When
  <2>3. When(c.registered, "ALREADY_REGISTER") = <<>>
    BY <2>1, <2>2, NoErrors DEF CommandResult
  <2> QED
    BY <1>1, <1>2, <2>3, NoError
<1>3. CASE comm = "SEND_RSVP"
  <2> DEFINE rest == IF Len(tokens) < 2 THEN <<"MISS_ARGS">>
                     ELSE When(~NamesEvent(tokens), "INVALID_ARG_COMMAND")
  <2>1. unknown \o rest = <<>>
    BY <1>3 DEF Errors
  <2>2. rest \in Seq(CommandResult)
    <3>1. /\ <<"MISS_ARGS">> \in Seq(CommandResult)
          /\ <<"INVALID_ARG_COMMAND">> \in Seq(CommandResult)
          /\ <<>> \in Seq(CommandResult)
      BY DEF CommandResult
    <3> QED
      BY <3>1 DEF When
  <2>3. rest = <<>>
    <3> HIDE DEF rest
    <3> QED
      BY <2>1, <2>2, NoErrors DEF CommandResult
  <2>4. When(~NamesEvent(tokens), "INVALID_ARG_COMMAND") = <<>>
    BY <2>3
  <2> QED
    BY <1>1, <1>3, <2>4, NoError
<1> QED
  BY <1>1, <1>2, <1>3

(* A part of a line asks for what the line does or for nothing.            *)
LEMMA PartRequest ==
  ASSUME NEW line, IsLine(line), tokenize(line) # <<>>,
         CommandOf(tokenize(line)) # "ILLEGAL",
         NEW part \in Parts(UpToNewLine(line)), tokenize(part) # <<>>
  PROVE  Request(part).command \in {CommandOf(tokenize(line)), "ILLEGAL"}
<1>1. Request(part).command = CommandOf(tokenize(part))
  BY DEF Request
<1>2. CASE part = <<"part">>
  <2>1. "part" \notin {Space, NewLine}
    BY Zenon DEF Space, NewLine
  <2> DEFINE word == "part"
  <2>2. word \notin {Space, NewLine} /\ word \notin DOMAIN UpperCase /\ part = <<word>>
    BY <1>2, <2>1, LineAssumption
  <2> HIDE DEF word
  <2>3. tokenize(part) = <<part>> /\ UpToNewLine(part) = part
    BY <2>2, OneWord
  <2>4. CommandOf(tokenize(part)) = getCommandType(part)
    BY <2>3 DEF CommandOf
  <2>5. getCommandType(part) = "ILLEGAL"
    BY <2>2 DEF getCommandType
  <2> QED
    BY <1>1, <2>4, <2>5
<1>3. CASE part \in Prefixes(UpToNewLine(line))
  <2>1. PICK m \in 0 .. Len(UpToNewLine(line)) : part = SubSeq(UpToNewLine(line), 1, m)
    BY <1>3 DEF Prefixes
  <2> QED
    BY <1>1, <2>1, PartCommand
<1> QED
  BY <1>2, <1>3 DEF Parts

(* The server reads in a line what the emClient has read in it.            *)
LEMMA Lines ==
  ASSUME NEW p \in Process, NEW typed \in LineTyped[p]
  PROVE  LET tokens == tokenize(typed)
             comm == CommandOf(tokens)
             r == Request(UpToNewLine(typed))
         IN  /\ comm \in Commands
             /\ NamesEvent(tokens) => EventIdIn(tokens) \in 0 .. IntMax
             /\ comm # "ILLEGAL" =>
                  /\ r.command = comm
                  /\ \A part \in Parts(UpToNewLine(typed)) :
                       tokenize(part) # <<>> => Request(part).command \in {comm, "ILLEGAL"}
             /\ comm = "SEND_RSVP" /\ NamesEvent(tokens) =>
                  Len(r.args) >= 2 /\ isStrNumber(r.args[2]) /\ stoi(r.args[2]) = EventIdIn(tokens)
<1> DEFINE tokens == tokenize(typed)
           comm == CommandOf(tokens)
           r == Request(UpToNewLine(typed))
<1>1. IsLine(typed) /\ tokens # <<>>
  BY LineAssumption DEF validateDies
<1>2. comm \in Commands
  BY CommandType DEF CommandOf
<1>3. NamesEvent(tokens) => EventIdIn(tokens) \in 0 .. IntMax
  <2> DEFINE id == EventIdIn(tokens)
  <2>1. NamesEvent(tokens) => id \in Nat
    BY <1>1, SameEvent
  <2>2. NamesEvent(tokens) => ~(id > IntMax)
    BY LineAssumption DEF validateDies
  <2> HIDE DEF id, tokens
  <2>3. NamesEvent(tokens) => id \in 0 .. IntMax
    BY <2>1, <2>2, ParserAssumption
  <2> QED
    BY <2>3 DEF id
<1>4. comm # "ILLEGAL" => r.command = comm
  BY <1>1, SameCommand DEF Request
<1>5. comm # "ILLEGAL" =>
        \A part \in Parts(UpToNewLine(typed)) :
          tokenize(part) # <<>> => Request(part).command \in {comm, "ILLEGAL"}
  BY <1>1, PartRequest
<1>6. NamesEvent(tokens) =>
        Len(r.args) >= 2 /\ isStrNumber(r.args[2]) /\ stoi(r.args[2]) = EventIdIn(tokens)
  BY <1>1, SameEvent DEF Request
<1> QED
  BY <1>2, <1>3, <1>4, <1>5, <1>6

LEMMA Validated ==
  ASSUME NEW p \in Process, NEW typed \in LineTyped[p], NEW c \in ClientType
  PROVE  LET check == validateCommand(c, typed)
             tokens == tokenize(typed)
         IN  /\ check.client \in ClientType
             /\ check.client.registered = c.registered
             /\ check.client.commandType = CommandOf(tokens)
             /\ check.valid =>
                  /\ CommandOf(tokens) \in Sendable
                  /\ c.registered => CommandOf(tokens) # "REGISTER"
                  /\ CommandOf(tokens) = "SEND_RSVP" =>
                       NamesEvent(tokens) /\ check.client.eventIdSent = EventIdIn(tokens)
<1> DEFINE tokens == tokenize(typed)
           comm == CommandOf(tokens)
           check == validateCommand(c, typed)
           Id(old, asking) == IF comm = asking /\ NamesEvent(tokens) THEN EventIdIn(tokens) ELSE old
           sent == Id(c.eventIdSent, "SEND_RSVP")
           asked == Id(c.eventIdRequest, "GET_RSVPS_LIST")
<1>1. comm \in Commands /\ (NamesEvent(tokens) => EventIdIn(tokens) \in 0 .. IntMax)
  BY Lines
<1>2. check.client = [c EXCEPT !.commandType = comm, !.eventIdSent = sent, !.eventIdRequest = asked]
  BY DEF validateCommand
<1>3. check.valid => Errors(c, tokens) = <<>>
  BY DEF validateCommand
<1>4. sent \in 0 .. IntMax /\ asked \in 0 .. IntMax
  BY <1>1 DEF ClientType
<1>5. comm = "SEND_RSVP" /\ NamesEvent(tokens) => sent = EventIdIn(tokens)
  OBVIOUS
<1> HIDE DEF comm, sent, asked, check
<1>6. /\ check.client \in ClientType
      /\ check.client.registered = c.registered
      /\ check.client.commandType = comm
      /\ check.client.eventIdSent = sent
  BY <1>1, <1>2, <1>4 DEF ClientType
<1>7. check.valid => /\ comm \in Sendable
                     /\ c.registered => comm # "REGISTER"
                     /\ comm = "SEND_RSVP" => NamesEvent(tokens)
  BY <1>3, ValidCommand DEF comm
<1> QED
  BY <1>5, <1>6, <1>7 DEF comm, check

LEMMA NewClients ==
  /\ NewClient \in ClientType
  /\ \A c \in ClientType : /\ AtPrompt(c) \in ClientType
                           /\ AtPrompt(c).registered = c.registered
BY ParserAssumption DEF NewClient, ClientType, AtPrompt, Commands

(* The end of a process, from what it leaves behind at the server.         *)
LEMMA EndInv ==
  ASSUME SystemInv, NEW q \in Process, End(q), UNCHANGED lifetime,
         Known(q)' = Known(q), unheard[q] \subseteq unheard'[q],
         Known(q) => Doubt(q)',
         \/ "UNREGISTER" \in unheard'[q]
         \/ \A id \in accepted'[q] \ misread'[q] : IsGuest(q, id)'
  PROVE  ClientInv(q)'
<1>1. /\ phase'[q] = "down" /\ client'[q] = NewClient
      /\ request'[q] = NoRequest /\ response'[q] = NoResponse /\ memberOf'[q] = 0
      /\ lifetime \in Nat \ {0}
  BY SystemAssumption DEF SystemInv, Types, End
<1>2. UnderWay(q)' /\ Answered(q)' /\ Understood(q)'
  BY <1>1 DEF UnderWay, Answered, Understood
<1>3. Membership(q)'
  BY <1>1 DEF Membership, NewClient
<1>4. Acceptances(q)'
  BY <1>1 DEF Acceptances, Here
<1> QED
  BY <1>2, <1>3, <1>4 DEF ClientInv

LEMMA EndTypes ==
  ASSUME SystemInv, NEW q \in Process, End(q), UNCHANGED <<running, lifetime>>,
         DOMAIN accepted' = Process, DOMAIN misread' = Process,
         unheard' \in [Process -> SUBSET (Commands \cup {"membership"})]
  PROVE  Types'
<1>1. lifetime \in Nat /\ Types
  BY SystemAssumption DEF SystemInv, Types
<1>2. phase' \in [Process -> {"down", "prompt", "sent", "answered"}]
  BY <1>1 DEF Types, End
<1>3. client' \in [Process -> ClientType]
  BY <1>1, NewClients DEF Types, End
<1>4. DOMAIN request' = Process /\ DOMAIN response' = Process
  BY <1>1 DEF Types, End
<1>5. memberOf' \in [Process -> 0 .. lifetime]
  BY <1>1 DEF Types, End
<1> QED
  BY <1>1, <1>2, <1>3, <1>4, <1>5 DEF Types

LEMMA StartClientInv ==
  ASSUME SystemInv, NEW q \in Process, StartClient(q)
  PROVE  SystemInv'
<1>1. /\ phase'[q] = "prompt" /\ client'[q] = NewClient /\ Quiet
      /\ UNCHANGED <<request, response, leftBehind, history>>
      /\ \A p \in Process : p # q => Same(p)
  BY DEF SystemInv, Types, StartClient, Same, history
<1>2. Types'
  BY NewClients DEF SystemInv, Types, StartClient, Quiet, server, history
<1>3. Left'
  BY <1>1 DEF SystemInv, Left, history
<1>4. ServerInv' /\ (\A p, id : IsGuest(p, id)' = IsGuest(p, id)) /\ Known(q)' = Known(q)
  BY SameServer DEF SystemInv, StartClient, Quiet, server, state, Known
<1>5. phase[q] = "down" /\ ClientInv(q) /\ lifetime \in Nat \ {0}
  BY SystemAssumption DEF StartClient, SystemInv, Types
<1>6. ClientInv(q)'
  <2>1. UnderWay(q)'
    BY <1>1, <1>5 DEF ClientInv, UnderWay, history
  <2>2. Answered(q)' /\ Understood(q)'
    BY <1>1 DEF Answered, Understood
  <2>3. Membership(q)'
    <3>1. ~Removed(q) /\ ~Registering(q)
      BY <1>5 DEF Removed, Registering, Here
    <3>2. ~client'[q].registered /\ Doubt(q)' = Doubt(q)
      BY <1>1 DEF NewClient, Doubt, history
    <3> QED
      BY <1>1, <1>4, <1>5, <3>1, <3>2 DEF ClientInv, Membership, history
  <2>4. Acceptances(q)'
    BY <1>1, <1>4, <1>5 DEF ClientInv, Acceptances, Removed, Here, history
  <2> QED
    BY <2>1, <2>2, <2>3, <2>4 DEF ClientInv
<1> QED
  BY <1>1, <1>2, <1>3, <1>6, QuietStep DEF StartClient, history

(* The connection is refused: a server that does not run knows nobody.     *)
LEMMA RefusedInv ==
  ASSUME SystemInv, NEW q \in Process, phase[q] = "prompt", ~running, Quiet, End(q),
         UNCHANGED <<lifetime, accepted, misread, unheard, leftBehind>>
  PROVE  SystemInv'
<1>1. /\ ServerInv' /\ (\A p, id : IsGuest(p, id)' = IsGuest(p, id))
      /\ Known(q)' = Known(q) /\ ~Known(q)
  BY SameServer DEF SystemInv, ServerInv, Positions, Quiet, server, state, Known
<1>2. Types'
  BY EndTypes DEF SystemInv, Types, Quiet, server
<1>3. \A p \in Process : p # q => Same(p)
  BY DEF SystemInv, Types, End, Same
<1>4. Left'
  BY DEF SystemInv, Left
<1>5. "UNREGISTER" \in unheard'[q] \/ \A id \in accepted'[q] \ misread'[q] : IsGuest(q, id)'
  BY <1>1 DEF SystemInv, ClientInv, Acceptances, Removed, Here
<1>6. ClientInv(q)'
  BY <1>1, <1>5, EndInv
<1> QED
  BY <1>2, <1>3, <1>4, <1>6, QuietStep

(* validateCommand refuses a line.                                         *)
LEMMA InvalidLineInv ==
  ASSUME SystemInv, NEW q \in Process, NEW typed \in LineTyped[q], phase[q] = "prompt",
         client' = [client EXCEPT ![q] = AtPrompt(validateCommand(client[q], typed).client)],
         Quiet, UNCHANGED <<phase, request, response, history, leftBehind>>
  PROVE  SystemInv'
<1> DEFINE c == AtPrompt(validateCommand(client[q], typed).client)
<1>1. c \in ClientType /\ c.registered = client[q].registered
  BY Validated, NewClients DEF SystemInv, Types
<1> HIDE DEF c
<1>2. client' = [client EXCEPT ![q] = c]
  BY DEF c
<1>3. client'[q] = c /\ \A p \in Process : p # q => Same(p)
  BY <1>2 DEF SystemInv, Types, Same, history
<1>4. Types'
  BY <1>1, <1>2 DEF SystemInv, Types, Quiet, server, history
<1>5. Left'
  BY DEF SystemInv, Left, history
<1>6. (\A p, id : IsGuest(p, id)' = IsGuest(p, id)) /\ Known(q)' = Known(q)
  BY SameServer DEF SystemInv, Quiet, server, state, Known
<1>7. ClientInv(q)'
  <2>1. UnderWay(q)'
    BY <1>1, <1>3 DEF SystemInv, ClientInv, UnderWay, history
  <2>2. Answered(q)' /\ Understood(q)'
    BY DEF Answered, Understood
  <2>3. Membership(q)'
    BY <1>1, <1>3, <1>6 DEF SystemInv, ClientInv, Membership, Doubt, Removed, Registering,
      Here, history
  <2>4. Acceptances(q)'
    BY <1>6 DEF SystemInv, ClientInv, Acceptances, Removed, Here, history
  <2> QED
    BY <2>1, <2>2, <2>3, <2>4 DEF ClientInv
<1> QED
  BY <1>3, <1>4, <1>5, <1>7, QuietStep DEF history

(* A valid line is sent.                                                   *)
LEMMA SentLineInv ==
  ASSUME SystemInv, NEW q \in Process, NEW typed \in LineTyped[q], phase[q] = "prompt",
         running, validateCommand(client[q], typed).valid,
         phase' = [phase EXCEPT ![q] = "sent"],
         client' = [client EXCEPT ![q] = validateCommand(client[q], typed).client],
         request' = [request EXCEPT ![q] = Request(UpToNewLine(typed))],
         Quiet, UNCHANGED <<response, history, leftBehind>>
  PROVE  SystemInv'
<1> DEFINE c == validateCommand(client[q], typed).client
           comm == CommandOf(tokenize(typed))
           r == Request(UpToNewLine(typed))
<1>1. /\ c \in ClientType /\ c.registered = client[q].registered
      /\ c.commandType = comm /\ comm \in Sendable
      /\ c.registered => comm # "REGISTER"
      /\ comm = "SEND_RSVP" =>
           NamesEvent(tokenize(typed)) /\ c.eventIdSent = EventIdIn(tokenize(typed))
  BY Validated DEF SystemInv, Types
<1> HIDE DEF c
<1>2. client' = [client EXCEPT ![q] = c]
  BY DEF c
<1>3. /\ client'[q] = c /\ phase'[q] = "sent" /\ request'[q] = r
      /\ \A p \in Process : p # q => Same(p)
  BY <1>2 DEF SystemInv, Types, Same, history
<1>4. Types'
  BY <1>1, <1>2 DEF SystemInv, Types, Quiet, server, history
<1>5. Left'
  BY DEF SystemInv, Left, history
<1>6. (\A p, id : IsGuest(p, id)' = IsGuest(p, id)) /\ Known(q)' = Known(q)
  BY SameServer DEF SystemInv, Quiet, server, state, Known
<1>7. ClientInv(q)'
  <2>1. Sent(q)'
    BY <1>1, <1>3 DEF Sent
  <2>2. UnderWay(q)'
    BY <1>1, <1>3, <2>1 DEF SystemInv, ClientInv, UnderWay, Quiet, server, history
  <2>3. Answered(q)' /\ Understood(q)'
    BY <1>3 DEF Answered, Understood
  <2>4. Membership(q)'
    BY <1>1, <1>3, <1>6 DEF SystemInv, ClientInv, Membership, Doubt, Removed, Registering,
      Here, history
  <2>5. Acceptances(q)'
    BY <1>3, <1>6 DEF SystemInv, ClientInv, Acceptances, Removed, Here, history
  <2> QED
    BY <2>2, <2>3, <2>4, <2>5 DEF ClientInv
<1> QED
  BY <1>3, <1>4, <1>5, <1>7, QuietStep DEF history

LEMMA TypeLineInv ==
  ASSUME SystemInv, NEW q \in Process, NEW typed \in LineTyped[q], TypeLine(q, typed)
  PROVE  SystemInv'
<1> DEFINE check == validateCommand(client[q], typed)
<1>1. CASE check.valid /\ ~running
  BY <1>1, RefusedInv DEF TypeLine, history
<1>2. CASE check.valid /\ running
  BY <1>2, SentLineInv DEF TypeLine
<1>3. CASE ~check.valid
  BY <1>3, InvalidLineInv DEF TypeLine
<1> QED
  BY <1>1, <1>2, <1>3

-----------------------------------------------------------------------------
(* Only the registered are guests of an event.                             *)
LEMMA GuestsAreKnown ==
  ASSUME ServerInv, NEW p, NEW id, IsGuest(p, id)
  PROVE  Known(p)
<1>1. id \in DOMAIN eventsMap /\ UpperName(p) \in S!EventOf(id).guestsNames
  BY DEF IsGuest
<1>2. S!EventOf(id) = P!EventOf(id)
  BY DEF S!EventOf, P!EventOf
<1>3. eventsMap[id] \in DOMAIN eventList
  BY <1>1 DEF ServerInv, Positions
<1>4. P!ToSet(P!EventOf(id).RSVP_List) = P!EventOf(id).guestsNames
  BY <1>3 DEF ServerInv, P!StateInv, P!GuestListsAgree, P!GuestsAgree, P!EventOf
<1>5. P!ToSet(P!EventOf(id).RSVP_List) \subseteq clientsSet
  BY <1>1 DEF ServerInv, P!StateInv, P!GuestsAreRegistered
<1> QED
  BY <1>1, <1>2, <1>4, <1>5 DEF Known

(* A handled request of q, and the others.                                 *)
LEMMA OthersUnaffected ==
  ASSUME SystemInv, NEW q \in Process, NEW r, Effects(q, r), UNCHANGED running,
         NEW p \in Process, p # q, Same(p)
  PROVE  ClientInv(p)'
<1>1. UpperName(p) # UpperName(q)
  BY Names
<1>2. Known(p)' = Known(p)
  BY <1>1 DEF Effects, NamesAfter, Known, UpperName
<1>3. \A id : IsGuest(p, id) => IsGuest(p, id)'
  BY DEF Effects, GuestsAfter, IsGuest
<1> QED
  BY <1>2, <1>3, Bystander DEF SystemInv

(* The markers in the answers.                                             *)
LEMMA Texts ==
  ASSUME NEW r
  PROVE  /\ r.result = "SUCCESS" => TextOf(r) = {"SUCCESS"}
         /\ r.result = "NOT_REGISTERED" => TextOf(r) = {"ERROR: ", "REGISTER"}
         /\ r.result = "ALREADY_REGISTERED" => "ERROR: " \in TextOf(r)
         /\ r.result \in {"CREATED", "ALREADY_SENT"} => TextOf(r) = {}
         /\ r.result \in {"NO_EVENT", "INVALID_ARGUMENT", "ILLEGAL_COMMAND"} =>
              TextOf(r) = {"ERROR: "}
BY DEF TextOf

LEMMA AnswerTypes ==
  ASSUME SystemInv, NEW q \in Process, NEW result, NEW says, NEW accepts, NEW whole,
         Answer(q, result, says, accepts, whole), UNCHANGED <<running, client, history>>
  PROVE  /\ Types'
         /\ phase'[q] = "answered" /\ request'[q] = NoRequest
         /\ response'[q] = [result |-> result, says |-> says, accepts |-> accepts,
                            whole |-> whole, from |-> lifetime]
         /\ \A p \in Process : p # q => Same(p)
<1>1. Types'
  BY DEF SystemInv, Types, Answer, history
<1> QED
  BY <1>1 DEF SystemInv, Types, Answer, Same, history

LEMMA HandledInv ==
  ASSUME SystemInv, NEW q \in Process, phase[q] = "sent", NEW r, NEW whole \in BOOLEAN,
         r.command \in {client[q].commandType, "ILLEGAL"},
         whole => r.command = client[q].commandType,
         Effects(q, r), Answer(q, reply'.result, TextOf(reply'), AcceptedBy(reply'), whole),
         UNCHANGED <<running, client, leftBehind, history>>
  PROVE  SystemInv'
<1> DEFINE comm == client[q].commandType
           result == reply'.result
           says == TextOf(reply')
           accepts == AcceptedBy(reply')
<1>1. /\ Types'
      /\ phase'[q] = "answered" /\ request'[q] = NoRequest
      /\ response'[q] = [result |-> result, says |-> says, accepts |-> accepts,
                         whole |-> whole, from |-> lifetime]
      /\ \A p \in Process : p # q => Same(p)
      /\ UNCHANGED <<client, lifetime, memberOf, accepted, misread, unheard>>
  BY AnswerTypes DEF history
<1>2. /\ result = "SUCCESS" => says = {"SUCCESS"}
      /\ result = "NOT_REGISTERED" => says = {"ERROR: ", "REGISTER"}
      /\ result = "ALREADY_REGISTERED" => "ERROR: " \in says
      /\ result \in {"CREATED", "ALREADY_SENT"} => says = {}
      /\ result \in {"NO_EVENT", "INVALID_ARGUMENT", "ILLEGAL_COMMAND"} => says = {"ERROR: "}
  BY Texts
<1> HIDE DEF says, accepts
<1>3. ASSUME NEW p \in Process, p # q
      PROVE  ClientInv(p)'
  BY <1>1, <1>3, OthersUnaffected
<1>4. Left'
  BY <1>1 DEF SystemInv, Left
<1>5. /\ ClientInv(q) /\ ServerInv /\ comm \in Sendable /\ lifetime \in Nat \ {0}
      /\ client[q].registered => comm # "REGISTER"
      /\ ~Removed(q) /\ ~Registering(q)
  BY SystemAssumption DEF SystemInv, Types, ClientInv, UnderWay, Removed, Registering, Here
<1>6. /\ result = "SUCCESS" /\ comm = "REGISTER" => Known(q)'
      /\ "SUCCESS" \in says /\ comm = "REGISTER" => Known(q)'
      /\ "SUCCESS" \in says /\ comm = "UNREGISTER" => ~Known(q)' /\ result = "SUCCESS"
      /\ Known(q) /\ ~Known(q)' => comm = "UNREGISTER" /\ result = "SUCCESS"
      /\ Known(q)' /\ ~Known(q) => comm = "REGISTER" /\ result = "SUCCESS"
  <2>1. UpperName(q)' = UpperName(q)
    BY DEF UpperName
  <2>2. CASE r.command = "REGISTER"
    BY <1>2, <2>1, <2>2 DEF Effects, NamesAfter, ResultAfter, Known
  <2>3. CASE r.command = "UNREGISTER"
    BY <1>2, <2>1, <2>3 DEF Effects, NamesAfter, ResultAfter, Known
  <2>4. CASE r.command = "ILLEGAL"
    BY <1>2, <2>1, <2>4 DEF Effects, NamesAfter, ResultAfter, Known
  <2>5. CASE r.command \notin {"REGISTER", "UNREGISTER", "ILLEGAL"}
    BY <2>1, <2>5 DEF Effects, NamesAfter, Known
  <2> QED
    BY <2>2, <2>3, <2>4, <2>5
<1>7. UnderWay(q)'
  BY <1>1, <1>5 DEF ClientInv, UnderWay
<1>8. Answered(q)'
  <2>1. /\ response'[q].from = lifetime /\ lifetime' = lifetime
        /\ response'[q].says = says /\ response'[q].result = result
        /\ client'[q].commandType = comm /\ IsResponse(response'[q])
    BY <1>1 DEF IsResponse
  <2>2. Removed(q)' \/ Registering(q)' => says = {"SUCCESS"}
    BY <1>2, <2>1 DEF Removed, Registering
  <2> HIDE DEF result, comm
  <2> QED
    BY <1>5, <1>6, <2>1, <2>2 DEF Answered, IsResponse
<1>9. Understood(q)'
  <2> SUFFICES ASSUME whole, comm \notin {"GET_RSVPS_LIST", "GET_TOP_5"}
               PROVE  LET verdict == Verdict(comm, says)
                      IN  CASE result \in {"SUCCESS", "CREATED"} -> verdict = "done"
                            [] result = "ALREADY_SENT" -> verdict = "already_sent"
                            [] OTHER -> verdict = "failed"
    BY <1>1 DEF Understood
  <2>1. r.command = comm
    OBVIOUS
  <2>2. CASE comm = "REGISTER"
    BY <1>2, <2>1, <2>2 DEF Effects, ResultAfter, Verdict
  <2>3. CASE comm = "UNREGISTER"
    BY <1>2, <2>1, <2>3 DEF Effects, ResultAfter, Verdict
  <2>4. CASE comm = "CREATE"
    BY <1>2, <2>1, <2>4 DEF Effects, ResultAfter, Verdict
  <2>5. CASE comm = "SEND_RSVP"
    <3>1. result \in {"NOT_REGISTERED", "NO_EVENT", "INVALID_ARGUMENT", "SUCCESS", "ALREADY_SENT"}
      BY <2>1, <2>5 DEF Effects, ResultAfter
    <3> HIDE DEF result
    <3> QED
      BY <1>2, <2>5, <3>1 DEF Verdict
  <2> QED
    BY <1>5, <2>2, <2>3, <2>4, <2>5 DEF Sendable
<1>10. Membership(q)'
  <2>1. /\ Removed(q)' <=> comm = "UNREGISTER" /\ result = "SUCCESS"
        /\ Registering(q)' <=> comm = "REGISTER" /\ result = "SUCCESS"
        /\ Doubt(q)' <=> Doubt(q)
    BY <1>1 DEF Removed, Registering, Here, Doubt
  <2> QED
    BY <1>1, <1>5, <1>6, <2>1 DEF ClientInv, Membership
<1>11. Acceptances(q)'
  <2>1. CASE "UNREGISTER" \in unheard[q]
    BY <1>1, <2>1 DEF Acceptances
  <2>2. CASE /\ "UNREGISTER" \notin unheard[q]
             /\ comm = "UNREGISTER" /\ result = "SUCCESS"
    BY <1>1, <2>2 DEF Acceptances, Removed, Here
  <2>3. CASE /\ "UNREGISTER" \notin unheard[q]
             /\ ~(comm = "UNREGISTER" /\ result = "SUCCESS")
    <3>1. ASSUME NEW id \in accepted[q] \ misread[q]
          PROVE  IsGuest(q, id)'
      <4>1. IsGuest(q, id)
        BY <1>5, <2>3 DEF ClientInv, Acceptances
      <4>2. Known(q) /\ id \in DOMAIN eventsMap
        BY <1>5, <4>1, GuestsAreKnown DEF IsGuest
      <4>3. CASE r.command = "UNREGISTER"
        BY <2>3, <4>2, <4>3 DEF Effects, ResultAfter, Known
      <4>4. CASE r.command # "UNREGISTER"
        BY <4>1, <4>2, <4>4 DEF Effects, GuestsAfter
      <4> QED
        BY <4>3, <4>4
    <3>2. \A id \in accepts : IsGuest(q, id)'
      BY DEF Effects, AcceptsAfter, accepts
    <3>3. /\ accepted'[q] = accepted[q] /\ misread'[q] = misread[q]
          /\ response'[q].accepts = accepts
      BY <1>1
    <3> QED
      BY <3>1, <3>2, <3>3 DEF Acceptances
  <2> QED
    BY <2>1, <2>2, <2>3
<1> QED
  BY <1>1, <1>3, <1>4, <1>7, <1>8, <1>9, <1>10, <1>11 DEF SystemInv, ClientInv, Effects

(* The request that q has sent, and any part of it.                        *)
LEMMA SentRequests ==
  ASSUME SystemInv, NEW q \in Process, phase[q] = "sent"
  PROVE  /\ request[q].command = client[q].commandType
         /\ client[q].commandType = "SEND_RSVP" =>
              client[q].eventIdSent = stoi(request[q].args[2])
         /\ \A part \in Parts(request[q].text) :
              tokenize(part) # <<>> =>
                Request(part).command \in {client[q].commandType, "ILLEGAL"}
<1>1. UnderWay(q)
  BY DEF SystemInv, ClientInv
<1>2. PICK typed \in LineTyped[q] :
        /\ request[q] = Request(UpToNewLine(typed))
        /\ client[q].commandType = CommandOf(tokenize(typed))
        /\ client[q].commandType = "SEND_RSVP" =>
             NamesEvent(tokenize(typed)) /\ client[q].eventIdSent = EventIdIn(tokenize(typed))
  BY <1>1 DEF UnderWay, Sent
<1>3. client[q].commandType # "ILLEGAL"
  BY <1>1 DEF UnderWay, Sendable
<1>4. request[q].text = UpToNewLine(typed)
  BY <1>2 DEF Request
<1> QED
  BY <1>2, <1>3, <1>4, Lines

LEMMA ServeInv ==
  ASSUME SystemInv, NEW q \in Process, Serve(q)
  PROVE  SystemInv'
<1>1. Effects(q, request[q])
  BY HandlerEffects DEF Serve, SystemInv
<1>2. Answer(q, reply'.result, TextOf(reply'), AcceptedBy(reply'), TRUE)
  BY DEF Serve
<1>3. request[q].command = client[q].commandType
  BY SentRequests DEF Serve
<1> QED
  BY <1>1, <1>2, <1>3, HandledInv DEF Serve

(* Nothing was read: the answer is empty.                                  *)
LEMMA NothingReadInv ==
  ASSUME SystemInv, NEW q \in Process, phase[q] = "sent", Answer(q, "NONE", {}, {}, FALSE),
         Quiet, UNCHANGED <<client, leftBehind, history>>
  PROVE  SystemInv'
<1>1. /\ Types'
      /\ phase'[q] = "answered" /\ request'[q] = NoRequest
      /\ response'[q] = [result |-> "NONE", says |-> {}, accepts |-> {}, whole |-> FALSE,
                         from |-> lifetime]
      /\ \A p \in Process : p # q => Same(p)
      /\ UNCHANGED <<client, lifetime, memberOf, accepted, misread, unheard>>
  <2>1. UNCHANGED <<running, client, history>>
    BY DEF Quiet, server
  <2>2. /\ Types'
        /\ phase'[q] = "answered" /\ request'[q] = NoRequest
        /\ response'[q] = [result |-> "NONE", says |-> {}, accepts |-> {}, whole |-> FALSE,
                           from |-> lifetime]
        /\ \A p \in Process : p # q => Same(p)
    BY <2>1, AnswerTypes
  <2> QED
    BY <2>1, <2>2 DEF history
<1>2. (\A p, id : IsGuest(p, id)' = IsGuest(p, id)) /\ Known(q)' = Known(q)
  BY SameServer DEF SystemInv, Quiet, server, state, Known
<1>3. /\ ClientInv(q) /\ lifetime \in Nat \ {0}
      /\ ~Removed(q) /\ ~Registering(q)
  BY SystemAssumption DEF SystemInv, Types, Removed, Registering, Here
<1>4. Left'
  BY <1>1 DEF SystemInv, Left
<1>5. ~Removed(q)' /\ ~Registering(q)' /\ Doubt(q)' = Doubt(q)
  BY <1>1 DEF Removed, Registering, Doubt
<1>6. UnderWay(q)' /\ Understood(q)'
  BY <1>1, <1>3 DEF ClientInv, UnderWay, Understood
<1>7. Answered(q)'
  BY <1>1, <1>3, <1>5 DEF Answered, IsResponse
<1>8. Membership(q)'
  BY <1>1, <1>2, <1>3, <1>5 DEF ClientInv, Membership
<1>9. Acceptances(q)'
  BY <1>1, <1>2, <1>3, <1>5 DEF ClientInv, Acceptances
<1>10. ClientInv(q)'
  BY <1>6, <1>7, <1>8, <1>9 DEF ClientInv
<1> QED
  BY <1>1, <1>4, <1>10, QuietStep

LEMMA ServePartInv ==
  ASSUME SystemInv, NEW q \in Process, ServePart(q)
  PROVE  SystemInv'
<1>1. ASSUME NEW part \in Parts(request[q].text), tokenize(part) # <<>>,
             parseCommand(NameOf[q], Request(part)),
             Answer(q, reply'.result, TextOf(reply'), AcceptedBy(reply'), FALSE)
      PROVE  SystemInv'
  <2>1. Effects(q, Request(part))
    BY <1>1, HandlerEffects DEF ServePart, SystemInv
  <2>2. Request(part).command \in {client[q].commandType, "ILLEGAL"}
    BY <1>1, SentRequests DEF ServePart
  <2> QED
    BY <1>1, <2>1, <2>2, HandledInv DEF ServePart
<1>2. CASE Answer(q, "NONE", {}, {}, FALSE) /\ Quiet
  BY <1>2, NothingReadInv DEF ServePart
<1> QED
  BY <1>1, <1>2 DEF ServePart

(* A request without a sender changes what the server knows of a name, or  *)
(* its acceptances, only as those who may have held the name left it open. *)
LEMMA ServeLeftBehindInv ==
  ASSUME SystemInv, NEW left \in leftBehind, ServeLeftBehind(left)
  PROVE  SystemInv'
<1> DEFINE r == left.request
           comm == left.request.command
<1>1. PICK q \in Process : left.name = NameOf[q] /\ comm \in unheard[q]
  BY DEF SystemInv, Left
<1>2. Effects(q, r)
  BY <1>1, HandlerEffects DEF ServeLeftBehind, SystemInv
<1>3. Types'
  BY DEF SystemInv, Types, ServeLeftBehind, history
<1>4. Left'
  BY DEF SystemInv, Left, ServeLeftBehind, history
<1>5. /\ UNCHANGED <<running, phase, client, request, response, lifetime, memberOf,
                     accepted, misread, unheard>>
      /\ \A p \in Process : Same(p)
  BY DEF ServeLeftBehind, Same, history
<1>6. ASSUME NEW p \in Process, p # q
      PROVE  ClientInv(p)'
  BY <1>2, <1>5, <1>6, OthersUnaffected
<1>7. ClientInv(q)
  BY DEF SystemInv
<1>8. /\ Known(q) /\ ~Known(q)' => "UNREGISTER" \in unheard[q]
      /\ Known(q)' /\ ~Known(q) => "REGISTER" \in unheard[q]
  <2>1. UpperName(q)' = UpperName(q)
    BY DEF UpperName
  <2> QED
    BY <1>1, <1>2, <2>1 DEF Effects, NamesAfter, Known
<1>9. /\ Removed(q)' = Removed(q) /\ Registering(q)' = Registering(q)
      /\ Doubt(q)' = Doubt(q) /\ Here(q)' = Here(q)
  BY <1>5 DEF Removed, Registering, Doubt, Here
<1>10. UnderWay(q)' /\ Understood(q)'
  BY <1>5, <1>7 DEF ClientInv, UnderWay, Sent, Understood
<1>11. Answered(q)'
  BY <1>5, <1>7, <1>8, <1>9 DEF ClientInv, Answered, IsResponse
<1>12. Membership(q)'
  BY <1>5, <1>7, <1>8, <1>9 DEF ClientInv, Membership, Doubt
<1>13. Acceptances(q)'
  <2>1. CASE "UNREGISTER" \in unheard[q]
    BY <1>5, <2>1 DEF Acceptances
  <2>2. CASE "UNREGISTER" \notin unheard[q]
    <3>1. comm # "UNREGISTER"
      BY <1>1, <2>2
    <3>2. \A id : IsGuest(q, id) => IsGuest(q, id)'
      BY <1>2, <3>1 DEF Effects, GuestsAfter, IsGuest
    <3> QED
      BY <1>5, <1>7, <1>9, <3>2 DEF ClientInv, Acceptances
  <2> QED
    BY <2>1, <2>2
<1> QED
  BY <1>2, <1>3, <1>4, <1>6, <1>10, <1>11, <1>12, <1>13 DEF SystemInv, ClientInv, Effects

(* The emClient reads a part of the answer, and is in doubt of the rest.   *)
LEMMA CutResponseInv ==
  ASSUME SystemInv, NEW q \in Process, CutResponse(q)
  PROVE  SystemInv'
<1> DEFINE comm == client[q].commandType
           lost == IF Waiting(q) THEN {comm} ELSE {}
<1>1. phase[q] = "answered" /\ Quiet /\ ClientInv(q) /\ comm \in Commands /\ Types
  BY DEF CutResponse, SystemInv, Types, ClientType
<1>2. PICK part \in SUBSET response[q].says :
        response' = [response EXCEPT ![q].says = part, ![q].whole = FALSE]
  BY DEF CutResponse
<1>3. unheard' = [unheard EXCEPT ![q] = @ \cup lost]
  BY DEF CutResponse
<1> HIDE DEF lost
<1>4. unheard'[q] = unheard[q] \cup lost
  BY <1>1, <1>3 DEF Types
<1>5. lost = IF Here(q) THEN {comm} ELSE {}
  BY <1>1 DEF lost, Waiting, Here
<1>6. /\ response'[q].says = part /\ response'[q].whole = FALSE
      /\ response'[q].result = response[q].result /\ response'[q].from = response[q].from
      /\ response'[q].accepts = response[q].accepts
      /\ UNCHANGED <<phase, client, request, leftBehind, lifetime, memberOf, accepted, misread>>
      /\ IsResponse(response'[q])
  <2> DEFINE old == response[q]
  <2>1. old = [result |-> old.result, says |-> old.says, accepts |-> old.accepts,
               whole |-> old.whole, from |-> old.from]
    BY <1>1 DEF ClientInv, Answered, IsResponse
  <2>2. response'[q] = [old EXCEPT !.says = part, !.whole = FALSE]
    BY <1>1, <1>2 DEF Types
  <2>3. response'[q] = [result |-> old.result, says |-> part, accepts |-> old.accepts,
                        whole |-> FALSE, from |-> old.from]
    BY <2>1, <2>2
  <2>4. UNCHANGED <<phase, client, request, leftBehind, lifetime, memberOf, accepted, misread>>
    BY DEF CutResponse
  <2> HIDE DEF old
  <2>5. /\ response'[q].says = part /\ response'[q].whole = FALSE
        /\ response'[q].result = old.result /\ response'[q].from = old.from
        /\ response'[q].accepts = old.accepts
    BY <2>3
  <2>6. IsResponse(response'[q])
    BY <2>3, <2>5 DEF IsResponse
  <2> QED
    BY <2>4, <2>5, <2>6 DEF old
<1>7. \A p \in Process : p # q => Same(p)
  BY <1>1, <1>2, <1>3, <1>6 DEF Types, Same
<1>8. Types'
  <2>1. lost \in SUBSET (Commands \cup {"membership"})
    BY <1>1 DEF lost
  <2>2. unheard' \in [Process -> SUBSET (Commands \cup {"membership"})]
    BY <1>1, <1>3, <2>1 DEF Types
  <2>3. DOMAIN response' = Process
    BY <1>1, <1>2 DEF Types
  <2> QED
    BY <1>1, <1>6, <2>2, <2>3 DEF Types, Quiet, server
<1>9. Left'
  <2>1. \A p \in Process : unheard[p] \subseteq unheard'[p]
    BY <1>4, <1>7 DEF Same
  <2> QED
    BY <1>6, <2>1 DEF SystemInv, Left
<1>10. (\A p, id : IsGuest(p, id)' = IsGuest(p, id)) /\ Known(q)' = Known(q)
  BY <1>1, SameServer DEF SystemInv, Quiet, server, state, Known
<1>11. /\ Removed(q)' = Removed(q) /\ Registering(q)' = Registering(q)
       /\ Here(q)' = Here(q) /\ (Doubt(q) => Doubt(q)')
       /\ client[q].registered => comm # "REGISTER" /\ comm # "membership"
  BY <1>1, <1>4, <1>6 DEF Removed, Registering, Here, Doubt, ClientInv, UnderWay,
    Commands
<1>12. UnderWay(q)' /\ Understood(q)'
  BY <1>1, <1>6 DEF ClientInv, UnderWay, Understood
<1>13. Answered(q)'
  BY <1>1, <1>4, <1>5, <1>6, <1>10, <1>11 DEF ClientInv, Answered, IsResponse, Here,
    Removed, Registering
<1>14. Membership(q)'
  <2>1. client[q].registered => Doubt(q)' = Doubt(q)
    BY <1>4, <1>5, <1>11 DEF Doubt
  <2> QED
    BY <1>1, <1>4, <1>6, <1>10, <1>11, <2>1 DEF ClientInv, Membership
<1>15. Acceptances(q)'
  BY <1>1, <1>4, <1>6, <1>10, <1>11 DEF ClientInv, Acceptances
<1> QED
  BY <1>1, <1>6, <1>7, <1>8, <1>9, <1>12, <1>13, <1>14, <1>15, QuietStep DEF ClientInv

-----------------------------------------------------------------------------
(* A process ends that may have something at the server.                   *)
LEMMA Abandoned ==
  ASSUME Types, NEW q \in Process, Abandon(q)
  PROVE  /\ unheard' \in [Process -> SUBSET (Commands \cup {"membership"})]
         /\ unheard[q] \subseteq unheard'[q]
         /\ Waiting(q) => client[q].commandType \in unheard'[q]
         /\ memberOf[q] = lifetime => "membership" \in unheard'[q]
         /\ \A p \in Process : p # q => unheard'[p] = unheard[p]
<1> DEFINE lost == IF Waiting(q) THEN {client[q].commandType} ELSE {}
           member == IF memberOf[q] = lifetime THEN {"membership"} ELSE {}
<1>1. unheard' = [unheard EXCEPT ![q] = (@ \cup lost) \cup member]
  BY DEF Abandon
<1>2. lost \subseteq Commands \cup {"membership"} /\ member \subseteq Commands \cup {"membership"}
  BY DEF Types, ClientType
<1>3. /\ Waiting(q) => client[q].commandType \in lost
      /\ memberOf[q] = lifetime => "membership" \in member
  OBVIOUS
<1> HIDE DEF lost, member
<1> QED
  BY <1>1, <1>2, <1>3 DEF Types

LEMMA QuitInv ==
  ASSUME SystemInv, NEW q \in Process, End(q), Abandon(q), Quiet,
         UNCHANGED <<lifetime, accepted, misread>>, Left'
  PROVE  SystemInv'
<1>1. /\ unheard' \in [Process -> SUBSET (Commands \cup {"membership"})]
      /\ unheard[q] \subseteq unheard'[q]
      /\ Waiting(q) => client[q].commandType \in unheard'[q]
      /\ memberOf[q] = lifetime => "membership" \in unheard'[q]
      /\ \A p \in Process : p # q => unheard'[p] = unheard[p]
  BY Abandoned DEF SystemInv
<1>2. Types'
  BY <1>1, EndTypes DEF SystemInv, Types, Quiet, server
<1>3. \A p \in Process : p # q => Same(p)
  BY <1>1 DEF SystemInv, Types, End, Same
<1>4. (\A p, id : IsGuest(p, id)' = IsGuest(p, id)) /\ Known(q)' = Known(q)
  BY SameServer DEF SystemInv, Quiet, server, state, Known
<1>5. ClientInv(q)
  BY DEF SystemInv
<1>6. Known(q) => Doubt(q)'
  BY <1>1, <1>5 DEF ClientInv, Membership, Doubt, Registering, Here, Waiting
<1>7. "UNREGISTER" \in unheard'[q] \/ \A id \in accepted'[q] \ misread'[q] : IsGuest(q, id)'
  BY <1>1, <1>4, <1>5 DEF ClientInv, Acceptances, Removed, Here, Waiting
<1>8. ClientInv(q)'
  BY <1>1, <1>4, <1>6, <1>7, EndInv
<1> QED
  BY <1>2, <1>3, <1>8, QuietStep

LEMMA ReadFailsInv ==
  ASSUME SystemInv, NEW q \in Process, ReadFails(q)
  PROVE  SystemInv'
<1>1. \A p \in Process : unheard[p] \subseteq unheard'[p]
  BY Abandoned DEF SystemInv, ReadFails
<1>2. Left'
  BY <1>1 DEF SystemInv, Left, ReadFails
<1> QED
  BY <1>2, QuitInv DEF ReadFails

LEMMA KillInv ==
  ASSUME SystemInv, NEW q \in Process, Kill(q)
  PROVE  SystemInv'
<1>1. \A p \in Process : unheard[p] \subseteq unheard'[p]
  BY Abandoned DEF SystemInv, Kill
<1>2. phase[q] = "sent" => request[q].command \in unheard'[q]
  BY Abandoned, SentRequests DEF SystemInv, Kill, Waiting
<1>3. Left'
  <2>1. ASSUME NEW left \in leftBehind'
        PROVE  \E p \in Process : left.name = NameOf[p] /\ left.request.command \in unheard'[p]
    <3>1. CASE left \in leftBehind
      BY <1>1, <3>1 DEF SystemInv, Left
    <3>2. CASE left \notin leftBehind
      <4>1. phase[q] = "sent" /\ left = [name |-> NameOf[q], request |-> request[q]]
        BY <3>2 DEF Kill
      <4> QED
        BY <1>2, <4>1
    <3> QED
      BY <3>1, <3>2
  <2> QED
    BY <2>1 DEF Left
<1> QED
  BY <1>3, QuitInv DEF Kill

-----------------------------------------------------------------------------
(* read and log_response.                                                  *)
LEMMA Logged ==
  ASSUME NEW c \in ClientType, NEW says
  PROVE  LET comm == c.commandType
             verdict == Verdict(comm, says)
             result == log_response(c, says)
         IN  /\ result.client.registered =
                  CASE comm = "REGISTER" /\ verdict # "nothing" -> verdict = "done"
                    [] comm = "UNREGISTER" /\ verdict = "done" -> FALSE
                    [] OTHER -> c.registered
             /\ result.exits <=> \/ comm = "REGISTER" /\ verdict = "failed"
                                 \/ comm = "UNREGISTER" /\ verdict = "done"
             /\ comm \in {"REGISTER", "UNREGISTER"} =>
                  /\ verdict \in {"failed", "done", "nothing"}
                  /\ verdict = "failed" => "ERROR: " \in says
                  /\ verdict = "done" => "SUCCESS" \in says
                  /\ says = {"SUCCESS"} => verdict = "done"
<1> DEFINE comm == c.commandType
           verdict == Verdict(comm, says)
<1>1. comm \in {"REGISTER", "UNREGISTER"} =>
        /\ verdict \in {"failed", "done", "nothing"}
        /\ verdict = "failed" => "ERROR: " \in says
        /\ verdict = "done" => "SUCCESS" \in says
        /\ says = {"SUCCESS"} => verdict = "done"
  BY DEF Verdict
<1> HIDE DEF verdict
<1>2. log_response(c, says).exits <=> \/ comm = "REGISTER" /\ verdict = "failed"
                                      \/ comm = "UNREGISTER" /\ verdict = "done"
  BY DEF log_response, Exits, verdict
<1> DEFINE after == CASE comm = "REGISTER" /\ verdict # "nothing" -> verdict = "done"
                      [] comm = "UNREGISTER" /\ verdict = "done" -> FALSE
                      [] OTHER -> c.registered
<1>3. log_response(c, says).client = [c EXCEPT !.registered = after]
  BY DEF log_response, verdict
<1> HIDE DEF after
<1>4. log_response(c, says).client.registered = after
  BY <1>3 DEF ClientType
<1> QED
  BY <1>1, <1>2, <1>4 DEF after, verdict

(* A name that is taken, or given up: the process ends.                    *)
LEMMA ExitInv ==
  ASSUME SystemInv, NEW q \in Process, phase[q] = "answered",
         log_response(client[q], response[q].says).exits, End(q),
         accepted' = [accepted EXCEPT ![q] = {}], misread' = [misread EXCEPT ![q] = {}], Quiet,
         UNCHANGED <<leftBehind, lifetime, unheard>>
  PROVE  SystemInv'
<1> DEFINE says == response[q].says
           comm == client[q].commandType
<1>1. \/ comm = "REGISTER" /\ "ERROR: " \in says
      \/ comm = "UNREGISTER" /\ "SUCCESS" \in says
  BY Logged DEF SystemInv, Types
<1>2. Types'
  BY EndTypes DEF SystemInv, Types, Quiet, server
<1>3. accepted'[q] = {} /\ \A p \in Process : p # q => Same(p)
  BY DEF SystemInv, Types, End, Same
<1>4. Left'
  BY DEF SystemInv, Left
<1>5. Known(q)' = Known(q)
  BY DEF Quiet, server, state, Known, UpperName
<1>6. ClientInv(q) /\ lifetime \in Nat \ {0}
  BY SystemAssumption DEF SystemInv, Types
<1>7. Known(q) => Doubt(q)
  <2> SUFFICES ASSUME Known(q), ~Doubt(q)
               PROVE  FALSE
    OBVIOUS
  <2>1. memberOf[q] = lifetime \/ Registering(q)
    BY <1>6 DEF ClientInv, Membership
  <2>2. Answered(q) /\ UnderWay(q)
    BY <1>6 DEF ClientInv
  <2>3. CASE comm = "REGISTER" /\ "ERROR: " \in says
    <3>1. memberOf[q] # lifetime
      BY <1>6, <2>2, <2>3 DEF UnderWay
    <3>2. comm \in unheard[q] \/ says = {"SUCCESS"}
      BY <2>1, <2>2, <3>1 DEF Answered
    <3>3. comm \notin unheard[q]
      BY <2>3 DEF Doubt
    <3>4. "ERROR: " \notin {"SUCCESS"}
      OBVIOUS
    <3> HIDE DEF says, comm
    <3> QED
      BY <2>3, <3>2, <3>3, <3>4
  <2>4. CASE comm = "UNREGISTER" /\ "SUCCESS" \in says
    <3>1. memberOf[q] = lifetime
      BY <2>1, <2>4 DEF Registering
    <3>2. Here(q)
      BY <1>6, <2>2, <3>1 DEF Answered, Here
    <3> QED
      BY <2>2, <2>4, <3>2 DEF Answered, Doubt
  <2> QED
    BY <1>1, <2>3, <2>4
<1>8. Doubt(q)' = Doubt(q)
  BY DEF Doubt
<1>9. ClientInv(q)'
  BY <1>3, <1>5, <1>7, <1>8, EndInv
<1> QED
  BY <1>2, <1>3, <1>4, <1>9, QuietStep

(* Otherwise the user is back at the prompt: of what the answer ended or   *)
(* began, log_response has either taken note, or the answer was cut and    *)
(* the client has not heard of it.                                         *)
LEMMA HeardInv ==
  ASSUME SystemInv, NEW q \in Process, LogResponse(q),
         ~log_response(client[q], response[q].says).exits
  PROVE  SystemInv'
<1> DEFINE says == response[q].says
           from == response[q].from
           comm == client[q].commandType
           verdict == Verdict(comm, says)
           result == log_response(client[q], says)
           member == IF comm = "REGISTER" /\ verdict = "done" THEN from ELSE memberOf[q]
           ids == LoggedAsAccepted(q, verdict)
           listed == accepted[q] \cup ids
           doubtful == IF Earned(q, ids) THEN misread[q] \ ids
                       ELSE misread[q] \cup (ids \ accepted[q])
<1>1. /\ phase[q] = "answered" /\ ClientInv(q) /\ Types /\ lifetime \in Nat \ {0}
      /\ comm \in Sendable
  BY SystemAssumption DEF LogResponse, SystemInv, Types, ClientInv, UnderWay
<1>2. /\ result.client.registered =
           CASE comm = "REGISTER" /\ verdict # "nothing" -> verdict = "done"
             [] comm = "UNREGISTER" /\ verdict = "done" -> FALSE
             [] OTHER -> client[q].registered
      /\ comm = "REGISTER" => verdict \in {"done", "nothing"}
      /\ comm = "UNREGISTER" => verdict \in {"failed", "nothing"}
      /\ comm \in {"REGISTER", "UNREGISTER"} =>
           /\ verdict = "done" => "SUCCESS" \in says
           /\ says = {"SUCCESS"} => verdict = "done"
  BY <1>1, Logged DEF Types
<1>3. /\ phase' = [phase EXCEPT ![q] = "prompt"]
      /\ client' = [client EXCEPT ![q] = AtPrompt(result.client)]
      /\ response' = [response EXCEPT ![q] = NoResponse]
      /\ memberOf' = [memberOf EXCEPT ![q] = member]
      /\ accepted' = [accepted EXCEPT ![q] = listed]
      /\ misread' = [misread EXCEPT ![q] = doubtful]
      /\ Quiet /\ UNCHANGED <<request, leftBehind, lifetime, unheard, faults>>
  BY DEF LogResponse
<1> HIDE DEF verdict, result, ids, listed, doubtful
<1>4. client'[q].registered = result.client.registered /\ client'[q] \in ClientType
  <2> DEFINE c == AtPrompt(result.client)
  <2>1. result.client.registered \in BOOLEAN
    BY <1>1, <1>2 DEF Types, ClientType
  <2>2. c = [NewClient EXCEPT !.registered = result.client.registered]
    BY DEF AtPrompt
  <2>3. c.registered = result.client.registered /\ c \in ClientType
    BY <2>1, <2>2, NewClients DEF ClientType
  <2>4. client'[q] = c
    BY <1>1, <1>3 DEF Types
  <2> QED
    BY <2>3, <2>4
<1>5. /\ phase'[q] = "prompt" /\ response'[q] = NoResponse /\ memberOf'[q] = member
      /\ accepted'[q] = listed /\ misread'[q] = doubtful
      /\ \A p \in Process : p # q => Same(p)
  BY <1>1, <1>3 DEF Types, Same
<1>6. from \in 0 .. lifetime /\ member \in 0 .. lifetime
  BY <1>1 DEF ClientInv, Answered, Types
<1> HIDE DEF member
<1>7. Types'
  <2>1. client' \in [Process -> ClientType]
    BY <1>1, <1>3, <1>4 DEF Types
  <2>2. memberOf' \in [Process -> 0 .. lifetime]
    BY <1>1, <1>3, <1>6 DEF Types
  <2> QED
    BY <1>1, <1>3, <2>1, <2>2 DEF Types, Quiet, server
<1>8. Left'
  BY <1>3 DEF SystemInv, Left
<1>9. (\A p, id : IsGuest(p, id)' = IsGuest(p, id)) /\ Known(q)' = Known(q)
  BY <1>3, SameServer DEF SystemInv, Quiet, server, state, Known
<1>10. /\ ~Removed(q)' /\ ~Registering(q)' /\ ~Here(q)' /\ Doubt(q)' = Doubt(q)
       /\ UNCHANGED <<lifetime, unheard>>
  BY <1>3, <1>5 DEF Removed, Registering, Here, Doubt
<1>11. /\ Removed(q) => "UNREGISTER" \in unheard[q]
       /\ Registering(q) => Doubt(q) \/ verdict = "done"
  BY <1>1, <1>2 DEF ClientInv, Answered, Removed, Registering, Doubt
<1>12. comm = "REGISTER" => memberOf[q] = 0 /\ ~client[q].registered
  BY <1>1 DEF ClientInv, UnderWay
<1>13. UnderWay(q)'
  <2>1. request'[q] = NoRequest
    BY <1>1, <1>3 DEF ClientInv, UnderWay
  <2>2. member # 0 => result.client.registered
    BY <1>1, <1>2, <1>12 DEF ClientInv, UnderWay, member
  <2> QED
    BY <1>4, <1>5, <2>1, <2>2 DEF UnderWay
<1>14. Answered(q)' /\ Understood(q)'
  BY <1>5 DEF Answered, Understood
<1>15. Membership(q)'
  <2>1. CASE comm = "REGISTER" /\ verdict = "done"
    <3>1. member = from /\ result.client.registered
      BY <1>2, <2>1 DEF member
    <3>2. CASE from = lifetime
      <4>1. Known(q) \/ "UNREGISTER" \in unheard[q]
        BY <1>1, <1>2, <2>1, <3>2 DEF ClientInv, Answered, Here
      <4> QED
        BY <1>5, <1>6, <1>9, <1>10, <3>1, <3>2, <4>1 DEF Membership
    <3>3. CASE from # lifetime
      <4>1. from < lifetime /\ unheard[q] = {} /\ ~Registering(q)
        BY <1>1, <1>6, <3>3 DEF ClientInv, Answered, Registering, Here
      <4>2. ~Doubt(q)
        BY <4>1 DEF Doubt
      <4>3. ~Known(q)
        BY <1>1, <1>12, <2>1, <4>1, <4>2 DEF ClientInv, Membership
      <4> QED
        BY <1>5, <1>9, <1>10, <3>1, <3>3, <4>2, <4>3 DEF Membership
    <3> QED
      BY <3>2, <3>3
  <2>2. CASE ~(comm = "REGISTER" /\ verdict = "done")
    <3>1. member = memberOf[q]
      BY <2>2 DEF member
    <3>2. ~Registering(q) \/ Doubt(q)
      BY <1>11, <2>2 DEF Registering
    <3>3. result.client.registered = client[q].registered
      BY <1>2, <2>2
    <3> QED
      BY <1>1, <1>4, <1>5, <1>9, <1>10, <1>11, <3>1, <3>2, <3>3 DEF ClientInv, Membership
  <2> QED
    BY <2>1, <2>2
<1>16. Acceptances(q)'
  <2>1. CASE "UNREGISTER" \in unheard[q]
    BY <1>10, <2>1 DEF Acceptances
  <2>2. CASE "UNREGISTER" \notin unheard[q]
    <3>1. /\ \A id \in accepted[q] \ misread[q] : IsGuest(q, id)
          /\ Here(q) => \A id \in response[q].accepts : IsGuest(q, id)
      BY <1>1, <1>11, <2>2 DEF ClientInv, Acceptances
    <3>2. CASE Earned(q, ids)
      <4>1. Here(q) /\ ids \subseteq response[q].accepts
        BY <1>1, <3>2 DEF Earned, Here
      <4>2. listed \ doubtful = (accepted[q] \ misread[q]) \cup ids
        BY <3>2 DEF listed, doubtful
      <4> QED
        BY <1>5, <1>9, <1>10, <3>1, <4>1, <4>2 DEF Acceptances
    <3>3. CASE ~Earned(q, ids)
      <4>1. listed \ doubtful \subseteq accepted[q] \ misread[q]
        BY <3>3 DEF listed, doubtful
      <4> QED
        BY <1>5, <1>9, <1>10, <3>1, <4>1 DEF Acceptances
    <3> QED
      BY <3>2, <3>3
  <2> QED
    BY <2>1, <2>2
<1> QED
  BY <1>3, <1>5, <1>7, <1>8, <1>13, <1>14, <1>15, <1>16, QuietStep DEF ClientInv

LEMMA LogResponseInv ==
  ASSUME SystemInv, NEW q \in Process, LogResponse(q)
  PROVE  SystemInv'
<1>1. CASE log_response(client[q], response[q].says).exits
  BY <1>1, ExitInv DEF LogResponse
<1> QED
  BY <1>1, HeardInv

-----------------------------------------------------------------------------
(* A server without names and events, before it is started or as it ends.  *)
LEMMA EmptyServer ==
  ASSUME clientsSet = {}, eventsMap = <<>>, eventList = <<>>, nextEventId = 1,
         running \in BOOLEAN
  PROVE  ServerInv
<1>1. DOMAIN eventsMap = {} /\ DOMAIN eventList = {} /\ Len(eventList) = 0
  OBVIOUS
<1>2. P!StateTypeOK
  BY <1>1 DEF P!StateTypeOK
<1>3. P!StateInv
  BY <1>1, <1>2 DEF P!StateInv, P!GuestsAreRegistered, P!GuestListsAgree, P!MapKeysAreEventIds
<1>4. Positions
  BY <1>1, ServerConstants DEF Positions
<1> QED
  BY <1>3, <1>4 DEF ServerInv

LEMMA NextEmptyServer ==
  (/\ clientsSet = {} /\ eventsMap = <<>> /\ eventList = <<>> /\ nextEventId = 1
   /\ running \in BOOLEAN)' => ServerInv'
<1>1. /\ clientsSet = {} /\ eventsMap = <<>> /\ eventList = <<>> /\ nextEventId = 1
      /\ running \in BOOLEAN
      => ServerInv
  BY EmptyServer
<1> QED
  BY <1>1, PTL

(* A later server knows nobody: every answer there is comes from an        *)
(* earlier one.                                                            *)
LEMMA ServerStopsInv ==
  ASSUME SystemInv, ServerStops
  PROVE  SystemInv'
<1>1. /\ running /\ ~running' /\ clientsSet' = {} /\ leftBehind' = {}
      /\ lifetime' = lifetime + 1 /\ UNCHANGED <<client, response, memberOf>>
      /\ \A p \in Process :
           /\ phase'[p] = IF phase[p] = "sent" THEN "answered" ELSE phase[p]
           /\ request'[p] = NoRequest /\ accepted'[p] = {}
           /\ misread'[p] = {} /\ unheard'[p] = {}
  BY DEF ServerStops
<1>2. lifetime \in 1 .. MaxServers /\ MaxServers \in Nat
  BY <1>1, SystemAssumption DEF SystemInv, Types
<1>3. ServerInv'
  BY NextEmptyServer DEF ServerStops
<1>4. Types'
  <2>1. phase' \in [Process -> {"down", "prompt", "sent", "answered"}]
    BY DEF SystemInv, Types, ServerStops
  <2>2. memberOf' \in [Process -> 0 .. lifetime']
    BY <1>1, <1>2 DEF SystemInv, Types
  <2>3. unheard' \in [Process -> SUBSET (Commands \cup {"membership"})]
    BY DEF ServerStops
  <2>4. /\ DOMAIN request' = Process /\ DOMAIN response' = Process
        /\ DOMAIN accepted' = Process /\ DOMAIN misread' = Process
    BY DEF SystemInv, Types, ServerStops
  <2>5. client' \in [Process -> ClientType] /\ lifetime' \in 1 .. MaxServers + 1
    BY <1>1, <1>2 DEF SystemInv, Types
  <2> QED
    BY <1>1, <2>1, <2>2, <2>3, <2>4, <2>5 DEF Types
<1>5. Left'
  BY <1>1 DEF Left
<1>6. ASSUME NEW q \in Process
      PROVE  ClientInv(q)'
  <2>1. /\ ClientInv(q) /\ memberOf[q] \in 0 .. lifetime
        /\ phase[q] \in {"down", "prompt", "sent", "answered"}
    BY DEF SystemInv, Types
  <2>2. UnderWay(q)'
    BY <1>1, <2>1 DEF ClientInv, UnderWay
  <2>3. response[q].from \in 0 .. lifetime /\ IsResponse(response[q])
    <3>1. CASE phase[q] = "answered"
      BY <2>1, <3>1 DEF ClientInv, Answered
    <3>2. CASE phase[q] # "answered"
      <4>1. response[q] = NoResponse
        BY <2>1, <3>2 DEF ClientInv, UnderWay
      <4> QED
        BY <1>2, <4>1 DEF NoResponse, IsResponse
    <3> QED
      BY <3>1, <3>2
  <2>4. ~Here(q)' /\ ~Known(q)'
    BY <1>1, <1>2, <2>3 DEF Here, Known
  <2>5. ~Removed(q)' /\ ~Registering(q)' /\ ~Doubt(q)'
    BY <1>1, <2>4 DEF Removed, Registering, Doubt
  <2>6. Answered(q)'
    BY <1>1, <1>2, <2>1, <2>3, <2>4, <2>5 DEF Answered, IsResponse
  <2>7. Understood(q)'
    <3>1. phase[q] = "sent" => response[q] = NoResponse
      BY <2>1 DEF ClientInv, UnderWay
    <3> QED
      BY <1>1, <2>1, <3>1 DEF ClientInv, Understood, NoResponse
  <2>8. Membership(q)'
    BY <1>1, <1>2, <2>1, <2>4, <2>5 DEF Membership
  <2>9. Acceptances(q)'
    BY <1>1, <2>4 DEF Acceptances
  <2> QED
    BY <2>2, <2>6, <2>7, <2>8, <2>9 DEF ClientInv
<1> QED
  BY <1>3, <1>4, <1>5, <1>6 DEF SystemInv

LEMMA StartServerInv ==
  ASSUME SystemInv, StartServer
  PROVE  SystemInv'
<1>1. /\ ~running /\ running' = TRUE /\ lifetime <= MaxServers
      /\ UNCHANGED <<clientsSet, eventsMap, eventList, nextEventId>>
      /\ UNCHANGED <<phase, client, request, response, leftBehind>>
      /\ UNCHANGED <<lifetime, memberOf, accepted, misread, unheard>>
  BY DEF StartServer, state, history
<1>2. P!StateInv'
  BY <1>1 DEF SystemInv, ServerInv, P!StateInv, P!StateTypeOK, P!GuestsAreRegistered,
    P!GuestListsAgree, P!MapKeysAreEventIds, P!EventOf
<1>3. Positions'
  BY <1>1 DEF SystemInv, ServerInv, Positions, UpperName
<1>4. Types' /\ Left'
  BY <1>1 DEF SystemInv, Types, Left
<1>5. ASSUME NEW p \in Process
      PROVE  ClientInv(p)'
  <2>1. Same(p) /\ Known(p)' = Known(p) /\ \A id : IsGuest(p, id) => IsGuest(p, id)'
    BY <1>1 DEF Same, Known, UpperName, IsGuest, S!EventOf
  <2> QED
    BY <1>1, <2>1, Bystander DEF SystemInv
<1> QED
  BY <1>2, <1>3, <1>4, <1>5 DEF SystemInv, ServerInv

LEMMA InitSystemInv == Init => SystemInv
<1> SUFFICES ASSUME Init PROVE SystemInv
  OBVIOUS
<1>1. ServerInv
  BY EmptyServer DEF Init, S!Init
<1>2. MaxServers \in Nat \ {0}
  BY SystemAssumption
<1>3. Types
  BY <1>2, NewClients DEF Init, Types
<1>4. Left
  BY DEF Init, Left
<1>5. ASSUME NEW q \in Process
      PROVE  ClientInv(q)
  <2>1. /\ phase[q] = "down" /\ client[q] = NewClient /\ request[q] = NoRequest
        /\ response[q] = NoResponse /\ memberOf[q] = 0 /\ accepted[q] = {} /\ misread[q] = {}
        /\ unheard[q] = {}
        /\ clientsSet = {} /\ lifetime = 1
    BY DEF Init, S!Init
  <2>2. UnderWay(q) /\ Answered(q) /\ Understood(q)
    BY <2>1 DEF UnderWay, Answered, Understood
  <2>3. Membership(q) /\ Acceptances(q)
    BY <2>1 DEF Membership, Known, Doubt, NewClient, Acceptances, Here
  <2> QED
    BY <2>2, <2>3 DEF ClientInv
<1> QED
  BY <1>1, <1>3, <1>4, <1>5 DEF SystemInv

LEMMA NextSystemInv == SystemInv /\ [Next]_vars => SystemInv'
<1> SUFFICES ASSUME SystemInv, [Next]_vars PROVE SystemInv'
  OBVIOUS
<1>1. ASSUME NEW q \in Process, StartClient(q) PROVE SystemInv'
  BY <1>1, StartClientInv
<1>2. ASSUME NEW q \in Process, NEW typed \in LineTyped[q], TypeLine(q, typed) PROVE SystemInv'
  BY <1>2, TypeLineInv
<1>3. ASSUME NEW q \in Process, Serve(q) PROVE SystemInv'
  BY <1>3, ServeInv
<1>4. ASSUME NEW q \in Process, ServePart(q) PROVE SystemInv'
  BY <1>4, ServePartInv
<1>5. ASSUME NEW q \in Process, CutResponse(q) PROVE SystemInv'
  BY <1>5, CutResponseInv
<1>6. ASSUME NEW q \in Process, LogResponse(q) PROVE SystemInv'
  BY <1>6, LogResponseInv
<1>7. ASSUME NEW q \in Process, ReadFails(q) PROVE SystemInv'
  BY <1>7, ReadFailsInv
<1>8. ASSUME NEW q \in Process, Kill(q) PROVE SystemInv'
  BY <1>8, KillInv
<1>9. ASSUME NEW left \in leftBehind, ServeLeftBehind(left) PROVE SystemInv'
  BY <1>9, ServeLeftBehindInv
<1>10. CASE ServerStops
  BY <1>10, ServerStopsInv
<1>11. CASE StartServer
  BY <1>11, StartServerInv
<1>12. CASE UNCHANGED vars
  <2>1. ServerInv' /\ \A p, id : IsGuest(p, id)' = IsGuest(p, id)
    BY <1>12, SameServer DEF SystemInv, vars, server
  <2>2. Types' /\ Left'
    BY <1>12 DEF SystemInv, Types, Left, vars, server, history
  <2>3. ASSUME NEW p \in Process
        PROVE  ClientInv(p)'
    <3>1. Same(p) /\ Known(p)' = Known(p) /\ running' = running
      BY <1>12 DEF Same, Known, UpperName, vars, server, state, history
    <3> QED
      BY <2>1, <3>1, Bystander DEF SystemInv
  <2> QED
    BY <2>1, <2>2, <2>3 DEF SystemInv
<1> QED
  BY <1>1, <1>2, <1>3, <1>4, <1>5, <1>6, <1>7, <1>8, <1>9, <1>10, <1>11, <1>12 DEF Next

LEMMA SystemInvariant == Spec => []SystemInv
BY InitSystemInv, NextSystemInv, PTL DEF Spec

-----------------------------------------------------------------------------
(***************************************************************************)
(* The types, on both sides of the connections, after any number of starts *)
(* of the server.  The ids that Client remembers are within an int because *)
(* validateCommand has died before of any that is not.                     *)
(***************************************************************************)
THEOREM SystemTypes == Spec => []TypeOK
<1>1. SystemInv => TypeOK
  <2> SUFFICES ASSUME SystemInv PROVE TypeOK
    OBVIOUS
  <2> DEFINE names == {ToUpper[NameOf[p]] : p \in Process}
  <2>1. names = {UpperName(p) : p \in Process}
    BY DEF UpperName
  <2>2. clientsSet \subseteq names
    BY <2>1 DEF SystemInv, ServerInv, Positions
  <2>3. /\ \A id \in DOMAIN eventsMap : eventsMap[id] \in 1 .. Len(eventList)
        /\ Len(eventList) <= MaxEvents /\ nextEventId = Len(eventList) + 1
    BY DEF SystemInv, ServerInv, Positions, P!StateInv, P!StateTypeOK
  <2>4. ASSUME NEW i \in DOMAIN eventList
        PROVE  eventList[i].guestsNames \subseteq names
    <3>1. i \in DOMAIN eventsMap /\ P!EventOf(i) = eventList[i]
      BY DEF SystemInv, ServerInv, Positions, P!EventOf
    <3>2. /\ P!ToSet(eventList[i].RSVP_List) \subseteq clientsSet
          /\ P!ToSet(eventList[i].RSVP_List) = eventList[i].guestsNames
      BY <3>1 DEF SystemInv, ServerInv, P!StateInv, P!GuestsAreRegistered,
        P!GuestListsAgree, P!GuestsAgree
    <3> QED
      BY <2>2, <3>2
  <2>5. ASSUME NEW p \in Process
        PROVE  (request[p] # NoRequest) = (phase[p] = "sent")
    <3>1. phase[p] = "sent" => \E text : request[p] = Request(text)
      BY DEF SystemInv, ClientInv, UnderWay, Sent
    <3>2. \A text : Request(text) # NoRequest
      <4> SUFFICES ASSUME NEW text, Request(text) = NoRequest PROVE FALSE
        OBVIOUS
      <4>1. DOMAIN Request(text) = {"text", "command", "args"} /\ DOMAIN NoRequest = {"text"}
        BY DEF Request, NoRequest
      <4> QED
        BY <4>1
    <3> QED
      BY <3>1, <3>2 DEF SystemInv, ClientInv, UnderWay
  <2> QED
    BY <2>2, <2>3, <2>4, <2>5 DEF SystemInv, Types, TypeOK
<1> QED
  BY <1>1, SystemInvariant, PTL

(* Whatever else goes wrong, a client that has heard SUCCESS from the      *)
(* server that runs stays known to it until it asks to leave.              *)
THEOREM RegisteredAreKnown == Spec => []RegisteredMeansKnown
<1>1. SystemInv => RegisteredMeansKnown
  BY DEF SystemInv, ClientInv, Membership, RegisteredMeansKnown, Known, Leaving, Removed,
    Here, Waiting
<1> QED
  BY <1>1, SystemInvariant, PTL

(* A name in _clientsSet has a holder, or one that is gone or in doubt.    *)
THEOREM NamesHaveHolders == Spec => []NamesAreHeld
<1>1. SystemInv => NamesAreHeld
  BY DEF SystemInv, ClientInv, Membership, NamesAreHeld, Known, Doubt, Registering, Here,
    Waiting
<1> QED
  BY <1>1, SystemInvariant, PTL

(* Who was registered by an earlier server, and may therefore not register *)
(* again, is refused by this one whatever it asks.                         *)
THEOREM StaleClientsAreRefused == Spec => []StaleClientsAreStrangers
<1>1. SystemInv => StaleClientsAreStrangers
  <2> SUFFICES ASSUME SystemInv, NEW p \in Process,
                      client[p].registered, memberOf[p] < lifetime
               PROVE  ~Known(p)
    BY DEF StaleClientsAreStrangers, Known
  <2>1. lifetime \in Nat /\ memberOf[p] \in Nat /\ ClientInv(p)
    BY SystemAssumption DEF SystemInv, Types
  <2>2. ~Registering(p)
    BY <2>1 DEF Registering, Here, ClientInv, UnderWay
  <2> QED
    BY <2>1, <2>2 DEF ClientInv, Membership
<1> QED
  BY <1>1, SystemInvariant, PTL

(***************************************************************************)
(* As long as no message was cut, no emClient killed and no server has     *)
(* stopped, every answer is whole and of the server that runs, and one     *)
(* that is logged as an acceptance says that it is one of this very event. *)
(***************************************************************************)
Confirmed(p) ==
  phase[p] = "answered" =>
    /\ response[p].whole /\ response[p].from = lifetime
    /\ /\ client[p].commandType = "SEND_RSVP"
       /\ response[p].result \in {"SUCCESS", "CREATED", "ALREADY_SENT"}
       => client[p].eventIdSent \in response[p].accepts

UndisturbedInv ==
  /\ faults \in Nat
  /\ faults = 0 /\ lifetime = 1 => \A p \in Process : misread[p] = {} /\ Confirmed(p)

LEMMA ServeConfirms ==
  ASSUME SystemInv, NEW q \in Process, Serve(q)
  PROVE  Confirmed(q)'
<1>1. Effects(q, request[q])
  BY HandlerEffects DEF Serve, SystemInv
<1>2. /\ request[q].command = client[q].commandType
      /\ client[q].commandType = "SEND_RSVP" =>
           client[q].eventIdSent = stoi(request[q].args[2])
  BY SentRequests DEF Serve
<1> DEFINE result == reply'.result
           accepts == AcceptedBy(reply')
<1>3. ASSUME client[q].commandType = "SEND_RSVP",
             result \in {"SUCCESS", "CREATED", "ALREADY_SENT"}
      PROVE  client[q].eventIdSent \in accepts
  <2>1. result \in {"SUCCESS", "ALREADY_SENT"}
    BY <1>1, <1>2, <1>3 DEF Effects, ResultAfter
  <2>2. accepts = {stoi(request[q].args[2])}
    BY <1>1, <1>2, <1>3, <2>1 DEF Effects, AcceptsAfter
  <2> QED
    BY <1>2, <1>3, <2>2
<1>4. UNCHANGED <<client, lifetime>>
  BY DEF Serve, history
<1>5. response' = [response EXCEPT ![q] =
        [result |-> result, says |-> TextOf(reply'), accepts |-> accepts, whole |-> TRUE,
         from |-> lifetime]]
  BY DEF Serve, Answer
<1> HIDE DEF result, accepts
<1>6. /\ response'[q].whole /\ response'[q].from = lifetime
      /\ response'[q].result = result /\ response'[q].accepts = accepts
  BY <1>5 DEF SystemInv, Types
<1> QED
  BY <1>3, <1>4, <1>6 DEF Confirmed

(* Nothing disturbed: what is logged now is what the answer says.          *)
LEMMA LogConfirmed ==
  ASSUME SystemInv, NEW q \in Process, LogResponse(q), Confirmed(q), misread[q] = {}
  PROVE  misread'[q] = {} /\ Confirmed(q)'
<1> DEFINE verdict == Verdict(client[q].commandType, response[q].says)
           ids == LoggedAsAccepted(q, verdict)
<1>1. phase'[q] \in {"down", "prompt"}
  BY DEF LogResponse, End, SystemInv, Types
<1>2. Earned(q, ids)
  <2>1. phase[q] = "answered" /\ Understood(q)
    BY DEF LogResponse, SystemInv, ClientInv
  <2>2. ASSUME client[q].commandType = "SEND_RSVP", verdict \in {"done", "already_sent"}
        PROVE  response[q].result \in {"SUCCESS", "CREATED", "ALREADY_SENT"}
    BY <2>1, <2>2 DEF Understood, Confirmed
  <2> QED
    BY <2>1, <2>2 DEF Confirmed, Earned, LoggedAsAccepted
<1>3. \/ misread' = [misread EXCEPT ![q] = {}]
      \/ misread' = [misread EXCEPT ![q] = IF Earned(q, ids) THEN @ \ ids
                                           ELSE @ \cup (ids \ accepted[q])]
  BY DEF LogResponse
<1> HIDE DEF ids
<1>4. misread'[q] = {}
  BY <1>2, <1>3 DEF SystemInv, Types
<1> QED
  BY <1>1, <1>4 DEF Confirmed

LEMMA NextUndisturbed ==
  ASSUME SystemInv, UndisturbedInv, [Next]_vars
  PROVE  UndisturbedInv'
<1>1. lifetime \in Nat \ {0}
  BY SystemAssumption DEF SystemInv, Types
<1>2. CASE Fault
  BY <1>2 DEF Fault, UndisturbedInv
<1>3. CASE ServerStops
  BY <1>1, <1>3 DEF ServerStops, UndisturbedInv
<1> DEFINE Kept(p) == (misread[p] = {} /\ Confirmed(p)) => (misread'[p] = {} /\ Confirmed(p)')
<1>4. ASSUME NEW q \in Process, Serve(q) \/ LogResponse(q), NEW p \in Process
      PROVE  Kept(p) /\ UNCHANGED <<faults, lifetime>>
  <2>1. UNCHANGED <<faults, lifetime>> /\ (Serve(q) => misread' = misread)
    BY <1>4 DEF Serve, LogResponse, history
  <2>2. CASE p = q
    BY <1>4, <2>1, <2>2, ServeConfirms, LogConfirmed
  <2>3. CASE p # q
    <3>1. UNCHANGED <<phase[p], client[p], response[p], misread[p]>>
      BY <1>4, <2>3 DEF Serve, Answer, LogResponse, End, SystemInv, Types, history
    <3> QED
      BY <2>1, <3>1 DEF Confirmed
  <2> QED
    BY <2>1, <2>2, <2>3
<1>5. ASSUME NEW q \in Process, StartClient(q) \/ \E typed \in LineTyped[q] : TypeLine(q, typed),
             NEW p \in Process
      PROVE  Kept(p) /\ UNCHANGED <<faults, lifetime>>
  <2>1. UNCHANGED <<faults, lifetime, misread>>
    BY <1>5 DEF StartClient, TypeLine, history
  <2>2. phase'[p] = "answered" => UNCHANGED <<phase[p], client[p], response[p]>>
    <3>1. p = q => phase'[p] # "answered"
      BY <1>5 DEF StartClient, TypeLine, End, SystemInv, Types
    <3>2. p # q => UNCHANGED <<phase[p], client[p], response[p]>>
      BY <1>5 DEF StartClient, TypeLine, End, SystemInv, Types, history
    <3> QED
      BY <3>1, <3>2
  <2> QED
    BY <2>1, <2>2 DEF Confirmed
<1>6. ASSUME \/ \E left \in leftBehind : ServeLeftBehind(left)
             \/ StartServer \/ UNCHANGED vars,
             NEW p \in Process
      PROVE  Kept(p) /\ UNCHANGED <<faults, lifetime>>
  <2>1. UNCHANGED <<faults, lifetime, misread, phase, client, response>>
    BY <1>6 DEF ServeLeftBehind, StartServer, vars, history
  <2> QED
    BY <2>1 DEF Confirmed
<1>7. ASSUME NEW q \in Process, ReadFails(q)
      PROVE  UndisturbedInv'
  BY <1>7 DEF ReadFails, UndisturbedInv, Confirmed
<1>8. ASSUME UNCHANGED <<faults, lifetime>>, \A p \in Process : Kept(p)
      PROVE  UndisturbedInv'
  BY <1>8 DEF UndisturbedInv
<1> HIDE DEF Kept
<1>9. ASSUME NEW q \in Process, Serve(q) \/ LogResponse(q) PROVE UndisturbedInv'
  BY <1>4, <1>8, <1>9
<1>10. ASSUME NEW q \in Process, StartClient(q) \/ \E typed \in LineTyped[q] : TypeLine(q, typed)
       PROVE  UndisturbedInv'
  BY <1>5, <1>8, <1>10
<1>11. ASSUME \/ \E left \in leftBehind : ServeLeftBehind(left)
              \/ StartServer \/ UNCHANGED vars
       PROVE  UndisturbedInv'
  <2>1. CASE Process = {}
    BY <1>11, <2>1 DEF UndisturbedInv, ServeLeftBehind, StartServer, vars, history
  <2>2. CASE Process # {}
    BY <1>6, <1>8, <1>11, <2>2
  <2> QED
    BY <2>1, <2>2
<1>12. ASSUME NEW q \in Process, ServePart(q) \/ CutResponse(q) \/ Kill(q)
       PROVE  Fault
  BY <1>12 DEF ServePart, CutResponse, Kill
<1> QED
  BY <1>2, <1>3, <1>7, <1>9, <1>10, <1>11, <1>12 DEF Next

(* What a client has logged as accepted because the server said so is on   *)
(* the event's guest list, as long as that server runs and the client does *)
(* not ask to leave; and it has logged no other, though an empty answer is *)
(* logged as an acceptance, unless a message was cut, an emClient killed   *)
(* or a server stopped.                                                    *)
THEOREM LoggedAcceptancesAreKept == Spec => []LoggedAcceptanceIsKept
<1>1. Init => UndisturbedInv
  BY DEF Init, UndisturbedInv, Confirmed
<1>2. SystemInv /\ UndisturbedInv /\ [Next]_vars => UndisturbedInv'
  BY NextUndisturbed
<1>3. SystemInv /\ UndisturbedInv => LoggedAcceptanceIsKept
  <2> SUFFICES ASSUME SystemInv, UndisturbedInv, NEW p \in Process
               PROVE  /\ ~Leaving(p) => OnTheList(p, accepted[p] \ misread[p])
                      /\ misread[p] # {} => faults > 0 \/ lifetime > 1
    BY DEF LoggedAcceptanceIsKept
  <2>1. ~Leaving(p) => OnTheList(p, accepted[p] \ misread[p])
    BY DEF SystemInv, ClientInv, Acceptances, IsGuest, OnTheList, Leaving, Removed, Here,
      Waiting
  <2>2. lifetime \in Nat \ {0} /\ faults \in Nat
    BY SystemAssumption DEF SystemInv, Types, UndisturbedInv
  <2> QED
    BY <2>1, <2>2 DEF UndisturbedInv
<1> QED
  BY <1>1, <1>2, <1>3, SystemInvariant, PTL DEF Spec

(* No name and no description misleads a client about what it has changed. *)
THEOREM AnswersAreUnderstood == Spec => []ChangesAreUnderstood
<1>1. SystemInv => ChangesAreUnderstood
  BY DEF SystemInv, ClientInv, Understood, ChangesAreUnderstood
<1> QED
  BY <1>1, SystemInvariant, PTL
=============================================================================
