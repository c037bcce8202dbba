------------------------- MODULE ServerThreadsProofs -------------------------
(***************************************************************************)
(* What holds of Server under any number of concurrent requests, whatever  *)
(* updates are lost and whatever allocations fail.                         *)
(***************************************************************************)
EXTENDS ServerThreads, EventProofs, FiniteSetTheorems

-----------------------------------------------------------------------------
(* The labels at which a handler is about to follow its Event*, and those  *)
(* at which createEvent has read an id.                                    *)
Holding == {"create_push", "create_map", "rsvp_check", "rsvp_insert", "rsvp_push", "list_copy"}
Creating == {"create_find", "create_exists", "create_bump", "create_reload", "create_new",
             "create_push", "create_map"}

LocType == [id : Int, told : Int, event : Nat, it : Int, lines : Int]

(* In the catch block the counter is about to go down by one.              *)
Catching == {p \in Process : pc[p] = "create_catch"}

ServerTypes ==
  /\ clientsSet \subseteq Name
  /\ DOMAIN eventsMap \subseteq Int
  /\ \A id \in DOMAIN eventsMap :
       /\ eventsMap[id] \in 1 .. Len(heap)
       /\ heap[eventsMap[id]].eventId = id
       /\ LowestId <= id
  /\ eventList \in Seq(1 .. Len(heap))
  /\ nextEventId \in Int
  /\ LowestId <= nextEventId - Cardinality(Catching)
  /\ heap \in Seq(EventType)

ThreadTypes ==
  /\ DOMAIN pc = Process
  /\ loc \in [Process -> LocType]
  /\ registered \in [Process -> BOOLEAN]

(* The local variables of one thread: what it points at, the id of what it *)
(* has made, and how far it has come in the list.                          *)
ThreadOK(p) ==
  /\ loc[p].event \in 0 .. Len(heap)
  /\ pc[p] \in Holding => loc[p].event # 0
  /\ pc[p] \in {"create_push", "create_map"} => heap[loc[p].event].eventId = loc[p].id
  /\ pc[p] \in Creating => LowestId <= loc[p].id
  /\ pc[p] # "top_read" => loc[p].lines = 0
  /\ pc[p] = "top_find" => loc[p].it \in 0 .. Len(eventList)
  /\ pc[p] = "top_read" =>
       LET start == loc[p].it - loc[p].lines
       IN  start = 0 \/ Len(eventList) - start >= TopCount

KeptInv == ServerTypes /\ ThreadTypes /\ \A p \in Process : ThreadOK(p)

-----------------------------------------------------------------------------
(* A step of p's.                                                          *)
Moved(p) ==
  /\ ThreadTypes'
  /\ \A q \in Process : q # p => /\ pc'[q] = pc[q] /\ loc'[q] = loc[q]
                                 /\ registered'[q] = registered[q]

LEMMA GotoMoved ==
  ASSUME ThreadTypes, NEW p \in Process, NEW label, NEW l \in LocType,
         Goto(p, label), loc' = [loc EXCEPT ![p] = l], UNCHANGED registered
  PROVE  Moved(p) /\ pc'[p] = label /\ loc'[p] = l
BY DEF ThreadTypes, Goto, Moved

LEMMA GotoSame ==
  ASSUME ThreadTypes, NEW p \in Process, NEW label,
         Goto(p, label), UNCHANGED <<loc, registered>>
  PROVE  Moved(p) /\ pc'[p] = label /\ loc'[p] = loc[p]
<1>1. loc[p] \in LocType /\ loc' = [loc EXCEPT ![p] = loc[p]]
  BY DEF ThreadTypes
<1> QED
  BY <1>1, GotoMoved

LEMMA AnswerMoved ==
  ASSUME ThreadTypes, NEW p \in Process, NEW result, NEW id,
         Answer(p, result, id)
  PROVE  /\ Moved(p) /\ pc'[p] = "idle" /\ loc'[p] = NoLocals
         /\ registered'[p] = IF result = "REGISTERED" THEN TRUE
                             ELSE IF result = "UNREGISTERED" THEN FALSE ELSE registered[p]
<1>1. NoLocals \in LocType
  BY DEF NoLocals, LocType
<1> QED
  BY <1>1 DEF ThreadTypes, Answer, Moved

(* What the other threads need to know of a step.                          *)
Grows ==
  /\ heap' \in Seq(EventType) /\ Len(heap) <= Len(heap')
  /\ \A a \in 1 .. Len(heap) : heap'[a].eventId = heap[a].eventId
  /\ Len(eventList') \in Nat /\ Len(eventList) <= Len(eventList')

LEMMA SameGrows ==
  ASSUME KeptInv, UNCHANGED <<heap, eventList>>
  PROVE  Grows
BY DEF KeptInv, ServerTypes, Grows

LEMMA OtherThreads ==
  ASSUME KeptInv, NEW p \in Process, Moved(p), Grows, NEW q \in Process, q # p
  PROVE  ThreadOK(q)'
<1> DEFINE n == Len(heap)
           m == Len(heap')
           size == Len(eventList)
<1>1. n \in Nat /\ m \in Nat /\ n <= m /\ size \in Nat /\ size <= Len(eventList')
      /\ Len(eventList') \in Nat
  BY DEF KeptInv, ServerTypes, Grows
<1>2. ThreadOK(q) /\ pc'[q] = pc[q] /\ loc'[q] = loc[q] /\ loc[q] \in LocType
  BY DEF KeptInv, ThreadTypes, Moved
<1>3. loc[q].event \in 0 .. n /\ loc[q].event \in 0 .. m
  BY <1>1, <1>2 DEF ThreadOK
<1>4. pc[q] \in {"create_push", "create_map"} => heap'[loc[q].event].eventId = loc[q].id
  <2> SUFFICES ASSUME pc[q] \in {"create_push", "create_map"}
               PROVE  heap'[loc[q].event].eventId = loc[q].id
    OBVIOUS
  <2>1. loc[q].event \in 1 .. n
    BY <1>1, <1>2, <1>3 DEF ThreadOK, Holding
  <2> QED
    BY <1>2, <2>1 DEF ThreadOK, Grows
<1>5. LET start == loc[q].it - loc[q].lines
      IN  pc[q] = "top_read" => start = 0 \/ Len(eventList') - start >= TopCount
  BY <1>1, <1>2, ThreadsAssumption DEF ThreadOK, LocType
<1>6. pc[q] = "top_find" => loc[q].it \in 0 .. Len(eventList')
  BY <1>1, <1>2 DEF ThreadOK
<1> QED
  BY <1>2, <1>3, <1>4, <1>5, <1>6 DEF ThreadOK

LEMMA OneThread ==
  ASSUME KeptInv, NEW p \in Process, Moved(p), Grows, ServerTypes', ThreadOK(p)'
  PROVE  KeptInv'
BY OtherThreads DEF KeptInv, Moved

(* Nobody enters or leaves the catch block.                                *)
LEMMA SameCatching ==
  ASSUME NEW p \in Process, Moved(p), pc[p] # "create_catch", pc'[p] # "create_catch"
  PROVE  Catching' = Catching
BY DEF Moved, Catching

(* A step that only reads.                                                 *)
LEMMA ReadingStep ==
  ASSUME KeptInv, NEW p \in Process, Moved(p), UNCHANGED server,
         pc[p] # "create_catch", pc'[p] # "create_catch", ThreadOK(p)'
  PROVE  KeptInv'
<1>1. UNCHANGED <<clientsSet, eventsMap, eventList, nextEventId, heap>>
  BY DEF server
<1>2. ServerTypes'
  BY <1>1, SameCatching DEF KeptInv, ServerTypes
<1> QED
  BY <1>1, <1>2, SameGrows, OneThread

(* The end of a request.                                                   *)
LEMMA IdleOK ==
  ASSUME NEW p \in Process, loc'[p] = NoLocals, pc'[p] = "idle", Len(heap') \in Nat
  PROVE  ThreadOK(p)'
BY DEF ThreadOK, NoLocals, Holding, Creating

LEMMA ReadingAnswer ==
  ASSUME KeptInv, NEW p \in Process, UNCHANGED server, pc[p] # "create_catch",
         NEW result, NEW id, Answer(p, result, id)
  PROVE  KeptInv'
<1>1. Moved(p) /\ pc'[p] = "idle" /\ loc'[p] = NoLocals
  BY AnswerMoved DEF KeptInv
<1>2. Len(heap') \in Nat
  BY DEF KeptInv, ServerTypes, server
<1> QED
  BY <1>1, <1>2, IdleOK, ReadingStep

LEMMA FindKept ==
  ASSUME KeptInv, NEW p \in Process, NEW label, NEW next, Find(p, label, next),
         <<label, next>> \in {<<"unreg_find", "unreg_erase">>, <<"rsvp_find", "rsvp_exists">>,
                              <<"create_find", "create_exists">>, <<"list_find", "list_exists">>}
  PROVE  KeptInv'
<1>1. CASE isClientExist(p) /\ Goto(p, next) /\ UNCHANGED <<loc, client>>
  <2>1. ThreadTypes /\ ThreadOK(p) /\ pc[p] = label /\ UNCHANGED server
    BY DEF KeptInv, ThreadTypes, Find, At
  <2>3. Moved(p) /\ pc'[p] = next /\ loc'[p] = loc[p]
    BY <1>1, <2>1, GotoSame DEF client
  <2>4. ThreadOK(p)'
    BY <2>1, <2>3 DEF ThreadOK, Holding, Creating, server
  <2> QED
    BY <2>1, <2>3, <2>4, ReadingStep
<1>2. CASE ~isClientExist(p) /\ Answer(p, "NOT_REGISTERED", 0)
  BY <1>2, ReadingAnswer DEF Find, At
<1> QED
  BY <1>1, <1>2 DEF Find

LEMMA RequestKept ==
  ASSUME KeptInv, NEW p \in Process, Request(p)
  PROVE  KeptInv'
<1>1. ASSUME NEW label \in {"reg_find", "unreg_find", "create_next", "rsvp_find", "list_find",
                           "top_size"},
             NEW id \in Int, Send(p, label, id)
      PROVE  KeptInv'
  <2> DEFINE l == [loc[p] EXCEPT !.id = id]
  <2>1. ThreadTypes /\ ThreadOK(p) /\ loc[p] \in LocType /\ pc[p] = "idle" /\ UNCHANGED server
    BY <1>1 DEF KeptInv, ThreadTypes, Send, At
  <2>2. /\ l \in LocType /\ l.event = loc[p].event /\ l.lines = loc[p].lines
        /\ loc' = [loc EXCEPT ![p] = l]
    BY <1>1, <2>1 DEF LocType, ThreadTypes, Send
  <2> HIDE DEF l
  <2>3. Moved(p) /\ pc'[p] = label /\ loc'[p] = l
    BY <1>1, <2>1, <2>2, GotoMoved DEF Send
  <2>4. ThreadOK(p)'
    BY <2>1, <2>2, <2>3 DEF ThreadOK, Holding, Creating, server
  <2> QED
    BY <2>1, <2>3, <2>4, ReadingStep
<1>2. RequestId \subseteq Int /\ 0 \in Int
  BY ThreadsAssumption
<1> QED
  BY <1>1, <1>2 DEF Request

(* What an unprotected update leaves is the old or the new.                *)
LEMMA StoredIsOldOrNew ==
  ASSUME NEW p, NEW old, NEW new
  PROVE  Stored(p, old, new) \subseteq {old, new}
BY DEF Stored

LEMMA Upper ==
  ASSUME NEW p \in Process
  PROVE  /\ NameOf[p] \in ClientName /\ UpperName(p) \in Name
         /\ UpperName(p) \in ClientName /\ ToUpper[UpperName(p)] = UpperName(p)
BY ThreadsAssumption, NameAssumption DEF UpperName, Name

LEMMA RegisterKept ==
  ASSUME KeptInv, NEW p \in Process, registerClient(p)
  PROVE  KeptInv'
<1>1. CASE /\ At(p, "reg_find") /\ UNCHANGED server
           /\ Goto(p, "reg_insert") /\ UNCHANGED <<loc, client>>
  <2>1. ThreadTypes /\ ThreadOK(p) /\ pc[p] = "reg_find"
    BY <1>1 DEF KeptInv, At
  <2>2. Moved(p) /\ pc'[p] = "reg_insert" /\ loc'[p] = loc[p]
    BY <1>1, <2>1, GotoSame DEF client
  <2>3. ThreadOK(p)'
    BY <1>1, <2>1, <2>2 DEF ThreadOK, Holding, Creating, server
  <2> QED
    BY <1>1, <2>1, <2>2, <2>3, ReadingStep
<1>2. CASE /\ At(p, "reg_find") /\ UNCHANGED server
           /\ Answer(p, "ALREADY_REGISTERED", 0)
  BY <1>2, ReadingAnswer DEF At
<1>3. CASE /\ At(p, "reg_insert")
           /\ clientsSet' \in Stored(p, clientsSet, InsertClient(p))
           /\ Answer(p, "REGISTERED", 0)
           /\ UNCHANGED <<eventsMap, eventList, nextEventId, heap>>
  <2>1. Moved(p) /\ pc'[p] = "idle" /\ loc'[p] = NoLocals /\ pc[p] = "reg_insert"
    BY <1>3, AnswerMoved DEF KeptInv, At
  <2>2. clientsSet' \subseteq Name
    BY <1>3, StoredIsOldOrNew, Upper DEF KeptInv, ServerTypes, InsertClient
  <2>3. ServerTypes' /\ ThreadOK(p)'
    BY <1>3, <2>1, <2>2, SameCatching, IdleOK DEF KeptInv, ServerTypes
  <2> QED
    BY <1>3, <2>1, <2>3, SameGrows, OneThread
<1> QED
  BY <1>1, <1>2, <1>3 DEF registerClient

(* removeGuest on any event: the name may be in one place and not, or not  *)
(* yet, in the other.                                                      *)
LEMMA RemoveGuestType ==
  ASSUME NEW e \in EventType, NEW c \in ClientName
  PROVE  removeGuest(e, c) \in EventType /\ removeGuest(e, c).eventId = e.eventId
<1>1. CASE isNewGuest(e, c)
  BY <1>1 DEF removeGuest
<1>2. CASE ~isNewGuest(e, c)
  <2> DEFINE rest == RemoveFirst(e.RSVP_List, ToUpper[c])
             names == e.guestsNames \ {ToUpper[c]}
  <2>1. rest \in Seq(Name)
    BY RemoveFirstType DEF EventType
  <2>2. names \in SUBSET Name
    BY DEF EventType
  <2>3. removeGuest(e, c) = [e EXCEPT !.guestsNames = names, !.RSVP_List = rest]
    BY <1>2 DEF removeGuest
  <2> HIDE DEF rest, names
  <2> QED
    BY <2>1, <2>2, <2>3 DEF EventType
<1> QED
  BY <1>1, <1>2

(* An update of one event.                                                 *)
LEMMA HeapUpdate ==
  ASSUME KeptInv, NEW p, NEW a \in 1 .. Len(heap), NEW e \in EventType,
         e.eventId = heap[a].eventId,
         heap' \in Stored(p, heap, [heap EXCEPT ![a] = e]),
         UNCHANGED <<clientsSet, eventsMap, eventList, nextEventId>>
  PROVE  Grows /\ Len(heap') = Len(heap) /\ (Catching' = Catching => ServerTypes')
<1>1. heap \in Seq(EventType)
  BY DEF KeptInv, ServerTypes
<1>2. heap' = heap \/ heap' = [heap EXCEPT ![a] = e]
  BY StoredIsOldOrNew
<1>3. /\ heap' \in Seq(EventType) /\ Len(heap') = Len(heap)
      /\ \A b \in 1 .. Len(heap) : heap'[b].eventId = heap[b].eventId
  BY <1>1, <1>2
<1>4. Grows
  BY <1>1, <1>3 DEF KeptInv, ServerTypes, Grows
<1> QED
  BY <1>3, <1>4 DEF KeptInv, ServerTypes

(* The next key of _eventsMap, if there is one.                            *)
LEMMA NextKeyIsLeast ==
  ASSUME ServerTypes, NEW id \in Int, KeysAfter(id) # {}
  PROVE  /\ NextKey(id) \in DOMAIN eventsMap /\ id < NextKey(id)
         /\ \A k \in DOMAIN eventsMap : id < k => NextKey(id) <= k
<1> DEFINE K == KeysAfter(id)
<1>1. K \in SUBSET Int /\ \A k \in K : id <= k
  BY DEF ServerTypes, KeysAfter
<1>2. \E k \in K : \A l \in K : k <= l
  <2> HIDE DEF K
  <2> QED
    BY <1>1, LeastElement DEF K
<1>3. NextKey(id) \in K /\ \A l \in K : NextKey(id) <= l
  BY <1>2 DEF NextKey
<1> QED
  BY <1>3 DEF KeysAfter

LEMMA UnregisterKept ==
  ASSUME KeptInv, NEW p \in Process, unregisterClient(p)
  PROVE  KeptInv'
<1>1. CASE Find(p, "unreg_find", "unreg_erase")
  BY <1>1, FindKept
<1>2. CASE /\ At(p, "unreg_erase")
           /\ clientsSet' \in Stored(p, clientsSet, clientsSet \ {UpperName(p)})
           /\ Goto(p, "unreg_sweep")
           /\ loc' = [loc EXCEPT ![p].id = SweepStart]
           /\ UNCHANGED <<eventsMap, eventList, nextEventId, heap, client>>
  <2> DEFINE l == [loc[p] EXCEPT !.id = SweepStart]
  <2>1. ThreadTypes /\ ThreadOK(p) /\ loc[p] \in LocType /\ pc[p] = "unreg_erase"
    BY <1>2 DEF KeptInv, ThreadTypes, At
  <2>2. /\ l \in LocType /\ l.event = loc[p].event /\ l.lines = loc[p].lines
        /\ loc' = [loc EXCEPT ![p] = l]
    BY <1>2, <2>1, ThreadsAssumption DEF LocType, ThreadTypes, SweepStart
  <2> HIDE DEF l
  <2>3. Moved(p) /\ pc'[p] = "unreg_sweep" /\ loc'[p] = l
    BY <1>2, <2>1, <2>2, GotoMoved DEF client
  <2>4. clientsSet' \subseteq Name
    BY <1>2, StoredIsOldOrNew DEF KeptInv, ServerTypes
  <2>5. ServerTypes'
    BY <1>2, <2>1, <2>3, <2>4, SameCatching DEF KeptInv, ServerTypes
  <2>6. ThreadOK(p)'
    BY <1>2, <2>1, <2>2, <2>3 DEF ThreadOK, Holding, Creating
  <2> QED
    BY <1>2, <2>3, <2>5, <2>6, SameGrows, OneThread
<1>3. CASE /\ At(p, "unreg_sweep") /\ KeysAfter(loc[p].id) # {}
           /\ LET key == NextKey(loc[p].id)
              IN  /\ heap' \in Stored(p, heap, [heap EXCEPT ![eventsMap[key]] =
                                                  removeGuest(@, UpperName(p))])
                  /\ loc' = [loc EXCEPT ![p].id = key]
           /\ UNCHANGED <<clientsSet, eventsMap, eventList, nextEventId, pc, client>>
  <2> DEFINE key == NextKey(loc[p].id)
             a == eventsMap[key]
             e == removeGuest(heap[a], UpperName(p))
             l == [loc[p] EXCEPT !.id = key]
  <2>1. /\ ServerTypes /\ ThreadTypes /\ ThreadOK(p) /\ loc[p] \in LocType
        /\ loc[p].id \in Int /\ pc[p] = "unreg_sweep"
    BY <1>3 DEF KeptInv, ThreadTypes, At, LocType
  <2>2. key \in DOMAIN eventsMap /\ key \in Int
    BY <1>3, <2>1, NextKeyIsLeast DEF ServerTypes
  <2> HIDE DEF key
  <2>3. a \in 1 .. Len(heap) /\ heap[a] \in EventType
    BY <2>1, <2>2 DEF ServerTypes
  <2>4. e \in EventType /\ e.eventId = heap[a].eventId
    BY <2>3, RemoveGuestType, Upper
  <2>5. heap' \in Stored(p, heap, [heap EXCEPT ![a] = e]) /\ loc' = [loc EXCEPT ![p].id = key]
    BY <1>3, <2>3 DEF key
  <2>6. /\ l \in LocType /\ l.event = loc[p].event /\ l.lines = loc[p].lines
        /\ loc' = [loc EXCEPT ![p] = l]
    BY <2>1, <2>2, <2>5 DEF LocType, ThreadTypes
  <2> HIDE DEF l, e
  <2>7. pc' = pc /\ Catching' = Catching
    BY <1>3 DEF Catching
  <2>8. registered' = registered
    BY <1>3 DEF client
  <2>9. Moved(p) /\ loc'[p] = l
    BY <2>1, <2>6, <2>7, <2>8 DEF Moved, ThreadTypes
  <2>10. Grows /\ ServerTypes' /\ Len(heap') = Len(heap)
    BY <1>3, <2>3, <2>4, <2>5, <2>7, HeapUpdate
  <2>11. ThreadOK(p)'
    BY <2>1, <2>6, <2>7, <2>9, <2>10 DEF ThreadOK, Holding, Creating
  <2> QED
    BY <2>9, <2>10, <2>11, OneThread
<1>4. CASE At(p, "unreg_sweep") /\ Answer(p, "UNREGISTERED", 0) /\ UNCHANGED server
  BY <1>4, ReadingAnswer DEF At
<1> QED
  BY <1>1, <1>2, <1>3, <1>4 DEF unregisterClient

-----------------------------------------------------------------------------
(* The order of createEvent.                                               *)
LEMMA CreateOrder ==
  /\ CreateSteps[1] = "create_new"
  /\ After("create_new") = "create_push"
  /\ After("create_push") = "create_map"
  /\ After("create_map") = "create_inc"
<1>1. /\ CreateSteps[1] = "create_new" /\ CreateSteps[2] = "create_push"
      /\ CreateSteps[3] = "create_map" /\ CreateSteps[4] = "create_inc"
  BY DEF CreateSteps
<1>2. ASSUME NEW i \in 1 .. 3
      PROVE  (CHOOSE j \in 1 .. 3 : CreateSteps[j] = CreateSteps[i]) = i
  <2>1. \A j \in 1 .. 3 : CreateSteps[j] = CreateSteps[i] <=> j = i
    BY <1>1
  <2>2. (CHOOSE j \in 1 .. 3 : CreateSteps[j] = CreateSteps[i]) \in 1 .. 3
        /\ CreateSteps[CHOOSE j \in 1 .. 3 : CreateSteps[j] = CreateSteps[i]] = CreateSteps[i]
    OBVIOUS
  <2> QED
    BY <2>1, <2>2
<1>3. \A i \in 1 .. 3 : After(CreateSteps[i]) = CreateSteps[1 + i]
  BY <1>2 DEF After
<1> QED
  BY <1>1, <1>3

LEMMA CatchingIsFinite ==
  ASSUME ThreadTypes
  PROVE  IsFiniteSet(Catching) /\ Cardinality(Catching) \in Nat
<1>1. IsFiniteSet(Process) /\ Catching \subseteq Process
  BY ThreadsAssumption DEF Catching
<1> QED
  BY <1>1, FS_Subset, FS_CardinalityType

(* A step of createEvent that leaves the shared structures alone.          *)
LEMMA CreateReads ==
  ASSUME KeptInv, NEW p \in Process, UNCHANGED <<server, client>>,
         NEW label \in {"create_find", "create_bump", "create_new"},
         Goto(p, label), pc[p] \in {"create_next", "create_exists", "create_reload"},
         NEW l \in LocType, loc' = [loc EXCEPT ![p] = l],
         l.event = loc[p].event, l.lines = loc[p].lines, LowestId <= l.id
  PROVE  KeptInv'
<1>1. ThreadTypes /\ ThreadOK(p)
  BY DEF KeptInv
<1>2. Moved(p) /\ pc'[p] = label /\ loc'[p] = l
  BY <1>1, GotoMoved DEF client
<1>3. ThreadOK(p)'
  BY <1>1, <1>2 DEF ThreadOK, Holding, Creating, server
<1> QED
  BY <1>2, <1>3, ReadingStep

LEMMA CreateBeginsKept ==
  ASSUME KeptInv, NEW p \in Process,
         \/ /\ At(p, "create_next")
            /\ loc' = [loc EXCEPT ![p].id = nextEventId, ![p].told = nextEventId]
            /\ Goto(p, "create_find")
            /\ UNCHANGED <<server, client>>
         \/ /\ At(p, "create_exists")
            /\ Goto(p, IF NextIdTaken THEN "create_bump" ELSE CreateSteps[1])
            /\ UNCHANGED <<server, loc, client>>
         \/ /\ At(p, "create_reload")
            /\ loc' = [loc EXCEPT ![p].id = nextEventId]
            /\ Goto(p, CreateSteps[1])
            /\ UNCHANGED <<server, client>>
  PROVE  KeptInv'
<1>1. /\ ThreadTypes /\ ThreadOK(p) /\ loc[p] \in LocType
      /\ nextEventId \in Int /\ LowestId <= nextEventId - Cardinality(Catching)
  BY DEF KeptInv, ThreadTypes, ServerTypes
<1>2. LowestId <= nextEventId
  BY <1>1, CatchingIsFinite, ThreadsAssumption
<1>3. CASE /\ At(p, "create_next")
           /\ loc' = [loc EXCEPT ![p].id = nextEventId, ![p].told = nextEventId]
           /\ Goto(p, "create_find")
           /\ UNCHANGED <<server, client>>
  <2> DEFINE l == [loc[p] EXCEPT !.id = nextEventId, !.told = nextEventId]
  <2>1. /\ l \in LocType /\ l.event = loc[p].event /\ l.lines = loc[p].lines
        /\ l.id = nextEventId /\ loc' = [loc EXCEPT ![p] = l]
    BY <1>1, <1>3 DEF LocType, ThreadTypes
  <2> HIDE DEF l
  <2> QED
    BY <1>2, <1>3, <2>1, CreateReads DEF At
<1>4. CASE /\ At(p, "create_exists")
           /\ Goto(p, IF NextIdTaken THEN "create_bump" ELSE CreateSteps[1])
           /\ UNCHANGED <<server, loc, client>>
  <2>1. LowestId <= loc[p].id /\ loc' = [loc EXCEPT ![p] = loc[p]]
    BY <1>1, <1>4 DEF ThreadOK, Creating, At, ThreadTypes
  <2>2. \/ Goto(p, "create_bump") \/ Goto(p, "create_new")
    BY <1>4, CreateOrder
  <2> QED
    BY <1>1, <1>4, <2>1, <2>2, CreateReads DEF At
<1>5. CASE /\ At(p, "create_reload")
           /\ loc' = [loc EXCEPT ![p].id = nextEventId]
           /\ Goto(p, CreateSteps[1])
           /\ UNCHANGED <<server, client>>
  <2> DEFINE l == [loc[p] EXCEPT !.id = nextEventId]
  <2>1. /\ l \in LocType /\ l.event = loc[p].event /\ l.lines = loc[p].lines
        /\ l.id = nextEventId /\ loc' = [loc EXCEPT ![p] = l]
    BY <1>1, <1>5 DEF LocType, ThreadTypes
  <2> HIDE DEF l
  <2>2. Goto(p, "create_new")
    BY <1>5, CreateOrder
  <2> QED
    BY <1>2, <1>5, <2>1, <2>2, CreateReads DEF At
<1> QED
  BY <1>3, <1>4, <1>5

(* The counter goes up, or an overlapping update loses it.                 *)
LEMMA CounterTypes ==
  ASSUME KeptInv, NEW p, nextEventId' \in Stored(p, nextEventId, nextEventId + 1),
         Catching' = Catching,
         UNCHANGED <<clientsSet, eventsMap, eventList, heap>>
  PROVE  ServerTypes'
<1>1. nextEventId' \in {nextEventId, nextEventId + 1}
  BY StoredIsOldOrNew
<1>2. ThreadTypes /\ nextEventId \in Int /\ LowestId <= nextEventId - Cardinality(Catching)
  BY DEF KeptInv, ServerTypes
<1>3. nextEventId' \in Int /\ LowestId <= nextEventId' - Cardinality(Catching)
  BY <1>1, <1>2, CatchingIsFinite, ThreadsAssumption
<1> QED
  BY <1>3 DEF KeptInv, ServerTypes

LEMMA CreateCountsKept ==
  ASSUME KeptInv, NEW p \in Process,
         \/ /\ At(p, "create_bump")
            /\ nextEventId' \in Stored(p, nextEventId, nextEventId + 1)
            /\ Goto(p, "create_reload")
            /\ UNCHANGED <<clientsSet, eventsMap, eventList, heap, loc, client>>
         \/ /\ At(p, "create_inc")
            /\ nextEventId' \in Stored(p, nextEventId, nextEventId + 1)
            /\ Answer(p, "CREATED", loc[p].told)
            /\ UNCHANGED <<clientsSet, eventsMap, eventList, heap>>
  PROVE  KeptInv'
<1>1. /\ nextEventId' \in Stored(p, nextEventId, nextEventId + 1)
      /\ UNCHANGED <<clientsSet, eventsMap, eventList, heap>>
      /\ pc[p] # "create_catch"
      /\ ThreadTypes /\ ThreadOK(p) /\ Len(heap) \in Nat
  BY DEF At, KeptInv, ServerTypes
<1>2. Moved(p) /\ pc'[p] # "create_catch" /\ ThreadOK(p)'
  <2>1. CASE /\ At(p, "create_bump")
             /\ Goto(p, "create_reload")
             /\ UNCHANGED <<loc, client>>
    <3>1. Moved(p) /\ pc'[p] = "create_reload" /\ loc'[p] = loc[p]
      BY <1>1, <2>1, GotoSame DEF client
    <3> QED
      BY <1>1, <2>1, <3>1 DEF ThreadOK, Holding, Creating, At
  <2>2. CASE Answer(p, "CREATED", loc[p].told)
    <3>1. Moved(p) /\ pc'[p] = "idle" /\ loc'[p] = NoLocals
      BY <1>1, <2>2, AnswerMoved
    <3> QED
      BY <1>1, <3>1, IdleOK
  <2> QED
    BY <2>1, <2>2
<1>3. ServerTypes'
  BY <1>1, <1>2, SameCatching, CounterTypes
<1> QED
  BY <1>1, <1>2, <1>3, SameGrows, OneThread

(* The new Event is the last object on the heap.                           *)
LEMMA CreateNewKept ==
  ASSUME KeptInv, NEW p \in Process, At(p, "create_new"),
         \E title \in Title, info \in Info :
           heap' = Append(heap, NewEvent(NameOf[p], loc[p].id, title, info)),
         loc' = [loc EXCEPT ![p].event = Len(heap) + 1],
         Goto(p, After("create_new")),
         UNCHANGED <<clientsSet, eventsMap, eventList, nextEventId, client>>
  PROVE  KeptInv'
<1>1. PICK title \in Title, info \in Info :
        heap' = Append(heap, NewEvent(NameOf[p], loc[p].id, title, info))
  OBVIOUS
<1> DEFINE n == Len(heap)
           e == NewEvent(NameOf[p], loc[p].id, title, info)
           l == [loc[p] EXCEPT !.event = n + 1]
<1>2. /\ ServerTypes /\ ThreadTypes /\ ThreadOK(p) /\ pc[p] = "create_new"
      /\ loc[p] \in LocType /\ loc[p].id \in Int
      /\ heap \in Seq(EventType) /\ n \in Nat
  BY DEF KeptInv, ServerTypes, ThreadTypes, LocType, At
<1>3. e \in EventType /\ e.eventId = loc[p].id
  BY <1>2, NewEventProperties, Upper
<1> HIDE DEF e
<1>4. /\ heap' \in Seq(EventType) /\ Len(heap') = n + 1 /\ heap'[n + 1] = e
      /\ \A a \in 1 .. n : heap'[a] = heap[a]
  BY <1>1, <1>2, <1>3 DEF e
<1>5. /\ l \in LocType /\ l.event = n + 1 /\ l.id = loc[p].id /\ l.lines = loc[p].lines
      /\ loc' = [loc EXCEPT ![p] = l]
  <2>1. n + 1 \in Nat
    BY <1>2
  <2>2. loc' = [loc EXCEPT ![p] = l]
    BY <1>2 DEF ThreadTypes
  <2> HIDE DEF n
  <2>3. /\ l \in LocType /\ l.event = n + 1 /\ l.id = loc[p].id /\ l.lines = loc[p].lines
    BY <1>2, <2>1 DEF LocType
  <2> QED
    BY <2>2, <2>3
<1> HIDE DEF l
<1>6. Moved(p) /\ pc'[p] = "create_push" /\ loc'[p] = l
  <2>1. Goto(p, "create_push") /\ UNCHANGED registered
    BY CreateOrder DEF client
  <2> QED
    BY <1>2, <1>5, <2>1, GotoMoved
<1>7. Catching' = Catching
  BY <1>2, <1>6, SameCatching
<1>8. Seq(1 .. n) \subseteq Seq(1 .. n + 1) /\ 1 .. n \subseteq 1 .. n + 1
  BY <1>2
<1>9. ServerTypes'
  <2>1. eventList' \in Seq(1 .. Len(heap'))
    BY <1>2, <1>4, <1>8 DEF ServerTypes
  <2>2. \A id \in DOMAIN eventsMap :
          /\ eventsMap[id] \in 1 .. Len(heap')
          /\ heap'[eventsMap[id]].eventId = id /\ LowestId <= id
    BY <1>2, <1>4, <1>8 DEF ServerTypes
  <2> QED
    BY <1>2, <1>4, <1>7, <2>1, <2>2 DEF ServerTypes
<1>10. Grows
  BY <1>2, <1>4 DEF Grows, ServerTypes
<1>11. ThreadOK(p)'
  <2>1. LowestId <= l.id /\ l.lines = 0
    BY <1>2, <1>5 DEF ThreadOK, Creating
  <2>2. n + 1 \in 0 .. Len(heap') /\ n + 1 # 0
    BY <1>2, <1>4
  <2> QED
    BY <1>3, <1>4, <1>5, <1>6, <2>1, <2>2 DEF ThreadOK, Holding, Creating
<1> QED
  BY <1>6, <1>9, <1>10, <1>11, OneThread

LEMMA CreatePushKept ==
  ASSUME KeptInv, NEW p \in Process, At(p, "create_push"),
         eventList' \in Stored(p, eventList, Append(eventList, loc[p].event)),
         Goto(p, After("create_push")),
         UNCHANGED <<clientsSet, eventsMap, nextEventId, heap, loc, client>>
  PROVE  KeptInv'
<1>1. /\ ServerTypes /\ ThreadTypes /\ ThreadOK(p) /\ pc[p] = "create_push"
      /\ heap \in Seq(EventType) /\ Len(heap) \in Nat
  BY DEF KeptInv, ServerTypes, At
<1>2. Moved(p) /\ pc'[p] = "create_map" /\ loc'[p] = loc[p]
  BY <1>1, CreateOrder, GotoSame DEF client
<1>3. Catching' = Catching
  BY <1>1, <1>2, SameCatching
<1>4. loc[p].event \in 1 .. Len(heap)
  BY <1>1 DEF ThreadOK, Holding
<1>5. eventList \in Seq(1 .. Len(heap))
      /\ eventList' \in {eventList, Append(eventList, loc[p].event)}
  <2>1. eventList \in Seq(1 .. Len(heap))
    BY <1>1 DEF ServerTypes
  <2> DEFINE longer == Append(eventList, loc[p].event)
  <2>2. eventList' \in Stored(p, eventList, longer)
    OBVIOUS
  <2> HIDE DEF longer
  <2>3. eventList' \in {eventList, longer}
    BY <2>2, StoredIsOldOrNew
  <2> QED
    BY <2>1, <2>3 DEF longer
<1>6. /\ eventList' \in Seq(1 .. Len(heap)) /\ Len(eventList') \in Nat
      /\ Len(eventList) <= Len(eventList')
  BY <1>4, <1>5
<1>7. ServerTypes' /\ Grows
  BY <1>1, <1>3, <1>6 DEF ServerTypes, Grows
<1>8. ThreadOK(p)'
  BY <1>1, <1>2 DEF ThreadOK, Holding, Creating
<1> QED
  BY <1>2, <1>7, <1>8, OneThread

LEMMA CreateMapKept ==
  ASSUME KeptInv, NEW p \in Process, At(p, "create_map"),
         eventsMap' \in Stored(p, eventsMap,
                                [k \in DOMAIN eventsMap \cup {MapKey(p)} |->
                                   IF k = MapKey(p) THEN loc[p].event ELSE eventsMap[k]]),
         Goto(p, After("create_map")),
         UNCHANGED <<clientsSet, eventList, nextEventId, heap, loc, client>>
  PROVE  KeptInv'
<1> DEFINE grown == [k \in DOMAIN eventsMap \cup {loc[p].id} |->
                       IF k = loc[p].id THEN loc[p].event ELSE eventsMap[k]]
<1>1. /\ ServerTypes /\ ThreadTypes /\ ThreadOK(p) /\ pc[p] = "create_map"
      /\ heap \in Seq(EventType) /\ Len(heap) \in Nat /\ loc[p].id \in Int
  BY DEF KeptInv, ServerTypes, ThreadTypes, LocType, At
<1>2. Moved(p) /\ pc'[p] = "create_inc" /\ loc'[p] = loc[p]
  BY <1>1, CreateOrder, GotoSame DEF client
<1>3. Catching' = Catching
  BY <1>1, <1>2, SameCatching
<1>4. /\ loc[p].event \in 1 .. Len(heap) /\ heap[loc[p].event].eventId = loc[p].id
      /\ LowestId <= loc[p].id
  BY <1>1 DEF ThreadOK, Holding, Creating
<1>5. eventsMap' \in {eventsMap, grown}
  BY StoredIsOldOrNew DEF MapKey
<1>6. /\ DOMAIN eventsMap' \subseteq Int
      /\ \A id \in DOMAIN eventsMap' :
           /\ eventsMap'[id] \in 1 .. Len(heap)
           /\ heap[eventsMap'[id]].eventId = id
           /\ LowestId <= id
  BY <1>1, <1>4, <1>5 DEF ServerTypes
<1>7. ServerTypes'
  BY <1>1, <1>3, <1>6 DEF ServerTypes
<1>8. ThreadOK(p)'
  BY <1>1, <1>2 DEF ThreadOK, Holding, Creating
<1> QED
  BY <1>2, <1>7, <1>8, SameGrows, OneThread

LEMMA CreateKept ==
  ASSUME KeptInv, NEW p \in Process, createEvent(p)
  PROVE  KeptInv'
BY CreateBeginsKept, FindKept, CreateCountsKept, CreateNewKept, CreatePushKept, CreateMapKept
   DEF createEvent

(* bad_alloc: the thread enters the catch block only where the counter may *)
(* go down once more, and leaves it with the counter one lower.            *)
LEMMA CreateFailsKept ==
  ASSUME KeptInv, NEW p \in Process, createEventFails(p)
  PROVE  KeptInv'
<1> DEFINE n == Cardinality(Catching)
           m == Cardinality(Catching')
<1>1. /\ ServerTypes /\ ThreadTypes /\ ThreadOK(p) /\ IsFiniteSet(Catching) /\ n \in Nat
      /\ nextEventId \in Int /\ LowestId <= nextEventId - n /\ Len(heap) \in Nat
      /\ LowestId \in Int
  BY CatchingIsFinite, ThreadsAssumption DEF KeptInv, ServerTypes
<1>2. CASE /\ pc[p] \in AllocFailures
           /\ nextEventId - Cardinality({q \in Process : At(q, "create_catch")}) > LowestId
           /\ Goto(p, "create_catch")
           /\ UNCHANGED <<server, loc, client>>
  <2>1. nextEventId - n > LowestId /\ pc[p] # "create_catch"
    BY <1>2, ThreadsAssumption DEF Catching, At
  <2>2. Moved(p) /\ pc'[p] = "create_catch" /\ loc'[p] = loc[p]
    BY <1>1, <1>2, GotoSame DEF client
  <2>3. Catching' = Catching \cup {p} /\ p \notin Catching
    BY <2>1, <2>2 DEF Catching, Moved
  <2>4. m = n + 1
    BY <1>1, <2>3, FS_AddElement
  <2>5. UNCHANGED <<clientsSet, eventsMap, eventList, nextEventId, heap>>
    BY <1>2 DEF server
  <2>6. LowestId <= nextEventId - m
    BY <1>1, <2>1, <2>4
  <2>7. ServerTypes'
    BY <1>1, <2>5, <2>6 DEF ServerTypes
  <2>8. pc[p] # "top_read"
    BY <1>2, ThreadsAssumption
  <2>9. ThreadOK(p)'
    BY <1>1, <2>2, <2>5, <2>8 DEF ThreadOK, Holding, Creating
  <2> QED
    BY <2>2, <2>5, <2>7, <2>9, SameGrows, OneThread
<1>3. CASE /\ At(p, "create_catch")
           /\ nextEventId' \in Stored(p, nextEventId, nextEventId - 1)
           /\ Answer(p, "CANNOT_ALLOCATE", 0)
           /\ UNCHANGED <<clientsSet, eventsMap, eventList, heap>>
  <2>1. Moved(p) /\ pc'[p] = "idle" /\ loc'[p] = NoLocals /\ pc[p] = "create_catch"
    BY <1>1, <1>3, AnswerMoved DEF At
  <2>2. Catching' = Catching \ {p} /\ p \in Catching
    BY <2>1 DEF Catching, Moved
  <2>3. m = n - 1
    BY <1>1, <2>2, FS_RemoveElement
  <2>4. nextEventId' \in {nextEventId, nextEventId - 1}
    BY <1>3, StoredIsOldOrNew
  <2>5. nextEventId' \in Int /\ LowestId <= nextEventId' - m
    BY <1>1, <2>3, <2>4
  <2>6. ServerTypes'
    BY <1>1, <1>3, <2>5 DEF ServerTypes
  <2>7. ThreadOK(p)'
    BY <1>1, <1>3, <2>1, IdleOK
  <2> QED
    BY <1>3, <2>1, <2>6, <2>7, SameGrows, OneThread
<1> QED
  BY <1>2, <1>3 DEF createEventFails

-----------------------------------------------------------------------------
(* A handler takes the Event* under an id it has found in the map.         *)
LEMMA LookupKept ==
  ASSUME KeptInv, NEW p \in Process, UNCHANGED <<server, client>>,
         pc[p] \in {"rsvp_exists", "list_exists"}, isEventExist(loc[p].id),
         loc' = [loc EXCEPT ![p].event = eventsMap[loc[p].id]],
         NEW label \in {"rsvp_check", "list_copy"}, Goto(p, label)
  PROVE  KeptInv'
<1> DEFINE a == eventsMap[loc[p].id]
           l == [loc[p] EXCEPT !.event = a]
<1>1. /\ ServerTypes /\ ThreadTypes /\ ThreadOK(p) /\ loc[p] \in LocType
      /\ heap \in Seq(EventType) /\ Len(heap) \in Nat
  BY DEF KeptInv, ServerTypes, ThreadTypes
<1>2. a \in 1 .. Len(heap)
  BY <1>1 DEF ServerTypes, isEventExist
<1>3. loc' = [loc EXCEPT ![p] = l]
  BY <1>1 DEF ThreadTypes
<1>4. a \in Nat /\ a \in 0 .. Len(heap) /\ a # 0
  BY <1>1, <1>2
<1> HIDE DEF a
<1>5. l \in LocType /\ l.event = a /\ l.lines = loc[p].lines
  BY <1>1, <1>4 DEF LocType
<1> HIDE DEF l
<1>6. Moved(p) /\ pc'[p] = label /\ loc'[p] = l
  <2>1. UNCHANGED registered
    BY DEF client
  <2> QED
    BY <1>1, <1>3, <1>5, <2>1, GotoMoved
<1>7. UNCHANGED <<heap, eventList>>
  BY DEF server
<1>8. ThreadOK(p)'
  BY <1>1, <1>4, <1>5, <1>6, <1>7 DEF ThreadOK, Holding, Creating
<1> QED
  BY <1>6, <1>8, ReadingStep

LEMMA GuestTypes ==
  ASSUME NEW e \in EventType, NEW p \in Process
  PROVE  /\ InsertGuest(e, p) \in EventType /\ InsertGuest(e, p).eventId = e.eventId
         /\ PushGuest(e, p) \in EventType /\ PushGuest(e, p).eventId = e.eventId
<1> DEFINE u == UpperName(p)
           names == e.guestsNames \cup {u}
           list == Append(e.RSVP_List, u)
<1>1. u \in Name /\ names \in SUBSET Name
  BY Upper DEF EventType
<1>2. list \in Seq(Name)
  BY <1>1 DEF EventType
<1>3. InsertGuest(e, p) = [e EXCEPT !.guestsNames = names]
      /\ PushGuest(e, p) = [e EXCEPT !.RSVP_List = list]
  BY DEF InsertGuest, PushGuest
<1> HIDE DEF names, list
<1> QED
  BY <1>1, <1>2, <1>3 DEF EventType

LEMMA RsvpKept ==
  ASSUME KeptInv, NEW p \in Process, sendRSVP(p)
  PROVE  KeptInv'
<1>1. /\ ServerTypes /\ ThreadTypes /\ ThreadOK(p) /\ loc[p] \in LocType
      /\ heap \in Seq(EventType) /\ Len(heap) \in Nat
  BY DEF KeptInv, ServerTypes, ThreadTypes
<1>2. CASE Find(p, "rsvp_find", "rsvp_exists")
  BY <1>2, FindKept
<1>3. CASE /\ At(p, "rsvp_exists") /\ UNCHANGED server
           /\ isEventExist(loc[p].id)
           /\ loc' = [loc EXCEPT ![p].event = eventsMap[loc[p].id]]
           /\ Goto(p, "rsvp_check") /\ UNCHANGED client
  BY <1>3, LookupKept DEF At
<1>4. CASE /\ At(p, "rsvp_exists") /\ UNCHANGED server /\ Answer(p, "NO_EVENT", loc[p].id)
  BY <1>4, ReadingAnswer DEF At
<1>5. CASE /\ At(p, "rsvp_check") /\ UNCHANGED server
           /\ Goto(p, "rsvp_insert") /\ UNCHANGED <<loc, client>>
  <2>1. Moved(p) /\ pc'[p] = "rsvp_insert" /\ loc'[p] = loc[p]
    BY <1>1, <1>5, GotoSame DEF client
  <2>2. ThreadOK(p)'
    BY <1>1, <1>5, <2>1 DEF ThreadOK, Holding, Creating, server, At
  <2> QED
    BY <1>5, <2>1, <2>2, ReadingStep DEF At
<1>6. CASE /\ At(p, "rsvp_check") /\ UNCHANGED server /\ Answer(p, "ALREADY_SENT", loc[p].id)
  BY <1>6, ReadingAnswer DEF At
<1>7. CASE /\ At(p, "rsvp_insert")
           /\ heap' \in Stored(p, heap, [heap EXCEPT ![loc[p].event] = InsertGuest(@, p)])
           /\ Goto(p, "rsvp_push")
           /\ UNCHANGED <<clientsSet, eventsMap, eventList, nextEventId, loc, client>>
  <2> DEFINE a == loc[p].event
             e == InsertGuest(heap[a], p)
  <2>1. a \in 1 .. Len(heap) /\ pc[p] = "rsvp_insert"
    BY <1>1, <1>7 DEF ThreadOK, Holding, At
  <2>2. e \in EventType /\ e.eventId = heap[a].eventId
    BY <1>1, <2>1, GuestTypes
  <2>3. heap' \in Stored(p, heap, [heap EXCEPT ![a] = e])
    BY <1>7
  <2> HIDE DEF e
  <2>4. Moved(p) /\ pc'[p] = "rsvp_push" /\ loc'[p] = loc[p]
    BY <1>1, <1>7, GotoSame DEF client
  <2>5. Catching' = Catching
    BY <2>1, <2>4, SameCatching
  <2>6. Grows /\ ServerTypes' /\ Len(heap') = Len(heap)
    BY <1>7, <2>1, <2>2, <2>3, <2>5, HeapUpdate
  <2>7. ThreadOK(p)'
    BY <1>1, <2>1, <2>4, <2>6 DEF ThreadOK, Holding, Creating
  <2> QED
    BY <2>4, <2>6, <2>7, OneThread
<1>8. CASE /\ At(p, "rsvp_push")
           /\ heap' \in Stored(p, heap, [heap EXCEPT ![loc[p].event] = PushGuest(@, p)])
           /\ Answer(p, "ACCEPTED", loc[p].id)
           /\ UNCHANGED <<clientsSet, eventsMap, eventList, nextEventId>>
  <2> DEFINE a == loc[p].event
             e == PushGuest(heap[a], p)
  <2>1. a \in 1 .. Len(heap) /\ pc[p] = "rsvp_push"
    BY <1>1, <1>8 DEF ThreadOK, Holding, At
  <2>2. e \in EventType /\ e.eventId = heap[a].eventId
    BY <1>1, <2>1, GuestTypes
  <2>3. heap' \in Stored(p, heap, [heap EXCEPT ![a] = e])
    BY <1>8
  <2> HIDE DEF e
  <2>4. Moved(p) /\ pc'[p] = "idle" /\ loc'[p] = NoLocals
    BY <1>1, <1>8, AnswerMoved
  <2>5. Catching' = Catching
    BY <2>1, <2>4, SameCatching
  <2>6. Grows /\ ServerTypes' /\ Len(heap') = Len(heap)
    BY <1>8, <2>1, <2>2, <2>3, <2>5, HeapUpdate
  <2>7. ThreadOK(p)'
    BY <1>1, <2>4, <2>6, IdleOK
  <2> QED
    BY <2>4, <2>6, <2>7, OneThread
<1> QED
  BY <1>2, <1>3, <1>4, <1>5, <1>6, <1>7, <1>8 DEF sendRSVP

LEMMA ListKept ==
  ASSUME KeptInv, NEW p \in Process, getRSVP_List(p)
  PROVE  KeptInv'
<1>1. UNCHANGED server
  BY DEF getRSVP_List
<1>2. CASE Find(p, "list_find", "list_exists")
  BY <1>2, FindKept
<1>3. CASE /\ At(p, "list_exists")
           /\ isEventExist(loc[p].id)
           /\ loc' = [loc EXCEPT ![p].event = eventsMap[loc[p].id]]
           /\ Goto(p, "list_copy") /\ UNCHANGED client
  BY <1>1, <1>3, LookupKept DEF At
<1>4. CASE At(p, "list_exists") /\ Answer(p, "NO_EVENT", loc[p].id)
  BY <1>1, <1>4, ReadingAnswer DEF At
<1>5. CASE /\ At(p, "list_copy")
           /\ Answer(p, "GUESTS", loc[p].id)
  BY <1>1, <1>5, ReadingAnswer DEF At
<1> QED
  BY <1>2, <1>3, <1>4, <1>5 DEF getRSVP_List

(* The first event shown is TopCount from the end of what the list was.    *)
LEMMA TopKept ==
  ASSUME KeptInv, NEW p \in Process, getTop5Events(p)
  PROVE  KeptInv'
<1> DEFINE n == Len(eventList)
<1>1. /\ ServerTypes /\ ThreadTypes /\ ThreadOK(p) /\ loc[p] \in LocType
      /\ n \in Nat /\ UNCHANGED server
  BY DEF KeptInv, ServerTypes, ThreadTypes, getTop5Events
<1>2. UNCHANGED <<heap, eventList>>
  BY <1>1 DEF server
<1>3. loc[p].it \in Int /\ loc[p].lines \in Int /\ TopCount \in Nat
  BY <1>1, ThreadsAssumption DEF LocType
<1>4. ASSUME NEW l \in LocType, l.event = loc[p].event,
             loc' = [loc EXCEPT ![p] = l], NEW label, Goto(p, label), UNCHANGED client,
             \/ label = "top_find" /\ l.lines = 0 /\ l.it \in 0 .. n
             \/ label = "top_read" /\ l.it - l.lines = 0
             \/ label = "top_read" /\ n - (l.it - l.lines) >= TopCount,
             pc[p] # "create_catch"
      PROVE  KeptInv'
  <2>1. Moved(p) /\ pc'[p] = label /\ loc'[p] = l
    BY <1>1, <1>4, GotoMoved DEF client
  <2>2. ThreadOK(p)'
    BY <1>1, <1>2, <1>4, <2>1 DEF ThreadOK, Holding, Creating
  <2> QED
    BY <1>1, <1>4, <2>1, <2>2, ReadingStep
<1>5. CASE /\ At(p, "top_size")
           /\ loc' = [loc EXCEPT ![p].it = Len(eventList)]
           /\ Goto(p, "top_find") /\ UNCHANGED client
  <2> DEFINE l == [loc[p] EXCEPT !.it = n]
  <2>1. /\ l \in LocType /\ l.event = loc[p].event /\ l.it = n /\ l.lines = loc[p].lines
        /\ loc' = [loc EXCEPT ![p] = l]
    <3>1. loc' = [loc EXCEPT ![p] = l]
      BY <1>1, <1>5 DEF ThreadTypes
    <3>2. n \in Int
      BY <1>1
    <3> HIDE DEF n
    <3>3. l \in LocType /\ l.event = loc[p].event /\ l.it = n /\ l.lines = loc[p].lines
      BY <1>1, <3>2 DEF LocType
    <3> QED
      BY <3>1, <3>3
  <2> HIDE DEF l
  <2>2. l.lines = 0 /\ l.it \in 0 .. n
    BY <1>1, <1>5, <2>1 DEF ThreadOK, At
  <2> QED
    BY <1>4, <1>5, <2>1, <2>2 DEF At
<1>6. CASE /\ At(p, "top_find")
           /\ loc' = [loc EXCEPT ![p].it = firstIdx(@)]
           /\ Goto(p, "top_read") /\ UNCHANGED client
  <2> DEFINE first == firstIdx(loc[p].it)
             l == [loc[p] EXCEPT !.it = first]
  <2>1. loc[p].lines = 0 /\ loc[p].it \in 0 .. n
    BY <1>1, <1>6 DEF ThreadOK, At
  <2>2. first \in Int /\ (first = 0 \/ n - first >= TopCount)
    BY <1>1, <1>3, <2>1 DEF firstIdx
  <2>3. loc' = [loc EXCEPT ![p] = l]
    BY <1>1, <1>6 DEF ThreadTypes
  <2> HIDE DEF first
  <2>4. l \in LocType /\ l.event = loc[p].event /\ l.it = first /\ l.lines = loc[p].lines
    BY <1>1, <2>2 DEF LocType
  <2> HIDE DEF l
  <2>5. l.it - l.lines = 0 \/ n - (l.it - l.lines) >= TopCount
    BY <1>1, <2>1, <2>2, <2>4
  <2> QED
    BY <1>4, <1>6, <2>3, <2>4, <2>5 DEF At
<1>7. CASE At(p, "top_find") /\ Answer(p, "NOT_REGISTERED", 0)
  BY <1>1, <1>7, ReadingAnswer DEF At
<1>8. CASE /\ At(p, "top_read")
           /\ loc' = [loc EXCEPT ![p].it = @ + 1, ![p].lines = @ + 1]
           /\ UNCHANGED <<pc, client>>
  <2> DEFINE next == loc[p].it + 1
             more == loc[p].lines + 1
             l == [loc[p] EXCEPT !.it = next, !.lines = more]
  <2>1. /\ l \in LocType /\ l.event = loc[p].event
        /\ l.it = loc[p].it + 1 /\ l.lines = loc[p].lines + 1
    <3>1. next \in Int /\ more \in Int
      BY <1>3
    <3> HIDE DEF next, more
    <3>2. l \in LocType /\ l.event = loc[p].event /\ l.it = next /\ l.lines = more
      BY <1>1, <3>1 DEF LocType
    <3> QED
      BY <3>2 DEF next, more
  <2>2. loc' = [loc EXCEPT ![p] = l]
    BY <1>1, <1>8 DEF ThreadTypes
  <2> HIDE DEF l
  <2>3. l.it - l.lines = loc[p].it - loc[p].lines
    BY <1>3, <2>1
  <2>4. registered' = registered /\ pc' = pc /\ pc[p] = "top_read"
    BY <1>8 DEF client, At
  <2>5. Moved(p) /\ loc'[p] = l
    BY <1>1, <2>1, <2>2, <2>4 DEF Moved, ThreadTypes
  <2>6. ThreadOK(p)'
    BY <1>1, <1>2, <2>1, <2>3, <2>4, <2>5 DEF ThreadOK, Holding, Creating
  <2> QED
    BY <1>1, <2>4, <2>5, <2>6, ReadingStep
<1>9. CASE At(p, "top_read") /\ Answer(p, "TOP", 0)
  BY <1>1, <1>9, ReadingAnswer DEF At
<1> QED
  BY <1>5, <1>6, <1>7, <1>8, <1>9 DEF getTop5Events

-----------------------------------------------------------------------------
LEMMA KeptInit ==
  ASSUME Init
  PROVE  KeptInv
<1>1. /\ \A p \in Process : pc[p] = "idle" /\ loc[p] = NoLocals
      /\ heap = <<>> /\ eventList = <<>> /\ eventsMap = <<>> /\ clientsSet = {}
      /\ nextEventId = 1
  BY DEF Init
<1>2. Catching = {} /\ Cardinality({}) = 0
  BY <1>1, FS_EmptySet DEF Catching
<1>3. heap \in Seq(EventType) /\ eventList \in Seq(1 .. Len(heap)) /\ Len(heap) = 0
      /\ DOMAIN eventsMap = {}
  BY <1>1
<1>4. ServerTypes
  BY <1>1, <1>2, <1>3, ThreadsAssumption DEF ServerTypes
<1>5. NoLocals \in LocType
  BY DEF NoLocals, LocType
<1>6. ThreadTypes
  BY <1>5 DEF Init, ThreadTypes
<1>7. \A p \in Process : ThreadOK(p)
  BY <1>1, <1>3 DEF ThreadOK, NoLocals, Holding, Creating
<1> QED
  BY <1>4, <1>6, <1>7 DEF KeptInv

LEMMA KeptSame ==
  ASSUME KeptInv, UNCHANGED <<server, pc, loc, client>>
  PROVE  KeptInv'
<1>1. UNCHANGED <<clientsSet, eventsMap, eventList, nextEventId, heap, pc, loc, registered>>
  BY DEF server, client
<1>2. Catching' = Catching
  BY <1>1 DEF Catching
<1>3. ServerTypes' /\ ThreadTypes'
  BY <1>1, <1>2 DEF KeptInv, ServerTypes, ThreadTypes
<1>4. \A p \in Process : ThreadOK(p)'
  BY <1>1 DEF KeptInv, ThreadOK
<1> QED
  BY <1>3, <1>4 DEF KeptInv

LEMMA KeptStep ==
  ASSUME KeptInv, [Next]_vars
  PROVE  KeptInv'
<1>1. ASSUME NEW p \in Process, Request(p) \/ handleClient(p)
      PROVE  KeptInv'
  BY <1>1, RequestKept, RegisterKept, UnregisterKept, CreateKept, CreateFailsKept, RsvpKept,
     ListKept, TopKept DEF handleClient
<1>2. CASE Crash
  BY <1>2, KeptSame DEF Crash
<1>3. CASE UNCHANGED vars
  BY <1>3, KeptSame DEF vars
<1> QED
  BY <1>1, <1>2, <1>3 DEF Next

LEMMA Kept == Spec => []KeptInv
<1>1. Init => KeptInv
  BY KeptInit
<1>2. KeptInv /\ [Next]_vars => KeptInv'
  BY KeptStep
<1> QED
  BY <1>1, <1>2, PTL DEF Spec

(* However the handlers of any number of emClients interleave, and         *)
(* whatever updates are lost and allocations fail, the containers and the  *)
(* local variables of handlers hold addresses of Events: no handler        *)
(* follows a pointer that is not one.                                      *)
THEOREM ThreadsTypes == Spec => []TypeOK
<1>1. KeptInv => TypeOK
  BY DEF KeptInv, ServerTypes, ThreadTypes, ThreadOK, TypeOK
<1> QED
  BY <1>1, Kept, PTL

(* As freely: an event is found under the id it was made with, though      *)
(* createEvent reads _nextEventId up to four times while others change it. *)
THEOREM KeysAreEventIds == Spec => []MapKeysAreEventIds
<1>1. KeptInv => MapKeysAreEventIds
  BY DEF KeptInv, ServerTypes, MapKeysAreEventIds
<1> QED
  BY <1>1, Kept, PTL

(* As freely: GET_TOP_5 shows TopCount events or all there are, although   *)
(* it reads the size before it checks the client and the end at every turn.*)
THEOREM TopShowsEnough == Spec => []TopIsComplete
<1>1. KeptInv => TopIsComplete
  BY DEF KeptInv, ThreadOK, TopIsComplete
<1> QED
  BY <1>1, Kept, PTL
=============================================================================
