------------------------- MODULE ServerGuestsProofs -------------------------
(***************************************************************************)
(* What holds of clients and guest lists under concurrent requests,        *)
(* whatever the names of the emClients, the order of the accesses, the     *)
(* updates that are lost and the allocations that fail: a name that no two *)
(* emClients have held at once, and none of whose updates overlapped       *)
(* another, is left alone by everybody else.                               *)
(***************************************************************************)
EXTENDS ServerThreadsProofs

(* Where the handler of an emClient may be that holds no name.             *)
Outside == {"idle", "reg_find", "reg_insert"}

HeldInv ==
  /\ \A p \in Process : pc[p] \notin Outside => registered[p]
  /\ HeldTwice \subseteq shared

(* The labels at which a handler holds an Event* it has not checked or     *)
(* written for the last time, and the events it may write: those, and the  *)
(* ones the map leads to.                                                  *)
Pointing == {"create_push", "create_map", "rsvp_check", "rsvp_insert", "rsvp_push"}
Mapped == {eventsMap[id] : id \in DOMAIN eventsMap}
Known(p) == Mapped \cup (IF pc[p] \in Pointing THEN {loc[p].event} ELSE {})

(* The event p is making is nobody else's yet.                             *)
Fresh(p) ==
  LET a == loc[p].event
  IN  /\ heap[a].guestsNames = {} /\ heap[a].RSVP_List = <<>>
      /\ \A q \in Process \ {p} : a \notin Known(q)
      /\ a \notin Mapped
FreshInv(p) == pc[p] \in {"create_push", "create_map"} => Fresh(p)

Once(list, x) == \A i, j \in DOMAIN list : list[i] = x /\ list[j] = x => i = j

(* One name, in all structures.                                            *)
NameInv(x) ==
  /\ \A id \in DOMAIN eventsMap :
       x \in ToSet(heap[eventsMap[id]].RSVP_List) => x \in clientsSet \cup Leaving
  /\ \A a \in 1 .. Len(heap) :
       /\ x \in ToSet(heap[a].RSVP_List) <=>
            x \in heap[a].guestsNames /\ x \notin HalfAccepted(a)
       /\ Once(heap[a].RSVP_List, x)

(* What the holder of a name may rely on between two steps of a handler:   *)
(* that it is still registered, that its name is still off, or on, the     *)
(* guest list, that its sweep has left no event behind.                    *)
Relies(p) ==
  LET u == UpperName(p)
      a == loc[p].event
  IN  /\ registered[p] => u \in clientsSet \/ pc[p] = "unreg_sweep"
      /\ pc[p] \in {"rsvp_exists", "rsvp_check", "rsvp_insert", "rsvp_push"} => u \in clientsSet
      /\ pc[p] = "rsvp_insert" => u \notin heap[a].guestsNames
      /\ pc[p] = "rsvp_push" => u \in heap[a].guestsNames
      /\ pc[p] = "unreg_sweep" =>
           \A id \in DOMAIN eventsMap :
             id <= loc[p].id => u \notin ToSet(heap[eventsMap[id]].RSVP_List)

GuestInv ==
  /\ KeptInv
  /\ HeldInv
  /\ \A p \in Process : FreshInv(p)
  /\ \A x \in Name \ Disturbed : NameInv(x)
  /\ \A p \in Process : UpperName(p) \notin Disturbed => Relies(p)

-----------------------------------------------------------------------------
(* A step of p's handler, and what the history keeps of it.                *)
Step(p) ==
  /\ KeptInv'
  /\ Moved(p)
  /\ Disturbed \subseteq Disturbed'
  /\ Overlaps(p) => UpperName(p) \in Disturbed'
  /\ HeldTwice' \subseteq shared'

(* What an update leaves behind is what it should, or its name is disturbed. *)
LEMMA StoredIsNew ==
  ASSUME NEW p \in Process, Step(p), NEW old, NEW new, NEW x \in Stored(p, old, new)
  PROVE  x = new \/ (x = old /\ UpperName(p) \in Disturbed')
BY DEF Stored, Step

(* To one guest an event is as before.                                     *)
SameTo(x, old, new) ==
  /\ x \in new.guestsNames <=> x \in old.guestsNames
  /\ x \in ToSet(new.RSVP_List) <=> x \in ToSet(old.RSVP_List)
  /\ Once(old.RSVP_List, x) => Once(new.RSVP_List, x)

(* What a step of p's may change: p's own name in the set of clients and   *)
(* on guest lists, events it knows, and what the map leads to, to events   *)
(* it knows; and without a name it changes nothing but the set.            *)
OwnStep(p) ==
  LET u == UpperName(p)
  IN  /\ clientsSet' \ {u} = clientsSet \ {u}
      /\ Len(heap) <= Len(heap')
      /\ \A a \in 1 .. Len(heap) :
           /\ \A x \in Name \ {u} : SameTo(x, heap[a], heap'[a])
           /\ heap'[a] = heap[a] \/ a \in Known(p)
      /\ \A a \in (1 .. Len(heap')) \ (1 .. Len(heap)) :
           heap'[a].guestsNames = {} /\ heap'[a].RSVP_List = <<>>
      /\ \A id \in DOMAIN eventsMap' :
           /\ eventsMap'[id] \in Known(p)
           /\ \/ id \in DOMAIN eventsMap /\ eventsMap'[id] = eventsMap[id]
              \/ ToSet(heap'[eventsMap'[id]].RSVP_List) = {}
      /\ pc'[p] \in Pointing => loc'[p].event \in Known(p) \/ loc'[p].event > Len(heap)
      /\ pc'[p] \notin Outside => registered'[p]
      /\ ~registered[p] => UNCHANGED <<eventsMap, heap>> /\ clientsSet \subseteq clientsSet'

LEMMA Lengths ==
  ASSUME KeptInv
  PROVE  /\ Len(heap) \in Nat /\ DOMAIN heap = 1 .. Len(heap)
         /\ \A a \in 1 .. Len(heap) : heap[a] \in EventType
         /\ \A id \in DOMAIN eventsMap : id \in Int /\ eventsMap[id] \in 1 .. Len(heap)
         /\ \A p \in Process : /\ loc[p].event \in 0 .. Len(heap)
                               /\ pc[p] \in Holding => loc[p].event \in 1 .. Len(heap)
<1>1. heap \in Seq(EventType)
  BY DEF KeptInv, ServerTypes
<1>2. Len(heap) \in Nat /\ DOMAIN heap = 1 .. Len(heap) /\ \A a \in 1 .. Len(heap) : heap[a] \in EventType
  BY <1>1
<1>3. \A id \in DOMAIN eventsMap : id \in Int /\ eventsMap[id] \in 1 .. Len(heap)
  BY DEF KeptInv, ServerTypes
<1>4. ASSUME NEW p \in Process
      PROVE  /\ loc[p].event \in 0 .. Len(heap)
             /\ pc[p] \in Holding => loc[p].event \in 1 .. Len(heap)
  BY <1>2 DEF KeptInv, ThreadOK
<1> QED
  BY <1>2, <1>3, <1>4

(* No two emClients that hold a name undisturbed have the same.            *)
LEMMA OneHolder ==
  ASSUME HeldInv, NEW p \in Process, NEW q \in Process, p # q,
         UpperName(p) = UpperName(q), registered[p], UpperName(p) \notin Disturbed
  PROVE  ~registered[q] /\ pc[q] \in Outside
BY DEF HeldInv, HeldTwice, Disturbed

(* The heart of the proof: no other thread loses what it relies on.        *)
LEMMA OthersRely ==
  ASSUME GuestInv, NEW p \in Process, Step(p), OwnStep(p), NEW q \in Process, q # p,
         UpperName(q) \notin Disturbed'
  PROVE  Relies(q)'
<1> DEFINE u == UpperName(q)
           a == loc[q].event
<1>1. KeptInv /\ HeldInv /\ Relies(q) /\ u \notin Disturbed /\ u \in Name
  BY Upper DEF GuestInv, Step
<1>2. /\ pc'[q] = pc[q] /\ loc'[q] = loc[q] /\ registered'[q] = registered[q]
      /\ Len(heap) \in Nat
      /\ pc[q] \in Holding => a \in 1 .. Len(heap)
      /\ \A id \in DOMAIN eventsMap : eventsMap[id] \in 1 .. Len(heap)
  BY <1>1, Lengths DEF Step, Moved
<1>3. CASE ~registered[q]
  <2>1. pc[q] \in Outside
    BY <1>1, <1>3 DEF HeldInv
  <2> QED
    BY <1>2, <1>3, <2>1 DEF Relies, Outside
<1>4. CASE registered[q] /\ UpperName(p) = u
  <2>1. ~registered[p]
    BY <1>1, <1>4, OneHolder
  <2> QED
    BY <1>1, <1>2, <2>1 DEF OwnStep, Relies
<1>5. CASE UpperName(p) # u
  <2>1. u \in clientsSet' <=> u \in clientsSet
    BY <1>5 DEF OwnStep
  <2>2. \A b \in 1 .. Len(heap) : SameTo(u, heap[b], heap'[b])
    BY <1>1, <1>5 DEF OwnStep
  <2>3. pc[q] \in {"rsvp_insert", "rsvp_push"} =>
          (u \in heap'[a].guestsNames <=> u \in heap[a].guestsNames)
    BY <1>2, <2>2 DEF Holding, SameTo
  <2>4. ASSUME pc[q] = "unreg_sweep", NEW id \in DOMAIN eventsMap', id <= loc[q].id
        PROVE  u \notin ToSet(heap'[eventsMap'[id]].RSVP_List)
    <3>1. CASE id \in DOMAIN eventsMap /\ eventsMap'[id] = eventsMap[id]
      BY <1>1, <1>2, <2>2, <2>4, <3>1 DEF Relies, SameTo
    <3>2. CASE ToSet(heap'[eventsMap'[id]].RSVP_List) = {}
      BY <3>2
    <3> QED
      BY <2>4, <3>1, <3>2 DEF OwnStep
  <2> HIDE DEF u
  <2> QED
    BY <1>1, <1>2, <2>1, <2>3, <2>4 DEF Relies, u
<1> QED
  BY <1>3, <1>4, <1>5

(* An event in the making stays its maker's.                               *)
LEMMA OthersFresh ==
  ASSUME GuestInv, NEW p \in Process, Step(p), OwnStep(p), NEW q \in Process, q # p
  PROVE  FreshInv(q)'
<1> DEFINE a == loc[q].event
<1>1. KeptInv /\ pc'[q] = pc[q] /\ loc'[q] = loc[q]
  BY DEF GuestInv, Step, Moved
<1> SUFFICES ASSUME pc[q] \in {"create_push", "create_map"}
             PROVE  Fresh(q)'
  BY <1>1 DEF FreshInv
<1>2. Fresh(q) /\ a \in 1 .. Len(heap) /\ a \notin Known(p) /\ Len(heap) \in Nat
  BY <1>1, Lengths DEF GuestInv, FreshInv, Holding, Fresh
<1>3. heap'[a] = heap[a]
  BY <1>2 DEF OwnStep
<1>4. a \notin Mapped'
  BY <1>2 DEF OwnStep, Mapped
<1>5. pc'[p] \in Pointing => loc'[p].event # a
  BY <1>2 DEF OwnStep
<1>6. \A r \in Process \ {p, q} : pc[r] \in Pointing => loc[r].event # a
  BY <1>2 DEF Fresh, Known
<1>7. \A r \in Process \ {p, q} : pc'[r] = pc[r] /\ loc'[r] = loc[r]
  BY DEF Step, Moved
<1>8. \A r \in Process \ {q} : a \notin Known(r)'
  BY <1>4, <1>5, <1>6, <1>7 DEF Known
<1> QED
  BY <1>1, <1>2, <1>3, <1>4, <1>8 DEF Fresh

(* Other names are as before in every structure.                           *)
LEMMA OtherNames ==
  ASSUME GuestInv, NEW p \in Process, Step(p), OwnStep(p),
         NEW x \in Name \ Disturbed', x # UpperName(p)
  PROVE  NameInv(x)'
<1>1. KeptInv /\ NameInv(x)
  BY DEF GuestInv, Step
<1>2. /\ Len(heap) \in Nat /\ Len(heap') \in Nat /\ Len(heap) <= Len(heap')
      /\ \A id \in DOMAIN eventsMap : eventsMap[id] \in 1 .. Len(heap)
  <2>1. Len(heap') \in Nat
    BY DEF Step, KeptInv, ServerTypes
  <2> QED
    BY <1>1, <2>1, Lengths DEF OwnStep
<1>3. \A q \in Process : UpperName(q) = x => pc'[q] = pc[q] /\ loc'[q] = loc[q]
  BY DEF Step, Moved
<1>4. x \in Leaving' <=> x \in Leaving
  BY <1>3 DEF Leaving
<1>5. \A a : x \in HalfAccepted(a)' <=> x \in HalfAccepted(a)
  BY <1>3 DEF HalfAccepted
<1>6. \A a \in 1 .. Len(heap) : SameTo(x, heap[a], heap'[a])
  BY DEF OwnStep
<1>7. ASSUME NEW id \in DOMAIN eventsMap', x \in ToSet(heap'[eventsMap'[id]].RSVP_List)
      PROVE  x \in clientsSet' \cup Leaving'
  <2>1. id \in DOMAIN eventsMap /\ eventsMap'[id] = eventsMap[id]
    BY <1>7 DEF OwnStep
  <2>2. x \in ToSet(heap[eventsMap[id]].RSVP_List)
    BY <1>2, <1>6, <1>7, <2>1 DEF SameTo
  <2>3. x \in clientsSet \cup Leaving
    BY <1>1, <2>1, <2>2 DEF NameInv
  <2> QED
    BY <1>4, <2>3 DEF OwnStep
<1>8. ASSUME NEW a \in 1 .. Len(heap')
      PROVE  /\ x \in ToSet(heap'[a].RSVP_List) <=>
                  x \in heap'[a].guestsNames /\ x \notin HalfAccepted(a)'
             /\ Once(heap'[a].RSVP_List, x)
  <2>1. CASE a \in 1 .. Len(heap)
    BY <1>1, <1>5, <1>6, <2>1 DEF NameInv, SameTo
  <2>2. CASE a \notin 1 .. Len(heap)
    <3>1. heap'[a].guestsNames = {} /\ heap'[a].RSVP_List = <<>>
      BY <1>8, <2>2 DEF OwnStep
    <3> QED
      BY <3>1 DEF ToSet, Once
  <2> QED
    BY <2>1, <2>2
<1> QED
  BY <1>7, <1>8 DEF NameInv

(* So each step has to look after its own name only.                       *)
LEMMA GuestStep ==
  ASSUME GuestInv, NEW p \in Process, Step(p), OwnStep(p), FreshInv(p)',
         UpperName(p) \notin Disturbed' => NameInv(UpperName(p))' /\ Relies(p)'
  PROVE  GuestInv'
<1>1. \A q \in Process : FreshInv(q)'
  BY OthersFresh
<1>2. \A q \in Process : UpperName(q) \notin Disturbed' => Relies(q)'
  BY OthersRely
<1>3. \A x \in Name \ Disturbed' : NameInv(x)'
  BY OtherNames
<1>4. HeldInv'
  <2>1. \A q \in Process : pc'[q] \notin Outside => registered'[q]
    BY DEF GuestInv, HeldInv, Step, Moved, OwnStep
  <2> QED
    BY <2>1 DEF HeldInv, Step
<1>5. KeptInv'
  BY DEF Step
<1>6. \A q : UpperName(q)' = UpperName(q)
  BY DEF UpperName
<1> QED
  BY <1>1, <1>2, <1>3, <1>4, <1>5, <1>6 DEF GuestInv

(* Whose steps change Leaving and HalfAccepted.                            *)
LEMMA NoLeaving ==
  ASSUME NEW p \in Process, Moved(p), pc[p] # "unreg_sweep", pc'[p] # "unreg_sweep"
  PROVE  Leaving' = Leaving
BY DEF Moved, Leaving

LEMMA NoHalf ==
  ASSUME NEW p \in Process, Moved(p), NEW a,
         pc[p] = "rsvp_push" => loc[p].event # a,
         pc'[p] = "rsvp_push" => loc'[p].event # a
  PROVE  HalfAccepted(a)' = HalfAccepted(a)
BY DEF Moved, HalfAccepted

(* A step that changes the set of clients at most.                         *)
LEMMA SetStep ==
  ASSUME GuestInv, NEW p \in Process, Step(p), UNCHANGED <<eventsMap, heap>>,
         clientsSet' \ {UpperName(p)} = clientsSet \ {UpperName(p)},
         pc'[p] \in Pointing => loc'[p].event \in Known(p),
         pc'[p] \notin Outside => registered'[p],
         ~registered[p] => clientsSet \subseteq clientsSet'
  PROVE  OwnStep(p)
<1>1. \A a : \A x : SameTo(x, heap[a], heap'[a])
  BY DEF SameTo
<1>2. \A id \in DOMAIN eventsMap' : eventsMap'[id] \in Known(p)
  BY DEF Known, Mapped
<1>3. Len(heap) \in Nat /\ heap' = heap /\ eventsMap' = eventsMap
  BY Lengths DEF GuestInv
<1>4. Len(heap) <= Len(heap') /\ (1 .. Len(heap')) \ (1 .. Len(heap)) = {}
  BY <1>3
<1>5. pc'[p] \in Pointing => loc'[p].event \in Known(p) \/ loc'[p].event > Len(heap)
  OBVIOUS
<1> QED
  BY <1>1, <1>2, <1>3, <1>4, <1>5 DEF OwnStep

(* A step that leaves clients, events and lists alone, and neither begins  *)
(* nor ends a sweep or an acceptance.                                      *)
LEMMA QuietStep ==
  ASSUME GuestInv, NEW p \in Process, Step(p), UNCHANGED <<clientsSet, eventsMap, heap>>,
         pc[p] \notin {"rsvp_push", "unreg_sweep"},
         pc'[p] \notin {"rsvp_push", "unreg_sweep"},
         registered'[p] => registered[p],
         pc'[p] \notin Outside => registered'[p],
         pc'[p] \in Pointing => loc'[p].event \in Known(p),
         FreshInv(p)',
         UpperName(p) \notin Disturbed =>
           /\ pc'[p] \in {"rsvp_exists", "rsvp_check", "rsvp_insert"} => UpperName(p) \in clientsSet
           /\ pc'[p] = "rsvp_insert" => UpperName(p) \notin heap[loc'[p].event].guestsNames
  PROVE  GuestInv'
<1> DEFINE u == UpperName(p)
<1>1. KeptInv /\ Moved(p) /\ u \in Name
  BY Upper DEF GuestInv, Step
<1>2. OwnStep(p)
  BY SetStep
<1>3. ASSUME u \notin Disturbed'
      PROVE  NameInv(u)' /\ Relies(p)'
  <2>1. u \notin Disturbed /\ NameInv(u) /\ Relies(p)
    BY <1>1, <1>3 DEF GuestInv, Step
  <2>2. Leaving' = Leaving /\ \A a : HalfAccepted(a)' = HalfAccepted(a)
    BY <1>1, NoLeaving, NoHalf
  <2>3. NameInv(u)'
    BY <2>1, <2>2 DEF NameInv
  <2>4. Relies(p)'
    BY <2>1 DEF Relies
  <2> QED
    BY <2>3, <2>4
<1> QED
  BY <1>2, <1>3, GuestStep

-----------------------------------------------------------------------------
(* What removeGuest and the insertions do to one name and to the others.   *)
LEMMA RemoveFirstOnce ==
  ASSUME NEW S, NEW s \in Seq(S), NEW u
  PROVE  LET r == RemoveFirst(s, u)
         IN  /\ \A x : x # u => (x \in ToSet(r) <=> x \in ToSet(s)) /\ (Once(s, x) => Once(r, x))
             /\ Once(s, u) => u \notin ToSet(r) /\ Once(r, u)
<1> DEFINE r == RemoveFirst(s, u)
<1>1. CASE u \notin ToSet(s)
  <2>1. r = s
    BY <1>1 DEF RemoveFirst, ToSet
  <2> QED
    BY <1>1, <2>1
<1>2. CASE u \in ToSet(s)
  <2>1. PICK k \in 1 .. Len(s) :
          /\ s[k] = u
          /\ r \in Seq(S) /\ Len(r) = Len(s) - 1
          /\ \A i \in 1 .. Len(s) - 1 : r[i] = IF i < k THEN s[i] ELSE s[i + 1]
    BY <1>2, RemoveFirstShifts
  <2> HIDE DEF r
  <2>2. DOMAIN s = 1 .. Len(s) /\ DOMAIN r = 1 .. Len(s) - 1 /\ Len(s) \in Nat
    BY <2>1
  <2>3. ASSUME NEW x \in ToSet(r)
        PROVE  x \in ToSet(s)
    BY <2>1, <2>2, <2>3 DEF ToSet
  <2>4. ASSUME NEW x \in ToSet(s), x # u
        PROVE  x \in ToSet(r)
    <3>1. PICK j \in 1 .. Len(s) : s[j] = x
      BY <2>4 DEF ToSet
    <3>2. j # k
      BY <2>1, <2>4, <3>1
    <3>3. CASE j < k
      BY <2>1, <3>1, <3>3 DEF ToSet
    <3>4. CASE j > k
      <4>1. j - 1 \in 1 .. Len(s) - 1 /\ r[j - 1] = x
        BY <2>1, <3>1, <3>4
      <4> QED
        BY <2>1, <4>1 DEF ToSet
    <3> QED
      BY <2>1, <3>2, <3>3, <3>4
  <2>5. ASSUME NEW x, Once(s, x)
        PROVE  Once(r, x)
    <3>1. ASSUME NEW i \in 1 .. Len(s) - 1, NEW j \in 1 .. Len(s) - 1, r[i] = x, r[j] = x
          PROVE  i = j
      <4> DEFINE f(n) == IF n < k THEN n ELSE n + 1
      <4>1. f(i) \in 1 .. Len(s) /\ f(j) \in 1 .. Len(s) /\ s[f(i)] = x /\ s[f(j)] = x
        BY <2>1, <2>2, <3>1
      <4>2. f(i) = f(j)
        BY <2>2, <2>5, <4>1 DEF Once
      <4> QED
        BY <2>1, <2>2, <4>2
    <3> QED
      BY <2>2, <3>1 DEF Once
  <2>6. ASSUME Once(s, u)
        PROVE  u \notin ToSet(r)
    <3>1. \A i \in 1 .. Len(s) : s[i] = u => i = k
      BY <2>1, <2>2, <2>6 DEF Once
    <3> QED
      BY <2>1, <2>2, <3>1 DEF ToSet
  <2> QED
    BY <2>3, <2>4, <2>5, <2>6 DEF r
<1> QED
  BY <1>1, <1>2

LEMMA RemovedGuest ==
  ASSUME NEW e \in EventType, NEW u \in ClientName, ToUpper[u] = u
  PROVE  LET new == removeGuest(e, u)
         IN  /\ \A x : x # u => SameTo(x, e, new)
             /\ u \notin new.guestsNames
             /\ Once(e.RSVP_List, u) /\ (u \in ToSet(e.RSVP_List) => u \in e.guestsNames)
                  => u \notin ToSet(new.RSVP_List) /\ Once(new.RSVP_List, u)
<1>1. CASE isNewGuest(e, u)
  BY <1>1 DEF isNewGuest, removeGuest, SameTo
<1>2. CASE ~isNewGuest(e, u)
  <2> DEFINE list == e.RSVP_List
             rest == RemoveFirst(e.RSVP_List, u)
             names == e.guestsNames \ {u}
             new == removeGuest(e, u)
  <2>1. list \in Seq(Name)
    BY DEF EventType
  <2>2. new = [e EXCEPT !.guestsNames = names, !.RSVP_List = rest]
    BY <1>2 DEF removeGuest
  <2>3. /\ \A x : x # u => (x \in ToSet(rest) <=> x \in ToSet(list)) /\ (Once(list, x) => Once(rest, x))
        /\ Once(list, u) => u \notin ToSet(rest) /\ Once(rest, u)
    BY <2>1, RemoveFirstOnce
  <2> HIDE DEF rest
  <2>4. new.guestsNames = names /\ new.RSVP_List = rest
    BY <2>2 DEF EventType
  <2> HIDE DEF new
  <2> QED
    BY <2>3, <2>4 DEF SameTo, new
<1> QED
  BY <1>1, <1>2

LEMMA AppendOnce ==
  ASSUME NEW S, NEW s \in Seq(S), NEW u \in S
  PROVE  LET t == Append(s, u)
         IN  /\ \A x : x # u => (x \in ToSet(t) <=> x \in ToSet(s)) /\ (Once(s, x) => Once(t, x))
             /\ u \in ToSet(t)
             /\ u \notin ToSet(s) => Once(t, u)
<1> DEFINE n == Len(s)
           t == Append(s, u)
<1>1. /\ Len(t) = n + 1 /\ n \in Nat /\ t[n + 1] = u
      /\ \A i \in 1 .. n : t[i] = s[i]
      /\ DOMAIN s = 1 .. n /\ DOMAIN t = 1 .. n + 1
  OBVIOUS
<1>2. 1 .. n + 1 = (1 .. n) \cup {n + 1} /\ n + 1 \notin 1 .. n
  BY <1>1
<1> HIDE DEF n, t
<1>3. ToSet(t) = ToSet(s) \cup {u}
  BY <1>1, <1>2 DEF ToSet
<1>4. \A x : x # u => (Once(s, x) => Once(t, x))
  BY <1>1, <1>2 DEF Once
<1>5. ASSUME u \notin ToSet(s)
      PROVE  Once(t, u)
  <2>1. \A i \in 1 .. n : s[i] # u
    BY <1>1, <1>5 DEF ToSet
  <2> QED
    BY <1>1, <1>2, <2>1 DEF Once
<1> QED
  BY <1>3, <1>4, <1>5 DEF t

LEMMA InsertedGuest ==
  ASSUME NEW e \in EventType, NEW p \in Process
  PROVE  LET u == UpperName(p)
             new == InsertGuest(e, p)
         IN  /\ new.guestsNames = e.guestsNames \cup {u} /\ new.RSVP_List = e.RSVP_List
             /\ \A x : x # u => SameTo(x, e, new)
BY DEF InsertGuest, EventType, SameTo

LEMMA PushedGuest ==
  ASSUME NEW e \in EventType, NEW p \in Process
  PROVE  LET u == UpperName(p)
             new == PushGuest(e, p)
         IN  /\ new.guestsNames = e.guestsNames
             /\ \A x : x # u => SameTo(x, e, new)
             /\ u \in ToSet(new.RSVP_List)
             /\ u \notin ToSet(e.RSVP_List) => Once(new.RSVP_List, u)
<1> DEFINE u == UpperName(p)
           new == PushGuest(e, p)
           list == Append(e.RSVP_List, u)
<1>1. e.RSVP_List \in Seq(Name) /\ u \in Name
  BY Upper DEF EventType
<1>2. new.guestsNames = e.guestsNames /\ new.RSVP_List = list
  BY DEF PushGuest, EventType
<1> HIDE DEF u
<1>3. /\ \A x : x # u => (x \in ToSet(list) <=> x \in ToSet(e.RSVP_List))
                         /\ (Once(e.RSVP_List, x) => Once(list, x))
      /\ u \in ToSet(list)
      /\ u \notin ToSet(e.RSVP_List) => Once(list, u)
  BY <1>1, AppendOnce
<1> HIDE DEF new, list
<1> QED
  BY <1>2, <1>3 DEF SameTo, new, u

-----------------------------------------------------------------------------
(* The steps that change what clients are told of.                         *)
LEMMA RegisterInserts ==
  ASSUME GuestInv, NEW p \in Process, Step(p), pc[p] = "reg_insert",
         clientsSet' \in Stored(p, clientsSet, InsertClient(p)), Answer(p, "REGISTERED", 0),
         UNCHANGED <<eventsMap, eventList, nextEventId, heap>>
  PROVE  GuestInv'
<1> DEFINE u == UpperName(p)
<1>1. /\ KeptInv /\ Moved(p) /\ pc'[p] = "idle" /\ u \in Name /\ Len(heap) \in Nat
  <2>1. KeptInv /\ Moved(p) /\ pc'[p] = "idle"
    BY DEF GuestInv, Step, KeptInv, ThreadTypes, Answer
  <2> QED
    BY <2>1, Lengths, Upper
<1>2. clientsSet' = clientsSet \cup {u} \/ (clientsSet' = clientsSet /\ u \in Disturbed')
  BY StoredIsNew DEF InsertClient
<1>3. OwnStep(p)
  <2>1. clientsSet' \ {u} = clientsSet \ {u}
    BY <1>1, <1>2
  <2> QED
    BY <1>1, <1>2, <2>1, SetStep DEF Pointing, Outside
<1>4. ASSUME u \notin Disturbed'
      PROVE  NameInv(u)' /\ Relies(p)'
  <2>1. u \notin Disturbed /\ NameInv(u) /\ clientsSet' = clientsSet \cup {u}
    BY <1>1, <1>2, <1>4 DEF GuestInv, Step
  <2>2. \A a : HalfAccepted(a)' = HalfAccepted(a)
    BY <1>1, NoHalf
  <2>3. NameInv(u)'
    BY <2>1, <2>2 DEF NameInv
  <2>4. Relies(p)'
    BY <1>1, <2>1 DEF Relies
  <2> QED
    BY <2>3, <2>4
<1>5. FreshInv(p)'
  BY <1>1 DEF FreshInv
<1> QED
  BY <1>3, <1>4, <1>5, GuestStep

LEMMA UnregisterErases ==
  ASSUME GuestInv, NEW p \in Process, Step(p), pc[p] = "unreg_erase",
         clientsSet' \in Stored(p, clientsSet, clientsSet \ {UpperName(p)}),
         Goto(p, "unreg_sweep"), loc' = [loc EXCEPT ![p].id = SweepStart],
         UNCHANGED <<eventsMap, eventList, nextEventId, heap, client>>
  PROVE  GuestInv'
<1> DEFINE u == UpperName(p)
<1>1. /\ KeptInv /\ Moved(p) /\ pc'[p] = "unreg_sweep" /\ loc'[p].id = LowestId - 1
      /\ registered[p] /\ registered'[p]
  BY DEF GuestInv, HeldInv, Outside, Step, KeptInv, ThreadTypes, Goto, SweepStart, LocType, client
<1>2. u \in Name /\ Len(heap) \in Nat
  BY <1>1, Lengths, Upper
<1>3. clientsSet' = clientsSet \ {u} \/ (clientsSet' = clientsSet /\ u \in Disturbed')
  BY StoredIsNew
<1>4. OwnStep(p)
  <2>1. clientsSet' \ {u} = clientsSet \ {u}
    BY <1>1, <1>3
  <2> QED
    BY <1>1, <1>3, <2>1, SetStep DEF Pointing, Outside
<1>5. ASSUME u \notin Disturbed'
      PROVE  NameInv(u)' /\ Relies(p)'
  <2>1. u \notin Disturbed /\ NameInv(u)
    BY <1>2, <1>5 DEF GuestInv, Step
  <2>2. \A a : HalfAccepted(a)' = HalfAccepted(a)
    BY <1>1, NoHalf
  <2>3. u \in Leaving'
    BY <1>1 DEF Leaving
  <2>4. NameInv(u)'
    BY <2>1, <2>2, <2>3 DEF NameInv
  <2>5. \A id \in DOMAIN eventsMap : ~(id <= LowestId - 1)
    BY <1>1, ThreadsAssumption DEF KeptInv, ServerTypes
  <2>6. Relies(p)'
    BY <1>1, <2>5 DEF Relies
  <2> QED
    BY <2>4, <2>6
<1>6. FreshInv(p)'
  BY <1>1 DEF FreshInv
<1> QED
  BY <1>4, <1>5, <1>6, GuestStep

(* The sweep comes to its end: no list has the name of the client.         *)
LEMMA SweepEnds ==
  ASSUME GuestInv, NEW p \in Process, Step(p),
         pc[p] = "unreg_sweep", KeysAfter(loc[p].id) = {},
         Answer(p, "UNREGISTERED", 0), UNCHANGED server
  PROVE  GuestInv'
<1> DEFINE u == UpperName(p)
<1>1. /\ KeptInv /\ Moved(p) /\ pc'[p] = "idle" /\ ~registered'[p] /\ registered[p]
      /\ UNCHANGED <<clientsSet, eventsMap, eventList, nextEventId, heap>>
  BY DEF GuestInv, HeldInv, Outside, Step, KeptInv, ThreadTypes, Answer, server
<1>2. u \in Name /\ Len(heap) \in Nat
  BY <1>1, Lengths, Upper
<1>3. OwnStep(p)
  <2>1. clientsSet' \ {u} = clientsSet \ {u}
    BY <1>1
  <2> QED
    BY <1>1, <2>1, SetStep DEF Pointing, Outside
<1>4. ASSUME u \notin Disturbed'
      PROVE  NameInv(u)' /\ Relies(p)'
  <2>1. NameInv(u) /\ Relies(p)
    BY <1>2, <1>4 DEF GuestInv, Step
  <2>2. \A a : HalfAccepted(a)' = HalfAccepted(a)
    BY <1>1, NoHalf
  <2>3. ASSUME NEW id \in DOMAIN eventsMap
        PROVE  u \notin ToSet(heap[eventsMap[id]].RSVP_List)
    <3>1. id \in Int /\ loc[p].id \in Int /\ ~(id > loc[p].id)
      BY <1>1, Lengths DEF KeptInv, ThreadTypes, LocType, KeysAfter
    <3>2. id <= loc[p].id
      BY <3>1
    <3> QED
      BY <1>1, <2>1, <3>2 DEF Relies
  <2>4. NameInv(u)'
    BY <1>1, <2>1, <2>2, <2>3 DEF NameInv
  <2>5. Relies(p)'
    BY <1>1 DEF Relies
  <2> QED
    BY <2>4, <2>5
<1>5. FreshInv(p)'
  BY <1>1 DEF FreshInv
<1> QED
  BY <1>3, <1>4, <1>5, GuestStep

(* An update of one event, which may be lost.                              *)
LEMMA OneEvent ==
  ASSUME GuestInv, NEW p \in Process, Step(p), registered[p],
         NEW a \in 1 .. Len(heap), a \in Known(p), NEW e,
         \A x : x # UpperName(p) => SameTo(x, heap[a], e),
         heap' \in {heap, [heap EXCEPT ![a] = e]},
         UNCHANGED <<clientsSet, eventsMap>>,
         pc'[p] \in Pointing => loc'[p].event \in Known(p),
         pc'[p] \notin Outside => registered'[p]
  PROVE  OwnStep(p)
<1>1. Len(heap) \in Nat /\ Len(heap') = Len(heap) /\ DOMAIN heap = 1 .. Len(heap)
  <2>1. heap \in Seq(EventType)
    BY DEF GuestInv, KeptInv, ServerTypes
  <2> QED
    BY <2>1
<1>2. \A b \in 1 .. Len(heap) : heap'[b] = heap[b] \/ (b = a /\ heap'[b] = e)
  BY <1>1
<1>3. \A b : \A x : SameTo(x, heap[b], heap[b])
  BY DEF SameTo
<1>4. \A b \in 1 .. Len(heap) :
        /\ \A x \in Name \ {UpperName(p)} : SameTo(x, heap[b], heap'[b])
        /\ heap'[b] = heap[b] \/ b \in Known(p)
  BY <1>2, <1>3
<1>5. \A id \in DOMAIN eventsMap' : eventsMap'[id] \in Known(p)
  BY DEF Known, Mapped
<1> QED
  BY <1>1, <1>4, <1>5 DEF OwnStep

(* Nobody else is in the middle of an acceptance under a holder's name.    *)
LEMMA NobodyHalf ==
  ASSUME HeldInv, NEW p \in Process, registered[p], UpperName(p) \notin Disturbed, NEW a,
         pc[p] = "rsvp_push" => loc[p].event # a
  PROVE  UpperName(p) \notin HalfAccepted(a)
<1>1. ASSUME NEW q \in Process, UpperName(q) = UpperName(p), q # p
      PROVE  pc[q] # "rsvp_push"
  BY <1>1, OneHolder DEF Outside
<1> QED
  BY <1>1 DEF HalfAccepted

(* The sweep takes the guest off one event's list.                         *)
LEMMA SweepRemoves ==
  ASSUME GuestInv, NEW p \in Process, Step(p),
         pc[p] = "unreg_sweep", KeysAfter(loc[p].id) # {},
         heap' \in Stored(p, heap, [heap EXCEPT ![eventsMap[NextKey(loc[p].id)]] =
                                      removeGuest(@, UpperName(p))]),
         loc' = [loc EXCEPT ![p].id = NextKey(loc[p].id)],
         UNCHANGED <<clientsSet, eventsMap, eventList, nextEventId, pc, client>>
  PROVE  GuestInv'
<1> DEFINE u == UpperName(p)
           key == NextKey(loc[p].id)
           a == eventsMap[key]
           e == removeGuest(heap[a], u)
<1>1. /\ KeptInv /\ HeldInv /\ Moved(p) /\ ServerTypes /\ loc[p] \in LocType /\ loc[p].id \in Int
      /\ heap \in Seq(EventType) /\ pc' = pc /\ registered' = registered /\ registered[p]
  BY DEF GuestInv, HeldInv, Outside, Step, KeptInv, ThreadTypes, LocType, ServerTypes, client
<1>2. /\ key \in DOMAIN eventsMap
      /\ \A k \in DOMAIN eventsMap : loc[p].id < k => key <= k
  BY <1>1, NextKeyIsLeast
<1>3. loc'[p].id = key
  BY <1>1 DEF LocType, KeptInv, ThreadTypes
<1> HIDE DEF key
<1>4. /\ a \in 1 .. Len(heap) /\ a \in Mapped /\ heap[a] \in EventType
      /\ \A id \in DOMAIN eventsMap : id \in Int /\ eventsMap[id] \in 1 .. Len(heap)
  BY <1>1, <1>2, Lengths DEF Mapped
<1>5. /\ \A x : x # u => SameTo(x, heap[a], e)
      /\ u \notin e.guestsNames
      /\ Once(heap[a].RSVP_List, u) /\ (u \in ToSet(heap[a].RSVP_List) => u \in heap[a].guestsNames)
           => u \notin ToSet(e.RSVP_List) /\ Once(e.RSVP_List, u)
  <2>1. u \in ClientName /\ ToUpper[u] = u
    BY Upper
  <2> HIDE DEF u
  <2> QED
    BY <1>4, <2>1, RemovedGuest
<1>6. heap' \in Stored(p, heap, [heap EXCEPT ![a] = e])
  BY DEF key
<1> HIDE DEF a, e
<1>7. heap' = [heap EXCEPT ![a] = e] \/ (heap' = heap /\ u \in Disturbed')
  <2> DEFINE new == [heap EXCEPT ![a] = e]
  <2>1. heap' \in Stored(p, heap, new)
    BY <1>6
  <2> HIDE DEF new
  <2>2. heap' = new \/ (heap' = heap /\ u \in Disturbed')
    BY <2>1, StoredIsNew
  <2> QED
    BY <2>2 DEF new
<1>8. OwnStep(p)
  <2>1. a \in Known(p) /\ pc'[p] \notin Pointing
    BY <1>1, <1>4 DEF Known, Pointing
  <2>2. heap' \in {heap, [heap EXCEPT ![a] = e]}
    BY <1>7
  <2> QED
    BY <1>1, <1>4, <1>5, <2>1, <2>2, OneEvent
<1>9. ASSUME u \notin Disturbed'
      PROVE  NameInv(u)' /\ Relies(p)'
  <2>1. u \notin Disturbed /\ NameInv(u) /\ Relies(p) /\ heap' = [heap EXCEPT ![a] = e]
    BY <1>7, <1>9, Upper DEF GuestInv, Step
  <2>2. heap'[a] = e /\ Len(heap') = Len(heap)
        /\ \A b \in 1 .. Len(heap) : b # a => heap'[b] = heap[b]
    BY <1>1, <1>4, <2>1
  <2>3. u \notin HalfAccepted(a)
    BY <1>1, <2>1, NobodyHalf
  <2>4. u \notin ToSet(e.RSVP_List) /\ Once(e.RSVP_List, u)
    BY <1>4, <1>5, <2>1, <2>3 DEF NameInv
  <2>5. u \in Leaving' /\ \A b : HalfAccepted(b)' = HalfAccepted(b)
    <3>1. u \in Leaving'
      BY <1>1 DEF Leaving
    <3>2. \A b : HalfAccepted(b)' = HalfAccepted(b)
      BY <1>1, NoHalf
    <3> QED
      BY <3>1, <3>2
  <2> HIDE DEF u
  <2>6. NameInv(u)'
    <3>1. ASSUME NEW b \in 1 .. Len(heap)
          PROVE  /\ u \in ToSet(heap'[b].RSVP_List) <=>
                      u \in heap'[b].guestsNames /\ u \notin HalfAccepted(b)'
                 /\ Once(heap'[b].RSVP_List, u)
      <4>1. CASE b = a
        BY <1>5, <2>2, <2>4, <4>1
      <4>2. CASE b # a
        BY <2>1, <2>2, <2>5, <4>2 DEF NameInv
      <4> QED
        BY <4>1, <4>2
    <3> QED
      BY <2>2, <2>5, <3>1 DEF NameInv
  <2>7. ASSUME NEW id \in DOMAIN eventsMap, id <= key
        PROVE  u \notin ToSet(heap'[eventsMap[id]].RSVP_List)
    <3>1. CASE eventsMap[id] = a
      BY <2>2, <2>4, <3>1
    <3>2. CASE eventsMap[id] # a
      <4>1. id # key
        BY <3>2 DEF a
      <4>2. key \in Int /\ id \in Int /\ loc[p].id \in Int
        BY <1>1, <1>2, <1>4
      <4>3. id <= loc[p].id
        <5>1. ~(loc[p].id < id)
          BY <1>2, <2>7, <4>1, <4>2
        <5> QED
          BY <4>2, <5>1
      <4>4. u \notin ToSet(heap[eventsMap[id]].RSVP_List)
        BY <1>1, <2>1, <4>3 DEF Relies, u
      <4> QED
        BY <1>4, <2>2, <3>2, <4>4
    <3> QED
      BY <3>1, <3>2
  <2>8. Relies(p)'
    BY <1>1, <1>3, <2>7 DEF Relies, u
  <2> QED
    BY <2>6, <2>8
<1>10. FreshInv(p)'
  BY <1>1 DEF FreshInv
<1> QED
  BY <1>8, <1>9, <1>10, GuestStep

(* A new event, which nobody else can reach.                               *)
LEMMA CreateAllocates ==
  ASSUME GuestInv, NEW p \in Process, Step(p), pc[p] = "create_new",
         \E title \in Title, info \in Info :
           heap' = Append(heap, NewEvent(NameOf[p], loc[p].id, title, info)),
         loc' = [loc EXCEPT ![p].event = Len(heap) + 1],
         Goto(p, "create_push"),
         UNCHANGED <<clientsSet, eventsMap, eventList, nextEventId, client>>
  PROVE  GuestInv'
<1> DEFINE u == UpperName(p)
           n == Len(heap)
<1>1. /\ KeptInv /\ HeldInv /\ Moved(p) /\ loc[p].id \in Int
      /\ heap \in Seq(EventType) /\ n \in Nat
      /\ pc'[p] = "create_push" /\ loc'[p].event = n + 1
      /\ registered[p] /\ registered' = registered
      /\ \A q \in Process : loc[q].event \in 0 .. n
      /\ \A id \in DOMAIN eventsMap : eventsMap[id] \in 1 .. n
  <2>1. KeptInv /\ HeldInv /\ Moved(p)
    BY DEF GuestInv, Step
  <2> QED
    BY <2>1, Lengths DEF HeldInv, Outside, KeptInv, ThreadTypes, LocType, ServerTypes, Goto, client
<1>2. PICK e \in EventType : /\ heap' = Append(heap, e)
                             /\ e.guestsNames = {} /\ e.RSVP_List = <<>>
  <2>1. PICK title \in Title, info \in Info :
          heap' = Append(heap, NewEvent(NameOf[p], loc[p].id, title, info))
    OBVIOUS
  <2> DEFINE e == NewEvent(NameOf[p], loc[p].id, title, info)
  <2>2. e \in EventType /\ e.guestsNames = {} /\ e.RSVP_List = <<>>
    BY <1>1, Upper, NewEventProperties DEF NewEvent
  <2> HIDE DEF e
  <2>3. heap' = Append(heap, e)
    BY <2>1 DEF e
  <2> QED
    BY <2>2, <2>3
<1>3. /\ Len(heap') = n + 1 /\ heap'[n + 1] = e
      /\ \A a \in 1 .. n : heap'[a] = heap[a]
      /\ 1 .. n + 1 = (1 .. n) \cup {n + 1}
  BY <1>1, <1>2
<1> HIDE DEF n
<1>4. OwnStep(p)
  <2>1. \A a : \A x : SameTo(x, heap[a], heap[a])
    BY DEF SameTo
  <2>2. \A a \in 1 .. n : \A x \in Name \ {u} : SameTo(x, heap[a], heap'[a])
    BY <1>3, <2>1
  <2>3. \A a \in (1 .. n + 1) \ (1 .. n) : heap'[a].guestsNames = {} /\ heap'[a].RSVP_List = <<>>
    BY <1>2, <1>3
  <2>4. \A id \in DOMAIN eventsMap' : eventsMap'[id] \in Known(p)
    BY DEF Known, Mapped
  <2>5. n <= n + 1 /\ n + 1 > n
    BY <1>1
  <2> HIDE DEF u
  <2> QED
    BY <1>1, <1>3, <2>2, <2>3, <2>4, <2>5 DEF OwnStep, n, u
<1>5. FreshInv(p)'
  <2>1. \A id \in DOMAIN eventsMap : eventsMap[id] # n + 1
    BY <1>1
  <2>2. \A q \in Process \ {p} : loc'[q].event # n + 1
    BY <1>1 DEF Moved
  <2>3. n + 1 \notin Mapped'
    BY <2>1 DEF Mapped
  <2>4. \A q \in Process \ {p} : n + 1 \notin Known(q)'
    BY <2>2, <2>3 DEF Known
  <2> QED
    BY <1>1, <1>2, <1>3, <2>3, <2>4 DEF FreshInv, Fresh
<1>6. ASSUME u \notin Disturbed'
      PROVE  NameInv(u)' /\ Relies(p)'
  <2>1. NameInv(u) /\ Relies(p)
    BY <1>6, Upper DEF GuestInv, Step
  <2>2. Leaving' = Leaving /\ \A a : HalfAccepted(a)' = HalfAccepted(a)
    <3>1. Leaving' = Leaving
      BY <1>1, NoLeaving
    <3>2. \A a : HalfAccepted(a)' = HalfAccepted(a)
      BY <1>1, NoHalf
    <3> QED
      BY <3>1, <3>2
  <2> HIDE DEF u
  <2>3. NameInv(u)'
    <3>1. ASSUME NEW a \in 1 .. n + 1
          PROVE  /\ u \in ToSet(heap'[a].RSVP_List) <=>
                      u \in heap'[a].guestsNames /\ u \notin HalfAccepted(a)'
                 /\ Once(heap'[a].RSVP_List, u)
      <4>1. CASE a \in 1 .. n
        BY <1>3, <2>1, <2>2, <4>1 DEF NameInv, n
      <4>2. CASE a = n + 1
        BY <1>2, <1>3, <4>2 DEF ToSet, Once
      <4> QED
        BY <1>3, <4>1, <4>2
    <3>2. \A id \in DOMAIN eventsMap : heap'[eventsMap[id]] = heap[eventsMap[id]]
      BY <1>1, <1>3
    <3> QED
      BY <1>3, <2>1, <2>2, <3>1, <3>2 DEF NameInv
  <2>4. Relies(p)'
    BY <1>1, <2>1 DEF Relies, u
  <2> QED
    BY <2>3, <2>4
<1> QED
  BY <1>4, <1>5, <1>6, GuestStep

LEMMA CreatePushes ==
  ASSUME GuestInv, NEW p \in Process, Step(p), pc[p] = "create_push",
         Goto(p, "create_map"),
         UNCHANGED <<clientsSet, eventsMap, nextEventId, heap, loc, client>>
  PROVE  GuestInv'
<1>1. /\ KeptInv /\ HeldInv /\ Moved(p) /\ Fresh(p)
      /\ pc'[p] = "create_map" /\ registered[p] /\ registered' = registered
      /\ loc'[p].event \in Known(p)
  BY DEF GuestInv, HeldInv, FreshInv, Outside, Step, KeptInv, ThreadTypes, Goto, client,
         Known, Pointing
<1>2. \A q \in Process \ {p} : Known(q)' = Known(q)
  BY <1>1 DEF Known, Mapped, Moved
<1>3. FreshInv(p)'
  BY <1>1, <1>2 DEF FreshInv, Fresh, Mapped
<1> QED
  BY <1>1, <1>3, QuietStep DEF Outside

(* The event is put in the map, perhaps in the place of another.           *)
LEMMA CreateMaps ==
  ASSUME GuestInv, NEW p \in Process, Step(p), pc[p] = "create_map",
         NEW grown, grown = [k \in DOMAIN eventsMap \cup {MapKey(p)} |->
                               IF k = MapKey(p) THEN loc[p].event ELSE eventsMap[k]],
         eventsMap' \in {eventsMap, grown},
         Goto(p, "create_inc"),
         UNCHANGED <<clientsSet, eventList, nextEventId, heap, loc, client>>
  PROVE  GuestInv'
<1> DEFINE u == UpperName(p)
           a == loc[p].event
<1>1. /\ KeptInv /\ HeldInv /\ Moved(p) /\ Fresh(p)
      /\ pc'[p] = "create_inc" /\ registered[p] /\ registered' = registered
      /\ a \in Known(p) /\ Len(heap) \in Nat /\ u \in Name
  <2>1. KeptInv /\ HeldInv /\ Moved(p) /\ Fresh(p)
    BY DEF GuestInv, FreshInv, Step
  <2> QED
    BY <2>1, Lengths, Upper DEF HeldInv, Outside, KeptInv, ThreadTypes, Goto, client, Known, Pointing
<1>2. ToSet(heap[a].RSVP_List) = {}
  BY <1>1 DEF Fresh, ToSet
<1>3. \A k \in DOMAIN eventsMap' :
        (k \in DOMAIN eventsMap /\ eventsMap'[k] = eventsMap[k]) \/ eventsMap'[k] = a
  BY DEF MapKey
<1> HIDE DEF a, u
<1>4. OwnStep(p)
  <2>1. \A b : \A x : SameTo(x, heap[b], heap'[b])
    BY DEF SameTo
  <2>2. \A k \in DOMAIN eventsMap' : eventsMap'[k] \in Known(p)
    BY <1>1, <1>3 DEF Known, Mapped
  <2>3. \A k \in DOMAIN eventsMap' :
          \/ k \in DOMAIN eventsMap /\ eventsMap'[k] = eventsMap[k]
          \/ ToSet(heap'[eventsMap'[k]].RSVP_List) = {}
    BY <1>2, <1>3
  <2>4. Len(heap) <= Len(heap') /\ (1 .. Len(heap')) \ (1 .. Len(heap)) = {}
    BY <1>1
  <2>5. heap' = heap /\ pc'[p] \notin Pointing
    BY <1>1 DEF Pointing
  <2> QED
    BY <1>1, <2>1, <2>2, <2>3, <2>4, <2>5 DEF OwnStep
<1>5. FreshInv(p)'
  BY <1>1 DEF FreshInv
<1>6. ASSUME u \notin Disturbed'
      PROVE  NameInv(u)' /\ Relies(p)'
  <2>1. NameInv(u) /\ Relies(p)
    BY <1>1, <1>6 DEF GuestInv, Step, u
  <2>2. Leaving' = Leaving /\ \A b : HalfAccepted(b)' = HalfAccepted(b)
    BY <1>1, NoLeaving, NoHalf
  <2>3. \A id \in DOMAIN eventsMap' :
          u \in ToSet(heap[eventsMap'[id]].RSVP_List) => u \in clientsSet \cup Leaving
    BY <1>2, <1>3, <2>1 DEF NameInv
  <2>4. NameInv(u)'
    BY <2>1, <2>2, <2>3 DEF NameInv
  <2>5. Relies(p)'
    BY <1>1, <2>1 DEF Relies, u
  <2> QED
    BY <2>4, <2>5
<1> QED
  BY <1>4, <1>5, <1>6, GuestStep DEF u

(* The name enters the set; the list is to follow.                         *)
LEMMA AcceptanceInserts ==
  ASSUME GuestInv, NEW p \in Process, Step(p), pc[p] = "rsvp_insert",
         heap' \in Stored(p, heap, [heap EXCEPT ![loc[p].event] = InsertGuest(@, p)]),
         Goto(p, "rsvp_push"),
         UNCHANGED <<clientsSet, eventsMap, eventList, nextEventId, loc, client>>
  PROVE  GuestInv'
<1> DEFINE u == UpperName(p)
           a == loc[p].event
           e == InsertGuest(heap[a], p)
<1>1. /\ KeptInv /\ HeldInv /\ Moved(p) /\ pc'[p] = "rsvp_push" /\ loc'[p] = loc[p]
      /\ registered[p] /\ registered' = registered /\ a \in Known(p)
      /\ heap \in Seq(EventType) /\ a \in 1 .. Len(heap) /\ heap[a] \in EventType
  <2>1. KeptInv /\ HeldInv /\ Moved(p)
    BY DEF GuestInv, Step
  <2>2. a \in 1 .. Len(heap) /\ heap[a] \in EventType
    BY <2>1, Lengths DEF Holding
  <2> QED
    BY <2>1, <2>2 DEF HeldInv, Outside, KeptInv, ServerTypes, ThreadTypes, Goto, client, Known,
                      Pointing
<1>2. /\ e.guestsNames = heap[a].guestsNames \cup {u} /\ e.RSVP_List = heap[a].RSVP_List
      /\ \A x : x # u => SameTo(x, heap[a], e)
  BY <1>1, InsertedGuest
<1> HIDE DEF e
<1>3. heap' = [heap EXCEPT ![a] = e] \/ (heap' = heap /\ u \in Disturbed')
  <2> DEFINE new == [heap EXCEPT ![a] = e]
  <2>1. heap' \in Stored(p, heap, new)
    BY DEF e
  <2> HIDE DEF new
  <2>2. heap' = new \/ (heap' = heap /\ u \in Disturbed')
    BY <2>1, StoredIsNew
  <2> QED
    BY <2>2 DEF new
<1>4. OwnStep(p)
  <2>1. heap' \in {heap, [heap EXCEPT ![a] = e]}
    BY <1>3
  <2>2. loc'[p].event \in Known(p) /\ registered'[p]
    BY <1>1
  <2> QED
    BY <1>1, <1>2, <2>1, <2>2, OneEvent
<1>5. FreshInv(p)'
  BY <1>1 DEF FreshInv
<1>6. ASSUME u \notin Disturbed'
      PROVE  NameInv(u)' /\ Relies(p)'
  <2>1. u \notin Disturbed /\ NameInv(u) /\ Relies(p) /\ heap' = [heap EXCEPT ![a] = e]
    BY <1>3, <1>6, Upper DEF GuestInv, Step
  <2>2. heap'[a] = e /\ Len(heap') = Len(heap)
        /\ \A b \in 1 .. Len(heap) : b # a => heap'[b] = heap[b]
    BY <1>1, <2>1
  <2>3. u \notin heap[a].guestsNames /\ u \in clientsSet
    BY <1>1, <2>1 DEF Relies
  <2>4. Leaving' = Leaving /\ u \in HalfAccepted(a)'
        /\ \A b : b # a => HalfAccepted(b)' = HalfAccepted(b)
    <3>1. Leaving' = Leaving
      BY <1>1, NoLeaving
    <3>2. u \in HalfAccepted(a)'
      BY <1>1 DEF HalfAccepted
    <3>3. \A b : b # a => HalfAccepted(b)' = HalfAccepted(b)
      BY <1>1, NoHalf
    <3> QED
      BY <3>1, <3>2, <3>3
  <2> HIDE DEF u
  <2>5. NameInv(u)'
    <3>1. ASSUME NEW b \in 1 .. Len(heap)
          PROVE  /\ u \in ToSet(heap'[b].RSVP_List) <=>
                      u \in heap'[b].guestsNames /\ u \notin HalfAccepted(b)'
                 /\ Once(heap'[b].RSVP_List, u)
                 /\ heap'[b].RSVP_List = heap[b].RSVP_List
      <4>1. CASE b = a
        BY <1>1, <1>2, <2>1, <2>2, <2>3, <2>4, <4>1 DEF NameInv
      <4>2. CASE b # a
        BY <2>1, <2>2, <2>4, <4>2 DEF NameInv
      <4> QED
        BY <4>1, <4>2
    <3>2. \A id \in DOMAIN eventsMap : eventsMap[id] \in 1 .. Len(heap)
      BY <1>1, Lengths
    <3> QED
      BY <2>1, <2>2, <2>4, <3>1, <3>2 DEF NameInv
  <2>6. Relies(p)'
    BY <1>1, <1>2, <2>1, <2>2, <2>3 DEF Relies, u
  <2> QED
    BY <2>5, <2>6
<1> QED
  BY <1>4, <1>5, <1>6, GuestStep

(* The name enters the list.                                               *)
LEMMA AcceptancePushes ==
  ASSUME GuestInv, NEW p \in Process, Step(p), pc[p] = "rsvp_push",
         heap' \in Stored(p, heap, [heap EXCEPT ![loc[p].event] = PushGuest(@, p)]),
         Answer(p, "ACCEPTED", loc[p].id),
         UNCHANGED <<clientsSet, eventsMap, eventList, nextEventId>>
  PROVE  GuestInv'
<1> DEFINE u == UpperName(p)
           a == loc[p].event
           e == PushGuest(heap[a], p)
<1>1. /\ KeptInv /\ HeldInv /\ Moved(p) /\ pc'[p] = "idle"
      /\ registered[p] /\ registered'[p] = registered[p] /\ a \in Known(p)
      /\ heap \in Seq(EventType) /\ a \in 1 .. Len(heap) /\ heap[a] \in EventType
  <2>1. KeptInv /\ HeldInv /\ Moved(p)
    BY DEF GuestInv, Step
  <2>2. a \in 1 .. Len(heap) /\ heap[a] \in EventType
    BY <2>1, Lengths DEF Holding
  <2> QED
    BY <2>1, <2>2 DEF HeldInv, Outside, KeptInv, ServerTypes, ThreadTypes, Answer, Known, Pointing
<1>2. /\ e.guestsNames = heap[a].guestsNames
      /\ \A x : x # u => SameTo(x, heap[a], e)
      /\ u \in ToSet(e.RSVP_List)
      /\ u \notin ToSet(heap[a].RSVP_List) => Once(e.RSVP_List, u)
  BY <1>1, PushedGuest
<1> HIDE DEF e
<1>3. heap' = [heap EXCEPT ![a] = e] \/ (heap' = heap /\ u \in Disturbed')
  <2> DEFINE new == [heap EXCEPT ![a] = e]
  <2>1. heap' \in Stored(p, heap, new)
    BY DEF e
  <2> HIDE DEF new
  <2>2. heap' = new \/ (heap' = heap /\ u \in Disturbed')
    BY <2>1, StoredIsNew
  <2> QED
    BY <2>2 DEF new
<1>4. OwnStep(p)
  <2>1. heap' \in {heap, [heap EXCEPT ![a] = e]}
    BY <1>3
  <2>2. pc'[p] \notin Pointing /\ registered'[p]
    BY <1>1 DEF Pointing
  <2> QED
    BY <1>1, <1>2, <2>1, <2>2, OneEvent
<1>5. FreshInv(p)'
  BY <1>1 DEF FreshInv
<1>6. ASSUME u \notin Disturbed'
      PROVE  NameInv(u)' /\ Relies(p)'
  <2>1. u \notin Disturbed /\ NameInv(u) /\ Relies(p) /\ heap' = [heap EXCEPT ![a] = e]
    BY <1>3, <1>6, Upper DEF GuestInv, Step
  <2>2. heap'[a] = e /\ Len(heap') = Len(heap)
        /\ \A b \in 1 .. Len(heap) : b # a => heap'[b] = heap[b]
    BY <1>1, <2>1
  <2>3. u \in heap[a].guestsNames /\ u \in clientsSet /\ u \in HalfAccepted(a)
    BY <1>1, <2>1 DEF Relies, HalfAccepted
  <2>4. u \notin ToSet(heap[a].RSVP_List)
    BY <1>1, <2>1, <2>3 DEF NameInv
  <2>5. \A b : u \notin HalfAccepted(b)'
    <3>1. ASSUME NEW q \in Process, q # p, UpperName(q) = u
          PROVE  pc'[q] # "rsvp_push"
      <4>1. pc[q] \in Outside
        BY <1>1, <2>1, <3>1, OneHolder
      <4> QED
        BY <1>1, <3>1, <4>1 DEF Moved, Outside
    <3> QED
      BY <1>1, <3>1 DEF HalfAccepted
  <2>6. Leaving' = Leaving /\ \A b : b # a => HalfAccepted(b)' = HalfAccepted(b)
    <3>1. Leaving' = Leaving
      BY <1>1, NoLeaving
    <3>2. \A b : b # a => HalfAccepted(b)' = HalfAccepted(b)
      BY <1>1, NoHalf
    <3> QED
      BY <3>1, <3>2
  <2> HIDE DEF u
  <2>7. NameInv(u)'
    <3>1. ASSUME NEW b \in 1 .. Len(heap)
          PROVE  /\ u \in ToSet(heap'[b].RSVP_List) <=>
                      u \in heap'[b].guestsNames /\ u \notin HalfAccepted(b)'
                 /\ Once(heap'[b].RSVP_List, u)
      <4>1. CASE b = a
        BY <1>2, <2>2, <2>3, <2>4, <2>5, <4>1
      <4>2. CASE b # a
        BY <2>1, <2>2, <2>6, <4>2 DEF NameInv
      <4> QED
        BY <4>1, <4>2
    <3> QED
      BY <2>2, <2>3, <3>1 DEF NameInv
  <2>8. Relies(p)'
    BY <1>1, <2>3 DEF Relies, u
  <2> QED
    BY <2>7, <2>8
<1> QED
  BY <1>4, <1>5, <1>6, GuestStep

-----------------------------------------------------------------------------
(* The other steps only read, count, or answer.                            *)
LEMMA QuietAnswer ==
  ASSUME GuestInv, NEW p \in Process, Step(p), UNCHANGED <<clientsSet, eventsMap, heap>>,
         pc[p] \notin {"rsvp_push", "unreg_sweep"},
         NEW result, NEW id, Answer(p, result, id), result # "REGISTERED"
  PROVE  GuestInv'
<1>1. pc'[p] = "idle" /\ (registered'[p] => registered[p])
  BY DEF GuestInv, KeptInv, ThreadTypes, Answer
<1>2. FreshInv(p)'
  BY <1>1 DEF FreshInv
<1> QED
  BY <1>1, <1>2, QuietStep DEF Pointing, Outside

LEMMA QuietGoto ==
  ASSUME GuestInv, NEW p \in Process, Step(p),
         UNCHANGED <<clientsSet, eventsMap, heap, registered>>,
         pc[p] \notin {"rsvp_push", "unreg_sweep"},
         NEW label, Goto(p, label), label \notin Pointing \cup {"unreg_sweep", "rsvp_exists"},
         label \in Outside \/ registered[p]
  PROVE  GuestInv'
<1>1. pc'[p] = label
  BY DEF GuestInv, KeptInv, ThreadTypes, Goto
<1>2. FreshInv(p)'
  BY <1>1 DEF FreshInv, Pointing
<1> QED
  BY <1>1, <1>2, QuietStep DEF Pointing

LEMMA QuietFind ==
  ASSUME GuestInv, NEW p \in Process, Step(p),
         NEW label, NEW next, Find(p, label, next),
         <<label, next>> \in {<<"unreg_find", "unreg_erase">>, <<"rsvp_find", "rsvp_exists">>,
                              <<"create_find", "create_exists">>, <<"list_find", "list_exists">>}
  PROVE  GuestInv'
<1>1. UNCHANGED <<clientsSet, eventsMap, heap>> /\ pc[p] = label
      /\ label \notin Outside \cup {"rsvp_push", "unreg_sweep"}
  BY DEF Find, server, At, Outside
<1>2. CASE isClientExist(p) /\ Goto(p, next) /\ UNCHANGED <<loc, client>>
  <2>1. /\ pc'[p] = next /\ registered' = registered /\ registered[p]
        /\ UpperName(p) \in clientsSet
    BY <1>1, <1>2 DEF GuestInv, HeldInv, KeptInv, ThreadTypes, Goto, client, isClientExist
  <2>2. next \in {"unreg_erase", "rsvp_exists", "create_exists", "list_exists"}
    OBVIOUS
  <2>3. FreshInv(p)'
    BY <2>1, <2>2 DEF FreshInv
  <2> QED
    BY <1>1, <2>1, <2>2, <2>3, QuietStep DEF Pointing
<1>3. CASE Answer(p, "NOT_REGISTERED", 0)
  BY <1>1, <1>3, QuietAnswer
<1> QED
  BY <1>2, <1>3 DEF Find

-----------------------------------------------------------------------------
(* Every action, in its turn.                                              *)
LEMMA GuestRequest ==
  ASSUME GuestInv, NEW p \in Process, Step(p), Request(p)
  PROVE  GuestInv'
<1>1. /\ UNCHANGED <<clientsSet, eventsMap, heap, registered>> /\ pc[p] = "idle"
      /\ \E label \in {"reg_find", "unreg_find", "create_next", "rsvp_find", "list_find",
                        "top_size"} :
           Goto(p, label) /\ (label = "reg_find" \/ registered[p])
  BY DEF Request, Send, At, server
<1> QED
  BY <1>1, QuietGoto DEF Pointing, Outside

LEMMA GuestRegister ==
  ASSUME GuestInv, NEW p \in Process, Step(p), registerClient(p)
  PROVE  GuestInv'
<1>1. CASE At(p, "reg_find") /\ UNCHANGED <<server, client>> /\ Goto(p, "reg_insert")
  BY <1>1, QuietGoto DEF At, server, client, Pointing, Outside
<1>2. CASE At(p, "reg_find") /\ UNCHANGED server /\ Answer(p, "ALREADY_REGISTERED", 0)
  BY <1>2, QuietAnswer DEF At, server
<1>3. CASE /\ At(p, "reg_insert")
           /\ clientsSet' \in Stored(p, clientsSet, InsertClient(p))
           /\ Answer(p, "REGISTERED", 0)
           /\ UNCHANGED <<eventsMap, eventList, nextEventId, heap>>
  BY <1>3, RegisterInserts DEF At
<1> QED
  BY <1>1, <1>2, <1>3 DEF registerClient

LEMMA GuestUnregister ==
  ASSUME GuestInv, NEW p \in Process, Step(p), unregisterClient(p)
  PROVE  GuestInv'
<1>1. CASE Find(p, "unreg_find", "unreg_erase")
  BY <1>1, QuietFind
<1>2. CASE /\ At(p, "unreg_erase")
           /\ clientsSet' \in Stored(p, clientsSet, clientsSet \ {UpperName(p)})
           /\ Goto(p, "unreg_sweep")
           /\ loc' = [loc EXCEPT ![p].id = SweepStart]
           /\ UNCHANGED <<eventsMap, eventList, nextEventId, heap, client>>
  BY <1>2, UnregisterErases DEF At
<1>3. CASE /\ At(p, "unreg_sweep") /\ KeysAfter(loc[p].id) # {}
           /\ LET key == NextKey(loc[p].id)
              IN  /\ heap' \in Stored(p, heap, [heap EXCEPT ![eventsMap[key]] =
                                                  removeGuest(@, UpperName(p))])
                  /\ loc' = [loc EXCEPT ![p].id = key]
           /\ UNCHANGED <<clientsSet, eventsMap, eventList, nextEventId, pc, client>>
  BY <1>3, SweepRemoves DEF At
<1>4. CASE /\ At(p, "unreg_sweep") /\ KeysAfter(loc[p].id) = {}
           /\ Answer(p, "UNREGISTERED", 0) /\ UNCHANGED server
  BY <1>4, SweepEnds DEF At
<1> QED
  BY <1>1, <1>2, <1>3, <1>4 DEF unregisterClient

LEMMA GuestCreate ==
  ASSUME GuestInv, NEW p \in Process, Step(p), createEvent(p)
  PROVE  GuestInv'
<1>1. CASE Find(p, "create_find", "create_exists")
  BY <1>1, QuietFind
<1>2. CASE /\ pc[p] \in {"create_next", "create_exists", "create_bump", "create_reload"}
           /\ \E label \in {"create_find", "create_bump", "create_new", "create_reload"} :
                Goto(p, label)
           /\ UNCHANGED <<clientsSet, eventsMap, heap, registered>>
  <2>1. registered[p]
    BY <1>2 DEF GuestInv, HeldInv, Outside
  <2> QED
    BY <1>2, <2>1, QuietGoto DEF Pointing
<1>3. CASE /\ At(p, "create_new")
           /\ \E title \in Title, info \in Info :
                heap' = Append(heap, NewEvent(NameOf[p], loc[p].id, title, info))
           /\ loc' = [loc EXCEPT ![p].event = Len(heap) + 1]
           /\ Goto(p, After("create_new"))
           /\ UNCHANGED <<clientsSet, eventsMap, eventList, nextEventId, client>>
  <2>1. Goto(p, "create_push")
    BY <1>3, CreateOrder
  <2> QED
    BY <1>3, <2>1, CreateAllocates DEF At
<1>4. CASE /\ At(p, "create_push")
           /\ Goto(p, After("create_push"))
           /\ UNCHANGED <<clientsSet, eventsMap, nextEventId, heap, loc, client>>
  <2>1. Goto(p, "create_map")
    BY <1>4, CreateOrder
  <2> QED
    BY <1>4, <2>1, CreatePushes DEF At
<1>5. CASE /\ At(p, "create_map")
           /\ eventsMap' \in Stored(p, eventsMap,
                              [k \in DOMAIN eventsMap \cup {MapKey(p)} |->
                                 IF k = MapKey(p) THEN loc[p].event ELSE eventsMap[k]])
           /\ Goto(p, After("create_map"))
           /\ UNCHANGED <<clientsSet, eventList, nextEventId, heap, loc, client>>
  <2>1. Goto(p, "create_inc")
    BY <1>5, CreateOrder
  <2> DEFINE grown == [k \in DOMAIN eventsMap \cup {MapKey(p)} |->
                         IF k = MapKey(p) THEN loc[p].event ELSE eventsMap[k]]
  <2>2. eventsMap' \in {eventsMap, grown}
    <3>1. eventsMap' \in Stored(p, eventsMap, grown)
      BY <1>5
    <3> HIDE DEF grown
    <3> QED
      BY <3>1, StoredIsOldOrNew
  <2> QED
    BY <1>5, <2>1, <2>2, CreateMaps DEF At
<1>6. CASE /\ At(p, "create_inc") /\ Answer(p, "CREATED", loc[p].told)
           /\ UNCHANGED <<clientsSet, eventsMap, heap>>
  BY <1>6, QuietAnswer DEF At
<1>7. \/ Find(p, "create_find", "create_exists")
      \/ /\ pc[p] \in {"create_next", "create_exists", "create_bump", "create_reload"}
         /\ \E label \in {"create_find", "create_bump", "create_new", "create_reload"} :
              Goto(p, label)
         /\ UNCHANGED <<clientsSet, eventsMap, heap, registered>>
      \/ pc[p] \in {"create_new", "create_push", "create_map", "create_inc"}
  BY CreateOrder DEF createEvent, At, server, client
<1> QED
  BY <1>1, <1>2, <1>3, <1>4, <1>5, <1>6, <1>7 DEF createEvent, At, Find

LEMMA GuestCreateFails ==
  ASSUME GuestInv, NEW p \in Process, Step(p), createEventFails(p)
  PROVE  GuestInv'
<1>1. CASE /\ pc[p] \in AllocFailures /\ Goto(p, "create_catch")
           /\ UNCHANGED <<server, loc, client>>
  <2>1. pc[p] \in {"create_new", "create_push", "create_map", "create_inc"}
    BY <1>1, ThreadsAssumption
  <2>2. registered[p]
    BY <2>1 DEF GuestInv, HeldInv, Outside
  <2> QED
    BY <1>1, <2>1, <2>2, QuietGoto DEF server, client, Pointing
<1>2. CASE /\ At(p, "create_catch") /\ Answer(p, "CANNOT_ALLOCATE", 0)
           /\ UNCHANGED <<clientsSet, eventsMap, heap>>
  BY <1>2, QuietAnswer DEF At
<1> QED
  BY <1>1, <1>2 DEF createEventFails

LEMMA GuestRsvp ==
  ASSUME GuestInv, NEW p \in Process, Step(p), sendRSVP(p)
  PROVE  GuestInv'
<1>1. CASE Find(p, "rsvp_find", "rsvp_exists")
  BY <1>1, QuietFind
<1>2. CASE /\ At(p, "rsvp_exists") /\ UNCHANGED <<server, client>>
           /\ isEventExist(loc[p].id)
           /\ loc' = [loc EXCEPT ![p].event = eventsMap[loc[p].id]]
           /\ Goto(p, "rsvp_check")
  <2>1. KeptInv /\ HeldInv
    BY DEF GuestInv
  <2>2. /\ pc'[p] = "rsvp_check" /\ loc'[p].event \in Known(p) /\ registered[p]
        /\ UNCHANGED <<clientsSet, eventsMap, heap, registered>> /\ pc[p] = "rsvp_exists"
    BY <1>2, <2>1 DEF KeptInv, HeldInv, Outside, ThreadTypes, LocType, Goto, Known, Mapped,
                      isEventExist, server, client, At
  <2>3. UpperName(p) \notin Disturbed => UpperName(p) \in clientsSet
    BY <2>2 DEF GuestInv, Relies
  <2>4. FreshInv(p)'
    BY <2>2 DEF FreshInv
  <2> QED
    BY <2>2, <2>3, <2>4, QuietStep
<1>3. CASE /\ At(p, "rsvp_check") /\ UNCHANGED <<server, loc, client>>
           /\ isNewGuest(heap[loc[p].event], NameOf[p])
           /\ Goto(p, "rsvp_insert")
  <2>1. KeptInv /\ HeldInv
    BY DEF GuestInv
  <2>2. /\ pc'[p] = "rsvp_insert" /\ loc'[p] = loc[p] /\ loc[p].event \in Known(p)
        /\ registered[p] /\ UpperName(p) \notin heap[loc[p].event].guestsNames
        /\ UNCHANGED <<clientsSet, eventsMap, heap, registered>> /\ pc[p] = "rsvp_check"
    BY <1>3, <2>1 DEF KeptInv, HeldInv, Outside, ThreadTypes, Goto, Known, Pointing, isNewGuest,
                      UpperName, server, client, At
  <2>3. UpperName(p) \notin Disturbed => UpperName(p) \in clientsSet
    BY <2>2 DEF GuestInv, Relies
  <2>4. FreshInv(p)'
    BY <2>2 DEF FreshInv
  <2> QED
    BY <2>2, <2>3, <2>4, QuietStep
<1>4. CASE /\ At(p, "rsvp_insert")
           /\ heap' \in Stored(p, heap, [heap EXCEPT ![loc[p].event] = InsertGuest(@, p)])
           /\ Goto(p, "rsvp_push")
           /\ UNCHANGED <<clientsSet, eventsMap, eventList, nextEventId, loc, client>>
  BY <1>4, AcceptanceInserts DEF At
<1>5. CASE /\ At(p, "rsvp_push")
           /\ heap' \in Stored(p, heap, [heap EXCEPT ![loc[p].event] = PushGuest(@, p)])
           /\ Answer(p, "ACCEPTED", loc[p].id)
           /\ UNCHANGED <<clientsSet, eventsMap, eventList, nextEventId>>
  BY <1>5, AcceptancePushes DEF At
<1>6. CASE /\ pc[p] \in {"rsvp_exists", "rsvp_check"} /\ UNCHANGED server
           /\ \E result \in {"NO_EVENT", "ALREADY_SENT"} : Answer(p, result, loc[p].id)
  BY <1>6, QuietAnswer DEF server
<1> QED
  BY <1>1, <1>2, <1>3, <1>4, <1>5, <1>6 DEF sendRSVP, At

LEMMA GuestLists ==
  ASSUME GuestInv, NEW p \in Process, Step(p), getRSVP_List(p) \/ getTop5Events(p)
  PROVE  GuestInv'
<1>1. CASE Find(p, "list_find", "list_exists")
  BY <1>1, QuietFind
<1>2. CASE /\ pc[p] \in {"list_exists", "top_size", "top_find"}
           /\ \E label \in {"list_copy", "top_find", "top_read"} : Goto(p, label)
           /\ UNCHANGED <<server, client>>
  <2>1. registered[p]
    BY <1>2 DEF GuestInv, HeldInv, Outside
  <2> QED
    BY <1>2, <2>1, QuietGoto DEF server, client, Pointing
<1>3. CASE /\ pc[p] \in {"list_exists", "list_copy", "top_find", "top_read"} /\ UNCHANGED server
           /\ \E result \in {"NO_EVENT", "GUESTS", "NOT_REGISTERED", "TOP"} : \E id :
                Answer(p, result, id)
  BY <1>3, QuietAnswer DEF server
<1>4. CASE At(p, "top_read") /\ UNCHANGED <<server, pc, client>>
  <2>1. /\ UNCHANGED <<clientsSet, eventsMap, heap, registered>> /\ pc'[p] = "top_read"
        /\ pc[p] = "top_read" /\ registered[p]
    BY <1>4 DEF At, server, client, GuestInv, HeldInv, Outside
  <2>2. FreshInv(p)'
    BY <2>1 DEF FreshInv
  <2> QED
    BY <2>1, <2>2, QuietStep DEF Pointing
<1> QED
  BY <1>1, <1>2, <1>3, <1>4 DEF getRSVP_List, getTop5Events, At, server, client

LEMMA GuestHandler ==
  ASSUME GuestInv, NEW p \in Process, Step(p), Request(p) \/ handleClient(p)
  PROVE  GuestInv'
BY GuestRequest, GuestRegister, GuestUnregister, GuestCreate, GuestCreateFails, GuestRsvp,
   GuestLists DEF handleClient

(* A step of a handler's moves no other thread.                            *)
LEMMA OneMoves ==
  ASSUME KeptInv, KeptInv', NEW p \in Process, Request(p) \/ handleClient(p)
  PROVE  Moved(p)
<1>1. /\ DOMAIN pc = Process /\ DOMAIN loc = Process /\ DOMAIN registered = Process
      /\ ThreadTypes'
  BY DEF KeptInv, ThreadTypes
<1>2. ASSUME \E label : Goto(p, label),
             \E l : loc' = [loc EXCEPT ![p] = l] \/ loc' = loc, UNCHANGED registered
      PROVE  Moved(p)
  BY <1>1, <1>2 DEF Goto, Moved
<1>3. ASSUME \E result, id : Answer(p, result, id)
      PROVE  Moved(p)
  BY <1>1, <1>3 DEF Answer, Moved
<1>4. ASSUME pc' = pc, \E l : loc' = [loc EXCEPT ![p] = l], UNCHANGED registered
      PROVE  Moved(p)
  BY <1>1, <1>4 DEF Moved
<1>5. ASSUME NEW label, NEW next, Find(p, label, next)
      PROVE  Moved(p)
  BY <1>2, <1>3, <1>5 DEF Find, client
<1>6. CASE Request(p)
  BY <1>2, <1>6 DEF Request, Send
<1>7. CASE registerClient(p)
  BY <1>2, <1>3, <1>7 DEF registerClient, client
<1>8. CASE unregisterClient(p)
  BY <1>2, <1>3, <1>4, <1>5, <1>8 DEF unregisterClient, client
<1>9. CASE createEvent(p)
  BY <1>2, <1>3, <1>5, <1>9 DEF createEvent, client
<1>10. CASE createEventFails(p)
  BY <1>2, <1>3, <1>10 DEF createEventFails, client
<1>11. CASE sendRSVP(p)
  BY <1>2, <1>3, <1>5, <1>11 DEF sendRSVP, client
<1>12. CASE getRSVP_List(p)
  BY <1>2, <1>3, <1>5, <1>12 DEF getRSVP_List, client
<1>13. CASE getTop5Events(p)
  BY <1>2, <1>3, <1>4, <1>13 DEF getTop5Events, client
<1> QED
  BY <1>6, <1>7, <1>8, <1>9, <1>10, <1>11, <1>12, <1>13 DEF handleClient

(* What Next says of a handler's step is what the lemmas above ask for.    *)
LEMMA HandlerStep ==
  ASSUME KeptInv, KeptInv', NEW p \in Process, Request(p) \/ handleClient(p),
         shared' = shared \cup HeldTwice',
         overlapped' = overlapped \cup (IF Overlaps(p) THEN {UpperName(p)} ELSE {})
  PROVE  Step(p)
<1>1. Moved(p)
  BY OneMoves
<1>2. Disturbed \subseteq Disturbed' /\ (Overlaps(p) => UpperName(p) \in Disturbed')
  BY DEF Disturbed
<1> QED
  BY <1>1, <1>2 DEF Step

LEMMA GuestInit ==
  ASSUME Init
  PROVE  GuestInv
<1>1. /\ \A p \in Process : pc[p] = "idle" /\ ~registered[p]
      /\ heap = <<>> /\ eventsMap = <<>>
  BY DEF Init
<1>2. Len(heap) = 0 /\ DOMAIN eventsMap = {}
  BY <1>1
<1>3. HeldInv
  BY <1>1 DEF HeldInv, HeldTwice, Outside
<1>4. \A p \in Process : FreshInv(p) /\ Relies(p)
  BY <1>1 DEF FreshInv, Relies
<1>5. \A x : NameInv(x)
  BY <1>2 DEF NameInv
<1> QED
  BY <1>3, <1>4, <1>5, KeptInit DEF GuestInv

LEMMA GuestSame ==
  ASSUME GuestInv, KeptInv', UNCHANGED <<server, pc, loc, client, history>>
  PROVE  GuestInv'
<1>1. UNCHANGED <<clientsSet, eventsMap, eventList, nextEventId, heap, pc, loc, registered,
                  shared, overlapped>>
  BY DEF server, client, history
<1>2. Mapped' = Mapped /\ Leaving' = Leaving /\ HeldTwice' = HeldTwice /\ Disturbed' = Disturbed
  BY <1>1 DEF Mapped, Leaving, HeldTwice, Disturbed
<1>3. \A p : Known(p)' = Known(p)
  BY <1>1, <1>2 DEF Known
<1>4. \A p \in Process : FreshInv(p)'
  BY <1>1, <1>2, <1>3 DEF GuestInv, FreshInv, Fresh
<1>5. \A p \in Process : UpperName(p) \notin Disturbed => Relies(p)'
  BY <1>1 DEF GuestInv, Relies
<1>6. \A a : HalfAccepted(a)' = HalfAccepted(a)
  BY <1>1 DEF HalfAccepted
<1>7. \A x \in Name \ Disturbed : NameInv(x)'
  BY <1>1, <1>2, <1>6 DEF GuestInv, NameInv
<1>8. HeldInv'
  BY <1>1, <1>2 DEF GuestInv, HeldInv
<1> QED
  BY <1>2, <1>4, <1>5, <1>7, <1>8 DEF GuestInv

LEMMA GuestNextStep ==
  ASSUME GuestInv, [Next]_vars
  PROVE  GuestInv'
<1>1. KeptInv /\ KeptInv'
  BY KeptStep DEF GuestInv
<1>2. CASE Crash \/ UNCHANGED vars
  BY <1>1, <1>2, GuestSame DEF Crash, vars
<1>3. ASSUME NEW p \in Process, Request(p) \/ handleClient(p),
             shared' = shared \cup HeldTwice',
             overlapped' = overlapped \cup (IF Overlaps(p) THEN {UpperName(p)} ELSE {})
      PROVE  GuestInv'
  BY <1>1, <1>3, HandlerStep, GuestHandler
<1> QED
  BY <1>2, <1>3 DEF Next

LEMMA Guests == Spec => []GuestInv
<1>1. Init => GuestInv
  BY GuestInit
<1>2. GuestInv /\ [Next]_vars => GuestInv'
  BY GuestNextStep
<1> QED
  BY <1>1, <1>2, PTL DEF Spec

(* The RSVP and the sweep of an unregistration are several accesses each,  *)
(* and lists of events grow meanwhile; whoever is on the list of an event  *)
(* that can be found is registered or is being taken off, unless the name  *)
(* was once held twice or its own updates overlapped another's.            *)
THEOREM GuestsStayRegistered == Spec => []GuestsAreRegistered
<1>1. ASSUME GuestInv, NEW id \in DOMAIN eventsMap,
             NEW x \in ToSet(heap[eventsMap[id]].RSVP_List), x \notin Disturbed
      PROVE  x \in clientsSet \cup Leaving
  <2>1. heap[eventsMap[id]] \in EventType
    BY <1>1, Lengths DEF GuestInv
  <2>2. x \in Name
    BY <1>1, <2>1 DEF EventType, ToSet
  <2> QED
    BY <1>1, <2>2 DEF GuestInv, NameInv
<1>2. GuestInv => GuestsAreRegistered
  BY <1>1 DEF GuestsAreRegistered
<1> QED
  BY <1>2, Guests, PTL

(* An emClient whose REGISTER was answered with success is a client of the *)
(* server until its UNREGISTER is carried out, whoever held the name       *)
(* before it and whatever other names lose.                                *)
THEOREM RegisteredStayMembers == Spec => []RegisteredMeansMember
<1>1. GuestInv => RegisteredMeansMember
  BY DEF GuestInv, Relies, RegisteredMeansMember, Leaving
<1> QED
  BY <1>1, Guests, PTL

(* sendRSVP's check and its two insertions are three accesses, and the     *)
(* sweep may come between them: yet the set of names and the list differ   *)
(* only by acceptances under way, and no name is on a list twice, whatever *)
(* updates of others are lost.                                             *)
THEOREM GuestListsKeepAgreeing == Spec => []GuestListsAgree
<1>1. ASSUME GuestInv, NEW a \in DOMAIN heap
      PROVE  LET list == heap[a].RSVP_List
             IN  /\ ToSet(list) \ Disturbed =
                      (heap[a].guestsNames \ HalfAccepted(a)) \ Disturbed
                 /\ \A i, j \in DOMAIN list :
                      list[i] = list[j] => i = j \/ list[i] \in Disturbed
  <2> DEFINE list == heap[a].RSVP_List
  <2>1. heap[a] \in EventType /\ a \in 1 .. Len(heap)
    BY <1>1, Lengths DEF GuestInv
  <2>2. list \in Seq(Name) /\ ToSet(list) \subseteq Name /\ heap[a].guestsNames \subseteq Name
        /\ \A i \in DOMAIN list : list[i] \in Name
    BY <2>1 DEF EventType, ToSet
  <2>3. \A x \in Name \ Disturbed :
          /\ x \in ToSet(list) <=> x \in heap[a].guestsNames /\ x \notin HalfAccepted(a)
          /\ Once(list, x)
    BY <1>1, <2>1 DEF GuestInv, NameInv
  <2> HIDE DEF list
  <2>4. ToSet(list) \ Disturbed = (heap[a].guestsNames \ HalfAccepted(a)) \ Disturbed
    BY <2>2, <2>3
  <2>5. \A i, j \in DOMAIN list : list[i] = list[j] => i = j \/ list[i] \in Disturbed
    BY <2>2, <2>3 DEF Once
  <2> QED
    BY <2>4, <2>5 DEF list
<1>2. GuestInv => GuestListsAgree
  BY <1>1 DEF GuestListsAgree
<1> QED
  BY <1>2, Guests, PTL

-----------------------------------------------------------------------------
(* That events are listed before they are found has to do with createEvent *)
(* alone.  Who made an event never changes.                                *)
LEMMA CreatorsStay ==
  ASSUME KeptInv, NEW p \in Process, Request(p) \/ handleClient(p)
  PROVE  \A a \in 1 .. Len(heap) : heap'[a].creator = heap[a].creator
<1>1. heap \in Seq(EventType) /\ \A a \in 1 .. Len(heap) : heap[a] \in EventType
  BY DEF KeptInv, ServerTypes
<1>2. ASSUME NEW a, NEW e, e.creator = heap[a].creator,
             heap' \in Stored(p, heap, [heap EXCEPT ![a] = e]), a \in 1 .. Len(heap)
      PROVE  \A b \in 1 .. Len(heap) : heap'[b].creator = heap[b].creator
  <2> DEFINE new == [heap EXCEPT ![a] = e]
  <2>1. heap' \in {heap, new}
    <3>1. heap' \in Stored(p, heap, new)
      BY <1>2
    <3> HIDE DEF new
    <3> QED
      BY <3>1, StoredIsOldOrNew
  <2> QED
    BY <1>1, <1>2, <2>1
<1>3. CASE UNCHANGED heap
  BY <1>3
<1>4. CASE /\ At(p, "unreg_sweep") /\ KeysAfter(loc[p].id) # {}
           /\ heap' \in Stored(p, heap, [heap EXCEPT ![eventsMap[NextKey(loc[p].id)]] =
                                           removeGuest(@, UpperName(p))])
  <2> DEFINE a == eventsMap[NextKey(loc[p].id)]
             e == removeGuest(heap[a], UpperName(p))
  <2>1. NextKey(loc[p].id) \in DOMAIN eventsMap
    <3>1. loc[p].id \in Int /\ DOMAIN eventsMap \subseteq Int
      BY DEF KeptInv, ServerTypes, ThreadTypes, LocType
    <3> QED
      BY <1>4, <3>1, NextKeyIsLeast DEF KeptInv
  <2>2. a \in 1 .. Len(heap)
    BY <2>1, Lengths
  <2>3. heap' \in Stored(p, heap, [heap EXCEPT ![a] = e])
    BY <1>4
  <2>4. e.creator = heap[a].creator
    BY <1>1, <2>2 DEF removeGuest, EventType
  <2> HIDE DEF a, e
  <2> QED
    BY <1>2, <2>2, <2>3, <2>4
<1>5. CASE \E e : heap' = Append(heap, e)
  BY <1>1, <1>5
<1>6. CASE /\ pc[p] \in {"rsvp_insert", "rsvp_push"}
           /\ \E e \in {InsertGuest(heap[loc[p].event], p), PushGuest(heap[loc[p].event], p)} :
                heap' \in Stored(p, heap, [heap EXCEPT ![loc[p].event] = e])
  <2> DEFINE a == loc[p].event
  <2>1. PICK e \in {InsertGuest(heap[a], p), PushGuest(heap[a], p)} :
               heap' \in Stored(p, heap, [heap EXCEPT ![a] = e])
    BY <1>6
  <2>2. a \in 1 .. Len(heap)
    BY <1>6, Lengths DEF Holding
  <2>3. e.creator = heap[a].creator
    BY <1>1, <2>2 DEF InsertGuest, PushGuest, EventType
  <2> HIDE DEF a
  <2> QED
    BY <1>2, <2>1, <2>2, <2>3
<1>7. CASE Request(p) \/ registerClient(p) \/ createEventFails(p) \/ getRSVP_List(p)
           \/ getTop5Events(p)
  BY <1>3, <1>7 DEF Request, Send, registerClient, createEventFails, getRSVP_List,
                    getTop5Events, server
<1>8. CASE unregisterClient(p)
  BY <1>3, <1>4, <1>8 DEF unregisterClient, Find, server
<1>9. CASE createEvent(p)
  BY <1>3, <1>5, <1>9 DEF createEvent, Find, server
<1>10. CASE sendRSVP(p)
  BY <1>3, <1>6, <1>10 DEF sendRSVP, Find, server, At
<1> QED
  BY <1>7, <1>8, <1>9, <1>10 DEF handleClient

Listed(a, creator) == a \in ToSet(eventList) \/ ToUpper[creator] \in overlapped

ListedInv ==
  /\ KeptInv
  /\ \A id \in DOMAIN eventsMap : Listed(eventsMap[id], heap[eventsMap[id]].creator)
  /\ \A p \in Process :
       /\ pc[p] \in {"create_push", "create_map"} => heap[loc[p].event].creator = NameOf[p]
       /\ pc[p] = "create_map" => Listed(loc[p].event, NameOf[p])

(* A step of p's that loses no event of the list, and looks after p's.     *)
LEMMA ListedRest ==
  ASSUME ListedInv, KeptInv', NEW p \in Process, Moved(p),
         \A a \in 1 .. Len(heap) : heap'[a].creator = heap[a].creator,
         ToSet(eventList) \subseteq ToSet(eventList'), overlapped \subseteq overlapped',
         \A id \in DOMAIN eventsMap' :
           \/ id \in DOMAIN eventsMap /\ eventsMap'[id] = eventsMap[id]
           \/ Listed(eventsMap'[id], heap[eventsMap'[id]].creator) /\ eventsMap'[id] \in 1 .. Len(heap),
         pc'[p] \in {"create_push", "create_map"} => heap'[loc'[p].event].creator = NameOf[p],
         pc'[p] = "create_map" =>
           loc'[p].event \in ToSet(eventList') \/ ToUpper[NameOf[p]] \in overlapped'
  PROVE  ListedInv'
<1>1. KeptInv
  BY DEF ListedInv
<1>2. \A a, c : Listed(a, c) => a \in ToSet(eventList') \/ ToUpper[c] \in overlapped'
  BY DEF Listed
<1>3. ASSUME NEW id \in DOMAIN eventsMap', NEW a, a = eventsMap'[id]
      PROVE  a \in ToSet(eventList') \/ ToUpper[heap'[a].creator] \in overlapped'
  <2>1. Listed(a, heap[a].creator) /\ a \in 1 .. Len(heap)
    BY <1>1, <1>3, Lengths DEF ListedInv
  <2>2. heap'[a].creator = heap[a].creator
    BY <2>1
  <2> QED
    BY <1>2, <2>1, <2>2
<1>4. ASSUME NEW q \in Process, q # p
      PROVE  /\ pc'[q] \in {"create_push", "create_map"} => heap'[loc'[q].event].creator = NameOf[q]
             /\ pc'[q] = "create_map" =>
                  loc'[q].event \in ToSet(eventList') \/ ToUpper[NameOf[q]] \in overlapped'
  <2>1. pc'[q] = pc[q] /\ loc'[q] = loc[q]
    BY <1>4 DEF Moved
  <2>2. pc[q] \in {"create_push", "create_map"} => loc[q].event \in 1 .. Len(heap)
    BY <1>1, Lengths DEF Holding
  <2>3. pc[q] \in {"create_push", "create_map"} => heap'[loc[q].event].creator = NameOf[q]
    BY <2>2 DEF ListedInv
  <2>4. pc[q] = "create_map" => Listed(loc[q].event, NameOf[q])
    BY DEF ListedInv
  <2> QED
    BY <1>2, <2>1, <2>3, <2>4
<1>5. \A q \in Process :
        /\ pc'[q] \in {"create_push", "create_map"} => heap'[loc'[q].event].creator = NameOf[q]
        /\ pc'[q] = "create_map" =>
             loc'[q].event \in ToSet(eventList') \/ ToUpper[NameOf[q]] \in overlapped'
  BY <1>4
<1>6. \A id \in DOMAIN eventsMap' :
        \/ eventsMap'[id] \in ToSet(eventList')
        \/ ToUpper[heap'[eventsMap'[id]].creator] \in overlapped'
  BY <1>3
<1> QED
  BY <1>5, <1>6 DEF ListedInv, Listed

LEMMA ListedStep ==
  ASSUME ListedInv, KeptInv', NEW p \in Process, Request(p) \/ handleClient(p),
         overlapped' = overlapped \cup (IF Overlaps(p) THEN {UpperName(p)} ELSE {})
  PROVE  ListedInv'
<1>1. /\ KeptInv /\ Moved(p) /\ DOMAIN pc = Process /\ loc[p] \in LocType
      /\ \A a \in 1 .. Len(heap) : heap'[a].creator = heap[a].creator
      /\ heap \in Seq(EventType)
  BY OneMoves, CreatorsStay DEF ListedInv, KeptInv, ThreadTypes, ServerTypes
<1>2. CASE UNCHANGED <<eventsMap, eventList>> /\ pc'[p] \notin {"create_push", "create_map"}
  BY <1>1, <1>2, ListedRest
<1>3. CASE /\ pc[p] = "create_new"
           /\ \E title \in Title, info \in Info :
                heap' = Append(heap, NewEvent(NameOf[p], loc[p].id, title, info))
           /\ loc' = [loc EXCEPT ![p].event = Len(heap) + 1]
           /\ pc'[p] = "create_push"
           /\ UNCHANGED <<eventsMap, eventList>>
  <2>1. loc'[p].event = Len(heap) + 1
    BY <1>1, <1>3 DEF LocType, Moved, ThreadTypes
  <2>2. heap'[Len(heap) + 1].creator = NameOf[p]
    BY <1>1, <1>3 DEF NewEvent
  <2> QED
    BY <1>1, <1>3, <2>1, <2>2, ListedRest
<1>4. CASE /\ pc[p] = "create_push" /\ pc'[p] = "create_map"
           /\ eventList' \in Stored(p, eventList, Append(eventList, loc[p].event))
           /\ UNCHANGED <<eventsMap, heap, loc>>
  <2> DEFINE a == loc[p].event
             longer == Append(eventList, a)
  <2>1. eventList \in Seq(1 .. Len(heap)) /\ a \in 1 .. Len(heap)
    BY <1>1, <1>4, Lengths DEF KeptInv, ServerTypes, Holding
  <2>2. ToSet(eventList) \subseteq ToSet(longer) /\ a \in ToSet(longer)
    BY <2>1, AppendOnce
  <2>3. eventList' \in Stored(p, eventList, longer)
    BY <1>4
  <2> HIDE DEF longer
  <2>4. eventList' = longer \/ (eventList' = eventList /\ UpperName(p) \in overlapped')
    BY <2>3 DEF Stored
  <2>5. /\ ToSet(eventList) \subseteq ToSet(eventList')
        /\ a \in ToSet(eventList') \/ ToUpper[NameOf[p]] \in overlapped'
    BY <2>2, <2>4 DEF UpperName
  <2>6. heap'[a].creator = NameOf[p]
    BY <1>4 DEF ListedInv
  <2> QED
    <3>1. /\ loc'[p].event = a
          /\ pc'[p] = "create_map" => a \in ToSet(eventList') \/ ToUpper[NameOf[p]] \in overlapped'
          /\ pc'[p] \in {"create_push", "create_map"} => heap'[a].creator = NameOf[p]
      BY <1>4, <2>5, <2>6
    <3> HIDE DEF a
    <3> QED
      BY <1>1, <1>4, <2>5, <3>1, ListedRest
<1>5. CASE /\ pc[p] = "create_map" /\ pc'[p] = "create_inc"
           /\ eventsMap' \in Stored(p, eventsMap,
                              [k \in DOMAIN eventsMap \cup {MapKey(p)} |->
                                 IF k = MapKey(p) THEN loc[p].event ELSE eventsMap[k]])
           /\ UNCHANGED <<eventList, heap>>
  <2> DEFINE a == loc[p].event
             grown == [k \in DOMAIN eventsMap \cup {MapKey(p)} |->
                         IF k = MapKey(p) THEN a ELSE eventsMap[k]]
  <2>1. eventsMap' \in {eventsMap, grown}
    <3>1. eventsMap' \in Stored(p, eventsMap, grown)
      BY <1>5
    <3> HIDE DEF grown
    <3> QED
      BY <3>1, StoredIsOldOrNew
  <2>2. Listed(a, heap[a].creator) /\ a \in 1 .. Len(heap)
    BY <1>1, <1>5, Lengths DEF ListedInv, Holding
  <2>3. \A id \in DOMAIN eventsMap' :
          \/ id \in DOMAIN eventsMap /\ eventsMap'[id] = eventsMap[id]
          \/ eventsMap'[id] = a
    BY <2>1
  <2> HIDE DEF grown, a
  <2>4. \A id \in DOMAIN eventsMap' :
          \/ id \in DOMAIN eventsMap /\ eventsMap'[id] = eventsMap[id]
          \/ Listed(eventsMap'[id], heap[eventsMap'[id]].creator) /\ eventsMap'[id] \in 1 .. Len(heap)
    BY <2>2, <2>3
  <2> QED
    BY <1>1, <1>5, <2>4, ListedRest
<1>6. CASE createEvent(p)
  BY <1>1, <1>2, <1>3, <1>4, <1>5, <1>6, CreateOrder
     DEF createEvent, Find, Goto, At, Answer, server
<1>7. CASE ~createEvent(p)
  <2>1. UNCHANGED <<eventsMap, eventList>>
    BY <1>7 DEF Request, Send, handleClient, registerClient, unregisterClient,
          createEventFails, sendRSVP, getRSVP_List, getTop5Events, Find, server
  <2>2. pc'[p] \notin {"create_push", "create_map"}
    <3>1. CASE Request(p)
      BY <1>1, <3>1 DEF Request, Send, Goto
    <3>2. CASE registerClient(p) \/ unregisterClient(p)
      BY <1>1, <3>2 DEF registerClient, unregisterClient, Find, Goto, At, Answer
    <3>3. CASE createEventFails(p)
      BY <1>1, <3>3 DEF createEventFails, Goto, Answer
    <3>4. CASE sendRSVP(p)
      BY <1>1, <3>4 DEF sendRSVP, Find, Goto, Answer
    <3>5. CASE getRSVP_List(p)
      BY <1>1, <3>5 DEF getRSVP_List, Find, Goto, Answer
    <3>6. CASE getTop5Events(p)
      BY <1>1, <3>6 DEF getTop5Events, Goto, At, Answer
    <3> QED
      BY <1>7, <3>1, <3>2, <3>3, <3>4, <3>5, <3>6 DEF handleClient
  <2> QED
    BY <1>2, <2>1, <2>2
<1> QED
  BY <1>6, <1>7

LEMMA ListedNextStep ==
  ASSUME ListedInv, [Next]_vars
  PROVE  ListedInv'
<1>1. KeptInv /\ KeptInv'
  BY KeptStep DEF ListedInv
<1>2. CASE Crash \/ UNCHANGED vars
  BY <1>1, <1>2 DEF Crash, vars, server, history, ListedInv, Listed
<1>3. ASSUME NEW p \in Process, Request(p) \/ handleClient(p),
             overlapped' = overlapped \cup (IF Overlaps(p) THEN {UpperName(p)} ELSE {})
      PROVE  ListedInv'
  BY <1>1, <1>3, ListedStep
<1> QED
  BY <1>2, <1>3 DEF Next

(* createEvent puts an event in the list before the map, so an event that  *)
(* a client can find by its id is one that GET_TOP_5 counts, whichever     *)
(* allocations fail and whatever names the emClients have, unless an       *)
(* update of its maker's overlapped another handler's.                     *)
THEOREM FoundEventsAreListed == Spec => []ReachableEventsAreListed
<1>1. Init => ListedInv
  <2>1. ASSUME Init
        PROVE  ListedInv
    <3>1. DOMAIN eventsMap = {} /\ \A p \in Process : pc[p] = "idle"
      BY <2>1 DEF Init
    <3> QED
      BY <2>1, <3>1, KeptInit DEF ListedInv
  <2> QED
    BY <2>1
<1>2. ListedInv /\ [Next]_vars => ListedInv'
  BY ListedNextStep
<1>3. ListedInv => ReachableEventsAreListed
  BY DEF ListedInv, Listed, ReachableEventsAreListed
<1> QED
  BY <1>1, <1>2, <1>3, PTL DEF Spec
=============================================================================
