----------------------------- MODULE EventProofs -----------------------------
(***************************************************************************)
(* What the methods of Event do to the guests, for any event and name: the *)
(* facts that the proofs about both models of the server rest on.          *)
(***************************************************************************)
EXTENDS Event, SequenceTheorems, WellFoundedInduction, TLAPS

-----------------------------------------------------------------------------
(* A set of integers with a lower bound has a least element.               *)
LEMMA LeastElement ==
  ASSUME NEW S \in SUBSET Int, S # {}, NEW lo \in Int, \A x \in S : lo <= x
  PROVE  \E x \in S : \A y \in S : x <= y
<1> DEFINE T == {n \in Nat : lo + n \in S}
<1>1. T \subseteq Nat /\ T # {}
  <2>1. PICK x \in S : TRUE
    OBVIOUS
  <2>2. x - lo \in Nat /\ lo + (x - lo) = x
    OBVIOUS
  <2>3. x - lo \in T
    BY <2>2
  <2> QED
    BY <2>3
<1>2. \E n \in T : \A m \in T : ~(<<m, n>> \in OpToRel(<, Nat))
  <2> HIDE DEF T
  <2> QED
    BY <1>1, NatLessThanWellFounded, WFMin
<1>3. PICK n \in T : \A m \in T : ~(<<m, n>> \in OpToRel(<, Nat))
  BY <1>2
<1>4. ASSUME NEW y \in S
      PROVE  lo + n <= y
  <2>1. y - lo \in Nat /\ lo + (y - lo) = y
    OBVIOUS
  <2>2. y - lo \in T
    BY <2>1
  <2>3. ~(<<y - lo, n>> \in OpToRel(<, Nat))
    BY <1>3, <2>2
  <2>4. ~(y - lo < n)
    BY <1>1, <2>1, <2>3 DEF OpToRel
  <2> QED
    BY <1>1, <2>4
<1> QED
  BY <1>4

(* RemoveFirst takes one element out and moves up those behind it.         *)
LEMMA RemoveFirstShifts ==
  ASSUME NEW S, NEW s \in Seq(S), NEW e \in ToSet(s)
  PROVE  \E k \in 1 .. Len(s) :
           LET r == RemoveFirst(s, e)
           IN  /\ s[k] = e
               /\ r \in Seq(S) /\ Len(r) = Len(s) - 1
               /\ \A i \in 1 .. Len(s) - 1 : r[i] = IF i < k THEN s[i] ELSE s[i + 1]
<1>1. PICK k \in 1 .. Len(s) : s[k] = e /\ RemoveFirst(s, e) = RemoveAt(s, k)
  <2> DEFINE I == {i \in 1 .. Len(s) : s[i] = e}
             first == SelectInSeq(s, LAMBDA v : v = e)
  <2>1. \E i \in I : \A j \in I : i <= j
    <3>1. I \in SUBSET Int /\ 1 \in Int /\ \A i \in I : 1 <= i
      OBVIOUS
    <3>2. I # {}
      BY DEF ToSet
    <3> HIDE DEF I
    <3> QED
      BY <3>1, <3>2, LeastElement
  <2>2. Min(I) \in I
    BY <2>1 DEF Min
  <2>3. first = Min(I)
    BY <2>1 DEF SelectInSeq
  <2>4. first \in 1 .. Len(s) /\ s[first] = e
    BY <2>2, <2>3
  <2>5. RemoveFirst(s, e) = RemoveAt(s, first)
    BY <2>4 DEF RemoveFirst
  <2> HIDE DEF first
  <2> QED
    BY <2>4, <2>5
<1> DEFINE r == RemoveAt(s, k)
           front == SubSeq(s, 1, k - 1)
           back == SubSeq(s, k + 1, Len(s))
<1>4. RemoveFirst(s, e) = r
  BY <1>1
<1>5. /\ front \in Seq(S) /\ Len(front) = k - 1
      /\ \A i \in 1 .. k - 1 : front[i] = s[i]
  BY <1>1, SubSeqProperties
<1>6. /\ back \in Seq(S) /\ Len(back) = Len(s) - k
      /\ \A i \in 1 .. Len(s) - k : back[i] = s[k + i]
  <2>1. \A i \in k + 1 .. Len(s) : s[i] \in S
    BY <1>1
  <2>2. k + 1 \in Int /\ Len(s) \in Int
    BY <1>1
  <2> HIDE DEF back
  <2>3. /\ back \in Seq(S)
        /\ Len(back) = IF k + 1 <= Len(s) THEN Len(s) - (k + 1) + 1 ELSE 0
        /\ \A i \in 1 .. Len(s) - (k + 1) + 1 : back[i] = s[(k + 1) + i - 1]
    BY <2>1, <2>2, SubSeqProperties DEF back
  <2> QED
    BY <1>1, <2>3
<1>7. /\ r \in Seq(S) /\ Len(r) = Len(s) - 1
      /\ \A i \in 1 .. Len(s) - 1 : r[i] = IF i < k THEN s[i] ELSE s[i + 1]
  <2>1. r = front \o back
    BY DEF RemoveAt
  <2> HIDE DEF r, front, back
  <2>2. /\ r \in Seq(S) /\ Len(r) = Len(front) + Len(back)
        /\ \A i \in 1 .. Len(front) + Len(back) :
             r[i] = IF i <= Len(front) THEN front[i] ELSE back[i - Len(front)]
    BY <1>5, <1>6, <2>1, ConcatProperties
  <2>3. /\ Len(front) = k - 1 /\ Len(front) + Len(back) = Len(s) - 1
        /\ k \in Int /\ Len(s) \in Int /\ 1 <= k /\ k <= Len(s)
    BY <1>1, <1>5, <1>6
  <2>4. ASSUME NEW i \in 1 .. Len(s) - 1
        PROVE  r[i] = IF i < k THEN s[i] ELSE s[i + 1]
    <3>1. r[i] = IF i <= k - 1 THEN front[i] ELSE back[i - (k - 1)]
      BY <2>2, <2>3
    <3>2. CASE i < k
      BY <1>5, <2>3, <3>1, <3>2
    <3>3. CASE i >= k
      <4>1. /\ i - (k - 1) \in 1 .. Len(s) - k
            /\ k + (i - (k - 1)) = i + 1
            /\ ~(i <= k - 1) /\ ~(i < k)
        BY <2>3, <3>3
      <4>2. back[i - (k - 1)] = s[k + (i - (k - 1))]
        BY <1>6, <4>1
      <4> QED
        BY <3>1, <4>1, <4>2
    <3> QED
      BY <2>3, <3>2, <3>3
  <2> QED
    BY <2>2, <2>3, <2>4
<1> HIDE DEF r
<1> QED
  BY <1>1, <1>4, <1>7

(* Whether the element is there or not, a sequence is left.               *)
LEMMA RemoveFirstType ==
  ASSUME NEW S, NEW s \in Seq(S), NEW e
  PROVE  RemoveFirst(s, e) \in Seq(S)
<1>1. CASE e \in ToSet(s)
  BY <1>1, RemoveFirstShifts
<1>2. CASE e \notin ToSet(s)
  BY <1>2 DEF RemoveFirst, ToSet
<1> QED
  BY <1>1, <1>2

(* Taking an element out of a sequence without repetitions leaves the      *)
(* others, each once.                                                      *)
LEMMA RemoveFirstOfInjective ==
  ASSUME NEW S, NEW s \in Seq(S), NEW e \in ToSet(s), IsInjective(s)
  PROVE  /\ RemoveFirst(s, e) \in Seq(S)
         /\ IsInjective(RemoveFirst(s, e))
         /\ ToSet(RemoveFirst(s, e)) = ToSet(s) \ {e}
<1> DEFINE r == RemoveFirst(s, e)
<1>1. PICK k \in 1 .. Len(s) :
        /\ s[k] = e
        /\ r \in Seq(S) /\ Len(r) = Len(s) - 1
        /\ \A i \in 1 .. Len(s) - 1 : r[i] = IF i < k THEN s[i] ELSE s[i + 1]
  BY RemoveFirstShifts
<1>2. \A i \in 1 .. Len(s) : s[i] = e => i = k
  BY <1>1 DEF IsInjective
<1> HIDE DEF r
<1>3. IsInjective(r)
  BY <1>1 DEF IsInjective
<1>4. ToSet(r) = ToSet(s) \ {e}
  <2>1. ASSUME NEW x \in ToSet(s) \ {e}
        PROVE  x \in ToSet(r)
    <3>1. PICK j \in 1 .. Len(s) : s[j] = x
      BY DEF ToSet
    <3>2. j # k
      BY <1>1, <3>1
    <3>3. CASE j < k
      BY <1>1, <3>1, <3>3 DEF ToSet
    <3>4. CASE j > k
      <4>1. j - 1 \in 1 .. Len(s) - 1 /\ r[j - 1] = x
        BY <1>1, <3>1, <3>4
      <4> QED
        BY <1>1, <4>1 DEF ToSet
    <3> QED
      BY <1>1, <3>2, <3>3, <3>4
  <2>2. ASSUME NEW x \in ToSet(r)
        PROVE  x \in ToSet(s) \ {e}
    BY <1>1, <1>2 DEF ToSet
  <2> QED
    BY <2>1, <2>2
<1> QED
  BY <1>1, <1>3, <1>4 DEF r

-----------------------------------------------------------------------------
(* Names and events.                                                       *)
LEMMA NameProperties ==
  ASSUME NEW c \in ClientName
  PROVE  /\ ToUpper[c] \in Name
         /\ ToUpper[c] \in ClientName
         /\ ToUpper[ToUpper[c]] = ToUpper[c]
BY NameAssumption DEF Name

LEMMA NewEventProperties ==
  ASSUME NEW creator \in ClientName, NEW id \in Int, NEW title \in Title, NEW info \in Info
  PROVE  LET e == NewEvent(creator, id, title, info)
         IN  /\ e \in EventType
             /\ e.eventId = id
             /\ GuestsAgree(e)
             /\ ToSet(e.RSVP_List) = {}
<1>1. <<>> \in Seq(Name) /\ DOMAIN <<>> = {}
  OBVIOUS
<1> QED
  BY <1>1 DEF NewEvent, EventType, GuestsAgree, IsInjective, ToSet

LEMMA AddGuestProperties ==
  ASSUME NEW e \in EventType, GuestsAgree(e), NEW g \in ClientName, isNewGuest(e, g)
  PROVE  /\ AddGuest(e, g) \in EventType
         /\ GuestsAgree(AddGuest(e, g))
         /\ AddGuest(e, g).eventId = e.eventId
         /\ ToSet(AddGuest(e, g).RSVP_List) = ToSet(e.RSVP_List) \cup {ToUpper[g]}
<1> DEFINE u == ToUpper[g]
           old == e.RSVP_List
           new == Append(old, u)
<1>1. u \in Name /\ old \in Seq(Name) /\ e.guestsNames \in SUBSET Name
  BY NameProperties DEF EventType
<1>2. /\ new \in Seq(Name) /\ Len(new) = Len(old) + 1
      /\ \A i \in 1 .. Len(old) : new[i] = old[i]
      /\ new[Len(old) + 1] = u
  BY <1>1
<1>3. u \notin ToSet(old)
  BY DEF isNewGuest, GuestsAgree
<1>4. /\ AddGuest(e, g).guestsNames = e.guestsNames \cup {u}
      /\ AddGuest(e, g).RSVP_List = new
      /\ AddGuest(e, g).eventId = e.eventId
      /\ AddGuest(e, g) \in EventType
  BY <1>1, <1>2 DEF AddGuest, EventType
<1> HIDE DEF u, new
<1>5. ToSet(new) = ToSet(old) \cup {u}
  <2>1. \A x \in ToSet(new) : x \in ToSet(old) \cup {u}
    BY <1>1, <1>2 DEF ToSet
  <2>2. \A x \in ToSet(old) : x \in ToSet(new)
    BY <1>1, <1>2 DEF ToSet
  <2>3. u \in ToSet(new)
    BY <1>1, <1>2 DEF ToSet
  <2> QED
    BY <2>1, <2>2, <2>3
<1>6. IsInjective(new)
  <2>1. IsInjective(old)
    BY DEF GuestsAgree
  <2> SUFFICES ASSUME NEW i \in 1 .. Len(old) + 1, NEW j \in 1 .. Len(old) + 1, new[i] = new[j]
               PROVE  i = j
    BY <1>1, <1>2 DEF IsInjective
  <2>2. \A k \in 1 .. Len(old) : new[k] # u
    BY <1>1, <1>2, <1>3 DEF ToSet
  <2> QED
    BY <1>1, <1>2, <2>1, <2>2 DEF IsInjective
<1> QED
  BY <1>4, <1>5, <1>6 DEF GuestsAgree, u

LEMMA RemoveGuestProperties ==
  ASSUME NEW e \in EventType, GuestsAgree(e), NEW g \in ClientName
  PROVE  /\ removeGuest(e, g) \in EventType
         /\ GuestsAgree(removeGuest(e, g))
         /\ removeGuest(e, g).eventId = e.eventId
         /\ ToSet(removeGuest(e, g).RSVP_List) = ToSet(e.RSVP_List) \ {ToUpper[g]}
<1> DEFINE u == ToUpper[g]
           old == e.RSVP_List
           new == RemoveFirst(old, u)
<1>1. u \in Name /\ old \in Seq(Name) /\ e.guestsNames \in SUBSET Name
  BY NameProperties DEF EventType
<1>2. IsInjective(old) /\ ToSet(old) = e.guestsNames
  BY DEF GuestsAgree
<1>3. CASE isNewGuest(e, g)
  BY <1>2, <1>3 DEF removeGuest, isNewGuest
<1>4. CASE ~isNewGuest(e, g)
  <2>1. new \in Seq(Name) /\ IsInjective(new) /\ ToSet(new) = ToSet(old) \ {u}
    BY <1>1, <1>2, <1>4, RemoveFirstOfInjective DEF isNewGuest
  <2>2. removeGuest(e, g) = [e EXCEPT !.guestsNames = e.guestsNames \ {u}, !.RSVP_List = new]
    BY <1>4 DEF removeGuest
  <2> HIDE DEF new, u
  <2>3. /\ removeGuest(e, g).guestsNames = e.guestsNames \ {u}
        /\ removeGuest(e, g).RSVP_List = new
        /\ removeGuest(e, g).eventId = e.eventId
        /\ removeGuest(e, g) \in EventType
    BY <1>1, <2>1, <2>2 DEF EventType
  <2> QED
    BY <1>2, <2>1, <2>3 DEF GuestsAgree, u
<1> QED
  BY <1>3, <1>4
=============================================================================
