------------------------------- MODULE Event -------------------------------
(***************************************************************************)
(* The class Event: an announced event and the clients who accepted it.    *)
(* An Event object is a record; each method is an operator that returns    *)
(* the object it leaves behind.  The date and the description are never    *)
(* told apart by the program and are one field, `info'.                    *)
(***************************************************************************)
EXTENDS Integers, SequencesExt

CONSTANTS
  ClientName,  \* the client names users type, in every spelling
  ToUpper,     \* ::toupper over a whole name: a function on spellings
  Title,       \* the titles of events
  Info         \* their dates with their descriptions

ASSUME NameAssumption ==
  /\ ToUpper \in [ClientName -> ClientName]
  /\ \A c \in ClientName : ToUpper[ToUpper[c]] = ToUpper[c]

Name == {ToUpper[c] : c \in ClientName}

EventType ==
  [creator : ClientName, eventId : Int, title : Title, info : Info,
   guestsNames : SUBSET Name, RSVP_List : Seq(Name)]

NewEvent(creator, id, title, info) ==
  [creator |-> creator, eventId |-> id, title |-> title, info |-> info,
   guestsNames |-> {}, RSVP_List |-> <<>>]

isNewGuest(event, guest) == ToUpper[guest] \notin event.guestsNames

(* Faulty variant: the guest is stored as typed. *)
AddGuest_AsTyped(event, guest) ==
  [event EXCEPT !.guestsNames = @ \cup {guest},
                !.RSVP_List = Append(@, guest)]

(* Event::registerClient for a new guest. *)
AddGuest(event, guest) ==
  [event EXCEPT !.guestsNames = @ \cup {ToUpper[guest]},
                !.RSVP_List = Append(@, ToUpper[guest])]

(* Faulty variant: the name leaves the set, the list keeps it. *)
removeGuest_SetOnly(event, guest) ==
  [event EXCEPT !.guestsNames = @ \ {ToUpper[guest]}]

(* Faulty variant: the wrong list element is erased with the name. *)
removeGuest_FirstOfList(event, guest) ==
  IF isNewGuest(event, guest) THEN event
  ELSE [event EXCEPT !.guestsNames = @ \ {Head(event.RSVP_List)},
                     !.RSVP_List = Tail(@)]

removeGuest(event, guest) ==
  IF isNewGuest(event, guest) THEN event
  ELSE [event EXCEPT !.guestsNames = @ \ {ToUpper[guest]},
                     !.RSVP_List = RemoveFirst(@, ToUpper[guest])]

(***************************************************************************)
(* Event::toString builds a string with the id and the title, and returns  *)
(* another one, with the date and the description (info) only.             *)
(***************************************************************************)
Shown == {"info"}
Line == [Shown -> Info]
toString(event) == [part \in Shown |-> event[part]]

(* The set of names and the list of acceptances say the same. *)
GuestsAgree(event) ==
  /\ IsInjective(event.RSVP_List)
  /\ ToSet(event.RSVP_List) = event.guestsNames
=============================================================================
