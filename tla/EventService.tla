---------------------------- MODULE EventService ----------------------------
(***************************************************************************)
(* What the events service promises its clients, whatever structures the   *)
(* server keeps: a set of members, a calendar of meetings that an id names *)
(* for ever, and one answer to each request.  Requests take effect one at  *)
(* a time.  The server of module Server is shown to implement this.        *)
(***************************************************************************)
EXTENDS Integers, Sequences, FiniteSets

CONSTANTS
  ClientName, ToUpper,
  Title, Info,
  RequestId,  \* the ids clients ask for
  TopCount,   \* how many meetings GET_TOP_5 shows
  LineShows,  \* what it says of each: some of "id", "title" and "info"
  EventId     \* the ids a meeting may be given

VARIABLES
  members,    \* who has registered
  meetings,   \* id -> what was announced and who comes
  order,      \* the ids, oldest first
  open,       \* the service has not been shut down
  answer      \* the answer to the last request

vars == <<members, meetings, order, open, answer>>

NoAnswer == [to |-> "nobody"]

Init ==
  /\ members = {}
  /\ meetings = <<>>
  /\ order = <<>>
  /\ open = TRUE
  /\ answer = NoAnswer

Says(c, command, result, id, guests, lines) ==
  answer' = [to |-> c, command |-> command, result |-> result,
             id |-> id, guests |-> guests, lines |-> lines]

Member(c) == ToUpper[c] \in members

(* A stranger may only join; nothing else changes when he asks for more. *)
TurnAway(c, command, id) ==
  /\ ~Member(c)
  /\ Says(c, command, "NOT_REGISTERED", id, {}, <<>>)
  /\ UNCHANGED <<members, meetings, order, open>>

(* A name belongs to one member at a time, in any spelling. *)
Join(c) ==
  /\ IF Member(c)
     THEN /\ UNCHANGED members
          /\ Says(c, "REGISTER", "ALREADY_REGISTERED", 0, {}, <<>>)
     ELSE /\ members' = members \cup {ToUpper[c]}
          /\ Says(c, "REGISTER", "SUCCESS", 0, {}, <<>>)
  /\ UNCHANGED <<meetings, order, open>>

(* Who leaves is expected at no meeting any more. *)
Leave(c) ==
  \/ /\ Member(c)
     /\ members' = members \ {ToUpper[c]}
     /\ meetings' = [id \in DOMAIN meetings |->
                       [meetings[id] EXCEPT !.guests = @ \ {ToUpper[c]}]]
     /\ Says(c, "UNREGISTER", "SUCCESS", 0, {}, <<>>)
     /\ UNCHANGED <<order, open>>
  \/ TurnAway(c, "UNREGISTER", 0)

(* A new meeting gets an id larger than every id given before, and the     *)
(* answer says which.                                                      *)
Announce(c, title, info) ==
  /\ Member(c)
  /\ \E id \in EventId :
       /\ \A old \in DOMAIN meetings : old < id
       /\ meetings' = [m \in DOMAIN meetings \cup {id} |->
                         IF m \in DOMAIN meetings THEN meetings[m]
                         ELSE [by |-> c, title |-> title, info |-> info,
                               guests |-> {}]]
       /\ order' = Append(order, id)
       /\ Says(c, "CREATE", "CREATED", id, {}, <<>>)
  /\ UNCHANGED <<members, open>>

(* A member says once that he comes to a meeting. *)
Accept(c, id) ==
  \/ /\ Member(c)
     /\ UNCHANGED <<members, order, open>>
     /\ \/ /\ id \notin DOMAIN meetings
           /\ UNCHANGED meetings
           /\ Says(c, "SEND_RSVP", "NO_EVENT", id, {}, <<>>)
        \/ /\ id \in DOMAIN meetings
           /\ meetings' = [meetings EXCEPT ![id].guests = @ \cup {ToUpper[c]}]
           /\ Says(c, "SEND_RSVP",
                   IF ToUpper[c] \in meetings[id].guests
                   THEN "ALREADY_SENT" ELSE "SUCCESS", id, {}, <<>>)
  \/ TurnAway(c, "SEND_RSVP", id)

(* Exactly those who come. *)
WhoComes(c, id) ==
  \/ /\ Member(c)
     /\ UNCHANGED <<members, meetings, order, open>>
     /\ \/ /\ id \notin DOMAIN meetings
           /\ Says(c, "GET_RSVPS_LIST", "NO_EVENT", id, {}, <<>>)
        \/ /\ id \in DOMAIN meetings
           /\ Says(c, "GET_RSVPS_LIST", "GUESTS", id, meetings[id].guests, <<>>)
  \/ TurnAway(c, "GET_RSVPS_LIST", id)

(* The newest meetings, oldest of them first: those with fewer than        *)
(* TopCount newer ones.                                                    *)
Newest ==
  {i \in DOMAIN order : Cardinality({id \in DOMAIN meetings : id > order[i]}) < TopCount}

LineOf(id) ==
  [part \in LineShows |-> IF part = "id" THEN id ELSE meetings[id][part]]

WhatIsNew(c) ==
  \/ /\ Member(c)
     /\ LET older == Len(order) - Cardinality(Newest)
        IN  Says(c, "GET_TOP_5", "TOP", 0, {},
                 [i \in 1 .. Cardinality(Newest) |-> LineOf(order[older + i])])
     /\ UNCHANGED <<members, meetings, order, open>>
  \/ TurnAway(c, "GET_TOP_5", 0)

(* What asks for nothing, or for a meeting without saying which, changes   *)
(* nothing; EXIT gets an empty answer.                                     *)
Refuse(c) ==
  /\ \/ Says(c, "ILLEGAL", "ILLEGAL_COMMAND", 0, {}, <<>>)
     \/ \E command \in {"SEND_RSVP", "GET_RSVPS_LIST"} :
          Says(c, command, "INVALID_ARGUMENT", 0, {}, <<>>)
     \/ Says(c, "EXIT", "NONE", 0, {}, <<>>)
  /\ UNCHANGED <<members, meetings, order, open>>

Shutdown ==
  /\ open' = FALSE
  /\ members' = {}
  /\ meetings' = <<>>
  /\ order' = <<>>
  /\ answer' = NoAnswer

Next ==
  /\ open
  /\ \/ \E c \in ClientName :
          \/ Join(c) \/ Leave(c) \/ WhatIsNew(c) \/ Refuse(c)
          \/ \E title \in Title, info \in Info : Announce(c, title, info)
          \/ TurnAway(c, "CREATE", 0)
          \/ \E id \in RequestId : Accept(c, id) \/ WhoComes(c, id)
     \/ Shutdown

Spec == Init /\ [][Next]_vars
=============================================================================
