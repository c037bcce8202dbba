--------------------------- MODULE MCEventSystem ---------------------------
(* Values for the constants of EventSystem: ann makes events and accepts   *)
(* them, BOB accepts and asks; a description says "ERROR: ", and BOB's     *)
(* name would do for REGISTER.                                             *)
EXTENDS EventSystem

MCProcess == {"p1", "p2"}
MCNameOf == [p \in MCProcess |-> IF p = "p1" THEN "ann" ELSE "BOB"]
MCClientName == {"ann", "ANN", "BOB"}
MCToUpper == [c \in MCClientName |-> IF c = "ann" THEN "ANN" ELSE c]
MCUpperCase == [word \in Commands |-> word]
MCTitle == {<<"t">>}
MCInfo == {<<"d">>} \X {<<"x">>, <<"y">>}
MCRequestId == {1, 12}
MCNoFailure == {}
MCLowestId == 0
MCNameSays == [c \in MCClientName |-> IF c = "BOB" THEN {"REGISTER"} ELSE {}]
MCInfoSays == [i \in MCInfo |-> IF i[2] = <<"y">> THEN {"ERROR: "} ELSE {}]

MCLineTyped == [p \in MCProcess |->
  {<<"REGISTER", "\n">>, <<"UNREGISTER", "\n">>, <<"SEND_RSVP", " ", "1", "\n">>} \cup
  IF p = "p1" THEN {<<"CREATE", " ", "t", " ", "d", " ", "\n">>,
                    <<"CREATE", " ", "t", " ", "d", " ", "x", "\n">>}
  ELSE {<<"SEND_RSVP", " ", "1", "2", "\n">>, <<"GET_RSVPS_LIST", " ", "1", "\n">>,
        <<"GET_TOP_5", "\n">>}]
=============================================================================
