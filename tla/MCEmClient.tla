----------------------------- MODULE MCEmClient -----------------------------
(* Values for the constants of EmClient.  Lines are made of a command word *)
(* and a few pieces, with or without an end; the limits are one character, *)
(* and 12 is the largest int.                                              *)
EXTENDS EmClient

MCUpperCase == [word \in Commands \cup {"create"} |-> IF word = "create" THEN "CREATE" ELSE word]

Pieces(set, n) == {FlattenSeq(pieces) : pieces \in UNION {[1 .. k -> set] : k \in 0 .. n}}

Typed(words, set, n) ==
  {<<word>> \o text \o end : word \in words, text \in Pieces(set, n), end \in {<<>>, <<"\n">>}}

MCLineTyped ==
  {<<>>, <<" ">>, <<"\n">>, <<" ", "REGISTER", "\n">>, <<"EXIT", "\n">>}
    \cup Typed({"REGISTER", "UNREGISTER", "GET_TOP_5"}, {<<" ">>, <<" ", "x">>}, 1)
    \cup Typed({"SEND_RSVP"}, {<<" ">>, <<" ", "1">>, <<" ", "2">>, <<"2">>, <<"x">>}, 2)
    \cup Typed({"GET_RSVPS_LIST"}, {<<" ", "1">>, <<"2">>}, 2)
    \cup Typed({"create"}, {<<" ">>, <<" ", "x">>, <<"x">>}, 4)
=============================================================================
