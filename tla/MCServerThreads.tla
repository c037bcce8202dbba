-------------------------- MODULE MCServerThreads --------------------------
(* Values for the constants of ServerThreads: emClients with names of      *)
(* their own, or two that were started under one name.                     *)
EXTENDS ServerThreads

CONSTANTS p1, p2, p3

MCClientName == {"ann", "ANN", "BOB"}
MCToUpper == [c \in MCClientName |-> IF c = "ann" THEN "ANN" ELSE c]
MCOwnNames == [p \in Process |-> IF p = p1 THEN "ann" ELSE "BOB"]
MCSharedName == [p \in Process |-> IF p = p1 THEN "ann" ELSE "ANN"]
MCTwoAndOne == [p \in Process |-> IF p = p3 THEN "BOB" ELSE "ann"]
(* p1 and p2 are alike in MCTwoAndOne.                                     *)
MCSymmetry == Permutations({p1, p2})
MCAtomic == {}
MCLostOrCrash == {"lost", "crash"}
MCNoFailure == {}
=============================================================================
