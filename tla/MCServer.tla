------------------------------ MODULE MCServer ------------------------------
(* Values for the constants of Server: two users, one of whom types his    *)
(* name in two spellings.                                                  *)
EXTENDS Server

MCClientName == {"ann", "ANN", "BOB"}
MCToUpper == [c \in MCClientName |-> IF c = "ann" THEN "ANN" ELSE c]
MCRequestId == 1 .. 3
MCNoFailure == {}
MCEventFailure == {"event"}
MCLowestId == -1
=============================================================================
