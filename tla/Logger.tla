------------------------------- MODULE Logger -------------------------------
(***************************************************************************)
(* The class Logger: a stream that is flushed after every line.  A Logger  *)
(* is a record; a method is the set of the states it may leave, because    *)
(* the file system may fail it.  Lines are counted, not kept.  The first   *)
(* flushLogFile sets the exception mask, and nothing ever clears the       *)
(* stream: once `bad' it throws whenever it is used.                       *)
(***************************************************************************)
EXTENDS Naturals

CONSTANT MaxLogged   \* bound: how many lines are logged

ASSUME LogAssumption == MaxLogged \in Nat \ {0}

LoggerType ==
  [open    : BOOLEAN,          \* _logFile.is_open()
   bad     : BOOLEAN,          \* badbit, with the mask set
   asked   : 0 .. MaxLogged,   \* lines given to logCommand (history)
   pending : 0 .. MaxLogged,   \* lines in the stream's buffer
   file    : 0 .. MaxLogged]   \* lines in the file

(* A file that cannot be opened is announced on stdout and then ignored.   *)
NewLogger ==
  {[open |-> isOpen, bad |-> FALSE, asked |-> 0, pending |-> 0, file |-> 0] :
     isOpen \in BOOLEAN}

Done(log) == [log |-> log, throws |-> FALSE]
Thrown(log) == [log |-> log, throws |-> TRUE]

Flushed(log) == [log EXCEPT !.file = @ + log.pending, !.pending = 0]

(* Faulty variant: without the mask a bad stream swallows the line. *)
InsertInBad_Unmasked(log) == {Done(log)}

(* _logFile << line throws. *)
InsertInBad(log) == {Thrown(log)}

(* The insertion puts the line in the buffer, or fails (a line longer than *)
(* the buffer), in which case setting the mask throws, outside the try.  A *)
(* failed flush is caught and leaves the line where it is.                 *)
logCommand(log) ==
  LET given == [log EXCEPT !.asked = @ + 1]
      buffered == [given EXCEPT !.pending = @ + 1]
  IN  IF ~log.open THEN {Done(log)}
      ELSE IF log.bad THEN InsertInBad(given)
      ELSE {Done(Flushed(buffered)),
            Done([buffered EXCEPT !.bad = TRUE]),
            Thrown([given EXCEPT !.bad = TRUE])}

(* Closing tries again to write what is pending; a failure is caught.      *)
closeLog(log) ==
  IF ~log.open THEN {log}
  ELSE {[log EXCEPT !.open = FALSE, !.pending = 0],
        [Flushed(log) EXCEPT !.open = FALSE]}
=============================================================================
