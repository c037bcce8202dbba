------------------------------ MODULE EmServer ------------------------------
(***************************************************************************)
(* The emServer process: the loop of main over select, a thread for every  *)
(* connection, and the shutdown that a line with EXIT on the standard      *)
(* input starts.  What a request does to the events is left to modules     *)
(* Server and ServerThreads; here a handler reads, works on the server and *)
(* its log, and answers.  A Conn is a connection, used again once both of  *)
(* its ends are closed.                                                    *)
(***************************************************************************)
EXTENDS Integers, Sequences, SequencesExt

CONSTANTS
  Conn,
  MAX_PEND_CONNECT,  \* the backlog of listen
  Terminal,          \* stdin gives a line at a time; a pipe gives all it has
  MaxLines,          \* bound: lines typed
  CallErrors         \* system calls of main, and making a thread, may fail

ASSUME EmServerAssumption ==
  /\ MAX_PEND_CONNECT \in Nat \ {0}
  /\ {Terminal, CallErrors} \subseteq BOOLEAN
  /\ MaxLines \in Nat

VARIABLES
  process,     \* "running", or how it ended
  pc,          \* where main is
  readfds,     \* what the last select found readable
  exitServer,  \* the flag that ends the loop
  threads,     \* what the vector of threads holds
  handler,     \* what the thread of each connection does
  up,          \* the singleton's log and containers are there
  backlog,     \* connections not accepted yet
  emClient,    \* what the other end of each connection does
  kernel,      \* lines the kernel holds for stdin
  buffer,      \* lines stdio has read and fgets has not returned
  eof,         \* stdin was closed by its writer
  lines        \* bound: lines to be typed

mainVars == <<pc, readfds, exitServer>>
stdin == <<kernel, buffer, eof, lines>>
vars == <<process, mainVars, threads, handler, up, backlog, emClient, stdin>>

Init ==
  /\ process = "running"
  /\ pc = "start"
  /\ readfds = {}
  /\ exitServer = FALSE
  /\ threads = "empty"
  /\ handler = [c \in Conn |-> "none"]
  /\ up = TRUE
  /\ backlog = <<>>
  /\ emClient = [c \in Conn |-> "none"]
  /\ kernel = <<>>
  /\ buffer = <<>>
  /\ eof = FALSE
  /\ lines = MaxLines

-----------------------------------------------------------------------------
(* The emClients.                                                          *)

(* The kernel takes connections from listen to close, or to the end of the *)
(* process.                                                                *)
Listening == pc \in {"select", "dispatch", "join", "close", "failing"}

Connect(c) ==
  /\ emClient[c] = "none" /\ handler[c] = "none"
  /\ Listening
  /\ c \notin ToSet(backlog)
  /\ Len(backlog) < MAX_PEND_CONNECT
  /\ backlog' = Append(backlog, c)
  /\ emClient' = [emClient EXCEPT ![c] = "connected"]
  /\ UNCHANGED <<process, mainVars, threads, handler, up, stdin>>

Write(c) ==
  /\ emClient[c] = "connected"
  /\ emClient' = [emClient EXCEPT ![c] = "sent"]
  /\ UNCHANGED <<process, mainVars, threads, handler, up, backlog, stdin>>

(* The user kills it before it has its answer.                             *)
Kill(c) ==
  /\ \/ emClient[c] = "connected" /\ emClient' = [emClient EXCEPT ![c] = "gone"]
     \/ emClient[c] = "sent" /\ emClient' = [emClient EXCEPT ![c] = "sent, gone"]
  /\ UNCHANGED <<process, mainVars, threads, handler, up, backlog, stdin>>

(* The server's end of the connections in S is closed without an answer.   *)
Reset(S) ==
  emClient' = [c \in Conn |->
    IF c \notin S THEN emClient[c]
    ELSE IF emClient[c] \in {"connected", "sent", "reset"} THEN "reset" ELSE "none"]

(* terminate, or a crash: every thread stops where it is.                  *)
Abort ==
  /\ process' = "aborted"
  /\ handler' = [c \in Conn |-> "none"]
  /\ backlog' = <<>>
  /\ Reset(Conn)
  /\ UNCHANGED <<mainVars, threads, up, stdin>>

Type ==
  /\ lines > 0 /\ ~eof
  /\ \E line \in {"EXIT", "other"} : kernel' = Append(kernel, line)
  /\ lines' = lines - 1
  /\ UNCHANGED <<process, mainVars, threads, handler, up, backlog, emClient,
                 buffer, eof>>

CloseStdin ==
  /\ ~eof
  /\ eof' = TRUE
  /\ UNCHANGED <<process, mainVars, threads, handler, up, backlog, emClient,
                 kernel, buffer, lines>>

-----------------------------------------------------------------------------
(* The thread of a connection: handleRequest, that is Server::handleClient.*)
(* Faulty variants: an empty request is dropped with its socket open, or   *)
(* waited for.                                                             *)
AfterRead_Dropped(c) == IF emClient[c] = "gone" THEN "none" ELSE "parseCommand"
AfterRead_Retry(c) == IF emClient[c] = "gone" THEN "read" ELSE "parseCommand"

(* An empty request is given an empty response.                            *)
AfterRead(c) == IF emClient[c] = "gone" THEN "write" ELSE "parseCommand"

ReadRequest(c) ==
  /\ handler[c] = "read"
  /\ emClient[c] # "connected"
  /\ handler' = [handler EXCEPT ![c] = AfterRead(c)]
  /\ UNCHANGED <<process, mainVars, threads, up, backlog, emClient, stdin>>

ParseCommand(c) ==
  /\ handler[c] = "parseCommand"
  /\ handler' = [handler EXCEPT ![c] = "write"]
  /\ UNCHANGED <<process, mainVars, threads, up, backlog, emClient, stdin>>

WriteResponse(c) ==
  /\ handler[c] = "write"
  /\ handler' = [handler EXCEPT ![c] = "none"]
  /\ emClient' = [emClient EXCEPT ![c] = "none"]
  /\ UNCHANGED <<process, mainVars, threads, up, backlog, stdin>>

(* Containers that are destroyed may bring it down, or look as before.      *)
ParseCommandCrashes(c) ==
  /\ handler[c] = "parseCommand"
  /\ ~up
  /\ Abort

handleClient(c) ==
  ReadRequest(c) \/ ParseCommand(c) \/ ParseCommandCrashes(c) \/ WriteResponse(c)

-----------------------------------------------------------------------------
(* main.                                                                   *)
Ready ==
  {fd \in {"master", "stdin"} :
     \/ fd = "master" /\ backlog # <<>>
     \/ fd = "stdin" /\ (kernel # <<>> \/ eof)}

(* Faulty variant: the set is not cleared before the next select.          *)
Found_NotCleared == readfds \cup Ready
Found == Ready

(* socket, setsockopt, bind and listen.                                    *)
Start ==
  /\ pc = "start"
  /\ pc' = "select"
  /\ UNCHANGED <<process, readfds, exitServer, threads, handler, up, backlog, emClient, stdin>>

Select ==
  /\ pc = "select"
  /\ Ready # {}
  /\ readfds' = Found
  /\ pc' = "dispatch"
  /\ UNCHANGED <<process, exitServer, threads, handler, up, backlog, emClient, stdin>>

(* Faulty variant: stdin comes first.                                      *)
MasterTurn_Second == "master" \in readfds /\ "stdin" \notin readfds

(* if FD_ISSET(masterSocket) ... else if FD_ISSET(STDIN)                   *)
MasterTurn == "master" \in readfds
StdinTurn == ~MasterTurn /\ "stdin" \in readfds

(* Faulty variant: the thread is detached.                                 *)
Spawned_Detached == threads
Spawned == "joinable"

Accept ==
  /\ pc = "dispatch" /\ MasterTurn
  /\ backlog' = Tail(backlog)
  /\ handler' = [handler EXCEPT ![Head(backlog)] = "read"]
  /\ threads' = Spawned
  /\ pc' = "select"
  /\ UNCHANGED <<process, readfds, exitServer, up, emClient, stdin>>

(* std::thread throws, or the vector when it has to grow, and nothing      *)
(* catches.                                                                *)
SpawnFails ==
  /\ CallErrors
  /\ pc = "dispatch" /\ MasterTurn
  /\ Abort

(* Where main may find that a call has failed: before listen, at select,   *)
(* and after accept.                                                       *)
CallFails ==
  \/ pc \in {"start", "select"}
  \/ pc = "dispatch" /\ MasterTurn

(* The message that is made with "ERROR" + '\t' reads behind the literal,  *)
(* which may end the process; else exit(1) destroys what is static, last   *)
(* made first.  The server of getInstance, made in main, goes before       *)
(* `threads', and the handlers are still at work.  Before listen there are *)
(* none.                                                                   *)
serverSystemError ==
  /\ CallErrors
  /\ CallFails
  /\ \/ Abort
     \/ /\ up' = FALSE
        /\ IF pc = "start"
           THEN process' = "failed" /\ UNCHANGED pc
           ELSE pc' = "failing" /\ UNCHANGED process
        /\ UNCHANGED <<readfds, exitServer, threads, handler, backlog, emClient, stdin>>

(* Then `threads', which calls terminate for a thread that was not joined. *)
DestroyThreads ==
  /\ pc = "failing"
  /\ process' = IF threads = "joinable" THEN "aborted" ELSE "failed"
  /\ handler' = [c \in Conn |-> "none"]
  /\ backlog' = <<>>
  /\ Reset(Conn)
  /\ UNCHANGED <<mainVars, threads, up, stdin>>

(* What fgets finds in the buffer once it has read, if it had to.          *)
Filled ==
  IF buffer # <<>> \/ kernel = <<>> THEN buffer
  ELSE IF Terminal THEN <<Head(kernel)>> ELSE kernel

HasExit(line) == line = "EXIT"

ReadStdin ==
  /\ pc = "dispatch" /\ StdinTurn
  /\ kernel' = IF buffer # <<>> \/ kernel = <<>> THEN kernel
               ELSE IF Terminal THEN Tail(kernel) ELSE <<>>
  /\ buffer' = IF Filled = <<>> THEN <<>> ELSE Tail(Filled)
  /\ exitServer' = (Filled # <<>> /\ HasExit(Head(Filled)))
  /\ pc' = IF exitServer' THEN "join" ELSE "select"
  /\ UNCHANGED <<process, readfds, threads, handler, up, backlog, emClient, eof, lines>>

(* Faulty variant: main does not wait.                                     *)
Joined_AtOnce == TRUE
Joined == \A c \in Conn : handler[c] = "none"

Join ==
  /\ pc = "join"
  /\ Joined
  /\ threads' = IF threads = "empty" THEN threads ELSE "joined"
  /\ pc' = "close"
  /\ UNCHANGED <<process, readfds, exitServer, handler, up, backlog, emClient, stdin>>

CloseMaster ==
  /\ pc = "close"
  /\ Reset(ToSet(backlog))
  /\ backlog' = <<>>
  /\ pc' = "exitServer"
  /\ UNCHANGED <<process, readfds, exitServer, threads, handler, up, stdin>>

(* Server::exitServer.                                                     *)
ExitServer ==
  /\ pc = "exitServer"
  /\ up' = FALSE
  /\ pc' = "exit"
  /\ UNCHANGED <<process, readfds, exitServer, threads, handler, backlog, emClient, stdin>>

(* exit(0), which destroys `threads' too.                                  *)
Exit ==
  /\ pc = "exit"
  /\ process' = IF threads = "joinable" THEN "aborted" ELSE "exited"
  /\ handler' = [c \in Conn |-> "none"]
  /\ Reset(Conn)
  /\ UNCHANGED <<mainVars, threads, up, backlog, stdin>>

main ==
  \/ Start \/ Select \/ Accept \/ SpawnFails \/ serverSystemError \/ DestroyThreads
  \/ ReadStdin \/ Join \/ CloseMaster \/ ExitServer \/ Exit

-----------------------------------------------------------------------------
Next ==
  /\ process = "running"
  /\ \/ main
     \/ \E c \in Conn : Connect(c) \/ Write(c) \/ Kill(c) \/ handleClient(c)
     \/ Type \/ CloseStdin

Running(A) == process = "running" /\ A

(* The scheduler runs every thread; an emClient that has connected writes  *)
(* its request next, without waiting for anything.                         *)
Fairness ==
  /\ WF_vars(Running(main))
  /\ \A c \in Conn : WF_vars(Running(handleClient(c))) /\ WF_vars(Running(Write(c)))

Spec == Init /\ [][Next]_vars
FairSpec == Spec /\ Fairness

-----------------------------------------------------------------------------
(* Every variable holds a value of its type, and a handler at work has its *)
(* thread in the vector, for join to wait for or terminate to find.        *)
TypeOK ==
  /\ process \in {"running", "exited", "failed", "aborted"}
  /\ pc \in {"start", "select", "dispatch", "join", "close", "exitServer", "exit",
            "failing"}
  /\ readfds \subseteq {"master", "stdin"}
  /\ exitServer \in BOOLEAN
  /\ threads \in {"empty", "joinable", "joined"}
  /\ handler \in [Conn -> {"none", "read", "parseCommand", "write"}]
  /\ (\E c \in Conn : handler[c] # "none") => threads = "joinable"
  /\ up \in BOOLEAN
  /\ backlog \in Seq(Conn) /\ Len(backlog) <= MAX_PEND_CONNECT
  /\ emClient \in [Conn -> {"none", "connected", "sent", "gone", "sent, gone", "reset"}]
  /\ kernel \in Seq({"EXIT", "other"})
  /\ buffer \in Seq({"EXIT", "other"})
  /\ eof \in BOOLEAN
  /\ lines \in Nat

(* A shutdown takes the server and its log apart, or may begin to, only    *)
(* after main has joined every handler.  The one way to destroy the server *)
(* under a handler is exit(1) after a call that failed.                    *)
NoHandlerOutlivesServer ==
  ~up \/ pc \in {"close", "exitServer", "exit"} =>
    pc = "failing" \/ \A c \in Conn : handler[c] = "none"

(* accept and fgets are called only when they have something to take: main *)
(* never blocks in one of them while the other descriptor is ready.        *)
CallsDoNotBlock ==
  process = "running" /\ pc = "dispatch" =>
    /\ readfds # {}
    /\ MasterTurn => backlog # <<>>
    /\ StdinTurn => kernel # <<>> \/ eof

(* While the server runs, each open connection waits in the backlog once   *)
(* or has a thread, and never both.                                        *)
ConnectionsAreHeld ==
  process = "running" =>
    /\ IsInjective(backlog)
    /\ \A c \in Conn :
         /\ c \in ToSet(backlog) => handler[c] = "none"
         /\ emClient[c] \in {"connected", "sent", "gone", "sent, gone"} =>
              c \in ToSet(backlog) \/ handler[c] # "none"

(* Shutting down cuts off only connections that were not accepted yet: a   *)
(* request that has a thread is answered first.                            *)
AcceptedAreAnswered ==
  [][\A c \in Conn :
       /\ emClient[c] # "reset"
       /\ emClient'[c] = "reset"
       /\ process' \in {"running", "exited"}
       => c \in ToSet(backlog)]_vars

(* The shutdown ends, once it has begun, however many clients go on        *)
(* connecting.                                                             *)
ShutdownEnds == exitServer ~> process = "exited"

(* An emClient that has sent its request is not left waiting, however many *)
(* others keep the server busy and whatever comes from stdin.              *)
EveryClientIsServed ==
  \A c \in Conn : emClient[c] = "sent" ~> emClient[c] # "sent"

(* Server.cpp, exitServer: "EXIT command from client that terminates the   *)
(* server."  A line with EXIT that was typed ends the process.             *)
ExitLineEndsServer ==
  "EXIT" \in ToSet(kernel) \cup ToSet(buffer) ~> process # "running"
=============================================================================
