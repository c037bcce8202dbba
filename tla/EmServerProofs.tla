--------------------------- MODULE EmServerProofs ---------------------------
(***************************************************************************)
(* What holds of the loop of emServer for any number of connections, any   *)
(* backlog and any use of the standard input, wherever system calls fail.  *)
(***************************************************************************)
EXTENDS EmServer, SequenceTheorems, TLAPS

-----------------------------------------------------------------------------
(* The backlog as a queue without repetitions: what accept takes from it   *)
(* and what connect adds to it.                                            *)
LEMMA TakeFirst ==
  ASSUME NEW S, NEW s \in Seq(S), s # <<>>, IsInjective(s)
  PROVE  /\ Tail(s) \in Seq(S) /\ Len(Tail(s)) = Len(s) - 1
         /\ Head(s) \in S
         /\ IsInjective(Tail(s))
         /\ ToSet(Tail(s)) = ToSet(s) \ {Head(s)}
<1>1. /\ Head(s) = s[1] /\ Head(s) \in S
      /\ Tail(s) \in Seq(S) /\ Len(Tail(s)) = Len(s) - 1
      /\ \A i \in 1 .. Len(s) - 1 : Tail(s)[i] = s[i + 1]
      /\ Len(s) \in Nat \ {0}
  BY HeadTailProperties, EmptySeq
<1>2. \A i, j \in 1 .. Len(s) : s[i] = s[j] => i = j
  BY DEF IsInjective
<1>3. DOMAIN Tail(s) = 1 .. Len(s) - 1 /\ DOMAIN s = 1 .. Len(s)
  BY <1>1
<1>4. IsInjective(Tail(s))
  BY <1>1, <1>2, <1>3 DEF IsInjective
<1>5. ToSet(Tail(s)) \subseteq ToSet(s) \ {Head(s)}
  BY <1>1, <1>2, <1>3 DEF ToSet
<1>6. ASSUME NEW x \in ToSet(s), x # Head(s)
      PROVE  x \in ToSet(Tail(s))
  <2>1. PICK i \in 1 .. Len(s) : s[i] = x
    BY <1>6, <1>3 DEF ToSet
  <2>2. i - 1 \in 1 .. Len(s) - 1 /\ Tail(s)[i - 1] = x
    BY <2>1, <1>1, <1>6
  <2> QED
    BY <2>2, <1>3 DEF ToSet
<1> QED
  BY <1>1, <1>4, <1>5, <1>6

LEMMA AddLast ==
  ASSUME NEW S, NEW s \in Seq(S), NEW e \in S, e \notin ToSet(s), IsInjective(s)
  PROVE  /\ Append(s, e) \in Seq(S) /\ Len(Append(s, e)) = Len(s) + 1
         /\ IsInjective(Append(s, e))
         /\ ToSet(Append(s, e)) = ToSet(s) \cup {e}
<1> DEFINE a == Append(s, e)
<1>1. /\ a \in Seq(S) /\ Len(a) = Len(s) + 1 /\ Len(s) \in Nat
      /\ \A i \in 1 .. Len(s) : a[i] = s[i]
      /\ a[Len(s) + 1] = e
      /\ DOMAIN a = 1 .. Len(s) + 1 /\ DOMAIN s = 1 .. Len(s)
  BY AppendProperties
<1>2. \A i \in 1 .. Len(s) : s[i] # e
  BY <1>1 DEF ToSet
<1>3. \A i, j \in 1 .. Len(s) : s[i] = s[j] => i = j
  BY <1>1 DEF IsInjective
<1> HIDE DEF a
<1>4. IsInjective(a)
  BY <1>1, <1>2, <1>3 DEF IsInjective
<1>5. ToSet(a) = ToSet(s) \cup {e}
  <2>1. ToSet(a) \subseteq ToSet(s) \cup {e}
    BY <1>1 DEF ToSet
  <2>2. \A x \in ToSet(s) : x \in ToSet(a)
    BY <1>1 DEF ToSet
  <2>3. e \in ToSet(a)
    BY <1>1 DEF ToSet
  <2> QED
    BY <2>1, <2>2, <2>3
<1> QED
  BY <1>1, <1>4, <1>5 DEF a

LEMMA ConstantTypes ==
  MAX_PEND_CONNECT \in Nat \ {0} /\ MaxLines \in Nat
BY EmServerAssumption DEF EmServerAssumption

LEMMA EmptyBacklog ==
  ASSUME NEW S
  PROVE  <<>> \in Seq(S) /\ Len(<<>>) = 0 /\ IsInjective(<<>>) /\ ToSet(<<>>) = {}
BY DEF IsInjective, ToSet

-----------------------------------------------------------------------------
(* The structures go only at the end: after main has joined the threads,   *)
(* which are joined still when exit(0) looks at the vector, or when the    *)
(* process has failed.  Either way no handler is started after.            *)
DownMeansExit ==
  /\ ~up => pc \in {"exit", "failing"} \/ process # "running"
  /\ pc \in {"close", "exitServer", "exit"} => threads # "joinable"

(* Nobody connects before listen.                                          *)
StartIsAlone == pc = "start" => \A c \in Conn : handler[c] = "none"

(* CallsDoNotBlock is what lets accept take from the backlog: select and   *)
(* accept are two steps, between which only emClients and users act, who   *)
(* never make less of what is ready.                                       *)
LoopInv ==
  /\ TypeOK
  /\ StartIsAlone
  /\ DownMeansExit
  /\ NoHandlerOutlivesServer
  /\ CallsDoNotBlock
  /\ ConnectionsAreHeld

OpenConn == {"connected", "sent", "gone", "sent, gone"}

LEMMA InitLoopInv == Init => LoopInv
<1> SUFFICES ASSUME Init PROVE LoopInv
  OBVIOUS
<1> USE ConstantTypes, EmptyBacklog DEF Init
<1>1. TypeOK
  <2>1. backlog \in Seq(Conn) /\ Len(backlog) <= MAX_PEND_CONNECT
    OBVIOUS
  <2>2. kernel \in Seq({"EXIT", "other"}) /\ buffer \in Seq({"EXIT", "other"})
    OBVIOUS
  <2>3. lines \in Nat /\ threads = "empty" /\ ~ \E c \in Conn : handler[c] # "none"
    OBVIOUS
  <2> QED
    BY <2>1, <2>2, <2>3 DEF TypeOK
<1>2. DownMeansExit /\ StartIsAlone /\ NoHandlerOutlivesServer /\ CallsDoNotBlock
  BY DEF DownMeansExit, StartIsAlone, NoHandlerOutlivesServer, CallsDoNotBlock
<1>3. ConnectionsAreHeld
  BY DEF ConnectionsAreHeld
<1> QED
  BY <1>1, <1>2, <1>3 DEF LoopInv

(* The steps of emClients and users. *)
LEMMA ConnectInv ==
  ASSUME LoopInv, NEW c \in Conn, process = "running", Connect(c)
  PROVE  LoopInv'
<1> USE ConstantTypes
<1>1. /\ backlog \in Seq(Conn) /\ IsInjective(backlog) /\ c \notin ToSet(backlog)
      /\ backlog' = Append(backlog, c)
  BY DEF LoopInv, TypeOK, ConnectionsAreHeld, Connect
<1>2. /\ backlog' \in Seq(Conn) /\ Len(backlog') = Len(backlog) + 1
      /\ IsInjective(backlog') /\ ToSet(backlog') = ToSet(backlog) \cup {c}
  BY <1>1, AddLast
<1>3. backlog' # <<>> /\ Len(backlog) \in Nat
  BY <1>1, <1>2, EmptyBacklog, LenProperties
<1>4. TypeOK'
  <2>2. Len(backlog') <= MAX_PEND_CONNECT
    <3>1. Len(backlog) < MAX_PEND_CONNECT
      BY DEF Connect
    <3> QED
      BY <1>2, <1>3, <3>1
  <2>3. emClient' \in [Conn -> {"none", "connected", "sent", "gone", "sent, gone", "reset"}]
    BY DEF LoopInv, TypeOK, Connect
  <2> QED
    BY <1>2, <2>2, <2>3 DEF LoopInv, TypeOK, Connect, mainVars, stdin
<1>5. (DownMeansExit /\ StartIsAlone /\ NoHandlerOutlivesServer)'
  BY DEF LoopInv, DownMeansExit, StartIsAlone, NoHandlerOutlivesServer, Connect, mainVars
<1>6. CallsDoNotBlock'
  BY <1>3 DEF LoopInv, CallsDoNotBlock, MasterTurn, StdinTurn, Connect, mainVars, stdin
<1>7. ConnectionsAreHeld'
  BY <1>2 DEF LoopInv, TypeOK, ConnectionsAreHeld, Connect
<1> QED
  BY <1>4, <1>5, <1>6, <1>7 DEF LoopInv

LEMMA EmClientInv ==
  ASSUME LoopInv, NEW c \in Conn, process = "running", Write(c) \/ Kill(c)
  PROVE  LoopInv'
<1>1. UNCHANGED <<process, mainVars, threads, handler, up, backlog, stdin>>
  BY DEF Write, Kill
<1>2. /\ emClient[c] \in OpenConn
      /\ \E to \in OpenConn : emClient' = [emClient EXCEPT ![c] = to]
  BY DEF Write, Kill, OpenConn
<1>3. TypeOK'
  BY <1>1, <1>2 DEF LoopInv, TypeOK, mainVars, stdin, OpenConn
<1>4. (DownMeansExit /\ StartIsAlone /\ NoHandlerOutlivesServer /\ CallsDoNotBlock)'
  BY <1>1 DEF LoopInv, DownMeansExit, StartIsAlone, NoHandlerOutlivesServer, CallsDoNotBlock,
              MasterTurn, StdinTurn, mainVars, stdin
<1>5. ConnectionsAreHeld'
  BY <1>1, <1>2 DEF LoopInv, TypeOK, ConnectionsAreHeld, OpenConn
<1> QED
  BY <1>3, <1>4, <1>5 DEF LoopInv

LEMMA UserInv ==
  ASSUME LoopInv, process = "running", Type \/ CloseStdin
  PROVE  LoopInv'
<1>1. UNCHANGED <<process, mainVars, threads, handler, up, backlog, emClient, buffer>>
  BY DEF Type, CloseStdin
<1>2. CASE Type
  <2>1. PICK line \in {"EXIT", "other"} : kernel' = Append(kernel, line)
    BY <1>2 DEF Type
  <2>2. kernel \in Seq({"EXIT", "other"}) /\ lines \in Nat
    BY DEF LoopInv, TypeOK
  <2>3. kernel' \in Seq({"EXIT", "other"}) /\ kernel' # <<>>
    BY <2>1, <2>2, AppendProperties, EmptySeq
  <2>4. lines' \in Nat /\ UNCHANGED eof
    BY <1>2, <2>2 DEF Type
  <2>5. TypeOK'
    BY <1>1, <2>3, <2>4 DEF LoopInv, TypeOK, mainVars
  <2>6. (DownMeansExit /\ StartIsAlone /\ NoHandlerOutlivesServer /\ CallsDoNotBlock /\ ConnectionsAreHeld)'
    BY <1>1, <2>3, <2>4 DEF LoopInv, DownMeansExit, StartIsAlone, NoHandlerOutlivesServer, CallsDoNotBlock,
                            MasterTurn, StdinTurn, mainVars, ConnectionsAreHeld
  <2> QED
    BY <2>5, <2>6 DEF LoopInv
<1>3. CASE CloseStdin
  <2>1. eof' = TRUE /\ UNCHANGED <<kernel, lines>>
    BY <1>3 DEF CloseStdin
  <2>2. TypeOK'
    BY <1>1, <2>1 DEF LoopInv, TypeOK, mainVars
  <2>3. (DownMeansExit /\ StartIsAlone /\ NoHandlerOutlivesServer /\ CallsDoNotBlock /\ ConnectionsAreHeld)'
    BY <1>1, <2>1 DEF LoopInv, DownMeansExit, StartIsAlone, NoHandlerOutlivesServer, CallsDoNotBlock,
                      MasterTurn, StdinTurn, mainVars, ConnectionsAreHeld
  <2> QED
    BY <2>2, <2>3 DEF LoopInv
<1> QED
  BY <1>2, <1>3

-----------------------------------------------------------------------------
(* A handler that has a connection keeps it until it has answered. *)
LEMMA HandlerInv ==
  ASSUME LoopInv, NEW c \in Conn, process = "running",
         ReadRequest(c) \/ ParseCommand(c) \/ WriteResponse(c)
  PROVE  LoopInv'
<1>1. /\ UNCHANGED <<process, mainVars, threads, up, backlog, stdin>>
      /\ handler[c] # "none"
  BY DEF ReadRequest, ParseCommand, WriteResponse
<1>2. \/ /\ handler' \in {[handler EXCEPT ![c] = at] : at \in {"parseCommand", "write"}}
         /\ UNCHANGED emClient
      \/ /\ handler' = [handler EXCEPT ![c] = "none"]
         /\ emClient' = [emClient EXCEPT ![c] = "none"]
  BY DEF ReadRequest, ParseCommand, WriteResponse, AfterRead
<1>3. TypeOK'
  BY <1>1, <1>2 DEF LoopInv, TypeOK, mainVars, stdin
<1>4. (DownMeansExit /\ StartIsAlone /\ NoHandlerOutlivesServer /\ CallsDoNotBlock)'
  BY <1>1 DEF LoopInv, DownMeansExit, StartIsAlone, NoHandlerOutlivesServer, CallsDoNotBlock,
              MasterTurn, StdinTurn, mainVars, stdin
<1>5. ConnectionsAreHeld'
  BY <1>1, <1>2 DEF LoopInv, TypeOK, ConnectionsAreHeld
<1> QED
  BY <1>3, <1>4, <1>5 DEF LoopInv

-----------------------------------------------------------------------------
(* What the ends of connections that are closed without an answer become.  *)
LEMMA ResetType ==
  ASSUME TypeOK, NEW S, Reset(S)
  PROVE  /\ emClient' \in [Conn -> {"none", "connected", "sent", "gone", "sent, gone", "reset"}]
         /\ \A c \in Conn : emClient'[c] \in OpenConn => c \notin S /\ emClient'[c] = emClient[c]
         /\ \A c \in Conn : emClient'[c] = "reset" =>
              emClient[c] = "reset" \/ (c \in S /\ emClient[c] \in OpenConn)
BY DEF TypeOK, Reset, OpenConn

(* Once the process has ended nothing is claimed but types, and that the   *)
(* server went down in one of the ways there are.                          *)
LEMMA DyingInv ==
  ASSUME LoopInv, process' \in {"exited", "failed", "aborted"}, Reset(Conn),
         backlog' \in {backlog, <<>>},
         handler' = [c \in Conn |-> "none"],
         UNCHANGED <<mainVars, threads, up, stdin>>
  PROVE  LoopInv'
<1>1. backlog' \in Seq(Conn) /\ Len(backlog') <= MAX_PEND_CONNECT
  <2>1. CASE backlog' = backlog
    BY <2>1 DEF LoopInv, TypeOK
  <2>2. CASE backlog' = <<>>
    <3>1. backlog' \in Seq(Conn) /\ Len(backlog') = 0
      BY <2>2, EmptyBacklog
    <3> QED
      BY <3>1, ConstantTypes
  <2> QED
    BY <2>1, <2>2
<1>2. TypeOK'
  BY <1>1, ResetType DEF LoopInv, TypeOK, mainVars, stdin
<1>3. (DownMeansExit /\ StartIsAlone /\ NoHandlerOutlivesServer)'
  BY DEF LoopInv, DownMeansExit, StartIsAlone, NoHandlerOutlivesServer, mainVars
<1>4. (CallsDoNotBlock /\ ConnectionsAreHeld)'
  BY DEF CallsDoNotBlock, ConnectionsAreHeld
<1> QED
  BY <1>2, <1>3, <1>4 DEF LoopInv

(* exit(1) takes the server from under the handlers: they are left as they *)
(* are until `threads' is destroyed.  Before listen there is no handler    *)
(* and the process ends at once.                                           *)
LEMMA ExitOneInv ==
  ASSUME LoopInv, process = "running", CallFails, up' = FALSE,
         IF pc = "start" THEN process' = "failed" /\ UNCHANGED pc
         ELSE pc' = "failing" /\ UNCHANGED process,
         UNCHANGED <<readfds, exitServer, threads, handler, backlog, emClient, stdin>>
  PROVE  LoopInv'
<1>1. pc \in {"start", "select", "dispatch"}
  BY DEF CallFails
<1>2. pc = "start" => \A c \in Conn : handler[c] = "none"
  BY DEF LoopInv, StartIsAlone
<1>3. TypeOK'
  BY <1>1 DEF LoopInv, TypeOK, stdin
<1>4. (DownMeansExit /\ StartIsAlone /\ NoHandlerOutlivesServer)'
  BY <1>1, <1>2 DEF LoopInv, DownMeansExit, StartIsAlone, NoHandlerOutlivesServer
<1>5. CallsDoNotBlock'
  BY <1>1 DEF LoopInv, CallsDoNotBlock, MasterTurn, StdinTurn, stdin
<1>6. ConnectionsAreHeld'
  BY DEF LoopInv, ConnectionsAreHeld
<1> QED
  BY <1>3, <1>4, <1>5, <1>6 DEF LoopInv

LEMMA AcceptInv ==
  ASSUME LoopInv, process = "running", Accept
  PROVE  LoopInv'
<1> DEFINE first == Head(backlog)
<1>1. backlog \in Seq(Conn) /\ backlog # <<>> /\ IsInjective(backlog)
  BY DEF LoopInv, TypeOK, CallsDoNotBlock, ConnectionsAreHeld, Accept
<1>2. /\ backlog' \in Seq(Conn) /\ Len(backlog') = Len(backlog) - 1
      /\ first \in Conn
      /\ IsInjective(backlog') /\ ToSet(backlog') = ToSet(backlog) \ {first}
  BY <1>1, TakeFirst DEF Accept
<1>3. handler' = [handler EXCEPT ![first] = "read"] /\ pc' = "select"
  BY DEF Accept
<1> HIDE DEF first
<1>4. threads' = "joinable"
  BY DEF Accept, Spawned
<1>5. Len(backlog') <= MAX_PEND_CONNECT
  <2>1. Len(backlog) \in Nat /\ Len(backlog) <= MAX_PEND_CONNECT
    BY <1>1, LenProperties DEF LoopInv, TypeOK
  <2> QED
    BY <1>2, <2>1, ConstantTypes
<1>6. TypeOK'
  BY <1>2, <1>3, <1>4, <1>5 DEF LoopInv, TypeOK, Accept, stdin
<1>7. (DownMeansExit /\ StartIsAlone /\ NoHandlerOutlivesServer /\ CallsDoNotBlock)'
  BY <1>3 DEF LoopInv, DownMeansExit, StartIsAlone, NoHandlerOutlivesServer, CallsDoNotBlock, Accept
<1>8. ConnectionsAreHeld'
  BY <1>2, <1>3 DEF LoopInv, TypeOK, ConnectionsAreHeld, Accept
<1> QED
  BY <1>6, <1>7, <1>8 DEF LoopInv

LEMMA ReadStdinInv ==
  ASSUME LoopInv, process = "running", ReadStdin
  PROVE  LoopInv'
<1> DEFINE Line == {"EXIT", "other"}
<1>1. kernel \in Seq(Line) /\ buffer \in Seq(Line) /\ exitServer \in BOOLEAN
  BY DEF LoopInv, TypeOK
<1>2. kernel' \in Seq(Line)
  BY <1>1 DEF ReadStdin
<1>3. Filled \in Seq(Line)
  <2>1. kernel # <<>> => Head(kernel) \in Line
    BY <1>1, HeadTailProperties
  <2>2. kernel # <<>> => <<Head(kernel)>> \in Seq(Line)
    BY <2>1
  <2> QED
    BY <1>1, <2>2 DEF Filled
<1>4. buffer' \in Seq(Line)
  BY <1>3, EmptyBacklog DEF ReadStdin
<1>5. /\ exitServer' \in BOOLEAN /\ pc' \in {"join", "select"}
      /\ UNCHANGED <<process, readfds, threads, handler, up, backlog, emClient,
                     eof, lines>>
      /\ pc = "dispatch"
  BY DEF ReadStdin
<1>6. TypeOK'
  BY <1>2, <1>4, <1>5 DEF LoopInv, TypeOK
<1>7. (DownMeansExit /\ StartIsAlone /\ NoHandlerOutlivesServer /\ CallsDoNotBlock /\ ConnectionsAreHeld)'
  BY <1>5 DEF LoopInv, DownMeansExit, StartIsAlone, NoHandlerOutlivesServer, CallsDoNotBlock,
              ConnectionsAreHeld
<1> QED
  BY <1>6, <1>7 DEF LoopInv

LEMMA CloseMasterInv ==
  ASSUME LoopInv, process = "running", CloseMaster
  PROVE  LoopInv'
<1>1. backlog' = <<>> /\ Reset(ToSet(backlog)) /\ pc = "close" /\ pc' = "exitServer"
  BY DEF CloseMaster
<1>2. UNCHANGED <<process, readfds, exitServer, threads, handler, up, stdin>>
  BY DEF CloseMaster
<1>3. \A c \in Conn : handler[c] = "none"
  BY <1>1 DEF LoopInv, NoHandlerOutlivesServer
<1>4. TypeOK'
  <2>1. backlog' \in Seq(Conn) /\ Len(backlog') = 0
    BY <1>1, EmptyBacklog
  <2>2. Len(backlog') <= MAX_PEND_CONNECT
    BY <2>1, ConstantTypes
  <2>3. emClient' \in [Conn -> {"none", "connected", "sent", "gone", "sent, gone", "reset"}]
    BY <1>1, ResetType DEF LoopInv
  <2> QED
    BY <1>1, <1>2, <2>1, <2>2, <2>3 DEF LoopInv, TypeOK, stdin
<1>5. (DownMeansExit /\ StartIsAlone /\ NoHandlerOutlivesServer /\ CallsDoNotBlock)'
  BY <1>1, <1>2, <1>3 DEF LoopInv, DownMeansExit, StartIsAlone, NoHandlerOutlivesServer, CallsDoNotBlock
<1>6. \A c \in Conn : emClient'[c] \notin OpenConn
  BY <1>1, <1>3, ResetType DEF LoopInv, ConnectionsAreHeld, OpenConn
<1>7. ConnectionsAreHeld'
  BY <1>1, <1>6, EmptyBacklog DEF ConnectionsAreHeld, OpenConn
<1> QED
  BY <1>4, <1>5, <1>7 DEF LoopInv

LEMMA MainInv ==
  ASSUME LoopInv, process = "running", main
  PROVE  LoopInv'
<1>1. CASE Start \/ Select \/ Join \/ ExitServer
  <2>1. UNCHANGED <<process, exitServer, handler, backlog, emClient, stdin>>
    BY <1>1 DEF Start, Select, Join, ExitServer
  <2>2. TypeOK'
    BY <1>1, <2>1 DEF LoopInv, TypeOK, stdin, Start, Select, Join, Joined, ExitServer, Found, Ready
  <2>3. (DownMeansExit /\ StartIsAlone /\ NoHandlerOutlivesServer)'
    BY <1>1, <2>1 DEF LoopInv, DownMeansExit, StartIsAlone, NoHandlerOutlivesServer,
                      Start, Select, Join, Joined, ExitServer
  <2>4. CallsDoNotBlock'
    BY <1>1, <2>1 DEF LoopInv, CallsDoNotBlock, MasterTurn, StdinTurn, stdin,
                      Start, Select, Found, Ready, Join, ExitServer
  <2>5. ConnectionsAreHeld'
    BY <2>1 DEF LoopInv, ConnectionsAreHeld
  <2> QED
    BY <2>2, <2>3, <2>4, <2>5 DEF LoopInv
<1>2. CASE SpawnFails \/ DestroyThreads \/ Exit
  BY <1>2, DyingInv DEF SpawnFails, DestroyThreads, Exit, Abort
<1>3. CASE serverSystemError
  BY <1>3, DyingInv, ExitOneInv DEF serverSystemError, Abort
<1> QED
  BY <1>1, <1>2, <1>3, AcceptInv, ReadStdinInv, CloseMasterInv DEF main

LEMMA NextLoopInv == LoopInv /\ [Next]_vars => LoopInv'
<1> SUFFICES ASSUME LoopInv, [Next]_vars PROVE LoopInv'
  OBVIOUS
<1>1. CASE Next
  <2>1. ASSUME NEW c \in Conn, process = "running", handleClient(c)
        PROVE  LoopInv'
    BY <2>1, HandlerInv, DyingInv DEF handleClient, ParseCommandCrashes, Abort
  <2> QED
    BY <1>1, <2>1, MainInv, ConnectInv, EmClientInv, UserInv DEF Next
<1>2. CASE UNCHANGED vars
  BY <1>2 DEF vars, mainVars, stdin, LoopInv, TypeOK, DownMeansExit, StartIsAlone, NoHandlerOutlivesServer,
              CallsDoNotBlock, MasterTurn, StdinTurn, ConnectionsAreHeld
<1> QED
  BY <1>1, <1>2

LEMMA LoopInvariant == Spec => []LoopInv
BY InitLoopInv, NextLoopInv, PTL DEF Spec

-----------------------------------------------------------------------------
(* Types; and while a handler is at work its thread is in the vector and   *)
(* not joined, so that main waits for it or the end of the process is one  *)
(* by terminate.                                                           *)
THEOREM TypeCorrect == Spec => []TypeOK
<1>1. LoopInv => TypeOK
  BY DEF LoopInv
<1> QED
  BY <1>1, LoopInvariant, PTL

(* No handler runs once a shutdown takes the server and its log apart, and *)
(* where system calls fail it is exit(1) alone that destroys the server    *)
(* under a handler.                                                        *)
THEOREM HandlersAreJoined == Spec => []NoHandlerOutlivesServer
<1>1. LoopInv => NoHandlerOutlivesServer
  BY DEF LoopInv
<1> QED
  BY <1>1, LoopInvariant, PTL

(* main calls accept and fgets only when they have something to take. *)
THEOREM CallsHaveData == Spec => []CallsDoNotBlock
<1>1. LoopInv => CallsDoNotBlock
  BY DEF LoopInv
<1> QED
  BY <1>1, LoopInvariant, PTL

(* No connection is forgotten, or handled twice, while the server runs. *)
THEOREM ConnectionsStayHeld == Spec => []ConnectionsAreHeld
<1>1. LoopInv => ConnectionsAreHeld
  BY DEF LoopInv
<1> QED
  BY <1>1, LoopInvariant, PTL

(* A shutdown cuts off only connections that were never accepted: at its   *)
(* end every open connection is in the backlog, since all are held and no  *)
(* handler is left.                                                        *)
THEOREM ShutdownAnswers == Spec => AcceptedAreAnswered
<1> DEFINE Cut(c) == /\ emClient[c] # "reset"
                     /\ emClient'[c] = "reset"
                     /\ process' \in {"running", "exited"}
<1>1. ASSUME LoopInv, [Next]_vars, NEW c \in Conn, Cut(c)
      PROVE  c \in ToSet(backlog)
  <2>1. Next /\ process = "running"
    BY <1>1 DEF Next, vars
  <2>2. CASE \E d \in Conn : Connect(d) \/ Write(d) \/ Kill(d) \/ handleClient(d)
    BY <1>1, <2>2 DEF LoopInv, TypeOK, Connect, Write, Kill, handleClient,
                      ReadRequest, ParseCommand, ParseCommandCrashes, Abort, WriteResponse
  <2>3. CASE CloseMaster
    BY <1>1, <2>3, ResetType DEF LoopInv, CloseMaster
  <2>4. CASE Exit
    <3>1. handler[c] = "none"
      BY <1>1, <2>4 DEF LoopInv, NoHandlerOutlivesServer, Exit
    <3>2. emClient[c] \in OpenConn
      BY <1>1, <2>4, ResetType DEF LoopInv, Exit
    <3> QED
      BY <2>1, <3>1, <3>2, <1>1 DEF LoopInv, ConnectionsAreHeld, OpenConn
  <2>5. CASE SpawnFails \/ serverSystemError \/ DestroyThreads
    BY <1>1, <2>5 DEF SpawnFails, serverSystemError, DestroyThreads, Abort
  <2>6. CASE UNCHANGED emClient
    BY <1>1, <2>6
  <2> QED
    BY <2>1, <2>2, <2>3, <2>4, <2>5, <2>6
       DEF Next, main, Start, Select, Accept, ReadStdin, Join, ExitServer, Type, CloseStdin
<1>2. LoopInv /\ [Next]_vars => [\A c \in Conn : Cut(c) => c \in ToSet(backlog)]_vars
  BY <1>1
<1> QED
  BY <1>2, LoopInvariant, PTL DEF Spec, AcceptedAreAnswered
=============================================================================
