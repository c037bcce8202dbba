# A verification of the events management system

The repository holds a small events service: one server process, `emServer`,
and any number of client processes, `emClient`. A client registers under a
name; registered clients create events, accept them (RSVP), ask who accepted an
event and which events are newest, and leave. This directory holds TLA+ models
of both, the runs that model-check them with TLC, and proofs about every
component that TLAPS checks.

Paths below are relative to `src/`. Line numbers are those of the commit the
models were written from; `PROJECT.json` maps each definition to its lines.

## 1. Inventory

| Component | State | Operations | Interacts with |
|---|---|---|---|
| **Event** (`Event.cpp/.h`) | creator, id, title, date, description; the accepted names twice: `_guestsNames` (a set) and `RSVP_List` (a list) | constructor, `registerClient`, `isNewGuest`, `removeGuest`, `getGuestList`, `toString` | called by Server, from any handler thread |
| **Server** (`Server.cpp/.h`), a singleton | `_clientsSet`, `_eventsMap` (id → `Event*`), `_eventList` (every `Event*`, oldest first), `_nextEventId`, `_logger` | `handleClient` (read, `parseCommand`, write, close), `registerClient`, `unregisterClient`, `createEvent`, `sendRSVP`, `getRSVP_List`, `getTop5Events`, `exitServer` | called by one thread per connection; logs through Logger |
| **emServer** (`emServer.cpp`) | `exitServer` flag, `threads`, the master socket, stdin | loop over `select`: accept and start a thread, or read a line of stdin; at EXIT join, close, `Server::exitServer`, exit | kernel queues (backlog, stdin), stdio's buffer |
| **Client** (`Client.cpp/.h`), one per process | `_registered`, `eventIdSent`, `eventIdRequest`, `_commandType`, `_logger` | `validateCommand` (accept or refuse a typed line), `log_response` (understand the answer) | CommandParser, Logger, the server's texts |
| **emClient** (`emClient.cpp`) | its socket | loop: read a line, validate it, connect, write, read, close, log | Client, the server |
| **CommandParser** (`.cpp/.h`) | none | `tokenize`, `joinTokens`, `isStrNumber`, upper-casing; the texts of the protocol | used on both sides on the same line |
| **Logger** (`.cpp/.h`) | `_logPath`; `_logFile`, an `fstream` with its state and its exception mask; no lock | `logCommand`, `flushLogFile`, `closeLog` | used by all threads of a process |
| build and data (`Makefile`, `README`, `files`, binaries) | – | – | – |

**Which behaviours are hard.**

* *Concurrency.* Handlers run on threads and no structure of Server or Event has
  a lock. Every check-then-act pair (is the name free / insert it, is the id free
  / use it, is the guest new / add it) can be interleaved, and the standard
  containers themselves are raced on, which is undefined behaviour.
* *Two copies of one fact.* An event is in the list and in the map; a guest is in
  a set and in a list; a registration is in `_clientsSet` and in the client's
  `_registered`. Each pair is updated in two steps.
* *Partial failure.* `createEvent` catches `bad_alloc` around four updates and
  undoes one of them, the counter, which it decrements whether or not it was
  incremented.
* *Shutdown.* EXIT must be noticed although connections have precedence, wait for
  all handlers, and only then destroy what they use.
* *Text as protocol.* Client and server each tokenize the same line, and the
  client tells answers apart by substrings.
* *Crashes and restarts.* Nothing is persisted. A server that is started again
  knows nobody, an emClient that is killed gives nothing back, and its request may
  be handled after its end.
* *Delivery.* Each side reads once and takes what it gets for the whole message.
* *The log.* One failed flush turns the next line into an exception.

**What makes each part correct.** Event: the set and the list agree. Server: only
registered clients are guests; an id names one event for as long as the server
runs; list and map hold the same events in the order of their ids; answers are
true. Server under threads: the same, but for the steps in the middle; a client
that was told SUCCESS is known to the server; one name, one client; an
acknowledged acceptance stays. emServer: no handler outlives the server's
structures; no connection is forgotten; no blocking call without data; EXIT ends
the process and every request is answered. Client: what it sends is
what it has checked; it takes an answer for what the server did; it names the event
it is about. System: who was told SUCCESS by the server that runs is known to it, a
name is taken only while somebody holds it, an acceptance that a client logs because it was
told is on the event's list, every request ends. Logger: no line is missing but the last. The
`hazards` of `PROJECT.json` say at which line each of these can go wrong.

## 2. Modules

| Module | Models |
|---|---|
| `Event` | an Event object as a record, each method as an operator returning the object it leaves |
| `EventService` | abstract specification: members, meetings, ids that only grow, one answer per request |
| `Server` | the server, one request at a time; EXTENDS `Event`, INSTANCEs `EventService` as `Service` with a refinement mapping |
| `ServerThreads` | the server with interleaved handlers, together with the emClients' `_registered`; EXTENDS `Event` |
| `EmServer` | the emServer process: `main`'s loop, threads, backlog, stdin, shutdown |
| `CommandParser` | the functions both sides apply to a line, on sequences of lexemes |
| `Client` | a Client object as a record: `validateCommand`, `log_response`; EXTENDS `CommandParser` |
| `Logger` | a Logger object as a record: `logCommand`, `closeLog` |
| `EmClient` | one emClient process in an environment that answers anything and fails anywhere; EXTENDS `Client`, `Logger` |
| `EventSystem` | emClients and the server composed, with kills, a restart and cut messages; EXTENDS `Client`, INSTANCEs `Server` (and `Event` through it) |
| `MCServer`, `MCServerThreads`, `MCEmServer`, `MCEmClient`, `MCEventSystem` | values of constants for TLC |

The proofs (section 5) are in modules of their own:

| Module | Proves |
|---|---|
| `EventProofs` | lemmas about `Event`'s operators, for all that follow |
| `ServerProofs` | the invariants of `Server`, that it implements `EventService`, who withdraws acceptances; EXTENDS `EventProofs` |
| `ServerThreadsProofs` | what holds of `ServerThreads` whatever races and allocations do; EXTENDS `EventProofs` |
| `ServerGuestsProofs` | what holds there of clients and guest lists; EXTENDS `ServerThreadsProofs` |
| `EmServerProofs` | the invariants of `EmServer` |
| `ParserProofs` | what `tokenize`, `joinTokens` and `stoi` make of any line; EXTENDS `Client` |
| `EmClientProofs` | what an emClient sends, remembers and logs; EXTENDS `ParserProofs` |
| `EventSystemProofs` | what the emClients and the server of `EventSystem` know of each other; EXTENDS `ParserProofs`, INSTANCEs `ServerProofs` |

Operators named `X_Something` under a comment "Faulty variant" are what a
plausible bug would make of `X`. No specification uses them; `PROJECT.json`
(`mutants`) says which property each of them breaks, once put in place of `X`.

### Event, Server

The variables of `Server` are the members of the class; `running` becomes false
at `exitServer`, `reply` is the last answer. The actions have the names of the
handlers. An `Event*` is a position in `_eventList`: objects are only appended
there, and never deleted before EXIT. `eventIdToAssign` is the choice of lines
305–308, `eventIdStr` the number put in the answer, made at line 298, *before*
that choice. `createEventFails` is the `catch` block after `bad_alloc` at one of
three places (`AllocFailures`): before the event is stored, on the insertion in
the map, or while the answer is made.

Abstractions: names are values with a function `ToUpper`, so that spellings of one
name are told apart; date and description are one field, which no code
inspects separately; the guest list of an answer is a set, since the code sorts it;
tokenizing has been done (requests arrive as command and arguments); logging is
left out. `GET_TOP_5` returns one `Line` per event, and a `Line` has what
`Event::toString` really returns (`Shown`): neither id nor title. What a line shows is a
parameter of `EventService` (`LineShows`): `Service` is the specification with what `toString`
returns, `DocumentedService` the one with what the comments promise, and run `server_top_lines`
shows that the server does not implement the latter. A number that is none is answered without
asking who the client is (`invalidArgument`), EXIT with nothing (`exitCommand`). Outside `createEvent`,
where nothing catches it, `bad_alloc` is not modelled.

### ServerThreads

A `Process` is an emClient with at most one request under way; `pc` holds the
next access its handler makes, `loc` the handler's locals. One step is one access
to a shared structure plus the thread-local work after it. `Request` is
the guard of `validateCommand` on `_registered`, `Answer` the response with the client's side of
it (`log_response`): `accepted` is the event of the last answer, if it was that an RSVP was received.
An emClient exits after UNREGISTER and after "already registered"; the next one
started under that name takes its place, which is why the process goes on with
`registered` false. Processes that share a name hand it over to each other in the same way: one registers it after,
or while, another leaves.

`RaceOutcomes` is what unsynchronised accesses may do. With `{}` each access is
atomic and iterators stay valid. `"lost"` lets one of two overlapping updates of
a structure vanish; `"crash"` lets the process die while one thread updates a
container another one uses. This is a choice among the outcomes of a data race,
not all of undefined behaviour: corruption the program survives in an
ill-formed state is out.

Nothing in the code keeps two emClients from holding one name, nor updates from being lost, so the
properties about names do not assume it. Two history variables keep what has happened: `shared`, the names
that two emClients have held at once (`HeldTwice`), one of them perhaps in the middle of its UNREGISTER, and `overlapped`, those whose handlers have changed a
structure while another handler was at the same change (`Overlaps`). `Disturbed` is both. The properties say that the
harm stays there: what they state holds of every other name, whatever the disturbed ones and their handlers do.
No action reads the history.

Steps that are one here and more in the code: `removeGuest`, which erases from set
and list (only handlers under the same name work on it, and for two of them at once it is a
disturbed one); the two reads of
`_nextEventId` in line 305.

### EmServer

`pc` is where `main` is (`start`, `select`, `dispatch`, `join`, `close`, `exitServer`,
`exit`, `failing`), `handler[c]` where the thread of connection `c` is, `emClient[c]` the
other end. A `Conn` is used again when both of its ends are closed, so that
finitely many of them stand for endlessly many connections. `kernel` and `buffer`
keep what `select` sees of stdin apart from what stdio has already read:
`fgets` returns one line, and with a pipe stdio takes all lines there are
(`Terminal = FALSE`). Of the vector `threads` the model keeps what its destructor asks: whether it is
empty, or has threads that are joinable, or only joined ones. No line of the code bounds it, and neither does the
model; `SpawnFails` is what happens when the system, or the memory, does. `Abort`
is `std::terminate`, or a crash: every thread stops where it is. With an end of file on stdin `fgets` returns nothing, `select`
reports it again at once, and the loop spins; the model does too.

`serverSystemError` may follow each system call of `main` where `CallErrors` is set. Its `exit(1)` destroys
static objects, the last constructed first: the `Server` of `getInstance`, which `main` has
made, goes before the global `threads`. Between the two (`pc = "failing"`) `main` does nothing else, but handlers run on: they read,
write, and work on containers that are gone (`up` is false), which may end the process (`ParseCommandCrashes`) or go unnoticed. Then
`DestroyThreads` calls terminate, if any thread was ever started.

Not in it: a `select` that a signal interrupts (EINTR, which `main` would take for an answer; no handler is
installed), and what requests do to the events.

### CommandParser, Client, Logger

A string is a sequence of lexemes: a command word in one of its spellings, a
space, the end of line, a digit, any other character. That is as much as
`tokenize`, `isStrNumber`, the upper-casing and the limits on lengths look at.
`UpperCase` maps the spellings of a command word to the word; any other text is
"ILLEGAL". Digits go from 0 to 2, and `IntMax` is where `stoi` throws. The loop of
`tokenize` is a function of how far the line has been read: `Scan(line)[n]` is
`tokens` and `temp` after `n` characters, and `ReadNext` is one turn.

`Client` keeps the switch of `validateCommand` as `Errors`, the sequence of the
errors it assigns to `errMsg`: the line is valid if there is none, and the last is
logged. Ids are remembered whether or not the line is valid, as in the code.
`validateDies` is when `validateCommand` throws or reads `tokens[0]` of no tokens.
An answer is the set of the three words `log_response` looks for in it (`Marker`),
and `Verdict` is which branch they lead to.

`Logger` counts lines. `logCommand` and `closeLog` are sets of outcomes, for the
file system may fail each of them. `bad` stands for the stream's badbit, which
nothing clears, together with the mask set by the first `flushLogFile`.

### EmClient

`phase` is where `main` is: before the loop, at `fgets`, with a valid line, after
`write`, ended. Answers are those the server has for the command (`ResponseTo`), or
nothing when its process ends. `logged` and `logger.asked` are history: no action
reads them but for the bound `MaxLogged`.

### EventSystem

One action of the server is one request handled whole (`Serve`): how handlers
interleave is `ServerThreads`' matter. The server's part is an instance of
`Server`, and `parseCommand` here starts from a line, with the server's own
tokenizing; `Server!parseCommand` starts from a command and arguments. `Process` has one
emClient at a time under each name, started, killed and started again; names differ also when
upper-cased (`SystemAssumption`; two clients with one name are
`threads_shared_name`'s matter). The faults:

* `Kill`: the process ends anywhere; what it had sent is in `leftBehind`, and is
  handled later, if the server lives so long.
* `ServePart`: the single `read` returns a part of the request. A part may be a line
  that is shorter by any lexemes, a piece of the command word (`<<"part">>`), or no line at all,
  which gets an empty answer (lines 124–135). A number that is cut makes the
  server act on another id.
* `CutResponse`: the single `read` of the emClient returns a part of the answer, as a
  set of markers. `ReadFails`: the connection was reset, and the process exits.
* `ServerStops`: EXIT or a crash; who waits finds an empty answer. `StartServer`
  begins a new `lifetime`, with nothing known.

`memberOf`, `accepted`, `misread`, `unheard` and `lifetime` are history variables. They
say what a client has heard and the properties compare it with what the server has:
`memberOf` the server whose SUCCESS it got, `accepted` the events it has logged an
acceptance of, whatever the answer was (received, already sent, also after a cut or an empty answer:
`LoggedAsAccepted`), `misread` those among them that no answer of the running server has said so of (a response
carries in `accepts` what the server meant), `unheard` the requests whose answer was lost with its process or its
message. No guard reads them, except `lifetime` for the bound on restarts.

`LineAssumption` says that the users' lines are what `fgets` can return (`IsLine`: nothing follows an
end of line), that none of them ends its emClient, and that a piece of a command word is no command. That
the server finds in a whole line the command and the event the client has checked, and in a part of it that command
or an illegal one, is proved (section 5). The `LineAssumption` of `EmClient` asks for no more than `IsLine`.

The parts that `EmClient` covers are left out here: the log, failing
system calls, and the ids of lines that were refused (`AtPrompt`).

## 3. Runs

Twelve runs. "Violation" runs show where the code departs from what its comments
and texts say; they are listed under `findings`.

| Run | Checks | Shows |
|---|---|---|
| `server_ok` | `TypeOK`, `ReportedIdIsAssigned`, `OnlyGuestsWithdraw`, `ImplementsEventService` | without failed allocations, the server implements the abstract service |
| `server_alloc` | `GuestsAreRegistered`, `GuestListsAgree`, `MapKeysAreEventIds`, `ListedEventsAreReachable`, `NewestHasLargestId`, `IdsNameOneEvent` | when `new` or `push_back` fails the counter lags by one, and the one check for a free id is enough |
| `server_reported_id` | violation of `ReportedIdIsAssigned` | after such a failure the next answer names the previous event's id |
| `server_top_lines` | violation of `TopLinesNameEvents` | the lines of GET_TOP_5 have neither id nor title |
| `threads` | `TypeOK`, `MapKeysAreEventIds`, `GuestsAreRegistered`, `RegisteredMeansMember`, `GuestListsAgree`, `ReachableEventsAreListed`, `TopIsComplete` | which relations between the structures survive any interleaving, with a shared name, lost updates and a failing allocation |
| `threads_shared_name` | violation of `NameGivenOnce` | two clients get one name |
| `threads_acceptance` | violation of `AcceptanceIsKept` | two CREATEs share an id; the second takes it from an event that was already accepted |
| `emserver` | `TypeOK`, `NoHandlerOutlivesServer`, `CallsDoNotBlock`, `ConnectionsAreHeld`, `AcceptedAreAnswered`, `ShutdownEnds`, `EveryClientIsServed` | the loop and the shutdown, with failing system calls, while clients connect for ever |
| `emserver_starved` | violation of `ExitLineEndsServer` | an EXIT that was typed is never read while connections keep coming |
| `emclient` | `TypeOK`, `TokensSplitTheLine`, `ServerReadsWhatWasChecked`, `LogMissesAtMostTheLast`, `LogNamesTheAcceptedEvent` | what one emClient sends and logs, for any lines, answers and failures |
| `system` | `TypeOK`, `RegisteredMeansKnown`, `NamesAreHeld`, `StaleClientsAreStrangers`, `LoggedAcceptanceIsKept`, `ChangesAreUnderstood`, `EveryRequestEnds` | what clients believe against what the server knows, through a kill or a cut message and a restart |
| `system_misread` | violation of `LogIsTrue` | an answer that never came is logged as an acceptance already sent |

**Bounds, and why they are enough.**

* `Server`: two users, one with two spellings (`ann`, `ANN`), so that every
  case-insensitive comparison is met from both sides; two events and
  `TopCount = 1`, so that the newest-events window moves (the code's 5 needs six
  events for the same two cases, `size > TopCount` and not); ids 1 to 3 are
  asked for, one of which no event has. `MaxEvents` bounds events, `LowestId = -1`
  how far repeated failures may push the counter down: below 1 there is nothing
  new to meet. The theorems of section 5 have no bound but these constants' types.
* `ServerThreads`: in `threads` three emClients, two of them (`ann`) under one name and one (`BOB`) under another, so
  that names are held twice, or handed over, next to a name that is not. The third creates, two events, and `new` may
  fail between them, so that the counter is back at an id in use and the test of line 305 finds it (`LowestId = 1`: not further;
  failures at the other places and before the first event are the theorems'). One id is asked for, 1. Updates are lost between the two of one name and
  between any and the third, or the server crashes. The two of one name are alike: they are a
  symmetry set. Overlapping CREATEs, which may lose an event from the list (the exception of `ReachableEventsAreListed`), need
  two creators: they are left to the theorem of section 5, which has any number.
  `MaxAccepted` bounds an `RSVP_List` (a lost insertion in the set lets a client
  accept again and again): 1 keeps RSVPs from being sent when a list has a name, but those under way at the
  same time all come through, so that lists get longer and RSVPs meet each other (2.3 million states). The runs that find violations have two emClients, for the races behind them
  are between two handlers.
* `EmServer`: two connections at a time, that connect again for ever; two lines on stdin, that may each
  be EXIT or not; a backlog of two. `emserver_starved` needs one line.
* `EmClient`: every command with up to two pieces of argument, `create` (so spelled) with up to
  four, each with and without an end of line: too few, enough, too many tokens, empty
  pieces, a space at the end, a text that is too long by one or only once joined, a number above
  `IntMax`. Limits of 1, 1 and 2 characters and `IntMax = 12` take the place of 30, 30, 256 and
  2^31 - 1. `MaxLogged = 5` lines: a command is one or two, so that after a failed flush
  there is room for the line that throws, and before it for a line of
  another command.
* `EventSystem`: two clients, one of which has an upper-case name of its own; one event;
  one fault and two servers. One fault is one kill or one cut message at any point,
  before or after the restart; the run was also made with two (8.1 million states, without
  liveness), without a violation. `system_misread` is the same system. BOB's name contains REGISTER and one description "ERROR: ".

**Fairness.** `EventSystem`: weak fairness of `Serve` (a handler thread of a running server is
scheduled; when the server stops, the request is answered by the end of its
connection) and of `LogResponse` (an emClient in `read` is woken when there is something
to read). Starting, typing, faults, stopping and starting the server are not fair.

`EmServer!FairSpec`, only while the process runs: `main` and each
handler are threads that the scheduler runs: weak fairness. `Write` is weakly
fair: an emClient calls `write` right after `connect` and waits for nothing in
between. Connecting, killing an emClient, typing and closing stdin are users'
decisions and not fair. The shutdown does depend on the first: an emClient that is stopped between
`connect` and `write` holds it up, and no line of the server limits the wait. There is no strong fairness: starvation of stdin in
`emserver_starved` is the consequence. `CHECK_DEADLOCK FALSE` is set
where the process ends (`exitServer`, a crash, exit) or nobody need start it again (`EventSystem`).

## 4. Where the code departs from what it says

Findings with a run: the id in the answer after a failed allocation
(`Server.cpp:298`), names given twice (`Server.cpp:241`), acceptances lost
(`Server.cpp:313`), EXIT starved (`emServer.cpp:150`), lines of GET_TOP_5 without id and title, which
`Event::toString` puts in a string it then drops (`Event.cpp:31`, against its comment on lines 24-25 and `Server.cpp:436`),
and answers that never came or were cut, logged as "already sent" after SEND_RSVP
(`Client.cpp:366`). The others were met while
modelling and have no run of their own; the models behave as the code does:

* requests refused with NOT_REGISTERED, illegal commands and creations that
  failed are not logged, against `README:23` and `Server.h:33` (all commands
  received);
* when the insertion in the map throws, the event is already in the list:
  GET_TOP_5 shows what was answered "cannot allocate new event", and nothing finds it;
* two CREATEs at the same time may be answered with the same id (`Server.cpp:295`);
* GET_TOP_5 computes its first event from the size and runs to the then
  current end: under concurrent CREATEs it shows more than the five of its comment
  (`Server.cpp:425`, `448`); `TopIsComplete` says that it never shows fewer;
* a lost insertion in `_clientsSet` leaves a client with `_registered` true that
  the server refuses, and that may not register again;
* with stdin a pipe, a line EXIT that stdio has read together with an earlier one is not
  seen by `select` (`emServer.cpp:152`);
* a line CREATE with a title, a date and a space at its end has a fourth token, the end of line,
  for the client, and only three for the server, which reads the fourth
  (`Client.cpp:110`, `Server.cpp:180`); `ServerReadsWhatWasChecked` says that this is the only way in which the
  server reads less than was checked, and `EventSystem!parseCommand` takes whatever may lie there;
* the limit on descriptions counts the end of the line (`Client.cpp:131`), and a space after
  REGISTER, UNREGISTER or GET_TOP_5 is refused as a missing argument (`Client.cpp:92`);
* an end of file on stdin, or an empty line without an end, gives no tokens, and
  `tokens[0]` is read (`Client.cpp:77`); a number above the largest int is an
  exception nobody catches (`Client.cpp:170`, `196`);
* the log of GET_RSVPS_LIST names `eventIdSent`, the event of the last SEND_RSVP, not the
  one that was asked about (`Client.cpp:378`);
* a refused REGISTER is made into a line that is never logged (`Client.cpp:281`), and
  after every valid command an empty line is logged (`Client.cpp:230`);
* an empty answer, as when the server has died, is logged as a created event without an id after CREATE,
  and not at all after UNREGISTER;
* a guest's name with REGISTER in it, or an event's text with "ERROR: ", makes the client log a list or
  the newest events as a refusal (`Client.cpp:386`, `413`); `ChangesAreUnderstood` says that this cannot happen
  with the other commands;
* after a restart of the server `_registered` stays true: every request is
  refused, and REGISTER by the client itself (`Client.cpp:97`). `StaleClientsAreStrangers`
  is stated for names that differ; with a namesake registered at the new
  server, a stale client's UNREGISTER takes that one's name away;
* after a killed client's UNREGISTER was left behind, its successor may register and be
  evicted by it; `RegisteredMeansKnown` has the exception `Leaving`;
* a line that cannot be logged throws out of `logCommand` (`Logger.cpp:37`, `58`), which ends an emClient, and in
  a handler thread the server;
* `"ERROR" + '\t'` points past the end of the text (`emClient.cpp:42`), and with two
  arguments `argv[3]` is null (`emClient.cpp:81`);
* threads are joined only at EXIT, so the server does not "run forever"
  (`emServer.cpp:8`): when no thread can be made, the process is aborted;
* `exit(1)` after a failed system call destroys the server while handlers are at work (`emServer.cpp:52`), and then
  aborts the process because their threads are joinable; `NoHandlerOutlivesServer` names this as the one exception;
* for one name, the RSVP of an emClient that has just taken it may slip behind the sweep that another's
  UNREGISTER still does (`Server.cpp:270`), and with two emClients under one name (`Server.cpp:241`) even one whose client
  stays registered: the guest lists then have somebody who is not registered. `GuestsAreRegistered` speaks of
  names that no two emClients have held at once.

## 5. Proofs

### The server

`ServerProofs` proves, for every value of the constants that satisfies
`NameAssumption` and `ServerAssumption` (any set of clients and spellings with an
idempotent `ToUpper`, any number of events, any `TopCount > 0`):

| Theorem | Property | Further assumption |
|---|---|---|
| `TypeCorrect` | `[]TypeOK` | none: allocations fail anywhere in `createEvent` |
| `GuestsStayRegistered` | `[]GuestsAreRegistered` | none |
| `GuestListsStayEqual` | `[]GuestListsAgree` | none |
| `MapFindsEventIds` | `[]MapKeysAreEventIds` | none |
| `ListedEventsStayReachable` | `[]ListedEventsAreReachable` | `AllocFailures \subseteq {"event"}` |
| `IdsGrow` | `[]NewestHasLargestId` | `AllocFailures \subseteq {"event"}` |
| `IdsKeepTheirEvent` | `IdsNameOneEvent` | `AllocFailures \subseteq {"event"}` |
| `ReportedIdsAreAssigned` | `[]ReportedIdIsAssigned` | `AllocFailures = {}` |

The argument:

1. *Event* (`EventProofs`). `RemoveFirstOfInjective`: taking the first occurrence of a name out of
   a list without repetitions leaves exactly the other names, each once. From it,
   what the constructor, `AddGuest` and `removeGuest` preserve.
2. *`StateInv`* = types, `GuestsAreRegistered`, `GuestListsAgree`,
   `MapKeysAreEventIds`. `GuestsAreRegistered` is not inductive alone:
   `removeGuest` consults the set and erases one occurrence from the list, so
   UNREGISTER clears a client off the lists only because list and set agree and no
   list has a name twice. One lemma per handler; `StoreStateInv` covers
   `createEvent` and those failures that strike after the event was stored.
3. *`OrderInv`* = `StateInv`, every listed event is in the map under its id, no id
   is above `_nextEventId`, ids grow along the list. A failure sets the counter to
   one less than the id that would have been given: since that id is above every
   id in use, the counter is still not below any of them, and at most the
   counter's own value is taken. This is why the single test of line 305 suffices, and
   `AssignedIdIsNew` is its statement. If the insertion in the map
   may fail, an event is listed that the map does not know, the test does not see its
   id, and the assumption is needed.
4. *`AnswerInv`*: without failures every id is below the counter, the test is never
   true, and the id of the answer is the one assigned. `server_reported_id` is the
   counterexample once failures are allowed.

### The emServer process

`EmServerProofs` proves of `EmServer!Spec`, for every set of connections and all values of the
constants that satisfy `EmServerAssumption` (failing system calls and threads included):

| Theorem | Property |
|---|---|
| `TypeCorrect` | `[]TypeOK` |
| `HandlersAreJoined` | `[]NoHandlerOutlivesServer` |
| `CallsHaveData` | `[]CallsDoNotBlock` |
| `ConnectionsStayHeld` | `[]ConnectionsAreHeld` |
| `ShutdownAnswers` | `AcceptedAreAnswered` |

The inductive invariant `LoopInv` is the conjunction of the four invariants, `StartIsAlone` (no handler before
`listen`) and `DownMeansExit` (the structures are gone only at the very end or after a failed call, and after the join no
thread is joinable). `TypeOK` says of the vector that a handler at work has its joinable thread there: join waits for all there
are because nothing detaches one. Each needs others: `Accept`
takes the head of the backlog, which exists because `CallsDoNotBlock` has carried what
`select` saw to that point; what it takes has no handler yet, because connections
are held by one side only and the backlog has none twice; and no handler starts after the join
because `main`, which is past its loop, is the only one to start it. `ShutdownAnswers`
follows from `ConnectionsAreHeld` where no handler is left: what is open then
is in the backlog. `TakeFirst` and `AddLast` are the facts about a queue without repetitions.

### The server implements the abstract service

The second half of `ServerProofs` goes on from these invariants.

| Theorem | Property | Further assumption |
|---|---|---|
| `GuestsWithdrawThemselves` | `OnlyGuestsWithdraw` | `AllocFailures \subseteq {"event"}` |
| `ServerImplementsService` | `ImplementsEventService` | `AllocFailures = {}` |

The refinement mapping makes the map and the list of the server one calendar of meetings
(`Meetings`, `Order`). A step of the server maps to a step of the service because, by `OrderInv`,
list and map hold the same events, each under its own id, in the order of their ids. So CREATE
appends an id larger than all before it. UNREGISTER, which walks the list, changes the calendar as the
service does, which has no list. The last `TopCount` positions of the list are the meetings with fewer than
`TopCount` newer ones: `EventService!Newest` counts ids and `getTop5Events` computes an
index, and `Cardinality` theorems relate the two. With failed allocations the answers name wrong
ids or events exist that no id leads to, so the assumption is needed: `server_reported_id` is
the counterexample. The proof led to a correction of `EventService`: it could turn a stranger's CREATE away
only if there was a title to announce, and TLC had no run without titles to tell.

### Concurrent handlers

`ServerThreadsProofs` assumes `ThreadsAssumption` (any finite set of emClients, any names,
shared or not) and nothing of `RaceOutcomes` and `AllocFailures`: updates are lost, the server may
crash and `createEvent` fails anywhere.

| Theorem | Property |
|---|---|
| `ThreadsTypes` | `[]TypeOK` |
| `KeysAreEventIds` | `[]MapKeysAreEventIds` |
| `TopShowsEnough` | `[]TopIsComplete` |

The inductive invariant `KeptInv` says of each thread what its locals are good for between its
steps: that an `Event*` it holds points at an object, whose id is the one the
thread has chosen if it is about to store it, and how far a GET_TOP_5 has come. It is kept by the steps of
others because objects are only appended, ids never change and the list never gets shorter, even
if an insertion is lost. The set of threads is finite because each thread in the `catch` block is
about to lower the counter: the bound `LowestId` has to hold after all of them have.

`ServerGuestsProofs` assumes no more than that: any names, any races, any failures.

| Theorem | Property | Exceptions in the property |
|---|---|---|
| `GuestsStayRegistered` | `[]GuestsAreRegistered` | disturbed names, names being swept |
| `RegisteredStayMembers` | `[]RegisteredMeansMember` | disturbed names, names being swept |
| `GuestListsKeepAgreeing` | `[]GuestListsAgree` | disturbed names, acceptances between their two insertions |
| `FoundEventsAreListed` | `[]ReachableEventsAreListed` | events whose creator's updates have overlapped |

The exceptions are needed: `threads_shared_name` and the findings of section 4 show what happens to disturbed names. The
theorems say how far the lack of locks is harmless, and that its harm does not spread: an update that is lost costs the
name it was made for, and two clients under one name cost only that name. `GuestInv` is the inductive invariant:

1. `HeldInv`: a handler past the test of REGISTER works for an emClient that holds its name, and names held by two are in
   `shared`. Hence the holder of an undisturbed name is the only one (`OneHolder`): of others under that name some may be about to
   register, and nothing else. A handler that is about to insert the name a second time is harmless to the set, and it
   makes the name a shared one.
2. `NameInv(x)`, for each undisturbed name: the set and the list of each event agree on it, it is on a list once, and
   on the list of an event that can be found only if it is registered or being swept.
3. `Relies(p)`, for each handler of an undisturbed name, is what it relies on between its steps: a client that sends an
   RSVP stays registered, its name stays off the list between test and insertion, and in the set between the
   insertion in the set and that in the list, and a sweep leaves no event behind it with the name.
4. `FreshInv`: an event that is being made is known to no other thread, and nobody is on its list. This is what keeps an
   event without guests when it replaces another in the map under the same id.

`OwnStep` sums up what one step of a handler may do: it changes the set, and guest lists, at its own client's name only,
or leaves a structure as it was. A step keeps what others rely on (`OthersRely`), their fresh events (`OthersFresh`) and the other names
(`OtherNames`) for that reason; what is left, for each access, is the handler's own name. `StoredIsNew` is where lost updates enter: what
is stored is what should be, or the name is disturbed from then on. `FoundEventsAreListed` has an invariant of its own,
`ListedInv`: an event that is about to go into the map is in the list, or its creator's push overlapped another.
The list never gets shorter, and who made an event never changes (`CreatorsStay`).

`threads_acceptance` violates `AcceptanceIsKept` with two users who create events; no theorem is stated of it.

### Lines and tokens

`ParserProofs` has no state: its lemmas are about every line of any lexemes with `IsLine`, and every
`UpperCase` and `IntMax` with `ParserAssumption`. The functions of `CommandParser` are recursive functions over
positions. `Recursion` shows that such a function exists, so that the `CHOOSE` behind it
satisfies its equation (`ScanIs`, `RestIs`, `NumberIsNat`). `Induct` is induction up to a length; it takes the positions where a fact holds as a
set and finds its least exception by `WFMin`, since the provers cannot instantiate an induction
theorem that takes an operator.

| Lemma | Says |
|---|---|
| `TokensOf` | the tokens have no space in them, are not empty, and at most the last has an end of line |
| `EndCut` | without its end a line has the same tokens, the last without its end of line, or one fewer if that was all of it |
| `SameCommand`, `PartCommand` | the server, which cuts the end of the line off, finds the client's command; in a part of the line, that one or none |
| `SameEvent` | it finds the number that the client has checked |
| `SameArguments` | title, date and joined description are no longer than what was checked, if no space ends the line |
| `TokensAreThePieces` | the tokens are the texts between the spaces, in order, each whole |

The exception in `SameArguments` is the finding of section 4 about a space at the end. `TokensAreThePieces` rests on
`Located`, an invariant of the loop: what has been read is the tokens of the pieces that have ended and, in `temp`, the
one that has not.

### One emClient

`EmClientProofs` assumes `LineAssumption` (lines are what `fgets` returns) and that some line may be logged (`LogAssumption`).

| Theorem | Property |
|---|---|
| `TypeCorrect` | `[]TypeOK` |
| `LogKeepsUp` | `[]LogMissesAtMostTheLast` |
| `AcceptanceIsNamed` | `LogNamesTheAcceptedEvent` |
| `TheServerReadsIt` | `[]ServerReadsWhatWasChecked` |
| `TokensAreTheLine` | `[]TokensSplitTheLine` |

`LogInv` keeps a running process to a log that lacks nothing, or one line if its stream is bad: a second line makes a bad
stream throw, and the process ends. Only lines of ended processes are lost in larger numbers, hence the weaker first part, which
holds always. `LineChecked` carries what `validateCommand` found in a line (`Passed`: its command, its limits, its number) to
the answer. Refused lines overwrite the number, but no line is read between the two. That the server finds the same
in the same line is `ParserProofs`' matter: `TheServerReadsIt` and `AcceptanceIsNamed` put the two together, the first for every line that was let through: if a space ends
a CREATE, the server has three or four tokens, whose limits follow from the client's.

### The system

`EventSystemProofs` assumes `SystemAssumption` (names that differ when upper-cased), `ServerConstants` and `LineAssumption`, and
bounds neither clients, events, faults nor restarts.

| Theorem | Property |
|---|---|
| `SystemTypes` | `[]TypeOK` |
| `RegisteredAreKnown` | `[]RegisteredMeansKnown` |
| `NamesHaveHolders` | `[]NamesAreHeld` |
| `StaleClientsAreRefused` | `[]StaleClientsAreStrangers` |
| `LoggedAcceptancesAreKept` | `[]LoggedAcceptanceIsKept` |
| `AnswersAreUnderstood` | `[]ChangesAreUnderstood` |

1. *The server's part* is `StateInv` of `ServerProofs` and `Positions`: no allocation fails here, so an event's id
   is its place in the list. `Effects` sums up what any request does, whoever waits for it: to the names, to the guests
   of each event and in its answer.
2. *The client's part*, `ClientInv(p)`, is about one client and what the server has of it. `Membership` joins the two sides
   of a registration: a client with `memberOf = lifetime` is known unless an UNREGISTER of its name is unheard or its
   answer is before it, and a name is known only if its client is a member, is about to hear so, or has left without a word (`Doubt`).
   `StaleClientsAreStrangers` needs that a stale client has no doubt about the present server, which holds because it can get
   nothing under way there but requests that are refused. `Acceptances` speaks of the acceptance
   that is about to be logged as well as of the logged ones, and
   leaves out what is in `misread`.
3. *What is left behind* was sent under a client's name, and its command is among what that client has not heard of (`Left`);
   this is why every exception of the properties is read off `unheard`.
4. *What a request is* for the server comes from the line the client has checked: by `SameCommand` and `SameEvent` a whole line
   has that command and event, by `PartCommand` a part of it that command or none (`Lines`, `PartRequest`).
5. A step of one client keeps `ClientInv` of every other, since names differ: `NamesAfter` and
   `GuestsAfter` say that a request touches one name.

`AnswersAreUnderstood` rests on the texts alone: of the answers to requests that change something only
ALREADY_REGISTERED quotes a name, and it begins with "ERROR: ", which is looked for first.

`LoggedAcceptancesAreKept` has two parts. What was logged and not misread is on the list: the reply that was understood as an
acceptance said so (`accepts`, followed from `Effects` through cut messages to the log). And misreading takes a fault or the end of a server: until
then every answer before a client is whole and from the running server (`UndisturbedInv`), and by `AnswersAreUnderstood`'s argument
it is taken for what it is. `system_misread` shows that the faults do lead to it.

### What is only model-checked

`ShutdownEnds`, `EveryClientIsServed` and `EveryRequestEnds`: liveness under fairness, which the prover cannot do. Every other
property of the passing runs is a theorem.

## 6. Not modelled, and the plan

`PROJECT.json` (`components`) says for each part whether it is modelled. The proofs that were planned are done. What
would say more:

1. `ServerGuestsProofs`: that a name which is known has a client that is registered, registering or leaving,
   the converse of `RegisteredMeansMember`.
2. `EventSystem` over the concurrent server instead of the sequential one, on one client and one request each.

Not modelled:

* an interrupted `select` in `emServer`;
* of CommandParser, what only words texts (`logCommandError`), the sorting and joining of guest
  lists (a set in the models; the code never joins an empty list), and `isNumeric`, which
  nothing calls;
* the server's log: its lines are wording, and what unsynchronised handlers
  do to the one stream they share is a data race inside the library;
* the build, and the buffers' sizes (`MAXLEN`): `fgets` and `read` bound what they put in them, and the models' lines
  are short.
