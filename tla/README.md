# Rura in TLA+

Rura is a small messaging system: a TLS server in Rust (`crates/server`) that
authenticates users, stores direct messages in SQLite and pushes them to the
recipients that are online, and a client SDK (`crates/client`) bridged to a
Flutter application. This directory models all of it that has a state: the
server's start and its tasks, what the tasks share, how bytes become requests
and answers, the SDK's calls and streams, the application's lists and pages,
and the flow control between the two ends. File names below are relative to
`src/crates/server/src` unless they start with `client/` (for
`src/crates/client/src`), `app/` (for `src/crates/client/flutter_app/lib`) or
`docs/`.

## 1. Inventory

| component | state | operations | interacts with |
|---|---|---|---|
| session task (`main.rs`, `client/*.rs`) | its socket, `authenticated_user_id`, outbound sender and receiver | accept, greet, read a request, answer, write an outbound frame, leave | all of the server's parts |
| authentication (`auth/*.rs`) | none of its own | login, register, refuse, each with its answer | storage, session task |
| online registry (`messaging/state.rs`) | map user id -> sender of one session, behind an `RwLock` | `register`, `unregister`, `get_sender` | session tasks, direct messaging |
| direct messaging (`messaging/handlers.rs`) | none of its own | `send_direct`: store, look up, push | storage, registry, another task's channel |
| storage (`utils/db_utils.rs`) | tables `users`, `messages`, `connections`, behind one `Mutex` | insert, authenticate, fetch history, set `saved` | session tasks |
| storage initialisation (`utils/db_utils.rs`) | the database file | create tables, inspect and add the `saved` column | other processes on the file |
| TLS set-up and arguments (`utils/tls.rs`, `models/args.rs`, `main.rs`) | none, reads two PEM files | load certificates and key, bind | process start |
| server input framing (`client/loop_task.rs`, `dispatch.rs`) | a 1024-byte buffer, refilled by every read | read, parse | the client's writes |
| client receive reassembly (`client/api.rs`) | `read_line`'s bytes, the stream thread's accumulator | read a byte, read a chunk, cut lines | the server's writes |
| client stream sender (`client/api.rs`) | `SESSIONS`: user id -> sender; one thread and TLS connection per stream | open a stream, send over it, drain, read, exit | server task, application threads |
| client one-shot calls (`client/api.rs`) | one connection per call | log in or register, fetch history, send | server task |
| Flutter application (`app/main.dart`) | per chat list: groups and a subscription; per page: messages, a subscription, `_sending` | load history, open the stream, show, send | client SDK |
| shared message models (`crates/models`) | none | - | all |
| local address, generated bridge, platform runners | none | - | - |

What is hard in it:

* *Concurrency.* Every connection is a task of a multi-threaded runtime. The
  registry and the database have locks, but `send_direct` uses three critical
  sections, and what one of them read may be stale in the next: the handle that
  was cloned may belong to a session that has ended or was replaced.
* *Identity.* The registry has one entry per user and a user may have several
  sessions; `SESSIONS` in the SDK is the same again. Insert and remove are by
  user id.
* *Failure.* A write may fail after a row was inserted or a frame was taken off
  a channel; a statement may fail and `send_direct` goes on; the process may
  die, at start-up too, and the database survives it while the registry does not.
* *Order.* Pushed messages and answers to the session's own requests share one
  channel, and an answer is put on it after the database lock is released, so
  that others may push in between; the select between reads and outbound frames is random; a one-shot
  call takes the next line for its answer; snapshot and stream are two
  connections.
* *Framing and flow control.* The server parses what a read returns, the client
  changes its reader in the middle of a connection; both ends write with a
  blocking `write_all` and do not read meanwhile.

What makes each part correct:

* registry: names only live tasks of the right user; an online user is routed;
* accounts: one per passphrase; a session acts only for the account whose
  credentials it gave, whatever races and fails;
* messaging: each event reaches a session of its addressee, at most once, in
  each sender's order, under its true sender's name, and is in the archive;
* storage: rows are never lost or rewritten, `saved` changes only by a party of
  the message, a history page covers what was queued for its session when it was read;
* start-up: nobody serves on an unfinished file, no mark is reset, somebody
  comes up;
* framing: lines are handled in order, never twice, never lost silently, and by
  the client never lost at all;
* client sender: what was accepted is written in order, or its stream ended;
* one-shot calls: each returns, with its own user's data, and fails only for a
  reason;
* end to end: a stream shows what was sent to its user, once and in order;
* application: a page shows its group, once and in order, and as sent exactly
  what was accepted from it;
* liveness: queued frames are written, leaving tasks give up their route,
  accepted clients are served, pushed messages are shown.

`PROJECT.json` lists the hazards behind these line by line.

## 2. Modules

| module | models |
|---|---|
| `RuraServer` | the server: session tasks, registry, tables, channels; one action per step of a task |
| `RuraServerProps` | what the server must satisfy, and the refinement mapping to `MailService` |
| `MailService` | abstract specification: sessions post requests that are archived and handed to at most one session of the addressee |
| `RuraSystem` | the SDK's calls and streams against the tasks of `RuraServer`, over connections that fail; extends `RuraServer` |
| `ServerFraming` | from newline-terminated lines to the texts the server parses |
| `ConnectionFraming` | the readers at both ends of a connection; extends `ServerFraming` with the client's |
| `StreamClient` | `SESSIONS`, the stream threads and `send_direct_message_over_stream` |
| `ChatApp` | the application's lists and pages over the streams; extends `StreamClient` |
| `Backpressure` | one stream connection with bounded socket buffers and blocking writes |
| `Startup` | processes starting on one database file, with their TLS files and port |
| `MC_*` | constants for TLC |
| `MailServiceProofs`, `RuraServerProofs`, `SystemProofs` | theorems of the mail service, of the server, and of the applications with it |
| `FramingProofs`, `ChatAppProofs`, `BackpressureProofs`, `StartupProofs` | theorems of the framings, of streams and application, of flow control, of start-up |
| `SequenceFacts` | lemmas on sequences that several of these use |

### RuraServer

A step is what a task does between two points where another task can be
observed to run: a socket operation, one critical section of a lock, or a send
on a task's channel, its own included. Reading a request is one step with the
first of these that it leads to, because nothing shared is touched in between.

| variable | code |
|---|---|
| `users`, `messages`, `connections` | the tables; a row's index is its id |
| `registry` | `AppState.users` |
| `pc` | where the task is in `handle_client`, `handle_client_loop`, `send_direct` |
| `uid` | `authenticated_user_id` (kept after the task ends, as its history) |
| `reply` | the outcome the auth handler is about to write |
| `out`, `tx` | locals of `send_direct`: the request and the cloned sender |
| `answer` | the response a task has made (`wrapper` in `client/authed.rs` of the server) and not sent yet |
| `chan`, `written` | the frames ever put on the session's unbounded channel, and how many of them have been written; the queue is what lies between |
| `cred`, `sent` | history only: the credentials the database accepted, all requests read |

| action | code |
|---|---|
| `Accept`, `Greet` | the accept loop and handshake; `handle_client` up to the prompt |
| `Login`, `Register`, `Refuse` | the auth handlers up to their outcome |
| `WriteReply` | writing it; only then is the user id assigned, and a failed write ends the task |
| `Enroll` | the new channel and `AppState::register` |
| `ReadMessage`, `LookUp`, `Push` | `send_direct`: `store_message`, `get_sender`, `tx.send` |
| `ReadHistory`, `ReadSave`, then `Respond` | `history` and `save`: the statement under the lock, and, as a step of its own, `outbound.send` of the answer |
| `ReadOther` | the other commands, which take no lock: the answer on the own channel |
| `Recv` | the outbound branch of the select |
| `Disconnect`, `Cleanup` | the breaks of the loop; `unregister`, then the receiver is dropped with its queue |
| `Crash` | the process dies; the tables stay |

Decisions a reader should know:

* `authenticate_user` verifies the password after it has released the lock. No
  statement changes or deletes a row of `users`, so lookup and verdict are one
  step. For the same reason `hash_password`, before the lock, is not a step.
* A refused auth command stays unauthenticated, whether the command was
  malformed or the credentials wrong: the outcome `NoUser` of `reply`.
* `DbFaults` lets any statement fail. `ForeignKeys` says whether SQLite enforces
  `messages`' references to `users`; the bundled library that `Cargo.toml`
  selects is compiled with that on, so the runs set it.
* Bodies are the position of the request in `sent`, so that two messages are
  never confused; passphrases and passwords are model values.
* The history limit is a `usize` cast to `i64`. `HalfWord` stands for 2^63: a
  limit at or above it becomes negative, which SQLite reads as no limit. The runs
  take `HalfWord = 4`, with 7 as the request of `usize::MAX`.
* A session of an earlier run of the process is `killed`, one that left is
  `closed`.
* A page remembers how many frames were on the channel when it was read
  (`behind`, history only), because others may push before it is sent.
* The `AUTOINCREMENT` limit is `MaxUserId`: an `INSERT` beyond it fails.
* Printing is left out. So are panics: `println!` to a closed standard output
  would kill a task without `unregister` (see the hazards).

### RuraSystem

Each session is the connection of one SDK call, described by a record of
`plan`: which authentication, what follows on the same connection (nothing, a
history fetch, one message, an open stream), and which calls must have returned
before. `up` and `down` are the lines in flight, `step` where the call is,
`result` what it returned, `shown` what a stream gave to its sink.

| action | code |
|---|---|
| `Dial` | `make_tls_stream` |
| `Hear` | one `read_line`, or one line of the stream's accumulator, and all the call does with it until it reads again: `AskAuth`, `HearAuth`, `Continue`, `AskHistory`, `SendAndClose`, `HearHistory`, `Show` |
| `HearNothing` | the same at end of file or an error |
| `StreamSend` | the thread writes a queued message |
| `TaskAccepts` ... `TaskEnds` | the actions of `RuraServer`, tied to the lines they read and write; two lines read at once do not parse |
| `Break`, `ServerDies` | a connection fails; the server dies and with it every connection |

A task may end while lines addressed to it wait to be read, but only because the
connection failed, or because something it wrote, or has still to write, meets a
connection the client closed (`TaskEnds`). A bound of `RuraServer` never stops a
request of a planned call (`PlanAssumption`).

### ServerFraming, ConnectionFraming

`ServerFraming` keeps offsets instead of bytes: `ends[k]` is where line `k`'s
newline lies. A read takes up to `Buffer` bytes of what has arrived and parses
exactly if they are one whole line, with or without its newline. Lines towards
the server arrive whole because both TLS libraries turn a `write_all` of this
size into one record, which is an assumption on the external library. `awaits`
is a choice of the client: the one-shot calls wait for each answer, the stream
thread does not (a `message` has no answer).

`ConnectionFraming` adds who reads. A client first reads byte by byte
(`ReadLine`), and after the prompt and the `auth_response` hands the connection
to its thread (`HandOver`), which appends each chunk to an accumulator and cuts
it at newlines (`ReadStream`); `kept` is the offset after the last newline it
cut. Towards the client bytes arrive in pieces of any size, and the connection
may end between any two of them (`Close`, `ReadEnd`).

### StreamClient, ChatApp

`StreamClient` has the process-wide table, the sender a caller has cloned but
not used yet, and per stream the channel, what it has written, and whether a
write has failed. A read can end at any time; what is read goes to the
application's sink and changes nothing here.

`ChatApp` puts the application on top: a stream belongs to a chat list, a caller
to a chat page.

| variable | code (`app/main.dart`) |
|---|---|
| `list`, `groups` | `_ChatListScaffoldState`: is it mounted; `_groups` |
| `events` | what the stream's sink holds for the list's subscription |
| `page`, `chat`, `shown`, `inbox` | `_ChatPageState`: is it open; its list, peer, and whether it started from a group; the peer's part of `_messages`; what the broadcast has not delivered yet |
| `bubbles`, `sending`, `outcome` | the own part of `_messages`; `_sending`, and whether it waits for the call or for the 50 ms after it; the answer of the call being awaited |

| action | code (`app/main.dart`) |
|---|---|
| `ShowList`, `Listen`, `DisposeList` | `initState` and the stream it opens, the listener, `dispose` |
| `Receive` | the SDK's thread puts a message into the sink |
| `OpenPage`, `Hear`, `ClosePage` | `_ChatPageState`: `initState`, its listener, `dispose` |
| `Send`, `AskEntry`, `Submit`, `Resume`, `Settle` | `_send` to the await, the two halves of the SDK call on its own thread, `_send` from its await to the pause, and its `finally` |

Dart runs one callback at a time, so each of these is a step. Disposing a list
cancels a subscription and leaves the stream's thread, connection and table
entry alone; that is why `Lists`, the lists still to be shown, may be fewer than
the streams. The stream of any other list was left while its call was under way.

### Backpressure

It counts lines in each stage of one connection. A slot is the room for one line
in the buffers of a direction. The application submits at most `MaxUp` lines,
other users push at most `MaxDown` frames.

### Startup

`pc` is where each process is between its launch and its accept loop; `tables`,
`column` and `rows` are the file. Each statement of `init_db_with_path` is a
transaction of its own, so each is a step: `CreateUsers`, `CreateMessages`
(`IF NOT EXISTS`, and with the column only if the table is new), `Inspect` (the
local `has_saved`), `Alter` (an error when the column is there by now),
`CreateConnections`. Then `LoadCerts`, `LoadKey` (the last PKCS#8 key, or the
last RSA key of a file without any), `Bind`. `Serve` is what a serving process
does to rows, `Die` any other death. PEM files are sequences of items; the
environment picks one of a few that tell the branches of `tls.rs` apart.

## 3. Runs

| run | instance | shows |
|---|---|---|
| `Delivery` | 3 sessions (symmetric), 2 users, 2 requests, foreign keys | registry, genuineness of events, refinement of `MailService` |
| `Service` | 2 sessions, 1 message, history with a limit that wraps (7 with `HalfWord = 4`), up to 2 own frames, `FairSpec` | a history page covers what was queued when it was read; frames are written, routes are given up, clients are served |
| `Faults` | 2 sessions, 2 passphrases, 2 passwords, every command, statements fail | accounts and rows |
| `System` | 3 connections, the applications `Chat`, `OneShots` and `Notes`, 1 failure of a connection or of the server, `SysSpec` | what the SDK's calls and streams may rely on, from the sender's line to the addressee's sink |
| `Framing` | buffer 4, lines of 2 to 5 bytes, up to 4 lines in each direction, waiting or not, `ConnSpec` | order, no silent loss, exactness for a client that waits, exactness of the client's readers |
| `Streams` | 2 streams of 1 user (one of a list that was left), 2 pages, 2 lines, 1 event, `AppSpec` | table, order of the client's lines, contents of the pages |
| `LightLoad` | 2 slots each way, 2 lines up, 5 frames down, `FairSpec` | no standstill |
| `Startup` | 2 processes, 3 launches, 1 fault, 2 rows, 3 x 6 PEM files | the database file, whoever starts or dies on it |
| `LoginThenStream`, `UnknownRecipient`, `OneLineOneObject`, `HeavyLoad` | small | disagreements with docs or tests; see below |

Bounds and why they are enough.

* `Delivery`: three sessions of two users give every pattern of the registry: a
  superseded session, its successor, and an independent sender or recipient. Two
  requests are needed for order and for a second delivery. `MaxSent` and
  `MaxFrames` bound a session's own requests, not the frames others push.
* `Service`: one message and two own frames let a page precede a push, follow it, and have it
  come between its reading and its sending. The limit is the one whose cast turns negative; pages a LIMIT cuts
  are those of `OneShots`.
* `System`: `Chat` is the application with a user who writes to it (history,
  then stream, two messages that may fall before, between and after the two);
  `OneShots` a history fetch that meets a pushed message, a registration, and
  one-shot messages both ways; `Notes` one-shot messages into an open stream.
  Together they use every SDK call, and one failure may hit any of their steps.
  Bounds of the server never stop a planned request (`PlanAssumption`).
* `Framing`: a buffer of 4 has lines below, at and above its size; four lines
  have every coalescing of pairs and triples, and towards the client a prompt,
  an answer and two lines for the accumulator.
* `Streams`: two streams of one user are the case in which entries are replaced
  and removed by the other; more users only multiply it. Two pages of one list
  race for the same sender.
* `LightLoad`, `HeavyLoad`: two lines above the buffers of one direction fill it
  with one in the writer's hands.
* `Startup`: three launches of two processes give one that dies half-way, one
  that meets it, and one that comes after; two rows one marked and one not.

Sessions are interchangeable in `RuraServer`, so symmetry is sound in the two
runs that have no liveness property.

Fairness. `FairSpec` of the server is weak fairness of each task's own steps
(the runtime polls runnable tasks again, and a live peer's socket accepts data
or fails) and strong fairness of `Recv`: `select!` polls its ready branches in
random order, so a queue that is non-empty again and again is drained although
requests keep arriving. Nothing is assumed of clients there. `SysSpec` assumes
less of every task and thread: only that one that can run does, which is enough
because the calls are finitely many. `ConnSpec` has bytes of a connection that
stays arrive and be read; `AppSpec` has the streams' threads and the awaited
calls go on, as does the operating system's scheduler, but not the user, who
need not open, send or leave. `Startup` has a launched process take its next
statement. `Backpressure` uses strong fairness for the two ready branches of the
select, and has the writes blocked by full buffers in the model itself. No
fairness says that a failure is noticed: no read or write in the code fails by a
timeout (the stream thread's 200 ms only make its loop go on), so a connection
that fails (`cut`) may leave both ends waiting, and the liveness
properties of `RuraSystem` exclude exactly these.

What the violation runs found:

* `LoginThenStream`: the application logs in to fetch its history on one
  connection and then opens its stream. The server's task of the first call may
  notice its end only after the stream has registered, and then removes the
  user's only entry, which is the stream's: the user stays connected and receives
  nothing live. One user suffices and no fault. (`docs/PROTOCOL.md:39`,
  `tests/instant_bidirectional.rs:229`) The same pattern is in the SDK's own
  table (`client/api.rs:425`): the thread that ends first removes the entry of
  the user's other stream. There no document promises otherwise; `EntryIsLive`
  and `SoleStreamUsable` say what does hold.
* `UnknownRecipient`: with foreign keys on, a message to an id without account
  is not stored, and the error is dropped. (`docs/PROTOCOL.md:58`) A variant
  shows in `MailService`, whose `Post` may skip the archive when the addressee
  has no account yet: registered between store and lookup, the addressee is
  handed a message that no row holds.
* `OneLineOneObject`: two lines read together (the run's trace), or a line longer
  than the buffer, are lost. (`docs/PROTOCOL.md:6`)
* `HeavyLoad`: with full buffers both ways, client thread and server task wait
  for each other in `write_all` for good. (`docs/ARCHITECTURE.md:59`)

Five limits of what holds show in the statements of properties:

* The `auth_response` is written before the user is registered, so a message
  looked up in between is missed by a client that already knows it is logged in.
  `SoleSessionReachable` therefore starts at `Enroll`.
* A one-shot history fetch fails if a message is pushed to it before its answer
  (`HistoryFailsOnlyWhenPushed`): it takes the next line for the answer.
* "Message sent" means that the line was written. If something is pushed to that
  connection, the server's write to the closed connection ends the task, and the
  message may never be read (`SentIsHandled`).
* A history page may be queued behind a message that it lacks: it is read under
  the database lock and sent after it (`client/authed.rs:94` and `116` of the
  server), and another task may store and push in between. What does hold is that
  it has what was queued when it was read (`HistoryCoversQueued`).
* `QueuedIsWritten`, `LeavingIsUnrouted` and the other liveness properties of the
  server assume that a live peer reads: the code has no write timeout, and
  `HeavyLoad` shows a peer of the project's own that does not. The requests of a
  session are bounded, so that the strong fairness of `Recv`, and not a run of
  unbounded requests, is what keeps its queue from starving.

Each property has a mutant in a module of its component, an operator that changes
one action the way a plausible bug would; under it the property fails.

## 4. Theorems

TLAPS proves every invariant and action property that the passing runs check,
and the two refinements, for every value of the constants that satisfies the
named assumptions of the modules. Each theorem below names the strengthening
that makes it inductive.

The mail service (`MailServiceProofs`)

* `MailSafety`: in `MailService` every request reaches only its addressee, at
  most once, in its sender's order, and is archived if the addressee has an
  account. The strengthening is `PendingIsLatest`: a request still being routed
  is its session's latest and in no box yet.

The server (`RuraServerProofs`)

* `TaskCorrect`: `TypeOK`, with the phase invariant `TaskInv`. The user id, the
  request, the cloned handle and the unsent answer of a task are there exactly in
  the phases that use them (`UidOfPhase`, `RoutingOfPhase`, `AnswerOfPhase`), and no more is written than was
  queued (`WrittenWithin`). `TypeOK` alone is not inductive: the type of a
  stored row needs that its sender is logged in, the type of a pushed frame that
  the handle is there.
* `RegistryNamesLive`, `RoutedTillOneLeaves`, `SoleSessionRouted`: none of the
  three properties is inductive alone, their conjunction `RouteInv` is, over
  `TaskInv`: a step that keeps users, entry and exit of tasks as they are cannot
  disturb it (`RouteFrame`); what remains are `WriteReply`, `Enroll`, `Cleanup`,
  `Crash`.
* `AccountsCorrect`: `AccountIntegrity`, inductive over `TaskInv`.
* `ServerIsMailService`: `Spec => MailSpec`, the refinement. Every step of a task
  is one of a few kinds (`StepKinds`), each of which is an action of the mail
  service or a stutter. Beyond `TaskInv` and `RouteInv` it needs `RoutedInv`:
  nothing is on a channel before the message loop (otherwise a login would
  change the owner of queued mail), a task routes its own request, and a cloned
  handle belongs to a session of the addressee, which follows from `RouteIsLive`
  at the lookup and from the constancy of `uid` after it, whether the session is
  still there or not.
* `ServerDelivers`: the conclusions of `MailSafety` about the server's channels.
* `EventsAreGenuine`: the event is tied to the request it stands for
  (`EventsOfRequests`), and the request to a row (`KnownIsStored`).
* `RowsKept`: the action property `RowsAreKept`, from `TaskInv`. The step that
  changes a mark is that of a party of the message and leaves its task with the
  answer that says so; a crash may still take that answer away.
* `HistoryIsComplete`: `HistoryCoversQueued`. `PagesCover` says it of every
  page on a channel or in its task's hands, and that what was queued when it was
  read is still ahead of it; `RowsOfRequests` ties a row to the request it
  archives; that a page under no
  effective limit is all of a user's rows is a fact about the cardinality of the
  page and the wrapped limit.

Applications and server together (`SystemProofs`)

* `TasksRunTheServer`: the tasks of `RuraSystem`, tied to the lines they read and
  write, take steps of `RuraServer` or none, from a file that may hold accounts
  already. `SystemIsMailService` and `ServerKeepsItsPromises` carry the
  refinement and the invariants of `RuraServer` over.
* `HistoryIsOwn`: `BundleIsOwnHistory`. `SysInv` follows the data through the
  connection: a task has only its call's credentials (`CredOfPlan`), a line in
  flight is a prompt, an answer about the task's own user, or a frame written
  (`LinesAreTrue`), a page made, sent or not, has what the client is promised of it
  (`PagesAreOwn`), a call has returned what it heard (`ResultsAreTrue`).
* `SnapshotIsFirst`: `SnapshotPrecedesStream`. It is not inductive, since
  frames still on the channel will be shown: `ChannelFollowsSnapshot` states it
  of the channel, from the moment the call is made. A push of an older message
  is excluded by `RoutesItsLast`: a task routes the last request it read.
* `StreamsShowTheirMail`: `ShownIsMail`, end to end. What is shown, and after it
  what is on its way, is in the order of the channel (`ShownInOrder`); the
  conclusions of `MailSafety` about the channel do the rest, two networks and
  a database away from where they were proved.
* `HistoryIsAnswered`: `HistoryFailsOnlyWhenPushed`. `Conversation` is the state
  of the dialogue between a history call and its task while the connection
  holds: which line each has written that the other has not read.

The framings (`FramingProofs`)

* `FramingTyped`, `InOrder`, `NoSilentLoss`, `LockStep`, `ClientExact`, from one
  invariant `FramingInv` on offsets. `LinesApart` keeps newlines at least two
  bytes apart, so a read that parses is one line; `ServerReads` says that without
  an error the lines handled are those begun to be read; `InLockStep` that reads of
  a client that waits end where lines end; `ClientKeeps` that the accumulator
  starts right after the last line cut, whichever reader cut it.

Streams and application (`ChatAppProofs`)

* `StreamTyping` (`StreamTypeOK`, which no run repeats), `TableIsRight`,
  `SoleStreamIsNamed`, `LinesAreInOrder`, `OkStays`: the table and the lines of
  the streams, for any number of them. `TableFits` adds that a sender that was
  cloned belongs to a stream that was opened; `LinesFit` states the order
  without concatenation.
* `AppUsesStreams`: every step of the application is a step of `StreamClient` or
  leaves it alone, so that `AppLinesInOrder` carries `WrittenInOrder` and
  `OkIsKept` to the application.
* `PagesFollow`: `PageFollowsGroup`. A page that is open belongs to a list that
  is shown (`AboveItsList`), so no event reaches one and not the other; a page
  that is not open has nothing waiting (`Idle`).
* `BubblesMatch`: `BubblesAreAccepted`. The button keeps a page to one call
  (`OneCall`), and what that call's lines are is known at every step of it
  (`OwnLines`), also while the page is closed.

Flow control and start-up (`BackpressureProofs`, `StartupProofs`)

* `LinesAreConserved`, `NoStandstillUnderLightLoad`: the conservation of lines in
  `FlowTypeOK` leaves no room for a standstill below the load of one direction.
* `StartTyping`, `ServingOnCompleteFile`, `StartsKeepMarks`: whoever serves has
  every table and the column, and no start clears a mark. `SeenDone` says that
  what a process has passed is in the file, `RowsFit` that a file without the
  column has no marked row, so that `Alter`, the one statement that rewrites
  rows, has none to clear.

They assume what the modules' `ASSUME`s say: `NoSession` is not a session, the
bounds are naturals, flags are Booleans, a history limit is a `usize`, lines
have a byte before their newline. `FileAssumption` says of the file that the
applications find that its passphrases are unique, which the schema enforces,
and its ids within the column; `PlanAssumption` that plans are calls and that
the bounds of the server do not stop them. `MailSafety` assumes that `NoUser`
is not a user, which holds where it is used.

Only model-checked, because liveness under fairness is out of the prover's
reach: `QueuedIsWritten`, `LeavingIsUnrouted`, `AcceptedIsServed`,
`CallReturns`, `PushedIsShown`, `SentIsHandled`, `EveryLineSettled`,
`AcceptedIsWritten`, `SendEnds`, `SomeoneComesUp`, `EverythingFlows`. The
theorems about `RuraSystem` and `ChatApp` refine the server's and the streams'
safety only: that their fairness implies that of `FairSpec` would need ENABLED.

## 5. What is left

Larger instances: a second user in `Streams`, two failures in `System`. Of the
theory: the framings and the calls are separate models, each of which takes the
other's part as given (`RuraSystem` has whole lines, `ConnectionFraming` no
commands); `LockStep` and `ClientExact` are what justifies the lines of
`RuraSystem`, but their composition is not stated as a refinement.

Not modelled:

* `utils/get_local_ip.rs`: one query whose result is printed.
* TLS itself: a handshake is an outcome of `Accept`, and a record of the size of
  a line arrives whole. Only which files are accepted is modelled.
* Panics: `println!` to a closed standard output would end a task while it may
  hold a lock, or before it unregisters.
* Timeouts: the server has none, and the 200 ms of the stream thread's reads only
  let it drain its queue again, which is how `Drain` may follow any read.
* Memory: the channels are unbounded, and so they are in the model; the bounds
  are on requests.
* The application's layout, the order and timestamps of the chat list, the text
  field and the status line of the log-in page; the generated bridge between
  Dart and Rust and the platform runners.
