------------------------------ MODULE RuraServer ------------------------------
(***************************************************************************)
(* The Rura server: the tasks that main.rs spawns, one per TLS connection  *)
(* (here a Session), and what they share: the SQLite tables behind one     *)
(* mutex and AppState, the in-memory registry of online users behind one   *)
(* RwLock.  A step is what a task does between two points where another    *)
(* task can be observed to run: a socket operation, one critical section   *)
(* of a lock, or a send on a task's channel, its own included.  Reading a  *)
(* request is one step with the first of these that it leads to, because   *)
(* in between the task touches nothing that it shares.                     *)
(***************************************************************************)
EXTENDS Integers, Sequences, FiniteSets

CONSTANTS
    Session,       \* the connections the listener will ever accept
    NoSession,     \* the registry's "no entry"
    Passphrase,    \* users.passphrase, what a user is known by
    Password,      \* the cleartext passwords clients submit
    MaxUserId,     \* the largest users.id; an INSERT beyond it fails
    Commands,      \* the requests clients make: subset of Command
    SavedFlags,    \* the values clients give the optional `saved` field
    HistoryLimits, \* the usize limits clients ask a history page with
    HalfWord,      \* 2^63: half of the values of a 64-bit usize
    ForeignKeys,   \* does SQLite enforce the FOREIGN KEYs of messages?
    DbFaults,      \* can a statement fail (I/O error, disk full)?
    MaxSent,       \* bound: direct-message requests in a behaviour
    MaxFrames      \* bound: a session with this many frames asks no more

Command == {"message", "history", "save", "other"}

ASSUME SessionAssumption == NoSession \notin Session
ASSUME UserAssumption    == MaxUserId \in Nat
ASSUME CommandAssumption == Commands \subseteq Command
ASSUME WordAssumption    == HalfWord \in Nat \ {0}
ASSUME RequestAssumption == SavedFlags \subseteq BOOLEAN /\ HistoryLimits \subseteq 0..(2 * HalfWord - 1)
ASSUME StoreAssumption   == ForeignKeys \in BOOLEAN /\ DbFaults \in BOOLEAN
ASSUME BoundAssumption   == MaxSent \in Nat /\ MaxFrames \in Nat

UserId     == 1..MaxUserId
NoUser     == 0
Credential == [passphrase : Passphrase, password : Password]

VARIABLES
    users,        \* table users: row id -> credential (the hash stands for its password)
    messages,     \* table messages: row id -> [sender, receiver, content, saved]
    connections,  \* table connections: the sessions whose address was logged
    registry,     \* AppState.users: user id -> the session that owns the handle
    pc,           \* where each task is
    uid,          \* authenticated_user_id; kept after the task as its history
    cred,         \* <<c>>: the credential c the database accepted (history)
    reply,        \* outcome of the auth command being answered: a user id or NoUser
    sent,         \* every direct-message request read, in order (history)
    out,          \* the request (index in sent) a task is routing, or 0
    tx,           \* the session whose sender that task has cloned
    answer,       \* <<f>>: the frame f a task has ready for its own channel
    chan,         \* frames ever put on a session's outbound channel
    written       \* how many of them have been written to its socket

store   == <<users, messages, connections>>
control == <<pc, uid, cred, reply, sent, out, tx>>
wires   == <<answer, chan, written>>
vars    == <<store, registry, control, wires>>

-----------------------------------------------------------------------------
(* Phases of a task, and the data it handles.                              *)

Enrolled == {"loop", "route", "push", "respond", "cleanup"}   \* owns a live receiver
Over     == {"closed", "killed"}
Phase    == {"idle", "greet", "unauth", "reply", "enroll"} \cup Enrolled \cup Over

Row     == [sender : UserId, receiver : UserId, content : Nat, saved : BOOLEAN]
Request == [by : Session, to : UserId, known : BOOLEAN]

MessageFrame == [command : {"message"}, from : UserId, body : Nat]
\* behind: how many frames were on the channel when the page was read (history)
HistoryFrame == [command : {"history_response"}, success : BOOLEAN, limit : Int,
                 ids : SUBSET Nat, behind : Nat]
SaveFrame    == [command : {"save_response"}, success : BOOLEAN]
NoticeFrame  == [command : {"error", "other"}]
Frame        == MessageFrame \cup HistoryFrame \cup SaveFrame \cup NoticeFrame

\* main on a database file that already holds these accounts
StartOn(accounts) ==
    /\ users = accounts /\ messages = <<>> /\ connections = {}
    /\ registry = [u \in UserId |-> NoSession]
    /\ pc = [s \in Session |-> "idle"]
    /\ uid = [s \in Session |-> NoUser]
    /\ cred = [s \in Session |-> <<>>]
    /\ reply = [s \in Session |-> NoUser]
    /\ sent = <<>>
    /\ out = [s \in Session |-> 0]
    /\ tx = [s \in Session |-> NoSession]
    /\ answer = [s \in Session |-> <<>>]
    /\ chan = [s \in Session |-> <<>>]
    /\ written = [s \in Session |-> 0]

Init == StartOn(<<>>)

Goto(s, phase) == pc' = [pc EXCEPT ![s] = phase]

\* UnboundedSender::send: queued while the receiver exists, else an ignored error
Enqueue(s, frame) ==
    chan' = IF pc[s] \in Enrolled THEN [chan EXCEPT ![s] = Append(@, frame)] ELSE chan

\* Mutants: a handle never stored; a handle never removed.
PutNothing(u, s) == UNCHANGED registry
RemoveNothing(u) == UNCHANGED registry

\* AppState::register and AppState::unregister: an insert and a remove by user id
PutHandle(u, s) == registry' = [registry EXCEPT ![u] = s]
RemoveHandle(u) == registry' = [registry EXCEPT ![u] = NoSession]

-----------------------------------------------------------------------------
(* main.rs and handle_client: from the socket to the auth prompt.          *)

\* listener.accept and the TLS handshake, which may fail
Accept(s) ==
    /\ pc[s] = "idle"
    /\ \E phase \in {"greet", "closed"} : Goto(s, phase)
    /\ UNCHANGED <<store, registry, uid, cred, reply, sent, out, tx, wires>>

\* log_client_connection (a failed INSERT is only reported), then auth_required
Greet(s) ==
    /\ pc[s] = "greet"
    /\ \/ connections' = connections \cup {s}
       \/ DbFaults /\ UNCHANGED connections
    /\ \E phase \in {"unauth", "closed"} : Goto(s, phase)
    /\ UNCHANGED <<users, messages, registry, uid, cred, reply, sent, out, tx, wires>>

-----------------------------------------------------------------------------
(* The unauthenticated half of handle_client_loop.                         *)

Answer(s, outcome) ==
    /\ Goto(s, "reply")
    /\ reply' = [reply EXCEPT ![s] = outcome]

Grant(s, c, u) == Answer(s, u) /\ cred' = [cred EXCEPT ![s] = <<c>>]
Deny(s)        == Answer(s, NoUser) /\ UNCHANGED cred

\* anything but a well-formed login or register: parse error, other command
Refuse(s) ==
    /\ pc[s] = "unauth"
    /\ Deny(s)
    /\ UNCHANGED <<store, registry, uid, sent, out, tx, wires>>

\* Mutant: the password is not verified.
LoginAnyPassword(s, c) ==
    /\ pc[s] = "unauth"
    /\ \/ \E u \in DOMAIN users : users[u].passphrase = c.passphrase /\ Grant(s, c, u)
       \/ (\A u \in DOMAIN users : users[u].passphrase # c.passphrase) /\ Deny(s)
    /\ UNCHANGED <<store, registry, uid, sent, out, tx, wires>>

\* authenticate_user; Argon2 runs after the lock is released, on a row no
\* statement changes, so the lookup and the verdict are one step
Login(s, c) ==
    /\ pc[s] = "unauth"
    /\ \/ \E u \in DOMAIN users : users[u] = c /\ Grant(s, c, u)
       \/ DbFaults /\ Deny(s)
       \/ (\A u \in DOMAIN users : users[u] # c) /\ Deny(s)
    /\ UNCHANGED <<store, registry, uid, sent, out, tx, wires>>

Taken(p) == \E u \in DOMAIN users : users[u].passphrase = p

\* Mutant: INSERT OR IGNORE, answered with the id the next row would get.
RegisterIgnored(s, c) ==
    /\ pc[s] = "unauth"
    /\ \/ ~Taken(c.passphrase) /\ Len(users) < MaxUserId /\ users' = Append(users, c)
       \/ Taken(c.passphrase) /\ UNCHANGED users
    /\ Grant(s, c, Len(users) + 1)
    /\ UNCHANGED <<messages, connections, registry, uid, sent, out, tx, wires>>

\* register_user: the existence check and the INSERT under one lock
Register(s, c) ==
    /\ pc[s] = "unauth"
    /\ \/ /\ ~Taken(c.passphrase) /\ Len(users) < MaxUserId
          /\ users' = Append(users, c)
          /\ Grant(s, c, Len(users) + 1)
       \/ /\ Taken(c.passphrase) \/ Len(users) = MaxUserId \/ DbFaults
          /\ UNCHANGED users
          /\ Deny(s)
    /\ UNCHANGED <<messages, connections, registry, uid, sent, out, tx, wires>>

\* Mutant: after a success the user id is not assigned.
WriteReplyForgets(s) ==
    /\ pc[s] = "reply" /\ Goto(s, "unauth")
    /\ reply' = [reply EXCEPT ![s] = NoUser]
    /\ UNCHANGED <<store, registry, uid, cred, sent, out, tx, wires>>

\* write and flush the auth_response or error; a failed write ends the task
\* through `?`, before authenticated_user_id is assigned
WriteReply(s) ==
    /\ pc[s] = "reply"
    /\ \/ /\ uid' = [uid EXCEPT ![s] = reply[s]]
          /\ Goto(s, IF reply[s] = NoUser THEN "unauth" ELSE "enroll")
       \/ UNCHANGED uid /\ Goto(s, "closed")
    /\ reply' = [reply EXCEPT ![s] = NoUser]
    /\ UNCHANGED <<store, registry, cred, sent, out, tx, wires>>

\* open the outbound channel and AppState::register: the latest handle wins
Enroll(s) ==
    /\ pc[s] = "enroll"
    /\ PutHandle(uid[s], s)
    /\ Goto(s, "loop")
    /\ UNCHANGED <<store, uid, cred, reply, sent, out, tx, wires>>

-----------------------------------------------------------------------------
(* The authenticated half: the read branch of the select.                  *)

\* the FOREIGN KEY of the receiver; the sender's always holds
Storable(to) == ForeignKeys => to \in DOMAIN users

\* a direct-message request: store_message, whose error send_direct ignores
ReadMessage(s, to, saved) ==
    LET n   == Len(sent) + 1
        row == [sender |-> uid[s], receiver |-> to, content |-> n, saved |-> saved]
    IN  /\ pc[s] = "loop" /\ "message" \in Commands /\ Len(sent) < MaxSent
        /\ sent' = Append(sent, [by |-> s, to |-> to, known |-> to \in DOMAIN users])
        /\ out' = [out EXCEPT ![s] = n]
        /\ \/ Storable(to) /\ messages' = Append(messages, row)
           \/ (DbFaults \/ ~Storable(to)) /\ UNCHANGED messages
        /\ Goto(s, "route")
        /\ UNCHANGED <<users, connections, registry, uid, cred, reply, tx, wires>>

\* Mutant: the handle is taken out of the map instead of cloned.
LookUpTakes(s) ==
    LET u == sent[out[s]].to
    IN  /\ pc[s] = "route" /\ registry[u] # NoSession
        /\ Goto(s, "push") /\ tx' = [tx EXCEPT ![s] = registry[u]]
        /\ RemoveHandle(u)
        /\ UNCHANGED <<store, uid, cred, reply, sent, out, wires>>

\* AppState::get_sender clones the handle under the read lock
LookUp(s) ==
    LET t == registry[sent[out[s]].to]
    IN  /\ pc[s] = "route"
        /\ IF t = NoSession
              THEN /\ Goto(s, "loop") /\ out' = [out EXCEPT ![s] = 0]
                   /\ UNCHANGED tx
              ELSE /\ Goto(s, "push") /\ tx' = [tx EXCEPT ![s] = t]
                   /\ UNCHANGED out
        /\ UNCHANGED <<store, registry, uid, cred, reply, sent, wires>>

\* Mutants: the event names its recipient as the sender; the event also goes
\* back to the session that sent it; what came before it is pushed again.
PushMisnamed(s) ==
    /\ pc[s] = "push"
    /\ Enqueue(tx[s], [command |-> "message", from |-> sent[out[s]].to, body |-> out[s]])
    /\ Goto(s, "loop")
    /\ out' = [out EXCEPT ![s] = 0] /\ tx' = [tx EXCEPT ![s] = NoSession]
    /\ UNCHANGED <<store, registry, uid, cred, reply, sent, answer, written>>

PushEchoes(s) ==
    LET event == [command |-> "message", from |-> uid[s], body |-> out[s]]
    IN  /\ pc[s] = "push"
        /\ chan' = [t \in Session |-> IF t \in {s, tx[s]} /\ pc[t] \in Enrolled
                                         THEN Append(chan[t], event) ELSE chan[t]]
        /\ Goto(s, "loop")
        /\ out' = [out EXCEPT ![s] = 0] /\ tx' = [tx EXCEPT ![s] = NoSession]
        /\ UNCHANGED <<store, registry, uid, cred, reply, sent, answer, written>>

PushCatchesUp(s) ==
    LET backlog == [n \in 1..out[s] |-> [command |-> "message", from |-> uid[s], body |-> n]]
    IN  /\ pc[s] = "push"
        /\ chan' = IF pc[tx[s]] \in Enrolled THEN [chan EXCEPT ![tx[s]] = @ \o backlog] ELSE chan
        /\ Goto(s, "loop")
        /\ out' = [out EXCEPT ![s] = 0] /\ tx' = [tx EXCEPT ![s] = NoSession]
        /\ UNCHANGED <<store, registry, uid, cred, reply, sent, answer, written>>

\* tx.send(event): the receiver may have gone since the handle was cloned
Push(s) ==
    /\ pc[s] = "push"
    /\ Enqueue(tx[s], [command |-> "message", from |-> uid[s], body |-> out[s]])
    /\ Goto(s, "loop")
    /\ out' = [out EXCEPT ![s] = 0] /\ tx' = [tx EXCEPT ![s] = NoSession]
    /\ UNCHANGED <<store, registry, uid, cred, reply, sent, answer, written>>

Asks(s, command) == pc[s] = "loop" /\ command \in Commands /\ Len(chan[s]) < MaxFrames

\* Mutants: rows are looked for by their sender only; whoever they concern.
SentBy(u, i)  == messages[i].sender = u
Anyone(u, i)  == TRUE

Concerns(u, i) == messages[i].sender = u \/ messages[i].receiver = u

\* Mutant: the huge limit is clamped at zero.
AsI64Clamped(limit) == IF limit < HalfWord THEN limit ELSE 0

\* `limit as i64`: the upper half of usize becomes negative
AsI64(limit) == IF limit < HalfWord THEN limit ELSE limit - 2 * HalfWord

\* ORDER BY id ASC LIMIT limit: SQLite reads a negative LIMIT as none
HistoryPage(u, limit) ==
    LET mine == {i \in DOMAIN messages : Concerns(u, i)}
        n    == AsI64(limit)
    IN  {i \in mine : n < 0 \/ Cardinality({j \in mine : j <= i}) <= n}

\* the lock is released with the answer in hand; it is not on the channel yet
Prepare(s, frame) ==
    /\ answer' = [answer EXCEPT ![s] = <<frame>>]
    /\ Goto(s, "respond")

\* fetch_messages_for_user, under one lock
ReadHistory(s, limit) ==
    LET Page(ok, ids) ==
            Prepare(s, [command |-> "history_response", success |-> ok, limit |-> limit,
                        ids |-> ids, behind |-> Len(chan[s])])
    IN  /\ Asks(s, "history")
        /\ Page(TRUE, HistoryPage(uid[s], limit)) \/ (DbFaults /\ Page(FALSE, {}))
        /\ UNCHANGED <<store, registry, uid, cred, reply, sent, out, tx, chan, written>>

\* set_message_saved touches a row only for its sender or its receiver
ReadSave(s, id, saved) ==
    LET found == id \in DOMAIN messages /\ Concerns(uid[s], id)
        PrepareSave(ok) == Prepare(s, [command |-> "save_response", success |-> ok])
    IN  /\ Asks(s, "save")
        /\ \/ found /\ messages' = [messages EXCEPT ![id].saved = saved] /\ PrepareSave(TRUE)
           \/ (~found \/ DbFaults) /\ UNCHANGED messages /\ PrepareSave(FALSE)
        /\ UNCHANGED <<users, connections, registry, uid, cred, reply, sent, out, tx, chan, written>>

\* outbound.send: what other tasks pushed since the statement is already queued
Respond(s) ==
    /\ pc[s] = "respond"
    /\ Enqueue(s, answer[s][1])
    /\ answer' = [answer EXCEPT ![s] = <<>>]
    /\ Goto(s, "loop")
    /\ UNCHANGED <<store, registry, uid, cred, reply, sent, out, tx, written>>

\* a malformed request is answered with an error, an unknown command echoed;
\* no lock is taken, so the send is the only step
ReadOther(s) ==
    /\ Asks(s, "other")
    /\ \E command \in {"error", "other"} : Enqueue(s, [command |-> command])
    /\ UNCHANGED <<store, registry, control, answer, written>>

-----------------------------------------------------------------------------
(* The recv branch of the select, and the ways a task ends.                *)

\* Mutant: only the session the registry names is served.
RecvIfRouted(s) ==
    /\ pc[s] = "loop" /\ written[s] < Len(chan[s]) /\ registry[uid[s]] = s
    /\ written' = [written EXCEPT ![s] = @ + 1]
    /\ UNCHANGED <<store, registry, control, answer, chan>>

Recv(s) ==
    /\ pc[s] = "loop" /\ written[s] < Len(chan[s])
    /\ written' = [written EXCEPT ![s] = @ + 1]
    /\ UNCHANGED <<store, registry, control, answer, chan>>

\* EOF, a read error, or a failed write of a frame already taken off the
\* channel: leave the loop.  Only an authenticated task has a user to remove.
Disconnect(s) ==
    /\ \/ pc[s] = "unauth" /\ Goto(s, "closed")
       \/ pc[s] = "loop" /\ Goto(s, "cleanup")
    /\ UNCHANGED <<store, registry, uid, cred, reply, sent, out, tx, wires>>

\* what has been written, once the queue behind it is dropped
Delivered(s) == SubSeq(chan[s], 1, written[s])

\* AppState::unregister removes by user id; then the receiver is dropped
Cleanup(s) ==
    /\ pc[s] = "cleanup"
    /\ RemoveHandle(uid[s])
    /\ chan' = [chan EXCEPT ![s] = Delivered(s)]
    /\ Goto(s, "closed")
    /\ UNCHANGED <<store, uid, cred, reply, sent, out, tx, answer, written>>

\* the process dies and is started again on the same database file
Crash ==
    /\ \E s \in Session : pc[s] \notin {"idle", "killed"}
    /\ pc' = [s \in Session |-> IF pc[s] = "idle" THEN "idle" ELSE "killed"]
    /\ registry' = [u \in UserId |-> NoSession]
    /\ reply' = [s \in Session |-> NoUser]
    /\ out' = [s \in Session |-> 0]
    /\ tx' = [s \in Session |-> NoSession]
    /\ answer' = [s \in Session |-> <<>>]
    /\ chan' = [s \in Session |-> Delivered(s)]
    /\ UNCHANGED <<store, uid, cred, sent, written>>

Quiescent ==
    /\ \A s \in Session : pc[s] \in Over
    /\ UNCHANGED vars

ServerStep(s) ==
    Greet(s) \/ WriteReply(s) \/ Enroll(s) \/ LookUp(s) \/ Push(s) \/ Respond(s) \/ Cleanup(s)

ClientStep(s) ==
    \/ Accept(s) \/ Refuse(s) \/ ReadOther(s) \/ Disconnect(s)
    \/ \E c \in Credential : Login(s, c) \/ Register(s, c)
    \/ \E to \in UserId, saved \in SavedFlags \cup {FALSE} : ReadMessage(s, to, saved)
    \/ \E limit \in HistoryLimits : ReadHistory(s, limit)
    \/ \E id \in 1..MaxSent, saved \in SavedFlags \cup {TRUE} : ReadSave(s, id, saved)

Next ==
    \/ \E s \in Session : ServerStep(s) \/ ClientStep(s) \/ Recv(s)
    \/ Crash \/ Quiescent

Spec == Init /\ [][Next]_vars

(* A runnable task is polled again, and the sockets of live peers accept    *)
(* data or fail (the code has no write timeout).  select! polls its ready   *)
(* branches in random order, so a queue that is non-empty again and again   *)
(* is drained even while requests keep arriving.                            *)
Fairness == \A s \in Session : WF_vars(ServerStep(s)) /\ SF_vars(Recv(s))

FairSpec == Spec /\ Fairness
=============================================================================
