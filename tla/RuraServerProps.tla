---------------------------- MODULE RuraServerProps ----------------------------
(***************************************************************************)
(* What RuraServer must satisfy.                                           *)
(***************************************************************************)
EXTENDS RuraServer

\* The shape of every variable of the server.
TypeOK ==
    /\ users \in Seq(Credential) /\ Len(users) <= MaxUserId
    /\ messages \in Seq(Row)
    /\ connections \subseteq Session
    /\ registry \in [UserId -> Session \cup {NoSession}]
    /\ pc \in [Session -> Phase]
    /\ uid \in [Session -> UserId \cup {NoUser}]
    /\ cred \in [Session -> Seq(Credential)]
    /\ reply \in [Session -> UserId \cup {NoUser}]
    /\ sent \in Seq(Request)
    /\ out \in [Session -> Nat]
    /\ tx \in [Session -> Session \cup {NoSession}]
    /\ answer \in [Session -> Seq(Frame)]
    /\ chan \in [Session -> Seq(Frame)]
    /\ written \in [Session -> Nat]

-----------------------------------------------------------------------------
(* The registry of online users.                                           *)

Live(s) == pc[s] \in Enrolled

\* The registry never names a task that has ended, nor another user's task:
\* get_sender cannot leak a handle across users or across a restart.
RouteIsLive ==
    \A u \in UserId : registry[u] # NoSession =>
        Live(registry[u]) /\ uid[registry[u]] = u

\* Until one of a user's sessions has left, a live session of that user is
\* in the registry, whichever sessions of the user came and in what order.
\* (Sessions of an earlier run of the process are "killed" and do not count.)
RoutedUntilFirstLeave ==
    \A s \in Session :
        Live(s) /\ (\A t \in Session : uid[t] = uid[s] => pc[t] # "closed")
        => registry[uid[s]] # NoSession

\* A user with a single session since the start of the process is reachable
\* through that very session for as long as it lives.
SoleSessionReachable ==
    \A s \in Session :
        /\ Live(s)
        /\ \A t \in Session \ {s} : uid[t] = uid[s] => pc[t] \in {"enroll", "killed"}
        => registry[uid[s]] = s

-----------------------------------------------------------------------------
(* Accounts.                                                               *)

\* One account per passphrase, whatever registrations and logins race; and a
\* task acts (or is about to) only for the account whose credentials it gave.
AccountIntegrity ==
    /\ \A u, v \in DOMAIN users : users[u].passphrase = users[v].passphrase => u = v
    /\ \A s \in Session : \A u \in {uid[s], reply[s]} \ {NoUser} :
          u \in DOMAIN users /\ cred[s] = <<users[u]>>

-----------------------------------------------------------------------------
(* Messages.                                                               *)

BodyOf(frame) == IF frame.command = "message" THEN frame.body ELSE 0

Box(s) == [i \in DOMAIN chan[s] |-> BodyOf(chan[s][i])]

Archived == {messages[i].content : i \in DOMAIN messages}

\* The server as an implementation of the mail service.
Mail == INSTANCE MailService WITH
    User <- UserId, Faults <- DbFaults,
    identity <- uid, posted <- sent, pending <- out, archive <- Archived,
    box <- [s \in Session |-> Box(s)], taken <- written,
    ended <- {s \in Session : pc[s] \in Over}

\* Every behaviour of the server is one of the mail service: at most one
\* delivery, to the addressee, in each sender's order, archived first.
MailSpec == Mail!Spec

\* The event names its true sender and stands for one archived request of
\* that sender (unless storage failed or the account did not exist yet).
EventIsGenuine ==
    \A s \in Session : \A i \in DOMAIN chan[s] :
        LET f == chan[s][i] IN f.command = "message" =>
            /\ uid[sent[f.body].by] = f.from
            /\ ~DbFaults /\ sent[f.body].known =>
                  \E r \in DOMAIN messages :
                      messages[r].content = f.body /\ messages[r].sender = f.from
                      /\ messages[r].receiver = uid[s]

\* PROTOCOL.md:58 "Unknown recipient (offline/unknown to_user_id): delivery is
\* skipped, but the message is still persisted": a request being routed is.
UnknownStillPersisted == \A s \in Session : out[s] # 0 => out[s] \in Archived

MarkChanged == [command |-> "save_response", success |-> TRUE]

Parties(i) == {messages[i].sender, messages[i].receiver}

\* Rows are never lost, reordered or rewritten, by any step or crash; only the
\* saved flag changes, and only in the step of a live session of the sender or
\* the receiver, whose answer will then say so.
RowsAreKept ==
    [][/\ Len(messages) <= Len(messages')
       /\ Len(users) <= Len(users') /\ \A u \in DOMAIN users : users'[u] = users[u]
       /\ \A i \in DOMAIN messages :
             /\ [messages'[i] EXCEPT !.saved = FALSE] = [messages[i] EXCEPT !.saved = FALSE]
             /\ messages'[i].saved # messages[i].saved =>
                   \E s \in Session : uid[s] \in Parties(i) /\ pc[s] = "loop"
                                      /\ answer'[s] = <<MarkChanged>>]_vars

\* A history page holds every message that was on the session's channel when it
\* was read, written to the client or not, unless the LIMIT cut it or it was
\* never stored.  (Not every message that is ahead of the page on the channel:
\* one may be stored and pushed between the reading and the sending of the page.)
HistoryCoversQueued ==
    \A s \in Session : \A i, j \in DOMAIN chan[s] :
        LET m == chan[s][i]  h == chan[s][j] IN
        /\ m.command = "message" /\ h.command = "history_response" /\ h.success
        /\ i <= h.behind /\ m.body \in Archived
        => \/ \E r \in h.ids : messages[r].content = m.body
           \/ Cardinality(h.ids) = h.limit

-----------------------------------------------------------------------------
(* Liveness, under FairSpec.                                               *)

Ended(s) == pc[s] \in Over

\* A frame on a session's channel is written, or the session ends.
QueuedIsWritten ==
    \A s \in Session : \A n \in 1..(MaxFrames + MaxSent) :
        (Len(chan[s]) >= n) ~> (written[s] >= n \/ Ended(s))

\* A task that is leaving ends and takes its route with it.
LeavingIsUnrouted ==
    \A s \in Session : (pc[s] = "cleanup") ~> (Ended(s) /\ \A u \in UserId : registry[u] # s)

\* A client whose credentials were accepted gets its message loop (or is gone).
AcceptedIsServed ==
    \A s \in Session : (pc[s] = "reply" /\ reply[s] # NoUser) ~> (pc[s] = "loop" \/ Ended(s))
=============================================================================
