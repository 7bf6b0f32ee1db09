------------------------------ MODULE StreamClient ------------------------------
(***************************************************************************)
(* The sending half of the client SDK: the process-wide table SESSIONS,    *)
(* the threads open_message_stream_tls starts (one per stream, the owner   *)
(* of its TLS connection), and the calls of send_direct_message_over_      *)
(* stream that feed them.  What a thread reads only goes to the            *)
(* application's sink, so a read matters here for how it ends.             *)
(***************************************************************************)
EXTENDS Integers, Sequences, FiniteSets

CONSTANTS
    Stream,    \* calls of open_message_stream_tls
    NoStream,  \* no entry in SESSIONS, no sender held
    User,      \* user ids the application logs in as
    Caller,    \* threads that may be in a send call at the same time
    MaxLines   \* bound: lines accepted in a behaviour

ASSUME StreamAssumption == NoStream \notin Stream /\ MaxLines \in Nat

VARIABLES
    pc,        \* a stream's thread: "new", "running", "exiting", "gone"
    owner,     \* the user it logged in as, once running
    sessions,  \* SESSIONS: user -> the stream whose sender is stored
    held,      \* the sender a caller has cloned out of the table
    accepted,  \* the streams of the lines accepted with Ok, in order (history)
    queue,     \* a stream's channel: accepted lines not yet taken by its thread
    wire,      \* the lines it has written to its connection
    broken     \* has a write on it failed?

vars == <<pc, owner, sessions, held, accepted, queue, wire, broken>>

Init ==
    /\ pc = [st \in Stream |-> "new"]
    /\ owner \in [Stream -> User]
    /\ sessions = [u \in User |-> NoStream]
    /\ held = [c \in Caller |-> NoStream]
    /\ accepted = <<>>
    /\ queue = [st \in Stream |-> <<>>]
    /\ wire = [st \in Stream |-> <<>>]
    /\ broken = [st \in Stream |-> FALSE]

Become(st, phase) == pc' = [pc EXCEPT ![st] = phase]

\* Mutant: the sender is not stored in the table.
OpenUnlisted(st) ==
    /\ pc[st] = "new"
    /\ \E phase \in {"running", "gone"} : Become(st, phase)
    /\ UNCHANGED <<owner, sessions, held, accepted, queue, wire, broken>>

\* log in; store the sender, over whatever the table held; start the thread
Open(st) ==
    /\ pc[st] = "new"
    /\ \/ Become(st, "running") /\ sessions' = [sessions EXCEPT ![owner[st]] = st]
       \/ Become(st, "gone") /\ UNCHANGED sessions
    /\ UNCHANGED <<owner, held, accepted, queue, wire, broken>>

\* the first half of a send call: clone the sender under the table's lock;
\* without an entry the call fails and changes nothing
Clone(c, u) ==
    /\ held[c] = NoStream /\ sessions[u] # NoStream
    /\ held' = [held EXCEPT ![c] = sessions[u]]
    /\ UNCHANGED <<pc, owner, sessions, accepted, queue, wire, broken>>

\* the second half: Ok if the thread's receiver is still there, else Err
Enqueue(c) ==
    LET st == held[c]
    IN  /\ st # NoStream /\ Len(accepted) < MaxLines
        /\ IF pc[st] = "gone"
              THEN UNCHANGED <<accepted, queue>>
              ELSE /\ accepted' = Append(accepted, st)
                   /\ queue' = [queue EXCEPT ![st] = Append(@, Len(accepted) + 1)]
        /\ held' = [held EXCEPT ![c] = NoStream]
        /\ UNCHANGED <<pc, owner, sessions, wire, broken>>

\* Mutants of Drain: the newest line first; one line written, the rest dropped;
\* only while the table names the stream.
DrainNewest(st) ==
    LET n == Len(queue[st])
    IN  /\ pc[st] = "running" /\ queue[st] # <<>> /\ ~broken[st]
        /\ wire' = [wire EXCEPT ![st] = Append(@, queue[st][n])]
        /\ queue' = [queue EXCEPT ![st] = SubSeq(@, 1, n - 1)]
        /\ UNCHANGED <<pc, owner, sessions, held, accepted, broken>>

DrainOne(st) ==
    /\ pc[st] = "running" /\ queue[st] # <<>> /\ ~broken[st]
    /\ wire' = [wire EXCEPT ![st] = Append(@, Head(queue[st]))]
    /\ queue' = [queue EXCEPT ![st] = <<>>]
    /\ UNCHANGED <<pc, owner, sessions, held, accepted, broken>>

DrainIfListed(st) ==
    /\ pc[st] = "running" /\ queue[st] # <<>> /\ ~broken[st] /\ sessions[owner[st]] = st
    /\ wire' = [wire EXCEPT ![st] = Append(@, Head(queue[st]))]
    /\ queue' = [queue EXCEPT ![st] = Tail(@)]
    /\ UNCHANGED <<pc, owner, sessions, held, accepted, broken>>

\* try_recv and write_all: a write error is ignored, the line is lost
Drain(st) ==
    /\ pc[st] = "running" /\ queue[st] # <<>>
    /\ queue' = [queue EXCEPT ![st] = Tail(@)]
    /\ \/ /\ ~broken[st]
          /\ wire' = [wire EXCEPT ![st] = Append(@, Head(queue[st]))]
          /\ UNCHANGED broken
       \/ /\ broken' = [broken EXCEPT ![st] = TRUE]
          /\ UNCHANGED wire
    /\ UNCHANGED <<pc, owner, sessions, held, accepted>>

\* the read after the drain meets EOF or an error; a timeout changes nothing
ReadEnds(st) ==
    /\ pc[st] = "running"
    /\ Become(st, "exiting")
    /\ UNCHANGED <<owner, sessions, held, accepted, queue, wire, broken>>

\* Mutant: the entry outlives the thread.
ExitListed(st) ==
    /\ pc[st] = "exiting" /\ Become(st, "gone")
    /\ queue' = [queue EXCEPT ![st] = <<>>]
    /\ UNCHANGED <<owner, sessions, held, accepted, wire, broken>>

\* remove the user's entry, whichever stream it names; the receiver goes with
\* the thread, and with it what is still queued
Exit(st) ==
    /\ pc[st] = "exiting"
    /\ sessions' = [sessions EXCEPT ![owner[st]] = NoStream]
    /\ Become(st, "gone")
    /\ queue' = [queue EXCEPT ![st] = <<>>]
    /\ UNCHANGED <<owner, held, accepted, wire, broken>>

Quiescent ==
    /\ \A st \in Stream : pc[st] = "gone"
    /\ \A c \in Caller : held[c] = NoStream \/ Len(accepted) = MaxLines
    /\ UNCHANGED vars

Next ==
    \/ \E st \in Stream : Open(st) \/ Drain(st) \/ ReadEnds(st) \/ Exit(st)
    \/ \E c \in Caller : Enqueue(c) \/ \E u \in User : Clone(c, u)
    \/ Quiescent

Spec == Init /\ [][Next]_vars

-----------------------------------------------------------------------------
Lines == 1..Len(accepted)
Holds(seq, n) == \E i \in DOMAIN seq : seq[i] = n

\* The shape of every variable.
StreamTypeOK ==
    /\ pc \in [Stream -> {"new", "running", "exiting", "gone"}]
    /\ owner \in [Stream -> User]
    /\ sessions \in [User -> Stream \cup {NoStream}]
    /\ held \in [Caller -> Stream \cup {NoStream}]
    /\ accepted \in Seq(Stream) /\ Len(accepted) <= MaxLines
    /\ queue \in [Stream -> Seq(Lines)] /\ wire \in [Stream -> Seq(Lines)]
    /\ broken \in [Stream -> BOOLEAN]

\* SESSIONS never names a thread that is gone, nor another user's stream.
EntryIsLive ==
    \A u \in User : sessions[u] # NoStream =>
        pc[sessions[u]] \in {"running", "exiting"} /\ owner[sessions[u]] = u

\* The only stream of a user that was ever opened can be sent on while it runs.
SoleStreamUsable ==
    \A st \in Stream :
        /\ pc[st] = "running"
        /\ \A r \in Stream \ {st} : owner[r] = owner[st] => pc[r] = "new"
        => sessions[owner[st]] = st

\* A stream writes lines in the order they were accepted for it, none twice.
WrittenInOrder ==
    \A st \in Stream : LET all == wire[st] \o queue[st] IN
        /\ \A i, j \in DOMAIN all : i < j => all[i] < all[j]
        /\ \A i \in DOMAIN all : accepted[all[i]] = st

\* While a stream runs and no write has failed, no accepted line is missing:
\* it is on the wire or in the queue.
OkIsKept ==
    \A n \in Lines : LET st == accepted[n] IN
        pc[st] = "running" /\ ~broken[st] => Holds(wire[st], n) \/ Holds(queue[st], n)

\* An accepted line is written, or its stream lost its connection.
AcceptedIsWritten ==
    \A st \in Stream : \A n \in 1..MaxLines :
        (n \in Lines /\ accepted[n] = st)
            ~> (Holds(wire[st], n) \/ broken[st] \/ pc[st] \in {"exiting", "gone"})
=============================================================================
