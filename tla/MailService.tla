------------------------------ MODULE MailService ------------------------------
(***************************************************************************)
(* What the server promises the people who use it, without its registry,   *)
(* tasks, locks or login protocol.  A session acts for one user.  A posted *)
(* request is archived, and handed to at most one session of its addressee *)
(* or to none; a session takes what is in its box in order; what it has    *)
(* not taken when it ends is gone from the box, never from the archive.    *)
(***************************************************************************)
EXTENDS Integers, Sequences

CONSTANTS Session, User, NoUser, Faults

VARIABLES
    identity,  \* the user a session acts for, or NoUser
    posted,    \* all requests: [by: session, to: user, known: has `to` an account?]
    pending,   \* the request a session has posted and the service still routes, or 0
    archive,   \* the requests kept for the history of both users
    box,       \* what was handed to a session: requests, and 0 for other frames
    taken,     \* how much of its box a session has taken
    ended      \* sessions that are over

vars == <<identity, posted, pending, archive, box, taken, ended>>

Init ==
    /\ identity = [s \in Session |-> NoUser]
    /\ posted = <<>>
    /\ pending = [s \in Session |-> 0]
    /\ archive = {}
    /\ box = [s \in Session |-> <<>>]
    /\ taken = [s \in Session |-> 0]
    /\ ended = {}

Identify(s, u) ==
    /\ s \notin ended /\ identity[s] = NoUser
    /\ identity' = [identity EXCEPT ![s] = u]
    /\ UNCHANGED <<posted, pending, archive, box, taken, ended>>

Post(s, to, known) ==
    LET n == Len(posted) + 1
    IN  /\ s \notin ended /\ identity[s] # NoUser /\ pending[s] = 0
        /\ posted' = Append(posted, [by |-> s, to |-> to, known |-> known])
        /\ pending' = [pending EXCEPT ![s] = n]
        /\ \/ archive' = archive \cup {n}
           \/ (Faults \/ ~known) /\ UNCHANGED archive
        /\ UNCHANGED <<identity, box, taken, ended>>

Put(t, item) == box' = [box EXCEPT ![t] = Append(@, item)]

Hand(s, t) ==
    /\ pending[s] # 0 /\ t \notin ended
    /\ identity[t] = posted[pending[s]].to
    /\ Put(t, pending[s])
    /\ pending' = [pending EXCEPT ![s] = 0]
    /\ UNCHANGED <<identity, posted, archive, taken, ended>>

Discard(s) ==
    /\ pending' = [pending EXCEPT ![s] = 0]
    /\ UNCHANGED <<identity, posted, archive, box, taken, ended>>

Notify(t) ==
    /\ t \notin ended
    /\ Put(t, 0)
    /\ UNCHANGED <<identity, posted, pending, archive, taken, ended>>

Take(t) ==
    /\ t \notin ended /\ taken[t] < Len(box[t])
    /\ taken' = [taken EXCEPT ![t] = @ + 1]
    /\ UNCHANGED <<identity, posted, pending, archive, box, ended>>

\* one session ends, or all of them at once when the service goes down
End(S) ==
    /\ ended' = ended \cup S
    /\ pending' = [s \in Session |-> IF s \in S THEN 0 ELSE pending[s]]
    /\ box' = [s \in Session |-> IF s \in S THEN SubSeq(box[s], 1, taken[s]) ELSE box[s]]
    /\ UNCHANGED <<identity, posted, archive, taken>>

Next ==
    \/ \E s \in Session :
          \/ \E u \in User : Identify(s, u)
          \/ \E to \in User, known \in BOOLEAN : Post(s, to, known)
          \/ \E t \in Session : Hand(s, t)
          \/ Discard(s) \/ Notify(s) \/ Take(s)
    \/ \E S \in SUBSET Session : End(S)

Spec == Init /\ [][Next]_vars

-----------------------------------------------------------------------------
TypeOK ==
    /\ identity \in [Session -> User \cup {NoUser}]
    /\ posted \in Seq([by : Session, to : User, known : BOOLEAN])
    /\ pending \in [Session -> Nat]
    /\ archive \subseteq 1..Len(posted)
    /\ box \in [Session -> Seq(Nat)]
    /\ taken \in [Session -> Nat]
    /\ ended \subseteq Session

\* A request reaches a session of its addressee and nobody else's.
Addressed ==
    \A s \in Session : \A i \in DOMAIN box[s] :
        box[s][i] # 0 => /\ box[s][i] \in DOMAIN posted
                         /\ posted[box[s][i]].to = identity[s]

\* No request is handed over twice, to one session or to two.
AtMostOnce ==
    \A s, t \in Session : \A i \in DOMAIN box[s], j \in DOMAIN box[t] :
        box[s][i] # 0 /\ box[s][i] = box[t][j] => s = t /\ i = j

\* Requests posted by one session reach another session in the order posted.
InOrder ==
    \A s \in Session : \A i, j \in DOMAIN box[s] :
        /\ i < j /\ box[s][i] # 0 /\ box[s][j] # 0
        /\ posted[box[s][i]].by = posted[box[s][j]].by
        => box[s][i] < box[s][j]

\* Without storage faults every request to an existing account is archived.
KnownIsArchived ==
    ~Faults => \A n \in DOMAIN posted : posted[n].known => n \in archive

-----------------------------------------------------------------------------
(* The inductive strengthening: where a request still being routed stands. *)

TakenWithin == \A s \in Session : taken[s] <= Len(box[s])

PendingIsLatest ==
    \A s \in Session : pending[s] # 0 =>
        /\ pending[s] \in DOMAIN posted
        /\ posted[pending[s]].by = s
        /\ \A n \in DOMAIN posted : posted[n].by = s => n <= pending[s]
        /\ \A t \in Session : \A i \in DOMAIN box[t] : box[t][i] # pending[s]

MailInv == TypeOK /\ TakenWithin /\ PendingIsLatest
           /\ Addressed /\ AtMostOnce /\ InOrder /\ KnownIsArchived
=============================================================================
