------------------------------ MODULE Backpressure ------------------------------
(***************************************************************************)
(* Flow control between a streaming client and its server task.  Both ends *)
(* write with a blocking write_all and neither reads while it writes: the  *)
(* client thread drains its whole channel before it reads, the server      *)
(* writes inside the select branch.  The connection stays healthy here;    *)
(* a slot is the room one line needs in the socket buffers.                *)
(***************************************************************************)
EXTENDS Integers

CONSTANTS
    UpSlots, DownSlots,  \* lines the buffers hold, client to server and back
    MaxUp, MaxDown       \* lines the application sends, frames others push

ASSUME SlotAssumption == UpSlots \in Nat \ {0} /\ DownSlots \in Nat \ {0}
ASSUME LoadAssumption == MaxUp \in Nat /\ MaxDown \in Nat

VARIABLES
    client,     \* the client thread: "drain", "write", "read"
    server,     \* the server task: "select", "write"
    submitted,  \* lines the application has handed over
    mine,       \* of those, still in the client's channel
    up,         \* in the buffers towards the server
    served,     \* read by the server
    pushed,     \* frames other tasks have put on this session's channel
    theirs,     \* of those, still in the server's channel
    down,       \* in the buffers towards the client
    shown       \* read by the client

upward   == <<submitted, mine, up, served>>
downward == <<pushed, theirs, down, shown>>
vars     == <<client, server, upward, downward>>

Init ==
    /\ client = "drain" /\ server = "select"
    /\ submitted = 0 /\ mine = 0 /\ up = 0 /\ served = 0
    /\ pushed = 0 /\ theirs = 0 /\ down = 0 /\ shown = 0

Submit ==
    /\ submitted < MaxUp
    /\ submitted' = submitted + 1 /\ mine' = mine + 1
    /\ UNCHANGED <<client, server, up, served, downward>>

Push ==
    /\ pushed < MaxDown
    /\ pushed' = pushed + 1 /\ theirs' = theirs + 1
    /\ UNCHANGED <<client, server, down, shown, upward>>

\* rx.try_recv: a line to write, or none and on to the read
ClientTake ==
    /\ client = "drain"
    /\ \/ mine > 0 /\ mine' = mine - 1 /\ client' = "write"
       \/ mine = 0 /\ client' = "read" /\ UNCHANGED mine
    /\ UNCHANGED <<server, submitted, up, served, downward>>

\* Mutant: a line may be written again.
ClientWriteAgain ==
    /\ client = "write" /\ up < UpSlots
    /\ up' = up + 1 /\ client' \in {"write", "drain"}
    /\ UNCHANGED <<server, submitted, mine, served, downward>>

\* write_all returns when the line is in the buffers
ClientWrite ==
    /\ client = "write" /\ up < UpSlots
    /\ up' = up + 1 /\ client' = "drain"
    /\ UNCHANGED <<server, submitted, mine, served, downward>>

\* Mutant: no read timeout.
ClientReadWaits ==
    /\ client = "read"
    /\ \/ down > 0 /\ down' = down - 1 /\ shown' = shown + 1 /\ client' = "drain"
       \/ down = 0 /\ UNCHANGED <<down, shown, client>>
    /\ UNCHANGED <<server, upward, pushed, theirs>>

\* data, or the 200 ms timeout when there is none
ClientRead ==
    /\ client = "read" /\ client' = "drain"
    /\ \/ down > 0 /\ down' = down - 1 /\ shown' = shown + 1
       \/ down = 0 /\ UNCHANGED <<down, shown>>
    /\ UNCHANGED <<server, upward, pushed, theirs>>

ServerRead ==
    /\ server = "select" /\ up > 0
    /\ up' = up - 1 /\ served' = served + 1
    /\ UNCHANGED <<client, server, submitted, mine, downward>>

\* Mutant: a frame taken off the channel is not written.
ServerTakeDrops ==
    /\ server = "select" /\ theirs > 0
    /\ theirs' = theirs - 1
    /\ UNCHANGED <<client, server, upward, pushed, down, shown>>

ServerTake ==
    /\ server = "select" /\ theirs > 0
    /\ theirs' = theirs - 1 /\ server' = "write"
    /\ UNCHANGED <<client, upward, pushed, down, shown>>

ServerWrite ==
    /\ server = "write" /\ down < DownSlots
    /\ down' = down + 1 /\ server' = "select"
    /\ UNCHANGED <<client, upward, pushed, theirs, shown>>

ClientLoop == ClientTake \/ ClientWrite \/ ClientRead

Next ==
    \/ Submit \/ Push \/ ClientLoop
    \/ ServerRead \/ ServerTake \/ ServerWrite

Spec == Init /\ [][Next]_vars

\* the thread and the task run; select! does not starve a ready branch
FairSpec ==
    /\ Spec /\ WF_vars(ClientLoop) /\ WF_vars(ServerWrite)
    /\ SF_vars(ServerRead) /\ SF_vars(ServerTake)

-----------------------------------------------------------------------------
\* The shape of every variable: no line is created or lost on the way, and the
\* buffers hold no more than they can.
FlowTypeOK ==
    /\ client \in {"drain", "write", "read"} /\ server \in {"select", "write"}
    /\ submitted \in 0..MaxUp /\ pushed \in 0..MaxDown
    /\ mine \in Nat /\ served \in Nat /\ theirs \in Nat /\ shown \in Nat
    /\ up \in 0..UpSlots /\ down \in 0..DownSlots
    /\ mine + (IF client = "write" THEN 1 ELSE 0) + up + served = submitted
    /\ theirs + (IF server = "write" THEN 1 ELSE 0) + down + shown = pushed

\* Both ends wait for the other to read.
Standstill ==
    /\ client = "write" /\ up = UpSlots
    /\ server = "write" /\ down = DownSlots

\* The two ends never wait for each other, if what the application sends or
\* what the others push always fits the buffers of its direction.
LightLoadFlows == MaxUp <= UpSlots \/ MaxDown <= DownSlots => ~Standstill

\* ARCHITECTURE.md:59 "pushes new messages to the UI in real time": every frame
\* pushed is shown, and every line submitted is served.
EverythingFlows ==
    /\ \A n \in 1..MaxDown : (pushed = n) ~> (shown >= n)
    /\ \A n \in 1..MaxUp : (submitted = n) ~> (served >= n)
=============================================================================
