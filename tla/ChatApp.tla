--------------------------------- MODULE ChatApp ---------------------------------
(***************************************************************************)
(* The Flutter application over the SDK's streams: a chat list per login,  *)
(* which loads a history, opens a stream and groups what arrives by peer,  *)
(* and the chat pages opened from it, which copy a group, listen on, and   *)
(* send.  Dart runs one callback at a time; the stream's thread and the    *)
(* calls into the SDK run beside it.                                       *)
(***************************************************************************)
EXTENDS StreamClient

CONSTANTS
    Lists,      \* the streams whose chat list is still to be shown; the list of any
                \* other was left while the call to open its stream was under way
    Peer,       \* the users the application's user exchanges messages with
    MaxEvents,  \* bound: messages pushed in a behaviour
    MaxParts    \* bound: streams and pages opened in a behaviour

ASSUME ListAssumption  == Lists \subseteq Stream
ASSUME EventAssumption == MaxEvents \in Nat /\ MaxParts \in Nat

\* One stream per chat list, one page per caller: each is opened once.
VARIABLES
    list,      \* a chat list: "none", "shown", "disposed"
    groups,    \* its _groups: peer -> the messages, 0 standing for a loaded history
    events,    \* what the stream's sink holds for it: [from, id]
    arrived,   \* messages pushed so far, and the number of the last one
    page,      \* a chat page: "none", "open", "closed"
    chat,      \* its list and peer, and whether it was opened on the peer's group
    shown,     \* the messages of its _messages that are not its own bubbles
    inbox,     \* messages its subscription has not yet delivered
    bubbles,   \* the lines it shows as sent
    sending,   \* _sending, once set until the call's answer, then for a pause
    outcome,   \* the answer of the send call not yet seen: <<n>>, <<0>> for an error
    author     \* the page of each accepted line (history)

listVars == <<list, groups, events, arrived>>
pageVars == <<page, chat, shown, inbox, bubbles>>
sendVars == <<sending, outcome, author>>
appVars  == <<vars, listVars, pageVars, sendVars>>

Empty == [q \in Peer |-> <<>>]

AppInit ==
    /\ Init
    /\ list = [st \in Stream |-> IF st \in Lists THEN "none" ELSE "disposed"]
    /\ groups = [st \in Stream |-> Empty]
    /\ events = [st \in Stream |-> <<>>] /\ arrived = 0
    /\ page = [c \in Caller |-> "none"]
    /\ chat = [c \in Caller |-> <<>>]
    /\ shown = [c \in Caller |-> <<>>] /\ inbox = [c \in Caller |-> <<>>]
    /\ bubbles = [c \in Caller |-> <<>>]
    /\ sending = [c \in Caller |-> "idle"] /\ outcome = [c \in Caller |-> <<>>]
    /\ author = <<>>

Opened == Cardinality({st \in Stream : pc[st] # "new"}) + Cardinality({c \in Caller : page[c] # "none"})

Listening(st) == {c \in Caller : page[c] = "open" /\ chat[c].list = st}

-----------------------------------------------------------------------------
(* _ChatListScaffoldState.                                                 *)

\* initState: group the bundle by peer; _startStream only starts the call
ShowList(st) ==
    /\ list[st] = "none" /\ list' = [list EXCEPT ![st] = "shown"]
    /\ \E some \in SUBSET Peer :
          groups' = [groups EXCEPT ![st] = [q \in Peer |-> IF q \in some THEN <<0>> ELSE <<>>]]
    /\ UNCHANGED <<vars, events, arrived, pageVars, sendVars>>

\* the thread hands a message over: the sink of a list no longer there ignores it
Receive(st) ==
    /\ pc[st] = "running" /\ arrived < MaxEvents /\ arrived' = arrived + 1
    /\ \E q \in Peer : events' = IF list[st] = "shown"
          THEN [events EXCEPT ![st] = Append(@, [from |-> q, id |-> arrived + 1])] ELSE events
    /\ UNCHANGED <<vars, list, groups, pageVars, sendVars>>

\* Mutant: a page opened on a group shares its list instead of copying it.
ListenShared(st) ==
    /\ events[st] # <<>>
    /\ LET m  == Head(events[st])
           at == {c \in Listening(st) : chat[c].peer = m.from}
       IN  /\ groups' = [groups EXCEPT ![st][m.from] = Append(@, m.id)]
           /\ inbox' = [c \in Caller |-> IF c \in at THEN Append(inbox[c], m.id) ELSE inbox[c]]
           /\ shown' = [c \in Caller |-> IF c \in at /\ chat[c].grouped
                                           THEN Append(shown[c], m.id) ELSE shown[c]]
    /\ events' = [events EXCEPT ![st] = Tail(@)]
    /\ UNCHANGED <<vars, list, arrived, page, chat, bubbles, sendVars>>

\* the list's listener: broadcast the message to the pages that listen now, which
\* get it later and drop other peers' (here at once), and add it to its group
Listen(st) ==
    /\ events[st] # <<>>
    /\ LET m == Head(events[st])
       IN  /\ groups' = [groups EXCEPT ![st][m.from] = Append(@, m.id)]
           /\ inbox' = [c \in Caller |-> IF c \in Listening(st) /\ chat[c].peer = m.from
                                           THEN Append(inbox[c], m.id) ELSE inbox[c]]
    /\ events' = [events EXCEPT ![st] = Tail(@)]
    /\ UNCHANGED <<vars, list, arrived, page, chat, shown, bubbles, sendVars>>

\* dispose, once no page lies above the list: the subscription goes, the stream stays
DisposeList(st) ==
    /\ list[st] = "shown" /\ Listening(st) = {}
    /\ list' = [list EXCEPT ![st] = "disposed"] /\ events' = [events EXCEPT ![st] = <<>>]
    /\ groups' = [groups EXCEPT ![st] = Empty]
    /\ UNCHANGED <<vars, arrived, pageVars, sendVars>>

-----------------------------------------------------------------------------
(* _ChatPageState.                                                         *)

\* initState: List.of a group, or of nothing from the "New chat" dialog; and listen
OpenPage(c) ==
    /\ page[c] = "none" /\ Opened < MaxParts
    /\ \E st \in Lists, q \in Peer, grouped \in BOOLEAN :
          /\ list[st] = "shown" /\ (grouped => groups[st][q] # <<>>)
          /\ chat' = [chat EXCEPT ![c] = [list |-> st, peer |-> q, grouped |-> grouped]]
          /\ shown' = [shown EXCEPT ![c] = IF grouped THEN groups[st][q] ELSE <<>>]
    /\ page' = [page EXCEPT ![c] = "open"]
    /\ UNCHANGED <<vars, listVars, inbox, bubbles, sendVars>>

Hear(c) ==
    /\ page[c] = "open" /\ inbox[c] # <<>>
    /\ shown' = [shown EXCEPT ![c] = Append(@, Head(inbox[c]))]
    /\ inbox' = [inbox EXCEPT ![c] = Tail(@)]
    /\ UNCHANGED <<vars, listVars, page, chat, bubbles, sendVars>>

\* dispose; a send call goes on
ClosePage(c) ==
    /\ page[c] = "open" /\ page' = [page EXCEPT ![c] = "closed"]
    /\ inbox' = [inbox EXCEPT ![c] = <<>>] /\ shown' = [shown EXCEPT ![c] = <<>>]
    /\ bubbles' = [bubbles EXCEPT ![c] = <<>>]
    /\ UNCHANGED <<vars, listVars, chat, sendVars>>

\* _send: the button is dead while _sending
Send(c) ==
    /\ page[c] = "open" /\ sending[c] = "idle"
    /\ Len(accepted) + Cardinality({d \in Caller : sending[d] = "calling"}) < MaxLines
    /\ sending' = [sending EXCEPT ![c] = "calling"]
    /\ UNCHANGED <<vars, listVars, pageVars, outcome, author>>

\* sendDirectMessageOverStream, on a thread of its own: the entry of the user,
\* whichever list's stream that is now
AskEntry(c) ==
    LET u == owner[chat[c].list]
    IN  /\ sending[c] = "calling" /\ outcome[c] = <<>> /\ held[c] = NoStream
        /\ \/ Clone(c, u) /\ UNCHANGED outcome
           \/ /\ sessions[u] = NoStream
              /\ outcome' = [outcome EXCEPT ![c] = <<0>>] /\ UNCHANGED vars
        /\ UNCHANGED <<listVars, pageVars, sending, author>>

Submit(c) ==
    /\ Enqueue(c)
    /\ LET ok == accepted' # accepted
       IN  /\ outcome' = [outcome EXCEPT ![c] = <<IF ok THEN Len(accepted') ELSE 0>>]
           /\ author' = IF ok THEN Append(author, c) ELSE author
    /\ UNCHANGED <<listVars, pageVars, sending>>

Succeeded(c) == outcome[c] # <<0>> /\ page[c] = "open"
AddBubble(c) == bubbles' = IF Succeeded(c) THEN [bubbles EXCEPT ![c] = @ \o outcome[c]] ELSE bubbles

\* Mutants of Resume: a failed call is tried again; the bubble is shown whatever
\* the call returns.
ResumeRetries(c) ==
    /\ outcome[c] # <<>> /\ outcome' = [outcome EXCEPT ![c] = <<>>]
    /\ AddBubble(c)
    /\ sending' = [sending EXCEPT ![c] = IF outcome[c] = <<0>> THEN "calling"
                                         ELSE IF Succeeded(c) THEN "pausing" ELSE "idle"]
    /\ UNCHANGED <<vars, listVars, page, chat, shown, inbox, author>>

ResumeAnyway(c) ==
    /\ outcome[c] # <<>> /\ outcome' = [outcome EXCEPT ![c] = <<>>]
    /\ bubbles' = IF page[c] = "open" THEN [bubbles EXCEPT ![c] = Append(@, Len(accepted))] ELSE bubbles
    /\ sending' = [sending EXCEPT ![c] = IF page[c] = "open" THEN "pausing" ELSE "idle"]
    /\ UNCHANGED <<vars, listVars, page, chat, shown, inbox, author>>

\* after the await: the bubble and the second await, of 50 ms, if the call returned
\* and the page is still there; else (setState throws on a disposed page) the finally
Resume(c) ==
    /\ outcome[c] # <<>> /\ outcome' = [outcome EXCEPT ![c] = <<>>]
    /\ AddBubble(c)
    /\ sending' = [sending EXCEPT ![c] = IF Succeeded(c) THEN "pausing" ELSE "idle"]
    /\ UNCHANGED <<vars, listVars, page, chat, shown, inbox, author>>

\* after the pause: the finally (the flag of a page that was left is no one's)
Settle(c) ==
    /\ sending[c] = "pausing" /\ sending' = [sending EXCEPT ![c] = "idle"]
    /\ UNCHANGED <<vars, listVars, pageVars, outcome, author>>

SdkStep(st) == (list[st] # "none" /\ Opened < MaxParts /\ Open(st)) \/ Drain(st) \/ ReadEnds(st) \/ Exit(st)
CallStep(c) == AskEntry(c) \/ Submit(c)

AtRest ==
    /\ \A st \in Stream : list[st] = "disposed" /\ pc[st] \in {"new", "gone"}
    /\ \A c \in Caller : page[c] # "open" /\ sending[c] = "idle"
    /\ UNCHANGED appVars

AppNext ==
    \/ \E st \in Stream : SdkStep(st) /\ UNCHANGED <<listVars, pageVars, sendVars>>
    \/ \E st \in Stream : ShowList(st) \/ Receive(st) \/ Listen(st) \/ DisposeList(st)
    \/ \E c \in Caller : OpenPage(c) \/ ClosePage(c) \/ Send(c)
    \/ \E c \in Caller : CallStep(c) \/ Hear(c) \/ Resume(c) \/ Settle(c)
    \/ AtRest

\* The SDK's threads and calls keep running (each pass of a thread's loop drains
\* first, and its read gives up after 200 ms), and Dart gets to a call's answer and
\* to the end of a pause; the user and the peers need not act.
AppSpec ==
    /\ AppInit /\ [][AppNext]_appVars
    /\ \A st \in Stream : WF_vars(Drain(st)) /\ WF_vars(Exit(st))
    /\ \A c \in Caller : WF_appVars(CallStep(c)) /\ WF_appVars(Resume(c)) /\ WF_appVars(Settle(c))

-----------------------------------------------------------------------------
\* A page opened on a group shows each message of the group once, in the order of
\* the list (main.dart:346-361, 451-457): the copy and the broadcast neither
\* overlap nor leave a gap.
PageFollowsGroup ==
    \A c \in Caller : page[c] = "open" =>
        LET g == groups[chat[c].list][chat[c].peer]
            all == shown[c] \o inbox[c]
        IN  \/ all = g
            \/ ~chat[c].grouped /\ \E k \in 0..Len(g) : all = SubSeq(g, k + 1, Len(g))

\* The bubbles of a page are the lines accepted from it, in order: none for a call
\* that failed, and none missing but the one whose answer is on its way.
BubblesAreAccepted ==
    \A c \in Caller : page[c] = "open" =>
        LET due == bubbles[c] \o (IF outcome[c] = <<0>> THEN <<>> ELSE outcome[c])
        IN  /\ {due[i] : i \in DOMAIN due} = {n \in DOMAIN author : author[n] = c}
            /\ \A i, j \in DOMAIN due : i < j => due[i] < due[j]

\* The send button comes back.
SendEnds == \A c \in Caller : sending[c] # "idle" ~> sending[c] = "idle"
=============================================================================
