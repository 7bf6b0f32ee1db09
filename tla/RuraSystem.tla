------------------------------ MODULE RuraSystem ------------------------------
(***************************************************************************)
(* The client SDK against the server.  Each session is the connection of   *)
(* one SDK call: a login or registration, alone, or followed on the same   *)
(* connection by a history fetch, one direct message, or an open stream.   *)
(* The server's tasks are those of RuraServer; what they read and write    *)
(* are the lines in flight on the connection.                              *)
(***************************************************************************)
EXTENDS RuraServer, Functions

CONSTANTS
    Plans,     \* the calls an application makes: functions from Session to Call
    Accounts,  \* users already in the database file
    MaxFailures \* bound: no connection or server fails when so many have failed

Call == [auth  : {"login", "register"},
         then  : {"nothing", "history", "message", "stream"},
         as    : Credential,       \* the credentials given
         to    : UserId,           \* addressee of its messages
         limit : HistoryLimits,    \* of a history fetch
         posts : Nat,              \* messages it sends
         waits : SUBSET Session]   \* it is made after these calls have returned

Posts(p) == FoldFunction(LAMBDA call, n : call.posts + n, 0, p)

\* passphrases are UNIQUE in the file (db_utils.rs:19), ids fit their column
ASSUME FileAssumption ==
    /\ Accounts \in Seq(Credential) /\ Len(Accounts) <= MaxUserId
    /\ \A u, v \in DOMAIN Accounts : Accounts[u].passphrase = Accounts[v].passphrase => u = v

\* the bounds of RuraServer never stop a request of a planned call
ASSUME PlanAssumption ==
    /\ Plans \subseteq [Session -> Call]
    /\ Commands = {"message", "history", "other"}
    /\ \A p \in Plans : Posts(p) <= MaxSent
    /\ MaxFrames > 2 * MaxSent /\ MaxFailures \in Nat

VARIABLES
    plan,    \* the calls of this behaviour
    step,    \* where a call is
    up,      \* lines the client has written and the server has not read
    down,    \* lines the server has written and the client has not read
    cut,     \* has the connection failed?
    result,  \* what the call returned
    shown,   \* bodies its stream handed to the sink
    known,   \* rows in the database when it asked for the history (history)
    posted   \* messages sent over its stream

calls   == <<plan, step, result, shown, known, posted>>
network == <<up, down, cut>>
allVars == <<vars, calls, network>>

Step    == {"new", "prompt", "auth", "history", "stream", "over"}
Nothing == [status |-> "none", user |-> NoUser, ids |-> {}]

SysInit ==
    /\ StartOn(Accounts)
    /\ plan \in Plans
    /\ step = [s \in Session |-> "new"]
    /\ up = [s \in Session |-> <<>>] /\ down = [s \in Session |-> <<>>]
    /\ cut = [s \in Session |-> FALSE]
    /\ result = [s \in Session |-> Nothing]
    /\ shown = [s \in Session |-> <<>>]
    /\ known = [s \in Session |-> 0] /\ posted = [s \in Session |-> 0]

-----------------------------------------------------------------------------
(* The client's side of a connection.                                      *)

Proceed(s, next) == step' = [step EXCEPT ![s] = next]

Return(s, status, user, ids) ==
    result' = [result EXCEPT ![s] = [status |-> status, user |-> user, ids |-> ids]]

\* the call is over, without writing anything more
Finish(s, status, user, ids) ==
    Proceed(s, "over") /\ Return(s, status, user, ids) /\ UNCHANGED <<up, known>>

Fail(s) == Finish(s, "failed", NoUser, {})

Write(s, line) == up' = [up EXCEPT ![s] = Append(@, line)]

\* make_tls_stream; a call that cannot connect is one that is not made
Dial(s) ==
    /\ step[s] = "new"
    /\ \A t \in plan[s].waits : result[t].status # "none"
    /\ Proceed(s, "prompt")
    /\ UNCHANGED <<vars, network, plan, result, shown, known, posted>>

\* after the prompt, which is not looked at: the credentials; an error of
\* write_all or flush, here and below, fails the call
AskAuth(s) ==
    \/ Write(s, plan[s].auth) /\ Proceed(s, "auth") /\ UNCHANGED <<result, known>>
    \/ cut[s] /\ Fail(s)

AskHistory(s, user) ==
    \/ /\ Write(s, "history") /\ Proceed(s, "history") /\ Return(s, "none", user, {})
       /\ known' = [known EXCEPT ![s] = Len(messages)]
    \/ cut[s] /\ Fail(s)

\* Mutant: the line stays in the writer's buffer when the connection closes.
SendUnflushed(s, user) == Finish(s, "ok", user, {})

\* "Message sent": written, flushed and closed; there is no answer to wait for
SendAndClose(s, user) ==
    \/ /\ Write(s, "message") /\ Proceed(s, "over") /\ Return(s, "ok", user, {})
       /\ UNCHANGED known
    \/ cut[s] /\ Fail(s)

\* what the call does once it is logged in
Continue(s, user) ==
    \/ plan[s].then = "nothing" /\ Finish(s, "ok", user, {})
    \/ plan[s].then = "history" /\ AskHistory(s, user)
    \/ plan[s].then = "message" /\ SendAndClose(s, user)
    \/ plan[s].then = "stream" /\ Proceed(s, "stream") /\ Return(s, "ok", user, {})
                               /\ UNCHANGED <<up, known>>

\* Mutant: refused, the call tries again.
HearAuthRetries(s, line) ==
    \/ line.command # "auth_response" /\ Fail(s)
    \/ line.command = "auth_response" /\ line.user = NoUser /\ AskAuth(s)
    \/ line.command = "auth_response" /\ line.user # NoUser /\ Continue(s, line.user)

HearAuth(s, line) ==
    \/ line.command # "auth_response" /\ Fail(s)
    \/ line.command = "auth_response" /\ line.user = NoUser /\ Finish(s, "refused", NoUser, {})
    \/ line.command = "auth_response" /\ line.user # NoUser /\ Continue(s, line.user)

\* the first line after the request is taken for its answer
HearHistory(s, line) ==
    \/ line.command = "history_response" /\ line.success
       /\ Finish(s, "ok", result[s].user, line.ids)
    \/ line.command # "history_response" /\ Fail(s)
    \/ line.command = "history_response" /\ ~line.success /\ Fail(s)

\* Mutant: lines that were cut stay in the accumulator.
ShowUndrained(s, line) ==
    /\ shown' = IF line.command = "message" THEN [shown EXCEPT ![s] = @ \o Append(@, line.body)] ELSE shown
    /\ UNCHANGED <<step, result, up, known>>

\* the stream's thread hands on what is a message
Show(s, line) ==
    /\ shown' = IF line.command = "message" THEN [shown EXCEPT ![s] = Append(@, line.body)] ELSE shown
    /\ UNCHANGED <<step, result, up, known>>

\* Mutant: the credentials are written without waiting for the prompt.
HearUnprompted(s) ==
    /\ \/ step[s] = "prompt" /\ AskAuth(s) /\ UNCHANGED <<shown, down>>
       \/ /\ down[s] # <<>> /\ down' = [down EXCEPT ![s] = Tail(@)]
          /\ \/ step[s] = "auth" /\ HearAuth(s, Head(down[s])) /\ UNCHANGED shown
             \/ step[s] = "history" /\ HearHistory(s, Head(down[s])) /\ UNCHANGED shown
             \/ step[s] = "stream" /\ Show(s, Head(down[s]))
    /\ UNCHANGED <<vars, cut, plan, posted>>

\* one line is read
Hear(s) ==
    LET line == Head(down[s])
    IN  /\ down[s] # <<>> /\ down' = [down EXCEPT ![s] = Tail(@)]
        /\ \/ step[s] = "prompt" /\ AskAuth(s) /\ UNCHANGED shown
           \/ step[s] = "auth" /\ HearAuth(s, line) /\ UNCHANGED shown
           \/ step[s] = "history" /\ HearHistory(s, line) /\ UNCHANGED shown
           \/ step[s] = "stream" /\ Show(s, line)
        /\ UNCHANGED <<vars, cut, plan, posted>>

\* end of file or an error is read
HearNothing(s) ==
    /\ cut[s] \/ (pc[s] \in Over /\ down[s] = <<>>)
    /\ \/ step[s] = "prompt" /\ AskAuth(s)
       \/ step[s] \in {"auth", "history"} /\ Fail(s)
       \/ step[s] = "stream" /\ Proceed(s, "over") /\ UNCHANGED <<result, up, known>>
    /\ UNCHANGED <<vars, down, cut, plan, shown, posted>>

\* the stream's thread writes a message the application queued (StreamClient)
StreamSend(s) ==
    /\ step[s] = "stream" /\ posted[s] < plan[s].posts
    /\ posted' = [posted EXCEPT ![s] = @ + 1]
    /\ Write(s, "message") \/ (cut[s] /\ UNCHANGED up)
    /\ UNCHANGED <<vars, down, cut, plan, step, result, shown, known>>

-----------------------------------------------------------------------------
(* The server's side.                                                      *)

\* a write of the server fails on a connection that failed or was closed
WriteFails(s) == cut[s] \/ step[s] = "over"

Deliver(s, line) == down' = [down EXCEPT ![s] = Append(@, line)]

TaskAccepts(s) ==
    /\ step[s] # "new" /\ Accept(s) /\ (pc'[s] = "closed" <=> cut[s])
    /\ UNCHANGED <<calls, network>>

TaskGreets(s) ==
    /\ Greet(s)
    /\ \/ pc'[s] = "unauth" /\ Deliver(s, [command |-> "auth_required"])
       \/ pc'[s] = "closed" /\ WriteFails(s) /\ UNCHANGED down
    /\ UNCHANGED <<calls, up, cut>>

TaskReplies(s) ==
    /\ WriteReply(s)
    /\ \/ pc'[s] # "closed" /\ Deliver(s, [command |-> "auth_response", user |-> reply[s]])
       \/ pc'[s] = "closed" /\ WriteFails(s) /\ UNCHANGED down
    /\ UNCHANGED <<calls, up, cut>>

TaskRoutes(s) ==
    /\ Enroll(s) \/ LookUp(s) \/ Push(s) \/ Respond(s) \/ Cleanup(s)
    /\ UNCHANGED <<calls, network>>

Handle(s, line) ==
    \/ line = "login"    /\ Login(s, plan[s].as)
    \/ line = "register" /\ Register(s, plan[s].as)
    \/ line = "history"  /\ ReadHistory(s, plan[s].limit)
    \/ line = "message"  /\ ReadMessage(s, plan[s].to, FALSE)

\* one read; lines that arrived together are one text that does not parse
TaskReads(s) ==
    /\ \E n \in DOMAIN up[s] :
          /\ up' = [up EXCEPT ![s] = SubSeq(@, n + 1, Len(@))]
          /\ \/ n = 1 /\ Handle(s, Head(up[s]))
             \/ n > 1 /\ ReadOther(s) /\ Enqueue(s, [command |-> "error"])
    /\ UNCHANGED <<calls, down, cut>>

TaskWrites(s) ==
    /\ Recv(s)
    /\ Deliver(s, chan[s][written[s] + 1])
    /\ UNCHANGED <<calls, up, cut>>

\* End of file is read after the lines that precede it; a reset, which answers
\* what is written to a client that closed, may come before them.
TaskEnds(s) ==
    /\ Disconnect(s)
    /\ \/ cut[s]
       \/ step[s] = "over" /\ (up[s] = <<>> \/ down[s] # <<>> \/ written[s] < Len(chan[s]))
    /\ UNCHANGED <<calls, network>>

MayFail == Cardinality({s \in Session : cut[s]}) < MaxFailures

Break(s) ==
    /\ MayFail /\ step[s] # "new" /\ pc[s] \notin Over /\ ~cut[s]
    /\ cut' = [cut EXCEPT ![s] = TRUE]
    /\ UNCHANGED <<vars, calls, up, down>>

ServerDies ==
    /\ MayFail /\ Crash
    /\ cut' = [s \in Session |-> cut[s] \/ step[s] # "new"]
    /\ UNCHANGED <<calls, up, down>>

\* every call has returned, and streams have nothing in flight
AtRest ==
    /\ \A s \in Session :
          \/ step[s] = "over" /\ pc[s] \in Over
          \/ step[s] = "stream" /\ pc[s] = "loop" /\ up[s] = <<>> /\ down[s] = <<>>
    /\ UNCHANGED allVars

TaskStep(s) == TaskAccepts(s) \/ TaskGreets(s) \/ TaskReplies(s) \/ TaskRoutes(s)

SysNext ==
    \/ \E s \in Session :
          \/ Dial(s) \/ Hear(s) \/ HearNothing(s) \/ StreamSend(s) \/ Break(s)
          \/ TaskStep(s) \/ TaskReads(s) \/ TaskWrites(s) \/ TaskEnds(s)
    \/ ServerDies \/ AtRest

Progress(s) == TaskStep(s) \/ TaskReads(s) \/ TaskWrites(s) \/ Hear(s) \/ (TaskEnds(s) /\ ~cut[s])

(* A task or a client that can run, does: weaker than RuraServer's fairness, *)
(* and enough because the calls and their messages are finitely many.  A     *)
(* connection that fails need not be noticed by anyone: the one timeout, the *)
(* 200 ms of the stream's reads (api.rs:373), only makes its loop go on.     *)
SysFairness == WF_allVars(\E s \in Session : Progress(s))

SysSpec == SysInit /\ [][SysNext]_allVars /\ SysFairness

-----------------------------------------------------------------------------
(* What an application may rely on.                                        *)

Owns(u, i) == messages[i].sender = u \/ messages[i].receiver = u

\* A call logs in to the account whose credentials it gave, and the history it
\* returns is that account's: nobody else's rows, and every row stored before
\* it asked, unless the page is full.
BundleIsOwnHistory ==
    \A s \in Session : result[s].status = "ok" =>
        LET u == result[s].user  ids == result[s].ids IN
        /\ users[u] = plan[s].as
        /\ \A i \in ids : Owns(u, i)
        /\ plan[s].then = "history" =>
              \/ \A i \in 1..known[s] : Owns(u, i) => i \in ids
              \/ Cardinality(ids) = plan[s].limit

\* An application that loads the history and then opens a stream: of each
\* sender's messages, the stream shows none older than one in the history, so
\* that at most the newest of them can appear twice.
SnapshotPrecedesStream ==
    \A h, t \in Session :
        h \in plan[t].waits /\ plan[h].as = plan[t].as =>
            \A i \in result[h].ids : \A k \in DOMAIN shown[t] :
                LET stored == messages[i].content  live == shown[t][k] IN
                sent[stored].by = sent[live].by => stored <= live

\* From the sender's line to the addressee's sink: a stream shows requests that
\* were made to its user, none twice, on this stream or another, and those of
\* one sender's connection in the order in which it wrote them.
ShownIsMail ==
    \A s, t \in Session : \A i \in DOMAIN shown[s], k \in DOMAIN shown[t] :
        LET m == shown[s][i]  n == shown[t][k] IN
        /\ m \in DOMAIN sent /\ sent[m].to = result[s].user
        /\ m = n => s = t /\ i = k
        /\ s = t /\ i < k /\ sent[m].by = sent[n].by => m < n

\* On a connection that holds, a history call fails only when a message was
\* pushed to it before its answer.
HistoryFailsOnlyWhenPushed ==
    \A s \in Session :
        plan[s].then = "history" /\ result[s].status = "failed" /\ ~cut[s] /\ ~DbFaults
        => chan[s] # <<>> /\ chan[s][1].command = "message"

\* docs/PROTOCOL.md:39 "Messages are delivered to online recipients": the user
\* of an open stream, in its message loop, has a route.
StreamStaysRouted ==
    \A s \in Session : step[s] = "stream" /\ pc[s] = "loop" => registry[uid[s]] # NoSession

\* A call that has connected returns, or its connection has failed: no answer
\* it waits for is forgotten.
CallReturns ==
    \A s \in Session : (step[s] = "prompt") ~> (result[s].status # "none" \/ cut[s])

\* Messages put on a stream's channel that have not reached the sink.
Unshown(s) == Cardinality({i \in DOMAIN chan[s] : chan[s][i].command = "message"}) > Len(shown[s])

\* A message put on the channel of a stream reaches the application's sink.
PushedIsShown ==
    \A s \in Session : (step[s] = "stream" /\ Unshown(s)) ~> (cut[s] \/ ~Unshown(s))

\* A one-shot call that reported "Message sent" had its message handled, unless
\* the connection failed or something was pushed to it, whose write to the
\* closed connection ends the task first.
SentIsHandled ==
    \A s \in Session :
        <>(plan[s].then = "message" /\ result[s].status = "ok")
            => <>(cut[s] \/ chan[s] # <<>> \/ \E n \in DOMAIN sent : sent[n].by = s)
=============================================================================
