----------------------------- MODULE SystemProofs -----------------------------
(***************************************************************************)
(* What an application may rely on, for any plan of calls, any number of   *)
(* them, and whatever connections, servers and databases do.               *)
(***************************************************************************)
EXTENDS RuraSystem, RuraServerProofs

USE SessionAssumption, UserAssumption DEF NoUser, UserId

-----------------------------------------------------------------------------
(* The invariant.                                                          *)

Text    == {"login", "register", "history", "message"}
Line    == Frame \cup [command : {"auth_required"}]
                 \cup [command : {"auth_response"}, user : UserId \cup {NoUser}]
Outcome == [status : {"none", "ok", "refused", "failed"}, user : UserId \cup {NoUser}, ids : SUBSET Nat]

SysTypeOK ==
    /\ plan \in [Session -> Call]
    /\ step \in [Session -> Step]
    /\ up \in [Session -> Seq(Text)] /\ down \in [Session -> Seq(Line)]
    /\ cut \in [Session -> BOOLEAN]
    /\ result \in [Session -> Outcome]
    /\ shown \in [Session -> Seq(Nat)] /\ known \in [Session -> Nat]

\* A call not made yet has no connection.
NewIsIdle ==
    \A s \in Session : step[s] = "new" =>
        /\ pc[s] = "idle" /\ ~cut[s]
        /\ up[s] = <<>> /\ down[s] = <<>> /\ shown[s] = <<>>

\* A task was given the credentials of its call only.
CredOfPlan == \A s \in Session : cred[s] \in {<<>>, <<plan[s].as>>}

\* A line on its way is the prompt, an answer to the credentials that names the
\* user the task has, or a frame the task has written.
LinesAreTrue ==
    \A s \in Session : \A k \in DOMAIN down[s] : LET line == down[s][k] IN
        \/ line.command = "auth_required"
        \/ line.command = "auth_response" /\ line.user \in {NoUser, uid[s]}
        \/ \E j \in 1..written[s] : line = chan[s][j]

\* A stream shows what was put on its channel as messages.
ShownIsPushed ==
    \A s \in Session : \A k \in DOMAIN shown[s] : \E j \in 1..written[s] :
        chan[s][j].command = "message" /\ chan[s][j].body = shown[s][k]

\* A page answered on the session is of its user's rows and has all it asked for.
OwnPage(s, ids) ==
    /\ uid[s] # NoUser
    /\ \A i \in ids : i \in DOMAIN messages /\ Owns(uid[s], i)
    /\ (\A i \in 1..known[s] : Owns(uid[s], i) => i \in ids) \/ Cardinality(ids) = plan[s].limit

\* The frames a session has been answered with or pushed, or is about to be.
Made(s) == {chan[s][j] : j \in DOMAIN chan[s]} \cup {answer[s][k] : k \in DOMAIN answer[s]}

\* The history is asked for once, and only answered after it was.
PagesAreOwn ==
    \A s \in Session :
        /\ known[s] <= Len(messages)
        /\ (\E n \in DOMAIN up[s] : up[s][n] = "history") => step[s] \in {"history", "over"}
        /\ \A f \in Made(s) : f.command = "history_response" /\ f.success =>
              step[s] \in {"history", "over"} /\ OwnPage(s, f.ids)

\* What a call has returned, and what it has learnt before it returns.
ResultsAreTrue ==
    \A s \in Session : LET r == result[s] IN
        /\ step[s] \in {"new", "prompt", "auth", "history"} <=> r.status = "none"
        /\ step[s] = "stream" => r.status = "ok"
        /\ step[s] = "history" \/ r.status = "ok" => r.user = uid[s] /\ uid[s] # NoUser
        /\ \/ r.ids = {} /\ (r.status = "ok" => plan[s].then # "history")
           \/ r.status = "ok" /\ OwnPage(s, r.ids)

SysInv ==
    /\ SysTypeOK /\ NewIsIdle /\ CredOfPlan
    /\ LinesAreTrue /\ ShownIsPushed /\ PagesAreOwn /\ ResultsAreTrue

\* The request a task routes is the last one it has read.
RoutesItsLast ==
    \A s \in Session : \A n \in DOMAIN sent : out[s] # 0 /\ sent[n].by = s => n <= out[s]

\* SnapshotPrecedesStream of all that is on the channel, once the call is made.
ChannelFollowsSnapshot ==
    \A t \in Session : step[t] # "new" => \A h \in plan[t].waits :
        /\ result[h].status # "none"
        /\ \A i \in result[h].ids : \A j \in DOMAIN chan[t] :
              LET m == messages[i].content  f == chan[t][j] IN
              f.command = "message" /\ sent[m].by = sent[f.body].by => m <= f.body

\* How a history call and its task stand to each other while the connection holds:
\* before the prompt is read, from the credentials to their answer, and after it.
Asking == {"prompt", "auth", "history"}

FirstIs(s, k) == written[s] > 0 => down[s][k] = chan[s][1]

Prompted(s) ==
    /\ up[s] = <<>>
    /\ \/ pc[s] \in {"idle", "greet"} /\ down[s] = <<>>
       \/ pc[s] = "unauth" /\ Len(down[s]) = 1

Answered(s) ==
    /\ up[s] = <<>> /\ down[s] # <<>> /\ down[s][1].command = "auth_response"
    /\ pc[s] \in {"enroll", "loop"} \/ (pc[s] = "unauth" /\ down[s][1].user = NoUser)
    /\ Len(down[s]) = written[s] + 1 /\ FirstIs(s, 2)

LoggingIn(s) ==
    \/ pc[s] = "unauth" /\ Len(up[s]) = 1 /\ down[s] = <<>>
    \/ pc[s] = "reply" /\ up[s] = <<>> /\ down[s] = <<>>
    \/ Answered(s)

Fetching(s) ==
    /\ \/ pc[s] \in {"enroll", "loop"} /\ up[s] \in {<<>>, <<"history">>}
       \/ pc[s] = "respond" /\ up[s] = <<>>
    /\ Len(down[s]) = written[s] /\ FirstIs(s, 1)

Expected(s) ==
    \A f \in Made(s) :
        \/ f.command = "message"
        \/ f.command = "history_response" /\ (f.success \/ DbFaults)

Excused(s) == DbFaults \/ (written[s] > 0 /\ chan[s][1].command = "message")

Conversation ==
    \A s \in Session : plan[s].then = "history" /\ ~cut[s] =>
        /\ step[s] = "prompt" => Prompted(s)
        /\ step[s] = "auth" => LoggingIn(s)
        /\ step[s] = "history" => Fetching(s)
        /\ step[s] \in Asking => Expected(s)
        /\ step[s] = "over" /\ result[s].status = "failed" => Excused(s)

\* Only a stream shows anything.
ShownByStreams == \A s \in Session : shown[s] # <<>> => result[s].status = "ok"

\* Of the first n frames of a channel, two are messages with these bodies, in this order.
Before(frames, n, a, b) ==
    \E i, j \in 1..n :
        /\ i < j
        /\ frames[i].command = "message" /\ frames[i].body = a
        /\ frames[j].command = "message" /\ frames[j].body = b

\* What is shown, and after it what is on its way, is in the order of the channel.
Ordered(s) ==
    /\ \A i, k \in DOMAIN shown[s] : i < k => Before(chan[s], written[s], shown[s][i], shown[s][k])
    /\ \A i \in DOMAIN shown[s], k \in DOMAIN down[s] :
          down[s][k].command = "message" => Before(chan[s], written[s], shown[s][i], down[s][k].body)
    /\ \A i, k \in DOMAIN down[s] :
          i < k /\ down[s][i].command = "message" /\ down[s][k].command = "message"
          => Before(chan[s], written[s], down[s][i].body, down[s][k].body)

ShownInOrder == \A s \in Session : Ordered(s)

-----------------------------------------------------------------------------
(* The kinds of steps.                                                     *)

\* A line put at the end of a queue.
LEMMA PutFacts ==
    ASSUME NEW S, NEW q \in [Session -> Seq(S)], NEW s \in Session, NEW e \in S,
           NEW r, r = [q EXCEPT ![s] = Append(@, e)]
    PROVE  /\ r \in [Session -> Seq(S)] /\ \A t \in Session \ {s} : r[t] = q[t]
           /\ Len(q[s]) \in Nat /\ DOMAIN q[s] = 1..Len(q[s])
           /\ Len(r[s]) = Len(q[s]) + 1 /\ DOMAIN r[s] = 1..(Len(q[s]) + 1)
           /\ \A i \in 1..Len(q[s]) : r[s][i] = q[s][i]
           /\ r[s][Len(q[s]) + 1] = e
<1>1. q[s] \in Seq(S) /\ r[s] = Append(q[s], e)
  OBVIOUS
<1>2. Append(q[s], e) \in Seq(S)
  BY <1>1, AppendFacts
<1> QED BY <1>1, <1>2, AppendFacts

\* A line taken from the front of one.
LEMMA TakeFacts ==
    ASSUME NEW S, NEW q \in [Session -> Seq(S)], NEW s \in Session, q[s] # <<>>,
           NEW r, r = [q EXCEPT ![s] = Tail(@)]
    PROVE  /\ r \in [Session -> Seq(S)] /\ \A t \in Session \ {s} : r[t] = q[t]
           /\ Len(q[s]) \in Nat /\ Len(q[s]) >= 1 /\ DOMAIN q[s] = 1..Len(q[s])
           /\ Head(q[s]) = q[s][1] /\ Head(q[s]) \in S
           /\ Len(r[s]) = Len(q[s]) - 1 /\ DOMAIN r[s] = 1..(Len(q[s]) - 1)
           /\ \A i \in 1..(Len(q[s]) - 1) : r[s][i] = q[s][i + 1]
<1> DEFINE a == q[s]  b == Tail(q[s])
<1>1. a \in Seq(S) /\ a # <<>> /\ r[s] = b
  OBVIOUS
<1>2. /\ b \in Seq(S) /\ Len(a) \in Nat /\ Len(a) >= 1 /\ DOMAIN a = 1..Len(a)
      /\ Head(a) = a[1] /\ Head(a) \in S
      /\ Len(b) = Len(a) - 1 /\ DOMAIN b = 1..(Len(a) - 1)
      /\ \A i \in 1..(Len(a) - 1) : b[i] = a[i + 1]
  OBVIOUS
<1>3. r \in [Session -> Seq(S)] /\ \A t \in Session \ {s} : r[t] = q[t]
  BY <1>2
<1> QED BY <1>1, <1>2, <1>3

Heard(s)   == down[s] # <<>> /\ down' = [down EXCEPT ![s] = Tail(@)]
Unheard(s) == down' = down /\ (cut[s] \/ pc[s] \in Over)

Outcomes(status, user, ids) == [status |-> status, user |-> user, ids |-> ids]

\* Where a call goes, with what result, what it knows, and what it has written.
To(s, next, outcome, rows, lines) ==
    step'[s] = next /\ result'[s] = outcome /\ known'[s] = rows /\ up'[s] = lines

\* Other calls stay; the functions stay functions.
Elsewhere(s) ==
    /\ \A t \in Session \ {s} : To(t, step[t], result[t], known[t], up[t])
    /\ step' = [t \in Session |-> step'[t]] /\ result' = [t \in Session |-> result'[t]]
    /\ known' = [t \in Session |-> known'[t]] /\ up' = [t \in Session |-> up'[t]]

\* Why a call fails: its connection, or a line that is not the answer.
Disappointed(s) ==
    \/ cut[s] /\ (Heard(s) \/ Unheard(s))
    \/ Heard(s) /\ step[s] = "auth" /\ Head(down[s]).command # "auth_response"
    \/ Heard(s) /\ step[s] = "history" /\ ~(Head(down[s]).command = "history_response" /\ Head(down[s]).success)
    \/ Unheard(s) /\ step[s] \in {"auth", "history"}

FailMove(s) ==
    step[s] \in Asking /\ Disappointed(s) /\ To(s, "over", Outcomes("failed", NoUser, {}), known[s], up[s])

AuthMove(s) ==
    \/ /\ step[s] = "prompt" /\ (Heard(s) \/ Unheard(s))
       /\ To(s, "auth", result[s], known[s], Append(up[s], plan[s].auth))
    \/ /\ step[s] = "auth" /\ Heard(s)
       /\ Head(down[s]).command = "auth_response" /\ Head(down[s]).user = NoUser
       /\ To(s, "over", Outcomes("refused", NoUser, {}), known[s], up[s])

LoginMove(s) ==
    /\ step[s] = "auth" /\ Heard(s)
    /\ Head(down[s]).command = "auth_response" /\ Head(down[s]).user # NoUser
    /\ \/ /\ plan[s].then = "history"
          /\ To(s, "history", Outcomes("none", Head(down[s]).user, {}), Len(messages), Append(up[s], "history"))
       \/ /\ plan[s].then # "history"
          /\ \E next \in {"over", "stream"}, lines \in {up[s], Append(up[s], "message")} :
                To(s, next, Outcomes("ok", Head(down[s]).user, {}), known[s], lines)

PageMove(s) ==
    /\ step[s] = "history" /\ Heard(s)
    /\ Head(down[s]).command = "history_response" /\ Head(down[s]).success
    /\ To(s, "over", Outcomes("ok", result[s].user, Head(down[s]).ids), known[s], up[s])

StreamMove(s) ==
    /\ step[s] = "stream"
    /\ \/ Heard(s) /\ To(s, "stream", result[s], known[s], up[s])
       \/ Unheard(s) /\ shown'[s] = shown[s] /\ To(s, "over", result[s], known[s], up[s])
       \/ /\ down' = down /\ shown'[s] = shown[s]
          /\ \E lines \in {up[s], Append(up[s], "message")} : To(s, "stream", result[s], known[s], lines)

DialMove(s) ==
    /\ step[s] = "new" /\ down' = down
    /\ \A t \in plan[s].waits : result[t].status # "none"
    /\ To(s, "prompt", result[s], known[s], up[s])

\* A call moves by itself: of its own variables, while the server is at rest.
CallMove(s) ==
    /\ UNCHANGED <<vars, cut, plan>>
    /\ Elsewhere(s) /\ \A t \in Session \ {s} : shown'[t] = shown[t]
    /\ \/ shown' = shown
       \/ step[s] = "stream" /\ Heard(s) /\ Head(down[s]).command = "message"
          /\ shown' = [shown EXCEPT ![s] = Append(@, Head(down[s]).body)]
    /\ DialMove(s) \/ AuthMove(s) \/ FailMove(s) \/ LoginMove(s) \/ PageMove(s) \/ StreamMove(s)

LEMMA Unchanged ==
    ASSUME SysTypeOK
    PROVE  /\ step' = step => step' = [t \in Session |-> step'[t]]
           /\ result' = result => result' = [t \in Session |-> result'[t]]
           /\ known' = known => known' = [t \in Session |-> known'[t]]
           /\ up' = up => up' = [t \in Session |-> up'[t]]
  BY DEF SysTypeOK

LEMMA DialKind ==
    ASSUME SysTypeOK, NEW s \in Session, Dial(s)
    PROVE  CallMove(s)
<1>1. step' = [step EXCEPT ![s] = "prompt"]
  BY DEF Dial, Proceed
<1>2. DialMove(s)
  BY <1>1 DEF Dial, DialMove, To, SysTypeOK, network
<1>3. step' = [t \in Session |-> step'[t]]
  BY <1>1 DEF SysTypeOK
<1> QED BY <1>1, <1>2, <1>3, Unchanged DEF Dial, CallMove, To, Elsewhere, SysTypeOK, network

\* What the helpers of a call change.
LEMMA Helpers ==
    ASSUME SysTypeOK, NEW s \in Session
    PROVE  /\ \A next : Proceed(s, next) =>
                 /\ step'[s] = next /\ step' = [t \in Session |-> step'[t]]
                 /\ \A t \in Session \ {s} : step'[t] = step[t]
           /\ \A status, user, ids : Return(s, status, user, ids) =>
                 /\ result'[s] = Outcomes(status, user, ids) /\ result' = [t \in Session |-> result'[t]]
                 /\ \A t \in Session \ {s} : result'[t] = result[t]
           /\ \A line : Write(s, line) =>
                 /\ up'[s] = Append(up[s], line) /\ up' = [t \in Session |-> up'[t]]
                 /\ \A t \in Session \ {s} : up'[t] = up[t]
  BY DEF SysTypeOK, Proceed, Return, Write, Outcomes

LEMMA FinishFacts ==
    ASSUME SysTypeOK, NEW s \in Session, NEW status, NEW user, NEW ids, Finish(s, status, user, ids)
    PROVE  /\ To(s, "over", Outcomes(status, user, ids), known[s], up[s])
           /\ Elsewhere(s)
  BY Helpers, Unchanged DEF Finish, To, Elsewhere

LEMMA AskAuthFacts ==
    ASSUME SysTypeOK, NEW s \in Session, AskAuth(s), step[s] = "prompt", Heard(s) \/ Unheard(s)
    PROVE  /\ AuthMove(s) \/ FailMove(s)
           /\ Elsewhere(s)
<1>1. CASE Write(s, plan[s].auth) /\ Proceed(s, "auth") /\ UNCHANGED <<result, known>>
  BY <1>1, Helpers, Unchanged DEF To, AuthMove, Elsewhere
<1>2. CASE cut[s] /\ Fail(s)
  BY <1>2, FinishFacts DEF Fail, FailMove, Disappointed, Asking
<1> QED BY <1>1, <1>2 DEF AskAuth

LEMMA ContinueFacts ==
    ASSUME SysTypeOK, NEW s \in Session, step[s] = "auth", Heard(s),
           Head(down[s]).command = "auth_response", Head(down[s]).user # NoUser,
           Continue(s, Head(down[s]).user)
    PROVE  /\ LoginMove(s) \/ FailMove(s)
           /\ Elsewhere(s)
<1> DEFINE user == Head(down[s]).user
<1>1. ASSUME cut[s], Fail(s)
      PROVE  /\ FailMove(s)
             /\ Elsewhere(s)
  BY <1>1, FinishFacts DEF Fail, FailMove, Disappointed, Asking
<1>2. CASE plan[s].then = "nothing" /\ Finish(s, "ok", user, {})
  BY <1>2, FinishFacts DEF LoginMove
<1>3. CASE plan[s].then = "history" /\ AskHistory(s, user)
  <2>1. CASE /\ Write(s, "history") /\ Proceed(s, "history") /\ Return(s, "none", user, {})
             /\ known' = [known EXCEPT ![s] = Len(messages)]
    <3>1. known'[s] = Len(messages) /\ known' = [t \in Session |-> known'[t]] /\ \A t \in Session \ {s} : known'[t] = known[t]
      BY <2>1 DEF SysTypeOK
    <3> QED BY <1>3, <2>1, <3>1, Helpers, Unchanged DEF To, LoginMove, Elsewhere
  <2> QED BY <1>1, <1>3, <2>1 DEF AskHistory
<1>4. CASE plan[s].then = "message" /\ SendAndClose(s, user)
  <2>1. CASE /\ Write(s, "message") /\ Proceed(s, "over") /\ Return(s, "ok", user, {})
             /\ UNCHANGED known
    <3>1. To(s, "over", Outcomes("ok", user, {}), known[s], Append(up[s], "message"))
      BY <2>1, Helpers, Unchanged DEF To
    <3> QED BY <1>4, <2>1, <3>1, Helpers, Unchanged DEF To, LoginMove, Elsewhere
  <2> QED BY <1>1, <1>4, <2>1 DEF SendAndClose
<1>5. CASE plan[s].then = "stream" /\ Proceed(s, "stream") /\ Return(s, "ok", user, {}) /\ UNCHANGED <<up, known>>
  <2>1. To(s, "stream", Outcomes("ok", user, {}), known[s], up[s])
    BY <1>5, Helpers, Unchanged DEF To
  <2> QED BY <1>5, <2>1, Helpers, Unchanged DEF To, LoginMove, Elsewhere
<1> QED BY <1>2, <1>3, <1>4, <1>5 DEF Continue

LEMMA HearKind ==
    ASSUME SysTypeOK, NEW s \in Session, Hear(s)
    PROVE  CallMove(s)
<1> DEFINE line == Head(down[s])
<1>0. Heard(s) /\ UNCHANGED <<vars, cut, plan>>
  BY DEF Hear, Heard
<1>1. CASE step[s] = "prompt" /\ AskAuth(s) /\ UNCHANGED shown
  BY <1>0, <1>1, AskAuthFacts DEF CallMove
<1>2. CASE step[s] = "auth" /\ HearAuth(s, line) /\ UNCHANGED shown
  <2>1. CASE line.command # "auth_response" /\ Fail(s)
    BY <1>0, <1>2, <2>1, FinishFacts DEF Fail, FailMove, Disappointed, Asking, CallMove
  <2>2. CASE line.command = "auth_response" /\ line.user = NoUser /\ Finish(s, "refused", NoUser, {})
    BY <1>0, <1>2, <2>2, FinishFacts DEF AuthMove, CallMove
  <2>3. CASE line.command = "auth_response" /\ line.user # NoUser /\ Continue(s, line.user)
    BY <1>0, <1>2, <2>3, ContinueFacts DEF CallMove
  <2> QED BY <1>2, <2>1, <2>2, <2>3 DEF HearAuth
<1>3. CASE step[s] = "history" /\ HearHistory(s, line) /\ UNCHANGED shown
  <2>1. CASE line.command = "history_response" /\ line.success /\ Finish(s, "ok", result[s].user, line.ids)
    BY <1>0, <1>3, <2>1, FinishFacts DEF PageMove, CallMove
  <2>2. CASE ~(line.command = "history_response" /\ line.success) /\ Fail(s)
    BY <1>0, <1>3, <2>2, FinishFacts DEF Fail, FailMove, Disappointed, Asking, CallMove
  <2> QED BY <1>3, <2>1, <2>2 DEF HearHistory
<1>4. CASE step[s] = "stream" /\ Show(s, line)
  <2>1. /\ UNCHANGED <<step, result, up, known>> /\ \A t \in Session \ {s} : shown'[t] = shown[t]
        /\ \/ shown' = shown
           \/ line.command = "message" /\ shown' = [shown EXCEPT ![s] = Append(@, line.body)]
    BY <1>4 DEF Show, SysTypeOK
  <2> QED BY <1>0, <1>4, <2>1, Unchanged DEF StreamMove, CallMove, To, Elsewhere
<1> QED BY <1>1, <1>2, <1>3, <1>4 DEF Hear

LEMMA HearNothingKind ==
    ASSUME SysTypeOK, NEW s \in Session, HearNothing(s)
    PROVE  CallMove(s)
<1>0. Unheard(s) /\ UNCHANGED <<vars, cut, plan, shown>>
  BY DEF HearNothing, Unheard
<1>1. CASE step[s] = "prompt" /\ AskAuth(s)
  BY <1>0, <1>1, AskAuthFacts DEF CallMove
<1>2. CASE step[s] \in {"auth", "history"} /\ Fail(s)
  BY <1>0, <1>2, FinishFacts DEF Fail, FailMove, Disappointed, Asking, CallMove
<1>3. CASE step[s] = "stream" /\ Proceed(s, "over") /\ UNCHANGED <<result, up, known>>
  BY <1>0, <1>3, Helpers, Unchanged DEF StreamMove, CallMove, To, Elsewhere
<1> QED BY <1>1, <1>2, <1>3 DEF HearNothing

LEMMA SendKind ==
    ASSUME SysTypeOK, NEW s \in Session, StreamSend(s)
    PROVE  CallMove(s)
<1>1. /\ up'[s] \in {up[s], Append(up[s], "message")} /\ up' = [t \in Session |-> up'[t]]
      /\ \A t \in Session \ {s} : up'[t] = up[t]
  BY Helpers, Unchanged DEF StreamSend
<1> QED BY <1>1, Unchanged DEF StreamSend, StreamMove, CallMove, To, Elsewhere

\* A task writes a line: the prompt, its answer to the credentials, or a frame.
GreetMove(s) ==
    Greet(s) /\ pc'[s] = "unauth" /\ Deliver(s, [command |-> "auth_required"]) /\ UNCHANGED cut
ReplyMove(s) ==
    /\ WriteReply(s) /\ pc'[s] # "closed" /\ UNCHANGED cut
    /\ Deliver(s, [command |-> "auth_response", user |-> reply[s]])
WriteMove(s) == Recv(s) /\ Deliver(s, chan[s][written[s] + 1]) /\ UNCHANGED cut

\* A step of the server or the network, seen from the calls.
ServerMove ==
    /\ UNCHANGED calls /\ \A s \in Session : cut[s] => cut'[s]
    /\ \/ UNCHANGED <<up, down>>
       \/ up' = up /\ \E s \in Session : GreetMove(s) \/ ReplyMove(s) \/ WriteMove(s)
       \/ \E s \in Session : TaskReads(s)

LEMMA SysKinds ==
    ASSUME SysTypeOK, SysNext
    PROVE  (\E s \in Session : CallMove(s)) \/ ServerMove
<1>1. ASSUME NEW s \in Session, Dial(s) \/ Hear(s) \/ HearNothing(s) \/ StreamSend(s)
      PROVE  CallMove(s)
  BY <1>1, DialKind, HearKind, HearNothingKind, SendKind
<1>2. ASSUME NEW s \in Session, TaskAccepts(s) \/ TaskRoutes(s) \/ TaskEnds(s)
      PROVE  ServerMove
  BY <1>2 DEF TaskAccepts, TaskRoutes, TaskEnds, ServerMove, network
<1>3. ASSUME NEW s \in Session, TaskGreets(s) PROVE ServerMove
  BY <1>3 DEF TaskGreets, ServerMove, GreetMove
<1>4. ASSUME NEW s \in Session, TaskReplies(s) PROVE ServerMove
  BY <1>4 DEF TaskReplies, ServerMove, ReplyMove
<1>5. ASSUME NEW s \in Session, TaskWrites(s) PROVE ServerMove
  BY <1>5 DEF TaskWrites, ServerMove, WriteMove
<1>6. ASSUME NEW s \in Session, TaskReads(s) PROVE ServerMove
  BY <1>6 DEF TaskReads, ServerMove
<1>7. ASSUME NEW s \in Session, Break(s) PROVE ServerMove
  BY <1>7 DEF Break, ServerMove, SysTypeOK
<1>8. ASSUME ServerDies PROVE ServerMove
  BY <1>8 DEF ServerDies, ServerMove
<1>9. ASSUME AtRest PROVE ServerMove
  BY <1>9 DEF AtRest, ServerMove, allVars, network
<1> QED BY <1>1, <1>2, <1>3, <1>4, <1>5, <1>6, <1>7, <1>8, <1>9 DEF SysNext, TaskStep

\* Every step of the system is one of the server or none.
LEMMA SysServer ==
    ASSUME SysTypeOK, [SysNext]_allVars
    PROVE  [Next]_vars
<1>1. ASSUME NEW s \in Session, TaskReads(s) PROVE Next
  <2>1. /\ plan[s].as \in Credential /\ plan[s].to \in UserId /\ plan[s].limit \in HistoryLimits
    BY DEF SysTypeOK, Call
  <2>2. \/ Login(s, plan[s].as) \/ Register(s, plan[s].as) \/ ReadHistory(s, plan[s].limit)
        \/ ReadMessage(s, plan[s].to, FALSE) \/ ReadOther(s)
    BY <1>1 DEF TaskReads, Handle
  <2> QED BY <2>1, <2>2 DEF Next, ClientStep
<1>2. ASSUME NEW s \in Session,
             Dial(s) \/ Hear(s) \/ HearNothing(s) \/ StreamSend(s) \/ Break(s)
      PROVE  UNCHANGED vars
  BY <1>2 DEF Dial, Hear, HearNothing, StreamSend, Break
<1>3. ASSUME NEW s \in Session, TaskStep(s) \/ TaskWrites(s) \/ TaskEnds(s)
      PROVE  Next
  BY <1>3 DEF TaskStep, TaskAccepts, TaskGreets, TaskReplies, TaskRoutes, TaskWrites, TaskEnds,
              Next, ServerStep, ClientStep
<1>4. ServerDies => Next
  BY DEF ServerDies, Next
<1>5. AtRest \/ UNCHANGED allVars => UNCHANGED vars
  BY DEF AtRest, allVars
<1> QED BY <1>1, <1>2, <1>3, <1>4, <1>5 DEF SysNext

-----------------------------------------------------------------------------
(* Types.                                                                  *)

LEMMA LineFacts ==
    ASSUME NEW line \in Line
    PROVE  /\ line.command = "auth_response" => line.user \in UserId \cup {NoUser}
           /\ line.command = "message" => line.body \in Nat
           /\ line.command = "history_response" => line.ids \in SUBSET Nat
  BY DEF Line, Frame, MessageFrame, HistoryFrame, SaveFrame, NoticeFrame

LEMMA CallTypeStep ==
    ASSUME SysTypeOK, TypeOK, NEW s \in Session, CallMove(s)
    PROVE  SysTypeOK'
<1>1. plan' = plan /\ cut' = cut /\ Elsewhere(s)
  BY DEF CallMove
<1>2. /\ plan[s].auth \in Text /\ "message" \in Text /\ "history" \in Text
      /\ up[s] \in Seq(Text) /\ result[s] \in Outcome /\ known[s] \in Nat /\ Len(messages) \in Nat
      /\ step[s] \in Step
  <2>1. plan[s] \in Call /\ messages \in Seq(Row)
    BY DEF SysTypeOK, TypeOK
  <2> QED BY <2>1 DEF SysTypeOK, Call, Text
<1>3. down' \in [Session -> Seq(Line)]
  <2>1. CASE Heard(s)
    BY <2>1, TakeFacts DEF Heard, SysTypeOK
  <2> QED BY <2>1 DEF CallMove, DialMove, AuthMove, FailMove, Disappointed, LoginMove, PageMove, StreamMove,
              Unheard, SysTypeOK
<1>4. Heard(s) => Head(down[s]) \in Line
  BY TakeFacts DEF Heard, SysTypeOK
<1>5. shown' \in [Session -> Seq(Nat)]
  <2>1. CASE shown' = shown
    BY <2>1 DEF SysTypeOK
  <2>2. CASE Heard(s) /\ Head(down[s]).command = "message"
             /\ shown' = [shown EXCEPT ![s] = Append(@, Head(down[s]).body)]
    <3>1. Head(down[s]).body \in Nat
      BY <1>4, <2>2, LineFacts
    <3> DEFINE body == Head(down[s]).body
    <3>2. shown' = [shown EXCEPT ![s] = Append(@, body)]
      BY <2>2
    <3> HIDE DEF body
    <3> QED BY <3>1, <3>2, PutFacts DEF SysTypeOK, body
  <2> QED BY <2>1, <2>2 DEF CallMove
<1>6. \A line \in Text : Append(up[s], line) \in Seq(Text)
  BY <1>2, AppendFacts
<1>7. /\ step'[s] \in Step /\ result'[s] \in Outcome /\ known'[s] \in Nat /\ up'[s] \in Seq(Text)
  <2>1. CASE DialMove(s) \/ StreamMove(s)
    BY <1>2, <1>6, <2>1 DEF DialMove, StreamMove, To, Step
  <2>2. CASE AuthMove(s) \/ FailMove(s)
    <3>1. Outcomes("refused", NoUser, {}) \in Outcome /\ Outcomes("failed", NoUser, {}) \in Outcome
      BY DEF Outcomes, Outcome
    <3> QED BY <1>2, <1>6, <2>2, <3>1 DEF AuthMove, FailMove, To, Step
  <2>3. CASE LoginMove(s)
    <3>1. Head(down[s]).user \in UserId \cup {NoUser}
      BY <1>4, <2>3, LineFacts DEF LoginMove
    <3>2. /\ Outcomes("none", Head(down[s]).user, {}) \in Outcome
          /\ Outcomes("ok", Head(down[s]).user, {}) \in Outcome
      BY <3>1 DEF Outcomes, Outcome
    <3> QED BY <1>2, <1>6, <2>3, <3>2 DEF LoginMove, To, Step
  <2>4. CASE PageMove(s)
    <3>1. Head(down[s]).ids \in SUBSET Nat /\ result[s].user \in UserId \cup {NoUser}
      BY <1>2, <1>4, <2>4, LineFacts DEF PageMove, Outcome
    <3>2. Outcomes("ok", result[s].user, Head(down[s]).ids) \in Outcome
      BY <3>1 DEF Outcomes, Outcome
    <3> QED BY <1>2, <2>4, <3>2 DEF PageMove, To, Step
  <2> QED BY <2>1, <2>2, <2>3, <2>4 DEF CallMove
<1>8. \A t \in Session : /\ step'[t] \in Step /\ result'[t] \in Outcome
                         /\ known'[t] \in Nat /\ up'[t] \in Seq(Text)
  BY <1>1, <1>7 DEF Elsewhere, To, SysTypeOK
<1>9. /\ step' \in [Session -> Step] /\ result' \in [Session -> Outcome]
      /\ known' \in [Session -> Nat] /\ up' \in [Session -> Seq(Text)]
  BY <1>1, <1>8 DEF Elsewhere
<1> QED BY <1>1, <1>3, <1>5, <1>9 DEF SysTypeOK

\* What is left of a queue once its first n lines are read.
LEMMA DropFacts ==
    ASSUME NEW S, NEW q \in Seq(S), NEW n \in DOMAIN q
    PROVE  /\ SubSeq(q, n + 1, Len(q)) \in Seq(S)
           /\ Len(SubSeq(q, n + 1, Len(q))) = Len(q) - n
           /\ DOMAIN SubSeq(q, n + 1, Len(q)) = 1..(Len(q) - n)
           /\ \A i \in 1..(Len(q) - n) : SubSeq(q, n + 1, Len(q))[i] = q[i + n]
<1>1. Len(q) \in Nat /\ DOMAIN q = 1..Len(q) /\ n \in 1..Len(q) /\ \A i \in 1..Len(q) : q[i] \in S
  OBVIOUS
<1>2. /\ SubSeq(q, n + 1, Len(q)) \in Seq(S)
      /\ Len(SubSeq(q, n + 1, Len(q))) = (IF n + 1 <= Len(q) THEN Len(q) - (n + 1) + 1 ELSE 0)
      /\ \A i \in 1..(Len(q) - (n + 1) + 1) : SubSeq(q, n + 1, Len(q))[i] = q[(n + 1) + i - 1]
  <2>1. \A i \in (n + 1)..Len(q) : q[i] \in S
    BY <1>1
  <2>2. n + 1 \in Int /\ Len(q) \in Int
    BY <1>1
  <2> DEFINE a == n + 1  b == Len(q)
  <2>3. a \in Int /\ b \in Int /\ \A i \in a..b : q[i] \in S
    BY <2>1, <2>2
  <2> HIDE DEF a, b
  <2>4. /\ SubSeq(q, a, b) \in Seq(S)
        /\ Len(SubSeq(q, a, b)) = IF a <= b THEN b - a + 1 ELSE 0
        /\ \A i \in 1..(b - a + 1) : SubSeq(q, a, b)[i] = q[a + i - 1]
    BY <2>3, SubSeqProperties
  <2> QED BY <2>4 DEF a, b
<1> DEFINE d == SubSeq(q, n + 1, Len(q))
<1>3. DOMAIN d = 1..Len(d)
  BY <1>2
<1> HIDE DEF d
<1>4. Len(d) = Len(q) - n /\ \A i \in 1..(Len(q) - n) : d[i] = q[i + n]
  BY <1>1, <1>2 DEF d
<1> QED BY <1>2, <1>3, <1>4 DEF d

LEMMA ServerTypeStep ==
    ASSUME SysTypeOK, TaskInv, ServerMove, cut' \in [Session -> BOOLEAN]
    PROVE  SysTypeOK'
<1>1. UNCHANGED <<plan, step, result, shown, known>>
  BY DEF ServerMove, calls
<1>2. ASSUME NEW s \in Session, NEW line \in Line, Deliver(s, line)
      PROVE  down' \in [Session -> Seq(Line)]
  BY <1>2, PutFacts DEF Deliver, SysTypeOK
<1>3. ASSUME NEW s \in Session, GreetMove(s) \/ ReplyMove(s) \/ WriteMove(s)
      PROVE  down' \in [Session -> Seq(Line)]
  <2>1. /\ [command |-> "auth_required"] \in Line
        /\ [command |-> "auth_response", user |-> reply[s]] \in Line
    BY DEF Line, TaskInv, TypeOK
  <2>2. ASSUME WriteMove(s) PROVE chan[s][written[s] + 1] \in Line
    <3>1. chan[s] \in Seq(Frame) /\ written[s] \in Nat /\ written[s] < Len(chan[s])
      BY <2>2 DEF WriteMove, Recv, TaskInv, TypeOK
    <3>2. chan[s][written[s] + 1] \in Frame
      BY <3>1
    <3> QED BY <3>2 DEF Line
  <2>3. CASE GreetMove(s)
    BY <1>2, <2>1, <2>3 DEF GreetMove
  <2>4. CASE ReplyMove(s)
    BY <1>2, <2>1, <2>4 DEF ReplyMove
  <2>5. CASE WriteMove(s)
    BY <1>2, <2>2, <2>5 DEF WriteMove
  <2> QED BY <1>3, <2>3, <2>4, <2>5
<1>4. ASSUME NEW s \in Session, TaskReads(s)
      PROVE  up' \in [Session -> Seq(Text)] /\ down' = down
  <2>1. PICK n \in DOMAIN up[s] : up' = [up EXCEPT ![s] = SubSeq(@, n + 1, Len(@))]
    BY <1>4 DEF TaskReads
  <2>2. up[s] \in Seq(Text)
    BY DEF SysTypeOK
  <2>3. SubSeq(up[s], n + 1, Len(up[s])) \in Seq(Text)
    BY <2>2, DropFacts
  <2> QED BY <1>4, <2>1, <2>3 DEF TaskReads, SysTypeOK
<1>5. up' \in [Session -> Seq(Text)] /\ down' \in [Session -> Seq(Line)]
  BY <1>3, <1>4 DEF ServerMove, SysTypeOK
<1> QED BY <1>1, <1>5 DEF SysTypeOK

LEMMA CutType ==
    ASSUME SysTypeOK, SysNext
    PROVE  cut' \in [Session -> BOOLEAN]
<1>1. cut' = cut \/ (\E s \in Session : Break(s)) \/ ServerDies
  BY DEF SysNext, Dial, Hear, HearNothing, StreamSend, TaskStep, TaskAccepts, TaskGreets, TaskReplies,
         TaskRoutes, TaskReads, TaskWrites, TaskEnds, AtRest, allVars, network
<1> QED BY <1>1 DEF Break, ServerDies, SysTypeOK

LEMMA SysTypeStep ==
    ASSUME SysTypeOK, TaskInv, SysNext
    PROVE  SysTypeOK'
  BY SysKinds, CallTypeStep, ServerTypeStep, CutType DEF TaskInv

-----------------------------------------------------------------------------
(* The server's invariants hold in the system.                             *)

ServerInv == DeliveryInv /\ EventInv /\ PageInv /\ AccountIntegrity

LEMMA ServerInvStep ==
    ASSUME SysTypeOK, ServerInv, [SysNext]_allVars
    PROVE  ServerInv'
<1>1. [Next]_vars
  BY SysServer
<1> QED BY <1>1, DeliveryStep, EventInvStep, PageInvStep, AccountInvStep DEF ServerInv, DeliveryInv

LEMMA StartsOnFile == SysInit => StartsOn(Accounts)
  BY FileAssumption DEF SysInit, StartsOn

LEMMA ServerInvInit == SysInit => ServerInv
<1> SUFFICES ASSUME SysInit PROVE ServerInv
  OBVIOUS
<1>1. StartsOn(Accounts)
  BY StartsOnFile
<1>2. AccountIntegrity
  BY FileAssumption DEF SysInit, StartOn, AccountIntegrity
<1> QED BY <1>1, <1>2, DeliveryStart, EventStart, PageStart DEF ServerInv

\* A frame that was written stays where it is, with those before it.
LEMMA WrittenStays ==
    ASSUME DeliveryInv, [Next]_vars, NEW s \in Session
    PROVE  /\ written[s] \in Nat /\ written'[s] \in Nat /\ written[s] <= written'[s]
           /\ \A j \in 1..written[s] : j \in DOMAIN chan[s] /\ j \in DOMAIN chan'[s] /\ chan'[s][j] = chan[s][j]
<1>1. DeliveryInv'
  BY DeliveryStep
<1>2. /\ chan[s] \in Seq(Frame) /\ written[s] \in Nat /\ written[s] <= Len(chan[s])
      /\ chan'[s] \in Seq(Frame) /\ written'[s] \in Nat /\ written'[s] <= Len(chan'[s])
  BY <1>1 DEF DeliveryInv, TaskInv, TypeOK, WrittenWithin
<1>3. CASE UNCHANGED vars
  BY <1>2, <1>3 DEF vars, wires
<1>4. CASE Next
  <2>1. ASSUME NEW t \in Session, Recv(t) PROVE written[s] <= written'[s]
    BY <1>2, <2>1 DEF Recv, DeliveryInv, TaskInv, TypeOK
  <2>2. written[s] <= written'[s]
    <3>1. written' = written \/ \E t \in Session : Recv(t)
      BY <1>4, StepKinds DEF DeliveryInv, QuietStep, AnswerStep, WriteReply, LookUp, Push, Cleanup,
           ReadMessage, Crash, wires, vars
    <3> QED BY <1>2, <2>1, <3>1
  <2>3. CASE \A i \in DOMAIN chan'[s] : i \in DOMAIN chan[s] /\ chan'[s][i] = chan[s][i]
    BY <1>2, <2>2, <2>3
  <2>4. CASE \E f \in Frame : chan'[s] = Append(chan[s], f)
    BY <1>2, <2>2, <2>4, AppendFacts
  <2> QED BY <1>4, <2>3, <2>4, ChannelStep
<1> QED BY <1>3, <1>4

\* A task moves by itself, once its call has connected.
LEMMA TaskFacts ==
    ASSUME SysTypeOK, TaskInv, NEW s \in Session,
           TaskStep(s) \/ TaskReads(s) \/ TaskWrites(s) \/ TaskEnds(s)
    PROVE  /\ step[s] # "new" \/ pc[s] # "idle"
           /\ UNCHANGED <<calls, cut>>
           /\ \A t \in Session \ {s} : pc'[t] = pc[t] /\ up'[t] = up[t] /\ down'[t] = down[t]
<1> USE DEF TaskInv, TypeOK, SysTypeOK, Goto, network
<1>1. CASE TaskAccepts(s)
  BY <1>1 DEF TaskAccepts, Accept
<1>2. CASE TaskGreets(s)
  BY <1>2 DEF TaskGreets, Greet, Deliver
<1>3. CASE TaskReplies(s)
  BY <1>3 DEF TaskReplies, WriteReply, Deliver
<1>4. CASE TaskRoutes(s)
  <2>1. CASE Enroll(s) \/ Push(s) \/ Cleanup(s)
    BY <1>4, <2>1 DEF TaskRoutes, Enroll, Push, Cleanup
  <2>2. CASE LookUp(s)
    <3>1. pc[s] = "route" /\ \E phase \in {"loop", "push"} : pc' = [pc EXCEPT ![s] = phase]
      BY <2>2 DEF LookUp
    <3> QED BY <1>4, <3>1 DEF TaskRoutes
  <2>3. CASE Respond(s)
    BY <1>4, <2>3 DEF TaskRoutes, Respond
  <2> QED BY <1>4, <2>1, <2>2, <2>3 DEF TaskRoutes
<1>5. CASE TaskReads(s)
  <2>1. /\ pc[s] \in {"unauth", "loop"}
        /\ pc' = pc \/ \E phase \in {"reply", "route", "respond"} : pc' = [pc EXCEPT ![s] = phase]
    BY <1>5 DEF TaskReads, Handle, Login, Register, Grant, Deny, Answer, ReadHistory, Prepare, ReadMessage,
                ReadOther, Asks, control
  <2>2. \A t \in Session \ {s} : up'[t] = up[t]
    BY <1>5 DEF TaskReads
  <2> QED BY <1>5, <2>1, <2>2 DEF TaskReads
<1>6. CASE TaskWrites(s)
  BY <1>6 DEF TaskWrites, Recv, control, Deliver
<1>7. CASE TaskEnds(s)
  BY <1>7 DEF TaskEnds, Disconnect
<1> QED BY <1>1, <1>2, <1>3, <1>4, <1>5, <1>6, <1>7 DEF TaskStep

\* Who moves.
LEMMA CallFacts ==
    ASSUME SysTypeOK, NEW s \in Session, CallMove(s)
    PROVE  /\ UNCHANGED <<vars, cut, plan>> /\ step'[s] # "new"
           /\ \A t \in Session \ {s} : /\ step'[t] = step[t] /\ result'[t] = result[t] /\ known'[t] = known[t]
                                       /\ up'[t] = up[t] /\ down'[t] = down[t] /\ shown'[t] = shown[t]
           /\ down' = down \/ Heard(s)
<1>1. step'[s] # "new"
  BY DEF CallMove, DialMove, AuthMove, FailMove, LoginMove, PageMove, StreamMove, To
<1>2. down' = down \/ Heard(s)
  BY DEF CallMove, DialMove, AuthMove, FailMove, Disappointed, LoginMove, PageMove, StreamMove, Unheard
<1>3. \A t \in Session \ {s} : down'[t] = down[t]
  BY <1>2 DEF Heard, SysTypeOK
<1> QED BY <1>1, <1>2, <1>3 DEF CallMove, Elsewhere, To

LEMMA NewStep ==
    ASSUME SysTypeOK, TaskInv, NewIsIdle, SysNext
    PROVE  NewIsIdle'
<1> SUFFICES ASSUME NEW t \in Session, step'[t] = "new"
             PROVE  /\ pc'[t] = "idle" /\ ~cut'[t]
                    /\ up'[t] = <<>> /\ down'[t] = <<>> /\ shown'[t] = <<>>
  BY DEF NewIsIdle
<1>1. ASSUME NEW s \in Session, CallMove(s)
      PROVE  /\ step[t] = "new" /\ pc'[t] = pc[t] /\ cut'[t] = cut[t]
             /\ up'[t] = up[t] /\ down'[t] = down[t] /\ shown'[t] = shown[t]
  BY <1>1, CallFacts DEF vars, control
<1>2. ASSUME NEW s \in Session, TaskStep(s) \/ TaskReads(s) \/ TaskWrites(s) \/ TaskEnds(s)
      PROVE  /\ step[t] = "new" /\ pc'[t] = pc[t] /\ cut'[t] = cut[t]
             /\ up'[t] = up[t] /\ down'[t] = down[t] /\ shown'[t] = shown[t]
  <2>1. step'[t] = step[t] /\ cut'[t] = cut[t] /\ shown'[t] = shown[t]
    BY <1>2, TaskFacts DEF calls
  <2>2. s # t
    BY <1>2, <2>1, TaskFacts DEF NewIsIdle
  <2> QED BY <1>2, <2>1, <2>2, TaskFacts
<1>3. ASSUME NEW s \in Session, Break(s)
      PROVE  /\ step[t] = "new" /\ pc'[t] = pc[t] /\ cut'[t] = cut[t]
             /\ up'[t] = up[t] /\ down'[t] = down[t] /\ shown'[t] = shown[t]
  BY <1>3 DEF Break, vars, control, calls, SysTypeOK
<1>4. CASE ServerDies
  <2>1. UNCHANGED <<calls, up, down>> /\ cut'[t] = (cut[t] \/ step[t] # "new")
    BY <1>4 DEF ServerDies
  <2>2. pc[t] = "idle" => pc'[t] = "idle"
    BY <1>4 DEF ServerDies, Crash
  <2> QED BY <2>1, <2>2 DEF calls, NewIsIdle
<1>5. CASE AtRest
  BY <1>5 DEF AtRest, allVars, vars, control, calls, network, NewIsIdle
<1>6. ASSUME NEW s \in Session, Dial(s) \/ Hear(s) \/ HearNothing(s) \/ StreamSend(s)
      PROVE  CallMove(s)
  BY <1>6, DialKind, HearKind, HearNothingKind, SendKind
<1> QED BY <1>1, <1>2, <1>3, <1>4, <1>5, <1>6 DEF SysNext, NewIsIdle

LEMMA CredStep ==
    ASSUME SysTypeOK, TaskInv, CredOfPlan, SysNext
    PROVE  CredOfPlan'
<1>1. plan' = plan
  BY SysKinds DEF CallMove, ServerMove, calls
<1>2. ASSUME NEW s \in Session, TaskReads(s)
      PROVE  cred' = cred \/ cred' = [cred EXCEPT ![s] = <<plan[s].as>>]
  BY <1>2 DEF TaskReads, Handle, Login, Register, Grant, Deny, ReadHistory, ReadMessage, ReadOther, control
<1>3. ASSUME NEW s \in Session, TaskStep(s) \/ TaskWrites(s) \/ TaskEnds(s)
      PROVE  cred' = cred
  BY <1>3 DEF TaskStep, TaskAccepts, TaskGreets, TaskReplies, TaskRoutes, TaskWrites, TaskEnds,
              Accept, Greet, WriteReply, Enroll, LookUp, Push, Respond, Cleanup, Recv, Disconnect, control
<1>4. ASSUME NEW s \in Session, Dial(s) \/ Hear(s) \/ HearNothing(s) \/ StreamSend(s) \/ Break(s)
      PROVE  cred' = cred
  BY <1>4 DEF Dial, Hear, HearNothing, StreamSend, Break, vars, control
<1>5. ServerDies \/ AtRest => cred' = cred
  BY DEF ServerDies, Crash, AtRest, allVars, vars, control
<1>6. cred \in [Session -> Seq(Credential)]
  BY DEF TaskInv, TypeOK
<1>7. cred' = cred \/ \E s \in Session : cred' = [cred EXCEPT ![s] = <<plan[s].as>>]
  BY <1>2, <1>3, <1>4, <1>5 DEF SysNext
<1> QED BY <1>1, <1>6, <1>7 DEF CredOfPlan

-----------------------------------------------------------------------------
(* Lines in flight.                                                        *)

LEMMA LinesStep ==
    ASSUME SysTypeOK, DeliveryInv, LinesAreTrue, SysNext
    PROVE  LinesAreTrue'
<1> DEFINE True(t, line) ==
              \/ line.command = "auth_required"
              \/ line.command = "auth_response" /\ line.user \in {NoUser, uid[t]}
              \/ \E j \in 1..written[t] : line = chan[t][j]
           TrueAfter(t, line) ==
              \/ line.command = "auth_required"
              \/ line.command = "auth_response" /\ line.user \in {NoUser, uid'[t]}
              \/ \E j \in 1..written'[t] : line = chan'[t][j]
<1>0. [Next]_vars
  BY SysServer
<1>1. \A t \in Session : \A k \in DOMAIN down[t] : True(t, down[t][k])
  BY DEF LinesAreTrue
<1>2. ASSUME NEW t \in Session, NEW line, True(t, line) PROVE TrueAfter(t, line)
  <2>1. CASE line.command = "auth_response" /\ line.user \in {NoUser, uid[t]}
    <3>1. uid[t] = NoUser \/ uid'[t] = uid[t]
      BY <1>0, GrowFacts DEF DeliveryInv, vars, control
    <3> QED BY <2>1, <3>1
  <2>2. CASE \E j \in 1..written[t] : line = chan[t][j]
    <3>1. /\ written[t] \in Nat /\ written'[t] \in Nat /\ written[t] <= written'[t]
          /\ \A j \in 1..written[t] : chan'[t][j] = chan[t][j]
      BY <1>0, WrittenStays
    <3> QED BY <2>2, <3>1
  <2> QED BY <1>2, <2>1, <2>2
<1> SUFFICES ASSUME NEW t \in Session, NEW k \in DOMAIN down'[t]
             PROVE  TrueAfter(t, down'[t][k])
  BY DEF LinesAreTrue
<1>3. down[t] \in Seq(Line)
  BY DEF SysTypeOK
<1>4. ASSUME down'[t] = down[t] PROVE TrueAfter(t, down'[t][k])
  BY <1>1, <1>2, <1>4
<1>5. ASSUME NEW s \in Session, CallMove(s) PROVE TrueAfter(t, down'[t][k])
  <2>1. CASE t = s /\ Heard(s)
    <3>1. k + 1 \in DOMAIN down[t] /\ down'[t][k] = down[t][k + 1]
      BY <2>1, TakeFacts DEF Heard, SysTypeOK
    <3> HIDE DEF True, TrueAfter
    <3> QED BY <1>1, <1>2, <3>1
  <2> HIDE DEF True, TrueAfter
  <2> QED BY <1>4, <1>5, <2>1, CallFacts
<1>6. ASSUME NEW s \in Session, NEW line \in Line, Deliver(s, line), TrueAfter(s, line)
      PROVE  TrueAfter(t, down'[t][k])
  <2>1. CASE t # s
    <3>1. down'[t] = down[t]
      BY <1>6, <2>1, PutFacts DEF Deliver, SysTypeOK
    <3> QED BY <1>4, <3>1
  <2>2. CASE t = s
    <3>1. /\ k \in DOMAIN down[t] /\ down'[t][k] = down[t][k]
          \/ down'[t][k] = line
      BY <1>6, <2>2, PutFacts DEF Deliver, SysTypeOK
    <3> HIDE DEF True, TrueAfter
    <3> QED BY <1>1, <1>2, <1>6, <2>2, <3>1
  <2> QED BY <2>1, <2>2
<1>7. ASSUME NEW s \in Session, GreetMove(s)
      PROVE  \E line \in Line : Deliver(s, line) /\ TrueAfter(s, line)
  <2>1. [command |-> "auth_required"] \in Line
    BY DEF Line
  <2> QED BY <1>7, <2>1 DEF GreetMove
<1>8. ASSUME NEW s \in Session, ReplyMove(s)
      PROVE  \E line \in Line : Deliver(s, line) /\ TrueAfter(s, line)
  <2> DEFINE line == [command |-> "auth_response", user |-> reply[s]]
  <2>1. line \in Line
    BY DEF Line, DeliveryInv, TaskInv, TypeOK
  <2>2. uid'[s] = reply[s]
    BY <1>8 DEF ReplyMove, WriteReply, Goto, DeliveryInv, TaskInv, TypeOK
  <2>3. line.command = "auth_response" /\ line.user = reply[s]
    OBVIOUS
  <2>4. Deliver(s, line)
    BY <1>8 DEF ReplyMove
  <2> HIDE DEF line
  <2> QED BY <2>1, <2>2, <2>3, <2>4
<1>9. ASSUME NEW s \in Session, WriteMove(s)
      PROVE  \E line \in Line : Deliver(s, line) /\ TrueAfter(s, line)
  <2>1. chan[s] \in Seq(Frame) /\ written[s] \in Nat /\ written[s] < Len(chan[s])
    BY <1>9 DEF WriteMove, Recv, DeliveryInv, TaskInv, TypeOK
  <2>2. chan[s][written[s] + 1] \in Line
    BY <2>1 DEF Line
  <2>3. chan' = chan /\ written'[s] = written[s] + 1
    BY <1>9 DEF WriteMove, Recv, DeliveryInv, TaskInv, TypeOK
  <2> QED BY <1>9, <2>1, <2>2, <2>3 DEF WriteMove
<1>10. CASE ServerMove
  <2> HIDE DEF True, TrueAfter
  <2>1. \A s \in Session : TaskReads(s) => down' = down
    BY DEF TaskReads
  <2> QED BY <1>4, <1>6, <1>7, <1>8, <1>9, <1>10, <2>1 DEF ServerMove
<1> HIDE DEF True, TrueAfter
<1> QED BY <1>5, <1>10, SysKinds

LEMMA ShownStep ==
    ASSUME SysTypeOK, DeliveryInv, LinesAreTrue, ShownIsPushed, SysNext
    PROVE  ShownIsPushed'
<1> SUFFICES ASSUME NEW t \in Session, NEW k \in DOMAIN shown'[t]
             PROVE  \E j \in 1..written[t] : chan[t][j].command = "message" /\ chan[t][j].body = shown'[t][k]
  <2>1. \A t \in Session : /\ written[t] \in Nat /\ written'[t] \in Nat /\ written[t] <= written'[t]
                           /\ \A j \in 1..written[t] : chan'[t][j] = chan[t][j]
    BY SysServer, WrittenStays
  <2> QED BY <2>1 DEF ShownIsPushed
<1>1. CASE k \in DOMAIN shown[t] /\ shown'[t][k] = shown[t][k]
  BY <1>1 DEF ShownIsPushed
<1>2. ASSUME Heard(t), Head(down[t]).command = "message", shown'[t][k] = Head(down[t]).body
      PROVE  \E j \in 1..written[t] : chan[t][j].command = "message" /\ chan[t][j].body = shown'[t][k]
  <2>1. 1 \in DOMAIN down[t] /\ Head(down[t]) = down[t][1]
    BY <1>2, TakeFacts DEF Heard, SysTypeOK
  <2>2. \E j \in 1..written[t] : down[t][1] = chan[t][j]
    BY <1>2, <2>1 DEF LinesAreTrue
  <2> QED BY <1>2, <2>1, <2>2
<1>3. ASSUME NEW s \in Session, CallMove(s),
             Heard(s), Head(down[s]).command = "message", shown' = [shown EXCEPT ![s] = Append(@, Head(down[s]).body)]
      PROVE  \/ k \in DOMAIN shown[t] /\ shown'[t][k] = shown[t][k]
             \/ t = s /\ shown'[t][k] = Head(down[t]).body
  <2> DEFINE body == Head(down[s]).body
  <2>1. body \in Nat
    BY <1>3, TakeFacts, LineFacts DEF Heard, SysTypeOK
  <2>2. shown' = [shown EXCEPT ![s] = Append(@, body)]
    BY <1>3
  <2> HIDE DEF body
  <2>3. CASE t = s
    <3>1. /\ Len(shown[t]) \in Nat /\ DOMAIN shown[t] = 1..Len(shown[t])
          /\ DOMAIN shown'[t] = 1..(Len(shown[t]) + 1)
          /\ \A i \in 1..Len(shown[t]) : shown'[t][i] = shown[t][i]
          /\ shown'[t][Len(shown[t]) + 1] = body
      BY <2>1, <2>2, <2>3, PutFacts DEF SysTypeOK
    <3>2. k \in 1..Len(shown[t]) \/ k = Len(shown[t]) + 1
      BY <3>1
    <3> QED BY <2>3, <3>1, <3>2 DEF body
  <2>4. CASE t # s
    BY <2>2, <2>4 DEF SysTypeOK
  <2> QED BY <2>3, <2>4
<1>4. CASE shown' = shown
  BY <1>1, <1>4
<1>5. CASE \E s \in Session : CallMove(s)
  BY <1>1, <1>2, <1>3, <1>4, <1>5 DEF CallMove
<1>6. ServerMove => shown' = shown
  BY DEF ServerMove, calls
<1> QED BY <1>4, <1>5, <1>6, SysKinds

LEMMA BeforeStays ==
    ASSUME DeliveryInv, [Next]_vars, NEW t \in Session, NEW a, NEW b, Before(chan[t], written[t], a, b)
    PROVE  Before(chan'[t], written'[t], a, b)
<1>1. PICK i, j \in 1..written[t] :
         /\ i < j
         /\ chan[t][i].command = "message" /\ chan[t][i].body = a
         /\ chan[t][j].command = "message" /\ chan[t][j].body = b
  BY DEF Before
<1>2. /\ i \in 1..written'[t] /\ chan'[t][i] = chan[t][i]
      /\ j \in 1..written'[t] /\ chan'[t][j] = chan[t][j]
  BY WrittenStays
<1> QED BY <1>1, <1>2 DEF Before

\* What a message handed to the sink does to what is shown.
LEMMA ShownFacts ==
    ASSUME SysTypeOK, NEW t \in Session, Heard(t), Head(down[t]).command = "message",
           shown' = [shown EXCEPT ![t] = Append(@, Head(down[t]).body)]
    PROVE  /\ Len(shown[t]) \in Nat /\ DOMAIN shown[t] = 1..Len(shown[t])
           /\ DOMAIN shown'[t] = 1..(Len(shown[t]) + 1)
           /\ \A i \in 1..Len(shown[t]) : shown'[t][i] = shown[t][i]
           /\ shown'[t][Len(shown[t]) + 1] = down[t][1].body
<1> DEFINE body == Head(down[t]).body
<1>1. body \in Nat /\ Head(down[t]) = down[t][1]
  BY TakeFacts, LineFacts DEF Heard, SysTypeOK
<1>2. shown' = [shown EXCEPT ![t] = Append(@, body)]
  OBVIOUS
<1>3. body = down[t][1].body
  BY <1>1
<1> HIDE DEF body
<1> QED BY <1>1, <1>2, <1>3, PutFacts DEF SysTypeOK

LEMMA OrderStep ==
    ASSUME SysInv, ServerInv, ShownInOrder, SysNext
    PROVE  ShownInOrder'
<1> USE DEF SysInv, ServerInv, DeliveryInv
<1>0. [Next]_vars
  BY SysServer
<1> SUFFICES ASSUME NEW t \in Session PROVE Ordered(t)'
  BY DEF ShownInOrder
<1>1. ASSUME NEW a, NEW b, Before(chan[t], written[t], a, b) PROVE Before(chan'[t], written'[t], a, b)
  BY <1>0, <1>1, BeforeStays
<1>2. Ordered(t)
  BY DEF ShownInOrder
<1>3. ASSUME shown'[t] = shown[t], down'[t] = down[t] PROVE Ordered(t)'
  BY <1>1, <1>2, <1>3 DEF Ordered
<1>4. ASSUME CallMove(t), Heard(t) PROVE Ordered(t)'
  <2> DEFINE n == Len(shown[t])
  <2>1. \A k \in DOMAIN down'[t] :
           k \in Nat /\ 1 < k + 1 /\ k + 1 \in DOMAIN down[t] /\ down'[t][k] = down[t][k + 1]
    BY <1>4, TakeFacts DEF Heard, SysTypeOK
  <2>2. \A i, k \in DOMAIN down'[t] :
           i < k /\ down'[t][i].command = "message" /\ down'[t][k].command = "message"
           => Before(chan'[t], written'[t], down'[t][i].body, down'[t][k].body)
    <3> SUFFICES ASSUME NEW i \in DOMAIN down'[t], NEW k \in DOMAIN down'[t], i < k,
                        down'[t][i].command = "message", down'[t][k].command = "message"
                 PROVE  Before(chan'[t], written'[t], down'[t][i].body, down'[t][k].body)
      OBVIOUS
    <3>1. i + 1 < k + 1
      BY <2>1
    <3> QED BY <1>1, <1>2, <2>1, <3>1 DEF Ordered
  <2>3. CASE shown' = shown
    BY <1>1, <1>2, <2>1, <2>2, <2>3 DEF Ordered
  <2>4. CASE Head(down[t]).command = "message" /\ shown' = [shown EXCEPT ![t] = Append(@, Head(down[t]).body)]
    <3>1. /\ n \in Nat /\ DOMAIN shown[t] = 1..n /\ DOMAIN shown'[t] = 1..(n + 1)
          /\ \A i \in 1..n : shown'[t][i] = shown[t][i]
          /\ shown'[t][n + 1] = down[t][1].body
      BY <1>4, <2>4, ShownFacts
    <3>2. 1 \in DOMAIN down[t] /\ down[t][1].command = "message"
      BY <1>4, <2>4, TakeFacts DEF Heard, SysTypeOK
    <3> HIDE DEF n
    <3>3. ASSUME NEW i \in DOMAIN shown'[t], NEW k \in DOMAIN shown'[t], i < k
          PROVE  Before(chan'[t], written'[t], shown'[t][i], shown'[t][k])
      <4>1. i \in 1..n /\ (k \in 1..n \/ k = n + 1)
        BY <3>1, <3>3
      <4>2. CASE k \in 1..n
        BY <1>1, <1>2, <3>1, <3>3, <4>1, <4>2 DEF Ordered
      <4>3. CASE k = n + 1
        BY <1>1, <1>2, <3>1, <3>2, <4>1, <4>3 DEF Ordered
      <4> QED BY <4>1, <4>2, <4>3
    <3>4. ASSUME NEW i \in DOMAIN shown'[t], NEW k \in DOMAIN down'[t], down'[t][k].command = "message"
          PROVE  Before(chan'[t], written'[t], shown'[t][i], down'[t][k].body)
      <4>1. CASE i \in 1..n
        BY <1>1, <1>2, <2>1, <3>1, <3>4, <4>1 DEF Ordered
      <4>2. CASE i = n + 1
        BY <1>1, <1>2, <2>1, <3>1, <3>2, <3>4, <4>2 DEF Ordered
      <4> QED BY <3>1, <4>1, <4>2
    <3> QED BY <2>2, <3>3, <3>4 DEF Ordered
  <2> QED BY <1>4, <2>3, <2>4 DEF CallMove
<1>5. ASSUME NEW s \in Session, CallMove(s) PROVE Ordered(t)'
  <2>1. CASE s = t /\ ~Heard(t)
    BY <1>3, <1>5, <2>1, CallFacts DEF CallMove
  <2>2. CASE s # t
    BY <1>3, <1>5, <2>2, CallFacts
  <2> QED BY <1>4, <1>5, <2>1, <2>2
<1>6. ASSUME NEW line \in Line, Deliver(t, line), shown' = shown,
             \A j \in 1..written[t] : chan[t][j].command = "message" /\ line.command = "message" =>
                Before(chan'[t], written'[t], chan[t][j].body, line.body)
      PROVE  Ordered(t)'
  <2> DEFINE n == Len(down[t])
  <2>1. /\ n \in Nat /\ DOMAIN down[t] = 1..n /\ DOMAIN down'[t] = 1..(n + 1)
        /\ \A i \in 1..n : down'[t][i] = down[t][i]
        /\ down'[t][n + 1] = line
    BY <1>6, PutFacts DEF Deliver, SysTypeOK
  <2> HIDE DEF n
  <2>2. ASSUME NEW i \in DOMAIN shown'[t], NEW k \in DOMAIN down'[t], down'[t][k].command = "message"
        PROVE  Before(chan'[t], written'[t], shown'[t][i], down'[t][k].body)
    <3>1. CASE k \in 1..n
      BY <1>1, <1>2, <1>6, <2>1, <2>2, <3>1 DEF Ordered
    <3>2. CASE k = n + 1
      <4>1. PICK j \in 1..written[t] : chan[t][j].command = "message" /\ chan[t][j].body = shown[t][i]
        BY <1>6 DEF ShownIsPushed
      <4> QED BY <1>6, <2>1, <2>2, <3>2, <4>1
    <3> QED BY <2>1, <3>1, <3>2
  <2>3. ASSUME NEW i \in DOMAIN down'[t], NEW k \in DOMAIN down'[t], i < k,
               down'[t][i].command = "message", down'[t][k].command = "message"
        PROVE  Before(chan'[t], written'[t], down'[t][i].body, down'[t][k].body)
    <3>1. i \in 1..n /\ (k \in 1..n \/ k = n + 1)
      BY <2>1, <2>3
    <3>2. CASE k \in 1..n
      BY <1>1, <1>2, <2>1, <2>3, <3>1, <3>2 DEF Ordered
    <3>3. CASE k = n + 1
      <4>1. PICK j \in 1..written[t] : down[t][i] = chan[t][j]
        BY <2>1, <2>3, <3>1 DEF LinesAreTrue
      <4> QED BY <1>6, <2>1, <2>3, <3>1, <3>3, <4>1
    <3> QED BY <3>1, <3>2, <3>3
  <2>4. \A i, k \in DOMAIN shown'[t] : i < k => Before(chan'[t], written'[t], shown'[t][i], shown'[t][k])
    BY <1>1, <1>2, <1>6 DEF Ordered
  <2> QED BY <2>2, <2>3, <2>4 DEF Ordered
<1>7. ASSUME NEW s \in Session, GreetMove(s) \/ ReplyMove(s), shown' = shown PROVE Ordered(t)'
  <2>1. PICK line \in Line : Deliver(s, line) /\ line.command # "message"
    <3>1. [command |-> "auth_required"] \in Line /\ [command |-> "auth_response", user |-> reply[s]] \in Line
      BY DEF Line, TaskInv, TypeOK
    <3> QED BY <1>7, <3>1 DEF GreetMove, ReplyMove
  <2>2. CASE s = t
    BY <1>6, <1>7, <2>1, <2>2
  <2>3. CASE s # t
    BY <1>3, <1>7, <2>1, <2>3, PutFacts DEF Deliver, SysTypeOK
  <2> QED BY <2>2, <2>3
<1>8. ASSUME NEW s \in Session, WriteMove(s), shown' = shown PROVE Ordered(t)'
  <2> DEFINE line == chan[s][written[s] + 1]
  <2>1. chan[s] \in Seq(Frame) /\ written[s] \in Nat /\ written[s] < Len(chan[s])
    BY <1>8 DEF WriteMove, Recv, TaskInv, TypeOK
  <2>2. line \in Line
    BY <2>1 DEF Line
  <2>3. chan' = chan /\ written'[s] = written[s] + 1 /\ Deliver(s, line)
    BY <1>8 DEF WriteMove, Recv, TaskInv, TypeOK
  <2>4. ASSUME s = t, NEW j \in 1..written[t], chan[t][j].command = "message", line.command = "message"
        PROVE  Before(chan'[t], written'[t], chan[t][j].body, line.body)
    <3>1. j \in 1..written'[t] /\ written[s] + 1 \in 1..written'[t] /\ j < written[s] + 1
      BY <2>1, <2>3, <2>4
    <3> QED BY <2>3, <2>4, <3>1 DEF Before
  <2> HIDE DEF line
  <2>5. CASE s = t
    BY <1>6, <1>8, <2>2, <2>3, <2>4, <2>5
  <2>6. CASE s # t
    BY <1>3, <1>8, <2>2, <2>3, <2>6, PutFacts DEF Deliver, SysTypeOK
  <2> QED BY <2>5, <2>6
<1>9. CASE ServerMove
  <2>1. shown' = shown
    BY <1>9 DEF ServerMove, calls
  <2>2. \A s \in Session : TaskReads(s) => down' = down
    BY DEF TaskReads
  <2> QED BY <1>3, <1>7, <1>8, <1>9, <2>1, <2>2 DEF ServerMove
<1> QED BY <1>5, <1>9, SysKinds

-----------------------------------------------------------------------------
(* Pages and results.                                                      *)

\* What the system makes for a session: a message, the complaint about lines that
\* were read as one, or the page that was asked for.
LEMMA SysMade ==
    ASSUME SysTypeOK, DeliveryInv, SysNext, NEW s \in Session, NEW f, f \in Made(s)'
    PROVE  \/ f \in Made(s)
           \/ f.command = "message"
           \/ f.command = "error" /\ Len(up[s]) > 1
           \/ /\ f.command = "history_response"
              /\ up[s] # <<>> /\ up[s][1] = "history"
              /\ pc[s] = "loop" /\ messages' = messages /\ uid' = uid /\ UNCHANGED calls
              /\ f.success => f.ids = HistoryPage(uid[s], plan[s].limit)
              /\ f.success \/ DbFaults
<1> USE DEF DeliveryInv, TaskInv
<1>1. chan[s] \in Seq(Frame) /\ up[s] \in Seq(Text)
  BY DEF TypeOK, SysTypeOK
<1>2. ASSUME answer'[s] = answer[s], NEW t \in Session, NEW g \in Frame, Enqueue(t, g)
      PROVE  f \in Made(s) \/ (t = s /\ f = g)
  <2>1. CASE t = s /\ chan' = [chan EXCEPT ![t] = Append(@, g)]
    <3>1. chan'[s] = Append(chan[s], g)
      BY <2>1 DEF TypeOK
    <3>2. \A j \in DOMAIN chan'[s] : (j \in DOMAIN chan[s] /\ chan'[s][j] = chan[s][j]) \/ chan'[s][j] = g
      BY <1>1, <3>1, AppendFacts
    <3> QED BY <1>2, <2>1, <3>2 DEF Made
  <2>2. CASE chan'[s] = chan[s]
    BY <1>2, <2>2 DEF Made
  <2> QED BY <1>2, <2>1, <2>2 DEF Enqueue, TypeOK
<1>3. ASSUME chan'[s] \in {chan[s], Delivered(s)}, answer'[s] \in {answer[s], <<>>}
      PROVE  f \in Made(s)
  <2>1. \A j \in DOMAIN chan'[s] : j \in DOMAIN chan[s] /\ chan'[s][j] = chan[s][j]
    BY <1>3, DeliveredType
  <2>2. \A k \in DOMAIN answer'[s] : k \in DOMAIN answer[s] /\ answer'[s][k] = answer[s][k]
    BY <1>3
  <2> QED BY <2>1, <2>2 DEF Made
<1>4. CASE TaskReads(s)
  <2>1. PICK n \in DOMAIN up[s] :
           \/ n = 1 /\ Handle(s, Head(up[s]))
           \/ n > 1 /\ ReadOther(s) /\ Enqueue(s, [command |-> "error"])
    BY <1>4 DEF TaskReads
  <2>2. n \in 1..Len(up[s]) /\ Len(up[s]) \in Nat /\ Head(up[s]) = up[s][1] /\ up[s] # <<>>
    BY <1>1
  <2>3. CASE n > 1 /\ ReadOther(s) /\ Enqueue(s, [command |-> "error"])
    <3> DEFINE g == [command |-> "error"]
    <3>1. g.command = "error" /\ g \in Frame /\ Enqueue(s, g) /\ answer' = answer
      BY <2>3 DEF Frame, NoticeFrame, ReadOther
    <3>2. Len(up[s]) > 1
      BY <2>2, <2>3
    <3> HIDE DEF g
    <3> QED BY <1>2, <3>1, <3>2
  <2>4. CASE up[s][1] = "history" /\ ReadHistory(s, plan[s].limit)
    <3>1. plan[s].limit \in HistoryLimits
      BY DEF SysTypeOK, Call
    <3>2. PICK g \in HistoryFrame :
             /\ g \in Frame /\ Prepare(s, g)
             /\ (g.success => g.ids = HistoryPage(uid[s], plan[s].limit)) /\ (g.success \/ DbFaults)
      BY <2>4, <3>1, HistoryPrepared
    <3>3. g.command = "history_response"
      BY DEF HistoryFrame
    <3>4. answer'[s] = <<g>>
      BY <3>2, PrepareFacts
    <3>5. pc[s] = "loop" /\ messages' = messages /\ uid' = uid /\ chan' = chan
      BY <2>4 DEF ReadHistory, Asks, store
    <3>6. UNCHANGED calls
      BY <1>4 DEF TaskReads
    <3>7. f \in Made(s) \/ f = g
      BY <3>4, <3>5 DEF Made
    <3> QED BY <2>2, <2>4, <3>2, <3>3, <3>5, <3>6, <3>7
  <2>5. CASE \/ Login(s, plan[s].as) \/ Register(s, plan[s].as) \/ ReadMessage(s, plan[s].to, FALSE)
    BY <1>3, <2>5 DEF Login, Register, ReadMessage, wires
  <2> QED BY <2>1, <2>3, <2>4, <2>5, <2>2 DEF Handle
<1>5. ASSUME NEW t \in Session \ {s}, TaskReads(t)
      PROVE  f \in Made(s)
  <2>1. chan'[s] = chan[s] /\ answer'[s] = answer[s]
    BY <1>5 DEF TaskReads, Handle, Login, Register, ReadMessage, ReadHistory, Prepare, ReadOther, Enqueue, wires,
                TypeOK
  <2> QED BY <1>3, <2>1
<1>6. ASSUME NEW t \in Session, Respond(t)
      PROVE  f \in Made(s)
  <2>1. PICK g \in Frame : answer[t] = <<g>> /\ Enqueue(t, g) /\ answer' = [answer EXCEPT ![t] = <<>>]
                           /\ chan' = [chan EXCEPT ![t] = Append(@, g)]
    BY <1>6, RespondFacts
  <2>2. CASE t # s
    BY <1>3, <2>1, <2>2 DEF TypeOK
  <2>3. CASE t = s
    <3>1. chan'[s] = Append(chan[s], g) /\ answer'[s] = <<>> /\ answer[s] = <<g>>
      BY <2>1, <2>3 DEF TypeOK
    <3>2. \A j \in DOMAIN chan'[s] : (j \in DOMAIN chan[s] /\ chan'[s][j] = chan[s][j]) \/ chan'[s][j] = g
      BY <1>1, <3>1, AppendFacts
    <3>3. g \in Made(s)
      <4>1. 1 \in DOMAIN <<g>> /\ <<g>>[1] = g
        OBVIOUS
      <4> QED BY <3>1, <4>1 DEF Made
    <3> QED BY <3>1, <3>2, <3>3 DEF Made
  <2> QED BY <2>2, <2>3
<1>7. ASSUME NEW t \in Session, TaskStep(t) \/ TaskWrites(t) \/ TaskEnds(t)
      PROVE  f \in Made(s) \/ f.command = "message"
  <2>1. CASE Push(t)
    <3> DEFINE event == [command |-> "message", from |-> uid[t], body |-> out[t]]
    <3>1. tx[t] \in Session /\ event \in Frame /\ event.command = "message"
      BY <2>1 DEF Push, RoutingOfPhase, UidOfPhase, Enrolled, TypeOK, Frame, MessageFrame
    <3>2. Enqueue(tx[t], event) /\ answer' = answer
      BY <2>1 DEF Push
    <3> HIDE DEF event
    <3> QED BY <1>2, <3>1, <3>2
  <2>2. CASE Cleanup(t)
    BY <1>3, <2>2 DEF Cleanup, RemoveHandle, TypeOK
  <2>3. CASE UNCHANGED <<chan, answer>>
    BY <1>3, <2>3
  <2> QED BY <1>6, <1>7, <2>1, <2>2, <2>3 DEF TaskStep, TaskAccepts, TaskGreets, TaskReplies, TaskRoutes,
          TaskWrites, TaskEnds, Accept, Greet, WriteReply, Enroll, LookUp, Recv, Disconnect, wires
<1>8. CASE ServerDies
  <2>1. chan'[s] = Delivered(s) /\ answer'[s] = <<>>
    BY <1>8 DEF ServerDies, Crash
  <2> QED BY <1>3, <2>1
<1>9. CASE UNCHANGED vars
  BY <1>3, <1>9 DEF vars, wires
<1>10. ASSUME NEW t \in Session,
             Dial(t) \/ Hear(t) \/ HearNothing(t) \/ StreamSend(t) \/ Break(t)
      PROVE  UNCHANGED vars
  BY <1>10 DEF Dial, Hear, HearNothing, StreamSend, Break
<1>11. AtRest => UNCHANGED vars
  BY DEF AtRest, allVars
<1> QED BY <1>4, <1>5, <1>7, <1>8, <1>9, <1>10, <1>11 DEF SysNext

\* Rows, users and what was known stay; so does what a page shows of them.
LEMMA OwnPageStays ==
    ASSUME TaskInv, [Next]_vars, NEW s \in Session, NEW ids, OwnPage(s, ids),
           known[s] \in Nat, known[s] <= Len(messages), known'[s] = known[s], plan' = plan
    PROVE  OwnPage(s, ids)'
<1>1. \A i \in DOMAIN messages :
         /\ i \in DOMAIN messages'
         /\ messages'[i].sender = messages[i].sender /\ messages'[i].receiver = messages[i].receiver
  BY RowFacts DEF SameMessage, vars, store
<1>2. uid'[s] = uid[s]
  BY GrowFacts DEF OwnPage, vars, control
<1>3. 1..known[s] \subseteq DOMAIN messages
  BY DEF TaskInv, TypeOK
<1> QED BY <1>1, <1>2, <1>3 DEF OwnPage, Owns

LEMMA RowsGrow ==
    ASSUME TaskInv, [Next]_vars
    PROVE  /\ Len(messages) \in Nat /\ Len(messages') \in Nat /\ Len(messages) <= Len(messages')
<1>1. messages \in Seq(Row) /\ messages' \in Seq(Row)
  BY TaskInvStep DEF TaskInv, TypeOK
<1>2. DOMAIN messages \subseteq DOMAIN messages'
  BY RowFacts DEF vars, store
<1>3. Len(messages) \in Nat /\ DOMAIN messages = 1..Len(messages)
      /\ Len(messages') \in Nat /\ DOMAIN messages' = 1..Len(messages')
  BY <1>1
<1>4. CASE Len(messages) = 0
  BY <1>3, <1>4
<1>5. CASE Len(messages) \in DOMAIN messages'
  BY <1>3, <1>5
<1> QED BY <1>2, <1>3, <1>4, <1>5

\* What a call has learnt of the rows changes only when it asks for its history.
LEMMA KnownFacts ==
    ASSUME SysTypeOK, TaskInv, SysNext, NEW t \in Session
    PROVE  /\ plan' = plan
           /\ \/ known'[t] = known[t]
              \/ step[t] = "auth" /\ result'[t].status = "none" /\ step'[t] = "history" /\ known'[t] = Len(messages)
           /\ step[t] \in {"history", "over"} => step'[t] \in {"history", "over"}
<1>1. ASSUME NEW s \in Session, CallMove(s)
      PROVE  /\ \/ known'[t] = known[t]
                \/ step[t] = "auth" /\ result'[t].status = "none" /\ step'[t] = "history" /\ known'[t] = Len(messages)
             /\ step[t] \in {"history", "over"} => step'[t] \in {"history", "over"}
  <2>1. CASE t # s
    BY <1>1, <2>1, CallFacts
  <2>2. CASE t = s
    BY <1>1, <2>2 DEF CallMove, DialMove, AuthMove, FailMove, LoginMove, PageMove, StreamMove, To, Outcomes, Asking
  <2> QED BY <2>1, <2>2
<1> QED BY <1>1, SysKinds, CallFacts DEF ServerMove, calls

LEMMA PagesOwnStep ==
    ASSUME SysInv, ServerInv, SysNext
    PROVE  PagesAreOwn'
<1> USE DEF SysInv, ServerInv, DeliveryInv
<1>0. [Next]_vars
  BY SysServer
<1> SUFFICES ASSUME NEW t \in Session
             PROVE  /\ known'[t] <= Len(messages')
                    /\ (\E n \in DOMAIN up'[t] : up'[t][n] = "history") => step'[t] \in {"history", "over"}
                    /\ \A f \in Made(t)' : f.command = "history_response" /\ f.success =>
                          step'[t] \in {"history", "over"} /\ OwnPage(t, f.ids)'
  BY DEF PagesAreOwn
<1>1. known[t] \in Nat /\ known[t] <= Len(messages)
  BY DEF PagesAreOwn, SysTypeOK
<1>2. known'[t] <= Len(messages')
  BY <1>0, <1>1, RowsGrow, KnownFacts
<1>3. (\E n \in DOMAIN up'[t] : up'[t][n] = "history") => step'[t] \in {"history", "over"}
  <2> DEFINE Has(q) == \E n \in DOMAIN q : q[n] = "history"
  <2>1. Has(up[t]) => step[t] \in {"history", "over"}
    BY DEF PagesAreOwn
  <2>2. up[t] \in Seq(Text) /\ plan[t].auth \in Text /\ plan[t].auth # "history"
    BY DEF SysTypeOK, Call, Text
  <2>3. ASSUME NEW line \in Text, line # "history", Has(Append(up[t], line)) PROVE Has(up[t])
    BY <2>2, <2>3, AppendFacts
  <2>4. ASSUME NEW n \in DOMAIN up[t], Has(SubSeq(up[t], n + 1, Len(up[t]))) PROVE Has(up[t])
    <3>1. /\ DOMAIN SubSeq(up[t], n + 1, Len(up[t])) = 1..(Len(up[t]) - n)
          /\ \A i \in 1..(Len(up[t]) - n) : SubSeq(up[t], n + 1, Len(up[t]))[i] = up[t][i + n]
      BY <2>2, DropFacts
    <3>2. PICK i \in 1..(Len(up[t]) - n) : up[t][i + n] = "history"
      BY <2>4, <3>1
    <3>3. i + n \in DOMAIN up[t]
      BY <2>2, <3>2
    <3> QED BY <3>2, <3>3
  <2> HIDE DEF Has
  <2>5. ASSUME NEW s \in Session, CallMove(s), Has(up'[t]) PROVE step'[t] \in {"history", "over"}
    <3>1. CASE t # s
      BY <2>1, <2>5, <3>1, CallFacts
    <3>2. CASE t = s
      <4>1. up'[t] = up[t] \/ \E line \in Text : up'[t] = Append(up[t], line) /\ (line # "history" \/ step'[t] = "history")
        BY <2>2, <2>5, <3>2 DEF CallMove, DialMove, AuthMove, FailMove, LoginMove, PageMove, StreamMove, To, Text
      <4>2. Has(up[t]) \/ step'[t] = "history"
        BY <2>3, <2>5, <4>1
      <4> QED BY <2>1, <4>2, KnownFacts
    <3> QED BY <3>1, <3>2
  <2>6. CASE ServerMove
    <3>1. Has(up'[t]) => Has(up[t])
      <4>1. ASSUME NEW s \in Session, TaskReads(s) PROVE Has(up'[t]) => Has(up[t])
        <5>1. CASE t # s
          BY <4>1, <5>1, TaskFacts
        <5>2. CASE t = s
          <6>1. \E n \in DOMAIN up[t] : up'[t] = SubSeq(up[t], n + 1, Len(up[t]))
            BY <4>1, <5>2 DEF TaskReads, SysTypeOK
          <6> QED BY <2>4, <6>1
        <5> QED BY <5>1, <5>2
      <4> QED BY <2>6, <4>1 DEF ServerMove
    <3>2. step'[t] = step[t]
      BY <2>6 DEF ServerMove, calls
    <3> QED BY <2>1, <3>1, <3>2 DEF Has
  <2> QED BY <2>5, <2>6, SysKinds DEF Has
<1>4. ASSUME NEW f, f \in Made(t)', f.command = "history_response", f.success
      PROVE  step'[t] \in {"history", "over"} /\ OwnPage(t, f.ids)'
  <2> DEFINE ids == f.ids
  <2>1. CASE f \in Made(t)
    <3>1. step[t] \in {"history", "over"} /\ OwnPage(t, ids)
      BY <1>4, <2>1 DEF PagesAreOwn
    <3>2. known'[t] = known[t] /\ plan' = plan /\ step'[t] \in {"history", "over"}
      BY <3>1, KnownFacts
    <3> HIDE DEF ids
    <3>3. TaskInv
      OBVIOUS
    <3>4. OwnPage(t, ids) =>
             /\ uid'[t] # NoUser
             /\ \A i \in ids : i \in DOMAIN messages' /\ Owns(uid[t], i)'
             /\ \/ \A i \in 1..known'[t] : Owns(uid[t], i)' => i \in ids
                \/ Cardinality(ids) = plan'[t].limit
      BY <1>0, <1>1, <3>2, <3>3, OwnPageStays DEF OwnPage
    <3> QED BY <3>1, <3>2, <3>4 DEF OwnPage, ids
  <2>2. CASE /\ up[t] # <<>> /\ up[t][1] = "history"
             /\ pc[t] = "loop" /\ messages' = messages /\ uid' = uid /\ UNCHANGED calls
             /\ ids = HistoryPage(uid[t], plan[t].limit)
    <3>1. 1 \in DOMAIN up[t]
      BY <2>2 DEF SysTypeOK
    <3>2. step[t] \in {"history", "over"}
      BY <2>2, <3>1 DEF PagesAreOwn
    <3>3. uid[t] # NoUser
      BY <2>2 DEF TaskInv, UidOfPhase, Enrolled
    <3>4. messages \in Seq(Row) /\ 1..known[t] \subseteq DOMAIN messages /\ plan[t].limit \in HistoryLimits
      BY <1>1 DEF TaskInv, TypeOK, SysTypeOK, Call
    <3>5. \A i \in ids : i \in DOMAIN messages /\ Owns(uid[t], i)
      BY <2>2 DEF HistoryPage, Concerns, Owns
    <3>6. \A i \in 1..known[t] : Owns(uid[t], i) => i \in ids \/ Cardinality(ids) = plan[t].limit
      BY <2>2, <3>4, HistoryPageFacts DEF Concerns, Owns
    <3> HIDE DEF ids
    <3> QED BY <2>2, <3>2, <3>3, <3>5, <3>6 DEF OwnPage, Owns, calls, ids
  <2> QED BY <1>4, <2>1, <2>2, SysMade
<1> QED BY <1>2, <1>3, <1>4

LEMMA ResultsStep ==
    ASSUME SysInv, ServerInv, SysNext
    PROVE  ResultsAreTrue'
<1> USE DEF SysInv, ServerInv, DeliveryInv
<1>0. [Next]_vars
  BY SysServer
<1> DEFINE Own(s, ids) ==
              /\ uid'[s] # NoUser
              /\ \A i \in ids : i \in DOMAIN messages' /\ Owns(uid[s], i)'
              /\ (\A i \in 1..known'[s] : Owns(uid[s], i)' => i \in ids) \/ Cardinality(ids) = plan'[s].limit
           True(s, at, r) ==
              /\ at \in {"new", "prompt", "auth", "history"} <=> r.status = "none"
              /\ at = "stream" => r.status = "ok"
              /\ at = "history" \/ r.status = "ok" => r.user = uid'[s] /\ uid'[s] # NoUser
              /\ \/ r.ids = {} /\ (r.status = "ok" => plan'[s].then # "history")
                 \/ r.status = "ok" /\ Own(s, r.ids)
<1> SUFFICES ASSUME NEW t \in Session
             PROVE  True(t, step'[t], result'[t])
  BY DEF ResultsAreTrue, OwnPage
<1>1. plan' = plan /\ known[t] \in Nat /\ known[t] <= Len(messages)
  BY KnownFacts DEF PagesAreOwn, SysTypeOK
<1>2. uid[t] # NoUser => uid'[t] = uid[t]
  BY <1>0, GrowFacts DEF vars, control
<1>3. ASSUME NEW ids, OwnPage(t, ids), known'[t] = known[t] PROVE Own(t, ids)
  BY <1>0, <1>1, <1>3, OwnPageStays DEF OwnPage
<1> HIDE DEF Own
<1>4. ASSUME result'[t] = result[t], known'[t] = known[t],
             \/ step'[t] = step[t]
             \/ step[t] \in {"new", "prompt"} /\ step'[t] \in {"prompt", "auth"}
             \/ step[t] = "stream" /\ step'[t] = "over"
      PROVE  True(t, step'[t], result'[t])
  <2> DEFINE r == result[t]
  <2>1. /\ step[t] \in {"new", "prompt", "auth", "history"} <=> r.status = "none"
        /\ step[t] = "stream" => r.status = "ok"
        /\ step[t] = "history" \/ r.status = "ok" => r.user = uid[t] /\ uid[t] # NoUser
        /\ \/ r.ids = {} /\ (r.status = "ok" => plan[t].then # "history")
           \/ r.status = "ok" /\ OwnPage(t, r.ids)
    BY DEF ResultsAreTrue
  <2> HIDE DEF r
  <2>2. /\ step'[t] \in {"new", "prompt", "auth", "history"} <=> r.status = "none"
        /\ step'[t] = "stream" => r.status = "ok"
        /\ step'[t] = "history" \/ r.status = "ok" => r.user = uid'[t] /\ uid'[t] # NoUser
    BY <1>2, <1>4, <2>1
  <2>3. \/ r.ids = {} /\ (r.status = "ok" => plan'[t].then # "history")
        \/ r.status = "ok" /\ Own(t, r.ids)
    BY <1>1, <1>3, <1>4, <2>1
  <2> QED BY <1>4, <2>2, <2>3 DEF r
<1>5. ASSUME CallMove(t) PROVE True(t, step'[t], result'[t])
  <2>1. UNCHANGED vars
    BY <1>5 DEF CallMove
  <2>2. ASSUME Heard(t)
        PROVE  LET line == Head(down[t]) IN
               \/ line.command = "auth_required"
               \/ line.command = "auth_response" /\ line.user \in {NoUser, uid[t]}
               \/ \E j \in 1..written[t] : line = chan[t][j]
    <3>1. 1 \in DOMAIN down[t] /\ Head(down[t]) = down[t][1]
      BY <2>2, TakeFacts DEF Heard, SysTypeOK
    <3> QED BY <3>1 DEF LinesAreTrue
  <2>3. ASSUME NEW j \in 1..written[t] PROVE j \in DOMAIN chan[t] /\ chan[t][j] \in Frame
    <3>1. chan[t] \in Seq(Frame) /\ written[t] \in Nat /\ written[t] <= Len(chan[t])
      BY DEF TaskInv, TypeOK, WrittenWithin
    <3> QED BY <3>1
  <2>4. CASE DialMove(t) \/ StreamMove(t) \/ (step[t] = "prompt" /\ AuthMove(t))
    <3>1. result'[t] = result[t] /\ known'[t] = known[t]
          /\ \/ step'[t] = step[t]
             \/ step[t] \in {"new", "prompt"} /\ step'[t] \in {"prompt", "auth"}
             \/ step[t] = "stream" /\ step'[t] = "over"
      BY <2>4 DEF DialMove, StreamMove, AuthMove, To
    <3> HIDE DEF True
    <3> QED BY <1>4, <3>1
  <2>5. ASSUME NEW status \in {"refused", "failed"}, To(t, "over", Outcomes(status, NoUser, {}), known[t], up[t])
        PROVE  True(t, step'[t], result'[t])
    BY <2>5 DEF To, Outcomes
  <2>6. CASE FailMove(t) \/ (step[t] = "auth" /\ AuthMove(t))
    <3> HIDE DEF True
    <3> QED BY <2>5, <2>6 DEF FailMove, AuthMove
  <2>7. CASE LoginMove(t)
    <3>1. Head(down[t]).user = uid[t] /\ uid[t] # NoUser
      <4>1. \A f \in Frame : f.command # "auth_response"
        BY DEF Frame, MessageFrame, HistoryFrame, SaveFrame, NoticeFrame
      <4> QED BY <2>2, <2>3, <2>7, <4>1 DEF LoginMove
    <3>2. \/ step'[t] = "history" /\ result'[t] = Outcomes("none", uid[t], {})
          \/ /\ plan[t].then # "history"
             /\ step'[t] \in {"over", "stream"} /\ result'[t] = Outcomes("ok", uid[t], {})
      BY <2>7, <3>1 DEF LoginMove, To
    <3> QED BY <1>1, <1>2, <3>1, <3>2 DEF Outcomes
  <2>8. CASE PageMove(t)
    <3> DEFINE line == Head(down[t])
    <3>1. PICK j \in 1..written[t] : line = chan[t][j]
      BY <2>2, <2>8 DEF PageMove
    <3>2. OwnPage(t, line.ids)
      <4>1. line \in Made(t)
        BY <2>3, <3>1 DEF Made
      <4> QED BY <2>8, <4>1 DEF PageMove, PagesAreOwn
    <3>3. known'[t] = known[t] /\ step'[t] = "over" /\ result'[t] = Outcomes("ok", result[t].user, line.ids)
      BY <2>8 DEF PageMove, To
    <3>4. result[t].user = uid[t] /\ uid[t] # NoUser
      BY <2>8 DEF PageMove, ResultsAreTrue
    <3> HIDE DEF line
    <3>5. Own(t, line.ids)
      BY <1>3, <3>2, <3>3
    <3> QED BY <1>2, <3>3, <3>4, <3>5 DEF Outcomes
  <2> HIDE DEF True
  <2>9. AuthMove(t) => step[t] \in {"prompt", "auth"}
    BY DEF AuthMove
  <2> QED BY <1>5, <2>4, <2>6, <2>7, <2>8, <2>9 DEF CallMove
<1> HIDE DEF True
<1>6. ASSUME NEW s \in Session \ {t}, CallMove(s) PROVE True(t, step'[t], result'[t])
  BY <1>4, <1>6, CallFacts
<1>7. CASE ServerMove
  BY <1>4, <1>7 DEF ServerMove, calls
<1> QED BY <1>5, <1>6, <1>7, SysKinds

-----------------------------------------------------------------------------
(* The invariant holds.                                                    *)

LEMMA SysInvInit == SysInit => SysInv
<1> SUFFICES ASSUME SysInit PROVE SysInv
  OBVIOUS
<1>1. plan \in [Session -> Call]
  BY PlanAssumption DEF SysInit
<1>2. SysTypeOK
  <2>1. <<>> \in Seq(Text) /\ <<>> \in Seq(Line) /\ <<>> \in Seq(Nat)
    OBVIOUS
  <2>2. Nothing \in Outcome /\ "new" \in Step
    BY DEF Nothing, Outcome, Step
  <2> QED BY <1>1, <2>1, <2>2 DEF SysInit, SysTypeOK
<1>3. NewIsIdle /\ CredOfPlan /\ LinesAreTrue /\ ShownIsPushed
  BY DEF SysInit, StartOn, NewIsIdle, CredOfPlan, LinesAreTrue, ShownIsPushed
<1>4. Len(messages) = 0
  BY DEF SysInit, StartOn
<1>5. PagesAreOwn
  <2>1. \A s \in Session : Made(s) = {} /\ up[s] = <<>> /\ known[s] = 0
    BY DEF SysInit, StartOn, Made
  <2> QED BY <1>4, <2>1 DEF PagesAreOwn
<1>6. ResultsAreTrue
  BY DEF SysInit, ResultsAreTrue, Nothing
<1> QED BY <1>2, <1>3, <1>5, <1>6 DEF SysInv

LEMMA SysInvStep == SysInv /\ ServerInv /\ [SysNext]_allVars => (SysInv /\ ServerInv)'
<1> SUFFICES ASSUME SysInv, ServerInv, [SysNext]_allVars
             PROVE  SysInv' /\ ServerInv'
  OBVIOUS
<1>1. ServerInv'
  BY ServerInvStep DEF SysInv
<1>2. CASE SysNext
  BY <1>1, <1>2, SysTypeStep, NewStep, CredStep, LinesStep, ShownStep, PagesOwnStep, ResultsStep
     DEF SysInv, ServerInv, DeliveryInv
<1>3. CASE UNCHANGED allVars
  <2> USE DEF SysInv, allVars, vars, store, control, wires, calls, network
  <2>1. SysTypeOK' /\ NewIsIdle' /\ CredOfPlan'
    BY <1>3 DEF SysTypeOK, NewIsIdle, CredOfPlan
  <2>2. LinesAreTrue' /\ ShownIsPushed'
    BY <1>3 DEF LinesAreTrue, ShownIsPushed
  <2>3. PagesAreOwn'
    BY <1>3 DEF PagesAreOwn, OwnPage, Owns, Made
  <2>4. ResultsAreTrue'
    BY <1>3 DEF ResultsAreTrue, OwnPage, Owns
  <2> QED BY <1>1, <2>1, <2>2, <2>3, <2>4
<1> QED BY <1>1, <1>2, <1>3

LEMMA SysInvariant == SysSpec => [](SysInv /\ ServerInv)
<1>1. SysInit => SysInv /\ ServerInv
  BY SysInvInit, ServerInvInit
<1> QED BY <1>1, SysInvStep, PTL DEF SysSpec

-----------------------------------------------------------------------------
(* The tasks of the composition are those of the server.                   *)

\* Whatever the calls and their connections do, the server's tasks take the steps
\* of RuraServer: the lines on the connections only choose among them.
THEOREM TasksRunTheServer == SysSpec => StartOn(Accounts) /\ [][Next]_vars
<1>1. SysInit => StartOn(Accounts)
  BY DEF SysInit
<1>2. SysInv /\ [SysNext]_allVars => [Next]_vars
  BY SysServer DEF SysInv
<1> QED BY <1>1, <1>2, SysInvariant, PTL DEF SysSpec

\* What users of the SDK's calls see of each other is the mail service, on a file
\* that already has accounts and over connections that fail.
THEOREM SystemIsMailService == SysSpec => MailSpec
<1>1. SysInit => Mail!Init
  BY StartsOnFile, MailStart
<1>2. SysInv /\ ServerInv /\ [SysNext]_allVars => [Mail!Next]_(Mail!vars)
  BY SysServer, MailNext DEF SysInv, ServerInv
<1> QED BY <1>1, <1>2, SysInvariant, PTL DEF SysSpec, MailSpec, Mail!Spec

\* And what the server keeps to, it keeps to here: the registry names live sessions,
\* events and accounts are genuine, and a history page has what was queued before it.
THEOREM ServerKeepsItsPromises ==
    SysSpec => [](/\ RouteIsLive /\ RoutedUntilFirstLeave /\ SoleSessionReachable
                  /\ EventIsGenuine /\ AccountIntegrity /\ HistoryCoversQueued)
<1>1. SysInv /\ ServerInv =>
         /\ RouteIsLive /\ RoutedUntilFirstLeave /\ SoleSessionReachable
         /\ EventIsGenuine /\ AccountIntegrity /\ HistoryCoversQueued
  BY PagesHave DEF ServerInv, DeliveryInv, RouteInv, EventInv, KnownIsStored, EventsOfRequests, EventIsGenuine
<1> QED BY <1>1, SysInvariant, PTL

-----------------------------------------------------------------------------
(* What the calls return.                                                  *)

\* A call that succeeds is logged in to the account whose credentials it gave, and
\* the history it returns is that account's and complete up to its limit (api.rs:
\* 527-580 over authed.rs), whatever other calls store meanwhile, and whichever
\* connections, servers and statements fail.
THEOREM HistoryIsOwn == SysSpec => []BundleIsOwnHistory
<1>1. SysInv /\ ServerInv => BundleIsOwnHistory
  <2> SUFFICES ASSUME SysInv, ServerInv, NEW s \in Session, result[s].status = "ok"
               PROVE  LET u == result[s].user  ids == result[s].ids IN
                      /\ users[u] = plan[s].as
                      /\ \A i \in ids : Owns(u, i)
                      /\ plan[s].then = "history" =>
                            \/ \A i \in 1..known[s] : Owns(u, i) => i \in ids
                            \/ Cardinality(ids) = plan[s].limit
    BY DEF BundleIsOwnHistory
  <2>1. /\ result[s].user = uid[s] /\ uid[s] # NoUser
        /\ \/ result[s].ids = {} /\ plan[s].then # "history"
           \/ OwnPage(s, result[s].ids)
    BY DEF SysInv, ResultsAreTrue
  <2>2. users[uid[s]] = plan[s].as
    <3>1. cred[s] = <<users[uid[s]]>>
      BY <2>1 DEF ServerInv, AccountIntegrity
    <3>2. cred[s] \in {<<>>, <<plan[s].as>>}
      BY DEF SysInv, CredOfPlan
    <3> QED BY <3>1, <3>2
  <2> QED BY <2>1, <2>2 DEF OwnPage
<1> QED BY <1>1, SysInvariant, PTL

-----------------------------------------------------------------------------
(* A stream after a snapshot.                                              *)

LEMMA RoutesStep ==
    ASSUME TaskInv, RoutesItsLast, [Next]_vars
    PROVE  RoutesItsLast'
<1> USE DEF TaskInv, TypeOK
<1>1. CASE sent' = sent /\ \A s \in Session : out'[s] \in {out[s], 0}
  BY <1>1 DEF RoutesItsLast
<1>2. ASSUME NEW s \in Session, NEW to \in UserId, NEW saved \in BOOLEAN, ReadMessage(s, to, saved)
      PROVE  RoutesItsLast'
  <2> DEFINE req == [by |-> s, to |-> to, known |-> to \in DOMAIN users]
  <2>1. sent \in Seq(Request) /\ req \in Request /\ sent' = Append(sent, req) /\ req.by = s
    BY <1>2 DEF ReadMessage, Request
  <2> HIDE DEF req
  <2>2. /\ Len(sent) \in Nat /\ DOMAIN sent = 1..Len(sent) /\ DOMAIN sent' = 1..(Len(sent) + 1)
        /\ \A n \in 1..Len(sent) : sent'[n] = sent[n]
        /\ sent'[Len(sent) + 1].by = s
    BY <2>1, AppendFacts
  <2>3. out'[s] = Len(sent) + 1 /\ \A t \in Session \ {s} : out'[t] = out[t]
    BY <1>2 DEF ReadMessage
  <2>4. ASSUME NEW t \in Session, NEW n \in DOMAIN sent', out'[t] # 0, sent'[n].by = t
        PROVE  n <= out'[t]
    <3>1. CASE t = s
      BY <2>2, <2>3, <2>4, <3>1
    <3>2. CASE t # s
      <4>1. n \in DOMAIN sent /\ sent[n].by = t
        <5>1. n # Len(sent) + 1
          BY <2>2, <2>4, <3>2, Zenon
        <5>2. n \in 1..Len(sent)
          <6>1. n \in 1..(Len(sent) + 1) /\ Len(sent) \in Nat
            BY <2>2, <2>4
          <6> QED BY <5>1, <6>1
        <5> QED BY <2>2, <2>4, <5>2
      <4> QED BY <2>3, <2>4, <3>2, <4>1 DEF RoutesItsLast
    <3> QED BY <3>1, <3>2
  <2> QED BY <2>4 DEF RoutesItsLast
<1>3. ASSUME NEW s \in Session,
             QuietStep(s) \/ AnswerStep(s) \/ WriteReply(s) \/ Push(s) \/ Recv(s) \/ Cleanup(s)
      PROVE  sent' = sent /\ \A t \in Session : out'[t] \in {out[t], 0}
  BY <1>3 DEF QuietStep, AnswerStep, WriteReply, Push, Recv, Cleanup, control
<1>4. ASSUME NEW s \in Session, LookUp(s)
      PROVE  sent' = sent /\ \A t \in Session : out'[t] \in {out[t], 0}
  <2>1. sent' = sent /\ (out' = out \/ out' = [out EXCEPT ![s] = 0])
    BY <1>4 DEF LookUp
  <2> QED BY <2>1
<1>5. Crash \/ UNCHANGED vars => sent' = sent /\ \A t \in Session : out'[t] \in {out[t], 0}
  BY DEF Crash, vars, control
<1> QED BY <1>1, <1>2, <1>3, <1>4, <1>5, StepKinds

\* What a call has returned it has returned for good.
LEMMA ResultIsFinal ==
    ASSUME SysInv, SysNext, NEW h \in Session, result[h].status # "none"
    PROVE  result'[h] = result[h]
<1>1. step[h] \in {"stream", "over"}
  BY DEF SysInv, SysTypeOK, Step, ResultsAreTrue
<1>2. ASSUME CallMove(h) PROVE result'[h] = result[h]
  BY <1>1, <1>2 DEF CallMove, DialMove, AuthMove, FailMove, LoginMove, PageMove, StreamMove, To, Asking
<1>3. SysTypeOK
  BY DEF SysInv
<1> QED BY <1>2, <1>3, SysKinds, CallFacts DEF ServerMove, calls

LEMMA SnapshotStep ==
    ASSUME SysInv, ServerInv, RoutesItsLast, ChannelFollowsSnapshot, SysNext
    PROVE  ChannelFollowsSnapshot'
<1> USE DEF SysInv, ServerInv, DeliveryInv
<1>0. [Next]_vars
  BY SysServer
<1>1. plan' = plan /\ \A t \in Session : plan[t].waits \subseteq Session
  BY SysKinds DEF CallMove, ServerMove, calls, SysTypeOK, Call
<1> DEFINE Follows(t, h) ==
              /\ result[h].status # "none"
              /\ \A i \in result[h].ids : \A j \in DOMAIN chan[t] :
                    LET m == messages[i].content  f == chan[t][j] IN
                    f.command = "message" /\ sent[m].by = sent[f.body].by => m <= f.body
           FollowsAfter(t, h) ==
              /\ result'[h].status # "none"
              /\ \A i \in result'[h].ids : \A j \in DOMAIN chan'[t] :
                    LET m == messages'[i].content  f == chan'[t][j] IN
                    f.command = "message" /\ sent'[m].by = sent'[f.body].by => m <= f.body
<1> SUFFICES ASSUME NEW t \in Session, step'[t] # "new", NEW h \in plan[t].waits
             PROVE  FollowsAfter(t, h)
  BY <1>1 DEF ChannelFollowsSnapshot
<1>2. h \in Session
  BY <1>1
<1>3. step[t] # "new" => Follows(t, h)
  BY DEF ChannelFollowsSnapshot
<1>4. ASSUME NEW s \in Session, CallMove(s) PROVE FollowsAfter(t, h)
  <2>1. UNCHANGED <<messages, sent, chan>>
    BY <1>4 DEF CallMove, vars, store, control, wires
  <2>2. CASE step[t] # "new"
    <3>1. result'[h] = result[h]
      BY <1>2, <1>3, <2>2, ResultIsFinal
    <3> QED BY <1>3, <2>1, <2>2, <3>1
  <2>3. CASE step[t] = "new"
    <3>1. t = s
      BY <1>4, <2>3, CallFacts
    <3>2. result[h].status # "none"
      BY <1>4, <2>3, <3>1 DEF CallMove, DialMove, AuthMove, FailMove, LoginMove, PageMove, StreamMove, Asking
    <3>3. chan[t] = <<>>
      BY <2>3 DEF NewIsIdle, RoutedInv, SilentBefore, Anonymous
    <3> QED BY <1>2, <2>1, <3>2, <3>3, ResultIsFinal
  <2> QED BY <2>2, <2>3
<1>5. CASE ServerMove
  <2>1. step[t] # "new" /\ result' = result
    BY <1>5 DEF ServerMove, calls
  <2> SUFFICES ASSUME NEW i \in result[h].ids, NEW j \in DOMAIN chan'[t], chan'[t][j].command = "message",
                      sent'[messages'[i].content].by = sent'[chan'[t][j].body].by
               PROVE  messages'[i].content <= chan'[t][j].body
    BY <1>3, <2>1
  <2> DEFINE m == messages[i].content
  <2>2. i \in DOMAIN messages
    BY <1>2 DEF ResultsAreTrue, OwnPage
  <2>3. messages'[i].content = m
    BY <1>0, <2>2, RowFacts DEF SameMessage, vars, store
  <2>4. m \in DOMAIN sent /\ \A n \in DOMAIN sent : sent'[n] = sent[n]
    BY <1>0, <2>2, GrowFacts DEF PageInv, RowsOfRequests, vars, control
  <2>5. CASE j \in DOMAIN chan[t] /\ chan'[t][j] = chan[t][j]
    <3>1. chan[t][j].body \in DOMAIN sent
      BY <2>5 DEF EventInv, EventsOfRequests
    <3>2. sent[m].by = sent[chan[t][j].body].by
      BY <2>3, <2>4, <2>5, <3>1
    <3> QED BY <1>3, <2>1, <2>3, <2>5, <3>2
  <2>6. ASSUME NEW x \in Session, Push(x),
               chan'[t][j] = [command |-> "message", from |-> uid[x], body |-> out[x]]
        PROVE  m <= chan'[t][j].body
    <3>1. out[x] \in DOMAIN sent /\ sent[out[x]].by = x
      BY <2>6 DEF Push, TaskInv, RoutingOfPhase, RoutedInv, RequestsHaveUsers
    <3>2. chan'[t][j].body = out[x] /\ sent[m].by = x
      BY <2>3, <2>4, <2>6, <3>1
    <3>3. out[x] # 0
      BY <3>1 DEF TaskInv, TypeOK
    <3> QED BY <2>4, <3>2, <3>3 DEF RoutesItsLast
  <2>7. \/ j \in DOMAIN chan[t] /\ chan'[t][j] = chan[t][j]
        \/ \E x \in Session :
              Push(x) /\ chan'[t][j] = [command |-> "message", from |-> uid[x], body |-> out[x]]
    BY <1>0, ChannelFacts DEF vars, wires
  <2> QED BY <2>3, <2>5, <2>6, <2>7
<1> QED BY <1>4, <1>5, SysKinds

\* A stream opened after a history fetch shows, of each sender, nothing older than
\* what the history has: the snapshot is never behind the stream (api.rs:527-580,
\* then 353-432), whoever stores and pushes in between.
THEOREM SnapshotIsFirst == SysSpec => []SnapshotPrecedesStream
<1> DEFINE Inv == RoutesItsLast /\ ChannelFollowsSnapshot
<1>1. SysInit => Inv
  BY DEF SysInit, StartOn, RoutesItsLast, ChannelFollowsSnapshot
<1>2. SysInv /\ ServerInv /\ Inv /\ [SysNext]_allVars => Inv'
  <2> SUFFICES ASSUME SysInv, ServerInv, Inv, [SysNext]_allVars
               PROVE  Inv'
    OBVIOUS
  <2>1. RoutesItsLast'
    BY SysServer, RoutesStep DEF SysInv, ServerInv, DeliveryInv
  <2>2. CASE SysNext
    BY <2>1, <2>2, SnapshotStep
  <2>3. CASE UNCHANGED allVars
    BY <2>1, <2>3 DEF allVars, vars, store, control, wires, calls, ChannelFollowsSnapshot
  <2> QED BY <2>2, <2>3
<1>3. SysInv /\ ServerInv /\ Inv => SnapshotPrecedesStream
  <2> SUFFICES ASSUME SysInv, ServerInv, ChannelFollowsSnapshot,
                      NEW h \in Session, NEW t \in Session, h \in plan[t].waits,
                      NEW i \in result[h].ids, NEW k \in DOMAIN shown[t],
                      sent[messages[i].content].by = sent[shown[t][k]].by
               PROVE  messages[i].content <= shown[t][k]
    BY DEF SnapshotPrecedesStream
  <2>1. PICK j \in 1..written[t] : chan[t][j].command = "message" /\ chan[t][j].body = shown[t][k]
    BY DEF SysInv, ShownIsPushed
  <2>2. j \in DOMAIN chan[t]
    <3>1. chan[t] \in Seq(Frame) /\ written[t] \in Nat /\ written[t] <= Len(chan[t])
      BY DEF ServerInv, DeliveryInv, TaskInv, TypeOK, WrittenWithin
    <3> QED BY <3>1
  <2>3. step[t] # "new"
    BY DEF SysInv, NewIsIdle
  <2> QED BY <2>1, <2>2, <2>3 DEF ChannelFollowsSnapshot
<1> QED BY <1>1, <1>2, <1>3, SysInvariant, PTL DEF SysSpec

-----------------------------------------------------------------------------
(* What a stream shows.                                                    *)

LEMMA ShownByStep ==
    ASSUME SysInv, ShownByStreams, SysNext
    PROVE  ShownByStreams'
<1> USE DEF SysInv
<1> SUFFICES ASSUME NEW t \in Session, shown'[t] # <<>> PROVE result'[t].status = "ok"
  BY DEF ShownByStreams
<1>1. ASSUME shown[t] # <<>> PROVE result'[t].status = "ok"
  <2>1. result[t].status = "ok"
    BY <1>1 DEF ShownByStreams
  <2> QED BY <2>1, ResultIsFinal
<1>2. ASSUME CallMove(t), shown' # shown PROVE result'[t].status = "ok"
  <2>1. step[t] = "stream"
    BY <1>2 DEF CallMove
  <2>2. result[t].status = "ok"
    BY <2>1 DEF ResultsAreTrue
  <2> QED BY <2>2, ResultIsFinal
<1>3. ASSUME NEW s \in Session \ {t}, CallMove(s) PROVE shown'[t] = shown[t]
  BY <1>3 DEF CallMove
<1>4. ServerMove => shown' = shown
  BY DEF ServerMove, calls
<1> QED BY <1>1, <1>2, <1>3, <1>4, SysKinds

\* A message that a stream shows was made for its user, by one connection's
\* request; none is shown twice, and one connection's in the order it wrote them:
\* from the sender's line over storage, registry and channel (handlers.rs:8-38,
\* loop_task.rs:32-76) to the sink (api.rs:397-420), whatever fails on the way.
THEOREM StreamsShowTheirMail == SysSpec => []ShownIsMail
<1> DEFINE Inv == ShownByStreams /\ ShownInOrder /\ Promise!MailInv
<1>1. SysInit => Inv
  <2>1. SysInit => Promise!MailInv
    BY StartsOnFile, PromiseStart
  <2>2. SysInit => ShownByStreams /\ ShownInOrder
    BY DEF SysInit, ShownByStreams, ShownInOrder, Ordered
  <2> QED BY <2>1, <2>2
<1>2. SysInv /\ ServerInv /\ Inv /\ [SysNext]_allVars => Inv'
  <2> SUFFICES ASSUME SysInv, ServerInv, Inv, [SysNext]_allVars
               PROVE  Inv'
    OBVIOUS
  <2>1. Promise!MailInv'
    BY SysServer, PromiseStep DEF SysInv, ServerInv
  <2>2. CASE SysNext
    BY <2>1, <2>2, ShownByStep, OrderStep
  <2>3. CASE UNCHANGED allVars
    <3>1. UNCHANGED <<shown, down, chan, written, result>>
      BY <2>3 DEF allVars, vars, wires, calls, network
    <3> QED BY <2>1, <3>1 DEF ShownByStreams, ShownInOrder, Ordered, Before
  <2> QED BY <2>2, <2>3
<1>3. SysInv /\ ServerInv /\ Inv => ShownIsMail
  <2> SUFFICES ASSUME SysInv, ServerInv, Inv, NEW s \in Session, NEW t \in Session,
                      NEW i \in DOMAIN shown[s], NEW k \in DOMAIN shown[t]
               PROVE  /\ shown[s][i] \in DOMAIN sent /\ sent[shown[s][i]].to = result[s].user
                      /\ shown[s][i] = shown[t][k] => s = t /\ i = k
                      /\ s = t /\ i < k /\ sent[shown[s][i]].by = sent[shown[t][k]].by
                         => shown[s][i] < shown[t][k]
    BY DEF ShownIsMail
  <2>1. Mail!Addressed /\ Mail!AtMostOnce /\ Mail!InOrder
    BY DEF Promise!MailInv, Mail!Addressed, Mail!AtMostOnce, Mail!InOrder,
           Promise!Addressed, Promise!AtMostOnce, Promise!InOrder
  <2>2. ASSUME NEW r \in Session, NEW j \in 1..written[r], chan[r][j].command = "message"
        PROVE  j \in Nat /\ j \in DOMAIN Box(r) /\ Box(r)[j] = chan[r][j].body /\ Box(r)[j] # 0
    <3>1. chan[r] \in Seq(Frame) /\ written[r] \in Nat /\ written[r] <= Len(chan[r])
      BY DEF ServerInv, DeliveryInv, TaskInv, TypeOK, WrittenWithin
    <3>2. j \in DOMAIN chan[r]
      BY <3>1
    <3>3. chan[r][j].body \in DOMAIN sent
      BY <2>2, <3>2 DEF ServerInv, EventInv, EventsOfRequests
    <3>4. chan[r][j].body # 0
      <4>1. sent \in Seq(Request)
        BY DEF ServerInv, DeliveryInv, TaskInv, TypeOK
      <4> QED BY <3>3, <4>1
    <3>5. BodyOf(chan[r][j]) = chan[r][j].body
      BY <2>2 DEF BodyOf
    <3>6. j \in DOMAIN Box(r) /\ Box(r)[j] = BodyOf(chan[r][j])
      BY <3>2 DEF Box
    <3>7. j \in Nat
      BY <2>2, <3>1
    <3> QED BY <3>4, <3>5, <3>6, <3>7
  <2>3. PICK a \in 1..written[s] : chan[s][a].command = "message" /\ chan[s][a].body = shown[s][i]
    BY DEF SysInv, ShownIsPushed
  <2>4. PICK b \in 1..written[t] : chan[t][b].command = "message" /\ chan[t][b].body = shown[t][k]
    BY DEF SysInv, ShownIsPushed
  <2>5. shown[s][i] \in DOMAIN sent /\ sent[shown[s][i]].to = result[s].user
    <3>1. shown[s][i] \in DOMAIN sent /\ sent[shown[s][i]].to = uid[s]
      BY <2>1, <2>2, <2>3 DEF Mail!Addressed
    <3>2. shown[s] # <<>>
      OBVIOUS
    <3>3. result[s].user = uid[s]
      BY <3>2 DEF ShownByStreams, SysInv, ResultsAreTrue
    <3> QED BY <3>1, <3>3
  <2>6. ASSUME NEW r \in Session, NEW x \in DOMAIN shown[r], NEW y \in DOMAIN shown[r], x < y
        PROVE  /\ shown[r][x] # shown[r][y]
               /\ sent[shown[r][x]].by = sent[shown[r][y]].by => shown[r][x] < shown[r][y]
    <3>1. PICK c, d \in 1..written[r] :
             /\ c < d
             /\ chan[r][c].command = "message" /\ chan[r][c].body = shown[r][x]
             /\ chan[r][d].command = "message" /\ chan[r][d].body = shown[r][y]
      BY <2>6 DEF ShownInOrder, Ordered, Before
    <3>2. /\ c \in DOMAIN Box(r) /\ Box(r)[c] = shown[r][x] /\ Box(r)[c] # 0
          /\ d \in DOMAIN Box(r) /\ Box(r)[d] = shown[r][y] /\ Box(r)[d] # 0
          /\ c # d
      BY <2>2, <3>1
    <3> QED BY <2>1, <3>1, <3>2 DEF Mail!AtMostOnce, Mail!InOrder
  <2>7. ASSUME shown[s][i] = shown[t][k] PROVE s = t /\ i = k
    <3>1. s = t
      BY <2>1, <2>2, <2>3, <2>4, <2>7 DEF Mail!AtMostOnce
    <3>2. shown[s] \in Seq(Nat)
      BY DEF SysInv, SysTypeOK
    <3>3. i \in Nat /\ k \in Nat
      BY <3>1, <3>2
    <3>4. ~(i < k) /\ ~(k < i)
      BY <2>6, <2>7, <3>1
    <3> QED BY <3>1, <3>3, <3>4
  <2> QED BY <2>5, <2>6, <2>7
<1> QED BY <1>1, <1>2, <1>3, SysInvariant, PTL DEF SysSpec

-----------------------------------------------------------------------------
(* A history call and its task.                                            *)

\* A step that leaves a connection, its task's phase and what it wrote alone.
Still(t) == up'[t] = up[t] /\ down'[t] = down[t] /\ written'[t] = written[t]

\* A task writes a line, or reads some.
Says(t, line)  == up'[t] = up[t] /\ written'[t] = written[t] /\ down'[t] = Append(down[t], line)
Takes(t) ==
    /\ down'[t] = down[t] /\ written'[t] = written[t]
    /\ \E n \in DOMAIN up[t] : up'[t] = SubSeq(up[t], n + 1, Len(up[t]))
    /\ \/ pc[t] = "unauth" /\ pc'[t] = "reply"
       \/ pc[t] = "loop" /\ pc'[t] = "respond" /\ up[t][1] = "history"
       \/ pc[t] = "loop" /\ (up[t][1] = "message" \/ Len(up[t]) > 1)

\* What happens to a connection that holds, while its client waits.
LEMMA WaitingMoves ==
    ASSUME SysTypeOK, TaskInv, SysNext, NEW t \in Session, step[t] \in Asking, ~cut'[t],
           \A s \in Session : ~CallMove(s)
    PROVE  \/ Still(t) /\ pc'[t] = pc[t]
           \/ Still(t) /\ pc[t] = "idle" /\ pc'[t] = "greet"
           \/ Still(t) /\ pc[t] \in {"enroll", "respond"} /\ pc'[t] = "loop"
           \/ Says(t, [command |-> "auth_required"]) /\ pc[t] = "greet" /\ pc'[t] = "unauth"
           \/ /\ Says(t, [command |-> "auth_response", user |-> reply[t]])
              /\ pc[t] = "reply" /\ pc'[t] = IF reply[t] = NoUser THEN "unauth" ELSE "enroll"
           \/ /\ up'[t] = up[t] /\ pc[t] = "loop" /\ pc'[t] = "loop" /\ chan' = chan
              /\ written'[t] = written[t] + 1 /\ written[t] < Len(chan[t])
              /\ down'[t] = Append(down[t], chan[t][written[t] + 1])
           \/ Takes(t)
           \/ pc[t] \in {"route", "push", "cleanup"}
<1> USE DEF TaskInv, TypeOK, SysTypeOK, Goto, Still, Asking
<1>0. \A s \in Session : cut[s] => cut'[s]
  BY SysKinds DEF ServerMove
<1>1. ASSUME NEW s \in Session \ {t}, TaskStep(s) \/ TaskReads(s) \/ TaskWrites(s) \/ TaskEnds(s)
      PROVE  Still(t) /\ pc'[t] = pc[t]
  <2>1. written'[t] = written[t]
    BY <1>1 DEF TaskStep, TaskAccepts, TaskGreets, TaskReplies, TaskRoutes, TaskReads, TaskWrites, TaskEnds,
        Accept, Greet, WriteReply, Enroll, LookUp, Push, Respond, Cleanup, Handle, Login, Register,
        ReadHistory, ReadMessage, ReadOther, Recv, Disconnect, wires
  <2> QED BY <1>1, <2>1, TaskFacts
<1>2. CASE TaskAccepts(t)
  <2>1. Still(t) /\ pc[t] = "idle"
    BY <1>2 DEF TaskAccepts, Accept, wires, network
  <2>2. pc'[t] \in {"greet", "closed"} /\ (pc'[t] = "closed" <=> cut[t])
    BY <1>2 DEF TaskAccepts, Accept
  <2> QED BY <1>0, <2>1, <2>2
<1>3. CASE TaskGreets(t)
  <2>1. ~WriteFails(t)
    BY <1>0 DEF WriteFails
  <2> QED BY <1>3, <2>1 DEF TaskGreets, Greet, Deliver, Says, wires
<1>4. CASE TaskReplies(t)
  <2>1. ~WriteFails(t)
    BY <1>0 DEF WriteFails
  <2>2. /\ pc[t] = "reply" /\ pc'[t] # "closed" /\ UNCHANGED <<up, written>>
        /\ Deliver(t, [command |-> "auth_response", user |-> reply[t]])
    BY <1>4, <2>1 DEF TaskReplies, WriteReply, wires
  <2>3. pc'[t] = IF reply[t] = NoUser THEN "unauth" ELSE "enroll"
    BY <1>4, <2>2 DEF TaskReplies, WriteReply
  <2> QED BY <2>2, <2>3 DEF Deliver, Says
<1>5. CASE TaskRoutes(t)
  <2>1. CASE Enroll(t)
    BY <1>5, <2>1 DEF TaskRoutes, Enroll, wires, network
  <2>2. CASE LookUp(t) \/ Push(t) \/ Cleanup(t)
    BY <2>2 DEF LookUp, Push, Cleanup
  <2>3. CASE Respond(t)
    BY <1>5, <2>3 DEF TaskRoutes, Respond, network
  <2> QED BY <1>5, <2>1, <2>2, <2>3 DEF TaskRoutes
<1>6. CASE TaskReads(t)
  <2>1. PICK n \in DOMAIN up[t] :
           /\ up' = [up EXCEPT ![t] = SubSeq(@, n + 1, Len(@))]
           /\ \/ n = 1 /\ Handle(t, Head(up[t]))
              \/ n > 1 /\ ReadOther(t) /\ Enqueue(t, [command |-> "error"])
    BY <1>6 DEF TaskReads
  <2>2. up'[t] = SubSeq(up[t], n + 1, Len(up[t])) /\ down' = down
    BY <1>6, <2>1 DEF TaskReads
  <2>3. Head(up[t]) = up[t][1] /\ n \in 1..Len(up[t]) /\ Len(up[t]) \in Nat
    <3>1. up[t] \in Seq(Text) /\ up[t] # <<>>
      OBVIOUS
    <3> QED BY <3>1
  <2>4. CASE Login(t, plan[t].as) \/ Register(t, plan[t].as)
    <3>1. pc[t] = "unauth" /\ pc'[t] = "reply" /\ written' = written
      BY <2>4 DEF Login, Register, Grant, Deny, Answer, wires
    <3> QED BY <2>2, <3>1 DEF Takes
  <2>5. CASE up[t][1] = "history" /\ ReadHistory(t, plan[t].limit)
    <3>1. pc[t] = "loop" /\ pc'[t] = "respond" /\ written' = written
      BY <2>5 DEF ReadHistory, Asks, Prepare
    <3> QED BY <2>2, <2>5, <3>1 DEF Takes
  <2>6. CASE up[t][1] = "message" /\ ReadMessage(t, plan[t].to, FALSE)
    BY <2>2, <2>6 DEF ReadMessage, wires, Takes
  <2>7. CASE n > 1 /\ ReadOther(t)
    <3>1. Len(up[t]) > 1
      BY <2>3, <2>7
    <3>2. pc[t] = "loop" /\ written' = written
      BY <2>7 DEF ReadOther, Asks
    <3>3. Takes(t)
      BY <2>2, <3>1, <3>2 DEF Takes
    <3> QED BY <3>3
  <2>8. \/ Login(t, plan[t].as) \/ Register(t, plan[t].as)
        \/ up[t][1] = "history" /\ ReadHistory(t, plan[t].limit)
        \/ up[t][1] = "message" /\ ReadMessage(t, plan[t].to, FALSE)
        \/ n > 1 /\ ReadOther(t)
    BY <2>1, <2>3 DEF Handle
  <2> QED BY <2>4, <2>5, <2>6, <2>7, <2>8
<1>7. CASE TaskWrites(t)
  BY <1>7 DEF TaskWrites, Recv, Deliver, control
<1>8. ~TaskEnds(t)
  BY <1>0 DEF TaskEnds
<1>9. ASSUME NEW s \in Session, Break(s) PROVE Still(t) /\ pc'[t] = pc[t]
  BY <1>9 DEF Break, vars, wires, control
<1>10. ~ServerDies
  BY DEF ServerDies
<1>11. CASE AtRest
  BY <1>11 DEF AtRest, allVars, vars, wires, control, network
<1>12. ASSUME NEW s \in Session PROVE ~(Dial(s) \/ Hear(s) \/ HearNothing(s) \/ StreamSend(s))
  BY DialKind, HearKind, HearNothingKind, SendKind
<1> HIDE DEF Takes, Says, Still
<1>13. \A s \in Session : s = t \/ s \in Session \ {t}
  OBVIOUS
<1> QED BY <1>1, <1>2, <1>3, <1>4, <1>5, <1>6, <1>7, <1>8, <1>9, <1>10, <1>11, <1>12, <1>13 DEF SysNext, TaskStep

\* Lines on their way after one more is put there, as far as FirstIs reads them.
LEMMA SaysFacts ==
    ASSUME SysTypeOK, NEW t \in Session, NEW line \in Line, down'[t] = Append(down[t], line)
    PROVE  /\ Len(down[t]) \in Nat /\ Len(down'[t]) = Len(down[t]) + 1 /\ down'[t] # <<>>
           /\ down[t] # <<>> => down'[t][1] = down[t][1]
           /\ \A k \in 1..Len(down[t]) : down'[t][k] = down[t][k]
           /\ down'[t][Len(down[t]) + 1] = line
<1>1. down[t] \in Seq(Line)
  BY DEF SysTypeOK
<1> QED BY <1>1, AppendFacts

\* What was written and is on a channel, before and after a step.
LEMMA FirstStays ==
    ASSUME SysInv, ServerInv, [SysNext]_allVars, NEW t \in Session
    PROVE  /\ written[t] \in Nat /\ written'[t] \in Nat
           /\ written[t] > 0 => written'[t] > 0 /\ chan'[t][1] = chan[t][1]
           /\ pc[t] \in {"idle", "greet", "unauth", "reply", "enroll"} => chan[t] = <<>> /\ written[t] = 0
<1>1. /\ written[t] \in Nat /\ written'[t] \in Nat /\ written[t] <= written'[t]
      /\ \A j \in 1..written[t] : chan'[t][j] = chan[t][j]
  BY SysServer, WrittenStays DEF SysInv, ServerInv
<1>2. pc[t] \in {"idle", "greet", "unauth", "reply", "enroll"} => chan[t] = <<>>
  BY DEF ServerInv, DeliveryInv, RoutedInv, SilentBefore, Anonymous
<1>3. written[t] <= Len(chan[t])
  BY DEF ServerInv, DeliveryInv, TaskInv, WrittenWithin
<1> QED BY <1>1, <1>2, <1>3

LEMMA PromptedStep ==
    ASSUME SysInv, ServerInv, SysNext, NEW t \in Session, step[t] = "prompt", Prompted(t), ~cut'[t],
           \A s \in Session : ~CallMove(s)
    PROVE  Prompted(t)'
<1> USE DEF SysInv, ServerInv, DeliveryInv
<1>1. CASE Says(t, [command |-> "auth_required"]) /\ pc[t] = "greet" /\ pc'[t] = "unauth"
  <2>1. [command |-> "auth_required"] \in Line
    BY DEF Line
  <2>2. up'[t] = <<>> /\ Len(down[t]) = 0 /\ Len(down'[t]) = Len(down[t]) + 1
    BY <1>1, <2>1, SaysFacts DEF Prompted, Says
  <2> QED BY <1>1, <2>2 DEF Prompted
<1>2. CASE Still(t) /\ (pc'[t] = pc[t] \/ (pc[t] = "idle" /\ pc'[t] = "greet"))
  BY <1>2 DEF Still, Prompted
<1>3. pc[t] \in {"idle", "greet", "unauth"} /\ ~Takes(t)
  BY DEF Prompted, Takes
<1>4. step[t] \in Asking
  BY DEF Asking
<1> QED BY <1>1, <1>2, <1>3, <1>4, WaitingMoves

LEMMA LoggingInStep ==
    ASSUME SysInv, ServerInv, SysNext, NEW t \in Session, step[t] = "auth", LoggingIn(t), ~cut'[t],
           \A s \in Session : ~CallMove(s)
    PROVE  LoggingIn(t)'
<1> USE DEF SysInv, ServerInv, DeliveryInv
<1>1. /\ written[t] \in Nat /\ written'[t] \in Nat
      /\ written[t] > 0 => written'[t] > 0 /\ chan'[t][1] = chan[t][1]
      /\ pc[t] \in {"idle", "greet", "unauth", "reply", "enroll"} => chan[t] = <<>> /\ written[t] = 0
  BY FirstStays
<1>2. CASE Still(t) /\ (pc'[t] = pc[t] \/ (pc[t] = "enroll" /\ pc'[t] = "loop"))
  BY <1>1, <1>2 DEF Still, LoggingIn, Answered, FirstIs
<1>3. CASE /\ Says(t, [command |-> "auth_response", user |-> reply[t]])
           /\ pc[t] = "reply" /\ pc'[t] = IF reply[t] = NoUser THEN "unauth" ELSE "enroll"
  <2> DEFINE line == [command |-> "auth_response", user |-> reply[t]]
  <2>1. line \in Line /\ line.command = "auth_response" /\ line.user = reply[t]
    BY DEF Line, TaskInv, TypeOK
  <2>2. Says(t, line) /\ down[t] = <<>> /\ up[t] = <<>>
    BY <1>3 DEF LoggingIn, Answered
  <2> HIDE DEF line
  <2>3. Len(down[t]) = 0 /\ Len(down'[t]) = Len(down[t]) + 1 /\ down'[t][Len(down[t]) + 1] = line /\ down'[t] # <<>>
    BY <2>1, <2>2, SaysFacts DEF Says
  <2>4. up'[t] = <<>> /\ written'[t] = 0 /\ down'[t][1] = line /\ Len(down'[t]) = 1
    BY <1>1, <1>3, <2>2, <2>3 DEF Says
  <2>5. pc'[t] = "enroll" \/ (pc'[t] = "unauth" /\ reply[t] = NoUser)
    BY <1>3
  <2>6. Answered(t)'
    BY <2>1, <2>3, <2>4, <2>5 DEF Answered, FirstIs
  <2> QED BY <2>6 DEF LoggingIn
<1>4. CASE /\ up'[t] = up[t] /\ pc[t] = "loop" /\ pc'[t] = "loop" /\ chan' = chan
           /\ written'[t] = written[t] + 1 /\ written[t] < Len(chan[t])
           /\ down'[t] = Append(down[t], chan[t][written[t] + 1])
  <2> DEFINE line == chan[t][written[t] + 1]
  <2>1. chan[t] \in Seq(Frame)
    BY DEF TaskInv, TypeOK
  <2>2. line \in Line
    <3>1. line \in Frame
      BY <1>1, <1>4, <2>1
    <3> QED BY <3>1 DEF Line
  <2>3. down'[t] = Append(down[t], line) /\ (written[t] = 0 => line = chan[t][1])
    BY <1>1, <1>4
  <2> HIDE DEF line
  <2>4. Answered(t)
    BY <1>4 DEF LoggingIn
  <2>5. /\ Len(down[t]) \in Nat /\ Len(down'[t]) = Len(down[t]) + 1 /\ down'[t] # <<>>
        /\ down'[t][1] = down[t][1]
        /\ \A k \in 1..Len(down[t]) : down'[t][k] = down[t][k]
        /\ down'[t][Len(down[t]) + 1] = line
    BY <2>2, <2>3, <2>4, SaysFacts DEF Answered
  <2>6. down'[t][2] = chan[t][1]
    <3>1. CASE written[t] = 0
      BY <2>3, <2>4, <2>5, <3>1 DEF Answered
    <3>2. CASE written[t] > 0
      <4>1. 2 \in 1..Len(down[t])
        BY <1>1, <2>4, <3>2 DEF Answered
      <4> QED BY <2>4, <2>5, <3>2, <4>1 DEF Answered, FirstIs
    <3> QED BY <1>1, <3>1, <3>2
  <2>7. Answered(t)'
    BY <1>4, <2>4, <2>5, <2>6 DEF Answered, FirstIs
  <2> QED BY <2>7 DEF LoggingIn
<1>5. CASE Takes(t)
  <2>1. PICK n \in DOMAIN up[t] : up'[t] = SubSeq(up[t], n + 1, Len(up[t]))
    BY <1>5 DEF Takes
  <2>2. up[t] \in Seq(Text)
    BY DEF SysTypeOK
  <2>3. pc[t] = "unauth" /\ Len(up[t]) = 1 /\ down[t] = <<>>
    BY <2>1 DEF LoggingIn, Answered
  <2>4. pc'[t] = "reply" /\ down'[t] = <<>>
    BY <1>5, <2>3 DEF Takes
  <2>5. up'[t] = <<>>
    <3>1. n \in 1..Len(up[t]) /\ n = 1
      BY <2>1, <2>2, <2>3
    <3>2. up'[t] \in Seq(Text) /\ Len(up'[t]) = Len(up[t]) - n
      BY <2>1, <2>2, DropFacts
    <3>3. Len(up'[t]) = 0
      BY <2>3, <3>1, <3>2
    <3> QED BY <3>2, <3>3
  <2> QED BY <2>4, <2>5 DEF LoggingIn
<1>6. pc[t] \in {"unauth", "reply", "enroll", "loop"}
  BY DEF LoggingIn, Answered
<1>7. step[t] \in Asking
  BY DEF Asking
<1> QED BY <1>2, <1>3, <1>4, <1>5, <1>6, <1>7, WaitingMoves

LEMMA FetchingStep ==
    ASSUME SysInv, ServerInv, SysNext, NEW t \in Session, step[t] = "history", Fetching(t), ~cut'[t],
           \A s \in Session : ~CallMove(s)
    PROVE  Fetching(t)'
<1> USE DEF SysInv, ServerInv, DeliveryInv
<1>1. /\ written[t] \in Nat /\ written'[t] \in Nat
      /\ written[t] > 0 => written'[t] > 0 /\ chan'[t][1] = chan[t][1]
  BY FirstStays
<1>2. CASE Still(t) /\ (pc'[t] = pc[t] \/ (pc[t] \in {"enroll", "respond"} /\ pc'[t] = "loop"))
  BY <1>1, <1>2 DEF Still, Fetching, FirstIs
<1>3. CASE /\ up'[t] = up[t] /\ pc[t] = "loop" /\ pc'[t] = "loop" /\ chan' = chan
           /\ written'[t] = written[t] + 1 /\ written[t] < Len(chan[t])
           /\ down'[t] = Append(down[t], chan[t][written[t] + 1])
  <2> DEFINE line == chan[t][written[t] + 1]
  <2>1. chan[t] \in Seq(Frame)
    BY DEF TaskInv, TypeOK
  <2>2. line \in Line
    <3>1. line \in Frame
      BY <1>1, <1>3, <2>1
    <3> QED BY <3>1 DEF Line
  <2>3. down'[t] = Append(down[t], line) /\ (written[t] = 0 => line = chan[t][1])
    BY <1>1, <1>3
  <2> HIDE DEF line
  <2>4. /\ Len(down[t]) \in Nat /\ Len(down'[t]) = Len(down[t]) + 1
        /\ \A k \in 1..Len(down[t]) : down'[t][k] = down[t][k]
        /\ down'[t][Len(down[t]) + 1] = line
    BY <2>2, <2>3, SaysFacts
  <2>5. down'[t][1] = chan[t][1]
    <3>1. CASE written[t] = 0
      BY <2>3, <2>4, <3>1 DEF Fetching
    <3>2. CASE written[t] > 0
      <4>1. 1 \in 1..Len(down[t])
        BY <1>1, <3>2 DEF Fetching
      <4> QED BY <2>4, <3>2, <4>1 DEF Fetching, FirstIs
    <3> QED BY <1>1, <3>1, <3>2
  <2> QED BY <1>3, <2>4, <2>5 DEF Fetching, FirstIs
<1>4. CASE Takes(t)
  <2>1. PICK n \in DOMAIN up[t] : up'[t] = SubSeq(up[t], n + 1, Len(up[t]))
    BY <1>4 DEF Takes
  <2>2. up[t] = <<"history">>
    <3>1. up[t] # <<>>
      BY <2>1
    <3> QED BY <3>1 DEF Fetching
  <2>3. n = 1 /\ Len(up[t]) = 1 /\ up[t][1] = "history" /\ up[t] \in Seq(Text)
    <3>1. Len(<<"history">>) = 1 /\ DOMAIN <<"history">> = 1..1 /\ <<"history">>[1] = "history"
      OBVIOUS
    <3>2. up[t] \in Seq(Text)
      BY DEF SysTypeOK
    <3> QED BY <2>1, <2>2, <3>1, <3>2
  <2>4. pc'[t] = "respond" /\ down'[t] = down[t] /\ written'[t] = written[t]
    BY <1>4, <2>3 DEF Takes, Fetching
  <2>5. up'[t] = <<>>
    <3>1. up'[t] \in Seq(Text) /\ Len(up'[t]) = Len(up[t]) - n
      BY <2>1, <2>3, DropFacts
    <3>2. Len(up'[t]) = 0
      BY <2>3, <3>1
    <3> QED BY <3>1, <3>2
  <2> QED BY <1>1, <2>4, <2>5 DEF Fetching, FirstIs
<1>5. pc[t] \in {"enroll", "loop", "respond"}
  BY DEF Fetching
<1>6. step[t] \in Asking
  BY DEF Asking
<1> QED BY <1>2, <1>3, <1>4, <1>5, <1>6, WaitingMoves

\* What is made for a session whose client waits is what it may expect.
LEMMA ExpectedStep ==
    ASSUME SysInv, ServerInv, SysNext, NEW t \in Session, Expected(t), Len(up[t]) <= 1
    PROVE  Expected(t)'
<1> SUFFICES ASSUME NEW f, f \in Made(t)'
             PROVE  \/ f.command = "message"
                    \/ f.command = "history_response" /\ (f.success \/ DbFaults)
  BY DEF Expected
<1>1. ~(Len(up[t]) > 1)
  BY DEF SysInv, SysTypeOK
<1>2. \/ f \in Made(t)
      \/ f.command = "message"
      \/ f.command = "history_response" /\ (f.success \/ DbFaults)
  BY <1>1, SysMade DEF SysInv, ServerInv
<1> QED BY <1>2 DEF Expected

\* The first of the lines on their way is heard, the next is the first.
LEMMA HeardFacts ==
    ASSUME SysTypeOK, NEW t \in Session, Heard(t)
    PROVE  /\ Len(down[t]) \in Nat /\ Len(down[t]) >= 1 /\ down[t] # <<>> /\ Head(down[t]) = down[t][1]
           /\ Len(down'[t]) = Len(down[t]) - 1 /\ (Len(down[t]) = 1 => down'[t] = <<>>)
           /\ Len(down[t]) >= 2 => down'[t][1] = down[t][2]
<1>1. down' \in [Session -> Seq(Line)]
  BY TakeFacts DEF Heard, SysTypeOK
<1> QED BY <1>1, TakeFacts DEF Heard, SysTypeOK

\* The client's own steps.
LEMMA ConversationCall ==
    ASSUME SysInv, ServerInv, Conversation, NEW t \in Session, CallMove(t),
           plan[t].then = "history", ~cut[t]
    PROVE  /\ step'[t] = "prompt" => Prompted(t)'
           /\ step'[t] = "auth" => LoggingIn(t)'
           /\ step'[t] = "history" => Fetching(t)'
           /\ step'[t] \in Asking => Expected(t)'
           /\ step'[t] = "over" /\ result'[t].status = "failed" => Excused(t)'
<1> USE DEF SysInv, ServerInv, DeliveryInv
<1> DEFINE Right == /\ step'[t] = "prompt" => Prompted(t)'
                    /\ step'[t] = "auth" => LoggingIn(t)'
                    /\ step'[t] = "history" => Fetching(t)'
                    /\ step'[t] \in Asking => Expected(t)'
                    /\ step'[t] = "over" /\ result'[t].status = "failed" => Excused(t)'
<1>1. UNCHANGED <<pc, answer, chan, written>>
  BY DEF CallMove, vars, control, wires
<1>2. /\ step[t] = "prompt" => Prompted(t)
      /\ step[t] = "auth" => LoggingIn(t)
      /\ step[t] = "history" => Fetching(t)
      /\ step[t] \in Asking => Expected(t)
  BY DEF Conversation
<1>3. Expected(t) => Expected(t)'
  BY <1>1 DEF Expected, Made
<1>4. written[t] \in Nat /\ up[t] \in Seq(Text)
  BY DEF TaskInv, TypeOK, SysTypeOK
<1>5. CASE DialMove(t)
  <2>1. step[t] = "new" /\ step'[t] = "prompt" /\ up'[t] = up[t] /\ down'[t] = down[t]
    BY <1>5 DEF DialMove, To
  <2>2. pc[t] = "idle" /\ up[t] = <<>> /\ down[t] = <<>>
    BY <2>1 DEF NewIsIdle
  <2>3. chan[t] = <<>> /\ answer[t] = <<>>
    BY <2>2 DEF RoutedInv, SilentBefore, Anonymous, TaskInv, AnswerOfPhase
  <2>4. Prompted(t)'
    BY <1>1, <2>1, <2>2 DEF Prompted
  <2>5. Expected(t)
    BY <2>3 DEF Expected, Made
  <2> QED BY <1>3, <2>1, <2>4, <2>5
<1>6. CASE AuthMove(t) /\ step[t] = "prompt"
  <2>1. step'[t] = "auth" /\ up'[t] = Append(up[t], plan[t].auth) /\ (Heard(t) \/ Unheard(t))
    BY <1>6 DEF AuthMove, To
  <2>2. Prompted(t) /\ Expected(t)
    BY <1>2, <1>6 DEF Asking
  <2>3. ~Unheard(t)
    BY <2>2 DEF Unheard, Prompted, Over
  <2>4. pc[t] = "unauth" /\ down'[t] = <<>>
    BY <2>1, <2>2, <2>3, HeardFacts DEF Prompted
  <2>5. Len(up'[t]) = 1
    <3>1. up[t] = <<>> /\ plan[t].auth \in Text
      BY <2>2 DEF Prompted, SysTypeOK, Call, Text
    <3> QED BY <1>4, <2>1, <3>1, AppendFacts
  <2>6. LoggingIn(t)'
    BY <1>1, <2>4, <2>5 DEF LoggingIn
  <2> QED BY <1>3, <2>1, <2>2, <2>6
<1>7. CASE AuthMove(t) /\ step[t] = "auth"
  BY <1>7 DEF AuthMove, To, Outcomes, Asking
<1>8. CASE FailMove(t)
  <2>1. step'[t] = "over" /\ step[t] \in Asking
    BY <1>8 DEF FailMove, To
  <2>2. ~Unheard(t)
    BY <1>2, <2>1 DEF Unheard, Prompted, LoggingIn, Answered, Fetching, Over, Asking
  <2>3. /\ Heard(t)
        /\ \/ step[t] = "auth" /\ Head(down[t]).command # "auth_response"
           \/ step[t] = "history" /\ ~(Head(down[t]).command = "history_response" /\ Head(down[t]).success)
    BY <1>8, <2>2 DEF FailMove, Disappointed
  <2>4. step[t] = "history"
    BY <1>2, <2>3, HeardFacts DEF LoggingIn, Answered
  <2>5. written[t] > 0 /\ Head(down[t]) = chan[t][1]
    BY <1>2, <2>3, <2>4, HeardFacts DEF Fetching, FirstIs
  <2>6. 1 \in DOMAIN chan[t]
    <3>1. chan[t] \in Seq(Frame) /\ written[t] <= Len(chan[t])
      BY DEF TaskInv, TypeOK, WrittenWithin
    <3> QED BY <1>4, <2>5, <3>1
  <2>7. chan[t][1].command = "message" \/ DbFaults
    <3>1. chan[t][1] \in Made(t)
      BY <2>6 DEF Made
    <3> QED BY <1>2, <2>3, <2>4, <2>5, <3>1 DEF Expected, Asking
  <2>8. Excused(t)'
    BY <1>1, <2>5, <2>7 DEF Excused
  <2> QED BY <2>1, <2>8 DEF Asking
<1>9. CASE LoginMove(t)
  <2>1. /\ step[t] = "auth" /\ Heard(t) /\ Head(down[t]).user # NoUser
        /\ step'[t] = "history" /\ up'[t] = Append(up[t], "history")
    BY <1>9 DEF LoginMove, To
  <2>2. Answered(t)
    BY <1>2, <2>1, HeardFacts DEF LoggingIn
  <2>3. pc[t] \in {"enroll", "loop"}
    BY <2>1, <2>2, HeardFacts DEF Answered
  <2>4. up'[t] = <<"history">>
    BY <2>1, <2>2 DEF Answered
  <2>5. Len(down'[t]) = written[t]
    BY <1>4, <2>1, <2>2, HeardFacts DEF Answered
  <2>6. written[t] > 0 => down'[t][1] = chan[t][1]
    BY <1>4, <2>1, <2>2, HeardFacts DEF Answered, FirstIs
  <2>7. Fetching(t)'
    BY <1>1, <2>3, <2>4, <2>5, <2>6 DEF Fetching, FirstIs
  <2> QED BY <1>2, <1>3, <2>1, <2>7 DEF Asking
<1>10. CASE PageMove(t)
  BY <1>10 DEF PageMove, To, Outcomes, Asking
<1>11. CASE StreamMove(t)
  <2>1. step'[t] \in {"stream", "over"} /\ result'[t].status = "ok"
    BY <1>11 DEF StreamMove, To, ResultsAreTrue
  <2> QED BY <2>1 DEF Asking
<1>12. AuthMove(t) => step[t] \in {"prompt", "auth"}
  BY DEF AuthMove
<1> HIDE DEF Right
<1> QED BY <1>5, <1>6, <1>7, <1>8, <1>9, <1>10, <1>11, <1>12 DEF CallMove

LEMMA ConversationStep ==
    ASSUME SysInv, ServerInv, Conversation, SysNext
    PROVE  Conversation'
<1> USE DEF SysInv, ServerInv, DeliveryInv
<1>1. plan' = plan /\ \A s \in Session : cut[s] => cut'[s]
  BY SysKinds DEF CallMove, ServerMove, calls
<1> SUFFICES ASSUME NEW t \in Session, plan[t].then = "history", ~cut'[t]
             PROVE  /\ step'[t] = "prompt" => Prompted(t)'
                    /\ step'[t] = "auth" => LoggingIn(t)'
                    /\ step'[t] = "history" => Fetching(t)'
                    /\ step'[t] \in Asking => Expected(t)'
                    /\ step'[t] = "over" /\ result'[t].status = "failed" => Excused(t)'
  BY <1>1 DEF Conversation
<1>2. /\ step[t] = "prompt" => Prompted(t)
      /\ step[t] = "auth" => LoggingIn(t)
      /\ step[t] = "history" => Fetching(t)
      /\ step[t] \in Asking => Expected(t)
      /\ step[t] = "over" /\ result[t].status = "failed" => Excused(t)
  BY <1>1 DEF Conversation
<1>3. CASE CallMove(t)
  BY <1>1, <1>3, ConversationCall
<1>4. ASSUME NEW s \in Session \ {t}, CallMove(s)
      PROVE  /\ step'[t] = "prompt" => Prompted(t)'
             /\ step'[t] = "auth" => LoggingIn(t)'
             /\ step'[t] = "history" => Fetching(t)'
             /\ step'[t] \in Asking => Expected(t)'
             /\ step'[t] = "over" /\ result'[t].status = "failed" => Excused(t)'
  <2>1. /\ step'[t] = step[t] /\ result'[t] = result[t] /\ up'[t] = up[t] /\ down'[t] = down[t]
        /\ UNCHANGED <<pc, answer, chan, written>>
    BY <1>4, CallFacts DEF vars, control, wires
  <2> QED BY <1>2, <2>1 DEF Prompted, LoggingIn, Answered, FirstIs, Fetching, Expected, Made, Excused
<1>5. CASE \A s \in Session : ~CallMove(s)
  <2>1. step'[t] = step[t] /\ result'[t] = result[t]
    BY <1>5, SysKinds DEF ServerMove, calls
  <2>2. step[t] = "prompt" => Prompted(t)'
    BY <1>2, <1>5, PromptedStep
  <2>3. step[t] = "auth" => LoggingIn(t)'
    BY <1>2, <1>5, LoggingInStep
  <2>4. step[t] = "history" => Fetching(t)'
    BY <1>2, <1>5, FetchingStep
  <2>5. step[t] \in Asking => Expected(t)'
    <3>1. ASSUME step[t] \in Asking PROVE Len(up[t]) <= 1
      <4>1. up[t] = <<>> \/ up[t] = <<"history">> \/ Len(up[t]) = 1
        BY <1>2, <3>1 DEF Asking, Prompted, LoggingIn, Answered, Fetching
      <4>2. Len(<<>>) = 0 /\ Len(<<"history">>) = 1
        OBVIOUS
      <4>3. CASE up[t] = <<>>
        BY <4>2, <4>3
      <4>4. CASE up[t] = <<"history">>
        BY <4>2, <4>4
      <4>5. CASE Len(up[t]) = 1
        BY <4>5
      <4> QED BY <4>1, <4>3, <4>4, <4>5
    <3> QED BY <1>2, <3>1, ExpectedStep
  <2>6. Excused(t) => Excused(t)'
    BY FirstStays DEF Excused
  <2> QED BY <1>2, <2>1, <2>2, <2>3, <2>4, <2>5, <2>6
<1> QED BY <1>3, <1>4, <1>5

\* A history call whose connection holds, and whose statements do not fail, fails
\* only because a message was pushed to it first: its answer is the first line on
\* the connection but for pushed ones (api.rs:253-286 reads one line).
THEOREM HistoryIsAnswered == SysSpec => []HistoryFailsOnlyWhenPushed
<1>1. SysInit => Conversation
  BY DEF SysInit, Conversation, Asking
<1>2. SysInv /\ ServerInv /\ Conversation /\ [SysNext]_allVars => Conversation'
  <2> SUFFICES ASSUME Conversation, UNCHANGED allVars
               PROVE  Conversation'
    BY ConversationStep
  <2> QED BY DEF allVars, vars, control, wires, calls, network, Conversation, Prompted, LoggingIn, Answered,
              FirstIs, Fetching, Expected, Made, Excused
<1>3. SysInv /\ ServerInv /\ Conversation => HistoryFailsOnlyWhenPushed
  <2> SUFFICES ASSUME SysInv, ServerInv, Conversation, NEW s \in Session, plan[s].then = "history",
                      result[s].status = "failed", ~cut[s], ~DbFaults
               PROVE  chan[s] # <<>> /\ chan[s][1].command = "message"
    BY DEF HistoryFailsOnlyWhenPushed
  <2>1. step[s] = "over"
    BY DEF SysInv, SysTypeOK, Step, ResultsAreTrue
  <2>2. written[s] > 0 /\ chan[s][1].command = "message"
    BY <2>1 DEF Conversation, Excused
  <2>3. written[s] \in Nat /\ written[s] <= Len(chan[s])
    BY DEF ServerInv, DeliveryInv, TaskInv, TypeOK, WrittenWithin
  <2> QED BY <2>2, <2>3
<1> QED BY <1>1, <1>2, <1>3, SysInvariant, PTL DEF SysSpec
=============================================================================
