--------------------------- MODULE RuraServerProofs ---------------------------
(***************************************************************************)
(* Invariants of RuraServer for any number of connections, users, requests *)
(* and frames, and whatever the database does.  Tasks, the registry and    *)
(* accounts first; then that the server implements MailService, so that    *)
(* what MailService promises is a promise of the server; last its events,  *)
(* rows and history pages.                                                 *)
(***************************************************************************)
EXTENDS RuraServerProps, SequenceFacts, SequenceTheorems, FiniteSetTheorems

USE SessionAssumption, UserAssumption DEF NoUser, UserId

-----------------------------------------------------------------------------
(* What a task's phase says about its other variables.                     *)

Anonymous == {"idle", "greet", "unauth", "reply"}

UidOfPhase ==
    \A s \in Session :
        /\ pc[s] \in Enrolled \cup {"enroll"} => uid[s] \in UserId
        /\ pc[s] \in Anonymous => uid[s] = NoUser
        /\ reply[s] # NoUser => pc[s] = "reply"

RoutingOfPhase ==
    \A s \in Session :
        /\ pc[s] \in {"route", "push"} => out[s] \in DOMAIN sent
        /\ pc[s] \notin {"route", "push"} => out[s] = 0
        /\ pc[s] = "push" => tx[s] \in Session

WrittenWithin == \A s \in Session : written[s] <= Len(chan[s])

\* Only a task that is about to respond has an answer ready, and it is no message.
AnswerOfPhase ==
    \A s \in Session :
        /\ pc[s] # "respond" => answer[s] = <<>>
        /\ pc[s] = "respond" => \E f \in Frame : f.command # "message" /\ answer[s] = <<f>>

TaskInv == TypeOK /\ UidOfPhase /\ RoutingOfPhase /\ WrittenWithin /\ AnswerOfPhase

-----------------------------------------------------------------------------
(* Types.                                                                  *)

\* A frame put on a channel keeps every channel a sequence of frames.
LEMMA EnqueueType ==
    ASSUME TypeOK, NEW s \in Session, NEW frame \in Frame, Enqueue(s, frame)
    PROVE  chan' \in [Session -> Seq(Frame)]
<1>1. chan[s] \in Seq(Frame)
  BY DEF TypeOK
<1>2. Append(chan[s], frame) \in Seq(Frame)
  BY <1>1, AppendFacts
<1> QED BY <1>2 DEF TypeOK, Enqueue

\* Going to a phase keeps pc well-typed.
LEMMA GotoType ==
    ASSUME TypeOK, NEW s \in Session, NEW phase \in Phase, Goto(s, phase)
    PROVE  pc' \in [Session -> Phase]
  BY DEF TypeOK, Goto

\* An answer made ready is a frame on its way, and the task is about to send it.
LEMMA PrepareFacts ==
    ASSUME TypeOK, NEW s \in Session, NEW f \in Frame, Prepare(s, f)
    PROVE  /\ answer' \in [Session -> Seq(Frame)] /\ pc' \in [Session -> Phase]
           /\ answer'[s] = <<f>> /\ pc'[s] = "respond"
           /\ \A t \in Session \ {s} : answer'[t] = answer[t] /\ pc'[t] = pc[t]
<1>1. <<f>> \in Seq(Frame)
  OBVIOUS
<1> QED BY <1>1, GotoType DEF TypeOK, Prepare, Goto, Phase, Enrolled

\* The answer to a history request is the page as the rows are now, or a failure.
LEMMA HistoryPrepared ==
    ASSUME TypeOK, NEW s \in Session, NEW limit \in HistoryLimits, ReadHistory(s, limit)
    PROVE  \E f \in HistoryFrame :
               /\ f \in Frame /\ Prepare(s, f) /\ f.limit = limit /\ f.behind = Len(chan[s])
               /\ (f.success => f.ids = HistoryPage(uid[s], limit)) /\ (f.success \/ DbFaults)
<1> DEFINE page(ok, ids) == [command |-> "history_response", success |-> ok, limit |-> limit,
                             ids |-> ids, behind |-> Len(chan[s])]
<1>1. HistoryPage(uid[s], limit) \in SUBSET Nat /\ {} \in SUBSET Nat
  BY DEF HistoryPage, TypeOK
<1>2. limit \in Int /\ Len(chan[s]) \in Nat
  BY RequestAssumption, WordAssumption DEF TypeOK
<1>3. \A ok \in BOOLEAN, ids \in SUBSET Nat : page(ok, ids) \in HistoryFrame
  BY <1>2 DEF HistoryFrame
<1>4. \/ Prepare(s, page(TRUE, HistoryPage(uid[s], limit)))
      \/ DbFaults /\ Prepare(s, page(FALSE, {}))
  BY DEF ReadHistory
<1>5. HistoryFrame \subseteq Frame
  BY DEF Frame
<1>6. ASSUME NEW ok \in BOOLEAN, NEW ids \in SUBSET Nat, ok \/ DbFaults, ok => ids = HistoryPage(uid[s], limit),
             Prepare(s, page(ok, ids))
      PROVE  \E f \in HistoryFrame :
                /\ f \in Frame /\ Prepare(s, f) /\ f.limit = limit /\ f.behind = Len(chan[s])
                /\ (f.success => f.ids = HistoryPage(uid[s], limit)) /\ (f.success \/ DbFaults)
  <2> DEFINE f == page(ok, ids)
  <2>1. f \in HistoryFrame /\ Prepare(s, f)
    BY <1>3, <1>6
  <2>2. f.limit = limit /\ f.behind = Len(chan[s]) /\ f.ids = ids /\ f.success = ok
    OBVIOUS
  <2> HIDE DEF f
  <2> QED BY <1>5, <1>6, <2>1, <2>2
<1> HIDE DEF page
<1>7. CASE Prepare(s, page(TRUE, HistoryPage(uid[s], limit)))
  <2>1. TRUE \in BOOLEAN
    OBVIOUS
  <2> QED BY <1>1, <1>6, <1>7, <2>1
<1>8. CASE DbFaults /\ Prepare(s, page(FALSE, {}))
  <2>1. FALSE \in BOOLEAN /\ ~FALSE
    OBVIOUS
  <2> QED BY <1>1, <1>6, <1>8, <2>1
<1> QED BY <1>4, <1>7, <1>8

LEMMA SavePrepared ==
    ASSUME NEW s \in Session, NEW id, NEW saved, ReadSave(s, id, saved)
    PROVE  \E f \in SaveFrame : f \in Frame /\ Prepare(s, f)
<1>1. \A ok \in BOOLEAN : [command |-> "save_response", success |-> ok] \in SaveFrame
  BY DEF SaveFrame
<1>2. \E ok \in BOOLEAN : Prepare(s, [command |-> "save_response", success |-> ok])
  BY DEF ReadSave
<1> QED BY <1>1, <1>2 DEF Frame

\* A task that responds puts its answer at the end of its own channel.
LEMMA RespondFacts ==
    ASSUME TypeOK, AnswerOfPhase, NEW s \in Session, Respond(s)
    PROVE  /\ pc[s] = "respond" /\ pc'[s] = "loop"
           /\ \E f \in Frame : /\ f.command # "message" /\ answer[s] = <<f>> /\ Enqueue(s, f)
                               /\ chan' = [chan EXCEPT ![s] = Append(@, f)]
           /\ answer' = [answer EXCEPT ![s] = <<>>]
           /\ \A t \in Session \ {s} : pc'[t] = pc[t]
<1>1. pc[s] = "respond" /\ Enqueue(s, answer[s][1]) /\ answer' = [answer EXCEPT ![s] = <<>>]
  BY DEF Respond
<1>2. PICK f \in Frame : f.command # "message" /\ answer[s] = <<f>>
  BY <1>1 DEF AnswerOfPhase
<1>3. answer[s][1] = f
  BY <1>2
<1>4. Enqueue(s, f) /\ chan' = [chan EXCEPT ![s] = Append(@, f)]
  BY <1>1, <1>3 DEF Enqueue, Enrolled
<1>5. pc'[s] = "loop" /\ \A t \in Session \ {s} : pc'[t] = pc[t]
  BY DEF Respond, Goto, TypeOK
<1> QED BY <1>1, <1>2, <1>4, <1>5

\* A start on a file whose accounts have ids within the bound.
StartsOn(accounts) ==
    StartOn(accounts) /\ accounts \in Seq(Credential) /\ Len(accounts) <= MaxUserId

LEMMA TypeStart ==
    ASSUME NEW accounts, StartsOn(accounts)
    PROVE  TypeOK
<1>1. <<>> \in Seq(Credential) /\ <<>> \in Seq(Row) /\ <<>> \in Seq(Request) /\ <<>> \in Seq(Frame)
  OBVIOUS
<1>2. "idle" \in Phase
  BY DEF Phase
<1> QED BY <1>1, <1>2 DEF StartsOn, StartOn, TypeOK

\* The channel of a session cut back to what was written.
LEMMA DeliveredType ==
    ASSUME TypeOK, WrittenWithin, NEW s \in Session
    PROVE  /\ Delivered(s) \in Seq(Frame)
           /\ Len(Delivered(s)) = written[s]
           /\ DOMAIN Delivered(s) = 1..written[s]
           /\ 1..written[s] \subseteq DOMAIN chan[s]
           /\ \A i \in 1..written[s] : Delivered(s)[i] = chan[s][i]
<1>1. chan[s] \in Seq(Frame) /\ written[s] \in Nat /\ written[s] <= Len(chan[s])
  BY DEF TypeOK, WrittenWithin
<1>2. 1..written[s] \subseteq DOMAIN chan[s]
  BY <1>1
<1> QED BY <1>1, <1>2, PrefixFacts DEF Delivered

\* Marking a row saved keeps the table a table.
LEMMA SavedRow ==
    ASSUME messages \in Seq(Row), NEW id \in DOMAIN messages, NEW saved \in BOOLEAN
    PROVE  /\ [messages EXCEPT ![id].saved = saved] \in Seq(Row)
           /\ DOMAIN [messages EXCEPT ![id].saved = saved] = DOMAIN messages
           /\ Len([messages EXCEPT ![id].saved = saved]) = Len(messages)
<1>1. messages[id] \in Row /\ id \in 1..Len(messages)
  BY DomainFacts
<1>2. [messages[id] EXCEPT !.saved = saved] \in Row
  BY <1>1 DEF Row
<1>3. [messages EXCEPT ![id].saved = saved] = [messages EXCEPT ![id] = [messages[id] EXCEPT !.saved = saved]]
  OBVIOUS
<1> QED BY <1>1, <1>2, <1>3

\* What a task that consults the registry reads there.
LEMMA LookUpFacts ==
    ASSUME TaskInv, NEW s \in Session, LookUp(s)
    PROVE  /\ pc[s] = "route" /\ out[s] \in DOMAIN sent
           /\ sent[out[s]].to \in UserId
           /\ registry[sent[out[s]].to] \in Session \cup {NoSession}
<1>1. /\ pc[s] = "route" /\ out[s] \in DOMAIN sent
      /\ sent \in Seq(Request) /\ registry \in [UserId -> Session \cup {NoSession}]
  BY DEF TypeOK, LookUp, TaskInv, RoutingOfPhase
<1>2. sent[out[s]] \in Request
  BY <1>1, DomainFacts
<1> QED BY <1>1, <1>2 DEF Request

LEMMA TypeStep ==
    ASSUME TaskInv, Next
    PROVE  TypeOK'
<1> USE DEF TaskInv, store, control, wires
<1>1. ASSUME NEW s \in Session, Accept(s) PROVE TypeOK'
  <2>1. pc' \in [Session -> Phase]
    BY <1>1, GotoType DEF Accept, Phase, Over
  <2> QED BY <1>1, <2>1 DEF TypeOK, Accept
<1>2. ASSUME NEW s \in Session, Greet(s) PROVE TypeOK'
  <2>1. pc' \in [Session -> Phase]
    BY <1>2, GotoType DEF Greet, Phase, Over
  <2> QED BY <1>2, <2>1 DEF TypeOK, Greet
<1>3. ASSUME NEW s \in Session, Refuse(s) PROVE TypeOK'
  <2>1. pc' \in [Session -> Phase]
    BY <1>3, GotoType DEF Refuse, Deny, Answer, Phase
  <2> QED BY <1>3, <2>1 DEF TypeOK, Refuse, Deny, Answer
<1>4. ASSUME NEW s \in Session, NEW c \in Credential, Login(s, c) PROVE TypeOK'
  <2>1. pc' \in [Session -> Phase]
    BY <1>4, GotoType DEF Login, Grant, Deny, Answer, Phase
  <2>2. DOMAIN users \subseteq UserId
    BY DEF TypeOK
  <2>3. reply' \in [Session -> UserId \cup {NoUser}]
    BY <1>4, <2>2 DEF TypeOK, Login, Grant, Deny, Answer
  <2>4. cred' \in [Session -> Seq(Credential)]
    <3>1. <<c>> \in Seq(Credential)
      OBVIOUS
    <3> QED BY <1>4, <3>1 DEF TypeOK, Login, Grant, Deny
  <2> QED BY <1>4, <2>1, <2>3, <2>4 DEF TypeOK, Login
<1>5. ASSUME NEW s \in Session, NEW c \in Credential, Register(s, c) PROVE TypeOK'
  <2>1. pc' \in [Session -> Phase]
    BY <1>5, GotoType DEF Register, Grant, Deny, Answer, Phase
  <2>2. users' \in Seq(Credential) /\ Len(users') <= MaxUserId
    <3>1. users \in Seq(Credential) /\ Len(users) \in Nat /\ Len(users) <= MaxUserId
      BY DEF TypeOK
    <3> QED BY <1>5, <3>1, AppendFacts DEF Register
  <2>3. reply' \in [Session -> UserId \cup {NoUser}]
    <3>1. Len(users) < MaxUserId => Len(users) + 1 \in UserId
      BY DEF TypeOK
    <3>2. \/ reply' = [reply EXCEPT ![s] = Len(users) + 1] /\ Len(users) < MaxUserId
          \/ reply' = [reply EXCEPT ![s] = NoUser]
      BY <1>5 DEF Register, Grant, Deny, Answer
    <3>3. \E v \in UserId \cup {NoUser} : reply' = [reply EXCEPT ![s] = v]
      BY <3>1, <3>2
    <3>4. reply \in [Session -> UserId \cup {NoUser}]
      BY DEF TypeOK
    <3> QED BY <3>3, <3>4
  <2>4. cred' \in [Session -> Seq(Credential)]
    <3>1. <<c>> \in Seq(Credential)
      OBVIOUS
    <3> QED BY <1>5, <3>1 DEF TypeOK, Register, Grant, Deny
  <2> QED BY <1>5, <2>1, <2>2, <2>3, <2>4 DEF TypeOK, Register
<1>6. ASSUME NEW s \in Session, WriteReply(s) PROVE TypeOK'
  <2>1. pc' \in [Session -> Phase]
    BY <1>6, GotoType DEF WriteReply, Phase, Over
  <2> QED BY <1>6, <2>1 DEF TypeOK, WriteReply
<1>7. ASSUME NEW s \in Session, Enroll(s) PROVE TypeOK'
  <2>1. pc' \in [Session -> Phase]
    BY <1>7, GotoType DEF Enroll, Phase, Enrolled
  <2> QED BY <1>7, <2>1 DEF TypeOK, Enroll, PutHandle
<1>8. ASSUME NEW s \in Session, NEW to \in UserId, NEW saved \in BOOLEAN, ReadMessage(s, to, saved)
      PROVE  TypeOK'
  <2> DEFINE row == [sender |-> uid[s], receiver |-> to, content |-> Len(sent) + 1, saved |-> saved]
  <2> DEFINE req == [by |-> s, to |-> to, known |-> to \in DOMAIN users]
  <2>1. pc' \in [Session -> Phase]
    BY <1>8, GotoType DEF ReadMessage, Phase, Enrolled
  <2>2. sent \in Seq(Request) /\ messages \in Seq(Row) /\ Len(sent) + 1 \in Nat
    BY DEF TypeOK
  <2>3. row \in Row
    BY <1>8, <2>2 DEF ReadMessage, UidOfPhase, Enrolled, Row
  <2>4. req \in Request
    BY DEF Request
  <2>5. sent' = Append(sent, req)
    BY <1>8 DEF ReadMessage
  <2>6. sent' \in Seq(Request)
    BY <2>2, <2>4, <2>5, AppendFacts
  <2>7. messages' = Append(messages, row) \/ messages' = messages
    BY <1>8 DEF ReadMessage
  <2>8. messages' \in Seq(Row)
    <3> HIDE DEF row
    <3>1. CASE messages' = Append(messages, row)
      BY <2>2, <2>3, <3>1, AppendFacts
    <3>2. CASE messages' = messages
      BY <2>2, <3>2
    <3> QED BY <2>7, <3>1, <3>2
  <2>9. out' \in [Session -> Nat]
    BY <1>8, <2>2 DEF TypeOK, ReadMessage
  <2> QED BY <1>8, <2>1, <2>6, <2>8, <2>9 DEF TypeOK, ReadMessage
<1>9. ASSUME NEW s \in Session, LookUp(s) PROVE TypeOK'
  <2>1. pc' \in [Session -> Phase]
    BY <1>9, GotoType DEF LookUp, Phase, Enrolled
  <2>2. out \in [Session -> Nat] /\ tx \in [Session -> Session \cup {NoSession}]
    BY DEF TypeOK
  <2> DEFINE t == registry[sent[out[s]].to]
  <2>3. \/ UNCHANGED tx /\ out' = [out EXCEPT ![s] = 0]
        \/ UNCHANGED out /\ tx' = [tx EXCEPT ![s] = t]
    BY <1>9 DEF LookUp
  <2>4. t \in Session \cup {NoSession}
    BY <1>9, LookUpFacts
  <2>5. out' \in [Session -> Nat] /\ tx' \in [Session -> Session \cup {NoSession}]
    <3> HIDE DEF t
    <3> QED BY <2>2, <2>3, <2>4
  <2> QED BY <1>9, <2>1, <2>5 DEF TypeOK, LookUp
<1>10. ASSUME NEW s \in Session, Push(s) PROVE TypeOK'
  <2> DEFINE event == [command |-> "message", from |-> uid[s], body |-> out[s]]
  <2>1. pc' \in [Session -> Phase]
    BY <1>10, GotoType DEF Push, Phase, Enrolled
  <2>2. pc[s] = "push" /\ tx[s] \in Session /\ uid[s] \in UserId /\ out[s] \in Nat
    BY <1>10 DEF Push, UidOfPhase, RoutingOfPhase, Enrolled, TypeOK
  <2>3. event \in Frame
    BY <2>2 DEF Frame, MessageFrame
  <2>4. Enqueue(tx[s], event)
    BY <1>10 DEF Push
  <2>5. chan' \in [Session -> Seq(Frame)]
    <3> HIDE DEF event
    <3> QED BY <2>2, <2>3, <2>4, EnqueueType
  <2> QED BY <1>10, <2>1, <2>5 DEF TypeOK, Push
<1>11. ASSUME NEW s \in Session, NEW limit \in HistoryLimits, ReadHistory(s, limit) PROVE TypeOK'
  <2>1. answer' \in [Session -> Seq(Frame)] /\ pc' \in [Session -> Phase]
    BY <1>11, HistoryPrepared, PrepareFacts
  <2> QED BY <1>11, <2>1 DEF TypeOK, ReadHistory
<1>12. ASSUME NEW s \in Session, NEW id \in 1..MaxSent, NEW saved \in BOOLEAN, ReadSave(s, id, saved)
       PROVE  TypeOK'
  <2>1. answer' \in [Session -> Seq(Frame)] /\ pc' \in [Session -> Phase]
    BY <1>12, SavePrepared, PrepareFacts
  <2>2. messages' \in Seq(Row)
    <3>1. messages \in Seq(Row)
      BY DEF TypeOK
    <3>2. CASE messages' = messages
      BY <3>1, <3>2
    <3>3. CASE id \in DOMAIN messages /\ messages' = [messages EXCEPT ![id].saved = saved]
      BY <3>1, <3>3, SavedRow
    <3> QED BY <1>12, <3>2, <3>3 DEF ReadSave
  <2> QED BY <1>12, <2>1, <2>2 DEF TypeOK, ReadSave
<1>13. ASSUME NEW s \in Session, ReadOther(s) PROVE TypeOK'
  <2>1. \A command \in {"error", "other"} : [command |-> command] \in Frame
    BY DEF Frame, NoticeFrame
  <2>2. chan' \in [Session -> Seq(Frame)]
    BY <1>13, <2>1, EnqueueType DEF ReadOther
  <2> QED BY <1>13, <2>2 DEF TypeOK, ReadOther
<1>14. ASSUME NEW s \in Session, Recv(s) PROVE TypeOK'
  <2>1. written[s] + 1 \in Nat
    BY DEF TypeOK
  <2>2. written' \in [Session -> Nat]
    BY <1>14, <2>1 DEF TypeOK, Recv
  <2> QED BY <1>14, <2>2 DEF TypeOK, Recv
<1>15. ASSUME NEW s \in Session, Disconnect(s) PROVE TypeOK'
  <2>1. pc' \in [Session -> Phase]
    BY <1>15, GotoType DEF Disconnect, Phase, Enrolled, Over
  <2> QED BY <1>15, <2>1 DEF TypeOK, Disconnect
<1>16. ASSUME NEW s \in Session, Cleanup(s) PROVE TypeOK'
  <2>1. pc' \in [Session -> Phase]
    BY <1>16, GotoType DEF Cleanup, Phase, Over
  <2>2. chan' \in [Session -> Seq(Frame)]
    <3>1. Delivered(s) \in Seq(Frame)
      BY DeliveredType
    <3> QED BY <1>16, <3>1 DEF TypeOK, Cleanup, RemoveHandle
  <2>3. registry' \in [UserId -> Session \cup {NoSession}]
    BY <1>16 DEF TypeOK, Cleanup, RemoveHandle
  <2> QED BY <1>16, <2>1, <2>2, <2>3 DEF TypeOK, Cleanup, RemoveHandle
<1>17. ASSUME Crash PROVE TypeOK'
  <2>1. pc' \in [Session -> Phase]
    BY <1>17 DEF Crash, Phase, Over
  <2>2. chan' \in [Session -> Seq(Frame)]
    BY <1>17, DeliveredType DEF Crash
  <2> QED BY <1>17, <2>1, <2>2 DEF TypeOK, Crash
<1>18. ASSUME UNCHANGED vars PROVE TypeOK'
  BY <1>18 DEF vars, TypeOK
<1>19. SavedFlags \cup {FALSE} \subseteq BOOLEAN /\ SavedFlags \cup {TRUE} \subseteq BOOLEAN
  BY RequestAssumption
<1>20. ASSUME NEW s \in Session, Respond(s) PROVE TypeOK'
  <2>1. pc' \in [Session -> Phase]
    BY <1>20, GotoType DEF Respond, Phase, Enrolled
  <2>2. chan' \in [Session -> Seq(Frame)]
    BY <1>20, RespondFacts, EnqueueType
  <2>3. answer' \in [Session -> Seq(Frame)]
    <3>1. <<>> \in Seq(Frame)
      OBVIOUS
    <3> QED BY <1>20, <3>1 DEF Respond, TypeOK
  <2> QED BY <1>20, <2>1, <2>2, <2>3 DEF TypeOK, Respond
<1> QED BY <1>1, <1>2, <1>3, <1>4, <1>5, <1>6, <1>7, <1>8, <1>9, <1>10, <1>11, <1>12, <1>13,
           <1>14, <1>15, <1>16, <1>17, <1>18, <1>19, <1>20
        DEF Next, ServerStep, ClientStep, Quiescent

LEMMA UidStep ==
    ASSUME TaskInv, Next
    PROVE  UidOfPhase'
<1> USE DEF TaskInv, store, control, wires
<1>1. ASSUME NEW s \in Session, Accept(s) PROVE UidOfPhase'
  BY <1>1 DEF UidOfPhase, TypeOK, Goto, Anonymous, Enrolled, Over, Accept
<1>2. ASSUME NEW s \in Session, Greet(s) PROVE UidOfPhase'
  BY <1>2 DEF UidOfPhase, TypeOK, Goto, Anonymous, Enrolled, Over, Greet
<1>3. ASSUME NEW s \in Session, Refuse(s) PROVE UidOfPhase'
  BY <1>3 DEF UidOfPhase, TypeOK, Goto, Anonymous, Enrolled, Over, Refuse, Deny, Answer
<1>4. ASSUME NEW s \in Session, NEW c \in Credential, Login(s, c) PROVE UidOfPhase'
  BY <1>4 DEF UidOfPhase, TypeOK, Goto, Anonymous, Enrolled, Over, Login, Grant, Deny, Answer
<1>5. ASSUME NEW s \in Session, NEW c \in Credential, Register(s, c) PROVE UidOfPhase'
  BY <1>5 DEF UidOfPhase, TypeOK, Goto, Anonymous, Enrolled, Over, Register, Grant, Deny, Answer
<1>6. ASSUME NEW s \in Session, WriteReply(s) PROVE UidOfPhase'
  BY <1>6 DEF UidOfPhase, TypeOK, Goto, Anonymous, Enrolled, Over, WriteReply
<1>7. ASSUME NEW s \in Session, Enroll(s) PROVE UidOfPhase'
  BY <1>7 DEF UidOfPhase, TypeOK, Goto, Anonymous, Enrolled, Over, Enroll, PutHandle
<1>8. ASSUME NEW s \in Session, NEW to \in UserId, NEW saved \in BOOLEAN, ReadMessage(s, to, saved) PROVE UidOfPhase'
  BY <1>8 DEF UidOfPhase, TypeOK, Goto, Anonymous, Enrolled, Over, ReadMessage
<1>9. ASSUME NEW s \in Session, LookUp(s) PROVE UidOfPhase'
  BY <1>9 DEF UidOfPhase, TypeOK, Goto, Anonymous, Enrolled, Over, LookUp
<1>10. ASSUME NEW s \in Session, Push(s) PROVE UidOfPhase'
  BY <1>10 DEF UidOfPhase, TypeOK, Goto, Anonymous, Enrolled, Over, Push, Enqueue
<1>11. ASSUME NEW s \in Session, NEW limit \in HistoryLimits, ReadHistory(s, limit) PROVE UidOfPhase'
  BY <1>11 DEF UidOfPhase, TypeOK, Goto, Anonymous, Enrolled, Over, ReadHistory, Asks, Prepare
<1>12. ASSUME NEW s \in Session, NEW id \in 1..MaxSent, NEW saved \in BOOLEAN, ReadSave(s, id, saved) PROVE UidOfPhase'
  BY <1>12 DEF UidOfPhase, TypeOK, Goto, Anonymous, Enrolled, Over, ReadSave, Asks, Prepare
<1>13. ASSUME NEW s \in Session, ReadOther(s) PROVE UidOfPhase'
  BY <1>13 DEF UidOfPhase, TypeOK, Goto, Anonymous, Enrolled, Over, ReadOther, Asks, Enqueue
<1>14. ASSUME NEW s \in Session, Recv(s) PROVE UidOfPhase'
  BY <1>14 DEF UidOfPhase, TypeOK, Goto, Anonymous, Enrolled, Over, Recv
<1>15. ASSUME NEW s \in Session, Disconnect(s) PROVE UidOfPhase'
  BY <1>15 DEF UidOfPhase, TypeOK, Goto, Anonymous, Enrolled, Over, Disconnect
<1>16. ASSUME NEW s \in Session, Cleanup(s) PROVE UidOfPhase'
  BY <1>16 DEF UidOfPhase, TypeOK, Goto, Anonymous, Enrolled, Over, Cleanup, RemoveHandle
<1>17. ASSUME Crash PROVE UidOfPhase'
  BY <1>17 DEF UidOfPhase, TypeOK, Goto, Anonymous, Enrolled, Over, Crash
<1>18. ASSUME UNCHANGED vars PROVE UidOfPhase'
  BY <1>18 DEF vars, UidOfPhase
<1>19. SavedFlags \cup {FALSE} \subseteq BOOLEAN /\ SavedFlags \cup {TRUE} \subseteq BOOLEAN
  BY RequestAssumption
<1>20. ASSUME NEW s \in Session, Respond(s) PROVE UidOfPhase'
  BY <1>20 DEF UidOfPhase, TypeOK, Goto, Anonymous, Enrolled, Over, Respond, Enqueue
<1> QED BY <1>1, <1>2, <1>3, <1>4, <1>5, <1>6, <1>7, <1>8, <1>9, <1>10,
           <1>11, <1>12, <1>13, <1>14, <1>15, <1>16, <1>17, <1>18, <1>19, <1>20
        DEF Next, ServerStep, ClientStep, Quiescent

LEMMA RoutingStep ==
    ASSUME TaskInv, Next
    PROVE  RoutingOfPhase'
<1> USE DEF TaskInv, store, control, wires
<1>1. ASSUME NEW s \in Session, Accept(s) PROVE RoutingOfPhase'
  BY <1>1 DEF RoutingOfPhase, TypeOK, Goto, Accept
<1>2. ASSUME NEW s \in Session, Greet(s) PROVE RoutingOfPhase'
  BY <1>2 DEF RoutingOfPhase, TypeOK, Goto, Greet
<1>3. ASSUME NEW s \in Session, Refuse(s) PROVE RoutingOfPhase'
  BY <1>3 DEF RoutingOfPhase, TypeOK, Goto, Refuse, Deny, Answer
<1>4. ASSUME NEW s \in Session, NEW c \in Credential, Login(s, c) PROVE RoutingOfPhase'
  BY <1>4 DEF RoutingOfPhase, TypeOK, Goto, Login, Grant, Deny, Answer
<1>5. ASSUME NEW s \in Session, NEW c \in Credential, Register(s, c) PROVE RoutingOfPhase'
  BY <1>5 DEF RoutingOfPhase, TypeOK, Goto, Register, Grant, Deny, Answer
<1>6. ASSUME NEW s \in Session, WriteReply(s) PROVE RoutingOfPhase'
  BY <1>6 DEF RoutingOfPhase, TypeOK, Goto, WriteReply
<1>7. ASSUME NEW s \in Session, Enroll(s) PROVE RoutingOfPhase'
  BY <1>7 DEF RoutingOfPhase, TypeOK, Goto, Enroll, PutHandle
<1>8. ASSUME NEW s \in Session, NEW to \in UserId, NEW saved \in BOOLEAN, ReadMessage(s, to, saved) PROVE RoutingOfPhase'
  BY <1>8 DEF RoutingOfPhase, TypeOK, Goto, ReadMessage
<1>9. ASSUME NEW s \in Session, LookUp(s) PROVE RoutingOfPhase'
  <2> DEFINE t == registry[sent[out[s]].to]
  <2>1. /\ t \in Session \cup {NoSession} /\ pc[s] = "route" /\ out[s] \in DOMAIN sent
    BY <1>9, LookUpFacts
  <2>2. \/ t = NoSession /\ Goto(s, "loop") /\ out' = [out EXCEPT ![s] = 0] /\ tx' = tx
        \/ t # NoSession /\ Goto(s, "push") /\ tx' = [tx EXCEPT ![s] = t] /\ out' = out
    BY <1>9 DEF LookUp
  <2>3. sent' = sent
    BY <1>9 DEF LookUp
  <2> HIDE DEF t
  <2>4. CASE t = NoSession
    BY <2>1, <2>2, <2>3, <2>4 DEF RoutingOfPhase, TypeOK, Goto
  <2>5. CASE t # NoSession
    BY <2>1, <2>2, <2>3, <2>5 DEF RoutingOfPhase, TypeOK, Goto
  <2> QED BY <2>4, <2>5
<1>10. ASSUME NEW s \in Session, Push(s) PROVE RoutingOfPhase'
  BY <1>10 DEF RoutingOfPhase, TypeOK, Goto, Push, Enqueue
<1>11. ASSUME NEW s \in Session, NEW limit \in HistoryLimits, ReadHistory(s, limit) PROVE RoutingOfPhase'
  BY <1>11 DEF RoutingOfPhase, TypeOK, Goto, ReadHistory, Asks, Prepare
<1>12. ASSUME NEW s \in Session, NEW id \in 1..MaxSent, NEW saved \in BOOLEAN, ReadSave(s, id, saved) PROVE RoutingOfPhase'
  BY <1>12 DEF RoutingOfPhase, TypeOK, Goto, ReadSave, Asks, Prepare
<1>13. ASSUME NEW s \in Session, ReadOther(s) PROVE RoutingOfPhase'
  BY <1>13 DEF RoutingOfPhase, TypeOK, Goto, ReadOther, Asks, Enqueue
<1>14. ASSUME NEW s \in Session, Recv(s) PROVE RoutingOfPhase'
  BY <1>14 DEF RoutingOfPhase, TypeOK, Goto, Recv
<1>15. ASSUME NEW s \in Session, Disconnect(s) PROVE RoutingOfPhase'
  BY <1>15 DEF RoutingOfPhase, TypeOK, Goto, Disconnect
<1>16. ASSUME NEW s \in Session, Cleanup(s) PROVE RoutingOfPhase'
  BY <1>16 DEF RoutingOfPhase, TypeOK, Goto, Cleanup, RemoveHandle
<1>17. ASSUME Crash PROVE RoutingOfPhase'
  BY <1>17 DEF RoutingOfPhase, TypeOK, Goto, Crash
<1>18. ASSUME UNCHANGED vars PROVE RoutingOfPhase'
  BY <1>18 DEF vars, RoutingOfPhase
<1>19. SavedFlags \cup {FALSE} \subseteq BOOLEAN /\ SavedFlags \cup {TRUE} \subseteq BOOLEAN
  BY RequestAssumption
<1>20. ASSUME NEW s \in Session, Respond(s) PROVE RoutingOfPhase'
  BY <1>20 DEF RoutingOfPhase, TypeOK, Goto, Respond, Enqueue
<1> QED BY <1>1, <1>2, <1>3, <1>4, <1>5, <1>6, <1>7, <1>8, <1>9, <1>10,
           <1>11, <1>12, <1>13, <1>14, <1>15, <1>16, <1>17, <1>18, <1>19, <1>20
        DEF Next, ServerStep, ClientStep, Quiescent

LEMMA WrittenStep ==
    ASSUME TaskInv, Next
    PROVE  WrittenWithin'
<1> USE DEF TaskInv, store, control, wires
<1>1. ASSUME UNCHANGED <<chan, written>> PROVE WrittenWithin'
  BY <1>1 DEF WrittenWithin
<1>2. ASSUME NEW s \in Session, NEW frame \in Frame, Enqueue(s, frame), UNCHANGED written
      PROVE  WrittenWithin'
  <2>1. chan[s] \in Seq(Frame) /\ \A t \in Session : Len(chan[t]) \in Nat
    BY DEF TypeOK
  <2>2. chan'[s] = chan[s] \/ Len(chan'[s]) = Len(chan[s]) + 1
    BY <1>2, <2>1, AppendFacts DEF Enqueue, TypeOK
  <2>3. \A t \in Session \ {s} : chan'[t] = chan[t]
    BY <1>2 DEF Enqueue, TypeOK
  <2> SUFFICES ASSUME NEW t \in Session
               PROVE  written'[t] <= Len(chan'[t])
    BY DEF WrittenWithin
  <2>4. written'[t] \in Nat /\ written'[t] <= Len(chan[t])
    BY <1>2 DEF WrittenWithin, TypeOK
  <2> QED BY <2>1, <2>2, <2>3, <2>4
<1>3. ASSUME NEW s \in Session, Push(s) \/ ReadOther(s) \/ Respond(s)
      PROVE  \E t \in Session, frame \in Frame : Enqueue(t, frame) /\ UNCHANGED written
  <2>1. CASE Push(s)
    <3>1. tx[s] \in Session /\ uid[s] \in UserId /\ out[s] \in Nat
      BY <2>1 DEF Push, UidOfPhase, RoutingOfPhase, Enrolled, TypeOK
    <3>2. [command |-> "message", from |-> uid[s], body |-> out[s]] \in Frame
      BY <3>1 DEF Frame, MessageFrame
    <3> QED BY <2>1, <3>1, <3>2 DEF Push
  <2>2. CASE ReadOther(s)
    BY <2>2 DEF ReadOther, Frame, NoticeFrame
  <2>3. CASE Respond(s)
    BY <2>3, RespondFacts DEF Respond
  <2> QED BY <1>3, <2>1, <2>2, <2>3
<1>4. ASSUME NEW s \in Session, Recv(s) PROVE WrittenWithin'
  <2>1. Len(chan[s]) \in Nat /\ written[s] \in Nat
    BY DEF TypeOK
  <2> QED BY <1>4, <2>1 DEF WrittenWithin, Recv, TypeOK
<1>5. ASSUME NEW s \in Session, Cleanup(s) PROVE WrittenWithin'
  <2>1. Len(Delivered(s)) = written[s] /\ written[s] \in Nat
    BY DeliveredType DEF TypeOK
  <2>2. written' = written /\ chan' = [chan EXCEPT ![s] = Delivered(s)]
    BY <1>5 DEF Cleanup
  <2> HIDE DEF Delivered
  <2> QED BY <2>1, <2>2 DEF WrittenWithin, TypeOK
<1>6. ASSUME Crash PROVE WrittenWithin'
  <2> SUFFICES ASSUME NEW t \in Session
               PROVE  written'[t] <= Len(chan'[t])
    BY DEF WrittenWithin
  <2>1. chan'[t] = Delivered(t) /\ written'[t] = written[t] /\ written[t] \in Nat
    BY <1>6 DEF Crash, TypeOK
  <2> QED BY <2>1, DeliveredType
<1> QED BY <1>1, <1>2, <1>3, <1>4, <1>5, <1>6
        DEF Next, ServerStep, ClientStep, Quiescent, vars, Accept, Greet, Refuse, Login, Register,
            WriteReply, Enroll, ReadMessage, LookUp, ReadHistory, ReadSave, Disconnect

LEMMA AnswerOfPhaseStep ==
    ASSUME TaskInv, Next
    PROVE  AnswerOfPhase'
<1> USE DEF TaskInv, store, control, wires
<1>1. ASSUME UNCHANGED answer, \A s \in Session : pc'[s] = "respond" <=> pc[s] = "respond"
      PROVE  AnswerOfPhase'
  BY <1>1 DEF AnswerOfPhase
<1>2. ASSUME NEW s \in Session, NEW f \in Frame, f.command # "message", Prepare(s, f)
      PROVE  AnswerOfPhase'
  <2>1. /\ answer'[s] = <<f>> /\ pc'[s] = "respond"
        /\ \A t \in Session \ {s} : answer'[t] = answer[t] /\ pc'[t] = pc[t]
    BY <1>2, PrepareFacts
  <2> SUFFICES ASSUME NEW t \in Session
               PROVE  /\ pc'[t] # "respond" => answer'[t] = <<>>
                      /\ pc'[t] = "respond" => \E g \in Frame : g.command # "message" /\ answer'[t] = <<g>>
    BY DEF AnswerOfPhase
  <2>2. CASE t = s
    BY <1>2, <2>1, <2>2
  <2>3. CASE t # s
    BY <2>1, <2>3 DEF AnswerOfPhase
  <2> QED BY <2>2, <2>3
<1>3. ASSUME NEW s \in Session, NEW limit \in HistoryLimits, ReadHistory(s, limit) PROVE AnswerOfPhase'
  <2>1. \A f \in HistoryFrame : f.command # "message"
    BY DEF HistoryFrame
  <2> QED BY <1>2, <1>3, <2>1, HistoryPrepared
<1>4. ASSUME NEW s \in Session, NEW id, NEW saved, ReadSave(s, id, saved) PROVE AnswerOfPhase'
  <2>1. \A f \in SaveFrame : f.command # "message"
    BY DEF SaveFrame
  <2> QED BY <1>2, <1>4, <2>1, SavePrepared
<1>5. ASSUME NEW s \in Session, Respond(s) PROVE AnswerOfPhase'
  <2>1. /\ pc'[s] = "loop" /\ answer'[s] = <<>>
        /\ \A t \in Session \ {s} : answer'[t] = answer[t] /\ pc'[t] = pc[t]
    BY <1>5, RespondFacts DEF TypeOK
  <2> SUFFICES ASSUME NEW t \in Session
               PROVE  /\ pc'[t] # "respond" => answer'[t] = <<>>
                      /\ pc'[t] = "respond" => \E g \in Frame : g.command # "message" /\ answer'[t] = <<g>>
    BY DEF AnswerOfPhase
  <2> QED BY <2>1 DEF AnswerOfPhase
<1>6. ASSUME Crash PROVE AnswerOfPhase'
  BY <1>6 DEF Crash, AnswerOfPhase
<1>7. ASSUME NEW s \in Session, NEW to \in Phase \ {"respond"}, pc[s] # "respond", Goto(s, to), UNCHANGED answer
      PROVE  AnswerOfPhase'
  BY <1>1, <1>7 DEF Goto, TypeOK
<1>8. ASSUME NEW s \in Session,
             \/ Accept(s) \/ Greet(s) \/ Refuse(s) \/ WriteReply(s) \/ Enroll(s) \/ Disconnect(s)
             \/ \E c \in Credential : Login(s, c) \/ Register(s, c)
      PROVE  AnswerOfPhase'
  <2>1. UNCHANGED answer /\ pc[s] # "respond"
    BY <1>8 DEF Accept, Greet, Refuse, WriteReply, Enroll, Disconnect, Login, Register
  <2>2. \E to \in Phase \ {"respond"} : Goto(s, to)
    BY <1>8 DEF Accept, Greet, Refuse, WriteReply, Enroll, Disconnect, Login, Register, Grant, Deny, Answer,
                Phase, Enrolled, Over
  <2> QED BY <1>7, <2>1, <2>2
<1>9. ASSUME NEW s \in Session,
             \/ LookUp(s) \/ Push(s) \/ Cleanup(s)
             \/ \E to \in UserId, saved \in SavedFlags \cup {FALSE} : ReadMessage(s, to, saved)
      PROVE  AnswerOfPhase'
  <2>1. UNCHANGED answer /\ pc[s] # "respond"
    BY <1>9 DEF LookUp, Push, Cleanup, ReadMessage
  <2>2. \E to \in Phase \ {"respond"} : Goto(s, to)
    BY <1>9 DEF LookUp, Push, Cleanup, ReadMessage, Phase, Enrolled, Over
  <2> QED BY <1>7, <2>1, <2>2
<1> QED BY <1>1, <1>3, <1>4, <1>5, <1>6, <1>8, <1>9
        DEF Next, ServerStep, ClientStep, Quiescent, vars, ReadOther, Recv

LEMMA TaskStart ==
    ASSUME NEW accounts, StartsOn(accounts)
    PROVE  TaskInv
<1>1. UidOfPhase /\ RoutingOfPhase
  BY DEF StartsOn, StartOn, UidOfPhase, RoutingOfPhase, Anonymous, Enrolled
<1>2. WrittenWithin /\ AnswerOfPhase
  BY DEF StartsOn, StartOn, WrittenWithin, AnswerOfPhase
<1> QED BY <1>1, <1>2, TypeStart DEF TaskInv

LEMMA NewFile == Init => StartsOn(<<>>)
  BY DEF Init, StartsOn

LEMMA TaskInit == Init => TaskInv
  BY NewFile, TaskStart

LEMMA TaskInvStep == TaskInv /\ [Next]_vars => TaskInv'
<1> SUFFICES ASSUME TaskInv, [Next]_vars
             PROVE  TaskInv'
  OBVIOUS
<1>1. CASE Next
  BY <1>1, TypeStep, UidStep, RoutingStep, WrittenStep, AnswerOfPhaseStep DEF TaskInv
<1>2. CASE UNCHANGED vars
  BY <1>2 DEF vars, store, control, wires, TaskInv, TypeOK, UidOfPhase, RoutingOfPhase, WrittenWithin,
              AnswerOfPhase
<1> QED BY <1>1, <1>2

\* Every variable keeps its shape, and a task's user, the request it routes, the
\* handle it has cloned and the answer it has ready are there exactly in the
\* phases that use them.
THEOREM TaskCorrect == Spec => [](TypeOK /\ TaskInv)
<1>1. TaskInv => TypeOK
  BY DEF TaskInv
<1> QED BY <1>1, TaskInit, TaskInvStep, PTL DEF Spec

-----------------------------------------------------------------------------
(* The registry.                                                           *)

RouteInv == RouteIsLive /\ RoutedUntilFirstLeave /\ SoleSessionReachable

\* Who the registry names.
LEMMA RouteFacts ==
    ASSUME TaskInv, RouteInv, NEW u \in UserId, registry[u] # NoSession
    PROVE  registry[u] \in Session /\ pc[registry[u]] \in Enrolled /\ uid[registry[u]] = u
<1>1. registry \in [UserId -> Session \cup {NoSession}]
  BY DEF TaskInv, TypeOK
<1> QED BY <1>1 DEF RouteInv, RouteIsLive, Live

\* A step in which no task changes user, enters or leaves its message loop, or
\* ends, and the registry stays as it is, keeps the registry right.
LEMMA RouteFrame ==
    ASSUME TaskInv, RouteInv, UNCHANGED <<uid, registry>>,
           \A s \in Session : /\ pc'[s] \in Enrolled <=> pc[s] \in Enrolled
                              /\ uid[s] # NoUser /\ pc'[s] \in {"enroll", "killed"} => pc[s] = pc'[s]
                              /\ uid[s] # NoUser /\ pc[s] = "closed" => pc'[s] = "closed"
    PROVE  RouteInv'
<1> USE DEF TaskInv
<1>1. \A s \in Session : pc[s] \in Enrolled => uid[s] # NoUser
  BY DEF UidOfPhase
<1>2. RouteIsLive'
  BY RouteFacts DEF RouteIsLive, Live
<1>3. RoutedUntilFirstLeave'
  BY <1>1 DEF RouteInv, RoutedUntilFirstLeave, Live
<1>4. SoleSessionReachable'
  BY <1>1 DEF RouteInv, SoleSessionReachable, Live, Enrolled
<1> QED BY <1>2, <1>3, <1>4 DEF RouteInv

LEMMA RouteStep ==
    ASSUME TaskInv, RouteInv, Next
    PROVE  RouteInv'
<1> USE DEF TaskInv, store, control, wires
<1>1. ASSUME NEW s \in Session, WriteReply(s) PROVE RouteInv'
  <2>1. pc[s] = "reply" /\ uid[s] = NoUser /\ reply[s] \in UserId \cup {NoUser}
    BY <1>1 DEF WriteReply, UidOfPhase, Anonymous, TypeOK
  <2>2. registry' = registry /\ \A t \in Session \ {s} : pc'[t] = pc[t] /\ uid'[t] = uid[t]
    BY <1>1 DEF WriteReply, Goto, TypeOK
  <2>3. \/ uid'[s] = NoUser /\ pc'[s] \in {"unauth", "closed"}
        \/ uid'[s] # NoUser /\ pc'[s] = "enroll"
    BY <1>1, <2>1 DEF WriteReply, Goto, TypeOK
  <2>4. \A t \in Session : Live(t) => uid[t] # NoUser
    BY DEF Live, UidOfPhase
  <2>5. RouteIsLive'
    BY <2>1, <2>2 DEF RouteInv, RouteIsLive, Live, Enrolled, TypeOK
  <2>6. RoutedUntilFirstLeave'
    BY <2>1, <2>2, <2>3, <2>4 DEF RouteInv, RoutedUntilFirstLeave, Live, Enrolled
  <2>7. SoleSessionReachable'
    BY <2>1, <2>2, <2>3, <2>4 DEF RouteInv, SoleSessionReachable, Live, Enrolled
  <2> QED BY <2>5, <2>6, <2>7 DEF RouteInv
<1>2. ASSUME NEW s \in Session, Enroll(s) PROVE RouteInv'
  <2>1. pc[s] = "enroll" /\ uid[s] \in UserId /\ uid' = uid
    BY <1>2 DEF Enroll, UidOfPhase
  <2>2. pc'[s] = "loop" /\ \A t \in Session \ {s} : pc'[t] = pc[t]
    BY <1>2 DEF Enroll, Goto, TypeOK
  <2>3. registry'[uid[s]] = s /\ \A u \in UserId \ {uid[s]} : registry'[u] = registry[u]
    BY <1>2, <2>1 DEF Enroll, PutHandle, TypeOK
  <2>4. RouteIsLive'
    <3> SUFFICES ASSUME NEW u \in UserId, registry'[u] # NoSession
                 PROVE  pc'[registry'[u]] \in Enrolled /\ uid'[registry'[u]] = u
      BY DEF RouteIsLive, Live
    <3> QED BY <2>1, <2>2, <2>3, RouteFacts DEF Enrolled
  <2>5. \A t \in Session : Live(t)' => uid[t] \in UserId /\ (t = s \/ Live(t))
    BY <2>1, <2>2 DEF Live, UidOfPhase
  <2>6. RoutedUntilFirstLeave'
    BY <2>1, <2>2, <2>3, <2>5 DEF RouteInv, RoutedUntilFirstLeave
  <2>7. SoleSessionReachable'
    BY <2>1, <2>2, <2>3, <2>5 DEF RouteInv, SoleSessionReachable
  <2> QED BY <2>4, <2>6, <2>7 DEF RouteInv
<1>3. ASSUME NEW s \in Session, Cleanup(s) PROVE RouteInv'
  <2>1. pc[s] = "cleanup" /\ uid[s] \in UserId /\ uid' = uid
    BY <1>3 DEF Cleanup, UidOfPhase, Enrolled
  <2>2. pc'[s] = "closed" /\ \A t \in Session \ {s} : pc'[t] = pc[t]
    BY <1>3 DEF Cleanup, Goto, TypeOK
  <2>3. registry'[uid[s]] = NoSession /\ \A u \in UserId \ {uid[s]} : registry'[u] = registry[u]
    BY <1>3, <2>1 DEF Cleanup, RemoveHandle, TypeOK
  <2>4. RouteIsLive'
    <3> SUFFICES ASSUME NEW u \in UserId, registry'[u] # NoSession
                 PROVE  pc'[registry'[u]] \in Enrolled /\ uid'[registry'[u]] = u
      BY DEF RouteIsLive, Live
    <3> QED BY <2>1, <2>2, <2>3, RouteFacts DEF Enrolled
  <2>5. \A t \in Session : Live(t)' => t # s /\ Live(t) /\ uid[t] \in UserId
    BY <2>2 DEF Live, UidOfPhase, Enrolled
  <2>6. RoutedUntilFirstLeave'
    BY <2>1, <2>2, <2>3, <2>5 DEF RouteInv, RoutedUntilFirstLeave
  <2>7. SoleSessionReachable'
    BY <2>1, <2>2, <2>3, <2>5 DEF RouteInv, SoleSessionReachable
  <2> QED BY <2>4, <2>6, <2>7 DEF RouteInv
<1>4. ASSUME Crash PROVE RouteInv'
  <2>1. (\A u \in UserId : registry'[u] = NoSession) /\ \A t \in Session : pc'[t] \notin Enrolled
    BY <1>4 DEF Crash, Enrolled
  <2> QED BY <2>1 DEF RouteInv, RouteIsLive, RoutedUntilFirstLeave, SoleSessionReachable, Live
<1>5. ASSUME NEW s \in Session, NEW from \in Phase, NEW to \in Phase,
             pc[s] = from, Goto(s, to), UNCHANGED <<uid, registry>>,
             \/ {from, to} \subseteq Enrolled
             \/ from \in Anonymous /\ to \notin Enrolled
      PROVE  RouteInv'
  <2>1. from \in Anonymous => uid[s] = NoUser
    BY <1>5 DEF UidOfPhase
  <2>2. pc'[s] = to /\ \A t \in Session \ {s} : pc'[t] = pc[t]
    BY <1>5 DEF Goto, TypeOK
  <2> QED BY <1>5, <2>1, <2>2, RouteFrame DEF Enrolled, Anonymous
<1>6. ASSUME UNCHANGED <<pc, uid, registry>> PROVE RouteInv'
  BY <1>6, RouteFrame DEF Anonymous, Enrolled
<1>7. ASSUME NEW s \in Session, Accept(s) \/ Greet(s) \/ Refuse(s)
             \/ (\E c \in Credential : Login(s, c) \/ Register(s, c))
      PROVE  RouteInv'
  <2>1. \E from \in Anonymous, to \in {"greet", "unauth", "reply", "closed"} : pc[s] = from /\ Goto(s, to)
    BY <1>7 DEF Accept, Greet, Refuse, Login, Register, Grant, Deny, Answer, Anonymous
  <2>2. UNCHANGED <<uid, registry>>
    BY <1>7 DEF Accept, Greet, Refuse, Login, Register
  <2> QED BY <1>5, <2>1, <2>2 DEF Anonymous, Phase, Enrolled, Over
<1>8. ASSUME NEW s \in Session, LookUp(s) \/ Push(s) \/ Respond(s) \/ (Disconnect(s) /\ pc[s] = "loop")
             \/ (\E to \in UserId, saved \in SavedFlags \cup {FALSE} : ReadMessage(s, to, saved))
             \/ (\E limit \in HistoryLimits : ReadHistory(s, limit))
             \/ (\E id \in 1..MaxSent, saved \in SavedFlags \cup {TRUE} : ReadSave(s, id, saved))
      PROVE  RouteInv'
  <2>1. \E from \in Enrolled, to \in Enrolled : pc[s] = from /\ Goto(s, to)
    BY <1>8 DEF LookUp, Push, Respond, Disconnect, ReadMessage, ReadHistory, ReadSave, Asks, Prepare, Enrolled
  <2>2. UNCHANGED <<uid, registry>>
    BY <1>8 DEF LookUp, Push, Respond, Disconnect, ReadMessage, ReadHistory, ReadSave
  <2> QED BY <1>5, <2>1, <2>2 DEF Phase
<1>9. ASSUME NEW s \in Session, Disconnect(s), pc[s] # "loop" PROVE RouteInv'
  BY <1>5, <1>9 DEF Disconnect, Phase, Over, Enrolled, Anonymous
<1> QED BY <1>1, <1>2, <1>3, <1>4, <1>6, <1>7, <1>8, <1>9
        DEF Next, ServerStep, ClientStep, Quiescent, vars, ReadOther, Recv

LEMMA RouteStart ==
    ASSUME NEW accounts, StartsOn(accounts)
    PROVE  RouteInv
  BY DEF StartsOn, StartOn, RouteInv, RouteIsLive, RoutedUntilFirstLeave, SoleSessionReachable, Live, Enrolled

\* The registry's invariant holds in every behaviour.
LEMMA RouteInvariant == Spec => []RouteInv
<1> DEFINE Inv == TaskInv /\ RouteInv
<1>1. Init => Inv
  BY NewFile, TaskStart, RouteStart
<1>2. Inv /\ [Next]_vars => Inv'
  <2> SUFFICES ASSUME Inv, [Next]_vars
               PROVE  RouteInv'
    BY TaskInvStep
  <2>1. CASE Next
    BY <2>1, RouteStep
  <2>2. CASE UNCHANGED vars
    BY <2>2, RouteFrame DEF vars, control, Anonymous, Enrolled
  <2> QED BY <2>1, <2>2
<1> QED BY <1>1, <1>2, PTL DEF Spec

\* The registry names live sessions of the right user only (state.rs:18-31),
\* however logins, lost connections and leaves of one user interleave.
THEOREM RegistryNamesLive == Spec => []RouteIsLive
<1>1. RouteInv => RouteIsLive
  BY DEF RouteInv
<1> QED BY <1>1, RouteInvariant, PTL

\* It routes every online user until one of the user's sessions leaves.
THEOREM RoutedTillOneLeaves == Spec => []RoutedUntilFirstLeave
<1>1. RouteInv => RoutedUntilFirstLeave
  BY DEF RouteInv
<1> QED BY <1>1, RouteInvariant, PTL

\* It routes the only session a user ever had, for as long as it is enrolled.
THEOREM SoleSessionRouted == Spec => []SoleSessionReachable
<1>1. RouteInv => SoleSessionReachable
  BY DEF RouteInv
<1> QED BY <1>1, RouteInvariant, PTL

-----------------------------------------------------------------------------
(* Accounts.                                                               *)

LEMMA AccountStep ==
    ASSUME TaskInv, AccountIntegrity, Next
    PROVE  AccountIntegrity'
<1> USE DEF TaskInv, store, control, wires
<1>1. ASSUME UNCHANGED <<users, uid, reply, cred>> PROVE AccountIntegrity'
  BY <1>1 DEF AccountIntegrity
<1>2. ASSUME NEW s \in Session, UNCHANGED <<users, uid, cred>>, reply' = [reply EXCEPT ![s] = NoUser]
      PROVE  AccountIntegrity'
  BY <1>2 DEF AccountIntegrity, TypeOK
<1>3. ASSUME NEW s \in Session, NEW c \in Credential, NEW u \in DOMAIN users,
             pc[s] = "unauth", users[u] = c, Grant(s, c, u), UNCHANGED <<users, uid>>
      PROVE  AccountIntegrity'
  <2>1. uid[s] = NoUser
    BY <1>3 DEF UidOfPhase, Anonymous
  <2>2. reply' = [reply EXCEPT ![s] = u] /\ cred' = [cred EXCEPT ![s] = <<c>>] /\ users' = users /\ uid' = uid
    BY <1>3 DEF Grant, Answer
  <2>3. reply'[s] = u /\ cred'[s] = <<users[u]>>
    BY <1>3, <2>2 DEF TypeOK
  <2>4. \A t \in Session \ {s} : reply'[t] = reply[t] /\ cred'[t] = cred[t]
    BY <2>2 DEF TypeOK
  <2> QED BY <1>3, <2>1, <2>2, <2>3, <2>4 DEF AccountIntegrity
<1>4. ASSUME NEW s \in Session, NEW c \in Credential, pc[s] = "unauth", ~Taken(c.passphrase),
             users' = Append(users, c), Grant(s, c, Len(users) + 1), UNCHANGED uid
      PROVE  AccountIntegrity'
  <2>1. uid[s] = NoUser
    BY <1>4 DEF UidOfPhase, Anonymous
  <2>2. users \in Seq(Credential)
    BY DEF TypeOK
  <2>3. /\ Len(users) \in Nat /\ DOMAIN users = 1..Len(users)
        /\ DOMAIN users' = 1..(Len(users) + 1)
        /\ \A i \in 1..Len(users) : users'[i] = users[i]
        /\ users'[Len(users) + 1] = c
    BY <1>4, <2>2, AppendFacts
  <2>4. \A u, v \in DOMAIN users' : users'[u].passphrase = users'[v].passphrase => u = v
    BY <1>4, <2>3 DEF AccountIntegrity, Taken
  <2>5. /\ reply'[s] = Len(users) + 1 /\ cred'[s] = <<c>> /\ uid'[s] = NoUser
        /\ \A t \in Session \ {s} : reply'[t] = reply[t] /\ cred'[t] = cred[t] /\ uid'[t] = uid[t]
    BY <1>4, <2>1 DEF Grant, Answer, TypeOK
  <2>6. \A t \in Session : \A u \in {uid'[t], reply'[t]} \ {NoUser} :
            u \in DOMAIN users' /\ cred'[t] = <<users'[u]>>
    BY <2>3, <2>5 DEF AccountIntegrity
  <2> QED BY <2>4, <2>6 DEF AccountIntegrity
<1>5. ASSUME NEW s \in Session, Deny(s), UNCHANGED <<users, uid>>
      PROVE  AccountIntegrity'
  BY <1>2, <1>5 DEF Deny, Answer
<1>6. ASSUME NEW s \in Session, NEW c \in Credential, Login(s, c) PROVE AccountIntegrity'
  BY <1>3, <1>5, <1>6 DEF Login
<1>7. ASSUME NEW s \in Session, NEW c \in Credential, Register(s, c) PROVE AccountIntegrity'
  BY <1>4, <1>5, <1>7 DEF Register
<1>8. ASSUME NEW s \in Session, WriteReply(s) PROVE AccountIntegrity'
  BY <1>8 DEF WriteReply, AccountIntegrity, TypeOK
<1>9. ASSUME Crash PROVE AccountIntegrity'
  BY <1>9 DEF Crash, AccountIntegrity
<1>10. ASSUME NEW s \in Session, Refuse(s) PROVE AccountIntegrity'
  BY <1>5, <1>10 DEF Refuse
<1> QED BY <1>1, <1>6, <1>7, <1>8, <1>9, <1>10
        DEF Next, ServerStep, ClientStep, Quiescent, vars, Accept, Greet, Enroll, PutHandle, ReadMessage, LookUp,
            Push, ReadHistory, ReadSave, Prepare, Respond, ReadOther, Recv, Disconnect, Cleanup

LEMMA AccountInvStep == TaskInv /\ AccountIntegrity /\ [Next]_vars => AccountIntegrity'
<1> SUFFICES ASSUME TaskInv, AccountIntegrity, [Next]_vars
             PROVE  AccountIntegrity'
  OBVIOUS
<1>1. CASE Next
  BY <1>1, AccountStep
<1>2. CASE UNCHANGED vars
  BY <1>2 DEF vars, store, control, AccountIntegrity
<1> QED BY <1>1, <1>2

\* One account per passphrase, and nobody acts for an account whose credentials
\* it did not give, whatever logins, registrations and failures interleave.
THEOREM AccountsCorrect == Spec => []AccountIntegrity
<1> DEFINE Inv == TaskInv /\ AccountIntegrity
<1>1. Init => Inv
  <2>1. Init => AccountIntegrity
    BY DEF Init, StartOn, AccountIntegrity
  <2> QED BY <2>1, TaskInit
<1>2. Inv /\ [Next]_vars => Inv'
  BY TaskInvStep, AccountInvStep
<1> QED BY <1>1, <1>2, PTL DEF Spec

-----------------------------------------------------------------------------
(* The kinds of steps, as far as delivery is concerned.                    *)

SameMessage(i) ==
    /\ messages'[i].sender = messages[i].sender
    /\ messages'[i].receiver = messages[i].receiver
    /\ messages'[i].content = messages[i].content

\* Of the rows only marks change.
SameRows == DOMAIN messages' = DOMAIN messages /\ \A i \in DOMAIN messages : SameMessage(i)

\* A task moves on, before or after its message loop or to an answer it has made
\* ready, and no message with it.
QuietStep(s) ==
    /\ UNCHANGED <<uid, sent, out, tx, chan, written>> /\ SameRows
    /\ \A t \in Session \ {s} : pc'[t] = pc[t]
    /\ \/ pc[s] = "enroll" /\ pc'[s] = "loop"
       \/ pc[s] = "loop" /\ pc'[s] \in {"respond", "cleanup"}
       \/ /\ pc[s] \in {"idle", "greet", "unauth"}
          /\ pc'[s] \in {"greet", "unauth", "reply", "closed"}

\* A session is answered on its own channel.
AnswerStep(s) ==
    /\ UNCHANGED <<messages, uid, sent, out, tx, written>>
    /\ pc[s] \in {"loop", "respond"} /\ pc'[s] = "loop"
    /\ \A t \in Session \ {s} : pc'[t] = pc[t]
    /\ \E f \in Frame : f.command # "message" /\ chan' = [chan EXCEPT ![s] = Append(@, f)]

LEMMA StepKinds ==
    ASSUME TaskInv, Next
    PROVE  \/ \E s \in Session :
                 \/ QuietStep(s) \/ AnswerStep(s) \/ WriteReply(s) \/ LookUp(s) \/ Push(s)
                 \/ Recv(s) \/ Cleanup(s)
                 \/ \E to \in UserId, saved \in BOOLEAN : ReadMessage(s, to, saved)
           \/ Crash \/ UNCHANGED vars
<1> USE DEF TaskInv, store, control, wires
<1>1. ASSUME NEW s \in Session, Accept(s) \/ Greet(s) \/ Refuse(s) \/ Enroll(s) \/ Disconnect(s)
             \/ \E c \in Credential : Login(s, c) \/ Register(s, c)
      PROVE  QuietStep(s)
  <2>1. UNCHANGED <<messages, uid, sent, out, tx, chan, written>>
    BY <1>1 DEF Accept, Greet, Refuse, Enroll, Disconnect, Login, Register
  <2>2. \/ pc[s] = "enroll" /\ Goto(s, "loop")
        \/ pc[s] = "loop" /\ Goto(s, "cleanup")
        \/ /\ pc[s] \in {"idle", "greet", "unauth"}
           /\ \E to \in {"greet", "unauth", "reply", "closed"} : Goto(s, to)
    BY <1>1 DEF Accept, Greet, Refuse, Enroll, Disconnect, Login, Register, Grant, Deny, Answer
  <2> QED BY <2>1, <2>2 DEF QuietStep, SameRows, SameMessage, Goto, TypeOK
<1>2. ASSUME NEW s \in Session, NEW limit \in HistoryLimits, ReadHistory(s, limit)
      PROVE  QuietStep(s)
  <2>1. pc[s] = "loop" /\ UNCHANGED <<messages, uid, sent, out, tx, chan, written>>
    BY <1>2 DEF ReadHistory, Asks
  <2>2. pc'[s] = "respond" /\ \A t \in Session \ {s} : pc'[t] = pc[t]
    BY <1>2, HistoryPrepared, PrepareFacts
  <2> QED BY <2>1, <2>2 DEF QuietStep, SameRows, SameMessage
<1>3. ASSUME NEW s \in Session, NEW id \in 1..MaxSent, NEW saved \in BOOLEAN, ReadSave(s, id, saved)
      PROVE  QuietStep(s)
  <2>1. pc[s] = "loop" /\ UNCHANGED <<uid, sent, out, tx, chan, written>>
    BY <1>3 DEF ReadSave, Asks
  <2>2. pc'[s] = "respond" /\ \A t \in Session \ {s} : pc'[t] = pc[t]
    BY <1>3, SavePrepared, PrepareFacts
  <2>3. messages \in Seq(Row)
    BY DEF TypeOK
  <2>4. SameRows
    <3>1. CASE messages' = messages
      BY <3>1 DEF SameRows, SameMessage
    <3>2. CASE id \in DOMAIN messages /\ messages' = [messages EXCEPT ![id].saved = saved]
      <4>1. \A i \in DOMAIN messages : messages[i] \in Row
        BY <2>3, DomainFacts
      <4> QED BY <3>2, <4>1 DEF SameRows, SameMessage, Row
    <3> QED BY <1>3, <3>1, <3>2 DEF ReadSave
  <2> QED BY <2>1, <2>2, <2>4 DEF QuietStep
<1>4. ASSUME NEW s \in Session, ReadOther(s) PROVE AnswerStep(s)
  <2>1. PICK command \in {"error", "other"} : Enqueue(s, [command |-> command])
    BY <1>4 DEF ReadOther
  <2> DEFINE f == [command |-> command]
  <2>2. f \in Frame /\ f.command # "message"
    BY <2>1 DEF Frame, NoticeFrame
  <2>3. pc[s] = "loop" /\ UNCHANGED <<messages, pc, uid, sent, out, tx, written>>
    BY <1>4 DEF ReadOther, Asks
  <2>4. chan' = [chan EXCEPT ![s] = Append(@, f)]
    BY <2>1, <2>3 DEF Enqueue, Enrolled
  <2> QED BY <2>2, <2>3, <2>4 DEF AnswerStep
<1>6. ASSUME NEW s \in Session, Respond(s) PROVE AnswerStep(s)
  BY <1>6, RespondFacts DEF AnswerStep, Respond
<1>5. SavedFlags \cup {FALSE} \subseteq BOOLEAN /\ SavedFlags \cup {TRUE} \subseteq BOOLEAN
  BY RequestAssumption
<1> QED BY <1>1, <1>2, <1>3, <1>4, <1>5, <1>6 DEF Next, ServerStep, ClientStep, Quiescent

-----------------------------------------------------------------------------
(* Where frames, handles and requests stand.                               *)

\* Nothing is on a channel before its task has opened it.
SilentBefore == \A s \in Session : pc[s] \in Anonymous \cup {"enroll"} => chan[s] = <<>>

\* Requests come from sessions that have a user; a task routes its own.
RequestsHaveUsers ==
    /\ \A n \in DOMAIN sent : uid[sent[n].by] \in UserId
    /\ \A s \in Session : pc[s] \in {"route", "push"} => sent[out[s]].by = s

\* A cloned handle belongs to a session of the addressee, long gone or not.
HandleOfAddressee == \A s \in Session : pc[s] = "push" => uid[tx[s]] = sent[out[s]].to

RoutedInv == SilentBefore /\ RequestsHaveUsers /\ HandleOfAddressee

DeliveryInv == TaskInv /\ RouteInv /\ RoutedInv

\* What holds of users and requests in every step.
LEMMA GrowFacts ==
    ASSUME TaskInv, Next
    PROVE  /\ \A s \in Session : uid[s] # NoUser => uid'[s] = uid[s]
           /\ DOMAIN sent \subseteq DOMAIN sent'
           /\ \A n \in DOMAIN sent : sent'[n] = sent[n]
<1> USE DEF TaskInv, store, control, wires
<1>1. \A s \in Session : uid[s] # NoUser => uid'[s] = uid[s]
  <2>1. ASSUME NEW t \in Session, WriteReply(t)
        PROVE  \A s \in Session : uid[s] # NoUser => uid'[s] = uid[s]
    BY <2>1 DEF WriteReply, UidOfPhase, Anonymous, TypeOK
  <2> QED BY <2>1, StepKinds DEF QuietStep, AnswerStep, LookUp, Push, Recv, Cleanup, ReadMessage, Crash, vars
<1>2. DOMAIN sent \subseteq DOMAIN sent' /\ \A n \in DOMAIN sent : sent'[n] = sent[n]
  <2>1. ASSUME NEW s \in Session, NEW to \in UserId, NEW saved \in BOOLEAN, ReadMessage(s, to, saved)
        PROVE  DOMAIN sent \subseteq DOMAIN sent' /\ \A n \in DOMAIN sent : sent'[n] = sent[n]
    <3> DEFINE req == [by |-> s, to |-> to, known |-> to \in DOMAIN users]
    <3>1. sent \in Seq(Request) /\ req \in Request /\ sent' = Append(sent, req)
      BY <2>1 DEF ReadMessage, TypeOK, Request
    <3> HIDE DEF req
    <3> QED BY <3>1, AppendFacts
  <2> QED BY <2>1, StepKinds DEF QuietStep, AnswerStep, WriteReply, LookUp, Push, Recv, Cleanup, Crash, vars
<1> QED BY <1>1, <1>2

LEMMA SilentStep ==
    ASSUME DeliveryInv, Next
    PROVE  SilentBefore'
<1> USE DEF DeliveryInv, RoutedInv, TaskInv, store, control, wires
<1> DEFINE Before == Anonymous \cup {"enroll"}
<1> SUFFICES ASSUME NEW t \in Session, pc'[t] \in Before
             PROVE  chan'[t] = <<>>
  BY DEF SilentBefore
<1>1. CASE Crash
  <2>1. pc[t] = "idle" /\ chan'[t] = Delivered(t)
    BY <1>1 DEF Crash, Anonymous
  <2>2. chan[t] = <<>> /\ written[t] = 0
    BY <2>1 DEF SilentBefore, Anonymous, WrittenWithin, TypeOK
  <2> QED BY <2>1, <2>2 DEF Delivered
<1>2. ASSUME NEW s \in Session,
             QuietStep(s) \/ AnswerStep(s) \/ WriteReply(s) \/ LookUp(s) \/ Push(s) \/ Recv(s) \/ Cleanup(s)
             \/ \E to \in UserId, saved \in BOOLEAN : ReadMessage(s, to, saved)
      PROVE  pc[t] \in Before /\ chan'[t] = chan[t]
  <2>1. CASE QuietStep(s)
    BY <2>1 DEF QuietStep, Anonymous
  <2>2. CASE AnswerStep(s)
    BY <2>2 DEF AnswerStep, Anonymous, TypeOK
  <2>3. CASE WriteReply(s) \/ LookUp(s) \/ Recv(s)
    BY <2>3 DEF WriteReply, LookUp, Recv, Goto, Anonymous, TypeOK
  <2>4. CASE Push(s)
    BY <2>4 DEF Push, Enqueue, Goto, Enrolled, Anonymous, TypeOK
  <2>5. CASE Cleanup(s)
    BY <2>5 DEF Cleanup, RemoveHandle, Goto, Anonymous, TypeOK
  <2>6. CASE \E to \in UserId, saved \in BOOLEAN : ReadMessage(s, to, saved)
    BY <2>6 DEF ReadMessage, Goto, Anonymous, TypeOK
  <2> QED BY <1>2, <2>1, <2>2, <2>3, <2>4, <2>5, <2>6
<1> QED BY <1>1, <1>2, StepKinds DEF SilentBefore, vars

LEMMA RequestStep ==
    ASSUME DeliveryInv, Next
    PROVE  RequestsHaveUsers' /\ HandleOfAddressee'
<1> USE DEF DeliveryInv, RoutedInv, TaskInv, store, control, wires
<1>1. \A n \in DOMAIN sent : sent[n].by \in Session /\ sent[n].to \in UserId
  <2>1. \A n \in DOMAIN sent : sent[n] \in Request
    BY DomainFacts DEF TypeOK
  <2> QED BY <2>1 DEF Request
<1>2. /\ \A n \in DOMAIN sent : uid'[sent'[n].by] \in UserId
      /\ DOMAIN sent \subseteq DOMAIN sent' /\ \A n \in DOMAIN sent : sent'[n] = sent[n]
  BY <1>1, GrowFacts DEF RequestsHaveUsers
<1>3. ASSUME sent' = sent,
             \A s \in Session : pc'[s] \in {"route", "push"} => pc[s] \in {"route", "push"} /\ out'[s] = out[s]
      PROVE  RequestsHaveUsers'
  BY <1>2, <1>3 DEF RequestsHaveUsers, RoutingOfPhase
<1>4. ASSUME sent' = sent,
             \A s \in Session : pc'[s] = "push" => pc[s] = "push" /\ out'[s] = out[s] /\ tx'[s] = tx[s]
      PROVE  HandleOfAddressee'
  <2> SUFFICES ASSUME NEW s \in Session, pc'[s] = "push"
               PROVE  uid'[tx[s]] = sent[out[s]].to
    BY <1>4 DEF HandleOfAddressee
  <2>1. pc[s] = "push" /\ tx[s] \in Session /\ out[s] \in DOMAIN sent
    BY <1>4 DEF RoutingOfPhase
  <2>2. uid[tx[s]] = sent[out[s]].to /\ sent[out[s]].to \in UserId
    BY <2>1, <1>1 DEF HandleOfAddressee
  <2> QED BY <2>1, <2>2, GrowFacts
<1>5. ASSUME NEW s \in Session, LookUp(s) PROVE RequestsHaveUsers' /\ HandleOfAddressee'
  <2> DEFINE u == sent[out[s]].to
  <2>1. pc[s] = "route" /\ out[s] \in DOMAIN sent /\ u \in UserId /\ sent' = sent /\ uid' = uid
    BY <1>5, LookUpFacts DEF LookUp
  <2>2. \/ registry[u] = NoSession /\ Goto(s, "loop") /\ tx' = tx /\ out' = [out EXCEPT ![s] = 0]
        \/ registry[u] # NoSession /\ Goto(s, "push") /\ tx' = [tx EXCEPT ![s] = registry[u]] /\ out' = out
    BY <1>5 DEF LookUp
  <2>3. registry[u] # NoSession => uid[registry[u]] = u
    BY <2>1, RouteFacts
  <2>4. \A t \in Session \ {s} : pc'[t] = pc[t] /\ tx'[t] = tx[t] /\ out'[t] = out[t]
    BY <2>2 DEF Goto, TypeOK
  <2>5. pc'[s] \in {"route", "push"} =>
           pc'[s] = "push" /\ tx'[s] = registry[u] /\ uid[registry[u]] = u /\ out'[s] = out[s]
    BY <2>2, <2>3 DEF Goto, TypeOK
  <2>6. RequestsHaveUsers'
    BY <1>3, <2>1, <2>4, <2>5
  <2>7. HandleOfAddressee'
    BY <2>1, <2>4, <2>5 DEF HandleOfAddressee
  <2> QED BY <2>6, <2>7
<1>6. ASSUME NEW s \in Session, NEW to \in UserId, NEW saved \in BOOLEAN, ReadMessage(s, to, saved)
      PROVE  RequestsHaveUsers' /\ HandleOfAddressee'
  <2> DEFINE req == [by |-> s, to |-> to, known |-> to \in DOMAIN users]
  <2>1. /\ pc[s] = "loop" /\ pc'[s] = "route" /\ out'[s] = Len(sent) + 1
        /\ \A t \in Session \ {s} : pc'[t] = pc[t] /\ out'[t] = out[t]
        /\ uid' = uid /\ tx' = tx /\ uid[s] \in UserId
    BY <1>6 DEF ReadMessage, Goto, TypeOK, UidOfPhase, Enrolled
  <2>2. sent \in Seq(Request) /\ req \in Request /\ sent' = Append(sent, req)
    BY <1>6 DEF ReadMessage, TypeOK, Request
  <2>3. /\ Len(sent) \in Nat /\ DOMAIN sent = 1..Len(sent) /\ DOMAIN sent' = 1..(Len(sent) + 1)
        /\ sent'[Len(sent) + 1].by = s
    <3> HIDE DEF req
    <3>1. req.by = s
      BY DEF req
    <3> QED BY <2>2, <3>1, AppendFacts
  <2>4. RequestsHaveUsers'
    <3>1. \A n \in DOMAIN sent' : uid'[sent'[n].by] \in UserId
      BY <1>2, <2>1, <2>3
    <3>2. \A t \in Session : pc'[t] \in {"route", "push"} => sent'[out'[t]].by = t
      BY <1>2, <2>1, <2>3 DEF RequestsHaveUsers, RoutingOfPhase
    <3> QED BY <3>1, <3>2 DEF RequestsHaveUsers
  <2>5. HandleOfAddressee'
    BY <1>2, <2>1 DEF HandleOfAddressee, RoutingOfPhase
  <2> QED BY <2>4, <2>5
<1>7. ASSUME NEW s \in Session,
             QuietStep(s) \/ AnswerStep(s) \/ WriteReply(s) \/ Push(s) \/ Recv(s) \/ Cleanup(s)
      PROVE  /\ sent' = sent
             /\ \A t \in Session : pc'[t] \in {"route", "push"} =>
                   pc[t] = pc'[t] /\ out'[t] = out[t] /\ tx'[t] = tx[t]
  <2>1. CASE QuietStep(s)
    BY <2>1 DEF QuietStep
  <2>2. CASE AnswerStep(s)
    BY <2>2 DEF AnswerStep
  <2>3. CASE WriteReply(s) \/ Push(s) \/ Recv(s) \/ Cleanup(s)
    BY <2>3 DEF WriteReply, Push, Recv, Cleanup, Goto, TypeOK
  <2> QED BY <1>7, <2>1, <2>2, <2>3
<1>8. CASE Crash
  BY <1>3, <1>4, <1>8 DEF Crash
<1>9. CASE UNCHANGED vars
  BY <1>3, <1>4, <1>9 DEF vars
<1> QED BY <1>3, <1>4, <1>5, <1>6, <1>7, <1>8, <1>9, StepKinds

LEMMA DeliveryStart ==
    ASSUME NEW accounts, StartsOn(accounts)
    PROVE  DeliveryInv
<1>1. RoutedInv
  BY DEF StartsOn, StartOn, RoutedInv, SilentBefore, RequestsHaveUsers, HandleOfAddressee
<1> QED BY <1>1, TaskStart, RouteStart DEF DeliveryInv

LEMMA DeliveryInit == Init => DeliveryInv
  BY NewFile, DeliveryStart

LEMMA DeliveryStep == DeliveryInv /\ [Next]_vars => DeliveryInv'
<1> SUFFICES ASSUME DeliveryInv, [Next]_vars
             PROVE  RouteInv' /\ RoutedInv'
  BY TaskInvStep DEF DeliveryInv
<1>1. CASE Next
  BY <1>1, RouteStep, SilentStep, RequestStep DEF DeliveryInv, RoutedInv
<1>2. CASE UNCHANGED vars
  <2>1. RouteInv'
    BY <1>2, RouteFrame DEF DeliveryInv, vars, control, Anonymous, Enrolled
  <2>2. RoutedInv'
    BY <1>2 DEF DeliveryInv, vars, control, wires, RoutedInv, SilentBefore, RequestsHaveUsers, HandleOfAddressee
  <2> QED BY <2>1, <2>2
<1> QED BY <1>1, <1>2

-----------------------------------------------------------------------------
(* The boxes of the mail service.                                          *)

LEMMA BodyType == \A f \in Frame : BodyOf(f) \in Nat
  BY DEF BodyOf, Frame, MessageFrame, HistoryFrame, SaveFrame, NoticeFrame

\* A box is the channel's frames seen as requests.
LEMMA BoxFacts ==
    ASSUME TypeOK, NEW s \in Session
    PROVE  /\ Box(s) \in Seq(Nat) /\ Len(Box(s)) = Len(chan[s])
           /\ \A i \in 1..Len(chan[s]) : Box(s)[i] = BodyOf(chan[s][i])
<1>1. chan[s] \in Seq(Frame)
  BY DEF TypeOK
<1>2. Len(chan[s]) \in Nat /\ DOMAIN chan[s] = 1..Len(chan[s]) /\ \A i \in DOMAIN chan[s] : chan[s][i] \in Frame
  BY <1>1, DomainFacts
<1>3. Box(s) \in [1..Len(chan[s]) -> Nat]
  BY <1>2, BodyType DEF Box
<1>4. Box(s) \in Seq(Nat) /\ Len(Box(s)) = Len(chan[s])
  BY <1>2, <1>3
<1> QED BY <1>2, <1>4 DEF Box

\* A frame put on a channel is an item put in the box.
LEMMA BoxAppend ==
    ASSUME TypeOK, NEW t \in Session, NEW f \in Frame, chan' = [chan EXCEPT ![t] = Append(@, f)]
    PROVE  [s \in Session |-> Box(s)]' = [[s \in Session |-> Box(s)] EXCEPT ![t] = Append(@, BodyOf(f))]
<1>1. chan[t] \in Seq(Frame)
  BY DEF TypeOK
<1>2. /\ Len(chan[t]) \in Nat /\ DOMAIN chan'[t] = 1..(Len(chan[t]) + 1)
      /\ \A i \in 1..Len(chan[t]) : chan'[t][i] = chan[t][i]
      /\ chan'[t][Len(chan[t]) + 1] = f
  BY <1>1, AppendFacts DEF TypeOK
<1>3. Append(Box(t), BodyOf(f)) =
         [i \in 1..(Len(chan[t]) + 1) |-> IF i <= Len(chan[t]) THEN BodyOf(chan[t][i]) ELSE BodyOf(f)]
  <2>1. BodyOf(f) \in Nat
    BY BodyType
  <2> DEFINE b == BodyOf(f)  bt == Box(t)  n == Len(chan[t])
  <2>2. /\ bt \in Seq(Nat) /\ Len(bt) = n /\ n \in Nat /\ b \in Nat
        /\ \A i \in 1..n : bt[i] = BodyOf(chan[t][i])
    BY <1>2, <2>1, BoxFacts
  <2> HIDE DEF b, bt, n
  <2>3. /\ DOMAIN Append(bt, b) = 1..(n + 1) /\ Append(bt, b)[n + 1] = b
        /\ \A i \in 1..n : Append(bt, b)[i] = bt[i]
        /\ Append(bt, b) \in Seq(Nat)
    BY <2>2, AppendFacts
  <2>4. Append(bt, b) = [i \in 1..(n + 1) |-> IF i <= n THEN BodyOf(chan[t][i]) ELSE b]
    <3>1. Append(bt, b) = [i \in 1..(n + 1) |-> Append(bt, b)[i]]
      <4> DEFINE longer == Append(bt, b)
      <4>1. longer \in [1..Len(longer) -> Nat] /\ DOMAIN longer = 1..(n + 1)
        BY <2>3, LenProperties
      <4> HIDE DEF longer
      <4>2. longer = [i \in 1..(n + 1) |-> longer[i]]
        BY <4>1
      <4> QED BY <4>2 DEF longer
    <3>2. \A i \in 1..(n + 1) : Append(bt, b)[i] = IF i <= n THEN BodyOf(chan[t][i]) ELSE b
      BY <2>2, <2>3
    <3> QED BY <3>1, <3>2
  <2> QED BY <2>4 DEF b, bt, n
<1>4. Box(t)' = Append(Box(t), BodyOf(f))
  <2>1. Box(t)' = [i \in 1..(Len(chan[t]) + 1) |-> BodyOf(chan'[t][i])]
    BY <1>2 DEF Box, BodyOf
  <2> QED BY <1>2, <1>3, <2>1
<1>5. \A s \in Session \ {t} : Box(s)' = Box(s)
  BY DEF Box, BodyOf, TypeOK
<1> QED BY <1>4, <1>5

\* A channel cut back to what was written is a box cut back to what was taken.
LEMMA BoxCut ==
    ASSUME TypeOK, WrittenWithin, NEW s \in Session, chan'[s] = Delivered(s)
    PROVE  Box(s)' = SubSeq(Box(s), 1, written[s])
<1>1. /\ DOMAIN chan'[s] = 1..written[s] /\ 1..written[s] \subseteq DOMAIN chan[s]
      /\ \A i \in 1..written[s] : chan'[s][i] = chan[s][i]
  BY DeliveredType
<1>2. written[s] \in Nat /\ written[s] <= Len(Box(s)) /\ Len(Box(s)) = Len(chan[s])
  BY BoxFacts DEF TypeOK, WrittenWithin
<1>3. \A i \in 1..written[s] : Box(s)[i] = BodyOf(chan[s][i])
  BY <1>1 DEF Box
<1>4. Box(s)' = [i \in 1..written[s] |-> BodyOf(chan[s][i])]
  BY <1>1 DEF Box, BodyOf
<1>5. /\ SubSeq(Box(s), 1, written[s]) \in Seq(Nat)
      /\ DOMAIN SubSeq(Box(s), 1, written[s]) = 1..written[s]
      /\ \A i \in 1..written[s] : SubSeq(Box(s), 1, written[s])[i] = Box(s)[i]
  BY <1>2, BoxFacts, PrefixFacts
<1> QED BY <1>3, <1>4, <1>5

\* The promise's boxes in a step that leaves the channels alone.
LEMMA BoxKept == UNCHANGED chan => UNCHANGED [s \in Session |-> Box(s)]
  BY DEF Box, BodyOf

-----------------------------------------------------------------------------
(* The refinement.                                                         *)

Finished == {s \in Session : pc[s] \in Over}

\* A step that leaves users, requests, rows and channels alone, and ends no
\* session, is no step of the mail service.
LEMMA MailStutter ==
    ASSUME UNCHANGED <<uid, sent, out, chan, written>>, Archived' = Archived,
           \A s \in Session : pc'[s] \in Over <=> pc[s] \in Over
    PROVE  UNCHANGED Mail!vars
<1>1. Finished' = Finished
  BY DEF Finished
<1> QED BY <1>1, BoxKept DEF Mail!vars, Finished

\* A session that ends before its message loop has nothing to lose.
LEMMA NothingToLose ==
    ASSUME DeliveryInv, NEW s \in Session, pc[s] \in Anonymous
    PROVE  out[s] = 0 /\ Box(s) = SubSeq(Box(s), 1, written[s])
<1> USE DEF DeliveryInv, TaskInv, RoutedInv
<1>1. chan[s] = <<>> /\ Len(chan[s]) = 0
  BY DEF SilentBefore
<1>2. written[s] = 0
  <2>1. written[s] \in Nat /\ written[s] <= Len(chan[s])
    BY DEF WrittenWithin, TypeOK
  <2> QED BY <1>1, <2>1
<1>3. out[s] = 0
  BY DEF RoutingOfPhase, Anonymous
<1>4. Box(s) = SubSeq(Box(s), 1, written[s])
  BY <1>1, <1>2 DEF Box
<1> QED BY <1>3, <1>4

LEMMA MailQuiet ==
    ASSUME DeliveryInv, NEW s \in Session, QuietStep(s)
    PROVE  [Mail!Next]_(Mail!vars)
<1> USE DEF DeliveryInv, TaskInv, RoutedInv
<1>1. UNCHANGED <<uid, sent, out, chan, written>> /\ Archived' = Archived
  BY DEF QuietStep, SameRows, SameMessage, Archived
<1>2. CASE pc'[s] # "closed"
  <2>1. \A t \in Session : pc'[t] \in Over <=> pc[t] \in Over
    BY <1>2 DEF QuietStep, Over
  <2> QED BY <1>1, <2>1, MailStutter
<1>3. CASE pc'[s] = "closed"
  <2>1. pc[s] \in Anonymous
    BY <1>3 DEF QuietStep, Anonymous
  <2>2. out[s] = 0 /\ Box(s) = SubSeq(Box(s), 1, written[s])
    BY <2>1, NothingToLose
  <2>3. {t \in Session : pc'[t] \in Over} = {t \in Session : pc[t] \in Over} \cup {s}
    BY <1>3 DEF QuietStep, Over
  <2>4. out' = [t \in Session |-> IF t \in {s} THEN 0 ELSE out[t]]
    BY <1>1, <2>2 DEF TypeOK
  <2>5. [t \in Session |-> Box(t)]' =
           [t \in Session |-> IF t \in {s} THEN SubSeq(Box(t), 1, written[t]) ELSE Box(t)]
    BY <1>1, <2>2 DEF Box, BodyOf
  <2>6. Mail!End({s})
    BY <1>1, <2>3, <2>4, <2>5 DEF Mail!End
  <2> QED BY <2>6 DEF Mail!Next
<1> QED BY <1>2, <1>3

LEMMA MailWriteReply ==
    ASSUME DeliveryInv, NEW s \in Session, WriteReply(s)
    PROVE  [Mail!Next]_(Mail!vars)
<1> USE DEF DeliveryInv, TaskInv, RoutedInv, store, control, wires
<1>1. UNCHANGED <<sent, out, chan, written>> /\ Archived' = Archived
  BY DEF WriteReply, Archived
<1>2. pc[s] = "reply" /\ uid[s] = NoUser /\ reply[s] \in UserId \cup {NoUser}
  BY DEF WriteReply, UidOfPhase, Anonymous, TypeOK
<1>3. \A t \in Session \ {s} : pc'[t] = pc[t]
  BY DEF WriteReply, Goto, TypeOK
<1>4. CASE uid' = [uid EXCEPT ![s] = reply[s]] /\ pc'[s] \in {"unauth", "enroll"} /\ reply[s] = NoUser
  <2>1. uid' = uid
    BY <1>2, <1>4 DEF TypeOK
  <2>2. \A t \in Session : pc'[t] \in Over <=> pc[t] \in Over
    BY <1>2, <1>3, <1>4 DEF Over
  <2> QED BY <1>1, <2>1, <2>2, MailStutter
<1>5. CASE uid' = [uid EXCEPT ![s] = reply[s]] /\ pc'[s] \in {"unauth", "enroll"} /\ reply[s] # NoUser
  <2>1. \A t \in Session : pc'[t] \in Over <=> pc[t] \in Over
    BY <1>2, <1>3, <1>5 DEF Over
  <2>2. {t \in Session : pc'[t] \in Over} = {t \in Session : pc[t] \in Over}
    BY <2>1
  <2>3. Mail!Identify(s, reply[s])
    BY <1>1, <1>2, <1>5, <2>2, BoxKept DEF Mail!Identify, Over
  <2> QED BY <1>2, <1>5, <2>3 DEF Mail!Next
<1>6. CASE uid' = uid /\ pc'[s] = "closed"
  <2>1. out[s] = 0
    BY <1>2, NothingToLose DEF Anonymous
  <2>2. Box(s) = SubSeq(Box(s), 1, written[s])
    BY <1>2, NothingToLose DEF Anonymous
  <2>3. {t \in Session : pc'[t] \in Over} = {t \in Session : pc[t] \in Over} \cup {s}
    BY <1>3, <1>6 DEF Over
  <2>4. out' = [t \in Session |-> IF t \in {s} THEN 0 ELSE out[t]]
    BY <1>1, <2>1 DEF TypeOK
  <2>5. [t \in Session |-> Box(t)]' =
           [t \in Session |-> IF t \in {s} THEN SubSeq(Box(t), 1, written[t]) ELSE Box(t)]
    BY <1>1, <2>2 DEF Box, BodyOf
  <2>6. Mail!End({s})
    BY <1>1, <1>6, <2>3, <2>4, <2>5 DEF Mail!End
  <2> QED BY <2>6 DEF Mail!Next
<1> QED BY <1>4, <1>5, <1>6 DEF WriteReply, Goto, TypeOK

LEMMA MailReadMessage ==
    ASSUME DeliveryInv, NEW s \in Session, NEW to \in UserId, NEW saved \in BOOLEAN,
           ReadMessage(s, to, saved)
    PROVE  [Mail!Next]_(Mail!vars)
<1> USE DEF DeliveryInv, TaskInv, store, control, wires
<1> DEFINE n == Len(sent) + 1
           known == to \in DOMAIN users
           row == [sender |-> uid[s], receiver |-> to, content |-> n, saved |-> saved]
<1>1. pc[s] = "loop" /\ uid[s] # NoUser /\ out[s] = 0
  BY DEF ReadMessage, UidOfPhase, RoutingOfPhase, Enrolled
<1>2. /\ UNCHANGED <<uid, chan, written>> /\ out' = [out EXCEPT ![s] = n]
      /\ sent' = Append(sent, [by |-> s, to |-> to, known |-> known])
  BY DEF ReadMessage
<1>3. {t \in Session : pc'[t] \in Over} = {t \in Session : pc[t] \in Over}
  BY DEF ReadMessage, Goto, Over, TypeOK
<1>4. \/ messages' = Append(messages, row)
      \/ messages' = messages /\ (DbFaults \/ ~known)
  BY DEF ReadMessage, Storable
<1>5. Archived' = Archived \cup {n} \/ (Archived' = Archived /\ (DbFaults \/ ~known))
  <2>1. CASE messages' = Append(messages, row)
    <3>1. messages \in Seq(Row) /\ row \in Row /\ row.content = n
      BY <1>1 DEF TypeOK, Row
    <3> HIDE DEF row
    <3>2. /\ DOMAIN messages = 1..Len(messages) /\ Len(messages) \in Nat
          /\ DOMAIN messages' = 1..(Len(messages) + 1)
          /\ \A i \in 1..Len(messages) : messages'[i] = messages[i]
          /\ messages'[Len(messages) + 1] = row
      BY <2>1, <3>1, AppendFacts
    <3> HIDE DEF n
    <3>3. Archived' = Archived \cup {n}
      BY <3>1, <3>2 DEF Archived
    <3> QED BY <3>3
  <2>2. CASE messages' = messages /\ (DbFaults \/ ~known)
    BY <2>2 DEF Archived
  <2> QED BY <1>4, <2>1, <2>2
<1>6. known \in BOOLEAN /\ s \notin {t \in Session : pc[t] \in Over}
  BY <1>1 DEF Over
<1>7. Mail!Post(s, to, known)
  <2> HIDE DEF known
  <2> QED BY <1>1, <1>2, <1>3, <1>5, <1>6, BoxKept DEF Mail!Post
<1> QED BY <1>6, <1>7 DEF Mail!Next

LEMMA MailLookUp ==
    ASSUME DeliveryInv, NEW s \in Session, LookUp(s)
    PROVE  [Mail!Next]_(Mail!vars)
<1> USE DEF DeliveryInv, TaskInv, store, control, wires
<1>1. UNCHANGED <<uid, sent, chan, written>> /\ Archived' = Archived
  BY DEF LookUp, Archived
<1>2. \A t \in Session : pc'[t] \in Over <=> pc[t] \in Over
  BY DEF LookUp, Goto, Over, TypeOK
<1>3. out' = out \/ out' = [out EXCEPT ![s] = 0]
  BY DEF LookUp
<1>4. CASE out' = out
  BY <1>1, <1>2, <1>4, MailStutter
<1>5. CASE out' = [out EXCEPT ![s] = 0]
  <2>1. {t \in Session : pc'[t] \in Over} = {t \in Session : pc[t] \in Over}
    BY <1>2
  <2>2. Mail!Discard(s)
    BY <1>1, <1>5, <2>1, BoxKept DEF Mail!Discard
  <2> QED BY <2>2 DEF Mail!Next
<1> QED BY <1>3, <1>4, <1>5

LEMMA MailPush ==
    ASSUME DeliveryInv, NEW s \in Session, Push(s)
    PROVE  [Mail!Next]_(Mail!vars)
<1> USE DEF DeliveryInv, TaskInv, RoutedInv, store, control, wires
<1> DEFINE t == tx[s]
           event == [command |-> "message", from |-> uid[s], body |-> out[s]]
<1>1. /\ pc[s] = "push" /\ t \in Session /\ uid[s] \in UserId
      /\ out[s] \in DOMAIN sent /\ out[s] \in Nat
  BY DEF Push, UidOfPhase, RoutingOfPhase, Enrolled, TypeOK
<1>2. UNCHANGED <<uid, sent, written>> /\ Archived' = Archived /\ out' = [out EXCEPT ![s] = 0]
  BY DEF Push, Archived
<1>3. {r \in Session : pc'[r] \in Over} = {r \in Session : pc[r] \in Over}
  BY DEF Push, Goto, Over, TypeOK
<1>4. CASE pc[t] \in Enrolled
  <2>1. out[s] # 0
    <3>1. sent \in Seq(Request)
      BY DEF TypeOK
    <3> QED BY <1>1, <3>1, DomainFacts
  <2>2. t \notin {r \in Session : pc[r] \in Over} /\ uid[t] = sent[out[s]].to
    BY <1>1, <1>4 DEF Enrolled, Over, HandleOfAddressee
  <2>3. event \in Frame /\ BodyOf(event) = out[s]
    BY <1>1 DEF Frame, MessageFrame, BodyOf
  <2>4. chan' = [chan EXCEPT ![t] = Append(@, event)]
    BY <1>4 DEF Push, Enqueue
  <2>5. [r \in Session |-> Box(r)]' = [[r \in Session |-> Box(r)] EXCEPT ![t] = Append(@, out[s])]
    <3> HIDE DEF event, t
    <3> QED BY <1>1, <2>3, <2>4, BoxAppend
  <2>6. Mail!Hand(s, t)
    <3> HIDE DEF t
    <3> QED BY <1>2, <1>3, <2>1, <2>2, <2>5 DEF Mail!Hand, Mail!Put
  <2> QED BY <1>1, <2>6 DEF Mail!Next
<1>5. CASE pc[t] \notin Enrolled
  <2>1. chan' = chan
    BY <1>5 DEF Push, Enqueue
  <2>2. Mail!Discard(s)
    BY <1>2, <1>3, <2>1, BoxKept DEF Mail!Discard
  <2> QED BY <2>2 DEF Mail!Next
<1> QED BY <1>4, <1>5

LEMMA MailAnswer ==
    ASSUME DeliveryInv, NEW s \in Session, AnswerStep(s)
    PROVE  [Mail!Next]_(Mail!vars)
<1> USE DEF DeliveryInv, TaskInv
<1>1. UNCHANGED <<uid, sent, out, written>> /\ pc[s] \notin Over
  BY DEF AnswerStep, Over
<1>2. Archived' = Archived
  BY DEF AnswerStep, Archived
<1>3. PICK f \in Frame : f.command # "message" /\ chan' = [chan EXCEPT ![s] = Append(@, f)]
  BY DEF AnswerStep
<1>4. BodyOf(f) = 0
  BY <1>3 DEF BodyOf
<1>5. [r \in Session |-> Box(r)]' = [[r \in Session |-> Box(r)] EXCEPT ![s] = Append(@, 0)]
  BY <1>3, <1>4, BoxAppend
<1>6. {t \in Session : pc'[t] \in Over} = {t \in Session : pc[t] \in Over}
  BY DEF AnswerStep, Over
<1>7. Mail!Notify(s)
  BY <1>1, <1>2, <1>5, <1>6 DEF Mail!Notify, Mail!Put
<1> QED BY <1>7 DEF Mail!Next

LEMMA MailRecv ==
    ASSUME DeliveryInv, NEW s \in Session, Recv(s)
    PROVE  [Mail!Next]_(Mail!vars)
<1> USE DEF DeliveryInv, TaskInv, store, control, wires
<1>1. UNCHANGED <<pc, uid, sent, out, chan>> /\ Archived' = Archived
  BY DEF Recv, Archived
<1>2. Len(Box(s)) = Len(chan[s])
  BY BoxFacts
<1>3. pc[s] = "loop" /\ written[s] < Len(Box(s)) /\ written' = [written EXCEPT ![s] = @ + 1]
  BY <1>2 DEF Recv
<1>4. Mail!Take(s)
  BY <1>1, <1>3, BoxKept DEF Mail!Take, Over
<1> QED BY <1>4 DEF Mail!Next

LEMMA MailCleanup ==
    ASSUME DeliveryInv, NEW s \in Session, Cleanup(s)
    PROVE  [Mail!Next]_(Mail!vars)
<1> USE DEF DeliveryInv, TaskInv, store, control, wires
<1>1. UNCHANGED <<uid, sent, out, written>> /\ Archived' = Archived
  BY DEF Cleanup, Archived, RemoveHandle
<1>2. pc[s] = "cleanup" /\ chan' = [chan EXCEPT ![s] = Delivered(s)] /\ Goto(s, "closed")
  BY DEF Cleanup
<1>3. Box(s)' = SubSeq(Box(s), 1, written[s])
  BY <1>2, BoxCut DEF TypeOK
<1>4. \A t \in Session \ {s} : Box(t)' = Box(t)
  BY <1>2 DEF Box, BodyOf, TypeOK
<1>5. [t \in Session |-> Box(t)]' =
         [t \in Session |-> IF t \in {s} THEN SubSeq(Box(t), 1, written[t]) ELSE Box(t)]
  BY <1>3, <1>4
<1>6. {t \in Session : pc'[t] \in Over} = {t \in Session : pc[t] \in Over} \cup {s}
  BY <1>2 DEF Goto, Over, TypeOK
<1>7. out' = [t \in Session |-> IF t \in {s} THEN 0 ELSE out[t]]
  BY <1>1, <1>2 DEF TypeOK, RoutingOfPhase
<1>8. Mail!End({s})
  BY <1>1, <1>5, <1>6, <1>7 DEF Mail!End
<1> QED BY <1>8 DEF Mail!Next

LEMMA MailCrash ==
    ASSUME DeliveryInv, Crash
    PROVE  [Mail!Next]_(Mail!vars)
<1> USE DEF DeliveryInv, TaskInv, RoutedInv, store, control, wires
<1>0. PICK S \in SUBSET Session : S = {s \in Session : pc[s] # "idle"}
  OBVIOUS
<1>1. UNCHANGED <<uid, sent, written>> /\ Archived' = Archived
  BY DEF Crash, Archived
<1>2. \A t \in Session : Box(t)' = SubSeq(Box(t), 1, written[t])
  BY BoxCut DEF Crash
<1>3. \A t \in Session : pc[t] = "idle" => Box(t) = SubSeq(Box(t), 1, written[t]) /\ out[t] = 0
  BY NothingToLose DEF Anonymous
<1>4. [t \in Session |-> Box(t)]' =
         [t \in Session |-> IF t \in S THEN SubSeq(Box(t), 1, written[t]) ELSE Box(t)]
  BY <1>0, <1>2, <1>3
<1>5. {t \in Session : pc'[t] \in Over} = {t \in Session : pc[t] \in Over} \cup S
  BY <1>0 DEF Crash, Over
<1>6. out' = [t \in Session |-> IF t \in S THEN 0 ELSE out[t]]
  BY <1>0, <1>3 DEF Crash
<1>7. Mail!End(S)
  BY <1>1, <1>4, <1>5, <1>6 DEF Mail!End
<1> QED BY <1>7 DEF Mail!Next

\* Every step of the server is one step of the mail service or none.
LEMMA MailNext ==
    ASSUME DeliveryInv, [Next]_vars
    PROVE  [Mail!Next]_(Mail!vars)
<1>1. CASE UNCHANGED vars
  BY <1>1, MailStutter DEF vars, store, control, wires, Archived
<1>2. CASE Next
  BY <1>1, <1>2, StepKinds, MailQuiet, MailWriteReply, MailReadMessage, MailLookUp, MailPush,
     MailAnswer, MailRecv, MailCleanup, MailCrash DEF DeliveryInv
<1> QED BY <1>1, <1>2

LEMMA MailStart ==
    ASSUME NEW accounts, StartsOn(accounts)
    PROVE  Mail!Init
<1>1. [s \in Session |-> Box(s)] = [s \in Session |-> <<>>]
  BY DEF StartsOn, StartOn, Box
<1>2. {s \in Session : pc[s] \in Over} = {} /\ Archived = {}
  BY DEF StartsOn, StartOn, Over, Archived
<1> QED BY <1>1, <1>2 DEF StartsOn, StartOn, Mail!Init

\* The server implements the mail service: whatever tasks, logins, failures and
\* crashes interleave, users see requests archived and handed over as it says.
THEOREM ServerIsMailService == Spec => MailSpec
<1>1. Init => DeliveryInv
  BY DeliveryInit
<1>2. DeliveryInv /\ [Next]_vars => DeliveryInv'
  BY DeliveryStep
<1>3. DeliveryInv /\ [Next]_vars => [Mail!Next]_(Mail!vars)
  BY MailNext
<1>4. Init => Mail!Init
  BY NewFile, MailStart
<1> QED BY <1>1, <1>2, <1>3, <1>4, PTL DEF Spec, MailSpec, Mail!Spec

-----------------------------------------------------------------------------
(* What the mail service promises holds of the server.                     *)

Promise == INSTANCE MailServiceProofs WITH
    User <- UserId, Faults <- DbFaults,
    identity <- uid, posted <- sent, pending <- out, archive <- Archived,
    box <- [s \in Session |-> Box(s)], taken <- written,
    ended <- {s \in Session : pc[s] \in Over}

LEMMA PromiseStart ==
    ASSUME NEW accounts, StartsOn(accounts)
    PROVE  Promise!MailInv
<1>1. Mail!Init => Promise!Init
  BY DEF Mail!Init, Promise!Init
<1> QED BY <1>1, MailStart, Promise!MailInit

LEMMA PromiseStep ==
    ASSUME DeliveryInv, Promise!MailInv, [Next]_vars
    PROVE  Promise!MailInv'
<1>1. [Mail!Next]_(Mail!vars)
  BY MailNext
<1>2. [Promise!Next]_(Promise!vars)
  BY <1>1 DEF Mail!Next, Mail!vars, Promise!Next, Promise!vars,
              Mail!Identify, Mail!Post, Mail!Hand, Mail!Put, Mail!Discard, Mail!Notify, Mail!Take, Mail!End,
              Promise!Identify, Promise!Post, Promise!Hand, Promise!Put, Promise!Discard, Promise!Notify,
              Promise!Take, Promise!End
<1>3. NoUser \notin UserId
  OBVIOUS
<1> QED BY <1>2, <1>3, Promise!MailStep

\* Whatever is on the channels of the server went to the addressee only, at most
\* once, in each sender's order, and is archived if its addressee has an account.
THEOREM ServerDelivers == Spec => [](Mail!Addressed /\ Mail!AtMostOnce /\ Mail!InOrder /\ Mail!KnownIsArchived)
<1> DEFINE Inv == DeliveryInv /\ Promise!MailInv
<1>1. Init => Inv
  BY DeliveryInit, NewFile, PromiseStart
<1>2. Inv /\ [Next]_vars => Inv'
  BY DeliveryStep, PromiseStep
<1>3. Inv => Mail!Addressed /\ Mail!AtMostOnce /\ Mail!InOrder /\ Mail!KnownIsArchived
  BY DEF Promise!MailInv, Mail!Addressed, Mail!AtMostOnce, Mail!InOrder, Mail!KnownIsArchived,
         Promise!Addressed, Promise!AtMostOnce, Promise!InOrder, Promise!KnownIsArchived
<1> QED BY <1>1, <1>2, <1>3, PTL DEF Spec

-----------------------------------------------------------------------------
(* Events and rows.                                                        *)

\* A request to an account that existed has a row with its sender and addressee.
KnownIsStored ==
    \A n \in DOMAIN sent : ~DbFaults /\ sent[n].known =>
        \E r \in DOMAIN messages : /\ messages[r].content = n
                                   /\ messages[r].sender = uid[sent[n].by]
                                   /\ messages[r].receiver = sent[n].to

\* An event stands for a request, names its sender and is where it belongs.
EventsOfRequests ==
    \A s \in Session : \A i \in DOMAIN chan[s] :
        LET f == chan[s][i] IN f.command = "message" =>
            f.body \in DOMAIN sent /\ uid[sent[f.body].by] = f.from /\ sent[f.body].to = uid[s]

EventInv == KnownIsStored /\ EventsOfRequests

LEMMA RequestFacts ==
    ASSUME DeliveryInv, NEW n \in DOMAIN sent
    PROVE  sent[n].by \in Session /\ sent[n].to \in UserId /\ uid[sent[n].by] \in UserId
<1>1. sent[n] \in Request
  BY DomainFacts DEF DeliveryInv, TaskInv, TypeOK
<1> QED BY <1>1 DEF Request, DeliveryInv, RoutedInv, RequestsHaveUsers

\* A row once there keeps its place, its parties and its content.
LEMMA RowFacts ==
    ASSUME TaskInv, Next
    PROVE  \A i \in DOMAIN messages : i \in DOMAIN messages' /\ SameMessage(i)
<1> USE DEF TaskInv, store, control, wires
<1>1. ASSUME NEW s \in Session, NEW to \in UserId, NEW saved \in BOOLEAN, ReadMessage(s, to, saved)
      PROVE  \A i \in DOMAIN messages : i \in DOMAIN messages' /\ messages'[i] = messages[i]
  <2> DEFINE row == [sender |-> uid[s], receiver |-> to, content |-> Len(sent) + 1, saved |-> saved]
  <2>1. messages' = Append(messages, row) \/ messages' = messages
    BY <1>1 DEF ReadMessage
  <2>2. messages \in Seq(Row) /\ Len(sent) + 1 \in Nat /\ uid[s] \in UserId
    BY <1>1 DEF TypeOK, ReadMessage, UidOfPhase, Enrolled
  <2>3. row \in Row
    BY <2>2 DEF Row
  <2> HIDE DEF row
  <2> QED BY <2>1, <2>2, <2>3, AppendFacts
<1>2. UNCHANGED messages => \A i \in DOMAIN messages : i \in DOMAIN messages' /\ SameMessage(i)
  BY DEF SameMessage
<1> QED BY <1>1, <1>2, StepKinds
        DEF SameMessage, SameRows, QuietStep, AnswerStep, WriteReply, LookUp, Push, Recv, Cleanup, Crash, vars

LEMMA StoredStep ==
    ASSUME DeliveryInv, EventInv, Next
    PROVE  KnownIsStored'
<1> USE DEF DeliveryInv, TaskInv, store, control, wires
<1>1. ASSUME NEW n \in DOMAIN sent, ~DbFaults, sent'[n].known
      PROVE  \E r \in DOMAIN messages' : /\ messages'[r].content = n
                                         /\ messages'[r].sender = uid'[sent'[n].by]
                                         /\ messages'[r].receiver = sent'[n].to
  <2>1. sent'[n] = sent[n] /\ sent[n].by \in Session /\ uid'[sent[n].by] = uid[sent[n].by]
    BY GrowFacts, RequestFacts
  <2>2. PICK r \in DOMAIN messages : /\ messages[r].content = n
                                     /\ messages[r].sender = uid[sent[n].by]
                                     /\ messages[r].receiver = sent[n].to
    BY <1>1, <2>1 DEF EventInv, KnownIsStored
  <2> QED BY <2>1, <2>2, RowFacts DEF SameMessage
<1>2. ASSUME NEW s \in Session, NEW to \in UserId, NEW saved \in BOOLEAN, ReadMessage(s, to, saved),
             NEW n \in DOMAIN sent' \ DOMAIN sent, ~DbFaults, sent'[n].known
      PROVE  \E r \in DOMAIN messages' : /\ messages'[r].content = n
                                         /\ messages'[r].sender = uid'[sent'[n].by]
                                         /\ messages'[r].receiver = sent'[n].to
  <2> DEFINE req == [by |-> s, to |-> to, known |-> to \in DOMAIN users]
             row == [sender |-> uid[s], receiver |-> to, content |-> Len(sent) + 1, saved |-> saved]
  <2>1. sent \in Seq(Request) /\ req \in Request /\ sent' = Append(sent, req)
    BY <1>2 DEF ReadMessage, TypeOK, Request
  <2>2. n = Len(sent) + 1 /\ sent'[n] = req
    <3> HIDE DEF req
    <3> QED BY <2>1, AppendFacts
  <2>3. uid' = uid /\ messages' = Append(messages, row)
    <3>1. to \in DOMAIN users
      <4>1. req.known = (to \in DOMAIN users)
        OBVIOUS
      <4>2. req.known
        <5> HIDE DEF req
        <5> QED BY <1>2, <2>2
      <4> HIDE DEF req
      <4> QED BY <4>1, <4>2, Zenon
    <3>2. messages' = Append(messages, row) \/ DbFaults \/ ~Storable(to)
      BY <1>2 DEF ReadMessage
    <3> QED BY <1>2, <3>1, <3>2 DEF ReadMessage, Storable
  <2>4. messages \in Seq(Row) /\ row \in Row
    <3>1. messages \in Seq(Row) /\ Len(sent) + 1 \in Nat /\ uid[s] \in UserId
      BY <1>2 DEF TypeOK, ReadMessage, UidOfPhase, Enrolled
    <3> QED BY <3>1 DEF Row
  <2>5. Len(messages) + 1 \in DOMAIN messages' /\ messages'[Len(messages) + 1] = row
    <3> HIDE DEF row
    <3> QED BY <2>3, <2>4, AppendFacts
  <2> QED BY <2>2, <2>3, <2>5
<1>3. sent' = sent \/ \E s \in Session, to \in UserId, saved \in BOOLEAN : ReadMessage(s, to, saved)
  BY StepKinds DEF QuietStep, AnswerStep, WriteReply, LookUp, Push, Recv, Cleanup, Crash, vars
<1> QED BY <1>1, <1>2, <1>3 DEF KnownIsStored

\* A frame on a channel was there before, is an answer, or is the event pushed.
LEMMA ChannelFacts ==
    ASSUME DeliveryInv, Next, NEW s \in Session, NEW i \in DOMAIN chan'[s]
    PROVE  \/ i \in DOMAIN chan[s] /\ chan'[s][i] = chan[s][i]
           \/ chan'[s][i].command # "message"
           \/ \E t \in Session :
                 /\ Push(t) /\ tx[t] = s
                 /\ chan'[s][i] = [command |-> "message", from |-> uid[t], body |-> out[t]]
<1> USE DEF DeliveryInv, TaskInv, store, control, wires
<1>1. chan[s] \in Seq(Frame)
  BY DEF TypeOK
<1>2. ASSUME NEW t \in Session, NEW f \in Frame, chan' = [chan EXCEPT ![t] = Append(@, f)]
      PROVE  \/ i \in DOMAIN chan[s] /\ chan'[s][i] = chan[s][i]
             \/ t = s /\ chan'[s][i] = f
  <2>1. CASE t = s
    <3>1. chan'[s] = Append(chan[s], f)
      BY <1>2, <2>1 DEF TypeOK
    <3> QED BY <1>1, <2>1, <3>1, AppendFacts
  <2>2. CASE t # s
    BY <1>2, <2>2 DEF TypeOK
  <2> QED BY <2>1, <2>2
<1>3. ASSUME chan'[s] = Delivered(s)
      PROVE  i \in DOMAIN chan[s] /\ chan'[s][i] = chan[s][i]
  BY <1>3, DeliveredType
<1>4. CASE \E t \in Session : AnswerStep(t)
  BY <1>2, <1>4 DEF AnswerStep
<1>5. ASSUME NEW t \in Session, Push(t)
      PROVE  \/ i \in DOMAIN chan[s] /\ chan'[s][i] = chan[s][i]
             \/ tx[t] = s /\ chan'[s][i] = [command |-> "message", from |-> uid[t], body |-> out[t]]
  <2> DEFINE event == [command |-> "message", from |-> uid[t], body |-> out[t]]
  <2>1. tx[t] \in Session /\ event \in Frame
    BY <1>5 DEF Push, RoutingOfPhase, UidOfPhase, Enrolled, TypeOK, Frame, MessageFrame
  <2>2. chan' = chan \/ chan' = [chan EXCEPT ![tx[t]] = Append(@, event)]
    BY <1>5 DEF Push, Enqueue
  <2> HIDE DEF event
  <2>3. \/ i \in DOMAIN chan[s] /\ chan'[s][i] = chan[s][i]
        \/ tx[t] = s /\ chan'[s][i] = event
    BY <1>2, <2>1, <2>2
  <2> QED BY <2>3 DEF event
<1>6. ASSUME NEW t \in Session, Cleanup(t)
      PROVE  i \in DOMAIN chan[s] /\ chan'[s][i] = chan[s][i]
  BY <1>3, <1>6 DEF Cleanup, RemoveHandle, TypeOK
<1>7. CASE Crash
  BY <1>3, <1>7 DEF Crash
<1>8. CASE chan' = chan
  BY <1>8
<1> QED BY <1>4, <1>5, <1>6, <1>7, <1>8, StepKinds
        DEF QuietStep, WriteReply, LookUp, Recv, ReadMessage, vars

LEMMA EventStep ==
    ASSUME DeliveryInv, EventInv, Next
    PROVE  EventsOfRequests'
<1> USE DEF DeliveryInv, TaskInv
<1> SUFFICES ASSUME NEW s \in Session, NEW i \in DOMAIN chan'[s], chan'[s][i].command = "message"
             PROVE  /\ chan'[s][i].body \in DOMAIN sent'
                    /\ uid'[sent'[chan'[s][i].body].by] = chan'[s][i].from
                    /\ sent'[chan'[s][i].body].to = uid'[s]
  BY DEF EventsOfRequests
<1> DEFINE f == chan'[s][i]
<1>1. f.body \in DOMAIN sent /\ uid[sent[f.body].by] = f.from /\ sent[f.body].to = uid[s]
  <2>1. CASE i \in DOMAIN chan[s] /\ chan'[s][i] = chan[s][i]
    BY <2>1 DEF EventInv, EventsOfRequests
  <2>2. ASSUME NEW t \in Session, Push(t), tx[t] = s,
               f = [command |-> "message", from |-> uid[t], body |-> out[t]]
        PROVE  f.body \in DOMAIN sent /\ uid[sent[f.body].by] = f.from /\ sent[f.body].to = uid[s]
    <3>1. pc[t] = "push" /\ f.body = out[t] /\ f.from = uid[t]
      BY <2>2 DEF Push
    <3>2. out[t] \in DOMAIN sent /\ sent[out[t]].by = t /\ sent[out[t]].to = uid[s]
      BY <2>2, <3>1 DEF RoutingOfPhase, RoutedInv, RequestsHaveUsers, HandleOfAddressee
    <3> QED BY <3>1, <3>2
  <2>3. CASE i \notin DOMAIN chan[s] \/ chan'[s][i] # chan[s][i]
    BY <2>2, <2>3, ChannelFacts
  <2> QED BY <2>1, <2>3
<1> HIDE DEF f
<1>2. /\ sent[f.body].by \in Session /\ uid[sent[f.body].by] # NoUser /\ uid[s] # NoUser
  BY <1>1, RequestFacts
<1> QED BY <1>1, <1>2, GrowFacts DEF f

LEMMA EventInvStep == DeliveryInv /\ EventInv /\ [Next]_vars => EventInv'
<1> SUFFICES ASSUME DeliveryInv, EventInv, [Next]_vars
             PROVE  EventInv'
  OBVIOUS
<1>1. CASE Next
  BY <1>1, StoredStep, EventStep DEF EventInv
<1>2. CASE UNCHANGED vars
  BY <1>2 DEF vars, store, control, wires, EventInv, KnownIsStored, EventsOfRequests
<1> QED BY <1>1, <1>2

LEMMA EventStart ==
    ASSUME NEW accounts, StartsOn(accounts)
    PROVE  EventInv
  BY DEF StartsOn, StartOn, EventInv, KnownIsStored, EventsOfRequests

\* The invariant of events and rows holds in every behaviour.
LEMMA EventInvariant == Spec => [](DeliveryInv /\ EventInv)
<1> DEFINE Inv == DeliveryInv /\ EventInv
<1>1. Init => Inv
  BY NewFile, EventStart, DeliveryStart
<1>2. Inv /\ [Next]_vars => Inv'
  BY DeliveryStep, EventInvStep
<1> QED BY <1>1, <1>2, PTL DEF Spec

\* Every event queued on a channel names its true sender and stands for one of
\* its requests, stored for its addressee unless storage failed or the account
\* was not there.
THEOREM EventsAreGenuine == Spec => []EventIsGenuine
<1>1. EventInv => EventIsGenuine
  BY DEF EventInv, KnownIsStored, EventsOfRequests, EventIsGenuine
<1> QED BY <1>1, EventInvariant, PTL

\* Accounts stay what they are.
LEMMA AccountsStay ==
    ASSUME TaskInv, Next
    PROVE  Len(users) <= Len(users') /\ \A u \in DOMAIN users : users'[u] = users[u]
<1> USE DEF TaskInv, store, control, wires
<1>1. users \in Seq(Credential) /\ Len(users) \in Nat
  BY DEF TypeOK
<1>2. ASSUME NEW s \in Session, NEW c \in Credential, Register(s, c)
      PROVE  Len(users) <= Len(users') /\ \A u \in DOMAIN users : users'[u] = users[u]
  <2>1. users' = users \/ users' = Append(users, c)
    BY <1>2 DEF Register
  <2> QED BY <1>1, <2>1, AppendFacts
<1>3. ASSUME NEW s \in Session, ServerStep(s) \/ Recv(s)
      PROVE  users' = users
  BY <1>3 DEF ServerStep, Greet, WriteReply, Enroll, LookUp, Push, Respond, Cleanup, Recv
<1>4. ASSUME NEW s \in Session,
             \/ Accept(s) \/ Refuse(s) \/ ReadOther(s) \/ Disconnect(s)
             \/ \E c \in Credential : Login(s, c)
             \/ \E to \in UserId, saved \in SavedFlags \cup {FALSE} : ReadMessage(s, to, saved)
             \/ \E limit \in HistoryLimits : ReadHistory(s, limit)
             \/ \E id \in 1..MaxSent, saved \in SavedFlags \cup {TRUE} : ReadSave(s, id, saved)
      PROVE  users' = users
  BY <1>4 DEF Accept, Refuse, ReadOther, Disconnect, Login, ReadMessage, ReadHistory, ReadSave
<1>5. Crash \/ Quiescent => users' = users
  BY DEF Crash, Quiescent, vars
<1>6. (\E s \in Session, c \in Credential : Register(s, c)) \/ users' = users
  BY <1>3, <1>4, <1>5 DEF Next, ClientStep
<1> QED BY <1>1, <1>2, <1>6

\* A mark changes only by a request of a party of the message, which is told so.
LEMMA MarkStep ==
    ASSUME TaskInv, Next, NEW i \in DOMAIN messages, messages'[i].saved # messages[i].saved
    PROVE  \E s \in Session : uid[s] \in Parties(i) /\ pc[s] = "loop" /\ answer'[s] = <<MarkChanged>>
<1> USE DEF TaskInv, store, control, wires
<1>1. ASSUME NEW s \in Session, NEW id \in 1..MaxSent, NEW saved \in BOOLEAN, ReadSave(s, id, saved)
      PROVE  uid[s] \in Parties(i) /\ pc[s] = "loop" /\ answer'[s] = <<MarkChanged>>
  <2>1. /\ Concerns(uid[s], id) /\ messages' = [messages EXCEPT ![id].saved = saved]
        /\ answer' = [answer EXCEPT ![s] = <<MarkChanged>>]
    BY <1>1 DEF ReadSave, Prepare, MarkChanged
  <2>2. i = id
    BY <2>1
  <2> QED BY <1>1, <2>1, <2>2 DEF Parties, Concerns, ReadSave, Asks, TypeOK
<1>2. ASSUME NEW s \in Session, NEW to \in UserId, NEW saved \in BOOLEAN, ReadMessage(s, to, saved)
      PROVE  FALSE
  <2> DEFINE row == [sender |-> uid[s], receiver |-> to, content |-> Len(sent) + 1, saved |-> saved]
  <2>1. messages' = Append(messages, row) \/ messages' = messages
    BY <1>2 DEF ReadMessage
  <2>2. messages \in Seq(Row) /\ Len(sent) + 1 \in Nat /\ uid[s] \in UserId
    BY <1>2 DEF TypeOK, ReadMessage, UidOfPhase, Enrolled
  <2>3. row \in Row
    BY <2>2 DEF Row
  <2> HIDE DEF row
  <2> QED BY <2>1, <2>2, <2>3, AppendFacts
<1>3. SavedFlags \cup {FALSE} \subseteq BOOLEAN /\ SavedFlags \cup {TRUE} \subseteq BOOLEAN
  BY RequestAssumption
<1>4. \/ \E s \in Session : \/ \E id \in 1..MaxSent, saved \in BOOLEAN : ReadSave(s, id, saved)
                            \/ \E to \in UserId, saved \in BOOLEAN : ReadMessage(s, to, saved)
      \/ messages' = messages
  <2>1. ASSUME NEW s \in Session, ServerStep(s) \/ Recv(s)
        PROVE  messages' = messages
    BY <2>1 DEF ServerStep, Greet, WriteReply, Enroll, LookUp, Push, Respond, Cleanup, Recv
  <2>2. ASSUME NEW s \in Session,
               \/ Accept(s) \/ Refuse(s) \/ ReadOther(s) \/ Disconnect(s)
               \/ \E c \in Credential : Login(s, c) \/ Register(s, c)
               \/ \E limit \in HistoryLimits : ReadHistory(s, limit)
        PROVE  messages' = messages
    BY <2>2 DEF Accept, Refuse, ReadOther, Disconnect, Login, Register, ReadHistory
  <2>3. Crash \/ Quiescent => messages' = messages
    BY DEF Crash, Quiescent, vars
  <2> QED BY <1>3, <2>1, <2>2, <2>3 DEF Next, ClientStep
<1>5. messages' # messages
  OBVIOUS
<1> QED BY <1>1, <1>2, <1>4, <1>5

\* Rows and accounts are never lost or rewritten, by any step or crash; a mark
\* changes only by a request of a party of the message, whose answer will say so.
THEOREM RowsKept == Spec => RowsAreKept
<1>1. ASSUME TaskInv, Next
      PROVE  Len(messages) <= Len(messages')
             /\ \A i \in DOMAIN messages :
                   [messages'[i] EXCEPT !.saved = FALSE] = [messages[i] EXCEPT !.saved = FALSE]
  <2>1. messages \in Seq(Row) /\ messages' \in Seq(Row)
    BY <1>1, TypeStep DEF TaskInv, TypeOK
  <2>2. \A i \in DOMAIN messages : i \in DOMAIN messages' /\ SameMessage(i)
    BY <1>1, RowFacts
  <2>3. Len(messages) <= Len(messages')
    <3>1. /\ Len(messages) \in Nat /\ DOMAIN messages = 1..Len(messages)
          /\ Len(messages') \in Nat /\ DOMAIN messages' = 1..Len(messages')
      BY <2>1, DomainFacts
    <3>2. Len(messages) # 0 => Len(messages) \in DOMAIN messages'
      BY <2>2, <3>1
    <3> QED BY <3>1, <3>2
  <2>4. ASSUME NEW i \in DOMAIN messages
        PROVE  [messages'[i] EXCEPT !.saved = FALSE] = [messages[i] EXCEPT !.saved = FALSE]
    <3>1. messages[i] \in Row /\ messages'[i] \in Row
      BY <2>1, <2>2, DomainFacts
    <3> QED BY <2>2, <3>1 DEF SameMessage, Row
  <2> QED BY <2>3, <2>4
<1>2. ASSUME TaskInv, [Next]_vars
      PROVE  [/\ Len(messages) <= Len(messages')
              /\ Len(users) <= Len(users') /\ \A u \in DOMAIN users : users'[u] = users[u]
              /\ \A i \in DOMAIN messages :
                    /\ [messages'[i] EXCEPT !.saved = FALSE] = [messages[i] EXCEPT !.saved = FALSE]
                    /\ messages'[i].saved # messages[i].saved =>
                          \E s \in Session : uid[s] \in Parties(i) /\ pc[s] = "loop"
                                             /\ answer'[s] = <<MarkChanged>>]_vars
  BY <1>1, <1>2, AccountsStay, MarkStep
<1> QED BY <1>2, TaskInit, TaskInvStep, PTL DEF Spec, RowsAreKept

-----------------------------------------------------------------------------
(* History pages.                                                          *)

\* How many of a set of numbers are at or below i: the place of i among them.
Place(mine, i) == Cardinality({j \in mine : j <= i})

\* The places of the elements of a finite set of numbers run from 1 to its size.
LEMMA PlaceFacts ==
    ASSUME NEW mine \in SUBSET Nat, IsFiniteSet(mine)
    PROVE  /\ \A i \in mine : Place(mine, i) \in 1..Cardinality(mine)
           /\ \A i, j \in mine : i < j => Place(mine, i) < Place(mine, j)
           /\ \A k \in 1..Cardinality(mine) : \E i \in mine : Place(mine, i) = k
<1> DEFINE upto(i) == {j \in mine : j <= i}
           N == Cardinality(mine)
           f == [i \in mine |-> Place(mine, i)]
<1>1. N \in Nat
  BY FS_CardinalityType
<1>2. \A i : /\ IsFiniteSet(upto(i)) /\ Cardinality(upto(i)) \in Nat /\ Cardinality(upto(i)) <= N
  <2> SUFFICES ASSUME NEW i
               PROVE  /\ IsFiniteSet(upto(i)) /\ Cardinality(upto(i)) \in Nat
                      /\ Cardinality(upto(i)) <= N
    OBVIOUS
  <2>1. upto(i) \in SUBSET mine
    OBVIOUS
  <2> QED BY <2>1, FS_Subset, FS_CardinalityType
<1>3. ASSUME NEW i \in mine, NEW j \in mine, i < j
      PROVE  Place(mine, i) < Place(mine, j)
  <2>1. upto(i) \in SUBSET upto(j) /\ j \in upto(j) /\ j \notin upto(i)
    <3>1. i \in Nat /\ j \in Nat /\ j <= j /\ ~(j <= i)
      BY <1>3
    <3>2. ASSUME NEW k \in mine, k <= i PROVE k <= j
      BY <1>3, <3>2
    <3> QED BY <3>1, <3>2
  <2>2. upto(i) # upto(j)
    BY <2>1
  <2>3. Cardinality(upto(i)) <= Cardinality(upto(j)) /\ Cardinality(upto(i)) # Cardinality(upto(j))
    BY <1>2, <2>1, <2>2, FS_Subset
  <2> HIDE DEF upto
  <2>4. Cardinality(upto(i)) < Cardinality(upto(j))
    BY <1>2, <2>3
  <2> QED BY <2>4 DEF Place, upto
<1>4. \A i \in mine : Place(mine, i) \in 1..N
  <2> SUFFICES ASSUME NEW i \in mine
               PROVE  Place(mine, i) \in 1..N
    OBVIOUS
  <2>1. i \in upto(i)
    OBVIOUS
  <2>2. Cardinality(upto(i)) # 0
    BY <1>2, <2>1, FS_EmptySet
  <2> HIDE DEF upto, N
  <2>3. Cardinality(upto(i)) \in 1..N
    BY <1>1, <1>2, <2>2
  <2> QED BY <2>3 DEF Place, upto
<1>5. f \in Injection(mine, 1..N)
  <2>1. f \in [mine -> 1..N]
    BY <1>4
  <2>2. ASSUME NEW i \in mine, NEW j \in mine, f[i] = f[j] PROVE i = j
    <3>1. f[i] = Place(mine, i) /\ f[j] = Place(mine, j)
      OBVIOUS
    <3>2. f[i] \in Nat /\ f[j] \in Nat
      BY <1>1, <2>1
    <3>3. ~(i < j) /\ ~(j < i)
      BY <1>3, <2>2, <3>1, <3>2
    <3> QED BY <3>3
  <2> HIDE DEF f, N
  <2> QED BY <2>1, <2>2 DEF Injection, IsInjective
<1>6. IsFiniteSet(1..N) /\ Cardinality(1..N) = N
  BY <1>1, FS_Interval
<1>7. f \in Surjection(mine, 1..N)
  <2> HIDE DEF f
  <2> QED BY <1>5, <1>6, FS_Injection
<1>8. \A k \in 1..N : \E i \in mine : f[i] = k
  <2> HIDE DEF f, N
  <2> QED BY <1>7 DEF Surjection
<1> QED BY <1>3, <1>4, <1>8

\* A page that leaves an element out is full.
LEMMA CutPageIsFull ==
    ASSUME NEW mine \in SUBSET Nat, IsFiniteSet(mine), NEW n \in Nat,
           NEW r \in mine, ~(Place(mine, r) <= n)
    PROVE  Cardinality({i \in mine : Place(mine, i) <= n}) = n
<1> DEFINE page == {i \in mine : Place(mine, i) <= n}
           g == [i \in page |-> Place(mine, i)]
<1>1. /\ \A i \in mine : Place(mine, i) \in 1..Cardinality(mine)
      /\ \A i, j \in mine : i < j => Place(mine, i) < Place(mine, j)
      /\ \A k \in 1..Cardinality(mine) : \E i \in mine : Place(mine, i) = k
  BY PlaceFacts
<1>2. Cardinality(mine) \in Nat
  BY FS_CardinalityType
<1>3. n < Cardinality(mine)
  BY <1>1, <1>2
<1>4. page \in SUBSET mine /\ IsFiniteSet(page)
  BY FS_Subset
<1>5. g \in Bijection(page, 1..n)
  <2>1. g \in [page -> 1..n]
    <3>1. ASSUME NEW i \in page PROVE Place(mine, i) \in 1..n
      BY <1>1, <1>2
    <3> HIDE DEF page
    <3> QED BY <3>1
  <2>2. ASSUME NEW i \in page, NEW j \in page, g[i] = g[j] PROVE i = j
    <3>1. Place(mine, i) = Place(mine, j) /\ Place(mine, i) \in Nat
      BY <1>1, <1>2, <2>2
    <3>2. ~(i < j) /\ ~(j < i)
      BY <1>1, <3>1
    <3> QED BY <3>2
  <2>3. ASSUME NEW k \in 1..n PROVE \E i \in page : g[i] = k
    <3>1. PICK i \in mine : Place(mine, i) = k
      BY <1>1, <1>2, <1>3
    <3> QED BY <3>1
  <2> HIDE DEF g, page
  <2> QED BY <2>1, <2>2, <2>3 DEF Bijection, Injection, Surjection, IsInjective
<1>6. IsFiniteSet(1..n) /\ Cardinality(1..n) = n
  BY FS_Interval
<1>7. ExistsBijection(page, 1..n)
  <2> HIDE DEF g, page
  <2> QED BY <1>5 DEF ExistsBijection
<1>8. Cardinality(1..n) = Cardinality(page)
  <2> HIDE DEF page
  <2> QED BY <1>4, <1>7, FS_Bijection
<1> QED BY <1>6, <1>8

\* A history answer has every row that concerns the user, or is full: a negative
\* LIMIT cuts nothing (db_utils.rs:219, `limit as i64`), another one cuts at itself.
LEMMA HistoryPageFacts ==
    ASSUME messages \in Seq(Row), NEW u, NEW limit \in HistoryLimits,
           NEW r \in DOMAIN messages, Concerns(u, r)
    PROVE  r \in HistoryPage(u, limit) \/ Cardinality(HistoryPage(u, limit)) = limit
<1> DEFINE mine == {i \in DOMAIN messages : Concerns(u, i)}
           n == AsI64(limit)
<1>1. Len(messages) \in Nat /\ DOMAIN messages = 1..Len(messages)
  BY DomainFacts
<1>2. IsFiniteSet(1..Len(messages))
  BY <1>1, FS_Interval
<1>3. mine \in SUBSET Nat /\ IsFiniteSet(mine) /\ r \in mine
  BY <1>1, <1>2, FS_Subset
<1>4. n \in Int /\ (~(n < 0) => n = limit /\ n \in Nat)
  BY WordAssumption, RequestAssumption DEF AsI64
<1>5. HistoryPage(u, limit) = {i \in mine : n < 0 \/ Place(mine, i) <= n}
  BY DEF HistoryPage, Place
<1> HIDE DEF mine, n
<1>6. CASE n < 0
  BY <1>3, <1>5, <1>6
<1>7. CASE ~(n < 0) /\ Place(mine, r) <= n
  BY <1>3, <1>5, <1>7
<1>8. CASE ~(n < 0) /\ ~(Place(mine, r) <= n)
  <2>1. HistoryPage(u, limit) = {i \in mine : Place(mine, i) <= n}
    BY <1>5, <1>8
  <2>2. Cardinality({i \in mine : Place(mine, i) <= n}) = n
    BY <1>3, <1>4, <1>8, CutPageIsFull
  <2> QED BY <1>4, <1>8, <2>1, <2>2
<1> QED BY <1>6, <1>7, <1>8

\* A row is that of a request, to the addressee of the request.
RowsOfRequests ==
    \A r \in DOMAIN messages : /\ messages[r].content \in DOMAIN sent
                               /\ messages[r].receiver = sent[messages[r].content].to

\* A page has the row of every message that was on the channel when it was read, or
\* is full.
Covers(s, h) ==
    h.command = "history_response" /\ h.success =>
        \A i \in DOMAIN chan[s] : i <= h.behind /\ chan[s][i].command = "message" =>
            \A r \in DOMAIN messages : messages[r].content = chan[s][i].body =>
                r \in h.ids \/ Cardinality(h.ids) = h.limit

\* What was on the channel then is ahead of the page, on the channel or ready for it.
PagesCover ==
    \A s \in Session :
        /\ \A j \in DOMAIN chan[s] : LET h == chan[s][j] IN
              Covers(s, h) /\ (h.command = "history_response" => h.behind < j)
        /\ \A k \in DOMAIN answer[s] : LET h == answer[s][k] IN
              Covers(s, h) /\ (h.command = "history_response" => h.behind <= Len(chan[s]))

\* A row that a step adds is that of the request the step reads.
LEMMA AddedRow ==
    ASSUME TaskInv, Next, NEW r \in DOMAIN messages' \ DOMAIN messages
    PROVE  /\ messages'[r].content \notin DOMAIN sent
           /\ messages'[r].content \in DOMAIN sent'
           /\ messages'[r].receiver = sent'[messages'[r].content].to
<1> USE DEF TaskInv, store, control, wires
<1>1. ASSUME NEW s \in Session, NEW to \in UserId, NEW saved \in BOOLEAN, ReadMessage(s, to, saved)
      PROVE  /\ messages'[r].content \notin DOMAIN sent
             /\ messages'[r].content \in DOMAIN sent'
             /\ messages'[r].receiver = sent'[messages'[r].content].to
  <2> DEFINE row == [sender |-> uid[s], receiver |-> to, content |-> Len(sent) + 1, saved |-> saved]
             req == [by |-> s, to |-> to, known |-> to \in DOMAIN users]
  <2>1. messages \in Seq(Row) /\ sent \in Seq(Request) /\ row \in Row /\ req \in Request
    BY <1>1 DEF TypeOK, ReadMessage, UidOfPhase, Enrolled, Row, Request
  <2>2. /\ messages' = Append(messages, row) \/ messages' = messages
        /\ sent' = Append(sent, req)
    BY <1>1 DEF ReadMessage
  <2>3. row.content = Len(sent) + 1 /\ row.receiver = to /\ req.to = to
    OBVIOUS
  <2> HIDE DEF row, req
  <2>4. messages'[r] = row
    BY <2>1, <2>2, AppendFacts
  <2>5. /\ Len(sent) \in Nat /\ DOMAIN sent = 1..Len(sent) /\ DOMAIN sent' = 1..(Len(sent) + 1)
        /\ sent'[Len(sent) + 1] = req
    BY <2>1, <2>2, AppendFacts
  <2> QED BY <2>3, <2>4, <2>5
<1>2. DOMAIN messages' # DOMAIN messages
  OBVIOUS
<1> QED BY <1>1, <1>2, StepKinds
        DEF QuietStep, SameRows, AnswerStep, WriteReply, LookUp, Push, Recv, Cleanup, Crash, vars

LEMMA RowsStep ==
    ASSUME TaskInv, RowsOfRequests, Next
    PROVE  RowsOfRequests'
<1> SUFFICES ASSUME NEW r \in DOMAIN messages'
             PROVE  /\ messages'[r].content \in DOMAIN sent'
                    /\ messages'[r].receiver = sent'[messages'[r].content].to
  BY DEF RowsOfRequests
<1>1. CASE r \in DOMAIN messages
  <2>1. messages[r].content \in DOMAIN sent /\ messages[r].receiver = sent[messages[r].content].to
    BY <1>1 DEF RowsOfRequests
  <2>2. messages'[r].receiver = messages[r].receiver /\ messages'[r].content = messages[r].content
    BY <1>1, RowFacts DEF SameMessage
  <2> QED BY <2>1, <2>2, GrowFacts
<1>2. CASE r \notin DOMAIN messages
  BY <1>2, AddedRow
<1> QED BY <1>1, <1>2

\* A frame on a channel was there before, or it is the one frame a step adds, at the
\* end: an answer made ready in an earlier step, or no history page.
LEMMA ChannelStep ==
    ASSUME DeliveryInv, Next, NEW s \in Session
    PROVE  \/ \A i \in DOMAIN chan'[s] : i \in DOMAIN chan[s] /\ chan'[s][i] = chan[s][i]
           \/ \E f \in Frame :
                 /\ chan'[s] = Append(chan[s], f)
                 /\ f.command = "history_response" => answer[s] = <<f>>
<1> USE DEF DeliveryInv, TaskInv, store, control, wires
<1> DEFINE Cut == \A i \in DOMAIN chan'[s] : i \in DOMAIN chan[s] /\ chan'[s][i] = chan[s][i]
           Grown == \E f \in Frame : /\ chan'[s] = Append(chan[s], f)
                                     /\ f.command = "history_response" => answer[s] = <<f>>
<1>1. ASSUME NEW t \in Session, NEW f \in Frame, Enqueue(t, f),
             f.command = "history_response" => answer[t] = <<f>>
      PROVE  Cut \/ Grown
  <2>1. CASE t = s
    <3>1. chan'[s] = Append(chan[s], f) \/ chan'[s] = chan[s]
      BY <1>1, <2>1 DEF Enqueue, TypeOK
    <3> QED BY <1>1, <2>1, <3>1
  <2>2. CASE t # s
    BY <1>1, <2>2 DEF Enqueue, TypeOK
  <2> QED BY <2>1, <2>2
<1>2. ASSUME NEW t \in Session, Respond(t) PROVE Cut \/ Grown
  <2> HIDE DEF Cut, Grown
  <2> QED BY <1>1, <1>2, RespondFacts
<1>3. ASSUME NEW t \in Session, Push(t) PROVE Cut \/ Grown
  <2> DEFINE event == [command |-> "message", from |-> uid[t], body |-> out[t]]
  <2>1. tx[t] \in Session /\ event \in Frame /\ event.command # "history_response"
    BY <1>3 DEF Push, RoutingOfPhase, UidOfPhase, Enrolled, TypeOK, Frame, MessageFrame
  <2>2. Enqueue(tx[t], event)
    BY <1>3 DEF Push
  <2> HIDE DEF event, Cut, Grown
  <2> QED BY <1>1, <2>1, <2>2
<1>4. ASSUME NEW t \in Session, ReadOther(t) PROVE Cut \/ Grown
  <2>1. PICK f \in NoticeFrame : Enqueue(t, f)
    BY <1>4 DEF ReadOther, NoticeFrame
  <2>2. f \in Frame /\ f.command # "history_response"
    BY <2>1 DEF Frame, NoticeFrame
  <2> HIDE DEF Cut, Grown
  <2> QED BY <1>1, <2>1, <2>2
<1>5. ASSUME chan'[s] = Delivered(s) PROVE Cut
  BY <1>5, DeliveredType
<1>6. ASSUME NEW t \in Session, Cleanup(t) PROVE Cut
  BY <1>5, <1>6 DEF Cleanup, RemoveHandle, TypeOK
<1>7. ASSUME Crash PROVE Cut
  <2>1. chan'[s] = Delivered(s)
    BY <1>7 DEF Crash
  <2> QED BY <1>5, <2>1
<1>8. chan' = chan => Cut
  OBVIOUS
<1>9. \/ \E t \in Session : Respond(t) \/ Push(t) \/ ReadOther(t) \/ Cleanup(t)
      \/ Crash \/ chan' = chan
  BY DEF Next, ServerStep, ClientStep, Quiescent, vars, Greet, WriteReply, Enroll, LookUp, Recv, Accept,
         Refuse, Disconnect, Login, Register, ReadMessage, ReadHistory, ReadSave
<1> HIDE DEF Cut, Grown
<1>10. Cut \/ Grown
  BY <1>2, <1>3, <1>4, <1>6, <1>7, <1>8, <1>9
<1> QED BY <1>10 DEF Cut, Grown

\* An answer that is ready was ready before, while the channel at most grew; or it is
\* made ready by this step, which leaves the channels alone, and a page is then that
\* of the session's user as the rows are.
LEMMA ReadyStep ==
    ASSUME DeliveryInv, Next, NEW s \in Session, answer'[s] # <<>>
    PROVE  \/ answer'[s] = answer[s] /\ Len(chan[s]) <= Len(chan'[s])
           \/ /\ chan' = chan
              /\ \E f \in Frame :
                    /\ answer'[s] = <<f>>
                    /\ f.command = "history_response" =>
                          /\ f.behind = Len(chan[s]) /\ messages' = messages
                          /\ f.success => \E limit \in HistoryLimits :
                                f.limit = limit /\ f.ids = HistoryPage(uid[s], limit)
<1> USE DEF DeliveryInv, TaskInv, store, control, wires
<1> DEFINE Kept == answer'[s] = answer[s] /\ Len(chan[s]) <= Len(chan'[s])
           Good(f, u) == f.command = "history_response" =>
                            /\ f.behind = Len(chan[s]) /\ messages' = messages
                            /\ f.success => \E limit \in HistoryLimits :
                                  f.limit = limit /\ f.ids = HistoryPage(u, limit)
           Ready == chan' = chan /\ \E f \in Frame : answer'[s] = <<f>> /\ Good(f, uid[s])
<1>1. chan[s] \in Seq(Frame) /\ Len(chan[s]) \in Nat
  BY DEF TypeOK
<1>2. ASSUME answer' = answer, NEW t \in Session, NEW f \in Frame, Enqueue(t, f)
      PROVE  Kept
  <2>1. chan'[s] = chan[s] \/ chan'[s] = Append(chan[s], f)
    BY <1>2 DEF Enqueue, TypeOK
  <2> QED BY <1>1, <1>2, <2>1, AppendFacts
<1>3. ASSUME answer' = answer, chan'[s] = chan[s]
      PROVE  Kept
  BY <1>1, <1>3
<1>4. ASSUME NEW t \in Session, NEW limit \in HistoryLimits, ReadHistory(t, limit)
      PROVE  Kept \/ Ready
  <2>1. chan' = chan /\ messages' = messages
    BY <1>4 DEF ReadHistory
  <2>2. PICK f \in HistoryFrame :
               /\ f \in Frame /\ Prepare(t, f) /\ f.limit = limit /\ f.behind = Len(chan[t])
               /\ f.success => f.ids = HistoryPage(uid[t], limit)
    BY <1>4, HistoryPrepared
  <2>3. CASE t = s
    <3>1. answer'[s] = <<f>>
      BY <2>2, <2>3, PrepareFacts
    <3>2. Good(f, uid[s])
      BY <2>1, <2>2, <2>3
    <3> QED BY <2>1, <2>2, <3>1, <3>2
  <2>4. CASE t # s
    <3>1. answer'[s] = answer[s]
      BY <2>2, <2>4, PrepareFacts
    <3> QED BY <1>1, <2>1, <3>1
  <2> QED BY <2>3, <2>4
<1>5. ASSUME NEW t \in Session, NEW id, NEW saved, ReadSave(t, id, saved)
      PROVE  Kept \/ Ready
  <2>1. chan' = chan
    BY <1>5 DEF ReadSave
  <2>2. PICK f \in SaveFrame : f \in Frame /\ Prepare(t, f)
    BY <1>5, SavePrepared
  <2>3. CASE t = s
    <3>1. answer'[s] = <<f>> /\ f.command # "history_response"
      BY <2>2, <2>3, PrepareFacts DEF SaveFrame
    <3> QED BY <2>1, <2>2, <3>1
  <2>4. CASE t # s
    <3>1. answer'[s] = answer[s]
      BY <2>2, <2>4, PrepareFacts
    <3> QED BY <1>1, <2>1, <3>1
  <2> QED BY <2>3, <2>4
<1>6. ASSUME NEW t \in Session, Respond(t) PROVE Kept
  <2>1. answer' = [answer EXCEPT ![t] = <<>>]
    BY <1>6, RespondFacts
  <2>2. t # s
    BY <2>1 DEF TypeOK
  <2>3. answer'[s] = answer[s]
    BY <2>1, <2>2 DEF TypeOK
  <2>4. PICK f \in Frame : chan' = [chan EXCEPT ![t] = Append(@, f)]
    BY <1>6, RespondFacts
  <2>5. chan'[s] = chan[s]
    BY <2>2, <2>4 DEF TypeOK
  <2> QED BY <1>1, <2>3, <2>5
<1>7. ASSUME NEW t \in Session, Push(t) PROVE Kept
  <2> DEFINE event == [command |-> "message", from |-> uid[t], body |-> out[t]]
  <2>1. tx[t] \in Session /\ event \in Frame /\ answer' = answer
    BY <1>7 DEF Push, RoutingOfPhase, UidOfPhase, Enrolled, TypeOK, Frame, MessageFrame
  <2>2. Enqueue(tx[t], event)
    BY <1>7 DEF Push
  <2> HIDE DEF event, Kept
  <2> QED BY <1>2, <2>1, <2>2
<1>8. ASSUME NEW t \in Session, ReadOther(t) PROVE Kept
  <2>1. answer' = answer /\ \E f \in Frame : Enqueue(t, f)
    BY <1>8 DEF ReadOther, Frame, NoticeFrame
  <2> HIDE DEF Kept
  <2> QED BY <1>2, <2>1
<1>9. ASSUME NEW t \in Session, Cleanup(t) PROVE Kept
  <2>1. pc[t] = "cleanup" /\ answer' = answer /\ chan' = [chan EXCEPT ![t] = Delivered(t)]
    BY <1>9 DEF Cleanup
  <2>2. answer[t] = <<>>
    BY <2>1 DEF AnswerOfPhase
  <2>3. t # s
    BY <2>1, <2>2
  <2>4. chan'[s] = chan[s]
    BY <2>1, <2>3 DEF TypeOK
  <2> QED BY <1>3, <2>1, <2>4
<1>10. ~Crash
  BY DEF Crash
<1>11. \/ \E t \in Session :
             \/ \E limit \in HistoryLimits : ReadHistory(t, limit)
             \/ \E id \in 1..MaxSent, saved \in SavedFlags \cup {TRUE} : ReadSave(t, id, saved)
             \/ Respond(t) \/ Push(t) \/ ReadOther(t) \/ Cleanup(t)
       \/ Crash \/ UNCHANGED <<answer, chan>>
  BY DEF Next, ServerStep, ClientStep, Quiescent, vars, Greet, WriteReply, Enroll, LookUp, Recv, Accept,
         Refuse, Disconnect, Login, Register, ReadMessage
<1>12. UNCHANGED <<answer, chan>> => Kept
  BY <1>3
<1> HIDE DEF Kept, Ready
<1>13. Kept \/ Ready
  BY <1>4, <1>5, <1>6, <1>7, <1>8, <1>9, <1>10, <1>11, <1>12
<1> QED BY <1>13 DEF Kept, Ready

\* A page that covers what was on the channel covers it still after a step that cuts
\* the channel, or adds to it what was not there when the page was read.
LEMMA CoversStep ==
    ASSUME DeliveryInv, EventInv, Next, NEW s \in Session, NEW h, Covers(s, h),
           \A i \in DOMAIN chan'[s] :
              (h.command = "history_response" /\ i <= h.behind) => i \in DOMAIN chan[s] /\ chan'[s][i] = chan[s][i]
    PROVE  Covers(s, h)'
<1> SUFFICES ASSUME h.command = "history_response", h.success, NEW i \in DOMAIN chan'[s],
                    i <= h.behind, chan'[s][i].command = "message",
                    NEW r \in DOMAIN messages', messages'[r].content = chan'[s][i].body
             PROVE  r \in h.ids \/ Cardinality(h.ids) = h.limit
  BY DEF Covers
<1>1. i \in DOMAIN chan[s] /\ chan'[s][i] = chan[s][i]
  OBVIOUS
<1>2. chan[s][i].body \in DOMAIN sent
  BY <1>1 DEF EventInv, EventsOfRequests
<1>3. r \in DOMAIN messages
  BY <1>1, <1>2, AddedRow DEF DeliveryInv
<1>4. messages[r].content = chan[s][i].body
  BY <1>1, <1>3, RowFacts DEF DeliveryInv, SameMessage
<1> QED BY <1>1, <1>3, <1>4 DEF Covers

\* A page of the user's rows, read now, covers what is on the channel now.
LEMMA FreshPage ==
    ASSUME DeliveryInv, EventInv, RowsOfRequests, NEW s \in Session, NEW h, NEW limit \in HistoryLimits,
           h.limit = limit, h.ids = HistoryPage(uid[s], limit)
    PROVE  Covers(s, h)
<1> SUFFICES ASSUME NEW i \in DOMAIN chan[s], chan[s][i].command = "message",
                    NEW r \in DOMAIN messages, messages[r].content = chan[s][i].body
             PROVE  r \in h.ids \/ Cardinality(h.ids) = h.limit
  BY DEF Covers
<1>1. chan[s][i].body \in DOMAIN sent /\ sent[chan[s][i].body].to = uid[s]
  BY DEF EventInv, EventsOfRequests
<1>2. Concerns(uid[s], r)
  BY <1>1 DEF RowsOfRequests, Concerns
<1>3. messages \in Seq(Row)
  BY DEF DeliveryInv, TaskInv, TypeOK
<1> QED BY <1>2, <1>3, HistoryPageFacts

LEMMA PagesStep ==
    ASSUME DeliveryInv, EventInv, RowsOfRequests, PagesCover, Next
    PROVE  PagesCover'
<1> USE DEF DeliveryInv, TaskInv
<1> SUFFICES ASSUME NEW s \in Session, NEW h
             PROVE  /\ \A j \in DOMAIN chan'[s] : h = chan'[s][j] =>
                          Covers(s, h)' /\ (h.command = "history_response" => h.behind < j)
                    /\ \A k \in DOMAIN answer'[s] : h = answer'[s][k] =>
                          Covers(s, h)' /\ (h.command = "history_response" => h.behind <= Len(chan'[s]))
  BY DEF PagesCover, Covers
<1>1. /\ chan[s] \in Seq(Frame) /\ Len(chan[s]) \in Nat /\ DOMAIN chan[s] = 1..Len(chan[s])
      /\ \A j \in DOMAIN chan[s] : chan[s][j] \in Frame
  BY DomainFacts DEF TypeOK
<1>2. /\ \A i \in DOMAIN chan'[s] : i \in Nat
      /\ \A i \in DOMAIN chan'[s] : i <= Len(chan[s]) => i \in DOMAIN chan[s] /\ chan'[s][i] = chan[s][i]
      /\ \A j \in DOMAIN chan'[s] :
            \/ j \in DOMAIN chan[s] /\ chan'[s][j] = chan[s][j]
            \/ /\ j = Len(chan[s]) + 1
               /\ chan'[s][j].command = "history_response" => answer[s] = <<chan'[s][j]>>
  <2>1. CASE \A i \in DOMAIN chan'[s] : i \in DOMAIN chan[s] /\ chan'[s][i] = chan[s][i]
    BY <1>1, <2>1
  <2>2. ASSUME NEW f \in Frame, chan'[s] = Append(chan[s], f),
               f.command = "history_response" => answer[s] = <<f>>
        PROVE  /\ \A i \in DOMAIN chan'[s] : i \in Nat
               /\ \A i \in DOMAIN chan'[s] : i <= Len(chan[s]) => i \in DOMAIN chan[s] /\ chan'[s][i] = chan[s][i]
               /\ \A j \in DOMAIN chan'[s] :
                     \/ j \in DOMAIN chan[s] /\ chan'[s][j] = chan[s][j]
                     \/ /\ j = Len(chan[s]) + 1
                        /\ chan'[s][j].command = "history_response" => answer[s] = <<chan'[s][j]>>
    BY <1>1, <2>2, AppendFacts
  <2> QED BY <2>1, <2>2, ChannelStep
<1>3. \A f \in Frame : f.command = "history_response" => f.behind \in Nat
  BY DEF Frame, MessageFrame, HistoryFrame, SaveFrame, NoticeFrame
<1>4. ASSUME Covers(s, h), h.command = "history_response" => h.behind \in Nat /\ h.behind <= Len(chan[s])
      PROVE  Covers(s, h)'
  <2>1. \A i \in DOMAIN chan'[s] :
           (h.command = "history_response" /\ i <= h.behind) => i \in DOMAIN chan[s] /\ chan'[s][i] = chan[s][i]
    BY <1>1, <1>2, <1>4
  <2> QED BY <1>4, <2>1, CoversStep
<1>5. h.command # "history_response" => Covers(s, h)'
  BY DEF Covers
<1>6. ASSUME NEW j \in DOMAIN chan'[s], h = chan'[s][j]
      PROVE  Covers(s, h)' /\ (h.command = "history_response" => h.behind < j)
  <2>1. CASE j \in DOMAIN chan[s] /\ chan'[s][j] = chan[s][j]
    <3>1. Covers(s, h) /\ (h.command = "history_response" => h.behind < j) /\ h \in Frame
      BY <1>1, <1>6, <2>1 DEF PagesCover
    <3>2. h.command = "history_response" => h.behind \in Nat /\ h.behind <= Len(chan[s])
      BY <1>1, <1>3, <2>1, <3>1
    <3> QED BY <1>4, <3>1, <3>2
  <2>2. CASE /\ j = Len(chan[s]) + 1
             /\ h.command = "history_response" => answer[s] = <<h>>
    <3>1. CASE h.command # "history_response"
      BY <1>5, <3>1
    <3>2. CASE h.command = "history_response"
      <4>1. answer[s] = <<h>>
        BY <2>2, <3>2
      <4>2. answer[s] \in Seq(Frame)
        BY DEF TypeOK
      <4>3. 1 \in DOMAIN answer[s] /\ answer[s][1] = h /\ h \in Frame
        BY <4>1, <4>2, DomainFacts
      <4>4. Covers(s, h) /\ h.behind <= Len(chan[s]) /\ h.behind \in Nat
        BY <1>3, <3>2, <4>3 DEF PagesCover
      <4>5. h.behind < j
        BY <1>1, <2>2, <4>4
      <4> QED BY <1>4, <4>4, <4>5
    <3> QED BY <3>1, <3>2
  <2> QED BY <1>2, <1>6, <2>1, <2>2
<1>7. ASSUME NEW k \in DOMAIN answer'[s], h = answer'[s][k]
      PROVE  Covers(s, h)' /\ (h.command = "history_response" => h.behind <= Len(chan'[s]))
  <2>1. answer'[s] # <<>>
    BY <1>7
  <2>2. CASE answer'[s] = answer[s] /\ Len(chan[s]) <= Len(chan'[s])
    <3>1. /\ Covers(s, h) /\ (h.command = "history_response" => h.behind <= Len(chan[s]))
      BY <1>7, <2>2 DEF PagesCover
    <3>2. h \in Frame
      <4>1. answer[s] \in Seq(Frame)
        BY DEF TypeOK
      <4> QED BY <1>7, <2>2, <4>1, DomainFacts
    <3>3. h.command = "history_response" => h.behind \in Nat /\ h.behind <= Len(chan[s])
      BY <1>3, <3>1, <3>2
    <3>4. chan'[s] \in Seq(Frame)
      BY TypeStep DEF TypeOK
    <3>5. h.command = "history_response" => h.behind <= Len(chan'[s])
      BY <1>1, <2>2, <3>3, <3>4
    <3> QED BY <1>4, <3>1, <3>3, <3>5
  <2>3. ASSUME chan' = chan, NEW f \in Frame, answer'[s] = <<f>>,
               f.command = "history_response" =>
                  /\ f.behind = Len(chan[s]) /\ messages' = messages
                  /\ f.success => \E limit \in HistoryLimits :
                        f.limit = limit /\ f.ids = HistoryPage(uid[s], limit)
        PROVE  Covers(s, h)' /\ (h.command = "history_response" => h.behind <= Len(chan'[s]))
    <3>1. h = f
      BY <1>7, <2>3
    <3>2. CASE h.command # "history_response"
      BY <1>5, <3>2
    <3>3. CASE h.command = "history_response"
      <4>1. h.behind = Len(chan[s]) /\ h.behind <= Len(chan'[s])
        BY <1>1, <2>3, <3>1, <3>3
      <4>2. CASE h.success
        <5>1. Covers(s, h)
          BY <2>3, <3>1, <3>3, <4>2, FreshPage
        <5> QED BY <1>1, <1>4, <4>1, <5>1
      <4>3. CASE ~h.success
        BY <4>1, <4>3 DEF Covers
      <4> QED BY <4>2, <4>3
    <3> QED BY <3>2, <3>3
  <2> QED BY <2>1, <2>2, <2>3, ReadyStep
<1> QED BY <1>6, <1>7

PageInv == RowsOfRequests /\ PagesCover

LEMMA PageInvStep == DeliveryInv /\ EventInv /\ PageInv /\ [Next]_vars => PageInv'
<1> SUFFICES ASSUME DeliveryInv, EventInv, PageInv, [Next]_vars
             PROVE  PageInv'
  OBVIOUS
<1>1. CASE Next
  BY <1>1, RowsStep, PagesStep DEF DeliveryInv, PageInv
<1>2. CASE UNCHANGED vars
  BY <1>2 DEF vars, store, control, wires, PageInv, RowsOfRequests, PagesCover, Covers
<1> QED BY <1>1, <1>2

LEMMA PageStart ==
    ASSUME NEW accounts, StartsOn(accounts)
    PROVE  PageInv
  BY DEF StartsOn, StartOn, PageInv, RowsOfRequests, PagesCover

LEMMA PagesHave == PageInv => HistoryCoversQueued
<1> SUFFICES ASSUME PageInv, NEW s \in Session, NEW i \in DOMAIN chan[s], NEW j \in DOMAIN chan[s],
                    chan[s][i].command = "message", chan[s][j].command = "history_response",
                    chan[s][j].success, i <= chan[s][j].behind, chan[s][i].body \in Archived
             PROVE  \/ \E r \in chan[s][j].ids : messages[r].content = chan[s][i].body
                    \/ Cardinality(chan[s][j].ids) = chan[s][j].limit
  BY DEF HistoryCoversQueued
<1>1. PICK r \in DOMAIN messages : messages[r].content = chan[s][i].body
  BY DEF Archived
<1>2. Covers(s, chan[s][j])
  BY DEF PageInv, PagesCover
<1> QED BY <1>1, <1>2 DEF Covers

\* A successful history page holds the row of every message that was on the session
\* when its rows were read, unless it was cut at the limit (db_utils.rs:211-219, ORDER
\* BY id ASC LIMIT): whatever other tasks store, mark and push in between, also
\* between the reading of the rows and the sending of the page.
THEOREM HistoryIsComplete == Spec => []HistoryCoversQueued
<1>1. Init => PageInv
  BY NewFile, PageStart
<1>2. DeliveryInv /\ EventInv /\ PageInv /\ [Next]_vars => PageInv'
  BY PageInvStep
<1> QED BY <1>1, <1>2, PagesHave, EventInvariant, PTL DEF Spec
=============================================================================
