------------------------------ MODULE ChatAppProofs ------------------------------
(***************************************************************************)
(* The streams and the application that uses them, for any number of       *)
(* streams, users, lists, pages, peers and lines.  First what StreamClient *)
(* keeps: the session table, and the lines of the streams.  Then that the  *)
(* application uses the streams only as StreamClient allows, so that what  *)
(* is proved of the streams holds in it, and that its pages follow their   *)
(* groups.  Last, the bubbles of a page against the lines accepted of it.  *)
(***************************************************************************)
EXTENDS ChatApp, SequenceFacts, SequenceTheorems

\* The table, and every sender taken from it, name streams that were opened.
TableFits ==
    /\ EntryIsLive
    /\ SoleStreamUsable
    /\ \A c \in Caller : held[c] # NoStream => pc[held[c]] # "new"
    /\ \A n \in DOMAIN accepted : pc[accepted[n]] # "new"

\* WrittenInOrder without the concatenation: what is on the wire, what is in the
\* queue, and the first before the second.
Ascending(q) == \A i, j \in DOMAIN q : i < j => q[i] < q[j]
LinesFit ==
    \A st \in Stream :
        /\ Ascending(wire[st]) /\ Ascending(queue[st])
        /\ \A x, y \in Lines : Holds(wire[st], x) /\ Holds(queue[st], y) => x < y
        /\ \A x \in Lines : Holds(wire[st], x) \/ Holds(queue[st], x) => accepted[x] = st

StreamInv == StreamTypeOK /\ TableFits /\ LinesFit /\ OkIsKept

-----------------------------------------------------------------------------
\* What a queue holds once its first element is taken, and one is appended.
LEMMA TailFacts ==
    ASSUME NEW S, NEW q \in Seq(S), q # <<>>
    PROVE  /\ Head(q) \in S /\ Tail(q) \in Seq(S)
           /\ Head(q) = q[1] /\ Len(q) \in Nat /\ Len(q) >= 1
           /\ DOMAIN q = 1..Len(q) /\ DOMAIN Tail(q) = 1..(Len(q) - 1)
           /\ \A i \in 1..(Len(q) - 1) : Tail(q)[i] = q[i + 1]
  OBVIOUS

LEMMA HoldsTail ==
    ASSUME NEW S, NEW q \in Seq(S), q # <<>>, NEW n
    PROVE  Holds(q, n) <=> n = Head(q) \/ Holds(Tail(q), n)
  <1>1. ASSUME NEW i \in DOMAIN q, q[i] = n PROVE n = Head(q) \/ Holds(Tail(q), n)
    <2>1. CASE i = 1
        BY <1>1, <2>1, TailFacts
    <2>2. CASE i # 1
      <3>1. i - 1 \in DOMAIN Tail(q) /\ Tail(q)[i - 1] = q[i]
          BY <2>2, TailFacts
      <3> QED BY <1>1, <3>1 DEF Holds
    <2> QED BY <2>1, <2>2
  <1>2. ASSUME NEW i \in DOMAIN Tail(q), Tail(q)[i] = n PROVE Holds(q, n)
    <2>1. i + 1 \in DOMAIN q /\ q[i + 1] = n
        BY <1>2, TailFacts
    <2> QED BY <2>1 DEF Holds
  <1>3. Holds(q, Head(q))
    <2>1. 1 \in DOMAIN q /\ q[1] = Head(q)
        BY TailFacts
    <2> QED BY <2>1 DEF Holds
  <1> QED BY <1>1, <1>2, <1>3 DEF Holds

LEMMA HoldsAppend ==
    ASSUME NEW S, NEW q \in Seq(S), NEW e \in S, NEW n
    PROVE  Holds(Append(q, e), n) <=> n = e \/ Holds(q, n)
  <1> DEFINE a == Append(q, e)
  <1>1. /\ Len(q) \in Nat /\ DOMAIN q = 1..Len(q) /\ DOMAIN a = 1..(Len(q) + 1)
        /\ \A i \in 1..Len(q) : a[i] = q[i]
        /\ a[Len(q) + 1] = e
      BY AppendFacts
  <1> HIDE DEF a
  <1>2. Holds(a, n) <=> n = e \/ Holds(q, n)
    <2>1. ASSUME NEW i \in DOMAIN q, q[i] = n PROVE Holds(a, n)
      <3>1. i \in DOMAIN a /\ a[i] = n
          BY <1>1, <2>1
      <3> QED BY <3>1 DEF Holds
    <2>2. Holds(a, e)
      <3>1. Len(q) + 1 \in DOMAIN a /\ a[Len(q) + 1] = e
          BY <1>1
      <3> QED BY <3>1 DEF Holds
    <2>3. ASSUME NEW i \in DOMAIN a, a[i] = n PROVE n = e \/ Holds(q, n)
      <3>1. n = e \/ (i \in DOMAIN q /\ q[i] = n)
          BY <1>1, <2>3
      <3> QED BY <3>1 DEF Holds
    <2> QED BY <2>1, <2>2, <2>3 DEF Holds
  <1> QED BY <1>2 DEF a

\* Taking the first of ascending numbers, and appending a larger one.
LEMMA AscendingTail ==
    ASSUME NEW m \in Nat, NEW q \in Seq(1..m), q # <<>>, Ascending(q)
    PROVE  /\ Ascending(Tail(q))
           /\ \A n : Holds(Tail(q), n) => Head(q) < n
  <1>1. /\ Len(q) \in Nat /\ DOMAIN q = 1..Len(q) /\ DOMAIN Tail(q) = 1..(Len(q) - 1)
        /\ \A i \in 1..(Len(q) - 1) : Tail(q)[i] = q[i + 1]
        /\ Head(q) = q[1] /\ Len(q) >= 1
      BY TailFacts
  <1>2. Ascending(Tail(q))
    <2>1. ASSUME NEW i \in DOMAIN Tail(q), NEW j \in DOMAIN Tail(q), i < j PROVE Tail(q)[i] < Tail(q)[j]
      <3>1. i + 1 \in DOMAIN q /\ j + 1 \in DOMAIN q /\ i + 1 < j + 1
          BY <1>1, <2>1
      <3>2. Tail(q)[i] = q[i + 1] /\ Tail(q)[j] = q[j + 1]
          BY <1>1, <2>1
      <3> QED BY <3>1, <3>2 DEF Ascending
    <2> QED BY <2>1 DEF Ascending
  <1>3. ASSUME NEW i \in DOMAIN Tail(q) PROVE Head(q) < Tail(q)[i]
    <2>1. 1 \in DOMAIN q /\ i + 1 \in DOMAIN q /\ 1 < i + 1 /\ Tail(q)[i] = q[i + 1]
        BY <1>1
    <2> QED BY <1>1, <2>1 DEF Ascending
  <1> QED BY <1>2, <1>3 DEF Holds

LEMMA AscendingAppend ==
    ASSUME NEW m \in Nat, NEW q \in Seq(1..m), NEW e \in 1..m, Ascending(q),
           \A n \in 1..m : Holds(q, n) => n < e
    PROVE  Ascending(Append(q, e))
  <1> DEFINE a == Append(q, e)
  <1>1. /\ Len(q) \in Nat /\ DOMAIN q = 1..Len(q) /\ DOMAIN a = 1..(Len(q) + 1)
        /\ \A i \in 1..Len(q) : a[i] = q[i]
        /\ a[Len(q) + 1] = e
      BY AppendFacts
  <1>2. \A i \in 1..Len(q) : q[i] < e
    <2> SUFFICES ASSUME NEW i \in 1..Len(q) PROVE q[i] < e
        OBVIOUS
    <2>1. q[i] \in 1..m /\ Holds(q, q[i])
        BY <1>1 DEF Holds
    <2> QED BY <2>1
  <1> HIDE DEF a
  <1>3. Ascending(a)
    <2> SUFFICES ASSUME NEW i \in DOMAIN a, NEW j \in DOMAIN a, i < j PROVE a[i] < a[j]
        BY DEF Ascending
    <2>1. i \in 1..Len(q) /\ (j \in 1..Len(q) \/ j = Len(q) + 1)
        BY <1>1
    <2> QED BY <1>1, <1>2, <2>1 DEF Ascending
  <1> QED BY <1>3 DEF a

\* Lines stay lines when one more is accepted.
LEMMA MoreLines ==
    ASSUME NEW n \in Nat, NEW q \in Seq(1..n)
    PROVE  q \in Seq(1..(n + 1))
  OBVIOUS

\* Every step keeps the shape of the variables.
LEMMA StreamTypeStep == StreamTypeOK /\ [Next]_vars => StreamTypeOK'
  <1> SUFFICES ASSUME StreamTypeOK, [Next]_vars PROVE StreamTypeOK'
      OBVIOUS
  <1> USE StreamAssumption DEF StreamTypeOK, Lines
  <1>1. ASSUME NEW st \in Stream, Open(st) PROVE StreamTypeOK'
    <2>1. pc' \in [Stream -> {"new", "running", "exiting", "gone"}]
        BY <1>1 DEF Open, Become
    <2>2. sessions' \in [User -> Stream \cup {NoStream}]
        BY <1>1 DEF Open
    <2> QED BY <1>1, <2>1, <2>2 DEF Open
  <1>2. ASSUME NEW st \in Stream, Drain(st) PROVE StreamTypeOK'
    <2>1. /\ queue[st] \in Seq(1..Len(accepted)) /\ queue[st] # <<>>
          /\ wire[st] \in Seq(1..Len(accepted))
        BY <1>2 DEF Drain
    <2>2. Head(queue[st]) \in 1..Len(accepted) /\ Tail(queue[st]) \in Seq(1..Len(accepted))
        BY <2>1, TailFacts
    <2>3. Append(wire[st], Head(queue[st])) \in Seq(1..Len(accepted))
        BY <2>1, <2>2, AppendFacts
    <2>4. queue' = [queue EXCEPT ![st] = Tail(@)] /\ accepted' = accepted
        BY <1>2 DEF Drain
    <2>5. queue' \in [Stream -> Seq(1..Len(accepted'))]
        BY <2>2, <2>4
    <2>6. wire' \in [Stream -> Seq(1..Len(accepted'))]
        BY <1>2, <2>3, <2>4 DEF Drain
    <2> QED BY <1>2, <2>5, <2>6 DEF Drain
  <1>3. ASSUME NEW st \in Stream, ReadEnds(st) PROVE StreamTypeOK'
      BY <1>3 DEF ReadEnds, Become
  <1>4. ASSUME NEW st \in Stream, Exit(st) PROVE StreamTypeOK'
      BY <1>4 DEF Exit, Become
  <1>5. ASSUME NEW c \in Caller, Enqueue(c) PROVE StreamTypeOK'
    <2> DEFINE st == held[c]
    <2>1. st \in Stream /\ Len(accepted) \in Nat /\ Len(accepted) < MaxLines
        BY <1>5 DEF Enqueue
    <2>2. CASE pc[st] = "gone"
        BY <1>5, <2>2 DEF Enqueue
    <2>3. CASE pc[st] # "gone"
      <3>1. /\ accepted' = Append(accepted, st)
            /\ queue' = [queue EXCEPT ![st] = Append(@, Len(accepted) + 1)]
            /\ held' = [held EXCEPT ![c] = NoStream]
            /\ UNCHANGED <<pc, owner, sessions, wire, broken>>
          BY <1>5, <2>3 DEF Enqueue
      <3>2. accepted' \in Seq(Stream) /\ Len(accepted') = Len(accepted) + 1
          BY <2>1, <3>1, AppendFacts
      <3>3. \A r \in Stream : /\ queue[r] \in Seq(1..(Len(accepted) + 1))
                              /\ wire[r] \in Seq(1..(Len(accepted) + 1))
          BY <2>1, MoreLines
      <3>4. Append(queue[st], Len(accepted) + 1) \in Seq(1..(Len(accepted) + 1))
          BY <2>1, <3>3, AppendFacts
      <3>5. queue' \in [Stream -> Seq(1..Len(accepted'))] /\ wire' \in [Stream -> Seq(1..Len(accepted'))]
          BY <2>1, <3>1, <3>2, <3>3, <3>4
      <3> QED BY <2>1, <3>1, <3>2, <3>5
    <2> QED BY <2>2, <2>3
  <1>6. ASSUME NEW c \in Caller, NEW u \in User, Clone(c, u) PROVE StreamTypeOK'
      BY <1>6 DEF Clone
  <1>7. CASE UNCHANGED vars
      BY <1>7 DEF vars
  <1> QED BY <1>1, <1>2, <1>3, <1>4, <1>5, <1>6, <1>7 DEF Next, Quiescent

\* Every step keeps the table right.
LEMMA TableStep == StreamTypeOK /\ TableFits /\ [Next]_vars => TableFits'
  <1> SUFFICES ASSUME StreamTypeOK, TableFits, [Next]_vars PROVE TableFits'
      OBVIOUS
  <1> USE StreamAssumption DEF StreamTypeOK, TableFits, EntryIsLive, SoleStreamUsable
  <1>1. ASSUME NEW st \in Stream, Open(st) PROVE TableFits'
    <2>1. CASE pc' = [pc EXCEPT ![st] = "gone"] /\ UNCHANGED sessions
        BY <1>1, <2>1 DEF Open
    <2>2. CASE /\ pc' = [pc EXCEPT ![st] = "running"]
               /\ sessions' = [sessions EXCEPT ![owner[st]] = st]
      <3>1. EntryIsLive'
          BY <1>1, <2>2 DEF Open
      <3>2. SoleStreamUsable'
          BY <1>1, <2>2 DEF Open
      <3> QED BY <1>1, <2>2, <3>1, <3>2 DEF Open
    <2> QED BY <1>1, <2>1, <2>2 DEF Open, Become
  <1>2. ASSUME NEW st \in Stream, Drain(st) PROVE TableFits'
      BY <1>2 DEF Drain
  <1>3. ASSUME NEW st \in Stream, ReadEnds(st) PROVE TableFits'
      BY <1>3 DEF ReadEnds, Become
  <1>4. ASSUME NEW st \in Stream, Exit(st) PROVE TableFits'
      BY <1>4 DEF Exit, Become
  <1>5. ASSUME NEW c \in Caller, Enqueue(c) PROVE TableFits'
    <2>1. UNCHANGED <<pc, owner, sessions>> /\ held' = [held EXCEPT ![c] = NoStream]
        BY <1>5 DEF Enqueue
    <2>2. \A n \in DOMAIN accepted' : accepted'[n] = held[c] \/ (n \in DOMAIN accepted /\ accepted'[n] = accepted[n])
      <3>1. held[c] \in Stream
          BY <1>5 DEF Enqueue
      <3>2. CASE UNCHANGED accepted
          BY <3>2
      <3>3. CASE accepted' = Append(accepted, held[c])
          BY <3>1, <3>3, AppendFacts
      <3> QED BY <1>5, <3>2, <3>3 DEF Enqueue
    <2>3. pc[held[c]] # "new"
        BY <1>5 DEF Enqueue
    <2>4. EntryIsLive' /\ SoleStreamUsable'
        BY <2>1
    <2>5. \A d \in Caller : held'[d] # NoStream => pc'[held'[d]] # "new"
        BY <2>1
    <2>6. \A n \in DOMAIN accepted' : pc'[accepted'[n]] # "new"
        BY <2>1, <2>2, <2>3
    <2> QED BY <2>4, <2>5, <2>6
  <1>6. ASSUME NEW c \in Caller, NEW u \in User, Clone(c, u) PROVE TableFits'
      BY <1>6 DEF Clone
  <1>7. CASE UNCHANGED vars
      BY <1>7 DEF vars
  <1> QED BY <1>1, <1>2, <1>3, <1>4, <1>5, <1>6, <1>7 DEF Next, Quiescent

\* Every step keeps the lines in order.
LEMMA LinesStep == StreamTypeOK /\ LinesFit /\ [Next]_vars => LinesFit'
  <1> SUFFICES ASSUME StreamTypeOK, LinesFit, [Next]_vars PROVE LinesFit'
      OBVIOUS
  <1> DEFINE m == Len(accepted)
  <1>0. /\ m \in Nat /\ Lines = 1..m
        /\ \A st \in Stream : queue[st] \in Seq(1..m) /\ wire[st] \in Seq(1..m)
      BY StreamAssumption DEF StreamTypeOK, Lines
  <1>1. CASE UNCHANGED <<wire, queue, accepted>>
      BY <1>1 DEF LinesFit, Ascending, Holds, Lines
  <1>2. ASSUME NEW st \in Stream, Drain(st) PROVE LinesFit'
    <2> DEFINE w == wire[st]  q == queue[st]
    <2>1. /\ queue' = [queue EXCEPT ![st] = Tail(q)] /\ q # <<>>
          /\ UNCHANGED accepted /\ Lines' = Lines
        BY <1>2 DEF Drain, Lines
    <2>2. /\ Head(q) \in Lines /\ Holds(q, Head(q))
          /\ \A n : Holds(Tail(q), n) => Holds(q, n)
        BY <1>0, <2>1, TailFacts, HoldsTail
    <2>3. Ascending(w) /\ Ascending(q)
        BY DEF LinesFit
    <2>4. Ascending(Tail(q)) /\ \A n : Holds(Tail(q), n) => Head(q) < n
        BY <1>0, <2>1, <2>3, AscendingTail
    <2>5. queue'[st] = Tail(q) /\ \A r \in Stream \ {st} : queue'[r] = queue[r]
        BY <2>1 DEF StreamTypeOK
    <2>6. CASE UNCHANGED wire
        BY <2>1, <2>2, <2>4, <2>5, <2>6 DEF LinesFit
    <2>7. CASE wire' = [wire EXCEPT ![st] = Append(w, Head(q))]
      <3>1. \A n : Holds(Append(w, Head(q)), n) <=> n = Head(q) \/ Holds(w, n)
          BY <1>0, <2>2, HoldsAppend
      <3>2. Ascending(Append(w, Head(q)))
        <4>1. \A n \in 1..m : Holds(w, n) => n < Head(q)
            BY <1>0, <2>2 DEF LinesFit
        <4> QED BY <1>0, <2>2, <2>3, <4>1, AscendingAppend
      <3>3. /\ wire'[st] = Append(w, Head(q))
            /\ \A r \in Stream \ {st} : wire'[r] = wire[r]
          BY <2>7 DEF StreamTypeOK
      <3> HIDE DEF q, w
      <3> SUFFICES ASSUME NEW r \in Stream
                   PROVE  /\ Ascending(wire'[r]) /\ Ascending(queue'[r])
                          /\ \A x, y \in Lines : Holds(wire'[r], x) /\ Holds(queue'[r], y) => x < y
                          /\ \A x \in Lines : Holds(wire'[r], x) \/ Holds(queue'[r], x) => accepted[x] = r
          BY <2>1 DEF LinesFit
      <3>4. CASE r # st
          BY <2>5, <3>3, <3>4 DEF LinesFit
      <3>5. CASE r = st
        <4>1. /\ \A x, y \in Lines : Holds(w, x) /\ Holds(q, y) => x < y
              /\ \A x \in Lines : Holds(w, x) \/ Holds(q, x) => accepted[x] = st
            BY DEF LinesFit, w, q
        <4>2. \A x, y \in Lines : Holds(wire'[r], x) /\ Holds(queue'[r], y) => x < y
            BY <2>2, <2>4, <2>5, <3>1, <3>3, <3>5, <4>1
        <4>3. \A x \in Lines : Holds(wire'[r], x) \/ Holds(queue'[r], x) => accepted[x] = r
            BY <2>2, <2>5, <3>1, <3>3, <3>5, <4>1
        <4> QED BY <2>4, <2>5, <3>2, <3>3, <3>5, <4>2, <4>3
      <3> QED BY <3>4, <3>5
    <2> QED BY <1>2, <2>6, <2>7 DEF Drain
  <1>3. ASSUME NEW st \in Stream, Exit(st) PROVE LinesFit'
    <2>1. /\ UNCHANGED <<wire, accepted>> /\ Lines' = Lines
          /\ queue'[st] = <<>> /\ \A r \in Stream \ {st} : queue'[r] = queue[r]
        BY <1>3 DEF Exit, StreamTypeOK, Lines
    <2>2. Ascending(<<>>) /\ \A n : ~Holds(<<>>, n)
        BY DEF Ascending, Holds
    <2> QED BY <2>1, <2>2 DEF LinesFit
  <1>4. ASSUME NEW c \in Caller, Enqueue(c) PROVE LinesFit'
    <2> DEFINE st == held[c]  q == queue[st]  a == Append(q, m + 1)
    <2>1. st \in Stream
        BY <1>4 DEF Enqueue, StreamTypeOK
    <2>2. CASE UNCHANGED <<wire, queue, accepted>>
        BY <1>1, <2>2
    <2>3. CASE /\ accepted' = Append(accepted, st) /\ wire' = wire
               /\ queue' = [queue EXCEPT ![st] = a]
      <3>1. /\ \A n \in Lines : accepted'[n] = accepted[n]
            /\ accepted'[m + 1] = st /\ Lines' = 1..(m + 1)
          BY <1>0, <2>1, <2>3, AppendFacts DEF StreamTypeOK, Lines
      <3>2. \A r \in Stream : \A n : Holds(wire[r], n) \/ Holds(queue[r], n) => n \in Lines
          BY <1>0 DEF Holds
      <3>3. q \in Seq(1..(m + 1)) /\ m + 1 \in 1..(m + 1)
          BY <1>0, <2>1, MoreLines
      <3>4. \A n : Holds(a, n) <=> n = m + 1 \/ Holds(q, n)
          BY <3>3, HoldsAppend
      <3>5. Ascending(a)
        <4>0. \A n : Holds(q, n) => n \in 1..m
            BY <1>0, <2>1, <3>2
        <4>1. \A n \in 1..(m + 1) : Holds(q, n) => n < m + 1
            BY <1>0, <4>0
        <4>2. Ascending(q) /\ m + 1 \in Nat
            BY <1>0, <2>1 DEF LinesFit
        <4> QED BY <3>3, <4>1, <4>2, AscendingAppend
      <3>6. queue'[st] = a /\ \A r \in Stream \ {st} : queue'[r] = queue[r]
          BY <2>1, <2>3 DEF StreamTypeOK
      <3> HIDE DEF a, q, st
      <3>7. \A x \in Lines : x < m + 1
          BY <1>0
      <3> SUFFICES ASSUME NEW r \in Stream
                   PROVE  /\ Ascending(wire[r]) /\ Ascending(queue'[r])
                          /\ \A x, y \in Lines' : Holds(wire[r], x) /\ Holds(queue'[r], y) => x < y
                          /\ \A x \in Lines' : Holds(wire[r], x) \/ Holds(queue'[r], x) => accepted'[x] = r
          BY <2>3 DEF LinesFit
      <3>8. CASE r # st
          BY <3>1, <3>2, <3>6, <3>8 DEF LinesFit
      <3>9. CASE r = st
        <4>1. /\ \A n : Holds(queue'[r], n) <=> n = m + 1 \/ Holds(queue[r], n)
              /\ Ascending(queue'[r]) /\ Ascending(wire[r])
            BY <3>4, <3>5, <3>6, <3>9 DEF q, LinesFit
        <4>2. \A x, y \in Lines' : Holds(wire[r], x) /\ Holds(queue'[r], y) => x < y
            BY <3>2, <3>7, <4>1 DEF LinesFit
        <4>3. \A x \in Lines' : Holds(wire[r], x) \/ Holds(queue'[r], x) => accepted'[x] = r
            BY <3>1, <3>2, <3>9, <4>1 DEF LinesFit
        <4> QED BY <4>1, <4>2, <4>3
      <3> QED BY <3>8, <3>9
    <2> QED BY <1>4, <2>2, <2>3 DEF Enqueue
  <1> QED BY <1>1, <1>2, <1>3, <1>4 DEF Next, Quiescent, vars, Open, ReadEnds, Clone

\* Every step keeps what was answered Ok.
LEMMA KeptStep == StreamTypeOK /\ TableFits /\ OkIsKept /\ [Next]_vars => OkIsKept'
  <1> SUFFICES ASSUME StreamTypeOK, TableFits, OkIsKept, [Next]_vars PROVE OkIsKept'
      OBVIOUS
  <1>0. /\ Len(accepted) \in Nat /\ DOMAIN accepted = Lines
        /\ \A st \in Stream : queue[st] \in Seq(Lines) /\ wire[st] \in Seq(Lines)
        /\ \A n \in Lines : accepted[n] \in Stream
      BY StreamAssumption, DomainFacts DEF StreamTypeOK, Lines
  <1>1. CASE UNCHANGED <<pc, wire, queue, accepted, broken>>
      BY <1>1 DEF OkIsKept, Holds, Lines
  <1>2. ASSUME NEW st \in Stream, Open(st) PROVE OkIsKept'
    <2>1. pc[st] = "new" /\ UNCHANGED <<wire, queue, accepted, broken>>
          /\ \A r \in Stream \ {st} : pc'[r] = pc[r]
        BY <1>2 DEF Open, Become, StreamTypeOK
    <2>2. \A n \in Lines : accepted[n] # st
        BY <1>0, <2>1 DEF TableFits
    <2> QED BY <1>0, <2>1, <2>2 DEF OkIsKept, Holds, Lines
  <1>3. ASSUME NEW st \in Stream, Drain(st) PROVE OkIsKept'
    <2> DEFINE w == wire[st]  q == queue[st]
    <2>1. /\ queue' = [queue EXCEPT ![st] = Tail(q)] /\ q # <<>>
          /\ UNCHANGED <<accepted, pc>> /\ Lines' = Lines
        BY <1>3 DEF Drain, Lines
    <2>2. CASE /\ wire' = [wire EXCEPT ![st] = Append(w, Head(q))] /\ UNCHANGED broken
      <3>1. \A n : Holds(q, n) <=> n = Head(q) \/ Holds(Tail(q), n)
          BY <1>0, <2>1, HoldsTail
      <3>2. \A n : Holds(Append(w, Head(q)), n) <=> n = Head(q) \/ Holds(w, n)
          BY <1>0, <2>1, TailFacts, HoldsAppend
      <3>3. /\ wire'[st] = Append(w, Head(q)) /\ queue'[st] = Tail(q)
            /\ \A r \in Stream \ {st} : wire'[r] = wire[r] /\ queue'[r] = queue[r]
          BY <2>1, <2>2 DEF StreamTypeOK
      <3> SUFFICES ASSUME NEW n \in Lines, pc[accepted[n]] = "running", ~broken[accepted[n]]
                   PROVE  Holds(wire'[accepted[n]], n) \/ Holds(queue'[accepted[n]], n)
          BY <2>1, <2>2 DEF OkIsKept
      <3>4. Holds(wire[accepted[n]], n) \/ Holds(queue[accepted[n]], n)
          BY DEF OkIsKept
      <3>5. CASE accepted[n] = st
          BY <3>1, <3>2, <3>3, <3>4, <3>5
      <3>6. CASE accepted[n] # st
          BY <1>0, <3>3, <3>4, <3>6
      <3> QED BY <3>5, <3>6
    <2>3. CASE broken' = [broken EXCEPT ![st] = TRUE] /\ UNCHANGED wire
      <3>1. /\ broken'[st] /\ \A r \in Stream \ {st} : queue'[r] = queue[r] /\ broken'[r] = broken[r]
          BY <2>1, <2>3 DEF StreamTypeOK
      <3>2. \A n \in Lines : accepted[n] \in Stream
          BY <1>0
      <3> QED BY <2>1, <2>3, <3>1, <3>2 DEF OkIsKept
    <2> QED BY <1>3, <2>2, <2>3 DEF Drain
  <1>4. ASSUME NEW st \in Stream, ReadEnds(st) \/ Exit(st) PROVE OkIsKept'
    <2>1. /\ pc'[st] # "running" /\ UNCHANGED <<wire, accepted, broken>> /\ Lines' = Lines
          /\ \A r \in Stream \ {st} : pc'[r] = pc[r] /\ queue'[r] = queue[r]
        BY <1>4 DEF ReadEnds, Exit, Become, StreamTypeOK, Lines
    <2> QED BY <1>0, <2>1 DEF OkIsKept
  <1>5. ASSUME NEW c \in Caller, Enqueue(c) PROVE OkIsKept'
    <2> DEFINE st == held[c]  q == queue[st]  m == Len(accepted) + 1
    <2>1. st \in Stream
        BY <1>5 DEF Enqueue, StreamTypeOK
    <2>2. CASE UNCHANGED <<queue, accepted>>
        BY <1>1, <1>5, <2>2 DEF Enqueue
    <2>3. CASE /\ accepted' = Append(accepted, st) /\ UNCHANGED <<pc, wire, broken>>
               /\ queue' = [queue EXCEPT ![st] = Append(q, m)]
      <3>1. /\ Lines' = Lines \cup {m} /\ accepted'[m] = st
            /\ \A n \in Lines : accepted'[n] = accepted[n]
          BY <1>0, <2>1, <2>3, AppendFacts DEF StreamTypeOK, Lines
      <3>2. \A n : Holds(Append(q, m), n) <=> n = m \/ Holds(q, n)
        <4>1. q \in Seq(1..m) /\ m \in 1..m
            BY <1>0, <2>1, MoreLines DEF Lines
        <4> QED BY <4>1, HoldsAppend
      <3>3. Holds(Append(q, m), m)
          BY <3>2
      <3>4. queue'[st] = Append(q, m) /\ \A r \in Stream \ {st} : queue'[r] = queue[r]
          BY <2>1, <2>3 DEF StreamTypeOK
      <3> SUFFICES ASSUME NEW n \in Lines', pc[accepted'[n]] = "running", ~broken[accepted'[n]]
                   PROVE  Holds(wire[accepted'[n]], n) \/ Holds(queue'[accepted'[n]], n)
          BY <2>3 DEF OkIsKept
      <3>5. CASE n = m
          BY <3>1, <3>3, <3>4, <3>5
      <3>6. CASE n \in Lines
        <4>1. Holds(wire[accepted[n]], n) \/ Holds(queue[accepted[n]], n)
            BY <3>1, <3>6 DEF OkIsKept
        <4>2. accepted'[n] = accepted[n] /\ accepted[n] \in Stream
            BY <1>0, <3>1, <3>6
        <4>3. CASE accepted[n] = st
            BY <3>2, <3>4, <4>1, <4>2, <4>3
        <4>4. CASE accepted[n] # st
            BY <3>4, <4>1, <4>2, <4>4
        <4> QED BY <4>3, <4>4
      <3> QED BY <3>1, <3>5, <3>6
    <2> QED BY <1>5, <2>2, <2>3 DEF Enqueue
  <1> QED BY <1>1, <1>2, <1>3, <1>4, <1>5 DEF Next, Quiescent, vars, Clone

-----------------------------------------------------------------------------
LEMMA StreamInit == Init => StreamInv
  <1> SUFFICES ASSUME Init PROVE StreamInv
      OBVIOUS
  <1> USE StreamAssumption DEF Init
  <1>1. StreamTypeOK
      BY DEF StreamTypeOK, Lines
  <1>2. TableFits
      BY DEF TableFits, EntryIsLive, SoleStreamUsable
  <1>3. LinesFit
      BY DEF LinesFit, Ascending, Holds
  <1>4. OkIsKept
      BY DEF OkIsKept, Lines
  <1> QED BY <1>1, <1>2, <1>3, <1>4 DEF StreamInv

\* The invariant holds in every behaviour.
LEMMA StreamInvariant == Spec => []StreamInv
  <1>1. StreamInv /\ [Next]_vars => StreamInv'
      BY StreamTypeStep, TableStep, LinesStep, KeptStep DEF StreamInv
  <1> QED BY <1>1, StreamInit, PTL DEF Spec

\* Type correctness of the streams, for every value of the constants.
THEOREM StreamTyping == Spec => []StreamTypeOK
  <1>1. StreamInv => StreamTypeOK
      BY DEF StreamInv
  <1> QED BY <1>1, StreamInvariant, PTL

\* SESSIONS names running threads of the right user, whatever is opened, replaced
\* and removed (api.rs:350-429).
THEOREM TableIsRight == Spec => []EntryIsLive
  <1>1. StreamInv => EntryIsLive
      BY DEF StreamInv, TableFits
  <1> QED BY <1>1, StreamInvariant, PTL

\* The only stream a user ever opened is the one SESSIONS names while it runs, so
\* it can be sent on (api.rs:373-378, 417-427).
THEOREM SoleStreamIsNamed == Spec => []SoleStreamUsable
  <1>1. StreamInv => SoleStreamUsable
      BY DEF StreamInv, TableFits
  <1> QED BY <1>1, StreamInvariant, PTL

\* A stream writes the lines accepted for it in their order (api.rs:388-391).
THEOREM LinesAreInOrder == Spec => []WrittenInOrder
  <1>1. StreamInv => WrittenInOrder
    <2> SUFFICES ASSUME StreamInv, NEW st \in Stream
                 PROVE  LET all == wire[st] \o queue[st] IN
                        /\ \A i, j \in DOMAIN all : i < j => all[i] < all[j]
                        /\ \A i \in DOMAIN all : accepted[all[i]] = st
        BY DEF WrittenInOrder
    <2> DEFINE w == wire[st]  q == queue[st]
    <2>1. w \in Seq(Lines) /\ q \in Seq(Lines)
        BY DEF StreamInv, StreamTypeOK
    <2>2. /\ Len(w) \in Nat /\ Len(q) \in Nat /\ DOMAIN w = 1..Len(w) /\ DOMAIN q = 1..Len(q)
          /\ \A i \in DOMAIN w : w[i] \in Lines /\ Holds(w, w[i])
          /\ \A i \in DOMAIN q : q[i] \in Lines /\ Holds(q, q[i])
        BY <2>1, DomainFacts DEF Holds
    <2>3. /\ DOMAIN (w \o q) = 1..(Len(w) + Len(q))
          /\ \A i \in 1..(Len(w) + Len(q)) :
                (w \o q)[i] = IF i <= Len(w) THEN w[i] ELSE q[i - Len(w)]
        BY <2>1, ConcatFacts
    <2>4. /\ Ascending(w) /\ Ascending(q)
          /\ \A i \in DOMAIN w, j \in DOMAIN q : w[i] < q[j]
          /\ \A i \in DOMAIN w : accepted[w[i]] = st
          /\ \A j \in DOMAIN q : accepted[q[j]] = st
        BY <2>2 DEF StreamInv, LinesFit
    <2> DEFINE all == w \o q
    <2> HIDE DEF all, w, q
    <2>5. ASSUME NEW i \in DOMAIN all, NEW j \in DOMAIN all, i < j PROVE all[i] < all[j]
      <3>1. CASE j <= Len(w)
          BY <2>2, <2>3, <2>4, <2>5, <3>1 DEF Ascending, all
      <3>2. CASE Len(w) < i
        <4>1. /\ i - Len(w) \in DOMAIN q /\ j - Len(w) \in DOMAIN q /\ i - Len(w) < j - Len(w)
              /\ all[i] = q[i - Len(w)] /\ all[j] = q[j - Len(w)]
            BY <2>2, <2>3, <2>5, <3>2 DEF all
        <4> QED BY <2>4, <4>1 DEF Ascending
      <3>3. CASE i <= Len(w) /\ Len(w) < j
        <4>1. i \in DOMAIN w /\ j - Len(w) \in DOMAIN q /\ all[i] = w[i] /\ all[j] = q[j - Len(w)]
            BY <2>2, <2>3, <2>5, <3>3 DEF all
        <4> QED BY <2>4, <4>1
      <3> QED BY <2>2, <2>3, <2>5, <3>1, <3>2, <3>3 DEF all
    <2>6. ASSUME NEW i \in DOMAIN all PROVE accepted[all[i]] = st
      <3>1. \/ i \in DOMAIN w /\ all[i] = w[i]
            \/ i - Len(w) \in DOMAIN q /\ all[i] = q[i - Len(w)]
          BY <2>2, <2>3, <2>6 DEF all
      <3> QED BY <2>4, <3>1
    <2> QED BY <2>5, <2>6 DEF all, w, q
  <1> QED BY <1>1, StreamInvariant, PTL

\* No line answered with Ok is missing while its stream runs and its connection
\* takes writes (api.rs:388-391, 461-463).
THEOREM OkStays == Spec => []OkIsKept
  <1>1. StreamInv => OkIsKept
      BY DEF StreamInv
  <1> QED BY <1>1, StreamInvariant, PTL

-----------------------------------------------------------------------------
(* The application.                                                        *)

Chat == [list : Lists, peer : Peer, grouped : BOOLEAN]

\* The shapes of what the two results need.
AppTypes ==
    /\ owner \in [Stream -> User]
    /\ list \in [Stream -> {"none", "shown", "disposed"}]
    /\ groups \in [Stream -> [Peer -> Seq(Nat)]]
    /\ events \in [Stream -> Seq([from : Peer, id : Nat])]
    /\ arrived \in Nat
    /\ page \in [Caller -> {"none", "open", "closed"}]
    /\ \A c \in Caller : page[c] # "none" => chat[c] \in Chat
    /\ DOMAIN chat = Caller
    /\ shown \in [Caller -> Seq(Nat)] /\ inbox \in [Caller -> Seq(Nat)]
    /\ sending \in [Caller -> {"idle", "calling", "pausing"}]
    /\ \A c \in Caller : sending[c] # "idle" => page[c] # "none"

\* A page lies above the list it was opened from.
AboveItsList == \A c \in Caller : page[c] = "open" => list[chat[c].list] = "shown"

\* What a page has been told, and what it may have been told of a group.
Told(c) == shown[c] \o inbox[c]
Follows(told, g, grouped) ==
    told = g \/ (~grouped /\ \E k \in 0..Len(g) : told = SubSeq(g, k + 1, Len(g)))
Idle == \A c \in Caller : page[c] # "open" => inbox[c] = <<>>

AppInv == AppTypes /\ AboveItsList /\ Idle /\ PageFollowsGroup

-----------------------------------------------------------------------------
\* Sequences: what is moved from the front of q to the end of p, what is appended
\* to a concatenation, and to a suffix.
LEMMA MoveFacts ==
    ASSUME NEW S, NEW p \in Seq(S), NEW q \in Seq(S), q # <<>>
    PROVE  Append(p, Head(q)) \o Tail(q) = p \o q
  OBVIOUS

LEMMA AppendToConcat ==
    ASSUME NEW S, NEW p \in Seq(S), NEW q \in Seq(S), NEW e \in S
    PROVE  p \o Append(q, e) = Append(p \o q, e)
  OBVIOUS

LEMMA AppendToSuffix ==
    \A S : \A g \in Seq(S) : \A e \in S : \A k \in 0..Len(g) :
        /\ k \in 0..Len(Append(g, e))
        /\ SubSeq(Append(g, e), k + 1, Len(Append(g, e))) = Append(SubSeq(g, k + 1, Len(g)), e)
  <1> SUFFICES ASSUME NEW S, NEW g \in Seq(S), NEW e \in S, NEW k \in 0..Len(g)
               PROVE  /\ k \in 0..Len(Append(g, e))
                      /\ SubSeq(Append(g, e), k + 1, Len(Append(g, e)))
                           = Append(SubSeq(g, k + 1, Len(g)), e)
      OBVIOUS
  <1> DEFINE n == Len(g)  h == Append(g, e)  s == SubSeq(g, k + 1, n)  t == SubSeq(h, k + 1, n + 1)
             u == Append(s, e)
  <1>1. /\ n \in Nat /\ k \in Int /\ 0 <= k /\ k <= n /\ h \in Seq(S) /\ Len(h) = n + 1
        /\ \A i \in 1..n : h[i] = g[i] /\ g[i] \in S
        /\ h[n + 1] = e
      BY AppendFacts
  <1>2. /\ s \in Seq(S) /\ Len(s) = n - k
        /\ \A i \in 1..(n - k) : s[i] = g[k + i]
    <2>1. \A i \in (k + 1)..n : g[i] \in S
        BY <1>1
    <2> HIDE DEF n
    <2>2. /\ SubSeq(g, k + 1, n) \in Seq(S)
          /\ Len(SubSeq(g, k + 1, n)) = IF k + 1 <= n THEN n - (k + 1) + 1 ELSE 0
          /\ \A i \in 1..(n - (k + 1) + 1) : SubSeq(g, k + 1, n)[i] = g[(k + 1) + i - 1]
        BY <1>1, <2>1, SubSeqProperties
    <2> QED BY <1>1, <2>2
  <1>3. /\ t \in Seq(S) /\ Len(t) = n - k + 1
        /\ \A i \in 1..(n - k + 1) : t[i] = h[k + i]
    <2>1. \A i \in (k + 1)..(n + 1) : h[i] \in S
        BY <1>1
    <2> HIDE DEF n, h
    <2>2. /\ SubSeq(h, k + 1, n + 1) \in Seq(S)
          /\ Len(SubSeq(h, k + 1, n + 1)) = IF k + 1 <= n + 1 THEN (n + 1) - (k + 1) + 1 ELSE 0
          /\ \A i \in 1..((n + 1) - (k + 1) + 1) : SubSeq(h, k + 1, n + 1)[i] = h[(k + 1) + i - 1]
        BY <1>1, <2>1, SubSeqProperties
    <2> QED BY <1>1, <2>2
  <1> HIDE DEF s, t, h, n
  <1>4. /\ u \in Seq(S) /\ Len(u) = n - k + 1
        /\ \A i \in 1..(n - k) : u[i] = s[i]
        /\ u[n - k + 1] = e
      BY <1>2, AppendFacts
  <1> HIDE DEF u
  <1>5. t = u
    <2>1. ASSUME NEW i \in 1..Len(t) PROVE t[i] = u[i]
      <3>1. i \in 1..(n - k + 1) /\ t[i] = h[k + i]
          BY <1>3
      <3>2. CASE i \in 1..(n - k)
        <4>1. k + i \in 1..n
            BY <1>1, <3>2
        <4> QED BY <1>1, <1>2, <1>4, <3>1, <3>2, <4>1
      <3>3. CASE i = n - k + 1
          BY <1>1, <1>4, <3>1, <3>3
      <3> QED BY <1>1, <3>1, <3>2, <3>3
    <2> QED BY <1>3, <1>4, <2>1, SeqEqual
  <1>6. SubSeq(h, k + 1, Len(h)) = Append(s, e)
      BY <1>1, <1>5 DEF t, u
  <1>7. k \in 0..Len(h)
      BY <1>1
  <1> QED BY <1>2, <1>6, <1>7 DEF s, h, n

LEMMA EmptySuffix ==
    ASSUME NEW S, NEW g \in Seq(S)
    PROVE  /\ Len(g) \in 0..Len(g) /\ SubSeq(g, Len(g) + 1, Len(g)) = <<>>
           /\ g \o <<>> = g
  OBVIOUS

LEMMA ConcatsOfNat ==
    \A p, q \in Seq(Nat) : \A e \in Nat : p \o Append(q, e) = Append(p \o q, e)
  <1> TAKE p, q \in Seq(Nat)
  <1> TAKE e \in Nat
  <1> QED BY AppendToConcat

\* What a page and its group both get next keeps them together.
LEMMA FollowsOn ==
    ASSUME NEW g \in Seq(Nat), NEW told \in Seq(Nat), NEW e \in Nat, NEW grouped,
           Follows(told, g, grouped)
    PROVE  Follows(Append(told, e), Append(g, e), grouped)
  <1>1. CASE told = g
      BY <1>1 DEF Follows
  <1>2. CASE ~grouped /\ \E k \in 0..Len(g) : told = SubSeq(g, k + 1, Len(g))
    <2>1. PICK k \in 0..Len(g) : told = SubSeq(g, k + 1, Len(g))
        BY <1>2
    <2>2. /\ k \in 0..Len(Append(g, e))
          /\ SubSeq(Append(g, e), k + 1, Len(Append(g, e))) = Append(told, e)
      <3>1. /\ k \in 0..Len(Append(g, e))
            /\ SubSeq(Append(g, e), k + 1, Len(Append(g, e))) = Append(SubSeq(g, k + 1, Len(g)), e)
        <4>1. \A x \in Nat : \A n \in 0..Len(g) :
                 /\ n \in 0..Len(Append(g, x))
                 /\ SubSeq(Append(g, x), n + 1, Len(Append(g, x))) = Append(SubSeq(g, n + 1, Len(g)), x)
            BY AppendToSuffix, Zenon
        <4> QED BY <2>1, <4>1, Zenon
      <3> QED BY <2>1, <3>1, Zenon
    <2> QED BY <1>2, <2>2 DEF Follows
  <1> QED BY <1>1, <1>2 DEF Follows

-----------------------------------------------------------------------------
\* A step of the application is a step of the streams, or changes nothing of them.
LEMMA AppStepsAreStreamSteps == AppTypes /\ [AppNext]_appVars => [Next]_vars
  <1> SUFFICES ASSUME AppTypes, [AppNext]_appVars PROVE [Next]_vars
      OBVIOUS
  <1>1. ASSUME NEW st \in Stream, SdkStep(st) PROVE Next
      BY <1>1 DEF SdkStep, Next
  <1>2. ASSUME NEW c \in Caller, AskEntry(c) PROVE Next \/ UNCHANGED vars
    <2>1. chat[c] \in Chat
        BY <1>2 DEF AskEntry, AppTypes
    <2>2. owner[chat[c].list] \in User
        BY <2>1, ListAssumption DEF Chat, AppTypes
    <2>3. Clone(c, owner[chat[c].list]) \/ UNCHANGED vars
        BY <1>2 DEF AskEntry
    <2> QED BY <2>2, <2>3 DEF Next
  <1>3. ASSUME NEW c \in Caller, Submit(c) PROVE Next
      BY <1>3 DEF Submit, Next
  <1>4. ASSUME NEW st \in Stream, ShowList(st) \/ Receive(st) \/ Listen(st) \/ DisposeList(st)
        PROVE  UNCHANGED vars
      BY <1>4 DEF ShowList, Receive, Listen, DisposeList
  <1>5. ASSUME NEW c \in Caller, OpenPage(c) \/ ClosePage(c) \/ Send(c) \/ Hear(c) \/ Resume(c) \/ Settle(c)
        PROVE  UNCHANGED vars
      BY <1>5 DEF OpenPage, ClosePage, Send, Hear, Resume, Settle
  <1>6. CASE UNCHANGED appVars
      BY <1>6 DEF appVars
  <1> QED BY <1>1, <1>2, <1>3, <1>4, <1>5, <1>6 DEF AppNext, CallStep, AtRest

\* Every step keeps the shapes, and pages above the lists they were opened from.
LEMMA AppTypesStep ==
    AppTypes /\ AboveItsList /\ Idle /\ [AppNext]_appVars => AppTypes' /\ AboveItsList' /\ Idle'
  <1> SUFFICES ASSUME AppTypes, AboveItsList, Idle, [AppNext]_appVars
               PROVE  AppTypes' /\ AboveItsList' /\ Idle'
      OBVIOUS
  <1> USE ListAssumption DEF AppTypes, AboveItsList, Idle, Chat
  <1>1. ASSUME NEW st \in Stream, SdkStep(st), UNCHANGED <<listVars, pageVars, sendVars>>
        PROVE  AppTypes' /\ AboveItsList' /\ Idle'
    <2>1. UNCHANGED owner
        BY <1>1 DEF SdkStep, Open, Drain, ReadEnds, Exit
    <2> QED BY <1>1, <2>1 DEF listVars, pageVars, sendVars
  <1>2. ASSUME NEW st \in Stream, ShowList(st) PROVE AppTypes' /\ AboveItsList' /\ Idle'
    <2>1. PICK some \in SUBSET Peer :
             groups' = [groups EXCEPT ![st] = [q \in Peer |-> IF q \in some THEN <<0>> ELSE <<>>]]
        BY <1>2 DEF ShowList
    <2>2. <<0>> \in Seq(Nat) /\ <<>> \in Seq(Nat)
        OBVIOUS
    <2>3. groups' \in [Stream -> [Peer -> Seq(Nat)]]
      <3> DEFINE g == [q \in Peer |-> IF q \in some THEN <<0>> ELSE <<>>]
      <3>1. g \in [Peer -> Seq(Nat)]
          BY <2>2
      <3> HIDE DEF g
      <3> QED BY <2>1, <3>1 DEF g
    <2> QED BY <1>2, <2>3 DEF ShowList, vars, pageVars, sendVars
  <1>3. ASSUME NEW st \in Stream, Receive(st) PROVE AppTypes' /\ AboveItsList' /\ Idle'
    <2>1. PICK q \in Peer : events' = IF list[st] = "shown"
             THEN [events EXCEPT ![st] = Append(@, [from |-> q, id |-> arrived + 1])] ELSE events
        BY <1>3 DEF Receive
    <2>2. events' \in [Stream -> Seq([from : Peer, id : Nat])]
      <3>1. [from |-> q, id |-> arrived + 1] \in [from : Peer, id : Nat]
          OBVIOUS
      <3>2. Append(events[st], [from |-> q, id |-> arrived + 1]) \in Seq([from : Peer, id : Nat])
          BY <3>1, AppendFacts
      <3> QED BY <2>1, <3>2
    <2>3. arrived' \in Nat
        BY <1>3 DEF Receive
    <2> QED BY <1>3, <2>2, <2>3 DEF Receive, vars, pageVars, sendVars
  <1>4. ASSUME NEW st \in Stream, Listen(st) PROVE AppTypes' /\ AboveItsList' /\ Idle'
    <2> DEFINE m == Head(events[st])
    <2>1. m \in [from : Peer, id : Nat] /\ Tail(events[st]) \in Seq([from : Peer, id : Nat])
        BY <1>4, TailFacts DEF Listen
    <2>2. events' \in [Stream -> Seq([from : Peer, id : Nat])]
        BY <1>4, <2>1 DEF Listen
    <2>3. groups' \in [Stream -> [Peer -> Seq(Nat)]]
      <3>1. Append(groups[st][m.from], m.id) \in Seq(Nat)
          BY <2>1, AppendFacts
      <3>2. groups' = [groups EXCEPT ![st] =
                          [groups[st] EXCEPT ![m.from] = Append(groups[st][m.from], m.id)]]
          BY <1>4 DEF Listen
      <3> HIDE DEF m
      <3>3. [groups[st] EXCEPT ![m.from] = Append(groups[st][m.from], m.id)] \in [Peer -> Seq(Nat)]
          BY <2>1, <3>1
      <3> QED BY <3>2, <3>3
    <2>4. inbox' \in [Caller -> Seq(Nat)]
      <3>1. \A c \in Caller : Append(inbox[c], m.id) \in Seq(Nat)
          BY <2>1, AppendFacts
      <3>2. inbox' = [c \in Caller |-> IF c \in Listening(st) /\ chat[c].peer = m.from
                                         THEN Append(inbox[c], m.id) ELSE inbox[c]]
          BY <1>4 DEF Listen
      <3> HIDE DEF m
      <3> QED BY <3>1, <3>2
    <2>5. \A c \in Caller : page[c] # "open" => inbox'[c] = <<>>
        BY <1>4 DEF Listen, Listening
    <2> QED BY <1>4, <2>2, <2>3, <2>4, <2>5 DEF Listen, vars, sendVars
  <1>5. ASSUME NEW st \in Stream, DisposeList(st) PROVE AppTypes' /\ AboveItsList' /\ Idle'
    <2>1. groups' \in [Stream -> [Peer -> Seq(Nat)]]
      <3>1. Empty \in [Peer -> Seq(Nat)]
          BY DEF Empty
      <3> QED BY <1>5, <3>1 DEF DisposeList
    <2>2. events' \in [Stream -> Seq([from : Peer, id : Nat])]
      <3>1. events' = [events EXCEPT ![st] = <<>>] /\ <<>> \in Seq([from : Peer, id : Nat])
          BY <1>5 DEF DisposeList
      <3> QED BY <3>1
    <2>3. AboveItsList'
        BY <1>5 DEF DisposeList, Listening, pageVars
    <2> QED BY <1>5, <2>1, <2>2, <2>3 DEF DisposeList, vars, pageVars, sendVars
  <1>6. ASSUME NEW c \in Caller, OpenPage(c) PROVE AppTypes' /\ AboveItsList' /\ Idle'
    <2>1. PICK st \in Lists, q \in Peer, grouped \in BOOLEAN :
             /\ list[st] = "shown" /\ (grouped => groups[st][q] # <<>>)
             /\ chat' = [chat EXCEPT ![c] = [list |-> st, peer |-> q, grouped |-> grouped]]
             /\ shown' = [shown EXCEPT ![c] = IF grouped THEN groups[st][q] ELSE <<>>]
        BY <1>6, Zenon DEF OpenPage
    <2>2. shown' \in [Caller -> Seq(Nat)]
        BY <2>1
    <2>3. chat'[c] = [list |-> st, peer |-> q, grouped |-> grouped] /\ chat'[c] \in Chat
          /\ \A d \in Caller \ {c} : chat'[d] = chat[d]
        BY <2>1
    <2>4. AboveItsList'
        BY <1>6, <2>1, <2>3 DEF OpenPage, listVars
    <2>5. DOMAIN chat' = Caller
        BY <2>1
    <2> QED BY <1>6, <2>2, <2>3, <2>4, <2>5 DEF OpenPage, vars, listVars, sendVars
  <1>7. ASSUME NEW c \in Caller, ClosePage(c) PROVE AppTypes' /\ AboveItsList' /\ Idle'
    <2>1. shown' \in [Caller -> Seq(Nat)] /\ inbox' \in [Caller -> Seq(Nat)]
      <3>1. /\ shown' = [shown EXCEPT ![c] = <<>>] /\ inbox' = [inbox EXCEPT ![c] = <<>>]
            /\ <<>> \in Seq(Nat)
          BY <1>7 DEF ClosePage
      <3> QED BY <3>1
    <2>2. page' \in [Caller -> {"none", "open", "closed"}]
        BY <1>7 DEF ClosePage
    <2> QED BY <1>7, <2>1, <2>2 DEF ClosePage, vars, listVars, sendVars
  <1>8. ASSUME NEW c \in Caller, Send(c) PROVE AppTypes' /\ AboveItsList' /\ Idle'
      BY <1>8 DEF Send, vars, listVars, pageVars
  <1>9. ASSUME NEW c \in Caller, AskEntry(c) \/ Submit(c) PROVE AppTypes' /\ AboveItsList' /\ Idle'
    <2>1. UNCHANGED owner /\ UNCHANGED <<listVars, pageVars, sending>>
        BY <1>9 DEF AskEntry, Submit, Clone, Enqueue, vars
    <2> QED BY <2>1 DEF listVars, pageVars
  <1>10. ASSUME NEW c \in Caller, Hear(c) PROVE AppTypes' /\ AboveItsList' /\ Idle'
    <2>1. /\ Head(inbox[c]) \in Nat /\ Tail(inbox[c]) \in Seq(Nat)
          /\ Append(shown[c], Head(inbox[c])) \in Seq(Nat)
        BY <1>10, TailFacts, AppendFacts DEF Hear
    <2> QED BY <1>10, <2>1 DEF Hear, vars, listVars, sendVars
  <1>11. ASSUME NEW c \in Caller, Resume(c) \/ Settle(c) PROVE AppTypes' /\ AboveItsList' /\ Idle'
    <2>1. /\ UNCHANGED <<owner, listVars, page, chat, shown, inbox>>
          /\ \E next \in {"pausing", "idle"} : sending' = [sending EXCEPT ![c] = next]
        BY <1>11 DEF Resume, Settle, vars, pageVars
    <2>2. sending[c] # "idle" \/ sending'[c] = "idle" \/ page[c] # "none"
        BY <1>11 DEF Resume, Settle, Succeeded
    <2>3. /\ sending' \in [Caller -> {"idle", "calling", "pausing"}]
          /\ \A d \in Caller : sending'[d] # "idle" => page[d] # "none"
        BY <2>1, <2>2
    <2> QED BY <2>1, <2>3 DEF listVars
  <1>12. CASE UNCHANGED appVars
      BY <1>12 DEF appVars, vars, listVars, pageVars, sendVars
  <1> QED BY <1>1, <1>2, <1>3, <1>4, <1>5, <1>6, <1>7, <1>8, <1>9, <1>10, <1>11, <1>12
          DEF AppNext, CallStep, AtRest

-----------------------------------------------------------------------------
\* Every step keeps the open pages on their groups.
LEMMA FollowStep ==
    AppInv /\ [AppNext]_appVars => PageFollowsGroup'
  <1> SUFFICES ASSUME AppInv, [AppNext]_appVars PROVE PageFollowsGroup'
      OBVIOUS
  <1> DEFINE Group(c) == groups[chat[c].list][chat[c].peer]
  <1>0. /\ AppTypes /\ AboveItsList /\ Idle
        /\ \A c \in Caller : page[c] = "open" =>
              /\ chat[c] \in Chat /\ chat[c].list \in Stream /\ chat[c].peer \in Peer
              /\ Group(c) \in Seq(Nat) /\ shown[c] \in Seq(Nat) /\ inbox[c] \in Seq(Nat)
              /\ Told(c) \in Seq(Nat)
              /\ Follows(Told(c), Group(c), chat[c].grouped)
    <2>1. AppTypes /\ AboveItsList /\ Idle /\ PageFollowsGroup
        BY DEF AppInv
    <2>2. ASSUME NEW c \in Caller, page[c] = "open"
          PROVE  /\ chat[c] \in Chat /\ chat[c].list \in Stream /\ chat[c].peer \in Peer
                 /\ Group(c) \in Seq(Nat) /\ shown[c] \in Seq(Nat) /\ inbox[c] \in Seq(Nat)
      <3>1. chat[c] \in Chat /\ shown[c] \in Seq(Nat) /\ inbox[c] \in Seq(Nat)
          BY <2>1, <2>2 DEF AppTypes
      <3>2. chat[c].list \in Stream /\ chat[c].peer \in Peer
          BY <3>1, ListAssumption DEF Chat
      <3> QED BY <2>1, <3>1, <3>2 DEF AppTypes
    <2>3. ASSUME NEW c \in Caller, page[c] = "open" PROVE Told(c) \in Seq(Nat)
        BY <2>2, <2>3, ConcatProperties DEF Told
    <2>4. ASSUME NEW c \in Caller, page[c] = "open"
          PROVE  Follows(Told(c), Group(c), chat[c].grouped)
        BY <2>1, <2>4, Zenon DEF PageFollowsGroup, Follows, Told
    <2> QED BY <2>1, <2>2, <2>3, <2>4
  <1>1. SUFFICES ASSUME NEW c \in Caller, page'[c] = "open"
                 PROVE  Follows(Told(c)', Group(c)', chat'[c].grouped)
      BY Zenon DEF PageFollowsGroup, Follows, Told
  <1>2. CASE page[c] = "open" /\ UNCHANGED <<shown, inbox, chat>> /\ UNCHANGED Group(c)
      BY <1>0, <1>2 DEF Told
  <1>3. ASSUME NEW st \in Stream, SdkStep(st), UNCHANGED <<listVars, pageVars, sendVars>>
        PROVE  Follows(Told(c)', Group(c)', chat'[c].grouped)
      BY <1>1, <1>2, <1>3 DEF listVars, pageVars
  <1>4. ASSUME NEW st \in Stream, ShowList(st) \/ DisposeList(st)
        PROVE  Follows(Told(c)', Group(c)', chat'[c].grouped)
    <2>1. page[c] = "open" /\ UNCHANGED <<shown, inbox, chat>>
        BY <1>1, <1>4 DEF ShowList, DisposeList, pageVars
    <2>2. chat[c].list # st
        BY <1>0, <1>4, <2>1 DEF ShowList, DisposeList, AboveItsList, Listening
    <2>3. groups'[chat[c].list] = groups[chat[c].list]
        BY <1>0, <1>4, <2>1, <2>2 DEF ShowList, DisposeList, AppTypes
    <2> QED BY <1>2, <2>1, <2>3
  <1>5. ASSUME NEW st \in Stream, Receive(st)
        PROVE  Follows(Told(c)', Group(c)', chat'[c].grouped)
      BY <1>1, <1>2, <1>5 DEF Receive, pageVars
  <1>6. ASSUME NEW st \in Stream, Listen(st)
        PROVE  Follows(Told(c)', Group(c)', chat'[c].grouped)
    <2> DEFINE m == Head(events[st])
    <2>1. m \in [from : Peer, id : Nat]
        BY <1>0, <1>6, TailFacts DEF Listen, AppTypes
    <2>2. /\ page[c] = "open" /\ UNCHANGED <<shown, chat>>
          /\ groups' = [groups EXCEPT ![st] =
                          [groups[st] EXCEPT ![m.from] = Append(groups[st][m.from], m.id)]]
          /\ inbox'[c] = IF c \in Listening(st) /\ chat[c].peer = m.from
                           THEN Append(inbox[c], m.id) ELSE inbox[c]
        BY <1>1, <1>6 DEF Listen
    <2> HIDE DEF m
    <2>3. CASE chat[c].list = st /\ chat[c].peer = m.from
      <3>1. Group(c)' = Append(Group(c), m.id)
          BY <1>0, <2>1, <2>2, <2>3 DEF AppTypes
      <3>2. inbox'[c] = Append(inbox[c], m.id)
          BY <2>2, <2>3 DEF Listening
      <3>3. Told(c)' = Append(Told(c), m.id)
        <4>1. shown[c] \o Append(inbox[c], m.id) = Append(shown[c] \o inbox[c], m.id)
          <5>1. shown[c] \in Seq(Nat) /\ inbox[c] \in Seq(Nat) /\ m.id \in Nat
              BY <1>0, <2>1, <2>2
          <5> QED BY <5>1, ConcatsOfNat, Zenon
        <4> QED BY <2>2, <3>2, <4>1, Zenon DEF Told
      <3>4. Follows(Append(Told(c), m.id), Append(Group(c), m.id), chat[c].grouped)
          BY <1>0, <2>1, <2>2, FollowsOn
      <3> HIDE DEF Group
      <3> QED BY <2>2, <3>1, <3>3, <3>4
    <2>4. CASE ~(chat[c].list = st /\ chat[c].peer = m.from)
      <3>1. UNCHANGED Group(c)
          BY <1>0, <2>1, <2>2, <2>4 DEF AppTypes
      <3>2. inbox'[c] = inbox[c]
          BY <2>2, <2>4 DEF Listening
      <3>3. Told(c)' = Told(c)
          BY <2>2, <3>2 DEF Told
      <3> HIDE DEF Group
      <3> QED BY <1>0, <2>2, <3>1, <3>3
    <2> QED BY <2>3, <2>4
  <1>7. ASSUME NEW d \in Caller, OpenPage(d)
        PROVE  Follows(Told(c)', Group(c)', chat'[c].grouped)
    <2>1. PICK st \in Lists, q \in Peer, grouped \in BOOLEAN :
             /\ list[st] = "shown" /\ (grouped => groups[st][q] # <<>>)
             /\ chat' = [chat EXCEPT ![d] = [list |-> st, peer |-> q, grouped |-> grouped]]
             /\ shown' = [shown EXCEPT ![d] = IF grouped THEN groups[st][q] ELSE <<>>]
        BY <1>7, Zenon DEF OpenPage
    <2>2. UNCHANGED <<groups, inbox>> /\ page[d] = "none" /\ page' = [page EXCEPT ![d] = "open"]
        BY <1>7 DEF OpenPage, listVars
    <2>3. CASE c # d
      <3>1. page[c] = "open" /\ shown'[c] = shown[c] /\ chat'[c] = chat[c]
          BY <1>0, <1>1, <2>1, <2>2, <2>3 DEF AppTypes
      <3> QED BY <1>0, <2>2, <3>1 DEF Told
    <2>4. CASE c = d
      <3> DEFINE g == groups[st][q]
      <3>1. /\ chat'[c] = [list |-> st, peer |-> q, grouped |-> grouped]
            /\ shown'[c] = IF grouped THEN g ELSE <<>>
            /\ g \in Seq(Nat) /\ inbox'[c] = <<>>
          BY <1>0, <2>1, <2>2, <2>4, ListAssumption DEF AppTypes, Idle
      <3>2. Group(c)' = g /\ chat'[c].grouped = grouped
          BY <2>2, <3>1
      <3>3. /\ Len(g) \in 0..Len(g) /\ SubSeq(g, Len(g) + 1, Len(g)) = <<>>
            /\ g \o <<>> = g
          BY <3>1, EmptySuffix
      <3>4. Told(c)' = IF grouped THEN g ELSE <<>>
        <4>1. <<>> \o <<>> = <<>>
            OBVIOUS
        <4> QED BY <3>1, <3>3, <4>1, Zenon DEF Told
      <3> HIDE DEF g, Group
      <3>5. Follows(IF grouped THEN g ELSE <<>>, g, grouped)
          BY <3>3, Zenon DEF Follows
      <3> QED BY <3>2, <3>4, <3>5
    <2> QED BY <2>3, <2>4
  <1>8. ASSUME NEW d \in Caller, ClosePage(d)
        PROVE  Follows(Told(c)', Group(c)', chat'[c].grouped)
    <2>1. c # d /\ page[c] = "open" /\ UNCHANGED <<groups, chat>>
          /\ shown'[c] = shown[c] /\ inbox'[c] = inbox[c]
        BY <1>0, <1>1, <1>8 DEF ClosePage, AppTypes, listVars
    <2> QED BY <1>0, <2>1 DEF Told
  <1>9. ASSUME NEW d \in Caller, Send(d) \/ AskEntry(d) \/ Submit(d)
        PROVE  Follows(Told(c)', Group(c)', chat'[c].grouped)
    <2>1. UNCHANGED <<listVars, pageVars>>
        BY <1>9 DEF Send, AskEntry, Submit
    <2> QED BY <1>1, <1>2, <2>1 DEF listVars, pageVars
  <1>10. ASSUME NEW d \in Caller, Hear(d)
         PROVE  Follows(Told(c)', Group(c)', chat'[c].grouped)
    <2>1. /\ UNCHANGED <<groups, page, chat>> /\ inbox[d] # <<>>
          /\ shown' = [shown EXCEPT ![d] = Append(shown[d], Head(inbox[d]))]
          /\ inbox' = [inbox EXCEPT ![d] = Tail(inbox[d])]
        BY <1>10 DEF Hear, listVars
    <2>2. Told(c)' = Told(c)
      <3>1. CASE c # d
          BY <1>0, <2>1, <3>1 DEF Told, AppTypes
      <3>2. CASE c = d
        <4>1. /\ shown'[c] = Append(shown[c], Head(inbox[c])) /\ inbox'[c] = Tail(inbox[c])
              /\ inbox[c] # <<>> /\ shown[c] \in Seq(Nat) /\ inbox[c] \in Seq(Nat)
            BY <1>0, <2>1, <3>2 DEF AppTypes
        <4>2. Append(shown[c], Head(inbox[c])) \o Tail(inbox[c]) = shown[c] \o inbox[c]
            BY <4>1, MoveFacts
        <4> QED BY <4>1, <4>2, Zenon DEF Told
      <3> QED BY <3>1, <3>2
    <2> HIDE DEF Told
    <2> QED BY <1>0, <1>1, <2>1, <2>2
  <1>11. ASSUME NEW d \in Caller, Resume(d) \/ Settle(d)
         PROVE  Follows(Told(c)', Group(c)', chat'[c].grouped)
      BY <1>1, <1>2, <1>11 DEF Resume, Settle, listVars, pageVars
  <1>12. CASE UNCHANGED appVars
      BY <1>1, <1>2, <1>12 DEF appVars, listVars, pageVars
  <1>13. CASE AtRest
      BY <1>12, <1>13 DEF AtRest
  <1> HIDE DEF Group
  <1> QED BY <1>3, <1>4, <1>5, <1>6, <1>7, <1>8, <1>9, <1>10, <1>11, <1>12, <1>13
          DEF AppNext, CallStep

LEMMA AppInitially == AppInit => AppInv
  <1> SUFFICES ASSUME AppInit PROVE AppInv
      OBVIOUS
  <1>1. Empty \in [Peer -> Seq(Nat)]
      BY DEF Empty
  <1>2. AppTypes
      BY <1>1 DEF AppInit, Init, AppTypes, Chat
  <1> QED BY <1>2 DEF AppInit, AppInv, AboveItsList, Idle, PageFollowsGroup

\* The invariant of the application holds in every behaviour.
LEMMA AppInvariant == AppSpec => []AppInv
  <1>1. AppInv /\ [AppNext]_appVars => AppInv'
      BY AppTypesStep, FollowStep DEF AppInv
  <1> QED BY <1>1, AppInitially, PTL DEF AppSpec

\* The application implements StreamClient's specification: it touches SESSIONS
\* and the streams only through the SDK's calls (main.dart:332-339, 473-478).
THEOREM AppUsesStreams == AppSpec => Spec
  <1>1. AppInit => Init
      BY DEF AppInit
  <1>2. AppInv /\ [AppNext]_appVars => [Next]_vars
      BY AppStepsAreStreamSteps DEF AppInv
  <1> QED BY <1>1, <1>2, AppInvariant, PTL DEF AppSpec, Spec

\* So the lines of the chat pages are written in order, and none answered with
\* Ok is missing.
THEOREM AppLinesInOrder == AppSpec => [](WrittenInOrder /\ OkIsKept)
  BY AppUsesStreams, LinesAreInOrder, OkStays, PTL

\* A chat page opened on a group shows each message of the group once and in
\* order (main.dart:346-361, 451-457), whatever arrives while it opens.
THEOREM PagesFollow == AppSpec => []PageFollowsGroup
  <1>1. AppInv => PageFollowsGroup
      BY DEF AppInv
  <1> QED BY <1>1, AppInvariant, PTL

-----------------------------------------------------------------------------
(* The bubbles of a page, and the calls made from it.                      *)

\* Every accepted line has its page; bubbles and answers name accepted lines.
Answers == {<<>>} \cup {<<n>> : n \in 0..Len(author)}
CallTypes ==
    /\ author \in Seq(Caller) /\ Len(author) = Len(accepted)
    /\ bubbles \in [Caller -> Seq(1..Len(author))]
    /\ outcome \in [Caller -> Answers]

\* One call at a time of a page: it holds a sender, or its answer is on its way.
OneCall ==
    \A c \in Caller :
        /\ outcome[c] # <<>> \/ held[c] # NoStream => sending[c] = "calling"
        /\ held[c] # NoStream => outcome[c] = <<>>

\* BubblesAreAccepted without the concatenation, and of pages not opened yet.
OwnLinesOf(c) ==
    /\ page[c] # "open" => bubbles[c] = <<>>
    /\ page[c] = "none" => \A n \in 1..Len(author) : author[n] # c
    /\ page[c] = "open" =>
          /\ Ascending(bubbles[c])
          /\ \A n \in 1..Len(author) :
                author[n] = c <=> Holds(bubbles[c], n) \/ outcome[c] = <<n>>
          /\ \A n, k \in 1..Len(author) : Holds(bubbles[c], k) /\ outcome[c] = <<n>> => k < n
OwnLines == \A c \in Caller : OwnLinesOf(c)

BubbleInv == CallTypes /\ OneCall /\ OwnLines

\* An answer tells its line.
LEMMA AnswerFacts ==
    /\ \A n, k : <<n>> = <<k>> => n = k
    /\ \A n : <<n>> # <<>>
  OBVIOUS

LEMMA OneMore ==
    ASSUME NEW S, NEW q \in Seq(S), NEW e \in S
    PROVE  q \o <<e>> = Append(q, e) /\ q \o <<>> = q
  OBVIOUS

\* What touches no call, page or line leaves the invariant.
LEMMA OtherSteps ==
    ASSUME BubbleInv, UNCHANGED <<author, bubbles, outcome, held, sending, page, accepted>>
    PROVE  BubbleInv'
  <1>1. CallTypes' /\ OneCall'
    BY DEF BubbleInv, CallTypes, Answers, OneCall
  <1>2. OwnLines'
    BY DEF BubbleInv, OwnLines, OwnLinesOf
  <1> QED BY <1>1, <1>2 DEF BubbleInv

LEMMA SubmitStep ==
    ASSUME BubbleInv, AppTypes, StreamTypeOK, NEW c \in Caller, Submit(c)
    PROVE  BubbleInv'
  <1> USE DEF BubbleInv
  <1> DEFINE m == Len(author)
  <1>1. /\ held[c] # NoStream /\ held[c] \in Stream /\ outcome[c] = <<>> /\ sending[c] = "calling"
        /\ page[c] \in {"open", "closed"} /\ held' = [held EXCEPT ![c] = NoStream]
        /\ UNCHANGED <<page, bubbles, sending>>
        /\ m \in Nat /\ Len(accepted) = m /\ accepted \in Seq(Stream) /\ DOMAIN author = 1..m
    BY StreamAssumption DEF Submit, Enqueue, OneCall, CallTypes, StreamTypeOK, AppTypes, pageVars
  <1>2. OneCall'
    BY <1>1 DEF OneCall, Submit, CallTypes, StreamTypeOK
  <1>3. CASE accepted' = accepted
    <2>1. author' = author /\ outcome' = [outcome EXCEPT ![c] = <<0>>]
      BY <1>3 DEF Submit
    <2>2. CallTypes'
      <3>1. <<0>> \in Answers
        BY <1>1 DEF Answers
      <3> QED BY <1>1, <1>3, <2>1, <3>1 DEF CallTypes, Answers
    <2>3. OwnLines'
      <3>1. \A n \in 1..m : outcome'[c] # <<n>> /\ outcome[c] # <<n>>
        BY <2>1, <1>1, AnswerFacts DEF CallTypes
      <3>2. \A d \in Caller \ {c} : outcome'[d] = outcome[d]
        BY <2>1 DEF CallTypes
      <3>3. \A d \in Caller : \A n \in 1..m : outcome'[d] = <<n>> <=> outcome[d] = <<n>>
        BY <3>1, <3>2
      <3>4. UNCHANGED <<page, bubbles, author>>
        BY <1>1, <2>1
      <3> HIDE DEF m
      <3> QED BY <3>3, <3>4 DEF OwnLines, OwnLinesOf, m
    <2> QED BY <1>2, <2>2, <2>3
  <1>4. CASE accepted' # accepted
    <2>1. /\ accepted' = Append(accepted, held[c]) /\ Len(accepted') = m + 1
          /\ author' = Append(author, c) /\ outcome' = [outcome EXCEPT ![c] = <<m + 1>>]
      <3>1. accepted' = Append(accepted, held[c])
        BY <1>4 DEF Submit, Enqueue
      <3>2. Len(accepted') = m + 1
        BY <3>1, <1>1, AppendFacts
      <3> QED BY <3>1, <3>2, <1>4 DEF Submit
    <2>2. /\ author' \in Seq(Caller) /\ Len(author') = m + 1
          /\ \A n \in 1..m : author'[n] = author[n]
          /\ author'[m + 1] = c
      <3>1. author \in Seq(Caller)
        BY DEF CallTypes
      <3>2. /\ Append(author, c) \in Seq(Caller) /\ Len(Append(author, c)) = Len(author) + 1
            /\ \A n \in 1..Len(author) : Append(author, c)[n] = author[n]
            /\ Append(author, c)[Len(author) + 1] = c
        <4> HIDE DEF m
        <4> QED BY ONLY <3>1, AppendFacts, c \in Caller
      <3>3. author' = Append(author, c)
        BY <2>1
      <3> QED BY ONLY <3>2, <3>3 DEF m
    <2>3. CallTypes'
      <3>1. bubbles' \in [Caller -> Seq(1..(m + 1))]
        <4>1. \A d \in Caller : bubbles[d] \in Seq(1..(m + 1))
          BY <1>1, MoreLines DEF CallTypes
        <4> QED BY <4>1, <1>1 DEF CallTypes
      <3>2. outcome' \in [Caller -> Answers']
        <4>1. Answers \subseteq Answers' /\ <<m + 1>> \in Answers'
          BY <1>1, <2>2 DEF Answers
        <4> QED BY <4>1, <2>1 DEF CallTypes
      <3> QED BY <2>1, <2>2, <3>1, <3>2 DEF CallTypes
    <2>4. /\ outcome'[c] = <<m + 1>> /\ \A d \in Caller \ {c} : outcome'[d] = outcome[d]
      BY <2>1 DEF CallTypes
    <2>5. \A d \in Caller : outcome[d] # <<m + 1>>
      <3>1. ASSUME NEW d \in Caller, outcome[d] = <<m + 1>> PROVE FALSE
        <4>1. outcome[d] \in Answers
          BY DEF CallTypes
        <4>2. PICK n \in 0..m : outcome[d] = <<n>>
          BY <3>1, <4>1, AnswerFacts DEF Answers
        <4>3. n = m + 1
          BY <3>1, <4>2, AnswerFacts
        <4> QED BY <1>1, <4>3
      <3> QED BY <3>1
    <2>6. \A d \in Caller : \A n : Holds(bubbles[d], n) => n \in 1..m
      BY DEF CallTypes, Holds
    <2>7. \A n \in 1..(m + 1) : n \in 1..m \/ n = m + 1
      BY <1>1
    <2>8. \A n \in 1..m : n < m + 1 /\ n # m + 1
      BY <1>1
    <2>9. \A n \in 1..m : outcome[c] # <<n>> /\ outcome'[c] # <<n>>
      BY <1>1, <2>4, <2>8, AnswerFacts
    <2> HIDE DEF m
    <2>10. ASSUME NEW d \in Caller
           PROVE  /\ page[d] # "open" => bubbles[d] = <<>>
                  /\ page[d] = "none" => \A n \in 1..(m + 1) : author'[n] # d
                  /\ page[d] = "open" =>
                       /\ Ascending(bubbles[d])
                       /\ \A n \in 1..(m + 1) :
                             author'[n] = d <=> Holds(bubbles[d], n) \/ outcome'[d] = <<n>>
                       /\ \A n, k \in 1..(m + 1) :
                             Holds(bubbles[d], k) /\ outcome'[d] = <<n>> => k < n
      <3>1. /\ page[d] # "open" => bubbles[d] = <<>>
            /\ page[d] = "open" => Ascending(bubbles[d])
        BY DEF OwnLines, OwnLinesOf
      <3>2. page[d] = "none" => \A n \in 1..(m + 1) : author'[n] # d
        BY <1>1, <2>2, <2>7 DEF OwnLines, OwnLinesOf, m
      <3>3. ASSUME page[d] = "open", NEW n \in 1..(m + 1)
            PROVE  author'[n] = d <=> Holds(bubbles[d], n) \/ outcome'[d] = <<n>>
        <4>1. CASE n \in 1..m
          <5>1. author[n] = d <=> Holds(bubbles[d], n) \/ outcome[d] = <<n>>
            BY <3>3, <4>1 DEF OwnLines, OwnLinesOf, m
          <5>2. outcome'[d] = <<n>> <=> outcome[d] = <<n>>
            BY <2>4, <2>9, <4>1
          <5> QED BY <5>1, <5>2, <2>2, <4>1
        <4>2. CASE n = m + 1
          <5>1. ~Holds(bubbles[d], n)
            BY <2>6, <2>8, <4>2
          <5>2. outcome'[d] = <<n>> <=> d = c
            BY <2>4, <2>5, <4>2
          <5> QED BY <5>1, <5>2, <2>2, <4>2
        <4> QED BY <4>1, <4>2, <2>7
      <3>4. ASSUME page[d] = "open", NEW n \in 1..(m + 1), NEW k \in 1..(m + 1),
                   Holds(bubbles[d], k), outcome'[d] = <<n>>
            PROVE  k < n
        <4>1. k \in 1..m
          BY <2>6, <3>4
        <4>2. CASE d = c
          <5>1. n = m + 1
            BY <2>4, <3>4, <4>2, AnswerFacts
          <5> QED BY <4>1, <5>1, <2>8
        <4>3. CASE d # c
          <5>1. outcome[d] = <<n>> /\ n \in 1..m
            BY <2>4, <2>5, <2>7, <3>4, <4>3
          <5> QED BY <3>4, <4>1, <5>1 DEF OwnLines, OwnLinesOf, m
        <4> QED BY <4>2, <4>3
      <3> QED BY <3>1, <3>2, <3>3, <3>4
    <2>11. OwnLines'
      BY <2>10, <2>2, <1>1 DEF OwnLines, OwnLinesOf
    <2> QED BY <1>2, <2>3, <2>11
  <1> QED BY <1>3, <1>4

LEMMA ResumeStep ==
    ASSUME BubbleInv, AppTypes, StreamTypeOK, NEW c \in Caller, Resume(c)
    PROVE  BubbleInv'
  <1> USE DEF BubbleInv
  <1> DEFINE m == Len(author)
  <1>1. /\ outcome[c] # <<>> /\ held[c] = NoStream /\ m \in Nat
        /\ outcome' = [outcome EXCEPT ![c] = <<>>]
        /\ \E next \in {"pausing", "idle"} : sending' = [sending EXCEPT ![c] = next]
        /\ UNCHANGED <<page, author, accepted, held>>
    <2>1. outcome[c] # <<>> /\ UNCHANGED <<page, author, accepted, held>>
      BY DEF Resume, vars
    <2>2. \E next \in {"pausing", "idle"} : sending' = [sending EXCEPT ![c] = next]
      BY DEF Resume
    <2>3. held[c] = NoStream
      BY <2>1 DEF OneCall
    <2>4. m \in Nat
      BY DEF CallTypes
    <2> QED BY <2>1, <2>2, <2>3, <2>4 DEF Resume
  <1>2. /\ outcome'[c] = <<>> /\ \A d \in Caller \ {c} : outcome'[d] = outcome[d]
        /\ \A d \in Caller \ {c} : sending'[d] = sending[d]
    BY <1>1 DEF CallTypes, AppTypes
  <1>3. OneCall'
    BY <1>1, <1>2 DEF OneCall
  <1>4. PICK n \in 0..m : outcome[c] = <<n>>
    BY <1>1 DEF CallTypes, Answers
  <1>5. CASE n # 0 /\ page[c] = "open"
    <2>1. bubbles' = [bubbles EXCEPT ![c] = Append(bubbles[c], n)]
      <3>1. bubbles[c] \o <<n>> = Append(bubbles[c], n)
        BY <1>4, <1>5, OneMore DEF CallTypes
      <3>2. outcome[c] # <<0>>
        BY <1>4, <1>5, AnswerFacts
      <3> QED BY <1>4, <1>5, <3>1, <3>2 DEF Resume, AddBubble, Succeeded
    <2> DEFINE b == Append(bubbles[c], n)
    <2>2. n \in 1..m /\ bubbles[c] \in Seq(1..m) /\ b \in Seq(1..m)
      BY <1>4, <1>5, AppendFacts DEF CallTypes
    <2>3. \A k : Holds(b, k) <=> k = n \/ Holds(bubbles[c], k)
      BY <2>2, HoldsAppend
    <2>4. Ascending(b)
      <3>1. Ascending(bubbles[c]) /\ \A k \in 1..m : Holds(bubbles[c], k) => k < n
        BY <1>4, <1>5, <2>2 DEF OwnLines, OwnLinesOf
      <3> QED BY <3>1, <1>1, <2>2, AscendingAppend
    <2>5. bubbles'[c] = b /\ \A d \in Caller \ {c} : bubbles'[d] = bubbles[d]
      BY <2>1 DEF CallTypes
    <2>6. CallTypes'
      BY <1>1, <2>1, <2>2 DEF CallTypes, Answers
    <2>7. \A k : <<k>> = <<n>> <=> k = n
      BY AnswerFacts
    <2> HIDE DEF b
    <2>8. \A k \in 1..m : author[k] = c <=> Holds(b, k)
      BY <1>4, <1>5, <2>3, <2>7 DEF OwnLines, OwnLinesOf
    <2>9. \A k : <<k>> # <<>>
      BY AnswerFacts
    <2> HIDE DEF m
    <2>10. ASSUME NEW d \in Caller
           PROVE  /\ page[d] # "open" => bubbles'[d] = <<>>
                  /\ page[d] = "none" => \A k \in 1..m : author[k] # d
                  /\ page[d] = "open" =>
                       /\ Ascending(bubbles'[d])
                       /\ \A k \in 1..m : author[k] = d <=> Holds(bubbles'[d], k) \/ outcome'[d] = <<k>>
                       /\ \A j, k \in 1..m : Holds(bubbles'[d], k) /\ outcome'[d] = <<j>> => k < j
      <3>1. CASE d = c
        BY <3>1, <1>2, <1>5, <2>4, <2>5, <2>8, <2>9
      <3>2. CASE d # c
        BY <3>2, <1>2, <2>5 DEF OwnLines, OwnLinesOf, m
      <3> QED BY <3>1, <3>2
    <2>11. OwnLines'
      BY <1>1, <2>10 DEF OwnLines, OwnLinesOf, m
    <2> QED BY <1>3, <2>6, <2>11
  <1>6. CASE ~(n # 0 /\ page[c] = "open")
    <2>1. bubbles' = bubbles
      BY <1>4, <1>6 DEF Resume, AddBubble, Succeeded
    <2>2. CallTypes'
      BY <1>1, <2>1 DEF CallTypes, Answers
    <2>3. \A k : <<k>> # <<>>
      BY AnswerFacts
    <2>4. page[c] = "open" => \A k \in 1..m : outcome[c] # <<k>>
      BY <1>4, <1>6, AnswerFacts
    <2> HIDE DEF m
    <2>5. ASSUME NEW d \in Caller
          PROVE  /\ page[d] # "open" => bubbles[d] = <<>>
                 /\ page[d] = "none" => \A k \in 1..m : author[k] # d
                 /\ page[d] = "open" =>
                      /\ Ascending(bubbles[d])
                      /\ \A k \in 1..m : author[k] = d <=> Holds(bubbles[d], k) \/ outcome'[d] = <<k>>
                      /\ \A j, k \in 1..m : Holds(bubbles[d], k) /\ outcome'[d] = <<j>> => k < j
      <3>1. CASE d = c
        BY <3>1, <1>2, <2>3, <2>4 DEF OwnLines, OwnLinesOf, m
      <3>2. CASE d # c
        BY <3>2, <1>2 DEF OwnLines, OwnLinesOf, m
      <3> QED BY <3>1, <3>2
    <2>6. OwnLines'
      BY <1>1, <2>1, <2>5 DEF OwnLines, OwnLinesOf, m
    <2> QED BY <1>3, <2>2, <2>6
  <1> QED BY <1>5, <1>6

LEMMA SettleStep ==
    ASSUME BubbleInv, AppTypes, NEW c \in Caller, Settle(c)
    PROVE  BubbleInv'
  <1>1. /\ UNCHANGED <<author, bubbles, outcome, held, page, accepted>>
        /\ sending[c] = "pausing" /\ \A d \in Caller \ {c} : sending'[d] = sending[d]
    BY DEF Settle, vars, pageVars, AppTypes
  <1>2. CallTypes' /\ OneCall'
    BY <1>1 DEF BubbleInv, CallTypes, Answers, OneCall
  <1>3. OwnLines'
    BY <1>1 DEF BubbleInv, OwnLines, OwnLinesOf
  <1> QED BY <1>2, <1>3 DEF BubbleInv

LEMMA AskStep ==
    ASSUME BubbleInv, AppTypes, StreamTypeOK, NEW c \in Caller, AskEntry(c)
    PROVE  BubbleInv'
  <1> USE DEF BubbleInv
  <1>1. /\ sending[c] = "calling" /\ outcome[c] = <<>> /\ held[c] = NoStream
        /\ UNCHANGED <<author, bubbles, sending, page, accepted>>
    BY DEF AskEntry, Clone, pageVars, vars
  <1>2. CASE UNCHANGED outcome
    <2>1. held' = held \/ \E st : held' = [held EXCEPT ![c] = st]
      BY <1>2 DEF AskEntry, Clone, vars
    <2>2. \A d \in Caller \ {c} : held'[d] = held[d]
      BY <2>1 DEF StreamTypeOK
    <2>3. CallTypes' /\ OneCall'
      BY <1>1, <1>2, <2>2 DEF CallTypes, Answers, OneCall
    <2>4. OwnLines'
      BY <1>1, <1>2 DEF OwnLines, OwnLinesOf
    <2> QED BY <2>3, <2>4
  <1>3. CASE outcome' = [outcome EXCEPT ![c] = <<0>>] /\ UNCHANGED vars
    <2>1. outcome'[c] = <<0>> /\ \A d \in Caller \ {c} : outcome'[d] = outcome[d]
      BY <1>3 DEF CallTypes
    <2>2. UNCHANGED <<held, accepted>>
      BY <1>3 DEF vars
    <2>3. OneCall'
      BY <1>1, <2>1, <2>2 DEF OneCall
    <2>4. CallTypes'
      <3>1. <<0>> \in Answers /\ Answers' = Answers
        BY <1>1 DEF Answers, CallTypes
      <3> QED BY <1>1, <1>3, <2>2, <3>1 DEF CallTypes
    <2>5. \A k \in 1..Len(author) : outcome[c] # <<k>> /\ outcome'[c] # <<k>>
      BY <1>1, <2>1, AnswerFacts DEF CallTypes
    <2>6. OwnLines'
      <3>1. \A d \in Caller : \A k \in 1..Len(author) : outcome'[d] = <<k>> <=> outcome[d] = <<k>>
        BY <2>1, <2>5
      <3> QED BY <1>1, <3>1 DEF OwnLines, OwnLinesOf
    <2> QED BY <2>3, <2>4, <2>6
  <1> QED BY <1>2, <1>3 DEF AskEntry

LEMMA PageSteps ==
    ASSUME BubbleInv, AppTypes, NEW c \in Caller, OpenPage(c) \/ ClosePage(c) \/ Send(c)
    PROVE  BubbleInv'
  <1> USE DEF BubbleInv
  <1>1. UNCHANGED <<author, outcome, held, accepted>>
    BY DEF OpenPage, ClosePage, Send, vars, sendVars
  <1>2. \A d \in Caller : bubbles'[d] = IF d = c /\ ClosePage(c) THEN <<>> ELSE bubbles[d]
    BY DEF OpenPage, ClosePage, Send, pageVars, CallTypes
  <1>3. CallTypes'
    <2>1. bubbles' \in [Caller -> Seq(1..Len(author))]
      <3>1. bubbles' = bubbles \/ bubbles' = [bubbles EXCEPT ![c] = <<>>]
        BY DEF OpenPage, ClosePage, Send, pageVars
      <3>2. <<>> \in Seq(1..Len(author))
        OBVIOUS
      <3> QED BY <3>1, <3>2 DEF CallTypes
    <2> QED BY <1>1, <2>1 DEF CallTypes, Answers
  <1>4. OneCall'
    <2>1. \A d \in Caller : sending[d] = "calling" => sending'[d] = "calling"
      BY DEF OpenPage, ClosePage, Send, sendVars, AppTypes
    <2> QED BY <1>1, <2>1 DEF OneCall
  <1>5. OwnLines'
    <2>1. CASE OpenPage(c)
      <3>1. /\ page[c] = "none" /\ page'[c] = "open" /\ bubbles' = bubbles
            /\ \A d \in Caller \ {c} : page'[d] = page[d]
        BY <2>1 DEF OpenPage, AppTypes
      <3>2. outcome[c] = <<>> /\ bubbles[c] = <<>> /\ \A n \in 1..Len(author) : author[n] # c
        BY <3>1 DEF OneCall, AppTypes, OwnLines, OwnLinesOf
      <3>3. Ascending(<<>>) /\ \A n : ~Holds(<<>>, n)
        BY DEF Ascending, Holds
      <3>4. \A n : outcome[c] # <<n>>
        BY <3>2, AnswerFacts
      <3>5. OwnLinesOf(c)'
        BY <1>1, <3>1, <3>2, <3>3, <3>4 DEF OwnLinesOf
      <3>6. ASSUME NEW d \in Caller \ {c} PROVE OwnLinesOf(d)'
        BY <1>1, <3>1 DEF OwnLines, OwnLinesOf
      <3> QED BY <3>5, <3>6 DEF OwnLines
    <2>2. CASE ClosePage(c)
      <3>1. /\ page'[c] = "closed" /\ bubbles'[c] = <<>>
            /\ \A d \in Caller \ {c} : page'[d] = page[d] /\ bubbles'[d] = bubbles[d]
        BY <2>2, <1>2 DEF ClosePage, AppTypes
      <3> QED BY <1>1, <3>1 DEF OwnLines, OwnLinesOf
    <2>3. CASE Send(c)
      <3>1. UNCHANGED <<page, bubbles>>
        BY <2>3 DEF Send, pageVars
      <3> QED BY <1>1, <3>1 DEF OwnLines, OwnLinesOf
    <2> QED BY <2>1, <2>2, <2>3
  <1> QED BY <1>3, <1>4, <1>5

LEMMA BubbleStep ==
    BubbleInv /\ AppTypes /\ StreamTypeOK /\ [AppNext]_appVars => BubbleInv'
  <1> SUFFICES ASSUME BubbleInv, AppTypes, StreamTypeOK, [AppNext]_appVars PROVE BubbleInv'
      OBVIOUS
  <1>1. ASSUME NEW st \in Stream, SdkStep(st) /\ UNCHANGED <<listVars, pageVars, sendVars>>
        PROVE  BubbleInv'
    <2>1. UNCHANGED <<held, accepted>>
      BY <1>1 DEF SdkStep, Open, Drain, ReadEnds, Exit
    <2> QED BY <1>1, <2>1, OtherSteps DEF pageVars, sendVars
  <1>2. ASSUME NEW st \in Stream, ShowList(st) \/ Receive(st) \/ Listen(st) \/ DisposeList(st)
        PROVE  BubbleInv'
    <2>1. UNCHANGED <<author, bubbles, outcome, held, sending, page, accepted>>
      BY <1>2 DEF ShowList, Receive, Listen, DisposeList, vars, pageVars, sendVars
    <2> QED BY <2>1, OtherSteps
  <1>3. ASSUME NEW c \in Caller, Hear(c) PROVE BubbleInv'
    <2>1. UNCHANGED <<author, bubbles, outcome, held, sending, page, accepted>>
      BY <1>3 DEF Hear, vars, sendVars
    <2> QED BY <2>1, OtherSteps
  <1>4. CASE UNCHANGED appVars
    <2>1. UNCHANGED <<author, bubbles, outcome, held, sending, page, accepted>>
      BY <1>4 DEF appVars, vars, pageVars, sendVars
    <2> QED BY <2>1, OtherSteps
  <1> QED BY <1>1, <1>2, <1>3, <1>4, PageSteps, AskStep, SubmitStep, ResumeStep, SettleStep
          DEF AppNext, CallStep, AtRest

LEMMA BubbleInit == AppInit => BubbleInv
  <1> SUFFICES ASSUME AppInit PROVE BubbleInv
      OBVIOUS
  <1>1. CallTypes
    <2>1. Len(author) = 0 /\ Len(accepted) = 0 /\ author \in Seq(Caller)
      BY DEF AppInit, Init
    <2> QED BY <2>1 DEF AppInit, CallTypes, Answers
  <1> QED BY <1>1 DEF AppInit, Init, BubbleInv, OneCall, OwnLines, OwnLinesOf

\* The bubbles of a chat page are the lines accepted from it, in order: none for
\* a call that failed, none missing but the one whose answer is on its way.
THEOREM BubblesMatch == AppSpec => []BubblesAreAccepted
  <1>1. AppSpec => [](AppTypes /\ StreamTypeOK)
    <2>1. AppInv => AppTypes
        BY DEF AppInv
    <2> QED BY <2>1, AppInvariant, AppUsesStreams, StreamTyping, PTL
  <1>2. BubbleInv /\ AppTypes => BubblesAreAccepted
    <2> SUFFICES ASSUME BubbleInv, AppTypes, NEW c \in Caller, page[c] = "open"
                 PROVE  LET due == bubbles[c] \o (IF outcome[c] = <<0>> THEN <<>> ELSE outcome[c])
                        IN  /\ {due[i] : i \in DOMAIN due} = {n \in DOMAIN author : author[n] = c}
                            /\ \A i, j \in DOMAIN due : i < j => due[i] < due[j]
      BY DEF BubblesAreAccepted
    <2> DEFINE m == Len(author)
               b == bubbles[c]
               due == b \o (IF outcome[c] = <<0>> THEN <<>> ELSE outcome[c])
    <2>1. /\ m \in Nat /\ b \in Seq(1..m) /\ DOMAIN author = 1..m
          /\ Ascending(b) /\ outcome[c] \in Answers
          /\ \A n \in 1..m : author[n] = c <=> Holds(b, n) \/ outcome[c] = <<n>>
          /\ \A n, k \in 1..m : Holds(b, k) /\ outcome[c] = <<n>> => k < n
      BY DEF BubbleInv, CallTypes, OwnLines, OwnLinesOf
    <2>2. /\ due \in Seq(1..m) /\ Ascending(due)
          /\ \A n \in 1..m : Holds(due, n) <=> author[n] = c
      <3>1. CASE \E n \in 1..m : outcome[c] = <<n>>
        <4>1. PICK n \in 1..m : outcome[c] = <<n>>
          BY <3>1
        <4>2. outcome[c] # <<0>>
          BY <4>1, <2>1, AnswerFacts
        <4>3. due = Append(b, n)
          BY <2>1, <4>1, <4>2, OneMore
        <4>4. Ascending(Append(b, n)) /\ Append(b, n) \in Seq(1..m)
          BY <2>1, <4>1, AscendingAppend, AppendFacts
        <4>5. \A k : Holds(Append(b, n), k) <=> k = n \/ Holds(b, k)
          BY <2>1, HoldsAppend
        <4>6. \A k : outcome[c] = <<k>> <=> k = n
          BY <4>1, AnswerFacts
        <4> HIDE DEF b, m, due
        <4> QED BY <2>1, <4>3, <4>4, <4>5, <4>6
      <3>2. CASE outcome[c] = <<>> \/ outcome[c] = <<0>>
        <4>1. due = b
          <5>1. (IF outcome[c] = <<0>> THEN <<>> ELSE outcome[c]) = <<>>
            BY <3>2, Zenon
          <5>2. b \o <<>> = b
            BY <2>1
          <5> QED BY <5>1, <5>2, Zenon
        <4>2. \A n \in 1..m : outcome[c] # <<n>>
          <5>1. ASSUME NEW n \in 1..m, outcome[c] = <<n>> PROVE n = 0
            BY <3>2, <5>1, AnswerFacts, Zenon
          <5> QED BY <5>1, <2>1
        <4> HIDE DEF b, m, due
        <4> QED BY <2>1, <4>1, <4>2
      <3>3. \A n \in 0..m : n = 0 \/ n \in 1..m
        BY <2>1
      <3> QED BY <2>1, <3>1, <3>2, <3>3 DEF Answers
    <2> HIDE DEF due, m, b
    <2>3. DOMAIN due = 1..Len(due) /\ \A i \in DOMAIN due : due[i] \in 1..m
      BY <2>2, DomainFacts
    <2>4. {due[i] : i \in DOMAIN due} = {n \in 1..m : author[n] = c}
      BY <2>2, <2>3 DEF Holds
    <2> QED BY <2>1, <2>2, <2>4 DEF Ascending, due, b
  <1>3. AppSpec => []BubbleInv
    BY <1>1, BubbleInit, BubbleStep, PTL DEF AppSpec
  <1>4. AppSpec => []AppTypes
    BY <1>1, PTL
  <1> QED BY <1>2, <1>3, <1>4, PTL
=============================================================================
