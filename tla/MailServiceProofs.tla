--------------------------- MODULE MailServiceProofs ---------------------------
(***************************************************************************)
(* The promises of MailService hold for any sessions and users.            *)
(***************************************************************************)
EXTENDS MailService, SequenceFacts

Posting == [by : Session, to : User, known : BOOLEAN]

\* What Addressed, AtMostOnce and InOrder depend on, when nothing is put in a box.
Shrinks ==
    /\ \A s \in Session : /\ DOMAIN box'[s] \subseteq DOMAIN box[s]
                          /\ \A i \in DOMAIN box'[s] : box'[s][i] = box[s][i]
    /\ DOMAIN posted \subseteq DOMAIN posted'
    /\ \A n \in DOMAIN posted : posted'[n] = posted[n]
    /\ \A s \in Session : identity[s] # NoUser => identity'[s] = identity[s]

\* Boxes that only lose frames keep the three promises about their contents.
LEMMA ShrinkKeepsBoxes ==
    ASSUME NoUser \notin User, MailInv, Shrinks
    PROVE  Addressed' /\ AtMostOnce' /\ InOrder'
<1> USE DEF Shrinks, MailInv
<1>1. Addressed'
  <2> SUFFICES ASSUME NEW s \in Session, NEW i \in DOMAIN box'[s], box'[s][i] # 0
               PROVE  box'[s][i] \in DOMAIN posted' /\ posted'[box'[s][i]].to = identity'[s]
    BY DEF Addressed
  <2>1. /\ box[s][i] \in DOMAIN posted
        /\ posted[box[s][i]].to = identity[s]
    BY DEF Addressed
  <2>2. identity[s] # NoUser
    <3>1. posted[box[s][i]] \in Posting
      BY <2>1, DomainFacts DEF TypeOK, Posting
    <3> QED BY <2>1, <3>1 DEF Posting
  <2> QED BY <2>1, <2>2
<1>2. AtMostOnce'
  BY DEF AtMostOnce
<1>3. InOrder'
  <2> SUFFICES ASSUME NEW s \in Session, NEW i \in DOMAIN box'[s], NEW j \in DOMAIN box'[s],
                      i < j, box'[s][i] # 0, box'[s][j] # 0,
                      posted'[box'[s][i]].by = posted'[box'[s][j]].by
               PROVE  box'[s][i] < box'[s][j]
    BY DEF InOrder
  <2>1. box[s][i] \in DOMAIN posted /\ box[s][j] \in DOMAIN posted
    BY DEF Addressed
  <2> QED BY <2>1 DEF InOrder
<1> QED BY <1>1, <1>2, <1>3

\* Put appends to one box and leaves the others alone.
LEMMA PutFacts ==
    ASSUME TypeOK, NEW t \in Session, NEW item \in Nat, Put(t, item)
    PROVE  /\ box' \in [Session -> Seq(Nat)]
           /\ Len(box[t]) \in Nat /\ DOMAIN box[t] = 1..Len(box[t])
           /\ DOMAIN box'[t] = 1..(Len(box[t]) + 1)
           /\ Len(box'[t]) = Len(box[t]) + 1
           /\ \A i \in DOMAIN box[t] : box'[t][i] = box[t][i]
           /\ box'[t][Len(box[t]) + 1] = item
           /\ \A s \in Session \ {t} : box'[s] = box[s]
<1>1. box'[t] = Append(box[t], item) /\ \A s \in Session \ {t} : box'[s] = box[s]
  BY DEF TypeOK, Put
<1>2. box[t] \in Seq(Nat)
  BY DEF TypeOK
<1>3. box' \in [Session -> Seq(Nat)]
  <2>1. Append(box[t], item) \in Seq(Nat)
    BY <1>2, AppendFacts
  <2> QED BY <2>1 DEF TypeOK, Put
<1> QED BY <1>1, <1>2, <1>3, AppendFacts

\* After Put, an entry of a box is an old one in its old place, or the new one.
LEMMA PutEntries ==
    ASSUME TypeOK, NEW t \in Session, NEW item \in Nat, Put(t, item),
           NEW r \in Session, NEW i \in DOMAIN box'[r]
    PROVE  \/ i \in DOMAIN box[r] /\ box'[r][i] = box[r][i]
           \/ r = t /\ i = Len(box[t]) + 1 /\ box'[r][i] = item
<1>1. CASE r # t
  BY <1>1, PutFacts
<1>2. CASE r = t /\ i \in 1..Len(box[t])
  BY <1>2, PutFacts
<1>3. CASE r = t /\ i \notin 1..Len(box[t])
  <2>1. i = Len(box[t]) + 1
    BY <1>3, PutFacts
  <2> QED BY <1>3, <2>1, PutFacts
<1> QED BY <1>1, <1>2, <1>3

\* A frame other than a request disturbs no promise about requests.
LEMMA PutZero ==
    ASSUME MailInv, NEW t \in Session, Put(t, 0), UNCHANGED <<identity, posted>>
    PROVE  Addressed' /\ AtMostOnce' /\ InOrder'
<1> USE DEF MailInv
<1>1. \A s \in Session : \A i \in DOMAIN box'[s] :
         box'[s][i] # 0 => i \in DOMAIN box[s] /\ box'[s][i] = box[s][i]
  <2> TAKE s \in Session
  <2> TAKE i \in DOMAIN box'[s]
  <2>1. CASE s = t
    <3>1. i \in 1..Len(box[t]) \/ i = Len(box[t]) + 1
      BY <2>1, PutFacts
    <3> QED BY <2>1, <3>1, PutFacts
  <2>2. CASE s # t
    BY <2>2, PutFacts
  <2> QED BY <2>1, <2>2
<1>2. Addressed'
  BY <1>1 DEF Addressed
<1>3. AtMostOnce'
  BY <1>1 DEF AtMostOnce
<1>4. InOrder'
  BY <1>1 DEF InOrder
<1> QED BY <1>2, <1>3, <1>4

\* Handing over the pending request keeps the promises: it is the addressee's
\* box, the request is in no box yet, and it is its poster's latest.
LEMMA HandKeepsBoxes ==
    ASSUME MailInv, NEW s \in Session, NEW t \in Session, Hand(s, t)
    PROVE  Addressed' /\ AtMostOnce' /\ InOrder'
<1> DEFINE n == pending[s]
<1> USE DEF MailInv
<1>1. /\ n \in DOMAIN posted /\ n # 0 /\ n \in Nat
      /\ posted[n].by = s /\ posted[n].to = identity[t]
      /\ \A m \in DOMAIN posted : posted[m].by = s => m <= n
      /\ \A r \in Session : \A i \in DOMAIN box[r] : box[r][i] # n
      /\ posted' = posted /\ identity' = identity
  BY DEF Hand, PendingIsLatest, TypeOK
<1>2. /\ DOMAIN box'[t] = 1..(Len(box[t]) + 1)
      /\ Len(box[t]) \in Nat /\ DOMAIN box[t] = 1..Len(box[t])
      /\ \A i \in DOMAIN box[t] : box'[t][i] = box[t][i]
      /\ box'[t][Len(box[t]) + 1] = n
      /\ \A r \in Session \ {t} : box'[r] = box[r]
  BY <1>1, PutFacts DEF Hand
<1>3. \A r \in Session : \A i \in DOMAIN box'[r] :
         \/ i \in DOMAIN box[r] /\ box'[r][i] = box[r][i] /\ box'[r][i] # n
         \/ r = t /\ i = Len(box[t]) + 1 /\ box'[r][i] = n
  <2> SUFFICES ASSUME NEW r \in Session, NEW i \in DOMAIN box'[r]
               PROVE  \/ i \in DOMAIN box[r] /\ box'[r][i] = box[r][i] /\ box'[r][i] # n
                      \/ r = t /\ i = Len(box[t]) + 1 /\ box'[r][i] = n
    OBVIOUS
  <2>1. Put(t, n)
    BY DEF Hand
  <2>2. CASE i \in DOMAIN box[r] /\ box'[r][i] = box[r][i]
    BY <1>1, <2>2
  <2>3. CASE r = t /\ i = Len(box[t]) + 1 /\ box'[r][i] = n
    BY <2>3
  <2> QED BY <1>1, <2>1, <2>2, <2>3, PutEntries
<1>4. Addressed'
  BY <1>1, <1>3 DEF Addressed
<1>5. AtMostOnce'
  BY <1>3 DEF AtMostOnce
<1>6. InOrder'
  <2> SUFFICES ASSUME NEW r \in Session, NEW i \in DOMAIN box'[r], NEW j \in DOMAIN box'[r],
                      i < j, box'[r][i] # 0, box'[r][j] # 0,
                      posted[box'[r][i]].by = posted[box'[r][j]].by
               PROVE  box'[r][i] < box'[r][j]
    BY <1>1 DEF InOrder
  <2>1. CASE i \in DOMAIN box[r] /\ j \in DOMAIN box[r] /\ box'[r][i] = box[r][i]
             /\ box'[r][j] = box[r][j]
    BY <2>1 DEF InOrder
  <2>2. CASE i \in DOMAIN box[r] /\ box'[r][i] = box[r][i] /\ box'[r][i] # n
             /\ box'[r][j] = n
    <3>1. box[r][i] \in DOMAIN posted
      BY <2>2 DEF Addressed
    <3>2. DOMAIN posted \subseteq Nat
      <4>1. posted \in Seq(Posting)
        BY DEF TypeOK, Posting
      <4> QED BY <4>1, DomainFacts
    <3>3. posted[box[r][i]].by = s
      BY <1>1, <2>2
    <3>4. box[r][i] <= n
      BY <1>1, <3>1, <3>3
    <3>5. box[r][i] # n
      BY <2>2
    <3>6. box[r][i] < n
      <4> HIDE DEF n
      <4> QED BY <1>1, <3>1, <3>2, <3>4, <3>5
    <3> QED BY <2>2, <3>6
  <2>3. CASE r = t /\ i = Len(box[t]) + 1
    <3>1. j \in 1..(Len(box[t]) + 1)
      BY <1>2, <2>3
    <3> QED BY <1>2, <2>3, <3>1
  <2> QED BY <1>3, <2>1, <2>2, <2>3
<1> QED BY <1>4, <1>5, <1>6

-----------------------------------------------------------------------------
(* Every step keeps the rest of the invariant.                             *)

\* Ending sessions cuts their boxes back to what was taken, and nothing else.
LEMMA EndFacts ==
    ASSUME TypeOK, TakenWithin, NEW S \in SUBSET Session, End(S)
    PROVE  /\ box' \in [Session -> Seq(Nat)]
           /\ \A s \in Session : /\ taken[s] <= Len(box'[s])
                                 /\ DOMAIN box'[s] \subseteq DOMAIN box[s]
                                 /\ \A i \in DOMAIN box'[s] : box'[s][i] = box[s][i]
<1>1. ASSUME NEW s \in Session
      PROVE  /\ box'[s] \in Seq(Nat)
             /\ taken[s] <= Len(box'[s])
             /\ DOMAIN box'[s] \subseteq DOMAIN box[s]
             /\ \A i \in DOMAIN box'[s] : box'[s][i] = box[s][i]
  <2>1. box[s] \in Seq(Nat) /\ taken[s] \in Nat /\ taken[s] <= Len(box[s])
    BY DEF TypeOK, TakenWithin
  <2>2. CASE s \in S
    <3>1. box'[s] = SubSeq(box[s], 1, taken[s])
      BY <2>2 DEF End
    <3> QED BY <2>1, <3>1, PrefixFacts, DomainFacts
  <2>3. CASE s \notin S
    BY <2>1, <2>3 DEF End
  <2> QED BY <2>2, <2>3
<1>2. box' = [s \in Session |-> box'[s]]
  BY DEF End
<1> QED BY <1>1, <1>2

LEMMA TypeStep ==
    ASSUME TypeOK, TakenWithin, Next
    PROVE  TypeOK'
<1>1. ASSUME NEW s \in Session, NEW u \in User, Identify(s, u)
      PROVE  TypeOK'
  BY <1>1 DEF TypeOK, Identify
<1>2. ASSUME NEW s \in Session, NEW to \in User, NEW known \in BOOLEAN, Post(s, to, known)
      PROVE  TypeOK'
  <2>1. [by |-> s, to |-> to, known |-> known] \in Posting
    BY DEF Posting
  <2>2. posted \in Seq(Posting) /\ posted' = Append(posted, [by |-> s, to |-> to, known |-> known])
    BY <1>2 DEF TypeOK, Posting, Post
  <2>3. posted' \in Seq(Posting) /\ Len(posted') = Len(posted) + 1 /\ Len(posted) \in Nat
    BY <2>1, <2>2, AppendFacts
  <2>4. archive' \subseteq 1..Len(posted')
    <3>1. archive' \subseteq archive \cup {Len(posted) + 1}
      BY <1>2 DEF Post
    <3>2. archive \subseteq 1..Len(posted)
      BY DEF TypeOK
    <3>3. 1..Len(posted) \subseteq 1..Len(posted') /\ Len(posted) + 1 \in 1..Len(posted')
      BY <2>3
    <3> QED BY <3>1, <3>2, <3>3
  <2> QED BY <1>2, <2>3, <2>4 DEF TypeOK, Posting, Post
<1>3. ASSUME NEW s \in Session, NEW t \in Session, Hand(s, t)
      PROVE  TypeOK'
  <2>1. box' \in [Session -> Seq(Nat)]
    BY <1>3, PutFacts DEF Hand, TypeOK
  <2> QED BY <1>3, <2>1 DEF TypeOK, Hand
<1>4. ASSUME NEW s \in Session, Discard(s)
      PROVE  TypeOK'
  BY <1>4 DEF TypeOK, Discard
<1>5. ASSUME NEW t \in Session, Notify(t)
      PROVE  TypeOK'
  <2>1. box' \in [Session -> Seq(Nat)]
    BY <1>5, PutFacts DEF Notify
  <2> QED BY <1>5, <2>1 DEF TypeOK, Notify
<1>6. ASSUME NEW t \in Session, Take(t)
      PROVE  TypeOK'
  <2>1. taken[t] + 1 \in Nat
    BY DEF TypeOK
  <2>2. taken' \in [Session -> Nat]
    BY <1>6, <2>1 DEF TypeOK, Take
  <2> QED BY <1>6, <2>2 DEF TypeOK, Take
<1>7. ASSUME NEW S \in SUBSET Session, End(S)
      PROVE  TypeOK'
  BY <1>7, EndFacts DEF TypeOK, End
<1> QED BY <1>1, <1>2, <1>3, <1>4, <1>5, <1>6, <1>7 DEF Next

LEMMA TakenStep ==
    ASSUME TypeOK, TakenWithin, Next
    PROVE  TakenWithin'
<1>1. ASSUME NEW t \in Session, NEW item \in Nat, Put(t, item), UNCHANGED taken
      PROVE  TakenWithin'
  <2> SUFFICES ASSUME NEW r \in Session
               PROVE  taken'[r] <= Len(box'[r])
    BY DEF TakenWithin
  <2>1. taken[r] \in Nat /\ taken[r] <= Len(box[r]) /\ taken'[r] = taken[r]
    BY <1>1 DEF TakenWithin, TypeOK
  <2>2. CASE r = t
    BY <1>1, <2>1, <2>2, PutFacts
  <2>3. CASE r # t
    BY <1>1, <2>1, <2>3, PutFacts
  <2> QED BY <2>2, <2>3
<1>2. ASSUME NEW s \in Session, NEW t \in Session, Hand(s, t)
      PROVE  TakenWithin'
  <2>1. pending[s] \in Nat
    BY DEF TypeOK
  <2> QED BY <1>1, <1>2, <2>1 DEF Hand
<1>3. ASSUME NEW t \in Session, Notify(t)
      PROVE  TakenWithin'
  BY <1>1, <1>3 DEF Notify
<1>4. ASSUME NEW t \in Session, Take(t)
      PROVE  TakenWithin'
  <2>1. Len(box[t]) \in Nat /\ taken[t] \in Nat
    BY DEF TypeOK
  <2> QED BY <1>4, <2>1 DEF TakenWithin, Take, TypeOK
<1>5. ASSUME NEW S \in SUBSET Session, End(S)
      PROVE  TakenWithin'
  BY <1>5, EndFacts DEF TakenWithin, End
<1>6. ASSUME UNCHANGED <<box, taken>>
      PROVE  TakenWithin'
  BY <1>6 DEF TakenWithin
<1> QED BY <1>2, <1>3, <1>4, <1>5, <1>6 DEF Next, Identify, Post, Discard

LEMMA PendingStep ==
    ASSUME MailInv, Next
    PROVE  PendingIsLatest'
<1> USE DEF MailInv
<1>1. ASSUME NEW s \in Session, NEW to \in User, NEW known \in BOOLEAN, Post(s, to, known)
      PROVE  PendingIsLatest'
  <2> DEFINE e == [by |-> s, to |-> to, known |-> known]
  <2>1. posted \in Seq(Posting) /\ posted' = Append(posted, e) /\ e \in Posting
    BY <1>1 DEF TypeOK, Posting, Post
  <2>2. /\ Len(posted) \in Nat /\ DOMAIN posted = 1..Len(posted)
        /\ DOMAIN posted' = 1..(Len(posted) + 1)
        /\ \A i \in 1..Len(posted) : posted'[i] = posted[i]
        /\ posted'[Len(posted) + 1] = e
    BY <2>1, AppendFacts
  <2>3. /\ pending'[s] = Len(posted) + 1 /\ box' = box
        /\ \A r \in Session \ {s} : pending'[r] = pending[r]
    BY <1>1 DEF Post, TypeOK
  <2>4. ASSUME NEW t \in Session, NEW i \in DOMAIN box[t]
        PROVE  box[t][i] # Len(posted) + 1
    <3>1. box[t][i] = 0 \/ box[t][i] \in 1..Len(posted)
      BY <2>2 DEF Addressed
    <3> QED BY <2>2, <3>1
  <2>5. e.by = s
    OBVIOUS
  <2> HIDE DEF e
  <2> SUFFICES ASSUME NEW r \in Session, pending'[r] # 0
               PROVE  /\ pending'[r] \in DOMAIN posted'
                      /\ posted'[pending'[r]].by = r
                      /\ \A n \in DOMAIN posted' : posted'[n].by = r => n <= pending'[r]
                      /\ \A t \in Session : \A i \in DOMAIN box'[t] : box'[t][i] # pending'[r]
    BY DEF PendingIsLatest
  <2>6. CASE r = s
    BY <2>2, <2>3, <2>4, <2>5, <2>6
  <2>7. CASE r # s
    <3>1. /\ pending[r] \in 1..Len(posted) /\ posted[pending[r]].by = r
          /\ \A n \in 1..Len(posted) : posted[n].by = r => n <= pending[r]
          /\ \A t \in Session : \A i \in DOMAIN box[t] : box[t][i] # pending[r]
      BY <2>2, <2>3, <2>7 DEF PendingIsLatest
    <3> QED BY <2>2, <2>3, <2>5, <2>7, <3>1
  <2> QED BY <2>6, <2>7
<1>2. ASSUME NEW s \in Session, NEW t \in Session, Hand(s, t)
      PROVE  PendingIsLatest'
  <2>1. pending[s] \in Nat /\ Put(t, pending[s]) /\ posted' = posted
    BY <1>2 DEF Hand, TypeOK
  <2>2. \A r \in Session : \A i \in DOMAIN box'[r] :
            (i \in DOMAIN box[r] /\ box'[r][i] = box[r][i]) \/ box'[r][i] = pending[s]
    BY <2>1, PutEntries
  <2>3. pending[s] # 0 /\ \A r \in Session : pending'[r] # 0 => r # s /\ pending'[r] = pending[r]
    BY <1>2 DEF Hand, TypeOK
  <2>4. \A r \in Session : pending[r] = pending[s] => r = s
    BY <2>3 DEF PendingIsLatest
  <2> QED BY <2>1, <2>2, <2>3, <2>4 DEF PendingIsLatest
<1>3. ASSUME UNCHANGED posted,
             \A r \in Session : pending'[r] # 0 => pending'[r] = pending[r],
             \A r \in Session : \A i \in DOMAIN box'[r] :
                box'[r][i] = 0 \/ (i \in DOMAIN box[r] /\ box'[r][i] = box[r][i])
      PROVE  PendingIsLatest'
  BY <1>3 DEF PendingIsLatest
<1>4. ASSUME NEW t \in Session, Notify(t)
      PROVE  PendingIsLatest'
  <2>1. \A r \in Session : \A i \in DOMAIN box'[r] :
            box'[r][i] = 0 \/ (i \in DOMAIN box[r] /\ box'[r][i] = box[r][i])
    BY <1>4, PutEntries DEF Notify
  <2> QED BY <1>3, <1>4, <2>1 DEF Notify
<1>5. ASSUME NEW S \in SUBSET Session, End(S)
      PROVE  PendingIsLatest'
  BY <1>3, <1>5, EndFacts DEF End
<1>6. ASSUME UNCHANGED <<posted, box>>, \A r \in Session : pending'[r] # 0 => pending'[r] = pending[r]
      PROVE  PendingIsLatest'
  BY <1>3, <1>6
<1>7. ASSUME NEW s \in Session, Discard(s)
      PROVE  PendingIsLatest'
  BY <1>6, <1>7 DEF Discard, TypeOK
<1> QED BY <1>1, <1>2, <1>4, <1>5, <1>6, <1>7 DEF Next, Identify, Take

LEMMA BoxStep ==
    ASSUME NoUser \notin User, MailInv, Next
    PROVE  Addressed' /\ AtMostOnce' /\ InOrder'
<1> USE DEF MailInv
<1>1. ASSUME NEW s \in Session, NEW to \in User, NEW known \in BOOLEAN, Post(s, to, known)
      PROVE  Shrinks
  <2>1. posted \in Seq(Posting) /\ [by |-> s, to |-> to, known |-> known] \in Posting
    BY DEF TypeOK, Posting
  <2> QED BY <1>1, <2>1, AppendFacts DEF Shrinks, Post
<1>2. ASSUME NEW S \in SUBSET Session, End(S)
      PROVE  Shrinks
  BY <1>2, EndFacts DEF Shrinks, End
<1>3. ASSUME NEW s \in Session, NEW u \in User, Identify(s, u)
      PROVE  Shrinks
  BY <1>3 DEF Shrinks, Identify, TypeOK
<1>4. ASSUME UNCHANGED <<identity, posted, box>>
      PROVE  Shrinks
  BY <1>4 DEF Shrinks
<1>5. ASSUME NEW t \in Session, Notify(t)
      PROVE  Addressed' /\ AtMostOnce' /\ InOrder'
  BY <1>5, PutZero DEF Notify
<1> QED BY <1>1, <1>2, <1>3, <1>4, <1>5, ShrinkKeepsBoxes, HandKeepsBoxes
        DEF Next, Discard, Take

LEMMA ArchiveStep ==
    ASSUME MailInv, Next
    PROVE  KnownIsArchived'
<1> USE DEF MailInv
<1>1. ASSUME NEW s \in Session, NEW to \in User, NEW known \in BOOLEAN, Post(s, to, known)
      PROVE  KnownIsArchived'
  <2> DEFINE e == [by |-> s, to |-> to, known |-> known]
  <2>1. posted \in Seq(Posting) /\ posted' = Append(posted, e) /\ e \in Posting
    BY <1>1 DEF TypeOK, Posting, Post
  <2>2. /\ Len(posted) \in Nat /\ DOMAIN posted = 1..Len(posted)
        /\ DOMAIN posted' = 1..(Len(posted) + 1)
        /\ \A i \in 1..Len(posted) : posted'[i] = posted[i]
        /\ posted'[Len(posted) + 1] = e
    BY <2>1, AppendFacts
  <2>3. archive \subseteq archive'
    BY <1>1 DEF Post
  <2>4. ~Faults /\ known => Len(posted) + 1 \in archive'
    BY <1>1 DEF Post
  <2>5. e.known = known
    OBVIOUS
  <2> HIDE DEF e
  <2> QED BY <2>2, <2>3, <2>4, <2>5 DEF KnownIsArchived
<1>2. ASSUME UNCHANGED <<posted, archive>>
      PROVE  KnownIsArchived'
  BY <1>2 DEF KnownIsArchived
<1> QED BY <1>1, <1>2 DEF Next, Identify, Hand, Discard, Notify, Take, End

-----------------------------------------------------------------------------
LEMMA MailInit == Init => MailInv
<1> SUFFICES ASSUME Init
             PROVE  MailInv
  OBVIOUS
<1> USE DEF Init
<1>1. TypeOK
  BY DEF TypeOK
<1>2. TakenWithin /\ PendingIsLatest /\ Addressed /\ AtMostOnce /\ InOrder /\ KnownIsArchived
  BY DEF TakenWithin, PendingIsLatest, Addressed, AtMostOnce, InOrder, KnownIsArchived
<1> QED BY <1>1, <1>2 DEF MailInv

LEMMA MailStep == NoUser \notin User /\ MailInv /\ [Next]_vars => MailInv'
<1> SUFFICES ASSUME NoUser \notin User, MailInv, [Next]_vars
             PROVE  MailInv'
  OBVIOUS
<1>1. CASE Next
  BY <1>1, TypeStep, TakenStep, PendingStep, BoxStep, ArchiveStep DEF MailInv
<1>2. CASE UNCHANGED vars
  BY <1>2 DEF vars, MailInv, TypeOK, TakenWithin, PendingIsLatest, Addressed,
              AtMostOnce, InOrder, KnownIsArchived
<1> QED BY <1>1, <1>2

\* The mail service hands each request to its addressee only, at most once,
\* in each sender's order, and archives what it must.
THEOREM MailSafety == ASSUME NoUser \notin User PROVE Spec => []MailInv
<1>1. Init => MailInv
  BY MailInit
<1>2. MailInv /\ [Next]_vars => MailInv'
  BY MailStep
<1> QED BY <1>1, <1>2, PTL DEF Spec
=============================================================================
