----------------------------- MODULE FramingProofs -----------------------------
(***************************************************************************)
(* Both framings, for lines and buffers of any size: what the readers at   *)
(* the two ends of a connection make of its lines.                         *)
(***************************************************************************)
EXTENDS ConnectionFraming, SequenceFacts, SequenceTheorems, FiniteSetTheorems

USE FramingAssumption

-----------------------------------------------------------------------------
(* The inductive invariant.                                                *)

\* Lines lie one behind the other, and each has a byte before its newline.
LinesApart ==
    /\ \A k \in Lines : 2 <= ends[k]
    /\ \A j, k \in Lines : j < k => ends[j] + 2 <= ends[k]

Reader == {"server", "call", "stream", "done"}

ModeFits ==
    /\ reader \in Reader /\ open \in BOOLEAN /\ kept \in Nat
    /\ reader # "server" => ~awaits
    /\ reader = "done" => ~open

InSequence == \A i \in DOMAIN handled : handled[i] = i

\* The server: what it handled has been read up to the newline, and without an
\* error it handled exactly the lines it has begun to read.
ServerReads ==
    reader = "server" =>
        /\ \A i \in DOMAIN handled : ends[handled[i]] - 1 <= consumed
        /\ HandledInOrder
        /\ errors = 0 => InSequence /\ \A k \in Lines : Start(k) < consumed <=> k <= Len(handled)

\* A client that waits, with lines within the buffer: reads end where lines end,
\* and at most the last line has not been read.
Boundaries == Newlines \cup {0}
InLockStep ==
    reader = "server" /\ awaits /\ (\A k \in Lines : ends[k] - Start(k) <= Buffer) =>
        /\ errors = 0 /\ consumed \in Boundaries /\ arrived \in Boundaries
        /\ \A k \in Lines : k < Len(ends) => ends[k] <= consumed

\* A client's reader keeps what follows the last line it cut.
Cut == IF handled = <<>> THEN 0 ELSE ends[Len(handled)]
ClientKeeps == reader \in {"call", "stream"} => errors = 0 /\ kept = Cut /\ kept <= consumed

FramingInv == FramingTypeOK /\ LinesApart /\ ModeFits /\ ServerReads /\ InLockStep
              /\ ClientKeeps /\ ClientReadsExactly

-----------------------------------------------------------------------------
(* Offsets.                                                                *)

LEMMA OffsetFacts ==
    ASSUME FramingTypeOK
    PROVE  /\ Len(ends) \in Nat /\ DOMAIN ends = 1..Len(ends) /\ \A k \in Lines : ends[k] \in Nat
           /\ \A k \in Lines : Start(k) \in Nat
           /\ Written \in Nat /\ arrived \in Nat /\ consumed \in Nat
           /\ consumed <= arrived /\ arrived <= Written
           /\ Len(ends) = 0 => Written = 0
           /\ Len(ends) # 0 => Written = ends[Len(ends)] /\ Len(ends) \in Lines
<1>1. Len(ends) \in Nat /\ DOMAIN ends = 1..Len(ends) /\ \A k \in DOMAIN ends : ends[k] \in Nat
  BY DomainFacts DEF FramingTypeOK
<1>2. Written \in Nat
  BY <1>1 DEF Written, FramingTypeOK
<1> QED BY <1>1, <1>2 DEF Lines, Start, Written, FramingTypeOK

LEMMA HandledFacts ==
    ASSUME FramingTypeOK
    PROVE  Len(handled) \in Nat /\ DOMAIN handled = 1..Len(handled) /\ \A i \in DOMAIN handled : handled[i] \in Lines
  BY DomainFacts DEF FramingTypeOK, Lines

\* No line reaches beyond what is written.
LEMMA LastLine ==
    ASSUME FramingTypeOK, LinesApart
    PROVE  \A k \in Lines : ends[k] <= Written
<1>1. SUFFICES ASSUME NEW k \in Lines PROVE ends[k] <= Written
  OBVIOUS
<1>2. k = Len(ends) \/ k < Len(ends)
  BY OffsetFacts DEF Lines
<1>3. k < Len(ends) => ends[k] + 2 <= ends[Len(ends)]
  BY OffsetFacts DEF LinesApart, Lines
<1> QED BY <1>2, <1>3, OffsetFacts DEF Lines

\* Where a line starts.
LEMMA StartFacts ==
    ASSUME FramingTypeOK, LinesApart, NEW k \in Lines
    PROVE  /\ Start(k) \in Nat /\ Start(k) + 2 <= ends[k]
           /\ \A j \in Lines : j < k => ends[j] <= Start(k)
<1>1. k \in Nat /\ 1 <= k /\ k <= Len(ends) /\ Lines = 1..Len(ends)
  BY OffsetFacts DEF Lines
<1>2. CASE k = 1
  BY <1>1, <1>2, OffsetFacts DEF Start, LinesApart
<1>3. CASE k # 1
  <2>1. k - 1 \in Lines /\ k - 1 < k
    BY <1>1, <1>3
  <2>2. Start(k) = ends[k - 1] /\ Start(k) \in Nat /\ Start(k) + 2 <= ends[k]
    BY <1>3, <2>1, OffsetFacts DEF Start, LinesApart
  <2>3. ASSUME NEW j \in Lines, j < k PROVE ends[j] <= Start(k)
    <3>1. j = k - 1 \/ j < k - 1
      BY <1>1, <2>3
    <3> QED BY <3>1, <2>1, <2>2, OffsetFacts DEF LinesApart
  <2> QED BY <2>2, <2>3
<1> QED BY <1>2, <1>3

\* Another line leaves those before it where they are.
LEMMA WriteFacts ==
    ASSUME FramingTypeOK, LinesApart, NEW size \in LineSizes, ends' = Append(ends, Written + size)
    PROVE  /\ size \in Nat /\ size >= 2
           /\ ends' \in Seq(Nat) /\ Len(ends') = Len(ends) + 1
           /\ Lines = 1..Len(ends) /\ Lines' = 1..(Len(ends) + 1)
           /\ \A k \in Lines : ends'[k] = ends[k]
           /\ ends'[Len(ends) + 1] = Written + size /\ Written' = Written + size
           /\ LinesApart'
<1>1. size \in Nat /\ size >= 2
  OBVIOUS
<1>2. /\ ends' \in Seq(Nat) /\ Len(ends') = Len(ends) + 1 /\ DOMAIN ends' = 1..(Len(ends) + 1)
      /\ \A k \in 1..Len(ends) : ends'[k] = ends[k]
      /\ ends'[Len(ends) + 1] = Written + size
  <2>1. Written + size \in Nat /\ ends \in Seq(Nat)
    BY <1>1, OffsetFacts DEF FramingTypeOK
  <2> QED BY <2>1, AppendFacts
<1>3. Written' = Written + size
  BY <1>2, OffsetFacts DEF Written
<1>4. Lines' = 1..(Len(ends) + 1) /\ Lines = 1..Len(ends)
  BY <1>2, OffsetFacts DEF Lines
<1>5. LinesApart'
  <2>1. ASSUME NEW k \in Lines' PROVE 2 <= ends'[k]
    <3>1. k \in Lines \/ k = Len(ends) + 1
      BY <1>4, OffsetFacts
    <3> QED BY <3>1, <1>1, <1>2, <1>4, OffsetFacts DEF LinesApart
  <2>2. ASSUME NEW j \in Lines', NEW k \in Lines', j < k PROVE ends'[j] + 2 <= ends'[k]
    <3>1. j \in Lines /\ (k \in Lines \/ k = Len(ends) + 1)
      <4>1. j \in 1..(Len(ends) + 1) /\ k \in 1..(Len(ends) + 1) /\ Len(ends) \in Nat
        BY <1>4, OffsetFacts
      <4> QED BY <4>1, <2>2, <1>4
    <3>2. CASE k \in Lines
      BY <3>1, <3>2, <2>2, <1>2, <1>4 DEF LinesApart
    <3>3. CASE k = Len(ends) + 1
      BY <3>1, <3>3, <1>1, <1>2, <1>4, LastLine, OffsetFacts
    <3> QED BY <3>1, <3>2, <3>3
  <2> QED BY <2>1, <2>2 DEF LinesApart
<1> QED BY <1>1, <1>2, <1>3, <1>4, <1>5

\* What has no part in a line's body: newlines, and the bodies of other lines.
LEMMA BodyFacts ==
    ASSUME FramingTypeOK, LinesApart, NEW k \in Lines
    PROVE  /\ Start(k) + 1 \in Body(k) /\ ends[k] - 1 \in Body(k)
           /\ \A x \in Body(k) : x \notin Newlines /\ Start(k) < x /\ x < ends[k]
           /\ \A j \in Lines : Start(j) + 1 \in Body(k) => j = k
<1>1. Start(k) \in Nat /\ ends[k] \in Nat /\ Start(k) + 2 <= ends[k]
  BY StartFacts, OffsetFacts
<1>2. Start(k) + 1 \in Body(k) /\ ends[k] - 1 \in Body(k)
  BY <1>1 DEF Body
<1>3. \A x \in Body(k) : Start(k) < x /\ x < ends[k] /\ x \in Nat
  BY <1>1 DEF Body
<1>4. ASSUME NEW j \in Lines PROVE j = k \/ ends[k] <= Start(j) \/ ends[j] <= Start(k)
  <2>1. j = k \/ k < j \/ j < k
    BY OffsetFacts DEF Lines
  <2> QED BY <2>1, StartFacts
<1>5. \A j \in Lines : ends[j] \in Nat /\ Start(j) \in Nat /\ Start(j) + 2 <= ends[j]
  BY StartFacts, OffsetFacts
<1>6. \A x \in Body(k) : x \notin Newlines
  BY <1>3, <1>4, <1>5 DEF Newlines, Lines
<1>7. \A j \in Lines : Start(j) + 1 \in Body(k) => j = k
  BY <1>1, <1>3, <1>4, <1>5
<1> QED BY <1>2, <1>3, <1>6, <1>7

-----------------------------------------------------------------------------
(* The server's reads.                                                     *)

Upto == IF arrived - consumed <= Buffer THEN arrived ELSE consumed + Buffer
Text == ((consumed + 1)..Upto) \ Newlines

LEMMA UptoFacts ==
    ASSUME FramingTypeOK, consumed < arrived
    PROVE  Upto \in Nat /\ consumed < Upto /\ Upto <= arrived /\ (Upto = arrived \/ Upto = consumed + Buffer)
  BY OffsetFacts DEF Upto

\* A chunk that parses holds the body of the line, and no other line begins in it.
LEMMA ParsedFacts ==
    ASSUME FramingTypeOK, LinesApart, consumed < arrived, NEW k \in Lines, Text = Body(k)
    PROVE  /\ consumed <= Start(k) /\ Start(k) < Upto /\ ends[k] - 1 <= Upto
           /\ \A j \in Lines : consumed <= Start(j) /\ Start(j) < Upto => j = k
<1>1. Start(k) + 1 \in Text /\ ends[k] - 1 \in Text
  BY BodyFacts
<1>2. \A x \in Text : x \in Nat /\ consumed < x /\ x <= Upto
  BY UptoFacts, OffsetFacts DEF Text
<1>3. ASSUME NEW j \in Lines, consumed <= Start(j), Start(j) < Upto PROVE j = k
  <2>1. Start(j) + 1 \notin Newlines
    BY BodyFacts
  <2>2. Start(j) + 1 \in Text
    BY <2>1, <1>3, UptoFacts, OffsetFacts DEF Text
  <2> QED BY <2>2, BodyFacts
<1> QED BY <1>1, <1>2, <1>3, UptoFacts, OffsetFacts

\* The chunk of a line that lies alone between two reads is its body.
LEMMA AloneFacts ==
    ASSUME FramingTypeOK, LinesApart, NEW k \in Lines, consumed = Start(k), Upto = ends[k]
    PROVE  Text = Body(k)
<1>1. Start(k) \in Nat /\ ends[k] \in Nat /\ Start(k) + 2 <= ends[k] /\ ends[k] \in Newlines
  BY StartFacts, OffsetFacts DEF Newlines, Lines
<1>2. \A x \in Body(k) : x \notin Newlines
  BY BodyFacts
<1>3. Text = ((Start(k) + 1)..ends[k]) \ Newlines
  BY DEF Text
<1>4. \A x \in (Start(k) + 1)..ends[k] : x = ends[k] \/ x \in Body(k)
  BY <1>1 DEF Body
<1>5. \A x \in Body(k) : x \in (Start(k) + 1)..ends[k]
  BY <1>1 DEF Body
<1> QED BY <1>1, <1>2, <1>3, <1>4, <1>5

\* A read takes one chunk: the body of a line that is handled, or none that is.
LEMMA ReadFacts ==
    ASSUME FramingTypeOK, LinesApart, Read
    PROVE  /\ consumed < arrived /\ consumed' = Upto /\ UNCHANGED <<awaits, ends, arrived>>
           /\ \/ \E k \in Lines : Text = Body(k) /\ handled' = Append(handled, k) /\ errors' = errors
              \/ (\A k \in Lines : Text # Body(k)) /\ handled' = handled /\ errors' = errors + 1
  BY DEF Read, Upto, Text, Lines

LEMMA ReadStep ==
    ASSUME FramingInv, Read, UNCHANGED <<reader, kept, open>>, reader = "server"
    PROVE  FramingInv'
<1> USE DEF FramingInv
<1>1. /\ consumed < arrived /\ consumed' = Upto /\ UNCHANGED <<awaits, ends, arrived>>
      /\ Upto \in Nat /\ consumed < Upto /\ Upto <= arrived
      /\ Upto = arrived \/ Upto = consumed + Buffer
  BY ReadFacts, UptoFacts
<1>2. \A k \in Lines : Start(k) \in Nat /\ ends[k] \in Nat /\ Start(k) + 2 <= ends[k]
  BY StartFacts, OffsetFacts
<1>3. LinesApart' /\ ModeFits' /\ ClientKeeps' /\ ClientReadsExactly' /\ Newlines' = Newlines
      /\ Lines' = Lines /\ Boundaries' = Boundaries /\ Len(ends)' = Len(ends)
  BY <1>1 DEF LinesApart, Lines, ModeFits, ClientKeeps, ClientReadsExactly, Newlines, Boundaries
<1>a. Start(1)' = Start(1) /\ \A k \in Lines : (IF k = 1 THEN 0 ELSE ends'[k - 1]) = Start(k)
  BY <1>1 DEF Start
<1>4. ASSUME awaits, \A k \in Lines : ends[k] - Start(k) <= Buffer
      PROVE  /\ Upto = arrived /\ Len(ends) \in Lines /\ arrived = ends[Len(ends)]
             /\ errors = 0 /\ consumed = Start(Len(ends))
             /\ Text = Body(Len(ends))
  <2>1. /\ errors = 0 /\ consumed \in Boundaries /\ arrived \in Boundaries
        /\ \A k \in Lines : k < Len(ends) => ends[k] <= consumed
    BY <1>4 DEF InLockStep
  <2>2. PICK k \in Lines : arrived = ends[k]
    BY <1>1, <2>1, OffsetFacts DEF Boundaries, Newlines, Lines
  <2>3. k = Len(ends)
    BY <2>1, <2>2, <1>1, OffsetFacts DEF Lines
  <2>4. consumed = Start(k)
    <3>1. CASE k = 1
      <4>1. ASSUME NEW j \in Lines, consumed = ends[j] PROVE FALSE
        <5>1. j = 1
          BY <3>1, <2>3, OffsetFacts DEF Lines
        <5> QED BY <5>1, <4>1, <3>1, <2>2, <1>1, OffsetFacts
      <4> QED BY <4>1, <3>1, <2>1 DEF Boundaries, Newlines, Lines, Start
    <3>2. CASE k # 1
      <4>1. k - 1 \in Lines /\ k - 1 < k
        BY <2>3, <3>2, OffsetFacts DEF Lines
      <4>2. ends[k - 1] <= consumed /\ ends[k - 1] \in Nat /\ ends[k - 1] >= 2
        BY <4>1, <2>1, <2>3, OffsetFacts DEF LinesApart
      <4>3. PICK j \in Lines : consumed = ends[j]
        BY <4>2, <2>1 DEF Boundaries, Newlines, Lines
      <4>4. j = k \/ j = k - 1 \/ j < k - 1
        BY <2>3, OffsetFacts DEF Lines
      <4>5. j < k - 1 => ends[j] + 2 <= ends[k - 1]
        BY <4>1 DEF LinesApart
      <4> QED BY <4>1, <4>2, <4>3, <4>4, <4>5, <3>2, <2>2, <1>1, OffsetFacts DEF Start
    <3> QED BY <3>1, <3>2
  <2>5. Upto = arrived
    BY <2>2, <2>4, <1>4, <1>2, OffsetFacts DEF Upto
  <2>6. Text = Body(k)
    BY <2>2, <2>4, <2>5, AloneFacts
  <2> QED BY <2>1, <2>2, <2>3, <2>4, <2>5, <2>6
<1>5. CASE \E k \in Lines : Text = Body(k) /\ handled' = Append(handled, k) /\ errors' = errors
  <2>1. PICK k \in Lines : Text = Body(k) /\ handled' = Append(handled, k) /\ errors' = errors
    BY <1>5
  <2>2. /\ handled' \in Seq(Lines) /\ Len(handled') = Len(handled) + 1 /\ Len(handled) \in Nat
        /\ DOMAIN handled' = 1..(Len(handled) + 1) /\ DOMAIN handled = 1..Len(handled)
        /\ \A i \in DOMAIN handled : handled'[i] = handled[i] /\ handled[i] \in Lines
        /\ handled'[Len(handled) + 1] = k
    <3>1. handled \in Seq(Lines)
      BY DEF FramingTypeOK, Lines
    <3> QED BY <2>1, <3>1, AppendFacts, HandledFacts
  <2>3. /\ consumed <= Start(k) /\ Start(k) < Upto /\ ends[k] - 1 <= Upto
        /\ \A j \in Lines : consumed <= Start(j) /\ Start(j) < Upto => j = k
    BY <1>1, <2>1, ParsedFacts
  <2>4. FramingTypeOK'
    BY <1>1, <1>3, <2>1, <2>2, OffsetFacts DEF FramingTypeOK, Lines, Written
  <2>5. \A i \in DOMAIN handled : handled[i] < k
    <3>1. ASSUME NEW i \in DOMAIN handled PROVE handled[i] < k
      <4>1. handled[i] \in Lines /\ ends[handled[i]] - 1 <= consumed
        BY <2>2 DEF ServerReads
      <4>2. k <= handled[i] => ends[k] <= ends[handled[i]]
        BY <4>1, OffsetFacts DEF LinesApart, Lines
      <4> QED BY <4>1, <4>2, <1>1, <1>2, <2>3, OffsetFacts DEF Lines
    <3> QED BY <3>1
  <2>6. ServerReads'
    <3>1. \A i \in DOMAIN handled' : ends'[handled'[i]] - 1 <= consumed'
      <4>1. ASSUME NEW i \in DOMAIN handled' PROVE ends[handled'[i]] - 1 <= Upto
        <5>1. i \in DOMAIN handled \/ i = Len(handled) + 1
          BY <2>2
        <5>2. i \in DOMAIN handled => ends[handled[i]] - 1 <= consumed /\ ends[handled[i]] \in Nat
          BY <2>2, <1>2 DEF ServerReads
        <5>3. i \in DOMAIN handled => ends[handled'[i]] - 1 <= Upto
          <6>1. i \in DOMAIN handled => handled'[i] = handled[i]
            BY <2>2
          <6>2. consumed \in Nat /\ Upto \in Nat /\ consumed <= Upto
            BY <1>1, OffsetFacts
          <6> QED BY <5>2, <6>1, <6>2
        <5>4. i = Len(handled) + 1 => ends[handled'[i]] - 1 <= Upto
          BY <2>2, <2>3
        <5> QED BY <5>1, <5>3, <5>4
      <4> QED BY <4>1, <1>1
    <3>2. HandledInOrder'
      <4>1. ASSUME NEW i \in DOMAIN handled', NEW j \in DOMAIN handled', i < j
            PROVE  handled'[i] < handled'[j]
        <5>1. i \in DOMAIN handled /\ (j \in DOMAIN handled \/ j = Len(handled) + 1)
          BY <2>2, <4>1
        <5> QED BY <5>1, <4>1, <2>2, <2>5 DEF HandledInOrder, ServerReads
      <4> QED BY <4>1 DEF HandledInOrder
    <3>3. ASSUME errors = 0
          PROVE  InSequence' /\ \A j \in Lines : Start(j) < Upto <=> j <= Len(handled')
      <4>1. InSequence /\ \A j \in Lines : Start(j) < consumed <=> j <= Len(handled)
        BY <3>3 DEF ServerReads
      <4>2. k > Len(handled)
        BY <4>1, <2>3, <1>2, <2>2, OffsetFacts DEF Lines
      <4>3. k = Len(handled) + 1
        <5>1. SUFFICES ASSUME Len(handled) + 1 < k PROVE FALSE
          BY <4>2, <2>2, OffsetFacts DEF Lines
        <5> DEFINE j == Len(handled) + 1
        <5>2. j \in Lines /\ j < k
          BY <5>1, <2>2, OffsetFacts DEF Lines
        <5>3. Start(j) < Start(k)
          BY <5>2, StartFacts, <1>2
        <5>4. consumed <= Start(j)
          BY <5>2, <4>1, <1>2, <2>2, OffsetFacts
        <5> QED BY <5>2, <5>3, <5>4, <2>3, <1>1, <1>2
      <4>4. ASSUME NEW j \in Lines PROVE Start(j) < Upto <=> j <= Len(handled')
        <5>1. j <= Len(handled) => Start(j) < Upto
          BY <4>1, <1>1, <1>2, OffsetFacts
        <5>2. Start(j) < Upto => j <= Len(handled) \/ j = k
          BY <4>1, <2>3, <1>2, OffsetFacts
        <5> QED BY <5>1, <5>2, <4>3, <2>2, <2>3, OffsetFacts DEF Lines
      <4>5. InSequence'
        BY <4>1, <4>3, <2>2 DEF InSequence
      <4> QED BY <4>4, <4>5
    <3>4. ASSUME errors' = 0
          PROVE  InSequence' /\ \A j \in Lines' : Start(j)' < consumed' <=> j <= Len(handled')
      <4>1. \A j \in Lines : Start(j)' = Start(j)
        BY <1>1 DEF Start
      <4> QED BY <3>3, <3>4, <4>1, <1>1, <1>3, <2>1
    <3> QED BY <3>1, <3>2, <3>4 DEF ServerReads
  <2>7. InLockStep'
    <3>1. ASSUME awaits', \A j \in Lines' : ends'[j] - (IF j = 1 THEN 0 ELSE ends'[j - 1]) <= Buffer
          PROVE  /\ errors' = 0 /\ consumed' \in Boundaries' /\ arrived' \in Boundaries'
                 /\ \A j \in Lines' : j < Len(ends)' => ends'[j] <= consumed'
      <4>1. awaits /\ \A j \in Lines : ends[j] - Start(j) <= Buffer
        BY <3>1, <1>1, <1>3 DEF Start
      <4>2. /\ errors = 0 /\ arrived \in Boundaries
            /\ \A j \in Lines : j < Len(ends) => ends[j] <= consumed
        BY <4>1 DEF InLockStep
      <4>3. errors' = 0 /\ consumed' \in Boundaries' /\ arrived' \in Boundaries'
        BY <4>1, <4>2, <1>4, <1>1, <1>2, <1>3, <2>1, OffsetFacts
      <4>4. \A j \in Lines' : j < Len(ends)' => ends'[j] <= consumed'
        BY <4>2, <1>1, <1>3, <1>2, OffsetFacts
      <4> QED BY <4>3, <4>4
    <3> QED BY <3>1 DEF InLockStep, Start
  <2> QED BY <1>3, <2>4, <2>6, <2>7
<1>6. CASE (\A k \in Lines : Text # Body(k)) /\ handled' = handled /\ errors' = errors + 1
  <2>1. FramingTypeOK'
    BY <1>1, <1>3, <1>6, OffsetFacts DEF FramingTypeOK, Lines, Written
  <2>2. errors' # 0
    BY <1>6 DEF FramingTypeOK
  <2>3. ServerReads'
    <3>1. \A i \in DOMAIN handled' : ends'[handled'[i]] - 1 <= consumed'
      <4>1. \A i \in DOMAIN handled : ends[handled[i]] - 1 <= consumed /\ handled[i] \in Lines
        BY HandledFacts DEF ServerReads
      <4>2. \A i \in DOMAIN handled : ends[handled[i]] - 1 <= Upto
        BY <4>1, <1>1, <1>2, OffsetFacts
      <4> QED BY <4>2, <1>1, <1>6
    <3>2. HandledInOrder'
      BY <1>6 DEF HandledInOrder, ServerReads
    <3> QED BY <3>1, <3>2, <2>2 DEF ServerReads
  <2>4. InLockStep'
    <3>1. ~(awaits /\ \A j \in Lines : ends[j] - Start(j) <= Buffer)
      BY <1>4, <1>6
    <3>2. ~(awaits' /\ \A j \in Lines' : ends'[j] - (IF j = 1 THEN 0 ELSE ends'[j - 1]) <= Buffer)
      BY <3>1, <1>1, <1>3 DEF Start
    <3> QED BY <3>2 DEF InLockStep, Start
  <2> QED BY <1>3, <2>1, <2>3, <2>4
<1> QED BY <1>5, <1>6, ReadFacts

-----------------------------------------------------------------------------
(* The other steps of the server's connection, and of either writer.       *)

LEMMA InitStep == ConnInit => FramingInv
<1> SUFFICES ASSUME ConnInit PROVE FramingInv
  OBVIOUS
<1>1. /\ ends = <<>> /\ handled = <<>> /\ Len(ends) = 0 /\ Len(handled) = 0
      /\ Lines = {} /\ DOMAIN handled = {}
  BY DEF ConnInit, Init, Lines
<1>2. FramingTypeOK /\ LinesApart /\ ModeFits
  BY <1>1 DEF ConnInit, Init, FramingTypeOK, LinesApart, ModeFits, Reader, Written, Lines
<1>3. InSequence /\ HandledInOrder
  BY <1>1 DEF InSequence, HandledInOrder
<1>4. ServerReads /\ InLockStep
  BY <1>1, <1>3 DEF ServerReads, InLockStep, ConnInit, Init, Boundaries
<1>5. ClientKeeps /\ ClientReadsExactly
  BY <1>1 DEF ClientKeeps, ClientReadsExactly, ConnInit, Init, Cut
<1> QED BY <1>2, <1>4, <1>5 DEF FramingInv

\* Lines handled one by one from the first are at most those written.
LEMMA HandledCount ==
    ASSUME FramingTypeOK, InSequence
    PROVE  Len(handled) \in Nat /\ Len(handled) <= Len(ends) /\ (Len(handled) # 0 => Len(handled) \in Lines)
<1>1. Len(handled) # 0 => Len(handled) \in DOMAIN handled
  BY HandledFacts
<1> QED BY <1>1, HandledFacts, OffsetFacts DEF InSequence, Lines

LEMMA WriteStep ==
    ASSUME FramingInv, NEW size \in LineSizes, Write(size)
    PROVE  FramingInv'
<1> USE DEF FramingInv
<1>1. /\ ends' = Append(ends, Written + size) /\ Len(ends) < MaxLines
      /\ awaits => Answered >= Len(ends)
      /\ UNCHANGED <<awaits, arrived, consumed, handled, errors, reader, kept, open>>
  BY DEF Write, WriteLine
<1>2. /\ size \in Nat /\ size >= 2
      /\ ends' \in Seq(Nat) /\ Len(ends') = Len(ends) + 1
      /\ Lines = 1..Len(ends) /\ Lines' = 1..(Len(ends) + 1)
      /\ \A k \in Lines : ends'[k] = ends[k]
      /\ ends'[Len(ends) + 1] = Written + size /\ Written' = Written + size
      /\ LinesApart'
  BY <1>1, WriteFacts
<1>3. /\ Len(ends) \in Nat /\ Written \in Nat /\ arrived \in Nat /\ consumed \in Nat
      /\ consumed <= arrived /\ arrived <= Written
      /\ Lines \subseteq Lines'
  BY <1>2, OffsetFacts
<1>4. FramingTypeOK'
  <2>1. handled' \in Seq(DOMAIN ends')
    BY <1>1, <1>3 DEF FramingTypeOK, Lines
  <2> QED BY <2>1, <1>1, <1>2, <1>3 DEF FramingTypeOK
<1>5. ModeFits'
  BY <1>1 DEF ModeFits
<1>6. \A k \in Lines : Start(k)' = Start(k)
  BY <1>2, <1>3 DEF Start
<1>7. \A k \in Lines' : k \in Lines \/ (k = Len(ends) + 1 /\ Start(k)' = Written)
  <2>1. (IF Len(ends) + 1 = 1 THEN 0 ELSE ends'[Len(ends) + 1 - 1]) = Written
    BY <1>2, OffsetFacts
  <2> QED BY <2>1, <1>2, <1>3 DEF Start
<1>8. ServerReads'
  <2>1. \A i \in DOMAIN handled : ends'[handled[i]] = ends[handled[i]]
    BY <1>2, HandledFacts
  <2>2. ASSUME reader = "server", errors = 0, NEW k \in Lines'
        PROVE  Start(k)' < consumed <=> k <= Len(handled)
    <3>1. InSequence /\ \A j \in Lines : Start(j) < consumed <=> j <= Len(handled)
      BY <2>2 DEF ServerReads
    <3> QED BY <3>1, <1>3, <1>6, <1>7, HandledCount
  <2>3. HandledInOrder' = HandledInOrder /\ InSequence' = InSequence
    BY <1>1 DEF HandledInOrder, InSequence
  <2> QED BY <1>1, <2>1, <2>2, <2>3 DEF ServerReads
<1>9. InLockStep'
  <2>1. ASSUME reader = "server", awaits, \A k \in Lines' : ends'[k] - Start(k)' <= Buffer
        PROVE  /\ errors = 0 /\ consumed \in Boundaries' /\ arrived \in Boundaries'
               /\ \A k \in Lines' : k < Len(ends') => ends'[k] <= consumed
    <3>1. \A k \in Lines : ends[k] - Start(k) <= Buffer
      BY <2>1, <1>2, <1>3, <1>6
    <3>2. /\ errors = 0 /\ consumed \in Boundaries /\ arrived \in Boundaries
          /\ \A k \in Lines : k < Len(ends) => ends[k] <= consumed
      BY <3>1, <2>1 DEF InLockStep
    <3>3. Newlines \subseteq Newlines'
      BY <1>2, <1>3 DEF Newlines, Lines
    <3>4. Len(handled) >= Len(ends)
      BY <1>1, <2>1, <3>2, HandledFacts DEF Answered
    <3>5. ASSUME Len(ends) # 0 PROVE ends[Len(ends)] <= consumed
      <4>1. Len(ends) \in Lines /\ Start(Len(ends)) < consumed /\ Start(Len(ends)) \in Nat
        BY <3>5, <3>2, <3>4, <2>1, OffsetFacts DEF ServerReads
      <4>2. PICK j \in Lines : consumed = ends[j]
        BY <4>1, <3>2, <1>3 DEF Boundaries, Newlines, Lines
      <4>3. j = Len(ends)
        <5>1. j < Len(ends) => ends[j] <= Start(Len(ends))
          BY <4>1, StartFacts
        <5>2. j \in Nat /\ j <= Len(ends) /\ ends[j] \in Nat
          BY <1>2, <1>3, OffsetFacts
        <5> QED BY <5>1, <5>2, <4>1, <4>2, <1>3
      <4> QED BY <4>2, <4>3, OffsetFacts
    <3> QED BY <3>2, <3>3, <3>5, <1>2, <1>3 DEF Boundaries
  <2>2. Start(1)' = 0
    BY DEF Start
  <2> QED BY <1>1, <2>1 DEF InLockStep, Start
<1>10. ClientKeeps' /\ ClientReadsExactly'
  <2>1. ASSUME reader # "server"
        PROVE  /\ Cut' = Cut
               /\ \A k \in Lines' : ends'[k] <= consumed => k <= Len(handled)
    <3>1. InSequence /\ \A k \in Lines : ends[k] <= consumed => k <= Len(handled)
      BY <2>1 DEF ClientReadsExactly, InSequence
    <3>2. handled # <<>> => Len(handled) # 0
      BY HandledFacts DEF FramingTypeOK
    <3>3. Cut' = Cut
      BY <3>1, <3>2, <1>1, <1>2, HandledCount DEF Cut
    <3> QED BY <3>1, <3>3, <1>2, <1>3, <1>7
  <2> QED BY <2>1, <1>1 DEF ClientKeeps, ClientReadsExactly
<1> QED BY <1>2, <1>4, <1>5, <1>8, <1>9, <1>10

LEMMA ArriveStep ==
    ASSUME FramingInv, reader = "server", NEW k \in Lines, Arrive(k), UNCHANGED <<reader, kept, open>>
    PROVE  FramingInv'
<1> USE DEF FramingInv
<1>1. /\ arrived < ends[k] /\ arrived' = ends[k]
      /\ UNCHANGED <<awaits, ends, consumed, handled, errors, reader, kept, open>>
  BY OffsetFacts DEF Arrive
<1>2. FramingTypeOK'
  BY <1>1, LastLine, OffsetFacts DEF FramingTypeOK, Written
<1>3. LinesApart' /\ ModeFits' /\ ServerReads' /\ ClientKeeps' /\ ClientReadsExactly'
  BY <1>1 DEF LinesApart, ModeFits, ServerReads, ClientKeeps, ClientReadsExactly, Lines,
       HandledInOrder, InSequence, Start, Cut
<1>4. arrived' \in Boundaries' /\ Boundaries' = Boundaries
  BY <1>1 DEF Boundaries, Newlines, Lines
<1>5. InLockStep'
  BY <1>1, <1>4 DEF InLockStep, Lines, Start
<1> QED BY <1>2, <1>3, <1>5

LEMMA PartStep ==
    ASSUME FramingInv, ArriveInPart
    PROVE  FramingInv'
<1> USE DEF FramingInv
<1>1. PICK n \in arrived + 1..Written : arrived' = n
  BY DEF ArriveInPart
<1>2. /\ UNCHANGED <<awaits, ends, consumed, handled, errors, reader, kept, open>>
      /\ reader # "server"
  BY DEF ArriveInPart, AtClient
<1>3. FramingTypeOK'
  BY <1>1, <1>2, OffsetFacts DEF FramingTypeOK, Written
<1>4. LinesApart' /\ ModeFits' /\ ClientKeeps' /\ ClientReadsExactly'
  BY <1>2 DEF LinesApart, ModeFits, ClientKeeps, ClientReadsExactly, Lines, Cut
<1>5. ServerReads' /\ InLockStep'
  BY <1>2 DEF ServerReads, InLockStep
<1> QED BY <1>3, <1>4, <1>5

-----------------------------------------------------------------------------
(* A client's reads.                                                       *)

\* A set of the first lines is an interval.
LEMMA FirstLines ==
    ASSUME NEW L \in Nat, NEW T \in SUBSET (1..L),
           \A k \in T : \A j \in 1..L : j < k => j \in T
    PROVE  \E n \in 0..L : T = 1..n
<1>1. IsFiniteSet(1..L) /\ Cardinality(1..L) = L
  BY FS_Interval
<1>2. IsFiniteSet(T) /\ Cardinality(T) \in Nat /\ Cardinality(T) <= L
  <2>1. IsFiniteSet(T) /\ Cardinality(T) <= Cardinality(1..L)
    BY <1>1, FS_Subset
  <2>2. Cardinality(T) \in Nat
    BY <2>1, FS_CardinalityType
  <2> QED BY <1>1, <2>1, <2>2
<1> DEFINE n == Cardinality(T)
<1>3. ASSUME NEW k \in T PROVE k <= n
  <2>1. 1..k \subseteq T
    BY <1>3
  <2>2. Cardinality(1..k) = k
    BY FS_Interval
  <2>3. Cardinality(1..k) <= n
    BY <2>1, <1>2, FS_Subset
  <2> QED BY <2>2, <2>3
<1>4. ASSUME NEW k \in 1..n, k \notin T PROVE FALSE
  <2>1. T \subseteq 1..(k - 1)
    <3>1. ASSUME NEW j \in T PROVE j < k
      BY <1>4, <1>2
    <3> QED BY <3>1, <1>2
  <2>2. IsFiniteSet(1..(k - 1)) /\ Cardinality(1..(k - 1)) = k - 1
    <3>1. k - 1 \in Nat
      BY <1>2
    <3> QED BY <3>1, FS_Interval
  <2> DEFINE I == 1..(k - 1)
  <2> HIDE DEF I
  <2>3. Cardinality(T) <= Cardinality(I)
    BY <2>1, <2>2, FS_Subset DEF I
  <2> QED BY <2>2, <2>3, <1>2 DEF I
<1>5. T = 1..n
  <2>1. n \in Nat /\ \A k \in T : k \in Nat /\ 1 <= k
    BY <1>2
  <2>2. \A k \in T : k <= n
    BY <1>3
  <2>3. \A k \in 1..n : k \in T
    BY <1>4
  <2>4. T \subseteq 1..n
    BY <2>1, <2>2
  <2> HIDE DEF n
  <2> QED BY <2>3, <2>4
<1> QED BY <1>5, <1>2

\* The lines m+1 to n, one after the other.
LEMMA InTurnFacts ==
    ASSUME NEW m \in Nat, NEW n \in Nat, m <= n
    PROVE  /\ InTurn((m + 1)..n) \in Seq(Nat) /\ Len(InTurn((m + 1)..n)) = n - m
           /\ \A i \in 1..(n - m) : InTurn((m + 1)..n)[i] = m + i
<1>1. Cardinality((m + 1)..n) = n - m
  <2>1. Cardinality((m + 1)..n) = IF m + 1 > n THEN 0 ELSE n - (m + 1) + 1
    <3> DEFINE a == m + 1
    <3>1. a \in Int
      OBVIOUS
    <3> HIDE DEF a
    <3>2. Cardinality(a..n) = IF a > n THEN 0 ELSE n - a + 1
      BY <3>1, FS_Interval
    <3> QED BY <3>2 DEF a
  <2> QED BY <2>1
<1>2. m < n => Min((m + 1)..n) = m + 1
  <2>1. m < n => \E x \in (m + 1)..n : \A y \in (m + 1)..n : x <= y
    <3>1. m < n => m + 1 \in (m + 1)..n
      OBVIOUS
    <3> QED BY <3>1
  <2>2. m < n => /\ Min((m + 1)..n) \in (m + 1)..n
                 /\ \A y \in (m + 1)..n : Min((m + 1)..n) <= y
    BY <2>1 DEF Min
  <2> QED BY <2>2
<1>3. InTurn((m + 1)..n) = [i \in 1..(n - m) |-> m + i]
  <2>1. CASE m < n
    BY <2>1, <1>1, <1>2 DEF InTurn
  <2>2. CASE m = n
    BY <2>2, <1>1 DEF InTurn
  <2> QED BY <2>1, <2>2
<1> QED BY <1>3

\* The greatest of some ends is the last one.
LEMMA LastEnd ==
    ASSUME FramingTypeOK, LinesApart, NEW m \in Nat, NEW n \in Lines, m < n
    PROVE  Max({ends[k] : k \in (m + 1)..n}) = ends[n]
<1> DEFINE E == {ends[k] : k \in (m + 1)..n}
<1>1. n \in Nat /\ n <= Len(ends) /\ Len(ends) \in Nat /\ n \in (m + 1)..n
  BY OffsetFacts DEF Lines
<1>2. ASSUME NEW k \in (m + 1)..n PROVE k \in Lines /\ ends[k] <= ends[n] /\ ends[k] \in Nat
  <2>1. k \in Lines /\ (k = n \/ k < n)
    BY <1>1, OffsetFacts DEF Lines
  <2> QED BY <2>1, OffsetFacts DEF LinesApart
<1>3. ends[n] \in E /\ \A x \in E : x <= ends[n] /\ x \in Nat
  BY <1>1, <1>2
<1>4. Max(E) \in E /\ \A x \in E : x <= Max(E)
  <2>1. \E x \in E : \A y \in E : y <= x
    BY <1>3
  <2> QED BY <2>1 DEF Max
<1> HIDE DEF E
<1>5. Max(E) <= ends[n] /\ ends[n] <= Max(E) /\ Max(E) \in Nat /\ ends[n] \in Nat
  BY <1>3, <1>4
<1> QED BY <1>5 DEF E

LEMMA CutStep ==
    ASSUME FramingInv, reader \in {"call", "stream"}, NEW upto \in Nat,
           consumed < upto, upto <= arrived, CutLines(upto),
           UNCHANGED <<awaits, ends, arrived, reader, open>>
    PROVE  FramingInv'
<1> USE DEF FramingInv
<1> DEFINE m == Len(handled)
           cut == {k \in Lines : kept < ends[k] /\ ends[k] <= upto}
           bad == {k \in cut : Start(k) < kept}
<1>1. /\ InSequence /\ (\A k \in Lines : ends[k] <= consumed => k <= m)
      /\ errors = 0 /\ kept = Cut /\ kept <= consumed
  BY DEF ClientReadsExactly, ClientKeeps, InSequence
<1>2. /\ m \in Nat /\ m <= Len(ends) /\ Len(ends) \in Nat /\ Lines = 1..Len(ends)
      /\ kept \in Nat /\ consumed \in Nat /\ \A k \in Lines : ends[k] \in Nat /\ Start(k) \in Nat
      /\ (m = 0 => kept = 0) /\ (m # 0 => m \in Lines /\ kept = ends[m])
  <2>1. handled = <<>> <=> m = 0
    BY HandledFacts DEF FramingTypeOK
  <2> QED BY <2>1, <1>1, HandledCount, OffsetFacts DEF Cut, Lines, ModeFits
<1>3. \A k \in Lines : kept < ends[k] <=> m < k
  <2>1. ASSUME NEW k \in Lines PROVE kept < ends[k] <=> m < k
    <3>1. CASE m = 0
      BY <3>1, <1>2 DEF LinesApart
    <3>2. CASE m # 0
      <4>1. k < m \/ k = m \/ m < k
        BY <1>2
      <4>2. k < m => ends[k] + 2 <= ends[m]
        BY <3>2, <1>2 DEF LinesApart
      <4>3. m < k => ends[m] + 2 <= ends[k]
        BY <3>2, <1>2 DEF LinesApart
      <4> QED BY <3>2, <4>1, <4>2, <4>3, <1>2
    <3> QED BY <3>1, <3>2
  <2> QED BY <2>1
<1>4. bad = {}
  <2>1. ASSUME NEW k \in Lines, m < k PROVE kept <= Start(k)
    BY <2>1, <1>2, StartFacts
  <2> QED BY <2>1, <1>2, <1>3
<1>5. PICK n \in 0..Len(ends) : {k \in Lines : ends[k] <= upto} = 1..n
  <2> DEFINE T == {k \in Lines : ends[k] <= upto}
  <2>1. T \in SUBSET (1..Len(ends))
    BY <1>2
  <2>2. ASSUME NEW k \in T, NEW j \in 1..Len(ends), j < k PROVE j \in T
    <3>1. ends[j] + 2 <= ends[k]
      BY <2>2, <1>2 DEF LinesApart
    <3> QED BY <3>1, <1>2
  <2> HIDE DEF T
  <2>3. \E n \in 0..Len(ends) : T = 1..n
    BY <2>1, <2>2, <1>2, FirstLines
  <2> QED BY <2>3 DEF T
<1>6. m <= n /\ n \in Nat /\ n <= Len(ends)
  <2>1. m # 0 => ends[m] <= upto
    BY <1>1, <1>2
  <2>2. m # 0 => m \in 1..n
    BY <2>1, <1>2, <1>5
  <2> QED BY <2>2, <1>2
<1>7. cut = (m + 1)..n
  <2>1. ASSUME NEW k \in cut PROVE k \in (m + 1)..n
    BY <1>2, <1>3, <1>5, <1>6
  <2>2. ASSUME NEW k \in (m + 1)..n PROVE k \in cut
    <3>1. k \in 1..n /\ m < k
      BY <1>2, <1>6
    <3> QED BY <3>1, <1>3, <1>5
  <2> QED BY <2>1, <2>2
<1>8. /\ consumed' = upto /\ handled' = handled \o InTurn((m + 1)..n) /\ errors' = 0
      /\ kept' = IF (m + 1)..n = {} THEN kept ELSE Max({ends[k] : k \in (m + 1)..n})
  <2>1. cut \ bad = (m + 1)..n
    BY <1>4, <1>7
  <2>2. Cardinality(bad) = 0
    BY <1>4, FS_EmptySet
  <2> HIDE DEF cut, bad
  <2>3. /\ consumed' = upto /\ handled' = handled \o InTurn(cut \ bad)
        /\ errors' = errors + Cardinality(bad)
        /\ kept' = IF cut = {} THEN kept ELSE Max({ends[k] : k \in cut})
    BY DEF CutLines, cut, bad
  <2>4. errors' = 0
    BY <2>2, <2>3, <1>1
  <2> QED BY <2>1, <2>3, <2>4, <1>7, Zenon
<1>9. /\ handled' \in Seq(Nat) /\ Len(handled') = n /\ DOMAIN handled' = 1..n
      /\ \A i \in 1..n : handled'[i] = i
  <2> DEFINE more == InTurn((m + 1)..n)
  <2>1. more \in Seq(Nat) /\ Len(more) = n - m /\ \A i \in 1..(n - m) : more[i] = m + i
    BY <1>2, <1>6, InTurnFacts
  <2>2. handled \in Seq(Nat)
    <3>1. Lines \subseteq Nat
      BY <1>2
    <3> QED BY <3>1 DEF FramingTypeOK, Lines
  <2> HIDE DEF more
  <2>3. /\ handled \o more \in Seq(Nat) /\ Len(handled \o more) = m + (n - m)
        /\ DOMAIN (handled \o more) = 1..(m + (n - m))
        /\ \A i \in 1..(m + (n - m)) :
              (handled \o more)[i] = IF i <= m THEN handled[i] ELSE more[i - m]
    BY <2>1, <2>2, ConcatFacts
  <2>4. \A i \in 1..m : handled[i] = i
    BY <1>1, HandledFacts DEF InSequence
  <2>5. m + (n - m) = n
    BY <1>2, <1>6
  <2>6. ASSUME NEW i \in 1..n PROVE (handled \o more)[i] = i
    <3>1. (handled \o more)[i] = IF i <= m THEN handled[i] ELSE more[i - m]
      BY <2>3, <2>5
    <3> HIDE DEF m
    <3>2. CASE i <= m
      BY <1>2, <2>4, <3>1, <3>2
    <3>3. CASE i > m
      <4>1. i - m \in 1..(n - m) /\ ~(i <= m)
        BY <1>2, <1>6, <3>3
      <4> QED BY <1>2, <1>6, <2>1, <3>1, <4>1
    <3>4. i <= m \/ i > m
      BY <1>2, <1>6
    <3> QED BY <3>2, <3>3, <3>4
  <2> QED BY <2>3, <2>5, <2>6, <1>8 DEF more
<1>10. /\ kept' = IF n = 0 THEN 0 ELSE ends[n]
       /\ kept' \in Nat /\ kept' <= upto
  <2>1. CASE m = n
    <3>1. (m + 1)..n = {}
      BY <2>1, <1>2
    <3> QED BY <2>1, <3>1, <1>1, <1>2, <1>8
  <2>2. CASE m < n
    <3>1. n \in (m + 1)..n /\ n \in Lines /\ n \in 1..n
      BY <2>2, <1>2, <1>6
    <3>2. kept' = ends[n]
      BY <3>1, <2>2, <1>2, <1>8, LastEnd
    <3> QED BY <3>1, <3>2, <2>2, <1>2, <1>5
  <2> QED BY <2>1, <2>2, <1>2, <1>6
<1>11. FramingTypeOK'
  <2>1. \A i \in 1..n : handled'[i] \in DOMAIN ends
    BY <1>2, <1>6, <1>9 DEF Lines
  <2>2. handled' \in Seq(DOMAIN ends)
    BY <2>1, <1>9, ElementOfSeq, SeqDef, IsASeq
  <2> QED BY <2>2, <1>8, OffsetFacts DEF FramingTypeOK, Written
<1>12. LinesApart' /\ ModeFits' /\ ServerReads' /\ InLockStep'
  BY <1>10 DEF LinesApart, Lines, ModeFits, ServerReads, InLockStep
<1>13. ClientReadsExactly'
  <2>1. \A k \in Lines : ends[k] <= upto => k <= n
    BY <1>5, <1>2
  <2> QED BY <2>1, <1>8, <1>9 DEF ClientReadsExactly, Lines
<1>14. ClientKeeps'
  <2>1. handled' = <<>> <=> n = 0
    BY <1>9, <1>6
  <2>2. Cut' = kept'
    BY <2>1, <1>9, <1>10 DEF Cut
  <2> QED BY <2>2, <1>8, <1>10 DEF ClientKeeps
<1> QED BY <1>11, <1>12, <1>13, <1>14

LEMMA EndStep ==
    ASSUME FramingInv, ReadEnd
    PROVE  FramingInv'
<1> USE DEF FramingInv
<1>1. /\ reader \in {"call", "stream"} /\ ~open /\ reader' = "done"
      /\ UNCHANGED <<awaits, ends, arrived, consumed, kept, open>>
  BY DEF ReadEnd, AtClient
<1>2. /\ InSequence /\ (\A k \in Lines : ends[k] <= consumed => k <= Len(handled))
      /\ errors = 0 /\ kept = Cut /\ kept <= consumed
  BY <1>1 DEF ClientReadsExactly, ClientKeeps, InSequence
<1>3. \/ \E k \in Lines : (kept + 1)..consumed = Body(k) /\ handled' = Append(handled, k) /\ errors' = errors
      \/ handled' = handled /\ errors' \in {errors, errors + 1}
  BY DEF ReadEnd, Lines
<1>4. LinesApart' /\ ModeFits' /\ ServerReads' /\ InLockStep' /\ ClientKeeps'
  BY <1>1 DEF LinesApart, Lines, ModeFits, Reader, ServerReads, InLockStep, ClientKeeps
<1>5. CASE \E k \in Lines : (kept + 1)..consumed = Body(k) /\ handled' = Append(handled, k) /\ errors' = errors
  <2>1. PICK k \in Lines : (kept + 1)..consumed = Body(k) /\ handled' = Append(handled, k) /\ errors' = errors
    BY <1>5
  <2> DEFINE m == Len(handled)
  <2>2. /\ m \in Nat /\ m <= Len(ends) /\ Len(ends) \in Nat /\ Lines = 1..Len(ends)
        /\ kept \in Nat /\ consumed \in Nat /\ \A j \in Lines : ends[j] \in Nat /\ ends[j] >= 2
        /\ (m = 0 => kept = 0) /\ (m # 0 => m \in Lines /\ kept = ends[m])
    <3>1. handled = <<>> <=> m = 0
      BY HandledFacts DEF FramingTypeOK
    <3> QED BY <3>1, <1>2, HandledCount, OffsetFacts DEF Cut, Lines, ModeFits, LinesApart
  <2>3. Start(k) = kept
    <3>1. /\ Start(k) + 1 \in (kept + 1)..consumed
          /\ \A x \in (kept + 1)..consumed : Start(k) < x
      BY <2>1, BodyFacts
    <3>2. kept + 1 \in (kept + 1)..consumed
      BY <3>1, <2>2
    <3> QED BY <3>1, <3>2, <2>2, StartFacts
  <2>4. k = m + 1
    <3>1. CASE k = 1
      BY <3>1, <2>2, <2>3 DEF Start
    <3>2. CASE k # 1
      <4>1. k - 1 \in Lines /\ ends[k - 1] = kept
        BY <3>2, <2>2, <2>3 DEF Start
      <4>2. m # 0 /\ m \in Lines /\ ends[m] = ends[k - 1]
        BY <4>1, <2>2
      <4>3. m = k - 1
        <5>1. m < k - 1 => ends[m] + 2 <= ends[k - 1]
          BY <4>1, <4>2 DEF LinesApart
        <5>2. k - 1 < m => ends[k - 1] + 2 <= ends[m]
          BY <4>1, <4>2 DEF LinesApart
        <5> QED BY <5>1, <5>2, <4>1, <4>2, <2>2
      <4> QED BY <4>3, <2>2
    <3> QED BY <3>1, <3>2
  <2>5. /\ handled' \in Seq(Lines) /\ Len(handled') = m + 1 /\ DOMAIN handled = 1..m
        /\ DOMAIN handled' = 1..(m + 1)
        /\ \A i \in 1..m : handled'[i] = handled[i]
        /\ handled'[m + 1] = k
    <3>1. handled \in Seq(Lines)
      BY DEF FramingTypeOK, Lines
    <3> QED BY <3>1, <2>1, AppendFacts
  <2>6. FramingTypeOK'
    BY <2>1, <2>5, <1>1, OffsetFacts DEF FramingTypeOK, Written, Lines
  <2>7. ClientReadsExactly'
    <3>1. \A i \in 1..(m + 1) : handled'[i] = i
      <4>1. \A i \in 1..m : handled'[i] = i
        BY <1>2, <2>5 DEF InSequence
      <4> HIDE DEF m
      <4> QED BY <4>1, <2>2, <2>4, <2>5
    <3>2. \A j \in Lines : ends[j] <= consumed => j <= m + 1
      BY <1>2, <2>2
    <3> QED BY <3>1, <3>2, <2>5, <1>1 DEF ClientReadsExactly, Lines
  <2> QED BY <2>6, <2>7, <1>4
<1>6. CASE handled' = handled /\ errors' \in {errors, errors + 1}
  <2>1. FramingTypeOK'
    BY <1>1, <1>6, OffsetFacts DEF FramingTypeOK, Written
  <2>2. ClientReadsExactly'
    BY <1>1, <1>2, <1>6 DEF ClientReadsExactly, InSequence, Lines
  <2> QED BY <2>1, <2>2, <1>4
<1> QED BY <1>3, <1>5, <1>6

\* Nothing but the reader or the connection changes.
LEMMA QuietStep ==
    ASSUME FramingInv,
           \/ HandOver \/ Close \/ UNCHANGED allVars
    PROVE  FramingInv'
<1> USE DEF FramingInv
<1>1. /\ UNCHANGED <<awaits, ends, arrived, consumed, handled, errors, kept>>
      /\ \/ reader' = reader /\ open' = open
         \/ reader = "call" /\ reader' = "stream" /\ open' = open
         \/ reader \in {"call", "stream"} /\ reader' = reader /\ open' = FALSE
  BY DEF HandOver, Close, AtClient, allVars, vars
<1>2. FramingTypeOK' /\ LinesApart'
  BY <1>1 DEF FramingTypeOK, LinesApart, Lines, Written
<1>3. ModeFits'
  <2>1. reader' \in Reader /\ kept' \in Nat
    BY <1>1 DEF ModeFits, Reader
  <2>2. open' \in BOOLEAN
    BY <1>1, Zenon DEF ModeFits
  <2>3. (reader' # "server" => reader # "server") /\ (reader' = "done" => reader = "done")
    BY <1>1
  <2>4. reader' # "server" => ~awaits'
    BY <1>1, <2>3, Zenon DEF ModeFits
  <2>5. reader' = "done" => ~open'
    BY <1>1, <2>3, Zenon DEF ModeFits
  <2> QED BY <2>1, <2>2, <2>4, <2>5 DEF ModeFits
<1>4. reader' # "server" => ClientReadsExactly' /\ ClientKeeps'
  BY <1>1 DEF ClientKeeps, ClientReadsExactly, Lines, Cut, ModeFits
<1>5. reader' = "server" => ClientReadsExactly' /\ ClientKeeps'
  BY DEF ClientKeeps, ClientReadsExactly
<1>6. ServerReads' /\ InLockStep'
  BY <1>1 DEF ServerReads, InLockStep, HandledInOrder, InSequence, Lines, Boundaries, Newlines, Start
<1> QED BY <1>2, <1>3, <1>4, <1>5, <1>6

-----------------------------------------------------------------------------
(* What the readers promise.                                               *)

LEMMA FramingStep == FramingInv /\ [ConnNext]_allVars => FramingInv'
<1> SUFFICES ASSUME FramingInv, [ConnNext]_allVars PROVE FramingInv'
  OBVIOUS
<1>1. ASSUME NEW size \in LineSizes, Write(size) PROVE FramingInv'
  BY <1>1, WriteStep
<1>2. CASE ServerSide
  <2>1. reader = "server" /\ UNCHANGED <<reader, kept, open>>
    BY <1>2 DEF ServerSide
  <2>2. ASSUME NEW k \in Lines, Arrive(k) PROVE FramingInv'
    BY <2>1, <2>2, ArriveStep
  <2>3. CASE Read
    BY <2>1, <2>3, ReadStep
  <2> QED BY <1>2, <2>2, <2>3 DEF ServerSide
<1>3. CASE ArriveInPart
  BY <1>3, PartStep
<1>4. CASE ClientReads
  <2>1. FramingTypeOK
    BY DEF FramingInv
  <2>2. CASE ReadLine
    <3>1. consumed + 1 \in Nat /\ consumed < consumed + 1 /\ consumed + 1 <= arrived
      BY <2>1, <2>2, OffsetFacts DEF ReadLine
    <3> QED BY <2>2, <3>1, CutStep DEF ReadLine
  <2>3. CASE ReadStream
    <3>1. Upto \in Nat /\ consumed < Upto /\ Upto <= arrived
      BY <2>1, <2>3, UptoFacts DEF ReadStream
    <3> QED BY <2>3, <3>1, CutStep DEF ReadStream, Upto
  <2> QED BY <1>4, <2>2, <2>3, QuietStep DEF ClientReads
<1>5. CASE ReadEnd
  BY <1>5, EndStep
<1> QED BY <1>1, <1>2, <1>3, <1>4, <1>5, QuietStep DEF ConnNext, Idle

LEMMA FramingInvariant == ConnSpec => []FramingInv
  BY InitStep, FramingStep, PTL DEF ConnSpec

\* Reads never pass what has arrived, nor arrivals what was written; only
\* lines that exist are handled.
THEOREM FramingTyped == ConnSpec => []FramingTypeOK
<1>1. FramingInv => FramingTypeOK
  BY DEF FramingInv
<1> QED BY <1>1, FramingInvariant, PTL

\* A client takes the server's lines one by one from the first, in whatever
\* pieces they arrive and across the change from read_line to the accumulator.
THEOREM ClientExact == ConnSpec => []ClientReadsExactly
<1>1. FramingInv => ClientReadsExactly
  BY DEF FramingInv
<1> QED BY <1>1, FramingInvariant, PTL

\* No line is handled twice or after a later one, whatever the line and buffer
\* sizes and the timing of the reads.
THEOREM InOrder == ConnSpec => []HandledInOrder
<1>1. ASSUME FramingInv, reader # "server" PROVE HandledInOrder
  BY <1>1 DEF FramingInv, ClientReadsExactly, HandledInOrder
<1>2. ASSUME FramingInv, reader = "server" PROVE HandledInOrder
  BY <1>2 DEF FramingInv, ServerReads
<1>3. FramingInv => HandledInOrder
  BY <1>1, <1>2
<1> QED BY <1>3, FramingInvariant, PTL

\* When all that was written has been read, either every line was handled or
\* the reader noticed an error.
THEOREM NoSilentLoss == ConnSpec => []LostIsReported
<1>1. ASSUME FramingInv PROVE LostIsReported
  <2>1. SUFFICES ASSUME consumed = Written, Len(handled) < Len(ends), errors = 0 PROVE FALSE
    BY <1>1 DEF LostIsReported, FramingInv, FramingTypeOK
  <2>2. FramingTypeOK /\ LinesApart
    BY <1>1 DEF FramingInv
  <2>3. Len(ends) \in Lines /\ ends[Len(ends)] = consumed
    BY <2>1, <2>2, OffsetFacts, HandledFacts
  <2>4. Start(Len(ends)) < consumed /\ ends[Len(ends)] <= consumed
    BY <2>2, <2>3, StartFacts, OffsetFacts
  <2>5. Len(ends) <= Len(handled)
    BY <1>1, <2>1, <2>3, <2>4 DEF FramingInv, ServerReads, ClientReadsExactly
  <2> QED BY <2>1, <2>2, <2>5, OffsetFacts, HandledFacts
<1> QED BY <1>1, FramingInvariant, PTL

\* A client that awaits each answer and keeps its lines within the server's
\* buffer has every line it sent handled, and gets no "Invalid JSON".
THEOREM LockStep == ConnSpec => []LockStepIsExact
<1>1. ASSUME FramingInv PROVE LockStepIsExact
  <2>1. SUFFICES ASSUME awaits, \A k \in Lines : ends[k] - Start(k) <= Buffer
                 PROVE  EveryLineHandled /\ errors = 0
    BY DEF LockStepIsExact, Lines
  <2>2. reader = "server" /\ FramingTypeOK /\ LinesApart
    BY <1>1, <2>1 DEF FramingInv, ModeFits
  <2>3. errors = 0
    BY <1>1, <2>1, <2>2 DEF FramingInv, InLockStep
  <2>4. InSequence /\ \A k \in Lines : Start(k) < consumed <=> k <= Len(handled)
    BY <1>1, <2>2, <2>3 DEF FramingInv, ServerReads
  <2>5. ASSUME NEW k \in Lines, ends[k] <= consumed PROVE k \in DOMAIN handled /\ handled[k] = k
    <3>1. Start(k) < consumed
      BY <2>2, <2>5, StartFacts, OffsetFacts
    <3>2. k \in 1..Len(handled)
      BY <2>2, <2>4, <3>1, OffsetFacts, HandledFacts DEF Lines
    <3> QED BY <2>2, <2>4, <3>2, HandledFacts DEF InSequence
  <2> QED BY <2>3, <2>5 DEF EveryLineHandled, Lines
<1> QED BY <1>1, FramingInvariant, PTL
=============================================================================
