----------------------------- MODULE ServerFraming -----------------------------
(***************************************************************************)
(* From a client's newline-terminated lines to the requests the server     *)
(* sees.  A line is written as one TLS record, records arrive whole and in *)
(* order, and stream.read takes what has arrived up to the size of the     *)
(* buffer.  The server parses every chunk it reads as one JSON text: it    *)
(* looks for no newline and keeps nothing over to the next read.           *)
(***************************************************************************)
EXTENDS Integers, Sequences

CONSTANTS
    LineSizes,  \* bytes of a line, its newline included
    Buffer,     \* size of handle_client_loop's buffer (1024 in the code)
    MaxLines    \* bound: lines written in a behaviour

ASSUME FramingAssumption ==
    LineSizes \subseteq Nat \ {0, 1} /\ Buffer \in Nat \ {0} /\ MaxLines \in Nat

VARIABLES
    awaits,    \* does this client wait for an answer before it writes again?
    ends,      \* ends[k]: offset in the stream of line k's newline
    arrived,   \* bytes that have arrived, always whole lines
    consumed,  \* bytes the server has read
    handled,   \* the lines it parsed, in order
    errors     \* chunks answered with "Invalid JSON"

vars == <<awaits, ends, arrived, consumed, handled, errors>>

Start(k) == IF k = 1 THEN 0 ELSE ends[k - 1]
Written  == IF ends = <<>> THEN 0 ELSE ends[Len(ends)]
Body(k)  == (Start(k) + 1)..(ends[k] - 1)
Newlines == {ends[k] : k \in DOMAIN ends}

Init ==
    /\ awaits \in BOOLEAN
    /\ ends = <<>> /\ arrived = 0 /\ consumed = 0
    /\ handled = <<>> /\ errors = 0

Answered == Len(handled) + errors

\* write_all of one line, and flush
WriteLine(size) ==
    /\ Len(ends) < MaxLines
    /\ awaits => Answered >= Len(ends)
    /\ ends' = Append(ends, Written + size)
    /\ UNCHANGED <<awaits, arrived, consumed, handled, errors>>

Arrive(k) ==
    /\ ends[k] > arrived
    /\ arrived' = ends[k]
    /\ UNCHANGED <<awaits, ends, consumed, handled, errors>>

\* Mutants of Read: the whole buffer is parsed, not the part read; the buffer is
\* one byte short; a parsed chunk is not consumed; a failed parse is not answered.
ReadWholeBuffer ==
    LET upto == consumed + Buffer
    IN  /\ consumed < arrived /\ consumed' = upto
        /\ \/ \E k \in DOMAIN ends : ends[k] = upto /\ handled' = Append(handled, k) /\ UNCHANGED errors
           \/ upto \notin Newlines /\ errors' = errors + 1 /\ UNCHANGED handled
        /\ UNCHANGED <<awaits, ends, arrived>>

ReadShort ==
    LET upto == IF arrived - consumed < Buffer THEN arrived ELSE consumed + Buffer - 1
        text == ((consumed + 1)..upto) \ Newlines
    IN  /\ consumed < arrived /\ consumed' = upto
        /\ \/ \E k \in DOMAIN ends : text = Body(k) /\ handled' = Append(handled, k) /\ UNCHANGED errors
           \/ (\A k \in DOMAIN ends : text # Body(k)) /\ errors' = errors + 1 /\ UNCHANGED handled
        /\ UNCHANGED <<awaits, ends, arrived>>

ReadAgain ==
    /\ consumed < arrived /\ Len(handled) < MaxLines
    /\ \E k \in DOMAIN ends : Start(k) = consumed /\ handled' = Append(handled, k)
    /\ UNCHANGED <<awaits, ends, arrived, consumed, errors>>

ReadSilent ==
    LET upto == IF arrived - consumed <= Buffer THEN arrived ELSE consumed + Buffer
        text == ((consumed + 1)..upto) \ Newlines
    IN  /\ consumed < arrived /\ consumed' = upto
        /\ \/ \E k \in DOMAIN ends : text = Body(k) /\ handled' = Append(handled, k)
           \/ (\A k \in DOMAIN ends : text # Body(k)) /\ UNCHANGED handled
        /\ UNCHANGED <<awaits, ends, arrived, errors>>

\* One stream.read and the serde_json::from_str of the chunk.  The text parses
\* when it is one whole object; white space around it, a newline, is ignored.
Read ==
    LET upto == IF arrived - consumed <= Buffer THEN arrived ELSE consumed + Buffer
        text == ((consumed + 1)..upto) \ Newlines
    IN  /\ consumed < arrived
        /\ consumed' = upto
        /\ \/ /\ \E k \in DOMAIN ends : text = Body(k) /\ handled' = Append(handled, k)
              /\ UNCHANGED errors
           \/ /\ \A k \in DOMAIN ends : text # Body(k)
              /\ errors' = errors + 1
              /\ UNCHANGED handled
        /\ UNCHANGED <<awaits, ends, arrived>>

Quiescent == Len(ends) = MaxLines /\ consumed = Written /\ UNCHANGED vars

Next ==
    \/ \E size \in LineSizes : WriteLine(size)
    \/ \E k \in DOMAIN ends : Arrive(k)
    \/ Read \/ Quiescent

Spec == Init /\ [][Next]_vars

-----------------------------------------------------------------------------
\* The shape of every variable; reads never pass what has arrived.
FramingTypeOK ==
    /\ awaits \in BOOLEAN
    /\ ends \in Seq(Nat) /\ Len(ends) <= MaxLines
    /\ arrived \in 0..Written
    /\ consumed \in 0..arrived
    /\ handled \in Seq(DOMAIN ends) /\ errors \in Nat

\* Whatever the sizes and the timing, no line is handled twice or out of order.
HandledInOrder ==
    \A i, j \in DOMAIN handled : i < j => handled[i] < handled[j]

\* A line that was swallowed leaves a trace: an "Invalid JSON" answer.
LostIsReported ==
    consumed = Written /\ Len(handled) < Len(ends) => errors > 0

\* PROTOCOL.md:6 "one JSON object per line": every line read is handled.
EveryLineHandled ==
    \A k \in DOMAIN ends : ends[k] <= consumed => \E i \in DOMAIN handled : handled[i] = k

\* A client that waits for each answer and keeps its lines within the buffer
\* has every line handled, in order, and never sees an error.
LockStepIsExact ==
    awaits /\ (\A k \in DOMAIN ends : ends[k] - Start(k) <= Buffer)
    => EveryLineHandled /\ errors = 0
=============================================================================
