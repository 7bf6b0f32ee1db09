--------------------------- MODULE ConnectionFraming ---------------------------
(***************************************************************************)
(* The readers of newline-terminated lines at both ends of a connection.   *)
(* The server reads as in ServerFraming.  The SDK's calls read their       *)
(* answers byte by byte (read_line); the thread of a stream goes on from   *)
(* there with an accumulator that it cuts at newlines.  A line of the      *)
(* server may need several TLS records, so its bytes arrive in pieces, and *)
(* the connection may end between any two of them.                         *)
(***************************************************************************)
EXTENDS ServerFraming, FiniteSetsExt

VARIABLES
    reader,  \* who reads: "server", "call", "stream", or "done"
    kept,    \* a client has not yet cut into lines what follows this offset
    open     \* does the writer still hold the connection?

allVars == <<vars, reader, kept, open>>

ConnInit ==
    /\ Init
    /\ reader \in {"server", "call"}
    /\ reader = "call" => ~awaits   \* the server pushes when it likes
    /\ kept = 0 /\ open = TRUE

AtClient == reader \in {"call", "stream"}
Lines    == DOMAIN ends

ServerSide ==
    /\ reader = "server"
    /\ \/ \E k \in Lines : Arrive(k)
       \/ Read
    /\ UNCHANGED <<reader, kept, open>>

Write(size) == open /\ WriteLine(size) /\ UNCHANGED <<reader, kept, open>>

ArriveInPart ==
    /\ AtClient
    /\ \E n \in arrived + 1..Written : arrived' = n
    /\ UNCHANGED <<awaits, ends, consumed, handled, errors, reader, kept, open>>

\* consecutive lines, one after the other
InTurn(lines) == [i \in 1..Cardinality(lines) |-> Min(lines) + i - 1]

\* the lines whose newline is among the bytes up to `upto`, cut off one by one;
\* the first one parses if nothing was dropped in front of it
CutLines(upto) ==
    LET cut == {k \in Lines : kept < ends[k] /\ ends[k] <= upto}
        bad == {k \in cut : Start(k) < kept}
    IN  /\ consumed' = upto
        /\ handled' = handled \o InTurn(cut \ bad)
        /\ errors' = errors + Cardinality(bad)
        /\ kept' = IF cut = {} THEN kept ELSE Max({ends[k] : k \in cut})

\* Mutant: read_line reads a buffer and keeps none of what follows the newline.
ReadLineBuffered ==
    LET upto == IF arrived - consumed <= Buffer THEN arrived ELSE consumed + Buffer
        next == {k \in Lines : kept < ends[k] /\ ends[k] <= upto}
    IN  /\ reader = "call" /\ consumed < arrived
        /\ consumed' = upto
        /\ \/ next = {} /\ UNCHANGED <<handled, kept>>
           \/ next # {} /\ handled' = Append(handled, Min(next)) /\ kept' = upto
        /\ UNCHANGED <<awaits, ends, arrived, errors, reader, open>>

\* read_line: one byte of the connection, so that nothing after the newline is
\* taken from the next reader
ReadLine ==
    /\ reader = "call" /\ consumed < arrived
    /\ CutLines(consumed + 1)
    /\ UNCHANGED <<awaits, ends, arrived, reader, open>>

\* open_message_stream_tls: after the prompt and the auth_response
HandOver ==
    /\ reader = "call" /\ Len(handled) = 2 /\ kept = consumed
    /\ reader' = "stream"
    /\ UNCHANGED <<vars, kept, open>>

\* Mutant: the accumulator starts empty at every read.
ReadStreamAfresh ==
    LET upto == IF arrived - consumed <= Buffer THEN arrived ELSE consumed + Buffer
        cut  == {k \in Lines : Start(k) >= consumed /\ ends[k] <= upto}
    IN  /\ reader = "stream" /\ consumed < arrived
        /\ consumed' = upto /\ kept' = upto
        /\ handled' = handled \o InTurn(cut)
        /\ UNCHANGED <<awaits, ends, arrived, errors, reader, open>>

\* the stream's thread: one read, and every complete line of the accumulator
ReadStream ==
    /\ reader = "stream" /\ consumed < arrived
    /\ CutLines(IF arrived - consumed <= Buffer THEN arrived ELSE consumed + Buffer)
    /\ UNCHANGED <<awaits, ends, arrived, reader, open>>

Close ==
    /\ AtClient /\ open
    /\ open' = FALSE
    /\ UNCHANGED <<vars, reader, kept>>

\* End of file: read_line returns what it has, which parses when only the
\* newline is missing; the thread drops what is left in the accumulator.
ReadEnd ==
    LET text == (kept + 1)..consumed
    IN  /\ AtClient /\ ~open /\ consumed = arrived
        /\ \/ /\ reader = "call"
              /\ \E k \in Lines : text = Body(k) /\ handled' = Append(handled, k)
              /\ UNCHANGED errors
           \/ /\ reader = "call"
              /\ \A k \in Lines : text # Body(k)
              /\ errors' = errors + 1 /\ UNCHANGED handled
           \/ reader = "stream" /\ UNCHANGED <<handled, errors>>
        /\ reader' = "done"
        /\ UNCHANGED <<awaits, ends, arrived, consumed, kept, open>>

Idle ==
    /\ reader = "done" \/ (reader = "server" /\ Len(ends) = MaxLines /\ consumed = Written)
    /\ UNCHANGED allVars

ClientReads == ReadLine \/ ReadStream \/ HandOver

ConnNext ==
    \/ \E size \in LineSizes : Write(size)
    \/ ServerSide
    \/ ArriveInPart \/ ClientReads \/ Close \/ ReadEnd
    \/ Idle

\* what is written on an open connection arrives; tasks and threads go on
ConnSpec ==
    /\ ConnInit /\ [][ConnNext]_allVars
    /\ WF_allVars(ServerSide) /\ WF_allVars(ArriveInPart) /\ WF_allVars(ClientReads)

-----------------------------------------------------------------------------
\* Whatever pieces the lines of the server arrive in, and across the change
\* from read_line to the accumulator, a client takes them one by one from the
\* first: no byte is dropped, no line merged, split or taken twice.
ClientReadsExactly ==
    reader # "server" =>
        /\ \A i \in DOMAIN handled : handled[i] = i
        /\ \A k \in Lines : ends[k] <= consumed => k <= Len(handled)
        /\ open => errors = 0

\* Every line written is handled or reported, or the connection ended first.
EveryLineSettled ==
    \A k \in 1..MaxLines :
        (Len(ends) >= k) ~> (errors > 0 \/ ~open \/ \E i \in DOMAIN handled : handled[i] = k)
=============================================================================
