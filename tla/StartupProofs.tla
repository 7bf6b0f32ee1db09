------------------------------ MODULE StartupProofs ------------------------------
(***************************************************************************)
(* A serving process works on a complete, migrated file, and no start      *)
(* clears a mark: for any number of processes, launches, faults and rows.  *)
(***************************************************************************)
EXTENDS Startup, SequenceFacts

\* What each step of a start has already seen done to the file.  Nothing in it
\* is ever undone, so what a process saw still holds after any step of another.
SeenDone ==
    \A p \in Process :
        /\ pc[p] \in Alive \ {"users"} => "users" \in tables
        /\ pc[p] \in Alive \ {"users", "messages"} => "messages" \in tables
        /\ pc[p] \in {"connections", "cert", "key", "bind", "serving"} => column
        /\ pc[p] \in {"cert", "key", "bind", "serving"} => "connections" \in tables

\* Rows and column agree, and a file without the table has neither.
RowsFit ==
    /\ \A i \in DOMAIN rows : rows[i] \in IF column THEN {"plain", "saved"} ELSE {"legacy"}
    /\ "messages" \notin tables => rows = <<>> /\ ~column

StartInv == StartTypeOK /\ SeenDone /\ RowsFit

\* The sequences the file starts and goes on with.
LEMMA OneRow == ASSUME NEW S, NEW e \in S PROVE <<e>> \in Seq(S)
  OBVIOUS

LEMMA RowReplaced ==
    ASSUME NEW S, NEW q \in Seq(S), NEW i \in DOMAIN q, NEW e \in S
    PROVE  [q EXCEPT ![i] = e] \in Seq(S)
  OBVIOUS

LEMMA StartInit == Init => StartInv
  <1> SUFFICES ASSUME Init PROVE StartInv
      OBVIOUS
  <1> USE StartupAssumption DEF Init, Table, Alive, Ended, DbStep
  <1>1. StartTypeOK
    <2>1. rows \in Seq({"legacy", "plain", "saved"}) /\ column \in BOOLEAN /\ tables \subseteq Table
      <3>1. <<"legacy">> \in Seq({"legacy", "plain", "saved"})
          BY OneRow
      <3>2. <<"saved">> \in Seq({"legacy", "plain", "saved"})
          BY OneRow
      <3>3. <<>> \in Seq({"legacy", "plain", "saved"})
          OBVIOUS
      <3>4. rows = <<>> \/ rows = <<"legacy">> \/ rows = <<"saved">>
          OBVIOUS
      <3>5. rows \in Seq({"legacy", "plain", "saved"})
          BY ONLY <3>1, <3>2, <3>3, <3>4, Zenon
      <3>6. column \in BOOLEAN /\ tables \subseteq Table
          OBVIOUS
      <3> QED BY <3>5, <3>6
    <2> QED BY <2>1 DEF StartTypeOK
  <1>2. SeenDone
      BY DEF SeenDone
  <1>3. RowsFit
      BY DEF RowsFit
  <1> QED BY <1>1, <1>2, <1>3 DEF StartInv

\* Every step keeps the invariant: statements only add to the file, so another
\* process that is past one still finds it done.
LEMMA StartInductive == StartInv /\ [Next]_vars => StartInv'
  <1> SUFFICES ASSUME StartInv, [Next]_vars PROVE StartInv'
      OBVIOUS
  <1> USE StartupAssumption DEF StartInv, StartTypeOK, SeenDone, RowsFit, Alive, Ended, DbStep,
          Table, args, file
  <1>1. ASSUME NEW p \in Process, Launch(p) PROVE StartInv'
      BY <1>1 DEF Launch
  <1>2. ASSUME NEW p \in Process, CreateUsers(p) PROVE StartInv'
      BY <1>2 DEF CreateUsers, Move
  <1>3. ASSUME NEW p \in Process, CreateMessages(p) PROVE StartInv'
      BY <1>3 DEF CreateMessages, Move
  <1>4. ASSUME NEW p \in Process, Inspect(p) PROVE StartInv'
      BY <1>4 DEF Inspect, Move
  <1>5. ASSUME NEW p \in Process, Alter(p) PROVE StartInv'
    <2>1. CASE column
        BY <1>5, <2>1 DEF Alter, Move
    <2>2. CASE ~column
      <3>1. /\ Move(p, "alter", "connections")
            /\ column' = TRUE /\ rows' = [i \in DOMAIN rows |-> "plain"]
            /\ UNCHANGED <<args, tables, launches, faults>>
          BY <1>5, <2>2 DEF Alter
      <3>2. rows' \in Seq({"legacy", "plain", "saved"})
          BY <3>1
      <3>3. \A i \in DOMAIN rows' : rows'[i] = "plain"
          BY <3>1
      <3> QED BY <3>1, <3>2, <3>3 DEF Move
    <2> QED BY <2>1, <2>2
  <1>6. ASSUME NEW p \in Process, CreateConnections(p) PROVE StartInv'
      BY <1>6 DEF CreateConnections, Move
  <1>7. ASSUME NEW p \in Process, LoadCerts(p) PROVE StartInv'
      BY <1>7 DEF LoadCerts, Move
  <1>8. ASSUME NEW p \in Process, LoadKey(p) PROVE StartInv'
    <2>1. \E to \in {"bind", "failed"} : Move(p, "key", to) /\ UNCHANGED <<args, file, launches, faults>>
        BY <1>8 DEF LoadKey
    <2> QED BY <2>1 DEF Move
  <1>9. ASSUME NEW p \in Process, Bind(p) PROVE StartInv'
    <2>1. \E to \in {"serving", "failed"} : Move(p, "bind", to) /\ UNCHANGED <<args, file, launches, faults>>
        BY <1>9 DEF Bind
    <2> QED BY <2>1 DEF Move
  <1>10. ASSUME NEW p \in Process, Serve(p) PROVE StartInv'
    <2>1. column /\ rows \in Seq({"plain", "saved"}) /\ "messages" \in tables
        BY <1>10 DEF Serve
    <2>2. rows' \in Seq({"plain", "saved"})
      <3>1. PICK flag \in {"plain", "saved"} :
               \/ rows' = Append(rows, flag)
               \/ \E i \in DOMAIN rows : rows' = [rows EXCEPT ![i] = flag]
          BY <1>10 DEF Serve
      <3>2. CASE rows' = Append(rows, flag)
          BY <2>1, <3>2, AppendFacts
      <3>3. ASSUME NEW i \in DOMAIN rows, rows' = [rows EXCEPT ![i] = flag]
            PROVE  rows' \in Seq({"plain", "saved"})
          BY <2>1, <3>3, RowReplaced
      <3> QED BY <3>1, <3>2, <3>3
    <2> QED BY <1>10, <2>1, <2>2 DEF Serve
  <1>11. ASSUME NEW p \in Process, Die(p) PROVE StartInv'
      BY <1>11 DEF Die
  <1>12. CASE UNCHANGED vars
      BY <1>12 DEF vars
  <1> QED BY <1>1, <1>2, <1>3, <1>4, <1>5, <1>6, <1>7, <1>8, <1>9, <1>10, <1>11, <1>12
          DEF Next, StartStep, GivenUp

\* The invariant holds in every behaviour.
LEMMA StartInvariant == Spec => []StartInv
  BY StartInit, StartInductive, PTL DEF Spec

\* Type correctness of the start-up, for every value of the constants.
THEOREM StartTyping == Spec => []StartTypeOK
  <1>1. StartInv => StartTypeOK
      BY DEF StartInv
  <1> QED BY <1>1, StartInvariant, PTL

\* Whoever serves does so on a file with every table and with the column
\* (db_utils.rs:11-70), however many processes start and die on it.
THEOREM ServingOnCompleteFile == Spec => []ServingIsComplete
  <1>1. StartInv => ServingIsComplete
    <2> SUFFICES ASSUME StartInv, NEW p \in Process, pc[p] = "serving"
                 PROVE  tables = Table /\ column /\ \A i \in DOMAIN rows : rows[i] # "legacy"
        BY DEF ServingIsComplete
    <2>1. "users" \in tables /\ "messages" \in tables /\ "connections" \in tables /\ column
        BY DEF StartInv, SeenDone, Alive, DbStep
    <2>2. tables = Table
        BY <2>1 DEF StartInv, StartTypeOK, Table
    <2> QED BY <2>1, <2>2 DEF StartInv, RowsFit
  <1> QED BY <1>1, StartInvariant, PTL

\* No step of a start or an end loses a row or clears a mark (db_utils.rs:51-56):
\* the only one that rewrites rows finds the column missing, so none is marked.
THEOREM StartsKeepMarks == Spec => MarksSurviveStarts
  <1> DEFINE Kept == pc' # pc => /\ Len(rows') = Len(rows)
                                 /\ \A i \in DOMAIN rows : rows[i] = "saved" => rows'[i] = "saved"
  <1>1. StartInv /\ [Next]_vars => [Kept]_vars
    <2> SUFFICES ASSUME StartInv, Next, pc' # pc PROVE Kept
        OBVIOUS
    <2>1. CASE UNCHANGED rows
        BY <2>1
    <2>2. ASSUME NEW p \in Process, Alter(p) PROVE Kept
        BY <2>2 DEF Alter, StartInv, StartTypeOK, RowsFit
    <2>3. ASSUME NEW p \in Process, Serve(p) PROVE FALSE
        BY <2>3 DEF Serve
    <2> QED BY <2>1, <2>2, <2>3 DEF Next, StartStep, GivenUp, vars, file, Launch, CreateUsers,
               CreateMessages, Inspect, CreateConnections, LoadCerts, LoadKey, Bind, Die
  <1> QED BY <1>1, StartInvariant, PTL DEF Spec, MarksSurviveStarts
=============================================================================
