-------------------------- MODULE BackpressureProofs --------------------------
(***************************************************************************)
(* The load a connection carries without a standstill, for buffers of any  *)
(* size.                                                                   *)
(***************************************************************************)
EXTENDS Backpressure, TLAPS

USE SlotAssumption, LoadAssumption

LEMMA FlowInit == Init => FlowTypeOK
  BY DEF Init, FlowTypeOK

LEMMA FlowStep == FlowTypeOK /\ [Next]_vars => FlowTypeOK'
<1> SUFFICES ASSUME FlowTypeOK, [Next]_vars
             PROVE  FlowTypeOK'
  OBVIOUS
<1> USE DEF FlowTypeOK, upward, downward
<1>1. CASE Submit
  BY <1>1 DEF Submit
<1>2. CASE Push
  BY <1>2 DEF Push
<1>3. CASE ClientTake
  <2>1. CASE mine > 0 /\ mine' = mine - 1 /\ client' = "write"
    BY <1>3, <2>1 DEF ClientTake
  <2>2. CASE mine = 0 /\ client' = "read" /\ UNCHANGED mine
    BY <1>3, <2>2 DEF ClientTake
  <2> QED BY <1>3, <2>1, <2>2 DEF ClientTake
<1>4. CASE ClientWrite
  BY <1>4 DEF ClientWrite
<1>5. CASE ClientRead
  <2>1. CASE down > 0 /\ down' = down - 1 /\ shown' = shown + 1
    BY <1>5, <2>1 DEF ClientRead
  <2>2. CASE UNCHANGED <<down, shown>>
    BY <1>5, <2>2 DEF ClientRead
  <2> QED BY <1>5, <2>1, <2>2 DEF ClientRead
<1>6. CASE ServerRead
  BY <1>6 DEF ServerRead
<1>7. CASE ServerTake
  BY <1>7 DEF ServerTake
<1>8. CASE ServerWrite
  BY <1>8 DEF ServerWrite
<1>9. CASE UNCHANGED vars
  BY <1>9 DEF vars
<1> QED BY <1>1, <1>2, <1>3, <1>4, <1>5, <1>6, <1>7, <1>8, <1>9 DEF Next, ClientLoop

\* No line of either direction is lost or made between the two programs, and no
\* buffer holds more than its capacity (loop_task.rs:40-82, api.rs:381-411).
THEOREM LinesAreConserved == Spec => []FlowTypeOK
  BY FlowInit, FlowStep, PTL DEF Spec

\* A standstill needs more lines than the buffers hold in both directions: the
\* conservation of lines in FlowTypeOK leaves no room for one below that load.
THEOREM NoStandstillUnderLightLoad == Spec => []LightLoadFlows
<1>1. FlowTypeOK => LightLoadFlows
  BY DEF FlowTypeOK, LightLoadFlows, Standstill
<1> QED BY <1>1, LinesAreConserved, PTL
=============================================================================
