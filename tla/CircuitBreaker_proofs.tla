----------------------- MODULE CircuitBreaker_proofs -----------------------
(***************************************************************************)
(* The circuit breaker for any number of calls, any threshold and any      *)
(* recovery time-out.                                                      *)
(***************************************************************************)
EXTENDS CircuitBreaker, TLAPS

(* The three facts about failures, state and since are inductive together: *)
(* a failed probe opens the circuit because half open implies that the     *)
(* threshold was reached, and half open is due because every failure       *)
(* beyond the threshold leads back to open.                                *)
Inv == TypeOK /\ ClosedBelowThreshold /\ HalfOpenIsDue

LEMMA InitInv == Init => Inv
  BY ThresholdAssumption, TimeoutAssumption
  DEF Init, Inv, TypeOK, ClosedBelowThreshold, HalfOpenIsDue, CircuitState, Health

(* Reading the state keeps the invariant, whoever reads it. *)
LEMMA ReadInv ==
  ASSUME Inv, state' = Read, UNCHANGED <<failures, since>>
  PROVE  /\ state' \in CircuitState
         /\ ClosedBelowThreshold'
         /\ HalfOpenIsDue'
         /\ state' # "open" /\ failures >= Threshold => since > Timeout
  BY ThresholdAssumption, TimeoutAssumption
  DEF Inv, TypeOK, ClosedBelowThreshold, HalfOpenIsDue, CircuitState, Read

LEMMA NextInv == Inv /\ [Next]_vars => Inv'
<1> SUFFICES ASSUME Inv, [Next]_vars PROVE Inv'
  OBVIOUS
<1> USE ThresholdAssumption, TimeoutAssumption
<1> USE DEF Inv, TypeOK
<1>1. CASE UNCHANGED vars
  BY <1>1 DEF vars, circuit, ClosedBelowThreshold, HalfOpenIsDue
<1>2. ASSUME NEW c \in Calls, Request(c) PROVE Inv'
  <2>1. state' \in CircuitState /\ ClosedBelowThreshold' /\ HalfOpenIsDue'
    BY <1>2, ReadInv DEF Request
  <2>2. call' \in [Calls -> {"idle", "sent", "ok", "error"}]
    BY <1>2 DEF Request
  <2> QED
    BY <2>1, <2>2, <1>2 DEF Request
<1>3. ASSUME NEW c \in Calls, Answer(c) PROVE Inv'
  BY <1>3 DEF Answer, circuit, ClosedBelowThreshold, HalfOpenIsDue
<1>4. ASSUME NEW c \in Calls, RecordSuccess(c) PROVE Inv'
  BY <1>4 DEF RecordSuccess, Finish, ClosedBelowThreshold, HalfOpenIsDue, CircuitState
<1>5. ASSUME NEW c \in Calls, RecordFailure(c) PROVE Inv'
  <2>1. /\ failures' \in 0 .. Threshold
        /\ since' = 0
        /\ failures < Threshold => failures' = failures + 1
        /\ failures >= Threshold => failures' = Threshold
    BY <1>5 DEF RecordFailure
  <2>2. CASE failures' >= Threshold
    BY <1>5, <2>1, <2>2
    DEF RecordFailure, Finish, ClosedBelowThreshold, HalfOpenIsDue, CircuitState
  <2>3. CASE failures' < Threshold
    BY <1>5, <2>1, <2>3
    DEF RecordFailure, Finish, ClosedBelowThreshold, HalfOpenIsDue, CircuitState
  <2> QED
    BY <2>1, <2>2, <2>3
<1>6. ASSUME NEW c \in Calls, Cancel(c) PROVE Inv'
  BY <1>6 DEF Cancel, Finish, circuit, ClosedBelowThreshold, HalfOpenIsDue
<1>7. CASE GetCircuitState
  BY <1>7, ReadInv DEF GetCircuitState
<1>8. CASE Tick
  BY <1>8 DEF Tick, ClosedBelowThreshold, HalfOpenIsDue
<1>9. ASSUME NEW h \in Health, RedisTurns(h) PROVE Inv'
  BY <1>9 DEF RedisTurns, circuit, ClosedBelowThreshold, HalfOpenIsDue
<1> QED
  BY <1>1, <1>2, <1>3, <1>4, <1>5, <1>6, <1>7, <1>8, <1>9 DEF Next, Record

(* The types of the circuit breaker's state. *)
THEOREM TypeCorrect == Spec => []TypeOK
  BY InitInv, NextInv, PTL DEF Spec, Inv

(* allow_request lets a call through exactly below the threshold or when   *)
(* the recovery time-out is over: what record_failure and the property     *)
(* state establish between them, for any interleaving of the calls.        *)
THEOREM CircuitSafe == Spec => [](ClosedBelowThreshold /\ HalfOpenIsDue)
  BY InitInv, NextInv, PTL DEF Spec, Inv

(* Once the threshold is reached, no call sends a request before the       *)
(* recovery time-out has passed since the last failure of any call.        *)
THEOREM Quiet == Spec => QuietAfterFailure
<1>1. Inv /\ [Next]_vars =>
        [\A c \in Calls : call[c] = "idle" /\ call'[c] = "sent" /\ failures >= Threshold
                            => since > Timeout]_vars
  <2> SUFFICES ASSUME Inv, Next,
                      NEW c \in Calls, call[c] = "idle", call'[c] = "sent",
                      failures >= Threshold
               PROVE  since > Timeout
    BY DEF Next
  <2>1. ASSUME NEW d \in Calls, Request(d) PROVE since > Timeout
    <3>1. state' # "open"
      BY <2>1 DEF Request, Inv, TypeOK
    <3> QED
      BY <2>1, <3>1, ReadInv DEF Request
  <2>2. ASSUME NEW d \in Calls, Answer(d) \/ Record(d) \/ Cancel(d) PROVE FALSE
    BY <2>2 DEF Answer, Record, RecordSuccess, RecordFailure, Cancel, Finish, Inv, TypeOK
  <2>3. CASE GetCircuitState \/ Tick
    BY <2>3 DEF GetCircuitState, Tick
  <2>4. ASSUME NEW h \in Health, RedisTurns(h) PROVE FALSE
    BY <2>4 DEF RedisTurns
  <2> QED
    BY <2>1, <2>2, <2>3, <2>4 DEF Next
<1> QED
  BY <1>1, InitInv, NextInv, PTL DEF Spec, QuietAfterFailure
=============================================================================
