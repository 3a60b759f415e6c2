--------------------------- MODULE CircuitBreaker ---------------------------
(***************************************************************************)
(* The circuit breaker of core/redis_client.py: one object per process,    *)
(* shared by all the calls in flight through _async_safe (or, in a worker, *)
(* _sync_safe). A call asks allow_request, awaits Redis and then records   *)
(* the outcome; other calls run in between, so an outcome may be recorded  *)
(* long after Redis produced it.                                           *)
(***************************************************************************)
EXTENDS Naturals

CONSTANTS
  Calls,      \* the tasks of the process that use Redis
  Threshold,  \* CB_FAILURE_THRESHOLD
  Timeout     \* CB_RECOVERY_TIMEOUT, in ticks of the clock

ASSUME ThresholdAssumption == Threshold \in Nat \ {0}
ASSUME TimeoutAssumption   == Timeout \in Nat

VARIABLES
  failures,  \* _failures; counts above Threshold are not told apart
  state,     \* _state
  since,     \* time.time() - _last_fail; not told apart above Timeout
  call,      \* what each task is doing
  redis      \* ENVIRONMENT: how Redis does

circuit == <<failures, state, since>>
vars    == <<circuit, call, redis>>

CircuitState == {"closed", "open", "half_open"}

(* A call may fail though Redis is not down: the pool of connections is    *)
(* used up, or the call raises for any other reason.                       *)
Health == {"up", "flaky", "down"}

TypeOK ==
  /\ failures \in 0 .. Threshold
  /\ state \in CircuitState
  /\ since \in 0 .. Timeout + 1
  /\ call \in [Calls -> {"idle", "sent", "ok", "error"}]
  /\ redis \in Health

(* _last_fail starts at the epoch. *)
Init ==
  /\ failures = 0
  /\ state = "closed"
  /\ since = Timeout + 1
  /\ call = [c \in Calls |-> "idle"]
  /\ redis = "up"

(* Mistakes: the time-out is over a moment too early; the circuit closes   *)
(* without a probe.                                                        *)
ReadEarly == IF state = "open" /\ since >= Timeout THEN "half_open" ELSE state

ReadClosed == IF state = "open" /\ since > Timeout THEN "closed" ELSE state

(* The property state moves OPEN to HALF_OPEN whenever it is read late     *)
(* enough, also by get_circuit_state, which sends no request.              *)
Read == IF state = "open" /\ since > Timeout THEN "half_open" ELSE state

GetCircuitState ==
  /\ state' = Read
  /\ UNCHANGED <<failures, since, call, redis>>

(* Mistake: a rejected call counts as a new failure of Redis. *)
RequestRestartsClock(c) ==
  /\ call[c] = "idle"
  /\ state' = Read
  /\ \/ /\ state' # "open"
        /\ call' = [call EXCEPT ![c] = "sent"]
        /\ UNCHANGED since
     \/ /\ state' = "open"
        /\ since' = 0
        /\ UNCHANGED call
  /\ UNCHANGED <<failures, redis>>

Request(c) ==
  /\ call[c] = "idle"
  /\ state' = Read
  /\ \/ /\ state' # "open"
        /\ call' = [call EXCEPT ![c] = "sent"]
     \/ /\ state' = "open"
        /\ UNCHANGED call
  /\ UNCHANGED <<failures, since, redis>>

(* Redis answers, or the socket times out, or something else raises. *)
Answer(c) ==
  /\ call[c] = "sent"
  /\ \/ redis # "down" /\ call' = [call EXCEPT ![c] = "ok"]
     \/ redis # "up" /\ call' = [call EXCEPT ![c] = "error"]
  /\ UNCHANGED <<circuit, redis>>

Finish(c) == call' = [call EXCEPT ![c] = "idle"]

(* Mistakes: a success makes up for one failure, or for none. *)
RecordSuccessOnce(c) ==
  /\ call[c] = "ok"
  /\ failures' = failures - 1
  /\ state' = "closed"
  /\ Finish(c)
  /\ UNCHANGED <<since, redis>>

RecordSuccessKeepsCount(c) ==
  /\ call[c] = "ok"
  /\ state' = "closed"
  /\ Finish(c)
  /\ UNCHANGED <<failures, since, redis>>

RecordSuccess(c) ==
  /\ call[c] = "ok"
  /\ failures' = 0
  /\ state' = "closed"
  /\ Finish(c)
  /\ UNCHANGED <<since, redis>>

RecordFailure(c) ==
  /\ call[c] = "error"
  /\ failures' = IF failures < Threshold THEN failures + 1 ELSE Threshold
  /\ since' = 0
  /\ state' = IF failures' >= Threshold THEN "open" ELSE state
  /\ Finish(c)
  /\ UNCHANGED redis

(* CancelledError is no Exception: neither outcome is recorded. *)
Cancel(c) ==
  /\ call[c] # "idle"
  /\ Finish(c)
  /\ UNCHANGED <<circuit, redis>>

Tick ==
  /\ since <= Timeout
  /\ since' = since + 1
  /\ UNCHANGED <<failures, state, call, redis>>

RedisTurns(h) == redis # h /\ redis' = h /\ UNCHANGED <<circuit, call>>

Record(c) == RecordSuccess(c) \/ RecordFailure(c)

Next ==
  \/ \E c \in Calls : Request(c) \/ Answer(c) \/ Record(c) \/ Cancel(c)
  \/ GetCircuitState \/ Tick \/ \E h \in Health : RedisTurns(h)

Spec == Init /\ [][Next]_vars

(* Time passes, tasks keep calling Redis, sockets answer or time out, and  *)
(* not every call is cancelled before its outcome is recorded.             *)
FairSpec ==
  /\ Spec
  /\ WF_vars(Tick)
  /\ \A c \in Calls : WF_vars(Request(c)) /\ SF_vars(Answer(c)) /\ SF_vars(Record(c))

(***************************************************************************)
(* Properties.                                                             *)
(***************************************************************************)

(* The circuit is closed exactly while the failures since the last success *)
(* are below the threshold. failures is not reset when the circuit is half *)
(* open: that is why a single failed probe opens it again, whatever other  *)
(* calls record in the meantime.                                           *)
ClosedBelowThreshold == state = "closed" <=> failures < Threshold

(* Half open means that no call has failed for longer than the recovery    *)
(* time-out: a late failure of a call that was sent earlier starts the     *)
(* waiting time anew.                                                      *)
HalfOpenIsDue == state = "half_open" => since > Timeout

(* A process whose failures have reached the threshold leaves Redis alone  *)
(* for the whole recovery time-out, however many calls it has in flight    *)
(* and whoever reads the state: nothing is sent until it has passed since  *)
(* the last failure.                                                       *)
QuietAfterFailure ==
  [][\A c \in Calls : call[c] = "idle" /\ call'[c] = "sent" /\ failures >= Threshold
                        => since > Timeout]_vars

(* When Redis is back for good and no call to it fails any more, the       *)
(* circuit closes for good, though stale failures may still open it and    *)
(* probes may be cancelled.                                                *)
Recovers == <>[](redis = "up") => <>[](state = "closed")

(* When Redis is gone for good the circuit does not stay closed, though    *)
(* late successes may still reset the count.                               *)
Protects == <>[](redis = "down") => <>[](state # "closed")
=============================================================================
