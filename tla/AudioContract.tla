--------------------------- MODULE AudioContract ---------------------------
(***************************************************************************)
(* What the task of the worker, and JobPipeline with it, takes for granted *)
(* about one execution of _synthesise: it returns a WAV that is there, or  *)
(* it raises or dies and nobody hears of a WAV; and a WAV stays as long as *)
(* its task may still use it.                                              *)
(***************************************************************************)
CONSTANT Tasks

VARIABLES
  outcome,  \* how far the task is, as far as its caller can tell
  volume    \* the executions whose WAV is on the volume

vars == <<outcome, volume>>

Init ==
  /\ outcome = [t \in Tasks |-> "running"]
  /\ volume = {}

Goto(t, o) == outcome' = [outcome EXCEPT ![t] = o]

Produce(t) ==
  /\ outcome[t] = "running"
  /\ Goto(t, "produced")
  /\ volume' = volume \cup {t}

(* It raises, or the process dies; or the task has no more use for its WAV. *)
Over(t) ==
  /\ outcome[t] \in {"running", "produced"}
  /\ Goto(t, "over")
  /\ UNCHANGED volume

(* The clean-up takes the WAV of a task that is over. *)
Expire(t) ==
  /\ t \in volume
  /\ outcome[t] = "over"
  /\ volume' = volume \ {t}
  /\ UNCHANGED outcome

Next == \E t \in Tasks : Produce(t) \/ Over(t) \/ Expire(t)

Spec == Init /\ [][Next]_vars
=============================================================================
