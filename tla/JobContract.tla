---------------------------- MODULE JobContract ----------------------------
(***************************************************************************)
(* What the service promises about one job, as a client can observe it     *)
(* through GET /jobs/{job_id} while Redis, the broker and the workers stay *)
(* up: the status goes through the values of JobStatus in this order, each *)
(* retry is a new execution, no more than MaxRetries of them follow the    *)
(* first, and a job that was accepted is executed until it is completed or *)
(* its tries are used up. No queue, worker, message or file is mentioned:  *)
(* JobPipeline implements it.                                              *)
(***************************************************************************)
EXTENDS Naturals

CONSTANTS Jobs, MaxRetries

VARIABLES
  status,  \* what the job's record says
  begun,   \* the tries that have begun, numbered from 0
  due      \* the client was told that the job is queued

vars == <<status, begun, due>>

Init ==
  /\ status = [j \in Jobs |-> "absent"]
  /\ begun  = [j \in Jobs |-> {}]
  /\ due    = [j \in Jobs |-> FALSE]

Goto(j, from, to) == status[j] \in from /\ status' = [status EXCEPT ![j] = to]

(* A new job is recorded as queued, or served from the cache at once. *)
Submit(j) ==
  /\ Goto(j, {"absent"}, "queued") \/ Goto(j, {"absent"}, "completed")
  /\ UNCHANGED <<begun, due>>

(* The reply may come before or after a worker has taken the job. *)
Accept(j) ==
  /\ status[j] # "absent"
  /\ due' = [due EXCEPT ![j] = TRUE]
  /\ UNCHANGED <<status, begun>>

Begin(j) ==
  /\ Goto(j, {"queued", "failed"}, "processing")
  /\ \E t \in 0 .. MaxRetries :
       /\ begun[j] = {u \in 0 .. MaxRetries : u < t}
       /\ begun' = [begun EXCEPT ![j] = @ \cup {t}]
  /\ UNCHANGED due

End(j) ==
  /\ Goto(j, {"processing"}, "completed") \/ Goto(j, {"processing"}, "failed")
  /\ UNCHANGED <<begun, due>>

Next == \E j \in Jobs : Submit(j) \/ Accept(j) \/ Begin(j) \/ End(j)

Spec ==
  /\ Init /\ [][Next]_vars
  /\ \A j \in Jobs : WF_vars(due[j] /\ (Begin(j) \/ End(j)))
=============================================================================
