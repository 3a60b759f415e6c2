------------------------------ MODULE Storage ------------------------------
(***************************************************************************)
(* Where the WAVs of Synthesis stay, storage/backend.py: on the volume, or *)
(* in a MinIO bucket that the API processes create when they start         *)
(* (lifespan, get_storage, _ensure_bucket) and that the worker uploads to, *)
(* created or not. The bucket's lifecycle rule is set in a second step,    *)
(* and a process may fail or die between the two.                          *)
(***************************************************************************)
EXTENDS Synthesis

CONSTANTS
  Backends,  \* storage.BACKEND may be one of these
  Apis,      \* the API processes
  MaxStarts  \* BOUND: how often API processes start again

ASSUME StorageAssumption == /\ Backends \subseteq {"local", "minio"}
                            /\ MaxStarts \in Nat

VARIABLES
  backend,  \* storage.BACKEND
  bucket,   \* whether the bucket exists, and whether it has its rule
  objects,  \* the executions whose WAV was uploaded
  boot,     \* where get_storage of each API process is
  starts,   \* BOUND: the restarts so far
  halfway   \* HISTORY: a process created the bucket and set no rule

storeVars == <<backend, bucket, objects, boot, starts, halfway>>
allVars == <<vars, storeVars>>

StorageTypeOK ==
  /\ TypeOK
  /\ backend \in Backends
  /\ bucket \in [exists : BOOLEAN, rule : BOOLEAN]
  /\ objects \subseteq Tasks
  /\ boot \in [Apis -> {"head", "create", "rule", "ready", "failed"}]
  /\ starts \in 0 .. MaxStarts
  /\ halfway \in BOOLEAN

StorageInit ==
  /\ Init
  /\ backend \in Backends
  /\ bucket = [exists |-> FALSE, rule |-> FALSE]
  /\ objects = {}
  /\ boot = [a \in Apis |-> "head"]
  /\ starts = 0
  /\ halfway = FALSE

At(a, l) == backend = "minio" /\ boot[a] = l

BootTo(a, l) == boot' = [boot EXCEPT ![a] = l]

(* head_bucket: whatever it raises, the bucket is taken to be missing. *)
HeadBucket(a) ==
  /\ At(a, "head")
  /\ \/ bucket.exists /\ BootTo(a, "ready")
     \/ BootTo(a, "create")
  /\ UNCHANGED <<vars, backend, bucket, objects, starts, halfway>>

(* Mistake: the rule is left to somebody else. *)
CreateOnly(a) ==
  /\ At(a, "create")
  /\ bucket' = [bucket EXCEPT !.exists = TRUE]
  /\ BootTo(a, "ready")
  /\ UNCHANGED <<vars, backend, objects, starts, halfway>>

(* When another process was faster create_bucket raises, on MinIO, or not, *)
(* on S3.                                                                  *)
CreateBucket(a) ==
  /\ At(a, "create")
  /\ bucket' = [bucket EXCEPT !.exists = TRUE]
  /\ BootTo(a, "rule")
  /\ UNCHANGED <<vars, backend, objects, starts, halfway>>

PutLifecycle(a) ==
  /\ At(a, "rule")
  /\ bucket' = [bucket EXCEPT !.rule = TRUE]
  /\ BootTo(a, "ready")
  /\ UNCHANGED <<vars, backend, objects, starts, halfway>>

(* A call to MinIO raises: lifespan logs it and the process serves on. *)
BootFails(a) ==
  /\ At(a, "create") \/ At(a, "rule")
  /\ halfway' = (halfway \/ At(a, "rule"))
  /\ BootTo(a, "failed")
  /\ UNCHANGED <<vars, backend, bucket, objects, starts>>

Restart(a) ==
  /\ backend = "minio"
  /\ starts < MaxStarts
  /\ starts' = starts + 1
  /\ halfway' = (halfway \/ At(a, "rule"))
  /\ BootTo(a, "head")
  /\ UNCHANGED <<vars, backend, bucket, objects>>

(* The worker's upload_file, or "upload skipped". *)
Upload(t) ==
  /\ Finish(t)
  /\ \/ /\ backend = "minio" /\ bucket.exists
        /\ objects' = objects \cup {t}
     \/ UNCHANGED objects
  /\ UNCHANGED <<backend, bucket, boot, starts, halfway>>

(* MinIO applies the rule. *)
ExpireObject(t) ==
  /\ bucket.rule
  /\ t \in objects
  /\ objects' = objects \ {t}
  /\ UNCHANGED <<vars, backend, bucket, boot, starts, halfway>>

(* cleanup_expired of LocalStorage; that of MinIOStorage does nothing. *)
CleanLocal(c) == backend = "local" /\ Clean(c) /\ UNCHANGED storeVars

Boot(a) == HeadBucket(a) \/ CreateBucket(a) \/ PutLifecycle(a) \/ BootFails(a)

StorageNext ==
  \/ \E t \in Tasks : (Work(t) /\ UNCHANGED storeVars) \/ Upload(t) \/ ExpireObject(t)
  \/ \E c \in Cleaners : CleanLocal(c)
  \/ \E a \in Apis : Boot(a) \/ Restart(a)
  \/ Tick /\ UNCHANGED storeVars

StorageSpec == StorageInit /\ [][StorageNext]_allVars

(* Time passes, the hard time limit is enforced, a process that starts up  *)
(* goes on, and MinIO applies its rule. Nobody is bound to call            *)
(* cleanup_expired.                                                        *)
StorageFairSpec ==
  /\ StorageSpec
  /\ WF_allVars(Tick /\ UNCHANGED storeVars)
  /\ \A t \in Tasks :
       /\ WF_allVars(spent[t] = HardLimit /\ Kill(t) /\ UNCHANGED storeVars)
       /\ WF_allVars(ExpireObject(t))
  /\ \A a \in Apis : WF_allVars(Boot(a))

(***************************************************************************)
(* Properties.                                                             *)
(***************************************************************************)

(* backend.py:187-203: a bucket without a lifecycle rule, which no later   *)
(* start will ever give one, has been left like that by a process that     *)
(* created it and failed before its next call.                             *)
BucketKeepsRule ==
  bucket.exists /\ ~bucket.rule => halfway \/ \E a \in Apis : boot[a] = "rule"

(* backend.py:245-247 "MinIO lifecycle rules handle this automatically": an *)
(* object that a worker uploaded, even into a bucket that an API process   *)
(* has created and not yet given its rule, is gone in the end, whichever   *)
(* of the processes wins the race for the bucket, and unless one of them   *)
(* failed between its two calls.                                           *)
ObjectsExpire == \A t \in Tasks : t \in objects ~> t \notin objects \/ halfway

(* api/routes/tts.py:253-254 "it auto-expires via the cleanup task. After  *)
(* AUDIO_TTL_SECONDS (default 10 min), the file is gone": nothing that an  *)
(* execution has left stays on the volume for ever, whichever the back     *)
(* end. No back end keeps that: nobody calls the cleanup_expired of        *)
(* LocalStorage, that of MinIOStorage removes nothing, and the worker does *)
(* not unlink the WAV that it has uploaded.                                *)
AudioExpires == \A t \in Tasks, p \in Parts : There(t, p) ~> ~There(t, p)
=============================================================================
