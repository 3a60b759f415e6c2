---------------------------- MODULE JobPipeline ----------------------------
(***************************************************************************)
(* One synthesis job from POST /generate-audio to its last worker step:    *)
(* the API handler (api/routes/tts.py), the Celery queue, the worker task  *)
(* (worker/celery_app.py), the job records and cache entries in Redis      *)
(* (core/redis_client.py), the audio volume and the object-store bucket.   *)
(*                                                                         *)
(* Every handler is cut where another process can act in between: each    *)
(* await and each Redis, broker or file operation is a step of its own.    *)
(* What the environment may do to a run is chosen by the constant Faults,  *)
(* and what it did is remembered, job by job, in the history variable      *)
(* mishap, so that a property can say which mishap excuses which outcome.  *)
(***************************************************************************)
EXTENDS Naturals, FiniteSets

CONSTANTS
  Jobs,        \* the requests; each one gets its own uuid4 job_id
  Workers,     \* the worker processes, each running one task at a time
  Keys,        \* the cache keys (digests of text, voice, speed and pitch)
  KeyOf,       \* the cache key of each request
  MaxRetries,  \* MAX_RETRIES of the task
  Backend,     \* storage.BACKEND: "local" or "minio"
  Faults,      \* what may go wrong in this run
  Callers,     \* functions without a caller in the repository that are called
  MaxCrashes,  \* BOUND: how often a worker dies in one behaviour
  MaxDelayed,  \* BOUND: how many record writes are on the way at a time
  NoMsg        \* no message, no file

FaultKinds == {"redis",     \* a record operation fails or meets an open circuit
               "slow",      \* Redis may execute a record write that has timed out
               "broker",    \* publishing a task raises
               "api",       \* the API process dies inside the handler
               "synth",     \* _synthesise raises
               "upload",    \* the upload to the object store raises
               "late",      \* the soft time limit fires after the result is stored
               "hard",      \* the hard time limit, or the kernel, kills the task
               "crash",     \* the whole worker dies
               "evict",     \* a record expires, or allkeys-lru evicts it or the broker's keys
               "forget",    \* a cache entry expires or is evicted
               "restart",   \* Redis restarts: it has no persistence
               "net"}       \* a client's request fails (ClientSession only)

ASSUME KeysAssumption    == KeyOf \in [Jobs -> Keys]
ASSUME RetriesAssumption == MaxRetries \in Nat
ASSUME CrashesAssumption == MaxCrashes \in Nat
ASSUME DelayedAssumption == MaxDelayed \in Nat
ASSUME BackendAssumption == Backend \in {"local", "minio"}
ASSUME FaultsAssumption  == /\ Faults \subseteq FaultKinds
                            /\ Callers \subseteq {"cache_set", "cleanup_expired"}

(* A task message. tries is Celery's request.retries; gen tells the copy   *)
(* that is delivered again after a crash from the one that was lost.       *)
Msg == [job : Jobs, tries : 0 .. MaxRetries, gen : 0 .. MaxCrashes]

ASSUME NoMsgAssumption == NoMsg \notin Msg

First(j) == [job |-> j, tries |-> 0, gen |-> 0]

(* The audio_path of a record: a WAV of the audio volume, named by the     *)
(* message whose execution made it (a fresh uuid4 session per execution),  *)
(* or the object audio/{job_id}.wav of the bucket.                         *)
Path      == [at : {"none", "volume", "bucket"}, wav : Msg \cup {NoMsg}]
NoPath    == [at |-> "none", wav |-> NoMsg]
OnVolume(m) == [at |-> "volume", wav |-> m]
InBucket(m) == [at |-> "bucket", wav |-> m]

(* A job record of Redis: what GET /jobs and GET /download read.           *)
Status  == {"absent", "queued", "processing", "completed", "failed"}
Record  == [status : Status, path : Path]
Rec(s)  == [status |-> s, path |-> NoPath]
Absent  == Rec("absent")
Done(p) == [status |-> "completed", path |-> p]

(* A record write that is still on its way to Redis. *)
Write == [job : Jobs, to : Record]

VARIABLES
  api,      \* where the POST handler of each request is
  found,    \* the audio_path of the cache hit, if the handler had one
  record,   \* tts:job:{job_id}
  delayed,  \* the record writes that have timed out and may yet be executed
  cache,    \* tts:cache:{digest}: the audio_path of the entry
  queue,    \* the broker's list of tasks to deliver (delayed ones included)
  unacked,  \* the workers whose message the broker still keeps (task_acks_late)
  pc,       \* where the task of each worker is
  msg,      \* the message each worker executes
  stored,   \* audio_path_str of the task
  volume,   \* the WAV files of the shared audio volume
  bucket,   \* the object audio/{job_id}.wav of each job
  crashes,  \* BOUND: how many worker crashes there have been
  started,  \* HISTORY: the executions that began
  made,     \* HISTORY: the executions that produced a complete WAV
  mishap    \* HISTORY: what went wrong for each job

apiVars    == <<api, found>>
redisVars  == <<record, delayed, cache>>
brokerVars == <<queue, unacked>>
taskVars   == <<pc, msg, stored>>
fileVars   == <<volume, bucket>>
history    == <<started, made>>
vars == <<apiVars, redisVars, brokerVars, taskVars, fileVars, crashes, history, mishap>>

PC == {"idle", "received", "synth", "upload", "store", "return", "except", "retry", "ack"}
ApiState == {"new", "looked", "recorded", "accepted", "refused", "served"}
Mishaps  == {"dropped", "slow", "killed", "crashed", "late", "evicted", "wiped", "unpublished"}

TypeOK ==
  /\ api     \in [Jobs -> ApiState]
  /\ found   \in [Jobs -> Path]
  /\ record  \in [Jobs -> Record]
  /\ delayed \subseteq Write
  /\ cache   \in [Keys -> Path]
  /\ queue   \subseteq Msg
  /\ unacked \subseteq Workers
  /\ pc      \in [Workers -> PC]
  /\ msg     \in [Workers -> Msg \cup {NoMsg}]
  /\ \A w \in Workers : msg[w] = NoMsg <=> pc[w] = "idle"
  /\ stored  \in [Workers -> Path]
  /\ volume  \subseteq Msg
  /\ bucket  \in [Jobs -> Msg \cup {NoMsg}]
  /\ crashes \in 0 .. MaxCrashes
  /\ started \subseteq Msg
  /\ made    \subseteq Msg
  /\ mishap  \in [Jobs -> SUBSET Mishaps]

Init ==
  /\ api     = [j \in Jobs |-> "new"]
  /\ found   = [j \in Jobs |-> NoPath]
  /\ record  = [j \in Jobs |-> Absent]
  /\ delayed = {}
  /\ cache   = [k \in Keys |-> NoPath]
  /\ queue   = {}
  /\ unacked = {}
  /\ pc      = [w \in Workers |-> "idle"]
  /\ msg     = [w \in Workers |-> NoMsg]
  /\ stored  = [w \in Workers |-> NoPath]
  /\ volume  = {}
  /\ bucket  = [j \in Jobs |-> NoMsg]
  /\ crashes = 0
  /\ started = {}
  /\ made    = {}
  /\ mishap  = [j \in Jobs |-> {}]

Blame(js, what) ==
  mishap' = [j \in Jobs |-> IF j \in js THEN mishap[j] \cup {what} ELSE mishap[j]]

(* async_job_set and job_set: every failure is swallowed, so the caller    *)
(* goes on whether or not the record was written. A write that times out   *)
(* may be on its way to Redis still, whether the time-out was swallowed or *)
(* the client has sent it again with success (RETRY_ON_TIMEOUT).           *)
WriteRecord(j, r) ==
  \/ /\ record' = [record EXCEPT ![j] = r]
     /\ UNCHANGED <<delayed, mishap>>
  \/ /\ "redis" \in Faults
     /\ Blame({j}, "dropped")
     /\ UNCHANGED <<record, delayed>>
  \/ /\ "slow" \in Faults
     /\ Cardinality(delayed) < MaxDelayed
     /\ record' \in {record, [record EXCEPT ![j] = r]}
     /\ delayed' = delayed \cup {[job |-> j, to |-> r]}
     /\ Blame({j}, "slow")

(* What async_job_get may return: a failed read looks like an absent       *)
(* record. GET /jobs answers with the status, or 404 for absent.           *)
Readable(j) == {record[j]} \cup {r \in {Absent} : "redis" \in Faults}

GetJobStatus(j) == {r.status : r \in Readable(j)}

(***************************************************************************)
(* The POST handler.                                                       *)
(***************************************************************************)

(* audio_path.exists() looks at the API's own disk: an object-store key is *)
(* never there.                                                            *)
OnDisk(p) == p.at = "volume" /\ p.wav \in volume

(* Mistake: a cache key that leaves out one of its four parts. *)
LookupCacheOfOthers(j) ==
  /\ api[j] = "new"
  /\ api' = [api EXCEPT ![j] = "looked"]
  /\ \/ \E k \in Keys : OnDisk(cache[k]) /\ found' = [found EXCEPT ![j] = cache[k]]
     \/ UNCHANGED found
  /\ UNCHANGED <<redisVars, brokerVars, taskVars, fileVars, crashes, history, mishap>>

(* async_cache_get, in which a failure reads as a miss, and the test of    *)
(* the file that follows without another await.                            *)
LookupCache(j) ==
  /\ api[j] = "new"
  /\ api' = [api EXCEPT ![j] = "looked"]
  /\ \/ OnDisk(cache[KeyOf[j]]) /\ found' = [found EXCEPT ![j] = cache[KeyOf[j]]]
     \/ ~OnDisk(cache[KeyOf[j]]) /\ UNCHANGED found
     \/ "redis" \in Faults /\ UNCHANGED found
  /\ UNCHANGED <<redisVars, brokerVars, taskVars, fileVars, crashes, history, mishap>>

ServeHit(j) ==
  /\ api[j] = "looked"
  /\ found[j] # NoPath
  /\ WriteRecord(j, Done(found[j]))
  /\ api' = [api EXCEPT ![j] = "served"]
  /\ UNCHANGED <<found, cache, brokerVars, taskVars, fileVars, crashes, history>>

(* Mistake: the job is published without a record. *)
RecordNothing(j) ==
  /\ api[j] = "looked"
  /\ found[j] = NoPath
  /\ api' = [api EXCEPT ![j] = "recorded"]
  /\ UNCHANGED <<found, redisVars, brokerVars, taskVars, fileVars, crashes, history, mishap>>

RecordQueued(j) ==
  /\ api[j] = "looked"
  /\ found[j] = NoPath
  /\ WriteRecord(j, Rec("queued"))
  /\ api' = [api EXCEPT ![j] = "recorded"]
  /\ UNCHANGED <<found, cache, brokerVars, taskVars, fileVars, crashes, history>>

(* Mistake: async_job_set is not awaited, and the record is written late.  *)
EnqueueUnawaited(j) ==
  /\ \/ /\ api[j] = "recorded"
        /\ api' = [api EXCEPT ![j] = "accepted"]
        /\ queue' = queue \cup {First(j)}
        /\ UNCHANGED <<record, delayed, mishap>>
     \/ /\ api[j] = "accepted"
        /\ WriteRecord(j, Rec("queued"))
        /\ UNCHANGED <<api, queue>>
  /\ UNCHANGED <<found, cache, unacked, taskVars, fileVars, crashes, history>>

(* apply_async, and the 202 or 500 that follows. A publish that raises may *)
(* still have reached the broker.                                          *)
Enqueue(j) ==
  /\ api[j] = "recorded"
  /\ \/ /\ api' = [api EXCEPT ![j] = "accepted"]
        /\ queue' = queue \cup {First(j)}
     \/ /\ "broker" \in Faults
        /\ api' = [api EXCEPT ![j] = "refused"]
        /\ queue' \in {queue, queue \cup {First(j)}}
  /\ UNCHANGED <<found, redisVars, unacked, taskVars, fileVars, crashes, history, mishap>>

(* The API process dies between two awaits of the handler: the client sees *)
(* a broken connection, the record stays as it is.                         *)
ApiCrash(j) ==
  /\ "api" \in Faults
  /\ api[j] \in {"looked", "recorded"}
  /\ api' = [api EXCEPT ![j] = "refused"]
  /\ UNCHANGED <<found, redisVars, brokerVars, taskVars, fileVars, crashes, history, mishap>>

(***************************************************************************)
(* The task.                                                               *)
(***************************************************************************)
Goto(w, l) == pc' = [pc EXCEPT ![w] = l]

(* Mistake: task_acks_late is off. *)
DeliverAcknowledged(w, m) ==
  /\ pc[w] = "idle"
  /\ m \in queue
  /\ queue' = queue \ {m}
  /\ msg' = [msg EXCEPT ![w] = m]
  /\ stored' = [stored EXCEPT ![w] = NoPath]
  /\ Goto(w, "received")
  /\ UNCHANGED <<apiVars, redisVars, unacked, fileVars, crashes, history, mishap>>

Deliver(w, m) ==
  /\ pc[w] = "idle"
  /\ m \in queue
  /\ queue' = queue \ {m}
  /\ unacked' = unacked \cup {w}
  /\ msg' = [msg EXCEPT ![w] = m]
  /\ stored' = [stored EXCEPT ![w] = NoPath]
  /\ Goto(w, "received")
  /\ UNCHANGED <<apiVars, redisVars, fileVars, crashes, history, mishap>>

MarkProcessing(w) ==
  /\ pc[w] = "received"
  /\ WriteRecord(msg[w].job, Rec("processing"))
  /\ started' = started \cup {msg[w]}
  /\ Goto(w, "synth")
  /\ UNCHANGED <<apiVars, cache, brokerVars, msg, stored, fileVars, crashes, made>>

(* Mistake: the merge goes ahead although the last chunk is missing. *)
SynthesiseCut(w) ==
  /\ pc[w] = "synth"
  /\ volume' = volume \cup {msg[w]}
  /\ Goto(w, "upload")
  /\ UNCHANGED <<apiVars, redisVars, brokerVars, msg, stored, bucket, crashes, history, mishap>>

Synthesise(w) ==
  /\ pc[w] = "synth"
  /\ volume' = volume \cup {msg[w]}
  /\ made' = made \cup {msg[w]}
  /\ Goto(w, "upload")
  /\ UNCHANGED <<apiVars, redisVars, brokerVars, msg, stored, bucket, crashes, started, mishap>>

(* Any exception of _synthesise, the soft time limit included. *)
SynthesisRaises(w) ==
  /\ "synth" \in Faults
  /\ pc[w] = "synth"
  /\ Goto(w, "except")
  /\ UNCHANGED <<apiVars, redisVars, brokerVars, msg, stored, fileVars, crashes, history, mishap>>

(* An upload that fails leaves the path of the WAV on the volume. *)
Upload(w) ==
  /\ pc[w] = "upload"
  /\ \/ /\ Backend = "minio"
        /\ bucket' = [bucket EXCEPT ![msg[w].job] = msg[w]]
        /\ stored' = [stored EXCEPT ![w] = InBucket(msg[w])]
     \/ /\ Backend = "local" \/ "upload" \in Faults
        /\ stored' = [stored EXCEPT ![w] = OnVolume(msg[w])]
        /\ UNCHANGED bucket
  /\ Goto(w, "store")
  /\ UNCHANGED <<apiVars, redisVars, brokerVars, msg, volume, crashes, history, mishap>>

(* Mistake: something raises between storing the result and returning it.  *)
StoreThenRaise(w) ==
  /\ pc[w] = "store"
  /\ WriteRecord(msg[w].job, Done(stored[w]))
  /\ Goto(w, "except")
  /\ UNCHANGED <<apiVars, cache, brokerVars, msg, stored, fileVars, crashes, history>>

StoreResult(w) ==
  /\ pc[w] = "store"
  /\ WriteRecord(msg[w].job, Done(stored[w]))
  /\ Goto(w, "return")
  /\ UNCHANGED <<apiVars, cache, brokerVars, msg, stored, fileVars, crashes, history>>

(* The soft time limit raises inside the try block, after the result was   *)
(* stored: the same except clause handles it.                              *)
SoftLimit(w) ==
  /\ "late" \in Faults
  /\ pc[w] = "return"
  /\ Blame({msg[w].job}, "late")
  /\ Goto(w, "except")
  /\ UNCHANGED <<apiVars, redisVars, brokerVars, msg, stored, fileVars, crashes, history>>

RecordFailed(w) ==
  /\ pc[w] = "except"
  /\ WriteRecord(msg[w].job, Rec("failed"))
  /\ Goto(w, "retry")
  /\ UNCHANGED <<apiVars, cache, brokerVars, msg, stored, fileVars, crashes, history>>

(* Mistakes: one try too few; the task publishes itself again instead of a *)
(* retry; the task is retried by the broker and by the worker itself.      *)
RetryTooFew(w) ==
  /\ pc[w] = "retry"
  /\ queue' = IF msg[w].tries + 1 < MaxRetries
              THEN queue \cup {[msg[w] EXCEPT !.tries = @ + 1]}
              ELSE queue
  /\ Goto(w, "ack")
  /\ UNCHANGED <<apiVars, redisVars, unacked, msg, stored, fileVars, crashes, history, mishap>>

RetryUncounted(w) ==
  /\ pc[w] = "retry"
  /\ queue' = queue \cup {msg[w]}
  /\ Goto(w, "ack")
  /\ UNCHANGED <<apiVars, redisVars, unacked, msg, stored, fileVars, crashes, history, mishap>>

RetryTwice(w) ==
  /\ pc[w] = "retry"
  /\ msg[w].tries < MaxRetries
  /\ queue' = queue \cup {[msg[w] EXCEPT !.tries = @ + 1]}
  /\ Goto(w, "received")
  /\ UNCHANGED <<apiVars, redisVars, unacked, msg, stored, fileVars, crashes, history, mishap>>

(* raise self.retry(exc=exc, countdown=2): publishes the next try, unless  *)
(* the last one has failed or publishing raises.                           *)
Retry(w) ==
  /\ pc[w] = "retry"
  /\ \/ /\ msg[w].tries < MaxRetries
        /\ queue' = queue \cup {[msg[w] EXCEPT !.tries = @ + 1]}
        /\ UNCHANGED mishap
     \/ /\ msg[w].tries < MaxRetries
        /\ "broker" \in Faults
        /\ Blame({msg[w].job}, "unpublished")
        /\ UNCHANGED queue
     \/ /\ msg[w].tries = MaxRetries
        /\ UNCHANGED <<queue, mishap>>
  /\ Goto(w, "ack")
  /\ UNCHANGED <<apiVars, redisVars, unacked, msg, stored, fileVars, crashes, history>>

(* Mistake: the worker keeps the arguments of the task that has ended.     *)
DropHalf(w) ==
  /\ stored' = [stored EXCEPT ![w] = NoPath]
  /\ unacked' = unacked \ {w}
  /\ Goto(w, "idle")
  /\ UNCHANGED msg

(* task_acks_late: the message is acknowledged when the task has ended,    *)
(* whichever way it ended.                                                 *)
Drop(w) ==
  /\ msg' = [msg EXCEPT ![w] = NoMsg]
  /\ stored' = [stored EXCEPT ![w] = NoPath]
  /\ unacked' = unacked \ {w}
  /\ Goto(w, "idle")

Acknowledge(w) ==
  /\ pc[w] \in {"return", "ack"}
  /\ Drop(w)
  /\ UNCHANGED <<apiVars, redisVars, queue, fileVars, crashes, history, mishap>>

(***************************************************************************)
(* The functions that nothing in the repository calls.                     *)
(***************************************************************************)

(* cache_set(cache_key, result), from the task that is given cache_key. *)
CacheSet(w) ==
  /\ "cache_set" \in Callers
  /\ pc[w] = "return"
  /\ cache' = [cache EXCEPT ![KeyOf[msg[w].job]] = stored[w]]
  /\ UNCHANGED <<apiVars, record, delayed, brokerVars, taskVars, fileVars, crashes, history, mishap>>

(* cleanup_expired: a WAV older than AUDIO_TTL_SECONDS goes; a running     *)
(* task is younger than that (task_time_limit).                            *)
Cleanup(m) ==
  /\ "cleanup_expired" \in Callers
  /\ m \in volume
  /\ \A w \in Workers : msg[w] # m
  /\ volume' = volume \ {m}
  /\ UNCHANGED <<apiVars, redisVars, brokerVars, taskVars, bucket, crashes, history, mishap>>

(***************************************************************************)
(* The environment.                                                        *)
(***************************************************************************)

(* The hard time limit or the loss of the pool process: Celery             *)
(* acknowledges the message (acks_on_failure_or_timeout) and moves on.     *)
HardKill(w) ==
  /\ "hard" \in Faults
  /\ pc[w] # "idle"
  /\ Blame({msg[w].job}, "killed")
  /\ Drop(w)
  /\ UNCHANGED <<apiVars, redisVars, queue, fileVars, crashes, history>>

(* The worker itself dies: what it had not acknowledged goes back to the   *)
(* queue after the visibility timeout. Delivery takes any time, so this    *)
(* is one step.                                                            *)
Crash(w) ==
  /\ "crash" \in Faults
  /\ crashes < MaxCrashes
  /\ pc[w] # "idle"
  /\ crashes' = crashes + 1
  /\ queue' = IF w \in unacked
              THEN queue \cup {[msg[w] EXCEPT !.gen = crashes + 1]}
              ELSE queue
  /\ Blame({msg[w].job}, "crashed")
  /\ Drop(w)
  /\ UNCHANGED <<apiVars, redisVars, fileVars, history>>

(* Redis executes a write that its sender has given up, perhaps after the  *)
(* newer writes of other connections.                                      *)
ExecuteLate(d) ==
  /\ d \in delayed
  /\ record' = [record EXCEPT ![d.job] = d.to]
  /\ delayed' = delayed \ {d}
  /\ UNCHANGED <<apiVars, cache, brokerVars, taskVars, fileVars, crashes, history, mishap>>

(* The record's TTL of one hour, or allkeys-lru. *)
EvictRecord(j) ==
  /\ "evict" \in Faults
  /\ record[j] # Absent
  /\ record' = [record EXCEPT ![j] = Absent]
  /\ Blame({j}, "evicted")
  /\ UNCHANGED <<apiVars, delayed, cache, brokerVars, taskVars, fileVars, crashes, history>>

EvictEntry(k) ==
  /\ "forget" \in Faults
  /\ cache[k] # NoPath
  /\ cache' = [cache EXCEPT ![k] = NoPath]
  /\ UNCHANGED <<apiVars, record, delayed, brokerVars, taskVars, fileVars, crashes, history, mishap>>

(* The broker shares the Redis of the records: allkeys-lru may evict its   *)
(* list of tasks, or the hash of the messages not yet acknowledged.        *)
Held == {msg[w].job : w \in {v \in Workers : pc[v] # "idle"}}

EvictBroker ==
  /\ "evict" \in Faults
  /\ \/ /\ queue # {}
        /\ queue' = {}
        /\ Blame({m.job : m \in queue}, "wiped")
        /\ UNCHANGED unacked
     \/ /\ unacked # {}
        /\ unacked' = {}
        /\ Blame(Held, "wiped")
        /\ UNCHANGED queue
  /\ UNCHANGED <<apiVars, redisVars, taskVars, fileVars, crashes, history>>

RedisRestart ==
  /\ "restart" \in Faults
  /\ record' = [j \in Jobs |-> Absent]
  /\ delayed' = {}
  /\ cache' = [k \in Keys |-> NoPath]
  /\ queue' = {}
  /\ unacked' = {}
  /\ Blame({j \in Jobs : api[j] \notin {"new", "looked"}}, "wiped")
  /\ UNCHANGED <<apiVars, taskVars, fileVars, crashes, history>>

(***************************************************************************)
(* The specification.                                                      *)
(***************************************************************************)
Handler(j) == ServeHit(j) \/ RecordQueued(j) \/ Enqueue(j)

Task(w) ==
  \/ MarkProcessing(w) \/ Synthesise(w) \/ SynthesisRaises(w) \/ Upload(w)
  \/ StoreResult(w) \/ RecordFailed(w) \/ Retry(w) \/ Acknowledge(w)

Environment ==
  \/ \E j \in Jobs : ApiCrash(j) \/ EvictRecord(j)
  \/ \E w \in Workers : SoftLimit(w) \/ HardKill(w) \/ Crash(w) \/ CacheSet(w)
  \/ \E m \in volume : Cleanup(m)
  \/ \E k \in Keys : EvictEntry(k)
  \/ \E d \in delayed : ExecuteLate(d)
  \/ EvictBroker \/ RedisRestart

Next ==
  \/ \E j \in Jobs : LookupCache(j) \/ Handler(j)
  \/ \E w \in Workers : Task(w) \/ \E m \in queue : Deliver(w, m)
  \/ Environment

Spec == Init /\ [][Next]_vars

(* The event loop resumes a handler whose await is done, a worker process  *)
(* goes on with its task, and an idle one fetches what the broker has. A   *)
(* client need not send its request, and no fault ever has to happen.      *)
Fairness ==
  /\ \A j \in Jobs : WF_vars(Handler(j))
  /\ \A w \in Workers : WF_vars(Task(w)) /\ WF_vars(\E m \in queue : Deliver(w, m))

FairSpec == Spec /\ Fairness

(***************************************************************************)
(* Properties.                                                             *)
(***************************************************************************)
Executing(w, j) == pc[w] \notin {"idle", "ack"} /\ msg[w].job = j
Settled(j) == /\ \A m \in queue : m.job # j
              /\ \A w \in Workers : ~Executing(w, j)
Pending(j) == record[j].status \in {"queued", "processing"}
Excused(j, what) == mishap[j] \cap what # {}

(* A job that was accepted is never left behind: while its record tells    *)
(* the client to go on polling, some message or some worker still has to   *)
(* report an outcome, unless that report was lost or overtaken (a record   *)
(* write that failed or was executed late, a killed task, a broker that    *)
(* lost its keys). _sync_safe swallows failures and task_acks_late hands   *)
(* messages over; together they must not lose a job silently.              *)
NoLimbo ==
  \A j \in Jobs : api[j] = "accepted" /\ Pending(j) /\ Settled(j)
                   => Excused(j, {"dropped", "slow", "killed", "wiped"})

(* Two workers execute the same job only after a crash made the broker     *)
(* deliver a message again: a retry is published before its predecessor is *)
(* acknowledged, and is a new execution only then.                         *)
ExclusiveExecution ==
  \A j \in Jobs : \A v, w \in Workers :
     Executing(v, j) /\ Executing(w, j) /\ v # w => Excused(j, {"crashed"})

(* What a completed record points at was synthesised to the end for this   *)
(* very cache key, by a cached hit as much as by a worker, and is where    *)
(* the record says: in the bucket under the job's own id, or on the volume *)
(* unless the cleanup took it.                                             *)
CompletedHasAudio ==
  \A j \in Jobs : record[j].status = "completed" =>
     LET p == record[j].path IN
     /\ p.wav \in made
     /\ KeyOf[p.wav.job] = KeyOf[j]
     /\ p.at = "bucket" => p.wav.job = j /\ bucket[j] # NoMsg
     /\ p.at = "volume" => p.wav \in volume \/ "cleanup_expired" \in Callers

(* A job is given up only when every try allowed by max_retries has run.   *)
NoEarlyGiveUp ==
  \A j \in Jobs :
     record[j].status = "failed" /\ Settled(j) /\ mishap[j] = {}
       => \A t \in 0 .. MaxRetries : \E m \in started : m.job = j /\ m.tries = t

(* Once a client can read "completed" it stays readable: the record only   *)
(* goes away as a whole. Only a message delivered again, the soft time     *)
(* limit after the result was stored, or a write that Redis executes late  *)
(* may take the result back.                                               *)
OutcomeStable ==
  [][\A j \in Jobs :
        record[j].status = "completed" /\ record'[j] # record[j]
          => record'[j] = Absent \/ Excused(j, {"crashed", "late", "slow"})]_vars

(* What the record of a job says while its message is in the queue (or     *)
(* just taken from it) or its task is at a later step.                     *)
Reported(at, tries) ==
  CASE at \in {"queue", "received"} -> IF tries = 0 THEN "queued" ELSE "failed"
    [] at \in {"synth", "upload", "store", "except"} -> "processing"
    [] at = "return" -> "completed"
    [] at = "retry" -> "failed"

(* The API process and the workers write the same record without ever      *)
(* reading it, and nothing but the order of awaits, publishing and         *)
(* acknowledgement keeps their writes in order. It suffices: whoever       *)
(* carries the job, the record says what was reported last, never a        *)
(* "queued" over a worker's report or the outcome of an earlier try over   *)
(* the retry that is running. The exceptions are a write that failed or    *)
(* that Redis executes after it has timed out (the "queued" of a slow POST *)
(* among them), a second execution after a crash, the soft time limit      *)
(* after the result was stored, and a record that Redis removed.           *)
RecordIsCurrent ==
  \A j \in Jobs : ~Excused(j, {"dropped", "slow", "crashed", "late", "evicted", "wiped"}) =>
     /\ \A m \in queue : m.job = j => record[j].status = Reported("queue", m.tries)
     /\ \A w \in Workers : pc[w] \notin {"idle", "ack"} /\ msg[w].job = j
                             => record[j].status = Reported(pc[w], msg[w].tries)

(* Every accepted job settles: its record says completed or failed and     *)
(* nothing more will happen to it, or the record was lost on the way.      *)
Settles ==
  \A j \in Jobs :
     api[j] = "accepted" ~> \/ Settled(j) /\ record[j].status \in {"completed", "failed"}
                            \/ Excused(j, {"dropped", "slow", "killed", "wiped", "evicted"})

(* While Redis, the broker and the workers stay up, whatever the synthesis *)
(* and the uploads do, a client sees exactly what JobContract promises.    *)
Contract == INSTANCE JobContract WITH
  status <- [j \in Jobs |-> record[j].status],
  begun  <- [j \in Jobs |-> {t \in 0 .. MaxRetries :
                                \E m \in started : m.job = j /\ m.tries = t}],
  due    <- [j \in Jobs |-> api[j] = "accepted"]

ImplementsContract == Contract!Spec
=============================================================================
