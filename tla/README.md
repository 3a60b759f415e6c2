# A TLA+ model of the Piper TTS back end

The repository is a text-to-speech service: a FastAPI application accepts a
request and queues it with Celery, worker processes synthesise it with Piper
voices, Redis holds the job records (and is Celery's broker), the audio lies on
a shared volume or in an object store, and a JavaScript client and a Streamlit
page poll for the result. This directory holds TLA+ specifications of the parts that run
concurrently or fail, the TLC configurations that check them on small
instances, and proofs for every instance.

All paths below are relative to `src/`. `PROJECT.json` maps every definition to
the lines it models.

## 1. Inventory

| Component | State | Operations | Hard behaviour | What makes it correct |
|---|---|---|---|---|
| Submission and retrieval API, `api/routes/tts.py` | none of its own between requests; where a handler awaits | `generate_audio`, `get_job_status`, `download_audio`, `_iter_file` | other processes act at every await; the file is checked and opened later; the process may die between record and publication | a reply that says queued means that a task exists; an error has a cause; the audio is the caller's own |
| Worker task, `worker/celery_app.py` | task position, message, result path | `synthesize`: record, synthesise, upload, record, retry, acknowledge | late acknowledgement, redelivery, retries published before the acknowledgement, soft and hard time limits, swallowed writes | no accepted job is forgotten or executed twice; it is given up only after its last try; its result is not taken back |
| Redis: records, cache, broker, `core/redis_client.py`, `docker-compose.yml` | `tts:job:*`, `tts:cache:*`, the task list | `job_set/get`, `cache_set/get`, sync and async | failures are swallowed, keys expire, `allkeys-lru` evicts any key, no persistence | a completed record points at existing audio of the same request |
| Circuit breaker, `core/redis_client.py` | `_failures`, `_state`, `_last_fail` | `state`, `allow_request`, `record_success`, `record_failure` | calls overlap; an outcome is recorded long after it happened; cancelled calls record nothing | quiet for the time-out after the threshold; opens and closes for good when Redis does |
| Client `generateSpeech`, `react-client/ttsClient.js` | its position and its attempts | post, poll, download | reads a record twice that may change in between | every session ends, with audio or a definite error |
| React hook `useTTS`, same file | `loading`, `audioUrl`, `error`, two refs | `generate`, `cancel`, unmount | an aborted call still runs its `catch` and `finally`, between the steps of its successor | the page plays the last request's audio, leaks no blob |
| Rate limiter, `api/middleware/rate_limit.py` | a sorted set per IP in Redis, a deque per IP and process | `dispatch`, `_check_redis`, `is_allowed` | stamped here and counted there; falls back per request | the burst holds for every window; whoever waits gets through |
| Voice model store, `worker/celery_app.py`, `check_download_models.py` | the models directory, `_LOADED_VOICES` | `_get_voice`, `_ensure_voice_files`, `_download_file`, `check_and_download` | processes delete, truncate and load one another's files without a lock | what nobody writes to is complete; complete files are left alone |
| Synthesis and chunking, `worker/celery_app.py` | chunk and final files | `_chunk_text`, `_synthesise` | a chunk fails after others were written; an exception inside the `finally`; a kill anywhere | the WAV speaks the whole text in order; an execution that ends by itself leaves one file at most |
| Storage back ends, `storage/backend.py`, and the warm-up in `main.py` | the files on the volume, the bucket and its lifecycle rule, `_storage_instance` | `get_storage`, `_ensure_bucket`, `cleanup_expired`; `save`, `load`, `delete`, `exists` have no caller | a clean-up beside a running synthesis; several API processes create one bucket in two calls, and may die in between | no file of a running task is removed; a bucket has a rule unless a process failed half-way; no object stays for ever |
| Streamlit front end, `streamlit_app.py` | the jobs of a script, what is completed, what is downloaded | `run_multi_synthesis`, `queue_job`, `download_wav`, `merge_wavs` | many jobs of one script end in any order; one that fails, is lost or hangs concerns all of them | every line's own audio in script order, or an error with a cause; it always stops waiting |
| Application (but its storage warm-up), configuration, logging, metrics, deployment | settings read once | wiring | only the facts about failures (a Redis without persistence, a shared volume, two replicas) | not modelled otherwise |

**How they interact.** The API and the workers share no memory. They meet in
four places: the job records (the API writes `queued`, the worker everything
else, the client reads through the API), the broker's list (published by the
API and by a retry, delivered to an idle worker), the audio volume or bucket
(written by the worker, read by the API's streaming response) and the cache
entries (read by the API). Each has one order that matters and one failure that
nobody sees: a record write that fails is logged and forgotten.

## 2. The modules

| Module | Models | Composes |
|---|---|---|
| `JobPipeline` | one job from POST to acknowledgement: API handler, records, cache, broker, worker task, volume, bucket | |
| `JobContract` | abstract: what a client is promised about one job's status | refined by `JobPipeline` |
| `ClientSession` | `generateSpeech` with `GET /jobs` and `GET /download` | extends `JobPipeline` |
| `Dialogue` | `run_multi_synthesis` over all lines of a script | extends `JobPipeline` |
| `Synthesis` | `_chunk_text` and `_synthesise` on the shared directory, with the clean-up beside them | |
| `AudioContract` | abstract: what the task relies on when it calls `_synthesise` | refined by `Synthesis` |
| `Storage` | volume or bucket: creation of the bucket, its rule, upload, expiry | extends `Synthesis` |
| `CircuitBreaker` | the breaker of one process with its calls in flight | |
| `VoiceStore` | workers and the maintenance script on one models directory | |
| `RateLimiter` | the sliding window of one IP in Redis and its fallbacks | |
| `UseTTS` | the React hook with overlapping calls | |
| `MC*` | small instances for TLC: values of function-valued constants, symmetry | |
| `JobPipeline_proofs`, `ClientSession_proofs`, `Dialogue_proofs`, `CircuitBreaker_proofs`, `VoiceStore_proofs`, `RateLimiter_proofs`, `UseTTS_proofs`, `Storage_proofs` | theorems and their proofs | the two of the clients extend the one of the pipeline |

### JobPipeline

State: `api[j]` is where the POST handler of request `j` is; `record`, `cache`
are Redis; `queue`, `unacked` the broker; `pc`, `msg`, `stored` the task of each
worker process (`worker_prefetch_multiplier=1`: one message each); `volume`, `bucket` the
files. `started`, `made` and `mishap` are history.

A handler is cut at every point where another process can act. `generate_audio`
becomes `LookupCache`, `ServeHit`, `RecordQueued`, `Enqueue`; the task becomes
`Deliver`, `MarkProcessing`, `Synthesise` or `SynthesisRaises`, `Upload`,
`StoreResult`, `Acknowledge`, and on an exception `RecordFailed`, `Retry`. A
record operation either happens or, with the fault `redis`, does not, and the
caller goes on: `_sync_safe` and `_async_safe` swallow the failure, and an open
circuit looks the same to the caller. With the fault `slow` a write times out and
is on its way to Redis still: `delayed` keeps it, and `ExecuteLate` executes it at
any later time, over whatever newer writes have stored by then, or never. The
caller may have been told nothing (the time-out is swallowed) or have sent the
write again with success (`RETRY_ON_TIMEOUT`, `config.py:33`).

What may go wrong is the constant `Faults`: failing and delayed record
operations, a broker that refuses, an API process that dies, a synthesis or
upload that raises, the soft time limit after the result was stored, the hard
limit, a worker that dies, a record or the broker's list that is evicted, a
cache entry that expires or is evicted (`forget`), a Redis that restarts, a
client whose request fails (`net`). What did go wrong is remembered per job in
`mishap`, so a property names exactly the faults that excuse an outcome. The
same property then holds in fault-free runs without the excuse.

Choices worth knowing:

- The soft limit raised inside a record write or an upload is caught by the
  `except` around it, so it looks like a dropped write or a failed upload.
  In `_synthesise` it is a synthesis that raises. What remains, between storing
  the result and returning it, is the action `SoftLimit`.
- `Crash` merges the loss of the worker with the broker's redelivery after the
  visibility time-out. A message redelivered because a task merely runs longer
  than that time-out is not modelled (the hard limit is far below it).
- Only record writes may be executed late. A publication that raises may have
  reached the broker (`Enqueue`), at once or not at all; a retry that is
  published late is a slow retry.
- `Callers` names functions that nobody in the repository calls, `cache_set` and
  `cleanup_expired`. Runs that check the cache path enable them; runs that check
  the program as it is do not.
- A WAV on the volume is named by the execution that made it (a new
  `uuid4` session for each), an object by its job.
- `created_at` is never stored by the worker, so `expires_in` is null for every
  worker result; no property is about it.
- The raw Redis fallback of `_update_job` is left out: `job_set` swallows its own
  failures, so nothing but a failing import leads there.

### JobContract and the refinement

`JobContract` knows only `status`, the tries that have `begun` and whether the
reply said `queued` (`due`). It promises the order of the statuses, at most
`MaxRetries` retries, each begun only after all the earlier ones, and that a
job that is due ends. `JobPipeline!ImplementsContract` is
`INSTANCE JobContract WITH` a mapping from records and started messages. TLC
checks it with its fairness in `ClientCache`; that each step is one of
`JobContract`, or none that a client can see, is proved (`StepsOfContract`).

### Synthesis, AudioContract and Storage

`Synthesis` takes the single action `JobPipeline!Synthesise` apart. `disk[t][p]`
is the file of execution `t` with number `p`: the chunks from 1, the final WAV
is 0. Names carry a fresh `uuid4`, so no two executions share a file; a retry is
an execution of its own. A text is the numbers of its words, and a WAV the
sequence of the word sets its segments speak. Each file operation is an action:
`OpenChunk`, `Speak`, `Rename` or `OpenFinal` and `WriteFinal`, `Unlink` one by
one, `Measure`. `Raise` is any exception in the `try` block and enters the
`finally` clause (`pc` is `unwind`), `CutShort` one inside that clause (the soft
time limit), `Kill` the hard limit or the loss of the process. The frames that
`WriteFinal` writes are read before the final file is opened; nobody writes to a
chunk in between, so reading and writing are one step. What raises before the
first file exists (no voice, no chunk) is a `Raise` with nothing on the disk.

`spent[t]` is how long an execution has been running and `age` how old a file
is: `Tick` lets both grow and is blocked by a running execution that has
reached `HardLimit`, which Celery kills then. `Sweep` and `Remove` are
`cleanup_expired`: what is on its list was expired when `now` was read, and is
removed one file after the other, at any later time. That it never takes a file
from a task rests on `HardLimit < Ttl` (360 and 600 seconds), the assumption
`LimitsAssumption`.

`AudioContract` is what `JobPipeline` takes for granted about an execution: it
ends with a WAV that is there, or without one, and the WAV stays until the task
is over. `Synthesis!ImplementsAudio` maps `pc` and `disk` to it.

`Storage` adds where the WAVs go. An API process that starts runs `HeadBucket`,
`CreateBucket`, `PutLifecycle`; `BootFails` is any of these calls raising, which
`lifespan` logs before it serves on without a back end; only a restart tries
again. `Upload` is the worker's, which looks for no rule. MinIO's time is not
modelled beyond `ExpireObject`, which a rule makes happen eventually. The local
WAV of an uploaded object stays on the volume, where the clean-up of the MinIO
back end leaves it; section 5 has more.

### ClientSession

`Reply`, `Poll`, `GiveUp`, `Download`, `Stream` are the awaits of
`generateSpeech` merged with the handlers that answer them. `Download` reads the
record a second time and checks the file; `Stream` is `stat` and the opening of
the file, of which either fails if the file is gone by then; the client cannot
use either answer. `Unreachable` is a request that fails on the network, or an
answer that is not about the job (429, 500). `Clients` are the requests whose
client is followed; the others only post, which keeps the runs small where
several jobs meet. `HandlerMoves`, `TaskMoves` and `StoreMoves` list the actions
of `JobPipeline!Next`, so that TLC tells for each of them whether it occurs;
`PipelineFaults` is this module without any client. `JobPipeline!Readable` is
what `async_job_get` may return: the record or, when the read fails, nothing at
all. The history variable `unread` remembers the jobs to whom that happened. The
abort signal belongs to `UseTTS`.

### Dialogue

One page that turns the lines of `Script` into one WAV. `Post` and `Answer` are
`queue_job`, one line after the other; `NextRound` and `Poll` the polling loop,
which asks for each line that is not completed once per round; `Download` and
`Stream` fetch the lines one by one as in `ClientSession`; `Merge` is
`merge_wavs`, of which only the order of the segments and the pauses between
them are kept (`Paused` says whether there are any: the pieces of one long text
are merged without). A record that is not there has no `status`, and the
`KeyError` ends the whole dialogue (`unknown`); so does every other exception. Every
POST is given a new job, so no two lines share one. Requests of the page that fail
on the network are not modelled: they end the dialogue like a refused one.
`merge_wavs` skips a segment that is not a WAV and takes the sample rate of the
first; no segment that arrives is broken and the workers write one rate per
voice, so neither is in the model: mixing voices of two rates is a matter of
sound, which no property is about. `run_single_synthesis` makes the requests of
`generateSpeech` and has no module of its own.

### CircuitBreaker

`Request`, `Answer`, `RecordSuccess`, `RecordFailure`, `Cancel` are the steps of
a call through `_async_safe`; the property `state` has a side effect and is read by
`GetCircuitState` too. `since` replaces the difference of two clock readings;
values beyond `Timeout + 1` and failure counts beyond `Threshold` make no
difference to any guard and are not told apart. A call may fail while Redis is up,
for instance because the pool has no connection left: `redis` is `up`, `flaky`
(a call may succeed or fail) or `down`.

### VoiceStore

Every file operation of `_ensure_voice_files` and `_download_file` is a step of
its own in every worker, and so is the script's. A file has `Size` blocks; each file has
its own minima: `MinSize` is what a worker's check requires (5 MB, and more than
100 bytes for the `.json`), `DownloadMin` what its download requires (5 MB, 100
bytes), `ScriptMin` what the script requires (its minimum per voice, 100 bytes).
A table of the script takes the status of all files of the voice before it deletes
any. That a file vanishes between the script's download and its last
`stat`, which ends the script, is not modelled. Opening truncates, and an open file that was deleted under its
writer lives on without a name: `attached` says whose writes still reach the
path. The soft limit inside the `time.sleep` between two attempts is not
modelled; it ends the call like `NetworkFails` on the last attempt. In its
"check only" mode the script deletes files too, with the same actions.

### RateLimiter

One IP, since the keys of different IPs never meet. A request is stamped in its
process (`Ask`), counted when Redis executes the pipeline (`Count`) and answered
(`Respond`); or the connection fails before or after the count and the
process's own deque decides (`FallBack`). A pipeline that Redis executes after
its caller has given up is not modelled. The burst depends on the tier, the key does
not. Members of the sorted set are stamps, so requests of one
millisecond count once; and a rejected request stays in the set. Both are in
the model. The loop that pops the head of the deque while it is older than the
window is `Popped`: the one number of pops after which the head is not `Stale`.

### UseTTS

Each call of `generate` has its own continuation: `waiting` for
`generateSpeech`, or `refused` while `apiFetch` reads the body of an error
response, whose own failure it swallows, so that an abort at that moment ends in the error
of the response and not in an `AbortError`. Code between two awaits is one
step. A `generate` called after the unmount is left out: nothing on a page that is gone calls it.

## 3. The runs

| Run | Instance | Shows |
|---|---|---|
| `ClientCache` | 3 requests, two of them equal, 2 workers, volume, 1 retry, cache and clean-up in use, 1 client followed, 1 poll; `synth`, `forget`, `net` | `DoneHasOwnAudio`, `CompletedHasAudio`, `ImplementsContract` |
| `ClientFaults` | 1 job, 2 workers, 1 retry, 1 crash; `redis`, `api`, `late`, `crash`, `evict` | every session ends, every job settles, every error has a cause |
| `Dialogue` | a script of 3 lines (two alike), 1 worker, 2 rounds, cache and clean-up in use; `redis`, `synth`, `api` | `LinesInOrder`, `UnknownHasCause`, `DialogueEnds` |
| `PipelineFaults` | 1 job, nobody following it, 2 workers, MinIO, 1 retry, 1 crash, 1 delayed write, all faults of a job (`redis` excepted: a delayed write that never arrives is one that failed) | `NoLimbo`, `ExclusiveExecution`, `NoEarlyGiveUp`, `RecordIsCurrent`, `CompletedHasAudio`, `OutcomeStable` |
| `Storage` | 1 execution, texts of 30, 60 and 61 words in chunks of 30, hard limit 2, time to live 3, 2 clean-ups, both back ends, 2 API processes, 1 restart | `WavIsWhole`, `LeavesAtMostOne`, `ImplementsAudio`, `BucketKeepsRule`, `ObjectsExpire` |
| `CircuitBreaker` | 3 calls, threshold 2, time-out 2 | `ClosedBelowThreshold`, `QuietAfterFailure`, `Recovers`, `Protects` |
| `VoiceStore` | 2 workers and the script, 2 files of 2 blocks, 2 attempts, 1 mishap | `RestsComplete`, `StaysSatisfied` |
| `RateLimiter` | 3 requests, 2 tiers (burst 1 and 2), 2 processes, window 2, time 0 to 3, 2 faults | `WindowLimit`, `FallbackLimit`, `WaitingHelps` |
| `UseTTS` | 3 calls | `AudioIsCurrent`, `NoBlobLeaks` |
| `ClientBucket`, `VoicePoisoned`, `StorageUncleaned` | | violations, section 5 |

Every type invariant is checked in one of these runs, and every property has a
mutant in `PROJECT.json`: a definition with a plausible bug, under the name
`as`, that makes TLC report that property. The mutants stand in the modules
next to the definition they spoil, marked "Mistake".

**Why the bounds are enough.** Jobs interact only through a shared cache key and
the worker pool, so two alike jobs and one other (`ClientCache`, `Dialogue`)
or one job with all faults (`PipelineFaults`) show every
interaction; the theorems drop the bound. Two workers are needed for double
execution, a second try for retries, one crash for redelivery, and messages
after a crash carry a new `gen` so that the lost and the redelivered copy
differ. One delayed write at a time suffices to be executed after each of the
writes that follow it; clients never meet, so one is followed where three jobs run.
One or two polls are enough because a session keeps nothing but their
number; two rounds let the lines of a dialogue end in any order, within a round
and in different ones. One worker suffices there: with three jobs its queue already
gives every order. Three overlapping calls are needed at the breaker: one that opened the
circuit, one late success and one probe. Two blocks are the least that can be
half written and beyond the minimum size. In `RateLimiter` a window of 2 in a
time of 0 to 3 lets a window pass by, delays of up to 3 let stamps overtake one
another and let the key expire, and two faults allow two fallbacks or a
fallback and a restart. Three calls of the hook have a predecessor and a
successor for the middle one. In `Storage` a text fills its chunks exactly,
once and twice, or is one word longer, and has one, two or three of them.
Executions share no file, and a clean-up treats each file alike, so one
execution shows what there is; the theorems drop the bound. Two clean-ups meet
at the same file, two API processes at the same bucket, and one restart is
enough to find a bucket that was left half-way.

**Deadlock** is not checked where the system may stop: all requests answered
and all sessions over (`Client*`, `PipelineFaults`, `Dialogue`), the component unmounted and its
calls over (`UseTTS`), time used up (`RateLimiter`), a voice loaded
(`VoicePoisoned`), everything expired (`Storage*`). The breaker and the voice
store never stop, and deadlock is checked there.

**Fairness.** `JobPipeline!Fairness` and `ClientFairSpec` are weak fairness of a
handler whose await is over, of a worker process in its task, of an idle worker
fetching a message and of a client's next step: the event loop, the worker
process, the broker and the browser do this on their own. No fault is fair, and
in `ClientFairSpec` and `DialogueFairSpec` alone clients do send their requests.
`DialogueFairSpec` is fair to the page and to the API's handlers only: that a
dialogue ends must not depend on the workers. `CircuitBreaker` assumes that the
clock advances, that tasks keep using Redis, and (strong fairness) that not
every call is cancelled before its outcome is recorded: with every call
cancelled nothing is recorded and the breaker cannot know. `StorageFairSpec` is
fair to the clock, to the hard limit at its time, to a start in progress and to
MinIO's rule. It is not fair to a clean-up, since the repository schedules none:
`Storage` lets clean-ups run at any time, to show that they do no harm, and
claims that things expire only for the objects of the bucket. `StorageUncleaned`
is the program as it is, without a clean-up. No liveness is claimed for two
workers downloading one voice: each may truncate the other's file for ever.
`VoicePoisoned` has one worker and no script.

## 4. The proofs

TLAPS proves the following for all values of the constants, from the named
`ASSUME`s of the modules (types and bounds of the constants, nothing else).

**JobPipeline_proofs.** `TypeCorrect`; `NobodyInLimbo`; `OneExecution`;
`AudioBehindCompleted`; `ResultsStay`; `RecordFollowsCarrier`; `EveryTryRuns`;
`StepsOfContract`. `NoLimbo` is not inductive: that nothing is pending and
settled says nothing about how far a worker has come. `LimboInv` adds
`NothingBeforePublish` (no message or task of a job whose handler has not
published), `HeldUnacked` (a busy worker's message is kept by the broker unless
it was wiped) and `InFlight` (whoever is owed an outcome is carried by a message
or by a worker that will still report). `OneExecution` needs `OneCarrier`:
without a crash a job has at most one carrier, message or worker, because a
retry is published by a worker that reports nothing more. `AudioBehindCompleted` needs
`GoodPaths`: every path in a record, a cache entry, a found hit or a worker's
hands satisfies what the property demands of records. `ResultsStay` needs
`ResultFinal`: once a record says completed, the handler has done its part, no
message of the job is queued and its worker is past the last write; that the
write itself finds nobody else at work is `OneCarrier` again. `RecordFollowsCarrier`
says that the record is what its job's carrier reported last. It needs
`CurrentInv`, which ties the record to the position of the handler, the message
or the worker that carries the job, `OneCarrier` (a second carrier would write
beside the first), and `DelayedBlamed`: a write that is still on its way to Redis
belongs to a job that is marked `slow`, so no late execution touches a job
without an excuse. `EveryTryRuns` needs `TriesChain`: a
message of try n exists only when the tries before n have begun, and a record
that says failed outlives its carrier only after the last one.

`StepsOfContract` is the step simulation of `JobContract`, under the hypothesis
`Quiet`: `Faults` is any subset of `synth`, `upload`, `api`, `forget` and `net`,
which includes those of `ClientCache` (with a failing record operation or a lost
message the contract does not hold, and is not meant to). The handler's writes
are `Submit`, a publication is `Accept`, `MarkProcessing` is `Begin`,
`StoreResult` and `RecordFailed` are `End`, everything else stutters. That a
`Begin` finds the record `queued` or `failed` with exactly the earlier tries
begun, and an `End` finds it `processing`, is `QuietInv`: each message that
waits, and each worker at each position of its task, accounts for the record's
status and the tries so far. It rests on `OneCarrier`, without which a second
worker would spoil the first one's account. TLC checked `QuietInv` on a small
instance before it was proved. The rest of
`ImplementsContract`, its fairness, stays with TLC.

**ClientSession_proofs** and **Dialogue_proofs.** `SessionTypes`, `OwnAudio`,
`NotFoundExplained`, `NotReadyExplained`; `DialogueInOrder`, `UnknownExplained`,
`DialogueTypeCorrect`, `CountingIsEnough`.
Both clients only read the pipeline: each of their steps is one of its steps or
a stutter, so every invariant of `Spec` holds under `ClientSpec` and
`DialogueSpec`. From it they use `RecordInv` (`JobPipeline_proofs`, "What a client
may read"): the record of a published job is there unless Redis lost it, and one
that was served or completed stays completed unless a mishap took it back. What is added
concerns the client's own memory: a client that is fetching or streaming was told
`completed`; the lines before `turn` hold audio of their own, and audio that was
made stays good (`DialogueInv`). `CountingIsEnough` is about the loop that counts:
it ends when as many jobs were found completed as there are lines
(`streamlit_app.py:423`), and what follows indexes the results by line (489).
Every line has a result because no job is counted twice and no two lines share
one (`FoundInv`), by a pigeonhole argument.

**CircuitBreaker_proofs.** `TypeCorrect`, `CircuitSafe`, `Quiet`. The three facts
about `failures`, `state` and `since` are inductive together; `Quiet` is an
action property that follows from them.

**VoiceStore_proofs.** `TypeCorrect`, `CompleteAtRest`, `Settled`. The invariant
`Rest` adds `Attachment` (an attached worker is at a position where it has its
file open) and `LastWriter`: a file is complete, or damaged, or the last worker to have opened
it is still writing to it and has written everything that is missing so far.
That is why truncating somebody's download is harmless at rest.

**RateLimiter_proofs.** `TypeCorrect`, `WindowHolds`, `FallbackHolds`,
`WaitingHolds`. `WindowLimit` speaks of all requests admitted in a window that
ended at any time, and the sorted set only knows the last one, with stamps that
arrive late. `WindowInv` bounds three sets of requests that Redis has let
through, `Within(t)` for every `t`, `Fit` (a window from now still concerns
them) and `Forgotten` (those of `Fit` whose stamps are not in the set, which only a
restart of Redis brings about, so they are allowed one burst less). It bounds all
their subsets, since a request that was let through may lose its answer, be
decided by the fallback instead and so leave the set. The step that matters is
`Count`: the requests of the window that ends now, without the forgotten ones,
have their stamps in what `ZCARD` counts (`CountWindow`). `StampsInv` supports it: no stamp is in the
future, and the key outlives each stamp by a window, so an expired key takes
nothing away that counts.

For the fallback, `DequeInv` ties each deque to the requests it admitted: it
is sorted, each position mirrors a different request, and every request that is
not stale has a position. What is left after popping is then exactly those of
the last window (`Left`), and comparing its length with the limit compares their
number: `SpellInv` (at most `FALLBACK_RPM` in any window) and `BlockedInv` (at least that
many for whoever is turned away) follow. The proofs assume a clock that does
not run backwards, as the model does, and nothing about its bound, the burst, or the number of
requests. `StampsInv`, `WindowInv` and `DequeInv` were checked by TLC on the
instance of the run first.

**Storage_proofs.** `CutWhole`, `StorageTypes`, `WholeWavs`, `OneFileLeft`,
`SynthesisImplementsAudio`, `BucketRule`. `CutWhole` is about the splitting alone,
for every length and every chunk size, from two facts about integer division.
The invariant has four parts for each execution: `Young` (its files are no older
than itself), `Spoken` (the chunks listed so far are there, in order and whole),
`Wav` (from the merge on there is a final file and it is whole) and `Tidy` (what
exists besides the listed chunks at each position), and `OnlyFinished` says that a clean-up
has no file of a running execution on its list, which follows from `Young` and
`HardLimit < Ttl` when the list is made and lasts because an execution that is
over stays over. The refinement is proved step by step on top of it;
`AudioContract` has no fairness, so nothing of it is left to TLC.

**UseTTS_proofs.** `TypeCorrect`, `AudioOfLast`, `UrlsRevoked`, from `Hook`,
which adds that only the last call is in flight, that no later call is aborted
beforehand, that no blob exists while a call is in flight and that the audio
shown is the blob held.

Only model-checked: all liveness (`Settles`, `SessionEnds`, `DialogueEnds`,
`Recovers`, `Protects`, `ObjectsExpire`) and the fairness of `JobContract` within
`ImplementsContract`, which are out of the prover's reach. Every other property
of the runs that hold, each invariant and each action property, is a theorem.

## 5. Where the code departs from its own words

- `ClientBucket`: with `STORAGE_BACKEND=minio` the worker records the key of an
  object and `download_audio` looks for that key on its own disk: every
  completed job answers 410.
- `VoicePoisoned`: a worker killed in the middle of a download, beyond the flat minimum
  size, leaves a partial model that every later call accepts and fails to load;
  `check_download_models.py:11-15` describes this for its own former version.
- `StorageUncleaned`: `cleanup_expired` has no caller and no beat schedule exists, so
  WAVs stay on the volume for ever, with either back end (that of MinIO would not
  remove them if it were called), where `api/routes/tts.py:253-254`, `main.py:93`,
  README:63 and README:227 let them expire after ten minutes.

Not given a run, but worth knowing: `cache_set` has no caller, so the cache that
README:72 advertises never has an entry and a repeated request is synthesised
again; a half-open circuit admits every call until the first outcome, where the comment
says "Allow one probe" (`redis_client.py:84`); the 429 names the tier's requests
per minute, but the limit is the burst (`rate_limit.py:120`); a call that
`useTTS` has cancelled still switches the spinner off in its `finally`, and can
show its error, while its successor is running (`ttsClient.js:212-218`); `run_multi_synthesis` provides for
cache hits that "return the same job_id" (`streamlit_app.py:384-387`, 452), but every
POST gets a fresh `uuid4`, so `unique_job_ids` is always the whole list; README:53-54
describes other Redis databases and lifetimes than the code uses. About storage
and synthesis: with MinIO the WAV stays on the volume beside its object, and the
clean-up of that back end, which "MinIO lifecycle rules handle"
(`backend.py:246`), leaves it there even if somebody calls it; a bucket without a
rule never gets one (`backend.py:173` only acts on a bucket that is missing);
objects live for a day and not for ten minutes (`backend.py:183`); `_chunk_text`
says that the default of 500 words leaves script lines whole
(`celery_app.py:164-176`), but the request's `chunk_words` is passed, 30 unless the client
asks otherwise, so every longer line is cut and merged; `_synthesise` takes
`speed` and `pitch` and uses neither.

## 6. Not modelled, and the plan

Not modelled, because there is nothing a state machine could get wrong or
because nothing runs it:

- `save`, `load`, `delete`, `exists` of both back ends and their `sync_` versions:
  they have no caller. The API and the worker go to the volume and the bucket
  themselves, in `JobPipeline`.
- `core/config.py`, `core/logging.py`, `observability/metrics.py`, the rest of
  `main.py`: settings, output and wiring without a decision that depends on state.
- `parse_script`, `split_into_chunks` and the page layout of `streamlit_app.py`:
  functions of the text alone. Their pieces are the `Script` of `Dialogue`. One
  sentence above `MAX_CHARS` stays one piece (an uploaded file has no limit), the
  API refuses it, and the dialogue ends in `refused`, as for any other refusal.
- `run_single_synthesis`, which repeats `generateSpeech`.
- The byte layout of WAV files; names, formats and wording everywhere.

Done in this order: `JobPipeline`, `JobContract`, `CircuitBreaker`,
`ClientSession`, `VoiceStore`, `RateLimiter`, `UseTTS`, `Dialogue`, `Synthesis`,
`AudioContract`, `Storage`, with the proofs above.

Next, to model: the composition of `CircuitBreaker` with record operations, so
that "dropped" has its real cause; a script that is parsed before it is posted.

Next, to prove: what the recorded outcome of a session or a dialogue that ended
in an error says about its jobs, beyond `NotFoundHasCause` and `UnknownHasCause`.
