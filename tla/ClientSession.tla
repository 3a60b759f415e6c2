--------------------------- MODULE ClientSession ---------------------------
(***************************************************************************)
(* The client of a job, composed with JobPipeline: generateSpeech of       *)
(* react-client/ttsClient.js, which posts the request, polls the record    *)
(* and downloads the audio, and the handlers that answer it, GET           *)
(* /jobs/{job_id} and GET /download/{job_id} of api/routes/tts.py. The     *)
(* file is opened when the response body is streamed, after the handler    *)
(* has checked that it exists.                                             *)
(***************************************************************************)
EXTENDS JobPipeline

CONSTANTS
  Clients,   \* the requests whose client is followed; the others only post
  MaxPolls   \* MAX_POLL_ATTEMPTS

ASSUME ClientsAssumption == Clients \subseteq Jobs
ASSUME PollsAssumption   == MaxPolls \in Nat

VARIABLES
  client,  \* where generateSpeech is, or how it ended
  polls,   \* its attempts
  stream,  \* the file whose content the client was promised
  unread   \* HISTORY: the jobs whose record was there and could not be read

clientVars == <<client, polls, stream, unread>>
allVars    == <<vars, clientVars>>

Ended == {"done", "refused", "notFound", "failed", "timeout", "notReady", "gone", "broken",
          "unreachable"}
ClientState == {"posting", "polling", "fetching", "streaming"} \cup Ended

ClientTypeOK ==
  /\ client \in [Jobs -> ClientState]
  /\ polls  \in [Jobs -> 0 .. MaxPolls]
  /\ stream \in [Jobs -> Msg \cup {NoMsg}]
  /\ unread \subseteq Jobs

ClientInit ==
  /\ Init
  /\ client = [j \in Jobs |-> "posting"]
  /\ polls  = [j \in Jobs |-> 0]
  /\ stream = [j \in Jobs |-> NoMsg]
  /\ unread = {}

Become(j, c) == client' = [client EXCEPT ![j] = c]

Reply(j) ==
  /\ client[j] = "posting"
  /\ \/ api[j] = "accepted" /\ Become(j, "polling")
     \/ api[j] = "served"   /\ Become(j, "fetching")
     \/ api[j] = "refused"  /\ Become(j, "refused")
  /\ UNCHANGED <<vars, polls, stream, unread>>

NoteRead(j, s) == unread' = IF s = record[j].status THEN unread ELSE unread \cup {j}

(* Mistakes: the attempts are not bounded, or not counted. *)
PollUnbounded(j) ==
  /\ client[j] = "polling"
  /\ polls' = [polls EXCEPT ![j] = @ + 1]
  /\ Pending(j)
  /\ UNCHANGED <<vars, client, stream, unread>>

PollUncounted(j) ==
  /\ client[j] = "polling"
  /\ polls[j] < MaxPolls
  /\ \/ record[j].status = "completed" /\ Become(j, "fetching")
     \/ Pending(j) /\ UNCHANGED client
     \/ record[j].status = "absent" /\ Become(j, "notFound")
     \/ record[j].status = "failed" /\ Become(j, "failed")
  /\ UNCHANGED <<vars, polls, stream, unread>>

Poll(j) ==
  /\ client[j] = "polling"
  /\ polls[j] < MaxPolls
  /\ polls' = [polls EXCEPT ![j] = @ + 1]
  /\ \E s \in GetJobStatus(j) :
       /\ NoteRead(j, s)
       /\ CASE s = "absent"    -> Become(j, "notFound")
            [] s = "completed" -> Become(j, "fetching")
            [] s = "failed"    -> Become(j, "failed")
            [] OTHER           -> UNCHANGED client
  /\ UNCHANGED <<vars, stream>>

GiveUp(j) ==
  /\ client[j] = "polling"
  /\ polls[j] = MaxPolls
  /\ Become(j, "timeout")
  /\ UNCHANGED <<vars, polls, stream, unread>>

(* download_audio reads the record again. *)
Download(j) ==
  /\ client[j] = "fetching"
  /\ \E r \in Readable(j) :
       /\ NoteRead(j, r.status)
       /\ \/ /\ r.status = "completed" /\ OnDisk(r.path)
             /\ Become(j, "streaming")
             /\ stream' = [stream EXCEPT ![j] = r.path.wav]
          \/ /\ r.status = "completed" /\ ~OnDisk(r.path)
             /\ Become(j, "gone") /\ UNCHANGED stream
          \/ /\ r.status = "absent"
             /\ Become(j, "notFound") /\ UNCHANGED stream
          \/ /\ r.status \notin {"completed", "absent"}
             /\ Become(j, "notReady") /\ UNCHANGED stream
  /\ UNCHANGED <<vars, polls>>

(* What is left of download_audio after exists(): stat() and, when the     *)
(* response body is streamed, open(). A file that is removed never comes   *)
(* back, so one look at the later of the two tells whether both succeed;   *)
(* the client sees the 500 of the one and the broken body of the other as  *)
(* a download that failed.                                                 *)
Stream(j) ==
  /\ client[j] = "streaming"
  /\ Become(j, IF stream[j] \in volume THEN "done" ELSE "broken")
  /\ UNCHANGED <<vars, polls, stream, unread>>

(* fetch throws, or apiFetch and downloadAudio do for a status that is not *)
(* about the job: the rejection ends generateSpeech wherever it waits.     *)
Unreachable(j) ==
  /\ "net" \in Faults
  /\ \/ client[j] \in {"posting", "fetching", "streaming"}
     \/ client[j] = "polling" /\ polls[j] < MaxPolls
  /\ Become(j, "unreachable")
  /\ UNCHANGED <<vars, polls, stream, unread>>

Session(j) ==
  Reply(j) \/ Poll(j) \/ GiveUp(j) \/ Download(j) \/ Stream(j) \/ Unreachable(j)

(* The actions of JobPipeline!Next one by one, so that TLC reports on each  *)
(* of them beside the clients.                                             *)
HandlerMoves ==
  \E j \in Jobs :
     \/ LookupCache(j)  /\ UNCHANGED clientVars
     \/ ServeHit(j)     /\ UNCHANGED clientVars
     \/ RecordQueued(j) /\ UNCHANGED clientVars
     \/ Enqueue(j)      /\ UNCHANGED clientVars
     \/ ApiCrash(j)     /\ UNCHANGED clientVars
     \/ EvictRecord(j)  /\ UNCHANGED clientVars

TaskMoves ==
  \E w \in Workers :
     \/ \E m \in queue : Deliver(w, m) /\ UNCHANGED clientVars
     \/ MarkProcessing(w)  /\ UNCHANGED clientVars
     \/ Synthesise(w)      /\ UNCHANGED clientVars
     \/ SynthesisRaises(w) /\ UNCHANGED clientVars
     \/ Upload(w)          /\ UNCHANGED clientVars
     \/ StoreResult(w)     /\ UNCHANGED clientVars
     \/ RecordFailed(w)    /\ UNCHANGED clientVars
     \/ Retry(w)           /\ UNCHANGED clientVars
     \/ Acknowledge(w)     /\ UNCHANGED clientVars
     \/ SoftLimit(w)       /\ UNCHANGED clientVars
     \/ HardKill(w)        /\ UNCHANGED clientVars
     \/ Crash(w)           /\ UNCHANGED clientVars
     \/ CacheSet(w)        /\ UNCHANGED clientVars

StoreMoves ==
  \/ \E m \in volume  : Cleanup(m)     /\ UNCHANGED clientVars
  \/ \E k \in Keys    : EvictEntry(k)  /\ UNCHANGED clientVars
  \/ \E d \in delayed : ExecuteLate(d) /\ UNCHANGED clientVars
  \/ EvictBroker  /\ UNCHANGED clientVars
  \/ RedisRestart /\ UNCHANGED clientVars

ClientNext ==
  \/ HandlerMoves \/ TaskMoves \/ StoreMoves
  \/ \E j \in Clients : Session(j)

ClientSpec == ClientInit /\ [][ClientNext]_allVars

(* A browser goes on with its session and its requests are delivered, or   *)
(* fail.                                                                   *)
ClientFairSpec ==
  /\ ClientSpec
  /\ \A j \in Jobs : /\ WF_allVars(LookupCache(j) /\ UNCHANGED clientVars)
                     /\ WF_allVars(Handler(j) /\ UNCHANGED clientVars)
  /\ \A j \in Clients : WF_allVars(Session(j))
  /\ \A w \in Workers :
       /\ WF_allVars(Task(w) /\ UNCHANGED clientVars)
       /\ WF_allVars((\E m \in queue : Deliver(w, m)) /\ UNCHANGED clientVars)

(***************************************************************************)
(* Properties.                                                             *)
(***************************************************************************)

(* The audio a client has played was synthesised to the end, for its own   *)
(* text, voice, speed and pitch, although two handlers, a worker and       *)
(* perhaps a cached entry of another job have each named the file anew.    *)
DoneHasOwnAudio ==
  \A j \in Jobs : client[j] = "done" =>
     stream[j] \in made /\ KeyOf[stream[j].job] = KeyOf[j]

(* Every error has a cause. "Not found" is only shown for a record that    *)
(* Redis lost, or failed to store in time or to return; "audio not ready   *)
(* yet" after a poll has said "completed" only when the job was run again  *)
(* or an earlier write was executed late.                                  *)
NotFoundHasCause ==
  \A j \in Jobs :
     client[j] = "notFound" => j \in unread \/ Excused(j, {"dropped", "slow", "evicted", "wiped"})

NotReadyHasCause ==
  \A j \in Jobs : client[j] = "notReady" => Excused(j, {"crashed", "late", "slow"})

(* Every session ends, whatever happens to the job: the polls are bounded. *)
SessionEnds == \A j \in Clients : <>(client[j] \in Ended)

(* api/routes/tts.py:6-10: once GET /jobs says "completed", GET /download  *)
(* streams the WAV. No clean-up takes the file in this specification.      *)
CompletedIsDownloadable == \A j \in Jobs : client[j] # "gone"
=============================================================================
