------------------------ MODULE ClientSession_proofs ------------------------
(***************************************************************************)
(* generateSpeech for any number of sessions, polls, jobs, workers and     *)
(* faults. A session reads the pipeline and never changes it, so whatever  *)
(* JobPipeline_proofs shows of the pipeline holds beside its clients.      *)
(***************************************************************************)
EXTENDS ClientSession, JobPipeline_proofs

(* The steps beside the clients are the steps of the pipeline.             *)
LEMMA PipelineMoves ==
  HandlerMoves \/ TaskMoves \/ StoreMoves => Next /\ UNCHANGED clientVars
<1>1. HandlerMoves => Next /\ UNCHANGED clientVars
  BY DEF HandlerMoves, Next, Handler, Environment
<1>2. TaskMoves => Next /\ UNCHANGED clientVars
  BY DEF TaskMoves, Next, Task, Environment
<1>3. StoreMoves => Next /\ UNCHANGED clientVars
  BY DEF StoreMoves, Next, Environment
<1> QED
  BY <1>1, <1>2, <1>3

LEMMA ClientStep == [ClientNext]_allVars => [Next]_vars
  BY PipelineMoves
  DEF ClientNext, Session, Reply, Poll, GiveUp, Download, Stream, Unreachable, allVars

(* Every step of a client is a stuttering step of the pipeline.            *)
LEMMA ClientReadsOnly == ClientSpec => Spec
<1>1. ClientInit => Init
  BY DEF ClientInit
<1> QED
  BY <1>1, ClientStep, PTL DEF ClientSpec, Spec

(* What the pipeline offers a client. *)
Offered == FinalInv /\ RecordInv /\ CompletedHasAudio

LEMMA OfferedAlways == ClientSpec => []Offered
  BY ClientReadsOnly, FinalInvAlways, RecordInvAlways, AudioBehindCompleted, PTL DEF Offered

(***************************************************************************)
(* The invariant: whoever polls has an answer to its POST, whoever fetches *)
(* has seen a result that nobody will overwrite, and whoever streams was   *)
(* promised finished audio of its own.                                     *)
(***************************************************************************)
Own(j, m) == m \in made /\ KeyOf[m.job] = KeyOf[j]

Answered ==
  \A j \in Jobs : client[j] \in {"polling", "fetching"} => api[j] \in {"accepted", "served"}

FetchesResult ==
  \A j \in Jobs : client[j] = "fetching" => Excused(j, {"crashed", "late", "slow"}) \/ Ready(j)

StreamsOwn ==
  \A j \in Jobs : client[j] \in {"streaming", "done"} => Own(j, stream[j])

ClientInv ==
  /\ ClientTypeOK
  /\ Answered
  /\ FetchesResult
  /\ StreamsOwn
  /\ NotFoundHasCause
  /\ NotReadyHasCause

LEMMA InitClientInv == ClientInit => ClientInv
  BY PollsAssumption
  DEF ClientInit, ClientInv, ClientTypeOK, ClientState, Answered, FetchesResult, StreamsOwn,
      NotFoundHasCause, NotReadyHasCause

(* A step of the pipeline takes nothing away from a client. *)
LEMMA PipelineKeeps ==
  ASSUME ClientInv, Offered, [Next]_vars, UNCHANGED clientVars
  PROVE  ClientInv'
<1> USE DEF ClientInv, clientVars
<1>1. TypeOK /\ DelayedBlamed
  BY DEF Offered, FinalInv
<1>2. ClientTypeOK'
  BY DEF ClientTypeOK
<1>3. \A j \in Jobs : api[j] \in {"accepted", "served"} => api'[j] = api[j]
  BY <1>1, HandlerSteps DEF LookupCache, Handler, ServeHit, RecordQueued, Enqueue, ApiCrash
<1>4. Answered'
  BY <1>3 DEF Answered
<1>5. FetchesResult'
  BY <1>1, MishapsStay, ReadyStays DEF FetchesResult, Excused
<1>6. StreamsOwn'
  BY <1>1, GoodStays DEF StreamsOwn, Own
<1>7. NotFoundHasCause' /\ NotReadyHasCause'
  BY <1>1, MishapsStay DEF NotFoundHasCause, NotReadyHasCause, Excused
<1> QED
  BY <1>2, <1>4, <1>5, <1>6, <1>7

(* A client's step concerns its own job only, so it is judged by where it  *)
(* arrives.                                                                *)
Moves(j, c) == client' = [client EXCEPT ![j] = c] /\ UNCHANGED vars /\ unread \subseteq unread'

LEMMA Arrival ==
  ASSUME ClientInv, NEW j \in Jobs, NEW c, Moves(j, c), ClientTypeOK',
         \A i \in Jobs \ {j} : stream'[i] = stream[i],
         c \in {"polling", "fetching"} => api[j] \in {"accepted", "served"},
         c = "fetching" => Excused(j, {"crashed", "late", "slow"}) \/ Ready(j),
         c \in {"streaming", "done"} => Own(j, stream'[j]),
         c = "notFound" => j \in unread' \/ Excused(j, {"dropped", "slow", "evicted", "wiped"}),
         c = "notReady" => Excused(j, {"crashed", "late", "slow"})
  PROVE  ClientInv'
<1>1. /\ api' = api /\ made' = made /\ unread \subseteq unread'
      /\ \A i \in Jobs : \A what : Excused(i, what)' <=> Excused(i, what)
      /\ \A i \in Jobs : Ready(i)' <=> Ready(i)
  BY DEF Moves, vars, apiVars, redisVars, brokerVars, taskVars, history, Excused, Ready, AllDone
<1>2. client'[j] = c /\ \A i \in Jobs \ {j} : client'[i] = client[i]
  BY DEF Moves, ClientInv, ClientTypeOK
<1>3. Answered'
  BY <1>1, <1>2 DEF ClientInv, Answered
<1>4. FetchesResult'
  BY <1>1, <1>2 DEF ClientInv, FetchesResult
<1>5. StreamsOwn'
  BY <1>1, <1>2 DEF ClientInv, StreamsOwn, Own
<1>6. NotFoundHasCause'
  BY <1>1, <1>2 DEF ClientInv, NotFoundHasCause
<1>7. NotReadyHasCause'
  BY <1>1, <1>2 DEF ClientInv, NotReadyHasCause
<1> QED
  BY <1>3, <1>4, <1>5, <1>6, <1>7 DEF ClientInv

(* A result that a client has read, or was served with, is final. *)
LEMMA ReadResult ==
  ASSUME Offered, NEW j \in Jobs, record[j].status = "completed" \/ api[j] = "served"
  PROVE  Excused(j, {"crashed", "late", "slow"}) \/ Ready(j)
<1>1. CASE api[j] = "served"
  <2>1. Unpublished(j)
    BY <1>1 DEF Offered, RecordInv, NothingBeforePublish
  <2> QED
    BY <1>1, <2>1
    DEF Offered, RecordInv, ServedHasResult, Unpublished, Ready, AllDone, Excused
<1>2. CASE record[j].status = "completed"
  BY <1>2 DEF Offered, FinalInv, ResultFinal, Firm, Ready
<1> QED
  BY <1>1, <1>2

LEMMA SessionKeeps ==
  ASSUME ClientInv, Offered, NEW j \in Jobs, Session(j)
  PROVE  ClientInv'
<1>0. ClientTypeOK /\ Answered /\ FetchesResult /\ StreamsOwn
  BY DEF ClientInv
<1>a. Absent.status = "absent"
  BY DEF Absent, Rec
<1>1. CASE Reply(j)
  <2>1. ClientTypeOK' /\ UNCHANGED stream
    BY <1>0, <1>1 DEF Reply, Become, ClientState, Ended, ClientTypeOK
  <2>2. PICK c \in {"polling", "fetching", "refused"} :
          /\ Moves(j, c)
          /\ c = "polling"  => api[j] = "accepted"
          /\ c = "fetching" => api[j] = "served"
    BY <1>1 DEF Reply, Become, Moves
  <2> QED
    BY <2>1, <2>2, ReadResult, Arrival
<1>2. CASE Poll(j)
  <2>1. PICK s \in GetJobStatus(j) :
          /\ NoteRead(j, s)
          /\ CASE s = "absent"    -> Become(j, "notFound")
               [] s = "completed" -> Become(j, "fetching")
               [] s = "failed"    -> Become(j, "failed")
               [] OTHER           -> UNCHANGED client
    BY <1>2 DEF Poll
  <2>2. s = record[j].status \/ (s = "absent" /\ j \in unread')
    <3>1. s \in GetJobStatus(j) /\ NoteRead(j, s)
      BY <2>1
    <3> QED
      BY <3>1, <1>a DEF GetJobStatus, Readable, NoteRead
  <2>3. /\ client[j] = "polling" /\ polls[j] < MaxPolls
        /\ polls' = [polls EXCEPT ![j] = @ + 1] /\ UNCHANGED vars /\ UNCHANGED stream
    BY <1>2 DEF Poll
  <2>4. polls' \in [Jobs -> 0 .. MaxPolls]
    BY <1>0, <2>3, PollsAssumption DEF ClientTypeOK
  <2>5. unread' \subseteq Jobs /\ unread \subseteq unread'
    BY <1>0, <2>1 DEF ClientTypeOK, NoteRead
  <2>6. api[j] \in {"accepted", "served"}
    BY <1>0, <2>3 DEF Answered
  <2>7. ASSUME NEW c \in {"notFound", "fetching", "failed", "polling"},
               client' = [client EXCEPT ![j] = c],
               c = "notFound" => s = "absent",
               c = "fetching" => s = "completed"
        PROVE  ClientInv'
    <3>1. ClientTypeOK'
      BY <1>0, <2>3, <2>4, <2>5, <2>7 DEF ClientTypeOK, ClientState, Ended
    <3>2. c = "notFound" => j \in unread' \/ Excused(j, {"dropped", "slow", "evicted", "wiped"})
      BY <2>2, <2>6, <2>7 DEF Offered, RecordInv, LostHasCause
    <3>3. c = "fetching" => Excused(j, {"crashed", "late", "slow"}) \/ Ready(j)
      BY <1>a, <2>2, <2>7, ReadResult
    <3>4. Moves(j, c)
      BY <2>3, <2>5, <2>7 DEF Moves
    <3> QED
      BY <2>3, <2>6, <3>1, <3>2, <3>3, <3>4, Arrival
  <2>8. UNCHANGED client => client' = [client EXCEPT ![j] = "polling"]
    BY <1>0, <2>3 DEF ClientTypeOK
  <2> QED
    BY <2>1, <2>7, <2>8 DEF Become
<1>3. CASE GiveUp(j)
  <2>1. ClientTypeOK' /\ UNCHANGED stream
    BY <1>0, <1>3 DEF GiveUp, Become, ClientState, Ended, ClientTypeOK
  <2>2. Moves(j, "timeout")
    BY <1>3 DEF GiveUp, Become, Moves
  <2> QED
    BY <2>1, <2>2, Arrival
<1>4. CASE Download(j)
  <2>1. PICK r \in Readable(j) :
          /\ NoteRead(j, r.status)
          /\ \/ /\ r.status = "completed" /\ OnDisk(r.path)
                /\ Become(j, "streaming")
                /\ stream' = [stream EXCEPT ![j] = r.path.wav]
             \/ /\ r.status = "completed" /\ ~OnDisk(r.path)
                /\ Become(j, "gone") /\ UNCHANGED stream
             \/ /\ r.status = "absent"
                /\ Become(j, "notFound") /\ UNCHANGED stream
             \/ /\ r.status \notin {"completed", "absent"}
                /\ Become(j, "notReady") /\ UNCHANGED stream
    BY <1>4 DEF Download
  <2>2. r = record[j] \/ (r = Absent /\ (j \in unread' \/ record[j].status = "absent"))
    <3>1. r \in Readable(j) /\ NoteRead(j, r.status)
      BY <2>1
    <3> QED
      BY <3>1, <1>a DEF Readable, NoteRead
  <2>3. client[j] = "fetching" /\ UNCHANGED vars /\ UNCHANGED polls
    BY <1>4 DEF Download
  <2>4. unread' \subseteq Jobs /\ unread \subseteq unread'
    BY <1>0, <2>1 DEF NoteRead, ClientTypeOK
  <2>5. api[j] \in {"accepted", "served"}
    BY <1>0, <2>3 DEF Answered
  <2>6. ASSUME r.status = "completed", Become(j, "streaming"),
               stream' = [stream EXCEPT ![j] = r.path.wav]
        PROVE  ClientInv'
    <3>1. r = record[j] /\ Own(j, r.path.wav)
      BY <1>a, <2>2, <2>6 DEF Offered, CompletedHasAudio, Own
    <3>2. r.path.wav \in Msg
      BY <3>1 DEF Offered, FinalInv, TypeOK, Own
    <3>3. ClientTypeOK'
      BY <1>0, <2>3, <2>4, <2>6, <3>2 DEF Become, ClientTypeOK, ClientState, Ended
    <3>4. stream'[j] = r.path.wav /\ \A i \in Jobs \ {j} : stream'[i] = stream[i]
      BY <1>0, <2>6 DEF ClientTypeOK
    <3>5. Moves(j, "streaming")
      BY <2>3, <2>4, <2>6 DEF Become, Moves
    <3> QED
      BY <3>1, <3>3, <3>4, <3>5, Arrival
  <2>7. ASSUME NEW c \in {"gone", "notFound", "notReady"}, Become(j, c), UNCHANGED stream,
               c = "notFound" => r.status = "absent",
               c = "notReady" => r.status \notin {"completed", "absent"}
        PROVE  ClientInv'
    <3>1. ClientTypeOK'
      BY <1>0, <2>3, <2>4, <2>7 DEF Become, ClientTypeOK, ClientState, Ended
    <3>2. c = "notFound" => j \in unread' \/ Excused(j, {"dropped", "slow", "evicted", "wiped"})
      BY <2>2, <2>5, <2>7 DEF Offered, RecordInv, LostHasCause
    <3>3. c = "notReady" => Excused(j, {"crashed", "late", "slow"})
      BY <1>0, <1>a, <2>2, <2>3, <2>7 DEF FetchesResult, Ready
    <3>4. Moves(j, c)
      BY <2>3, <2>4, <2>7 DEF Become, Moves
    <3> QED
      BY <2>7, <3>1, <3>2, <3>3, <3>4, Arrival
  <2> QED
    BY <2>1, <2>6, <2>7
<1>5. CASE Stream(j)
  <2>1. ClientTypeOK' /\ UNCHANGED stream
    BY <1>0, <1>5 DEF Stream, Become, ClientState, Ended, ClientTypeOK
  <2>2. Own(j, stream[j])
    BY <1>0, <1>5 DEF Stream, StreamsOwn
  <2>3. \E c \in {"done", "broken"} : Moves(j, c)
    BY <1>5 DEF Stream, Become, Moves
  <2> QED
    BY <2>1, <2>2, <2>3, Arrival
<1>6. CASE Unreachable(j)
  <2>1. ClientTypeOK' /\ UNCHANGED stream
    BY <1>0, <1>6 DEF Unreachable, Become, ClientState, Ended, ClientTypeOK
  <2>2. Moves(j, "unreachable")
    BY <1>6 DEF Unreachable, Become, Moves
  <2> QED
    BY <2>1, <2>2, Arrival
<1> QED
  BY <1>1, <1>2, <1>3, <1>4, <1>5, <1>6 DEF Session

LEMMA ClientInvAlways == ClientSpec => []ClientInv
<1>1. ClientInv /\ Offered /\ [ClientNext]_allVars => ClientInv'
  <2> SUFFICES ASSUME ClientInv, Offered, [ClientNext]_allVars PROVE ClientInv'
    OBVIOUS
  <2>1. CASE Next /\ UNCHANGED clientVars
    BY <2>1, PipelineKeeps
  <2>2. CASE \E j \in Clients : Session(j)
    BY <2>2, SessionKeeps, ClientsAssumption
  <2>3. CASE UNCHANGED allVars
    <3>1. [Next]_vars /\ UNCHANGED clientVars
      BY <2>3 DEF allVars
    <3> QED
      BY <3>1, PipelineKeeps
  <2> QED
    BY <2>1, <2>2, <2>3, PipelineMoves DEF ClientNext
<1> QED
  BY <1>1, InitClientInv, OfferedAlways, PTL DEF ClientSpec

(* The sessions keep their type: the polls of generateSpeech never exceed  *)
(* MAX_POLL_ATTEMPTS.                                                      *)
THEOREM SessionTypes == ClientSpec => []ClientTypeOK
  BY ClientInvAlways, PTL DEF ClientInv

(* No client ever plays unfinished audio or the audio of another request,  *)
(* whatever the cache, the clean-up and the workers do meanwhile.          *)
THEOREM OwnAudio == ClientSpec => []DoneHasOwnAudio
<1>1. ClientInv => DoneHasOwnAudio
  BY DEF ClientInv, StreamsOwn, Own, DoneHasOwnAudio
<1> QED
  BY <1>1, ClientInvAlways, PTL

(* "Job not found" has a cause in Redis or on the way to it.               *)
THEOREM NotFoundExplained == ClientSpec => []NotFoundHasCause
  BY ClientInvAlways, PTL DEF ClientInv

(* "Audio not ready" after "completed" needs a crash, the late limit or a  *)
(* write that timed out.                                                   *)
THEOREM NotReadyExplained == ClientSpec => []NotReadyHasCause
  BY ClientInvAlways, PTL DEF ClientInv
=============================================================================
