------------------------------ MODULE Dialogue ------------------------------
(***************************************************************************)
(* The second client of the API, composed with JobPipeline:                *)
(* run_multi_synthesis of streamlit_app.py, which turns a script into one  *)
(* WAV. It posts one request per line, each after the answer to the one    *)
(* before, polls the lines in rounds until all are completed, downloads    *)
(* them one by one and merges them with a pause between the lines. Any     *)
(* exception on the way ends the dialogue with an error.                   *)
(***************************************************************************)
EXTENDS JobPipeline, Sequences

CONSTANTS
  Script,    \* job_id_per_line: the request of each line
  Paused,    \* pause_ms > 0: a dialogue has pauses, the pieces of one text have none
  MaxPolls   \* MAX_POLLS, the rounds of polling

(* Every POST is given a new uuid4, a cache hit too: no two lines share a  *)
(* job, although they may share a cache key.                               *)
ASSUME ScriptAssumption == /\ Script \in Seq(Jobs) \ {<<>>}
                           /\ \A a, b \in DOMAIN Script : Script[a] = Script[b] => a = b
ASSUME PauseAssumption  == Paused \in BOOLEAN
ASSUME PollsAssumption  == MaxPolls \in Nat

Lines == DOMAIN Script

VARIABLES
  phase,      \* where the dialogue is, or how it ended
  posted,     \* how many lines have been answered with a job_id
  polls,      \* how many rounds of polling have begun
  completed,  \* the jobs known to be completed, in the order they were found
  turn,       \* the next line of the round, or the next to download
  stream,     \* the file whose content is being downloaded
  audio,      \* audio_cache
  shown,      \* the merged WAV: lines and pauses in order
  unread      \* HISTORY: a record was there and could not be read

dialogueVars == <<phase, posted, polls, completed, turn, stream, audio, shown, unread>>
allVars      == <<vars, dialogueVars>>

Over  == {"shown", "refused", "unknown", "failed", "timeout", "undelivered"}
Phase == {"posting", "polling", "downloading", "streaming"} \cup Over

DialogueTypeOK ==
  /\ phase     \in Phase
  /\ posted    \in 0 .. Len(Script)
  /\ polls     \in 0 .. MaxPolls
  /\ completed \in Seq(Jobs)
  /\ Len(completed) <= Len(Script)
  /\ turn      \in 1 .. Len(Script) + 1
  /\ stream    \in Msg \cup {NoMsg}
  /\ audio     \in [Jobs -> Msg \cup {NoMsg}]
  /\ shown     \in Seq(Msg \cup {NoMsg})
  /\ unread    \in BOOLEAN

DialogueInit ==
  /\ Init
  /\ phase     = "posting"
  /\ posted    = 0
  /\ polls     = 0
  /\ completed = <<>>
  /\ turn      = Len(Script) + 1
  /\ stream    = NoMsg
  /\ audio     = [j \in Jobs |-> NoMsg]
  /\ shown     = <<>>
  /\ unread    = FALSE

(* queue_job: the next request is sent when the answer to the last is in. *)
Asks(j) == phase = "posting" /\ j = Script[posted + 1]

Post(j) == Asks(j) /\ LookupCache(j) /\ UNCHANGED dialogueVars

Answer(j) ==
  /\ Asks(j)
  /\ \/ /\ api[j] \in {"accepted", "served"}
        /\ posted' = posted + 1
        /\ phase' = IF posted' = Len(Script) THEN "polling" ELSE "posting"
     \/ /\ api[j] = "refused"
        /\ phase' = "refused"
        /\ UNCHANGED posted
  /\ UNCHANGED <<vars, polls, completed, turn, stream, audio, shown, unread>>

Found(j) == \E i \in DOMAIN completed : completed[i] = j
Rest     == {i \in Lines : i >= turn /\ ~Found(Script[i])}
AllFound == Len(completed) = Len(Script)

(* Mistakes: the rounds are not bounded, or not counted. *)
NextRoundUnbounded ==
  /\ phase = "polling"
  /\ Rest = {}
  /\ ~AllFound
  /\ polls' = polls + 1
  /\ turn' = 1
  /\ UNCHANGED <<vars, phase, posted, completed, stream, audio, shown, unread>>

NextRoundUncounted ==
  /\ phase = "polling"
  /\ Rest = {}
  /\ turn' = 1
  /\ phase' = IF AllFound THEN "downloading" ELSE "polling"
  /\ UNCHANGED <<vars, posted, polls, completed, stream, audio, shown, unread>>

(* The while loop between two rounds. *)
NextRound ==
  /\ phase = "polling"
  /\ Rest = {}
  /\ \/ /\ AllFound
        /\ phase' = "downloading" /\ turn' = 1 /\ UNCHANGED polls
     \/ /\ ~AllFound /\ polls < MaxPolls
        /\ polls' = polls + 1 /\ turn' = 1 /\ UNCHANGED phase
     \/ /\ ~AllFound /\ polls = MaxPolls
        /\ phase' = "timeout" /\ UNCHANGED <<polls, turn>>
  /\ UNCHANGED <<vars, posted, completed, stream, audio, shown, unread>>

NoteRead(j, s) == unread' = (unread \/ s # record[j].status)

(* One GET /jobs of the round. A record that is not there has no "status": *)
(* the KeyError ends the dialogue like a failed job does.                  *)
Poll(i) ==
  /\ phase = "polling"
  /\ i \in Rest
  /\ \A k \in Rest : i <= k
  /\ turn' = i + 1
  /\ \E s \in GetJobStatus(Script[i]) :
       /\ NoteRead(Script[i], s)
       /\ \/ /\ s = "completed"
             /\ completed' = Append(completed, Script[i])
             /\ UNCHANGED phase
          \/ /\ s \in {"queued", "processing"}
             /\ UNCHANGED <<phase, completed>>
          \/ /\ s = "failed"
             /\ phase' = "failed" /\ UNCHANGED completed
          \/ /\ s = "absent"
             /\ phase' = "unknown" /\ UNCHANGED completed
  /\ UNCHANGED <<vars, posted, polls, stream, audio, shown>>

(* GET /download up to its headers, which reads the record again. *)
Download(i) ==
  /\ phase = "downloading"
  /\ i = turn
  /\ \E r \in Readable(Script[i]) :
       /\ NoteRead(Script[i], r.status)
       /\ \/ /\ r.status = "completed" /\ OnDisk(r.path)
             /\ phase' = "streaming" /\ stream' = r.path.wav
          \/ /\ ~(r.status = "completed" /\ OnDisk(r.path))
             /\ phase' = "undelivered" /\ UNCHANGED stream
  /\ UNCHANGED <<vars, posted, polls, completed, turn, audio, shown>>

(* _iter_file opens the file only now. *)
Stream ==
  /\ phase = "streaming"
  /\ \/ /\ stream \in volume
        /\ audio' = [audio EXCEPT ![Script[turn]] = stream]
        /\ phase' = "downloading"
        /\ turn' = turn + 1
     \/ /\ stream \notin volume
        /\ phase' = "undelivered"
        /\ UNCHANGED <<audio, turn>>
  /\ stream' = NoMsg
  /\ UNCHANGED <<vars, posted, polls, completed, shown, unread>>

(* Mistake: the segments are taken in the order in which they were found.  *)
ChunksAsFound == [i \in Lines |-> audio[completed[i]]]

(* ordered_chunks: looked up by the job of the line. *)
Chunks == [i \in Lines |-> audio[Script[i]]]

(* merge_wavs: silence, which is no message, between the segments but not  *)
(* after the last. Each segment is a WAV of the worker, none is skipped.   *)
Merged(chunks) ==
  IF Paused
  THEN [i \in 1 .. 2 * Len(chunks) - 1 |-> IF i % 2 = 1 THEN chunks[(i + 1) \div 2] ELSE NoMsg]
  ELSE chunks

Merge ==
  /\ phase = "downloading"
  /\ turn = Len(Script) + 1
  /\ shown' = Merged(Chunks)
  /\ phase' = "shown"
  /\ UNCHANGED <<vars, posted, polls, completed, turn, stream, audio, unread>>

Step ==
  \/ \E j \in Jobs : Answer(j)
  \/ NextRound
  \/ \E i \in Lines : Poll(i) \/ Download(i)
  \/ Stream
  \/ Merge

Pipeline ==
  \/ \E j \in Jobs : Handler(j)
  \/ \E w \in Workers : Task(w) \/ \E m \in queue : Deliver(w, m)
  \/ Environment

DialogueNext ==
  \/ \E j \in Jobs : Post(j)
  \/ Pipeline /\ UNCHANGED dialogueVars
  \/ Step

DialogueSpec == DialogueInit /\ [][DialogueNext]_allVars

(* The Streamlit script runs on, its requests are delivered and the API's  *)
(* event loop answers them. Nothing is assumed of the workers.             *)
DialogueFairSpec ==
  /\ DialogueSpec
  /\ WF_allVars(Step)
  /\ \A j \in Jobs : /\ WF_allVars(Post(j))
                     /\ WF_allVars(Handler(j) /\ UNCHANGED dialogueVars)

(***************************************************************************)
(* Properties.                                                             *)
(***************************************************************************)

(* streamlit_app.py:381-387: the dialogue that is shown has one segment    *)
(* for each line, in script order, synthesised to the end for that line's  *)
(* own text and voice, whatever the order in which the jobs ended and      *)
(* whichever of them were served with the audio of an equal line.          *)
LinesInOrder ==
  phase = "shown" =>
    LET Segment(i) == shown[IF Paused THEN 2 * i - 1 ELSE i]
    IN  /\ Len(shown) = IF Paused THEN 2 * Len(Script) - 1 ELSE Len(Script)
        /\ \A i \in Lines : Segment(i) \in made /\ KeyOf[Segment(i).job] = KeyOf[Script[i]]
        /\ Paused => \A i \in 1 .. Len(Script) - 1 : shown[2 * i] = NoMsg

(* The KeyError of a missing record, which the page shows as "'status'",   *)
(* means that Redis lost, did not store in time or did not return the      *)
(* record of a line.                                                       *)
UnknownHasCause ==
  phase = "unknown" => \/ unread
                       \/ \E i \in Lines : Excused(Script[i], {"dropped", "slow", "evicted", "wiped"})

(* Every dialogue ends, with its audio or with an error, whatever the      *)
(* workers do: a line whose job never ends must not hold up the page.      *)
DialogueEnds == <>(phase \in Over)
=============================================================================
