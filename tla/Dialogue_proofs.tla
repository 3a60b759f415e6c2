-------------------------- MODULE Dialogue_proofs --------------------------
(***************************************************************************)
(* run_multi_synthesis for a script of any length, with any number of      *)
(* rounds, workers and faults, beside the pipeline it reads.               *)
(***************************************************************************)
EXTENDS Dialogue, JobPipeline_proofs, FiniteSetTheorems, FunctionTheorems, SequenceTheorems

LEMMA DialogueStep == [DialogueNext]_allVars => [Next]_vars
  BY DEF DialogueNext, Post, Pipeline, Next, Step, Answer, NextRound, Poll, Download, Stream,
         Merge, allVars

(* Every step of the dialogue is a step of the pipeline or stutters.       *)
LEMMA DialogueIsPipeline == DialogueSpec => Spec
<1>1. DialogueInit => Init
  BY DEF DialogueInit
<1> QED
  BY <1>1, DialogueStep, PTL DEF DialogueSpec, Spec

Offered == RecordInv /\ CompletedHasAudio

LEMMA OfferedAlways == DialogueSpec => []Offered
  BY DialogueIsPipeline, RecordInvAlways, AudioBehindCompleted, PTL DEF Offered

(***************************************************************************)
(* The invariant: every line before turn has been downloaded with audio of *)
(* its own, the one that is streaming was promised such audio, and every   *)
(* line that is polled has an answer.                                      *)
(***************************************************************************)
Own(j, m) == m \in made /\ KeyOf[m.job] = KeyOf[j]

LoopType ==
  /\ phase \in Phase
  /\ posted \in 0 .. Len(Script)
  /\ turn \in 1 .. Len(Script) + 1
  /\ audio \in [Jobs -> Msg \cup {NoMsg}]
  /\ phase = "posting" => posted < Len(Script)
  /\ phase = "streaming" => turn \in Lines

Accepted ==
  /\ \A i \in Lines : i <= posted => api[Script[i]] \in {"accepted", "served"}
  /\ phase \in {"polling", "downloading", "streaming"} => posted = Len(Script)

Downloaded ==
  phase \in {"downloading", "streaming"} =>
     \A i \in Lines : i < turn => Own(Script[i], audio[Script[i]])

Promised == phase = "streaming" => Own(Script[turn], stream)

DialogueInv == LoopType /\ Accepted /\ Downloaded /\ Promised /\ LinesInOrder /\ UnknownHasCause

LEMMA ScriptFacts ==
  /\ Len(Script) \in Nat \ {0}
  /\ Lines = 1 .. Len(Script)
  /\ \A i \in Lines : Script[i] \in Jobs
  /\ \A a, b \in Lines : Script[a] = Script[b] => a = b
  BY ScriptAssumption DEF Lines

LEMMA InitDialogueInv == DialogueInit => DialogueInv
  BY ScriptFacts
  DEF DialogueInit, DialogueInv, LoopType, Phase, Over, Accepted, Downloaded, Promised,
      LinesInOrder, UnknownHasCause, Init

(* A step of the pipeline takes nothing away from the dialogue. *)
LEMMA PipelineKeeps ==
  ASSUME DialogueInv, Offered, [Next]_vars, UNCHANGED dialogueVars
  PROVE  DialogueInv'
<1> USE DEF DialogueInv, dialogueVars
<1>1. TypeOK
  BY DEF Offered, RecordInv
<1>2. LoopType'
  BY DEF LoopType
<1>3. \A j \in Jobs : api[j] \in {"accepted", "served"} => api'[j] = api[j]
  BY <1>1, HandlerSteps DEF LookupCache, Handler, ServeHit, RecordQueued, Enqueue, ApiCrash
<1>4. Accepted'
  BY <1>3, ScriptFacts DEF Accepted
<1>5. made \subseteq made'
  BY <1>1, GoodStays
<1>6. Downloaded' /\ Promised'
  BY <1>5 DEF Downloaded, Promised, Own
<1>7. LinesInOrder'
  BY <1>5 DEF LinesInOrder
<1>8. UnknownHasCause'
  BY <1>1, MishapsStay, ScriptFacts DEF UnknownHasCause, Excused
<1> QED
  BY <1>2, <1>4, <1>6, <1>7, <1>8

(* The merged audio of good segments, with the pauses and without.         *)
LEMMA MergedInOrder ==
  ASSUME NEW chunks, Len(chunks) \in Nat \ {0}, Paused
  PROVE  /\ Len(Merged(chunks)) = 2 * Len(chunks) - 1
         /\ \A i \in 1 .. Len(chunks) : Merged(chunks)[2 * i - 1] = chunks[i]
         /\ \A i \in 1 .. Len(chunks) - 1 : Merged(chunks)[2 * i] = NoMsg
<1> DEFINE n == Len(chunks)
           s == Merged(chunks)
<1>1. s = [i \in 1 .. 2 * n - 1 |-> IF i % 2 = 1 THEN chunks[(i + 1) \div 2] ELSE NoMsg]
  BY DEF Merged
<1>2. n \in Nat \ {0} /\ 2 * n - 1 \in Nat
  OBVIOUS
<1> HIDE DEF n, s
<1>3. Len(s) = 2 * n - 1
  BY <1>1, <1>2
<1>4. ASSUME NEW i \in 1 .. n PROVE s[2 * i - 1] = chunks[i]
  <2>1. 2 * i - 1 \in 1 .. 2 * n - 1 /\ (2 * i - 1) % 2 = 1 /\ (2 * i - 1 + 1) \div 2 = i
    BY <1>2
  <2> QED
    BY <1>1, <2>1
<1>5. ASSUME NEW i \in 1 .. n - 1 PROVE s[2 * i] = NoMsg
  <2>1. 2 * i \in 1 .. 2 * n - 1 /\ (2 * i) % 2 = 0
    BY <1>2
  <2> QED
    BY <1>1, <2>1
<1> QED
  BY <1>3, <1>4, <1>5 DEF n, s

LEMMA MergedWithoutPauses ==
  ASSUME NEW chunks, ~Paused
  PROVE  Merged(chunks) = chunks
  BY DEF Merged

LEMMA StepKeeps ==
  ASSUME DialogueInv, Offered, Step
  PROVE  DialogueInv'
<1>0. LoopType /\ Accepted /\ Downloaded /\ Promised /\ LinesInOrder /\ UnknownHasCause
  BY DEF DialogueInv
<1>a. /\ UNCHANGED vars /\ api' = api /\ made' = made
      /\ \A j \in Jobs : \A what : Excused(j, what)' <=> Excused(j, what)
  BY DEF Step, Answer, NextRound, Poll, Download, Stream, Merge, vars, apiVars, history, Excused
<1>1. ASSUME NEW j \in Jobs, Answer(j) PROVE DialogueInv'
  <2>1. /\ phase = "posting" /\ j = Script[posted + 1]
        /\ UNCHANGED <<turn, stream, audio, shown, unread>>
        /\ \/ /\ api[j] \in {"accepted", "served"} /\ posted' = posted + 1
              /\ phase' = IF posted' = Len(Script) THEN "polling" ELSE "posting"
           \/ phase' = "refused" /\ posted' = posted
    BY <1>1 DEF Answer, Asks
  <2>2. LoopType'
    BY <1>0, <2>1, ScriptFacts DEF LoopType, Phase, Over
  <2>3. Accepted'
    BY <1>0, <1>a, <2>1, ScriptFacts DEF Accepted, LoopType
  <2> QED
    BY <2>1, <2>2, <2>3
    DEF DialogueInv, Downloaded, Promised, LinesInOrder, UnknownHasCause
<1>2. CASE NextRound
  <2>1. /\ phase = "polling" /\ UNCHANGED <<posted, stream, audio, shown, unread>>
        /\ \/ phase' = "downloading" /\ turn' = 1
           \/ phase' = "polling" /\ turn' = 1
           \/ phase' = "timeout" /\ turn' = turn
    BY <1>2 DEF NextRound
  <2>2. LoopType'
    BY <1>0, <2>1, ScriptFacts DEF LoopType, Phase, Over
  <2>3. Accepted' /\ Downloaded'
    BY <1>0, <1>a, <2>1, ScriptFacts DEF Accepted, Downloaded
  <2> QED
    BY <2>1, <2>2, <2>3 DEF DialogueInv, Promised, LinesInOrder, UnknownHasCause
<1>3. ASSUME NEW i \in Lines, Poll(i) PROVE DialogueInv'
  <2>1. /\ phase = "polling" /\ turn' = i + 1
        /\ UNCHANGED <<posted, stream, audio, shown>>
        /\ phase' \in {"polling", "failed", "unknown"}
    BY <1>3 DEF Poll
  <2>2. PICK s \in GetJobStatus(Script[i]) :
          /\ NoteRead(Script[i], s)
          /\ phase' = "unknown" => s = "absent"
    BY <1>3, <2>1 DEF Poll
  <2>3. LoopType'
    BY <1>0, <2>1, ScriptFacts DEF LoopType, Phase, Over
  <2>4. Accepted'
    BY <1>0, <1>a, <2>1 DEF Accepted
  <2>5. ASSUME phase' = "unknown"
        PROVE  unread' \/ Excused(Script[i], {"dropped", "slow", "evicted", "wiped"})
    <3>1. api[Script[i]] \in {"accepted", "served"}
      BY <1>0, <2>1, ScriptFacts DEF Accepted
    <3>2. CASE s = record[Script[i]].status
      BY <2>2, <2>5, <3>1, <3>2, ScriptFacts DEF Offered, RecordInv, LostHasCause
    <3>3. CASE s # record[Script[i]].status
      BY <2>2, <3>3 DEF NoteRead
    <3> QED
      BY <3>2, <3>3
  <2>6. UnknownHasCause'
    BY <1>a, <2>5, ScriptFacts DEF UnknownHasCause
  <2> QED
    BY <2>1, <2>3, <2>4, <2>6 DEF DialogueInv, Downloaded, Promised, LinesInOrder
<1>4. ASSUME NEW i \in Lines, Download(i) PROVE DialogueInv'
  <2>1. /\ phase = "downloading" /\ i = turn /\ UNCHANGED <<posted, turn, audio, shown>>
        /\ phase' \in {"streaming", "undelivered"}
    BY <1>4 DEF Download
  <2>2. PICK r \in Readable(Script[i]) :
          phase' = "streaming" => r.status = "completed" /\ stream' = r.path.wav
    BY <1>4 DEF Download
  <2>3. LoopType'
    BY <1>0, <2>1 DEF LoopType, Phase, Over
  <2>4. Accepted' /\ Downloaded'
    BY <1>0, <1>a, <2>1 DEF Accepted, Downloaded, Own
  <2>5. ASSUME phase' = "streaming" PROVE Own(Script[i], stream')
    <3>1. r = record[Script[i]]
      BY <2>2, <2>5 DEF Readable, Absent, Rec
    <3> QED
      BY <2>2, <2>5, <3>1, ScriptFacts DEF Offered, CompletedHasAudio, Own
  <2>6. Promised'
    BY <1>a, <2>1, <2>5 DEF Promised, Own
  <2> QED
    BY <2>1, <2>3, <2>4, <2>6 DEF DialogueInv, LinesInOrder, UnknownHasCause
<1>5. CASE Stream
  <2>1. /\ phase = "streaming" /\ UNCHANGED <<posted, shown, unread>>
        /\ \/ /\ audio' = [audio EXCEPT ![Script[turn]] = stream]
              /\ phase' = "downloading" /\ turn' = turn + 1
           \/ phase' = "undelivered" /\ UNCHANGED <<audio, turn>>
    BY <1>5 DEF Stream
  <2>2. turn \in Lines /\ Own(Script[turn], stream)
    BY <1>0, <2>1 DEF LoopType, Promised
  <2>3. stream \in Msg
    BY <2>2 DEF Own, Offered, RecordInv, TypeOK
  <2>4. LoopType'
    BY <1>0, <2>1, <2>2, <2>3, ScriptFacts DEF LoopType, Phase, Over
  <2>5. Accepted'
    BY <1>0, <1>a, <2>1 DEF Accepted
  <2>6. ASSUME phase' = "downloading", NEW i \in Lines, i < turn'
        PROVE  Own(Script[i], audio'[Script[i]])
    <3>1. audio' = [audio EXCEPT ![Script[turn]] = stream] /\ turn' = turn + 1
      BY <2>1, <2>6
    <3>2. CASE i = turn
      BY <1>0, <2>2, <3>1, <3>2, ScriptFacts DEF LoopType
    <3>3. CASE i # turn
      <4>1. i < turn /\ Script[i] # Script[turn]
        BY <2>2, <2>6, <3>1, <3>3, ScriptFacts
      <4>2. audio'[Script[i]] = audio[Script[i]]
        BY <1>0, <3>1, <4>1, ScriptFacts DEF LoopType
      <4> QED
        BY <1>0, <2>1, <4>1, <4>2 DEF Downloaded
    <3> QED
      BY <3>2, <3>3
  <2>7. Downloaded'
    BY <1>a, <2>1, <2>6 DEF Downloaded, Own
  <2> QED
    BY <2>1, <2>4, <2>5, <2>7 DEF DialogueInv, Promised, LinesInOrder, UnknownHasCause
<1>6. CASE Merge
  <2>1. /\ phase = "downloading" /\ turn = Len(Script) + 1 /\ shown' = Merged(Chunks)
        /\ phase' = "shown" /\ UNCHANGED <<posted, turn, audio>>
    BY <1>6 DEF Merge
  <2>2. LoopType'
    BY <1>0, <2>1 DEF LoopType, Phase, Over
  <2>3. Accepted'
    BY <1>0, <1>a, <2>1 DEF Accepted
  <2>4. /\ Len(Chunks) = Len(Script)
        /\ \A i \in Lines : Chunks[i] = audio[Script[i]]
    BY ScriptFacts DEF Chunks
  <2>5. /\ Paused => /\ Len(shown') = 2 * Len(Script) - 1
                     /\ \A i \in 1 .. Len(Script) : shown'[2 * i - 1] = Chunks[i]
                     /\ \A i \in 1 .. Len(Script) - 1 : shown'[2 * i] = NoMsg
        /\ ~Paused => shown' = Chunks
    BY <2>1, <2>4, ScriptFacts, MergedInOrder, MergedWithoutPauses
  <2>6. \A i \in Lines : Own(Script[i], Chunks[i])
    BY <1>0, <2>1, <2>4, ScriptFacts DEF Downloaded
  <2>7. LinesInOrder'
    <3>1. CASE Paused
      <4>1. \A i \in Lines : shown'[2 * i - 1] = Chunks[i]
        BY <2>5, <3>1, ScriptFacts
      <4> QED
        BY <1>a, <2>5, <2>6, <3>1, <4>1 DEF LinesInOrder, Own
    <3>2. CASE ~Paused
      BY <1>a, <2>4, <2>5, <2>6, <3>2 DEF LinesInOrder, Own
    <3> QED
      BY <3>1, <3>2
  <2> QED
    BY <2>1, <2>2, <2>3, <2>7 DEF DialogueInv, Downloaded, Promised, UnknownHasCause
<1> QED
  BY <1>1, <1>2, <1>3, <1>4, <1>5, <1>6 DEF Step

LEMMA DialogueInvAlways == DialogueSpec => []DialogueInv
<1>1. DialogueInv /\ Offered /\ [DialogueNext]_allVars => DialogueInv'
  <2> SUFFICES ASSUME DialogueInv, Offered, [DialogueNext]_allVars PROVE DialogueInv'
    OBVIOUS
  <2>1. [Next]_vars
    BY DialogueStep
  <2>2. CASE UNCHANGED dialogueVars
    BY <2>1, <2>2, PipelineKeeps
  <2>3. CASE Step
    BY <2>3, StepKeeps
  <2> QED
    BY <2>2, <2>3 DEF DialogueNext, Post, allVars
<1> QED
  BY <1>1, InitDialogueInv, OfferedAlways, PTL DEF DialogueSpec

(* Whatever the script, the order in which its jobs end and the faults on  *)
(* the way: a dialogue that is shown has every line's own audio, in order. *)
THEOREM DialogueInOrder == DialogueSpec => []LinesInOrder
  BY DialogueInvAlways, PTL DEF DialogueInv

(* A missing record has a cause in Redis or on the way to it.              *)
THEOREM UnknownExplained == DialogueSpec => []UnknownHasCause
  BY DialogueInvAlways, PTL DEF DialogueInv

(***************************************************************************)
(* The rounds of polling. Every line is found completed at most once, so   *)
(* that counting those found (len(completed)) tells when all are.          *)
(***************************************************************************)
FoundInv ==
  /\ polls \in 0 .. MaxPolls
  /\ stream \in Msg \cup {NoMsg}
  /\ shown \in Seq(Msg \cup {NoMsg})
  /\ unread \in BOOLEAN
  /\ completed \in Seq(Jobs)
  /\ \A a \in DOMAIN completed : \E i \in Lines : completed[a] = Script[i]
  /\ \A a, b \in DOMAIN completed : completed[a] = completed[b] => a = b
  /\ phase \in {"downloading", "streaming", "shown"} => AllFound

LEMMA FoundLines ==
  ASSUME FoundInv
  PROVE  /\ Len(completed) \in Nat /\ Len(completed) <= Len(Script)
         /\ AllFound => \A i \in Lines : Found(Script[i])
<1> DEFINE n == Len(completed)
           N == Len(Script)
<1>1. n \in Nat /\ DOMAIN completed = 1 .. n
  BY LenProperties DEF FoundInv
<1>2. N \in Nat /\ Lines = 1 .. N /\ \A a, b \in 1 .. N : Script[a] = Script[b] => a = b
  BY ScriptFacts
<1>3. /\ \A a \in 1 .. n : \E i \in 1 .. N : completed[a] = Script[i]
      /\ \A a, b \in 1 .. n : completed[a] = completed[b] => a = b
  BY <1>1, <1>2 DEF FoundInv
<1> DEFINE f == [a \in 1 .. n |-> CHOOSE i \in 1 .. N : completed[a] = Script[i]]
<1> HIDE DEF n, N
<1>4. \A a \in 1 .. n : f[a] \in 1 .. N /\ completed[a] = Script[f[a]]
  BY <1>3
<1>5. f \in [1 .. n -> 1 .. N]
  BY <1>4
<1>6. \A a, b \in 1 .. n : f[a] = f[b] => a = b
  <2> HIDE DEF f
  <2>1. QED
    BY <1>3, <1>4
<1> HIDE DEF f
<1>7. f \in Injection(1 .. n, 1 .. N)
  BY <1>5, <1>6, Fun_IsInj
<1>8. IsFiniteSet(1 .. N) /\ Cardinality(1 .. N) = N /\ Cardinality(1 .. n) = n
  <2>1. 1 \in Int /\ n \in Int /\ N \in Int
    BY <1>1, <1>2
  <2>2. QED
    BY <1>1, <1>2, <2>1, FS_Interval
<1>9. n <= N
  BY <1>7, <1>8, FS_Injection
<1>10. ASSUME n = N, NEW i \in 1 .. N PROVE Found(Script[i])
  <2>1. f \in Surjection(1 .. n, 1 .. N)
    BY <1>7, <1>8, <1>10, FS_Injection
  <2>2. PICK a \in 1 .. n : f[a] = i
    BY <2>1 DEF Surjection
  <2>3. QED
    BY <1>1, <1>4, <2>2 DEF Found
<1>11. QED
  BY <1>1, <1>2, <1>9, <1>10 DEF AllFound, n, N

LEMMA MergedType ==
  ASSUME NEW S, NEW chunks \in Seq(S), Len(chunks) \in Nat \ {0}, NoMsg \in S
  PROVE  Merged(chunks) \in Seq(S)
<1> DEFINE n == Len(chunks)
           m == 2 * n - 1
<1>1. CASE Paused
  <2>1. n \in Nat \ {0} /\ m \in Nat
    OBVIOUS
  <2>2. ASSUME NEW i \in 1 .. m, i % 2 = 1 PROVE chunks[(i + 1) \div 2] \in S
    <3>1. (i + 1) \div 2 \in 1 .. n
      BY <2>1, <2>2
    <3>2. QED
      BY <3>1, ElementOfSeq
  <2>3. Merged(chunks) = [i \in 1 .. m |-> IF i % 2 = 1 THEN chunks[(i + 1) \div 2] ELSE NoMsg]
    BY <1>1 DEF Merged
  <2>4. Merged(chunks) \in [1 .. m -> S]
    BY <2>2, <2>3
  <2> HIDE DEF m
  <2>5. QED
    BY <2>1, <2>4
<1>2. CASE ~Paused
  BY <1>2 DEF Merged
<1>3. QED
  BY <1>1, <1>2

LEMMA FoundStep ==
  ASSUME DialogueInv, Offered, FoundInv, Step
  PROVE  FoundInv'
<1> USE PollsAssumption
<1>1. ASSUME NEW j \in Jobs, Answer(j) PROVE FoundInv'
  BY <1>1 DEF FoundInv, Answer, Asks, AllFound
<1>2. CASE NextRound
  BY <1>2 DEF FoundInv, NextRound, AllFound
<1>3. ASSUME NEW i \in Lines, Poll(i) PROVE FoundInv'
  <2>1. /\ i \in Rest /\ phase = "polling" /\ phase' \in {"polling", "failed", "unknown"}
        /\ completed' = completed \/ completed' = Append(completed, Script[i])
        /\ UNCHANGED <<polls, stream, shown>>
    BY <1>3 DEF Poll
  <2>2. unread' \in BOOLEAN
    BY <1>3 DEF Poll, NoteRead, FoundInv
  <2>3. CASE completed' = completed
    BY <2>1, <2>2, <2>3 DEF FoundInv
  <2>4. CASE completed' = Append(completed, Script[i])
    <3> DEFINE n == Len(completed)
    <3>1. Script[i] \in Jobs /\ completed \in Seq(Jobs)
      BY ScriptFacts DEF FoundInv
    <3>2. /\ completed' \in Seq(Jobs)
          /\ n \in Nat /\ DOMAIN completed = 1 .. n /\ DOMAIN completed' = 1 .. n + 1
          /\ \A a \in 1 .. n : completed'[a] = completed[a]
          /\ completed'[n + 1] = Script[i]
      BY <2>4, <3>1, AppendProperties, LenProperties
    <3>3. \A a \in 1 .. n : completed[a] # Script[i]
      BY <2>1, <3>2 DEF Rest, Found
    <3> HIDE DEF n
    <3>4. \A a \in 1 .. n + 1 : a = n + 1 \/ a \in 1 .. n
      BY <3>2
    <3>5. \A a \in DOMAIN completed' : \E k \in Lines : completed'[a] = Script[k]
      BY <3>2, <3>4 DEF FoundInv
    <3>6. \A a, b \in DOMAIN completed' : completed'[a] = completed'[b] => a = b
      BY <3>2, <3>3, <3>4 DEF FoundInv
    <3>7. QED
      BY <2>1, <2>2, <3>2, <3>5, <3>6 DEF FoundInv
  <2>5. QED
    BY <2>1, <2>3, <2>4
<1>4. ASSUME NEW i \in Lines, Download(i) PROVE FoundInv'
  <2>1. /\ phase = "downloading" /\ phase' \in {"streaming", "undelivered"}
        /\ UNCHANGED <<polls, completed, shown>>
    BY <1>4 DEF Download
  <2>2. unread' \in BOOLEAN
    BY <1>4 DEF Download, NoteRead, FoundInv
  <2>3. stream' \in Msg \cup {NoMsg}
    <3>1. ASSUME NEW r \in Readable(Script[i]) PROVE r.path.wav \in Msg \cup {NoMsg}
      <4>1. record[Script[i]] \in Record /\ Absent \in Record
        BY ScriptFacts DEF Offered, RecordInv, TypeOK, Absent, Rec, Record, Status, NoPath, Path
      <4>2. r \in Record
        BY <4>1 DEF Readable
      <4>3. QED
        BY <4>2 DEF Record, Path
    <3>2. QED
      BY <1>4, <3>1 DEF Download, FoundInv
  <2>4. QED
    BY <2>1, <2>2, <2>3 DEF FoundInv, AllFound
<1>5. CASE Stream
  BY <1>5 DEF FoundInv, Stream, AllFound
<1>6. CASE Merge
  <2>1. Chunks \in Seq(Msg \cup {NoMsg}) /\ Len(Chunks) = Len(Script)
    <3>1. \A i \in Lines : audio[Script[i]] \in Msg \cup {NoMsg}
      BY ScriptFacts DEF DialogueInv, LoopType
    <3>2. Chunks \in [1 .. Len(Script) -> Msg \cup {NoMsg}]
      BY <3>1, ScriptFacts DEF Chunks
    <3>3. QED
      BY <3>2, ScriptFacts DEF Chunks
  <2>2. Merged(Chunks) \in Seq(Msg \cup {NoMsg})
    <3>1. NoMsg \in Msg \cup {NoMsg}
      OBVIOUS
    <3>2. QED
      BY <2>1, <3>1, ScriptFacts, MergedType
  <2>3. QED
    BY <1>6, <2>2 DEF FoundInv, Merge, AllFound
<1>7. QED
  BY <1>1, <1>2, <1>3, <1>4, <1>5, <1>6 DEF Step

LEMMA FoundAlways == DialogueSpec => []FoundInv
<1>1. DialogueInit => FoundInv
  <2> SUFFICES ASSUME DialogueInit PROVE FoundInv
    OBVIOUS
  <2>1. phase = "posting" /\ polls \in 0 .. MaxPolls /\ stream \in Msg \cup {NoMsg}
    BY PollsAssumption DEF DialogueInit
  <2>2. completed = <<>> /\ completed \in Seq(Jobs) /\ DOMAIN completed = {}
    BY EmptySeq DEF DialogueInit
  <2>3. shown \in Seq(Msg \cup {NoMsg})
    BY EmptySeq DEF DialogueInit
  <2>4. unread \in BOOLEAN
    BY DEF DialogueInit
  <2>5. QED
    BY <2>1, <2>2, <2>3, <2>4 DEF FoundInv
<1>2. DialogueInv /\ Offered /\ FoundInv /\ [DialogueNext]_allVars => FoundInv'
  <2>1. UNCHANGED dialogueVars /\ FoundInv => FoundInv'
    BY DEF dialogueVars, FoundInv, AllFound
  <2>2. QED
    BY <2>1, FoundStep DEF DialogueNext, Post, allVars
<1>3. QED
  BY <1>1, <1>2, DialogueInvAlways, OfferedAlways, PTL DEF DialogueSpec

(* Dialogue!DialogueTypeOK: in particular the dict of streamlit_app.py:421 *)
(* never holds more jobs than the script has lines, and no more than       *)
(* MAX_POLLS rounds are begun.                                             *)
THEOREM DialogueTypeCorrect == DialogueSpec => []DialogueTypeOK
<1>1. DialogueInv /\ FoundInv => DialogueTypeOK
  BY FoundLines DEF DialogueInv, LoopType, FoundInv, DialogueTypeOK
<1>2. QED
  BY <1>1, DialogueInvAlways, FoundAlways, PTL

(* streamlit_app.py:423 leaves the loop when it has counted as many jobs   *)
(* as there are lines, and :489 then looks every line's job up: none is    *)
(* missing, whatever the order of the rounds in which they were found.     *)
EveryLineFound ==
  phase \in {"downloading", "streaming", "shown"} => \A i \in Lines : Found(Script[i])

THEOREM CountingIsEnough == DialogueSpec => []EveryLineFound
<1>1. FoundInv => EveryLineFound
  BY FoundLines DEF FoundInv, EveryLineFound
<1>2. QED
  BY <1>1, FoundAlways, PTL

=============================================================================
