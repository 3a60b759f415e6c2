------------------------- MODULE JobPipeline_proofs -------------------------
(***************************************************************************)
(* The pipeline for any number of jobs, workers, retries and crashes, both *)
(* storage back ends and every combination of faults.                      *)
(***************************************************************************)
EXTENDS JobPipeline, TLAPS

(***************************************************************************)
(* Types. What every action does to a record, a mishap or a worker is      *)
(* stated once.                                                            *)
(***************************************************************************)
LEMMA BlameType ==
  ASSUME TypeOK, NEW js, NEW what \in Mishaps, Blame(js, what)
  PROVE  /\ mishap' \in [Jobs -> SUBSET Mishaps]
         /\ \A j \in Jobs : mishap[j] \subseteq mishap'[j]
         /\ \A j \in Jobs \cap js : what \in mishap'[j]
         /\ \A j \in Jobs \ js : mishap'[j] = mishap[j]
         /\ \A j \in Jobs : mishap'[j] \subseteq mishap[j] \cup {what}
  BY DEF Blame, TypeOK

LEMMA WriteType ==
  ASSUME TypeOK, NEW j \in Jobs, NEW r \in Record, WriteRecord(j, r)
  PROVE  /\ record' \in [Jobs -> Record]
         /\ delayed' \subseteq Write
         /\ mishap' \in [Jobs -> SUBSET Mishaps]
         /\ \A i \in Jobs : mishap[i] \subseteq mishap'[i]
         /\ \A i \in Jobs \ {j} : record'[i] = record[i] /\ mishap'[i] = mishap[i]
         /\ \/ record'[j] = r
            \/ record'[j] = record[j] /\ mishap'[j] \cap {"dropped", "slow"} # {}
         /\ \/ delayed' = delayed
            \/ /\ delayed' = delayed \cup {[job |-> j, to |-> r]}
               /\ "slow" \in mishap'[j]
         /\ "crashed" \in mishap'[j] => "crashed" \in mishap[j]
<1>1. CASE record' = [record EXCEPT ![j] = r] /\ UNCHANGED <<delayed, mishap>>
  BY <1>1 DEF TypeOK
<1>2. CASE UNCHANGED <<record, delayed>> /\ Blame({j}, "dropped")
  <2>1. "dropped" \in Mishaps
    BY DEF Mishaps
  <2> QED
    BY <1>2, <2>1, BlameType DEF TypeOK
<1>3. CASE /\ record' \in {record, [record EXCEPT ![j] = r]}
           /\ delayed' = delayed \cup {[job |-> j, to |-> r]}
           /\ Blame({j}, "slow")
  <2>1. "slow" \in Mishaps
    BY DEF Mishaps
  <2>2. [job |-> j, to |-> r] \in Write
    BY DEF Write
  <2>3. /\ mishap' \in [Jobs -> SUBSET Mishaps]
        /\ \A i \in Jobs : mishap[i] \subseteq mishap'[i]
        /\ \A i \in Jobs \ {j} : mishap'[i] = mishap[i]
        /\ "slow" \in mishap'[j]
        /\ mishap'[j] \subseteq mishap[j] \cup {"slow"}
    BY <1>3, <2>1, BlameType
  <2>4. record' \in [Jobs -> Record] /\ (record'[j] = r \/ record'[j] = record[j])
        /\ \A i \in Jobs \ {j} : record'[i] = record[i]
    BY <1>3 DEF TypeOK
  <2> QED
    BY <1>3, <2>2, <2>3, <2>4 DEF TypeOK
<1> QED
  BY <1>1, <1>2, <1>3 DEF WriteRecord

LEMMA RecordTypes ==
  /\ NoPath \in Path
  /\ Absent \in Record
  /\ \A s \in Status : Rec(s) \in Record
  /\ \A p \in Path : Done(p) \in Record
  /\ \A m \in Msg : OnVolume(m) \in Path /\ InBucket(m) \in Path
  BY DEF NoPath, Path, Absent, Rec, Done, Record, Status, OnVolume, InBucket

LEMMA BusyHolds ==
  ASSUME TypeOK, NEW w \in Workers, pc[w] # "idle"
  PROVE  msg[w] \in Msg /\ msg[w].job \in Jobs
  BY DEF TypeOK, Msg

LEMMA TypeInit == Init => TypeOK
  BY RecordTypes, CrashesAssumption, KeysAssumption
  DEF Init, TypeOK, ApiState, PC, Mishaps

LEMMA TypeNext == TypeOK /\ [Next]_vars => TypeOK'
<1> SUFFICES ASSUME TypeOK, [Next]_vars PROVE TypeOK'
  OBVIOUS
<1> USE RecordTypes, NoMsgAssumption DEF PC
<1>0. CASE UNCHANGED vars
  BY <1>0 DEF vars, apiVars, redisVars, brokerVars, taskVars, fileVars, history, TypeOK
<1>1. ASSUME NEW j \in Jobs, LookupCache(j) PROVE TypeOK'
  BY <1>1, KeysAssumption
  DEF LookupCache, TypeOK, ApiState, redisVars, brokerVars, taskVars, fileVars, history
<1>2. ASSUME NEW j \in Jobs, ServeHit(j) PROVE TypeOK'
  <2>1. Done(found[j]) \in Record
    BY DEF TypeOK
  <2>2. /\ record' \in [Jobs -> Record] /\ delayed' \subseteq Write
        /\ mishap' \in [Jobs -> SUBSET Mishaps]
    BY <1>2, <2>1, WriteType DEF ServeHit
  <2> QED
    BY <1>2, <2>2 DEF ServeHit, TypeOK, ApiState, brokerVars, taskVars, fileVars, history
<1>3. ASSUME NEW j \in Jobs, RecordQueued(j) PROVE TypeOK'
  <2>1. Rec("queued") \in Record
    BY DEF Status
  <2>2. /\ record' \in [Jobs -> Record] /\ delayed' \subseteq Write
        /\ mishap' \in [Jobs -> SUBSET Mishaps]
    BY <1>3, <2>1, WriteType DEF RecordQueued
  <2> QED
    BY <1>3, <2>2 DEF RecordQueued, TypeOK, ApiState, brokerVars, taskVars, fileVars, history
<1>4. ASSUME NEW j \in Jobs, Enqueue(j) PROVE TypeOK'
  <2>1. First(j) \in Msg
    BY RetriesAssumption, CrashesAssumption DEF First, Msg
  <2> QED
    BY <1>4, <2>1 DEF Enqueue, TypeOK, ApiState, redisVars, taskVars, fileVars, history
<1>5. ASSUME NEW j \in Jobs, ApiCrash(j) PROVE TypeOK'
  BY <1>5
  DEF ApiCrash, TypeOK, ApiState, redisVars, brokerVars, taskVars, fileVars, history
<1>6. ASSUME NEW w \in Workers, NEW m \in queue, Deliver(w, m) PROVE TypeOK'
  BY <1>6
  DEF Deliver, Goto, TypeOK, apiVars, redisVars, fileVars, history
<1>7. ASSUME NEW w \in Workers, MarkProcessing(w) PROVE TypeOK'
  <2>1. Rec("processing") \in Record /\ msg[w] \in Msg /\ msg[w].job \in Jobs
    BY <1>7, BusyHolds DEF MarkProcessing, Status
  <2>2. /\ record' \in [Jobs -> Record] /\ delayed' \subseteq Write
        /\ mishap' \in [Jobs -> SUBSET Mishaps]
    BY <1>7, <2>1, WriteType DEF MarkProcessing
  <2> QED
    BY <1>7, <2>1, <2>2 DEF MarkProcessing, Goto, TypeOK, apiVars, brokerVars, fileVars
<1>8. ASSUME NEW w \in Workers, Synthesise(w) PROVE TypeOK'
  BY <1>8, BusyHolds DEF Synthesise, Goto, TypeOK, apiVars, redisVars, brokerVars
<1>9. ASSUME NEW w \in Workers, SynthesisRaises(w) PROVE TypeOK'
  BY <1>9
  DEF SynthesisRaises, Goto, TypeOK, apiVars, redisVars, brokerVars, fileVars, history
<1>10. ASSUME NEW w \in Workers, Upload(w) PROVE TypeOK'
  <2>1. msg[w] \in Msg /\ msg[w].job \in Jobs
    BY <1>10, BusyHolds DEF Upload
  <2> QED
    BY <1>10, <2>1 DEF Upload, Goto, TypeOK, apiVars, redisVars, brokerVars, history
<1>11. ASSUME NEW w \in Workers, StoreResult(w) PROVE TypeOK'
  <2>1. Done(stored[w]) \in Record /\ msg[w].job \in Jobs
    BY <1>11, BusyHolds DEF StoreResult, TypeOK
  <2>2. /\ record' \in [Jobs -> Record] /\ delayed' \subseteq Write
        /\ mishap' \in [Jobs -> SUBSET Mishaps]
    BY <1>11, <2>1, WriteType DEF StoreResult
  <2> QED
    BY <1>11, <2>2 DEF StoreResult, Goto, TypeOK, apiVars, brokerVars, fileVars, history
<1>12. ASSUME NEW w \in Workers, SoftLimit(w) PROVE TypeOK'
  <2>1. mishap' \in [Jobs -> SUBSET Mishaps]
    BY <1>12, BlameType DEF SoftLimit, Mishaps
  <2> QED
    BY <1>12, <2>1
    DEF SoftLimit, Goto, TypeOK, apiVars, redisVars, brokerVars, fileVars, history
<1>13. ASSUME NEW w \in Workers, RecordFailed(w) PROVE TypeOK'
  <2>1. Rec("failed") \in Record /\ msg[w].job \in Jobs
    BY <1>13, BusyHolds DEF RecordFailed, Status
  <2>2. /\ record' \in [Jobs -> Record] /\ delayed' \subseteq Write
        /\ mishap' \in [Jobs -> SUBSET Mishaps]
    BY <1>13, <2>1, WriteType DEF RecordFailed
  <2> QED
    BY <1>13, <2>2 DEF RecordFailed, Goto, TypeOK, apiVars, brokerVars, fileVars, history
<1>14. ASSUME NEW w \in Workers, Retry(w) PROVE TypeOK'
  <2>1. msg[w] \in Msg
    BY <1>14, BusyHolds DEF Retry
  <2>2. queue' \subseteq Msg
    BY <1>14, <2>1, RetriesAssumption DEF Retry, Msg, TypeOK
  <2>3. mishap' \in [Jobs -> SUBSET Mishaps]
    BY <1>14, BlameType DEF Retry, Mishaps, TypeOK
  <2> QED
    BY <1>14, <2>2, <2>3 DEF Retry, Goto, TypeOK, apiVars, redisVars, fileVars, history
<1>15. ASSUME NEW w \in Workers, Acknowledge(w) PROVE TypeOK'
  BY <1>15 DEF Acknowledge, Drop, Goto, TypeOK, apiVars, redisVars, fileVars, history
<1>16. ASSUME NEW w \in Workers, CacheSet(w) PROVE TypeOK'
  BY <1>16, BusyHolds, KeysAssumption
  DEF CacheSet, TypeOK, apiVars, brokerVars, taskVars, fileVars, history
<1>17. ASSUME NEW m \in volume, Cleanup(m) PROVE TypeOK'
  BY <1>17 DEF Cleanup, TypeOK, apiVars, redisVars, brokerVars, taskVars, history
<1>18. ASSUME NEW w \in Workers, HardKill(w) PROVE TypeOK'
  <2>1. mishap' \in [Jobs -> SUBSET Mishaps]
    BY <1>18, BlameType DEF HardKill, Mishaps
  <2> QED
    BY <1>18, <2>1 DEF HardKill, Drop, Goto, TypeOK, apiVars, redisVars, fileVars, history
<1>19. ASSUME NEW w \in Workers, Crash(w) PROVE TypeOK'
  <2>1. mishap' \in [Jobs -> SUBSET Mishaps]
    BY <1>19, BlameType DEF Crash, Mishaps
  <2>2. crashes' \in 0 .. MaxCrashes
    BY <1>19, CrashesAssumption DEF Crash, TypeOK
  <2>3. queue' \subseteq Msg
    <3>1. msg[w] \in Msg
      BY <1>19, BusyHolds DEF Crash
    <3>2. crashes + 1 \in 0 .. MaxCrashes
      BY <1>19, <2>2 DEF Crash
    <3>3. [msg[w] EXCEPT !.gen = crashes + 1] \in Msg
      BY <3>1, <3>2 DEF Msg
    <3> QED
      BY <1>19, <3>3 DEF Crash, TypeOK
  <2> QED
    BY <1>19, <2>1, <2>2, <2>3
    DEF Crash, Drop, Goto, TypeOK, apiVars, redisVars, fileVars, history
<1>20. ASSUME NEW j \in Jobs, EvictRecord(j) PROVE TypeOK'
  <2>1. mishap' \in [Jobs -> SUBSET Mishaps]
    BY <1>20, BlameType DEF EvictRecord, Mishaps
  <2> QED
    BY <1>20, <2>1
    DEF EvictRecord, TypeOK, apiVars, brokerVars, taskVars, fileVars, history
<1>21. ASSUME NEW k \in Keys, EvictEntry(k) PROVE TypeOK'
  BY <1>21 DEF EvictEntry, ExecuteLate, TypeOK, apiVars, brokerVars, taskVars, fileVars, history
<1>22. CASE EvictBroker
  <2>1. mishap' \in [Jobs -> SUBSET Mishaps]
    BY <1>22, BlameType DEF EvictBroker, Mishaps
  <2> QED
    BY <1>22, <2>1 DEF EvictBroker, TypeOK, apiVars, redisVars, taskVars, fileVars, history
<1>23. CASE RedisRestart
  <2>1. mishap' \in [Jobs -> SUBSET Mishaps]
    BY <1>23, BlameType DEF RedisRestart, Mishaps
  <2> QED
    BY <1>23, <2>1 DEF RedisRestart, TypeOK, apiVars, taskVars, fileVars, history
<1>24. ASSUME NEW d \in delayed, ExecuteLate(d) PROVE TypeOK'
  <2>1. d.job \in Jobs /\ d.to \in Record
    BY DEF TypeOK, Write
  <2> QED
    BY <1>24, <2>1
    DEF ExecuteLate, TypeOK, apiVars, brokerVars, taskVars, fileVars, history
<1> QED
  BY <1>0, <1>1, <1>2, <1>3, <1>4, <1>5, <1>6, <1>7, <1>8, <1>9, <1>10, <1>11, <1>12,
     <1>13, <1>14, <1>15, <1>16, <1>17, <1>18, <1>19, <1>20, <1>21, <1>22, <1>23, <1>24
  DEF Next, Handler, Task, Environment

(* The types of the whole pipeline's state; among them, that a worker      *)
(* holds a message exactly while it is not idle.                           *)
THEOREM TypeCorrect == Spec => []TypeOK
  BY TypeInit, TypeNext, PTL DEF Spec

(***************************************************************************)
(* No job is left in limbo. NoLimbo is not inductive: it speaks of settled *)
(* jobs only. What every step preserves is that somebody who has not yet   *)
(* reported carries each pending job, that the broker still knows every    *)
(* message a worker holds, so that a crash returns it to the queue, that   *)
(* nothing is in the system for a job that was not yet published, and that *)
(* a write on its way to Redis is one that timed out.                      *)
(***************************************************************************)
Reporting == {"received", "synth", "upload", "store", "except"}

Carried(j) == \/ \E m \in queue : m.job = j
              \/ \E w \in Workers : pc[w] \in Reporting /\ msg[w].job = j

Owed(j) ==
  api[j] = "accepted" /\ Pending(j) /\ ~Excused(j, {"dropped", "slow", "killed", "wiped"})

InFlight == \A j \in Jobs : Owed(j) => Carried(j)

HeldUnacked ==
  \A w \in Workers : pc[w] # "idle" => w \in unacked \/ "wiped" \in mishap[msg[w].job]

Unpublished(j) == /\ \A m \in queue : m.job # j
                  /\ \A w \in Workers : pc[w] # "idle" => msg[w].job # j

NothingBeforePublish ==
  \A j \in Jobs : api[j] \in {"new", "looked", "recorded", "served"} => Unpublished(j)

DelayedBlamed ==
  \A d \in delayed : "slow" \in mishap[d.job] /\ api[d.job] \notin {"new", "looked"}

LimboInv == TypeOK /\ NothingBeforePublish /\ DelayedBlamed /\ HeldUnacked /\ InFlight

LEMMA MishapsStay ==
  ASSUME TypeOK, [Next]_vars
  PROVE  \A j \in Jobs : mishap[j] \subseteq mishap'[j]
<1>1. ASSUME NEW js, NEW what, Blame(js, what)
      PROVE  \A j \in Jobs : mishap[j] \subseteq mishap'[j]
  BY <1>1 DEF Blame, TypeOK
<1>2. ASSUME NEW j, NEW r, WriteRecord(j, r)
      PROVE  \A i \in Jobs : mishap[i] \subseteq mishap'[i]
  BY <1>1, <1>2 DEF WriteRecord
<1>3. ASSUME NEW j \in Jobs, LookupCache(j) \/ Handler(j)
      PROVE  \A i \in Jobs : mishap[i] \subseteq mishap'[i]
  BY <1>2, <1>3 DEF LookupCache, Handler, ServeHit, RecordQueued, Enqueue
<1>4. ASSUME NEW w \in Workers, Task(w) \/ \E m \in queue : Deliver(w, m)
      PROVE  \A i \in Jobs : mishap[i] \subseteq mishap'[i]
  BY <1>1, <1>2, <1>4
  DEF Task, MarkProcessing, Synthesise, SynthesisRaises, Upload, StoreResult,
      RecordFailed, Retry, Acknowledge, Deliver
<1>5. CASE Environment
  BY <1>1, <1>5
  DEF Environment, ApiCrash, EvictRecord, SoftLimit, HardKill, Crash, CacheSet, Cleanup,
      EvictEntry, ExecuteLate, EvictBroker, RedisRestart
<1> QED
  BY <1>3, <1>4, <1>5 DEF Next, vars

(* A message enters the system only when a handler publishes it, or in the *)
(* place of one of the same job.                                           *)
LEMMA NothingBeforePublishNext ==
  ASSUME TypeOK, NothingBeforePublish, [Next]_vars
  PROVE  NothingBeforePublish'
<1> SUFFICES ASSUME NEW j \in Jobs, api'[j] \in {"new", "looked", "recorded", "served"}
             PROVE  Unpublished(j)'
  BY DEF NothingBeforePublish
<1> DEFINE Same == UNCHANGED <<queue, pc, msg>>
<1>1. ASSUME api[j] \in {"new", "looked", "recorded", "served"} PROVE Unpublished(j)
  BY <1>1 DEF NothingBeforePublish
<1>2. ASSUME Same,
             api'[j] \in {"recorded", "looked", "served"}
               => api[j] \in {"new", "looked", "recorded", "served"},
             api'[j] = "new" => api[j] = "new"
      PROVE  Unpublished(j)'
  BY <1>1, <1>2 DEF Unpublished
<1>3. CASE UNCHANGED vars
  BY <1>2, <1>3 DEF vars, apiVars, brokerVars, taskVars
<1>4. ASSUME NEW i \in Jobs, LookupCache(i) \/ ServeHit(i) \/ RecordQueued(i) \/ ApiCrash(i)
      PROVE  Unpublished(j)'
  BY <1>2, <1>4
  DEF LookupCache, ServeHit, RecordQueued, ApiCrash, brokerVars, taskVars, TypeOK
<1>5. ASSUME NEW i \in Jobs, Enqueue(i) PROVE Unpublished(j)'
  <2>1. i # j /\ api[j] = api'[j]
    BY <1>5 DEF Enqueue, TypeOK
  <2>2. queue' \subseteq queue \cup {First(i)} /\ First(i).job = i
    BY <1>5 DEF Enqueue, First
  <2> QED
    BY <1>1, <1>5, <2>1, <2>2 DEF Unpublished, Enqueue, taskVars
<1>6. ASSUME NEW w \in Workers, Task(w) \/ (\E m \in queue : Deliver(w, m))
                                \/ SoftLimit(w) \/ HardKill(w) \/ Crash(w) \/ CacheSet(w)
      PROVE  Unpublished(j)'
  <2>1. api' = api
    BY <1>6
    DEF Task, MarkProcessing, Synthesise, SynthesisRaises, Upload, StoreResult,
        RecordFailed, Retry, Acknowledge, Deliver, SoftLimit, HardKill, Crash, CacheSet, apiVars
  <2>2. Unpublished(j)
    BY <1>1, <2>1
  <2>3. ASSUME pc[w] # "idle", queue' = queue, msg' = msg, \E l : Goto(w, l)
        PROVE  Unpublished(j)'
    BY <2>2, <2>3 DEF Unpublished, Goto, TypeOK
  <2>4. ASSUME MarkProcessing(w) \/ Synthesise(w) \/ SynthesisRaises(w) \/ Upload(w)
               \/ StoreResult(w) \/ RecordFailed(w) \/ SoftLimit(w)
        PROVE  Unpublished(j)'
    BY <2>3, <2>4
    DEF MarkProcessing, Synthesise, SynthesisRaises, Upload, StoreResult, RecordFailed,
        SoftLimit, brokerVars
  <2>5. ASSUME Retry(w) PROVE Unpublished(j)'
    <3>1. msg[w] \in Msg /\ msg[w].job # j
      BY <2>2, <2>5, BusyHolds DEF Retry, Unpublished
    <3>2. queue' \subseteq queue \cup {[msg[w] EXCEPT !.tries = @ + 1]}
      BY <2>5 DEF Retry
    <3>3. [msg[w] EXCEPT !.tries = @ + 1].job = msg[w].job
      BY <3>1 DEF Msg
    <3>4. \A m \in queue' : m.job # j
      BY <2>2, <3>1, <3>2, <3>3 DEF Unpublished
    <3> QED
      BY <2>2, <2>5, <3>4 DEF Unpublished, Retry, Goto, TypeOK
  <2>6. ASSUME Acknowledge(w) \/ HardKill(w) PROVE Unpublished(j)'
    BY <2>2, <2>6 DEF Acknowledge, HardKill, Drop, Goto, Unpublished, TypeOK
  <2>7. ASSUME Crash(w) PROVE Unpublished(j)'
    <3>1. msg[w] \in Msg /\ msg[w].job # j
      BY <2>2, <2>7, BusyHolds DEF Crash, Unpublished
    <3>2. [msg[w] EXCEPT !.gen = crashes + 1].job = msg[w].job
      BY <3>1 DEF Msg
    <3>3. \A m \in queue' : m.job # j
      BY <2>2, <2>7, <3>1, <3>2 DEF Unpublished, Crash
    <3> QED
      BY <2>2, <2>7, <3>3 DEF Unpublished, Crash, Drop, Goto, TypeOK
  <2>8. ASSUME CacheSet(w) PROVE Unpublished(j)'
    BY <2>2, <2>8 DEF CacheSet, brokerVars, taskVars, Unpublished
  <2>9. ASSUME NEW m \in queue, Deliver(w, m) PROVE Unpublished(j)'
    BY <2>2, <2>9 DEF Deliver, Goto, Unpublished, TypeOK
  <2> QED
    BY <1>6, <2>4, <2>5, <2>6, <2>7, <2>8, <2>9 DEF Task
<1>7. ASSUME \/ \E i \in Jobs : EvictRecord(i)
             \/ \E m \in volume : Cleanup(m)
             \/ \E k \in Keys : EvictEntry(k)
             \/ \E d \in delayed : ExecuteLate(d)
      PROVE  Unpublished(j)'
  BY <1>2, <1>7 DEF EvictRecord, Cleanup, EvictEntry, ExecuteLate, apiVars, brokerVars, taskVars
<1>8. CASE EvictBroker \/ RedisRestart
  <2>1. Unpublished(j)
    BY <1>1, <1>8 DEF EvictBroker, RedisRestart, apiVars
  <2> QED
    BY <1>8, <2>1 DEF EvictBroker, RedisRestart, taskVars, Unpublished
<1> QED
  BY <1>3, <1>4, <1>5, <1>6, <1>7, <1>8 DEF Next, Handler, Environment

(* Only an acknowledgement, a kill, a crash or the loss of the broker's    *)
(* keys makes the broker forget a message that a worker holds.             *)
LEMMA HeldUnackedNext ==
  ASSUME TypeOK, NothingBeforePublish, HeldUnacked, [Next]_vars
  PROVE  HeldUnacked'
<1> SUFFICES ASSUME NEW v \in Workers, pc'[v] # "idle"
             PROVE  v \in unacked' \/ "wiped" \in mishap'[msg'[v].job]
  BY DEF HeldUnacked
<1>1. \A j \in Jobs : mishap[j] \subseteq mishap'[j]
  BY MishapsStay
<1>2. TypeOK'
  BY TypeNext
<1>3. msg'[v] \in Msg /\ msg'[v].job \in Jobs
  BY <1>2 DEF TypeOK, Msg
<1>4. ASSUME pc[v] # "idle", msg'[v] = msg[v], v \in unacked => v \in unacked'
      PROVE  v \in unacked' \/ "wiped" \in mishap'[msg'[v].job]
  BY <1>1, <1>3, <1>4 DEF HeldUnacked
<1>5. CASE UNCHANGED <<pc, msg, unacked>>
  BY <1>4, <1>5
<1>6. ASSUME NEW w \in Workers,
             MarkProcessing(w) \/ Synthesise(w) \/ SynthesisRaises(w) \/ Upload(w)
             \/ StoreResult(w) \/ RecordFailed(w) \/ SoftLimit(w) \/ Retry(w)
      PROVE  v \in unacked' \/ "wiped" \in mishap'[msg'[v].job]
  <2>1. pc[w] # "idle" /\ UNCHANGED <<msg, unacked>> /\ \E l : Goto(w, l)
    BY <1>6
    DEF MarkProcessing, Synthesise, SynthesisRaises, Upload, StoreResult, RecordFailed,
        SoftLimit, Retry, brokerVars
  <2>2. pc[v] # "idle"
    BY <2>1 DEF Goto, TypeOK
  <2> QED
    BY <1>4, <2>1, <2>2
<1>7. ASSUME NEW w \in Workers, Acknowledge(w) \/ HardKill(w) \/ Crash(w)
      PROVE  v \in unacked' \/ "wiped" \in mishap'[msg'[v].job]
  <2>1. Drop(w)
    BY <1>7 DEF Acknowledge, HardKill, Crash
  <2>2. v # w /\ pc[v] # "idle" /\ msg'[v] = msg[v]
    BY <2>1 DEF Drop, Goto, TypeOK
  <2> QED
    BY <1>4, <2>1, <2>2 DEF Drop
<1>8. ASSUME NEW w \in Workers, NEW m \in queue, Deliver(w, m)
      PROVE  v \in unacked' \/ "wiped" \in mishap'[msg'[v].job]
  <2>1. CASE v = w
    BY <1>8, <2>1 DEF Deliver
  <2>2. CASE v # w
    BY <1>4, <1>8, <2>2 DEF Deliver, Goto, TypeOK
  <2> QED
    BY <2>1, <2>2
<1>9. CASE EvictBroker
  <2>1. pc[v] # "idle" /\ msg'[v] = msg[v]
    BY <1>9 DEF EvictBroker, taskVars
  <2>2. CASE UNCHANGED unacked
    BY <1>4, <2>1, <2>2
  <2>3. CASE Blame(Held, "wiped")
    BY <1>3, <2>1, <2>3 DEF Blame, Held
  <2> QED
    BY <1>9, <2>2, <2>3 DEF EvictBroker
<1>10. CASE RedisRestart
  <2>1. pc[v] # "idle" /\ msg'[v] = msg[v]
    BY <1>10 DEF RedisRestart, taskVars
  <2>2. api[msg[v].job] \notin {"new", "looked"}
    BY <1>3, <2>1 DEF NothingBeforePublish, Unpublished
  <2> QED
    BY <1>3, <1>10, <2>1, <2>2 DEF RedisRestart, Blame
<1> QED
  BY <1>5, <1>6, <1>7, <1>8, <1>9, <1>10
  DEF Next, Handler, Task, Environment, vars, brokerVars, taskVars, LookupCache, ServeHit,
      RecordQueued, Enqueue, ApiCrash, EvictRecord, CacheSet, Cleanup, EvictEntry, ExecuteLate

(* A write on its way was sent by a handler that is past its look-up, or   *)
(* by a worker, and its sender saw it time out.                            *)
LEMMA DelayedBlamedNext ==
  ASSUME TypeOK, NothingBeforePublish, DelayedBlamed, [Next]_vars
  PROVE  DelayedBlamed'
<1> SUFFICES ASSUME NEW d \in delayed'
             PROVE  "slow" \in mishap'[d.job] /\ api'[d.job] \notin {"new", "looked"}
  BY DEF DelayedBlamed
<1>1. d.job \in Jobs /\ mishap[d.job] \subseteq mishap'[d.job]
  BY TypeNext, MishapsStay DEF TypeOK, Write
<1>2. \A j \in Jobs : api[j] \notin {"new", "looked"} => api'[j] \notin {"new", "looked"}
  BY DEF Next, Handler, Task, Environment, vars, apiVars, LookupCache, ServeHit, RecordQueued,
         Enqueue, ApiCrash, Deliver, MarkProcessing, Synthesise, SynthesisRaises, Upload,
         StoreResult, SoftLimit, RecordFailed, Retry, Acknowledge, CacheSet, Cleanup, HardKill,
         Crash, EvictRecord, EvictEntry, ExecuteLate, EvictBroker, RedisRestart, TypeOK
<1>3. CASE d \in delayed
  BY <1>1, <1>2, <1>3 DEF DelayedBlamed
<1>4. ASSUME d \notin delayed, NEW j \in Jobs, NEW r \in Record, WriteRecord(j, r)
      PROVE  d.job = j /\ "slow" \in mishap'[j]
  BY <1>4, WriteType
<1>5. ASSUME d \notin delayed, NEW j \in Jobs, ServeHit(j) \/ RecordQueued(j)
      PROVE  "slow" \in mishap'[d.job] /\ api'[d.job] \notin {"new", "looked"}
  <2>1. Done(found[j]) \in Record /\ Rec("queued") \in Record
    BY RecordTypes DEF TypeOK, Status
  <2> QED
    BY <1>4, <1>5, <2>1 DEF ServeHit, RecordQueued, TypeOK
<1>6. ASSUME d \notin delayed, NEW w \in Workers,
             MarkProcessing(w) \/ StoreResult(w) \/ RecordFailed(w)
      PROVE  "slow" \in mishap'[d.job] /\ api'[d.job] \notin {"new", "looked"}
  <2>1. pc[w] # "idle" /\ msg[w].job \in Jobs
    BY <1>6, BusyHolds DEF MarkProcessing, StoreResult, RecordFailed
  <2>2. /\ Done(stored[w]) \in Record
        /\ Rec("processing") \in Record /\ Rec("failed") \in Record
    BY RecordTypes DEF TypeOK, Status
  <2>3. d.job = msg[w].job /\ "slow" \in mishap'[d.job]
    BY <1>4, <1>6, <2>1, <2>2 DEF MarkProcessing, StoreResult, RecordFailed
  <2>4. api[msg[w].job] \notin {"new", "looked"}
    BY <2>1 DEF NothingBeforePublish, Unpublished
  <2> QED
    BY <1>2, <2>1, <2>3, <2>4
<1>7. \/ delayed' \subseteq delayed
      \/ \E j \in Jobs : ServeHit(j) \/ RecordQueued(j)
      \/ \E w \in Workers : MarkProcessing(w) \/ StoreResult(w) \/ RecordFailed(w)
  BY DEF Next, Handler, Task, Environment, vars, redisVars, LookupCache, Enqueue, ApiCrash,
         Deliver, Synthesise, SynthesisRaises, Upload, SoftLimit, Retry, Acknowledge, CacheSet,
         Cleanup, HardKill, Crash, EvictRecord, EvictEntry, ExecuteLate, EvictBroker, RedisRestart
<1> QED
  BY <1>3, <1>5, <1>6, <1>7

(* Whoever carries a pending job reports before it lets go of it.          *)
LEMMA InFlightNext ==
  ASSUME LimboInv, [Next]_vars
  PROVE  InFlight'
<1> SUFFICES ASSUME NEW j \in Jobs, Owed(j)' PROVE Carried(j)'
  BY DEF InFlight
<1> USE DEF LimboInv
<1>1. mishap[j] \subseteq mishap'[j]
  BY MishapsStay
<1>2. TypeOK'
  BY TypeNext
<1>3. ~Excused(j, {"dropped", "slow", "killed", "wiped"})
  BY <1>1 DEF Owed, Excused
<1>4. ASSUME api[j] = "accepted", Pending(j) PROVE Carried(j)
  BY <1>3, <1>4 DEF InFlight, Owed
<1>5. ASSUME Carried(j), UNCHANGED <<queue, pc, msg>> PROVE Carried(j)'
  BY <1>5 DEF Carried
<1>6. ASSUME UNCHANGED <<queue, pc, msg>>, api'[j] = "accepted" => api[j] = "accepted",
             Pending(j)' => Pending(j)
      PROVE  Carried(j)'
  BY <1>4, <1>5, <1>6 DEF Owed
<1>7. CASE UNCHANGED vars
  BY <1>6, <1>7 DEF vars, apiVars, redisVars, brokerVars, taskVars, Pending
<1>8. ASSUME NEW i \in Jobs, LookupCache(i) \/ ApiCrash(i) PROVE Carried(j)'
  BY <1>6, <1>8
  DEF LookupCache, ApiCrash, TypeOK, redisVars, brokerVars, taskVars, Pending
<1>9. ASSUME NEW i \in Jobs, ServeHit(i) \/ RecordQueued(i) PROVE Carried(j)'
  <2>1. i # j /\ api[j] = api'[j] /\ UNCHANGED <<queue, pc, msg>>
    BY <1>9 DEF ServeHit, RecordQueued, TypeOK, Owed, brokerVars, taskVars
  <2>2. record'[j] = record[j]
    BY <1>9, <2>1 DEF ServeHit, RecordQueued, WriteRecord, TypeOK
  <2> QED
    BY <1>6, <2>1, <2>2 DEF Pending
<1>10. ASSUME NEW i \in Jobs, Enqueue(i) PROVE Carried(j)'
  <2>1. CASE i = j
    <3>1. First(j) \in queue' /\ First(j).job = j
      BY <1>10, <2>1 DEF Enqueue, Owed, First, TypeOK
    <3> QED
      BY <3>1 DEF Carried
  <2>2. CASE i # j
    <3>1. Carried(j)
      BY <1>4, <1>10, <2>2 DEF Enqueue, Owed, Pending, TypeOK, redisVars
    <3> QED
      BY <1>10, <3>1 DEF Carried, Enqueue, taskVars
  <2> QED
    BY <2>1, <2>2
<1>11. ASSUME NEW w \in Workers, NEW m \in queue, Deliver(w, m) PROVE Carried(j)'
  <2>1. Carried(j)
    BY <1>4, <1>11 DEF Deliver, Owed, Pending, apiVars, redisVars
  <2> QED
    BY <1>11, <2>1 DEF Carried, Reporting, Deliver, Goto, TypeOK
<1>12. ASSUME NEW w \in Workers,
              Synthesise(w) \/ SynthesisRaises(w) \/ Upload(w)
       PROVE  Carried(j)'
  <2>1. Carried(j)
    BY <1>4, <1>12
    DEF Synthesise, SynthesisRaises, Upload, Owed, Pending, apiVars, redisVars
  <2> QED
    BY <1>12, <2>1
    DEF Carried, Reporting, Synthesise, SynthesisRaises, Upload, Goto, TypeOK, brokerVars
<1>13. ASSUME NEW w \in Workers, MarkProcessing(w) PROVE Carried(j)'
  <2>1. CASE msg[w].job = j
    BY <1>13, <2>1 DEF Carried, Reporting, MarkProcessing, Goto, TypeOK
  <2>2. CASE msg[w].job # j
    <3>1. record'[j] = record[j] /\ api'[j] = api[j]
      BY <1>13, <2>2, BusyHolds DEF MarkProcessing, WriteRecord, TypeOK, apiVars
    <3>2. Carried(j)
      BY <1>4, <3>1 DEF Owed, Pending
    <3> QED
      BY <1>13, <2>2, <3>2 DEF Carried, Reporting, MarkProcessing, Goto, TypeOK, brokerVars
  <2> QED
    BY <2>1, <2>2
<1>14. ASSUME NEW w \in Workers, StoreResult(w) \/ RecordFailed(w) PROVE Carried(j)'
  <2>1. PICK r \in Record : WriteRecord(msg[w].job, r) /\ r.status \in {"completed", "failed"}
    BY <1>14, RecordTypes
    DEF StoreResult, RecordFailed, TypeOK, Done, Rec, Status
  <2>2. pc[w] # "idle" /\ msg[w].job \in Jobs
    BY <1>14, BusyHolds DEF StoreResult, RecordFailed
  <2>3. /\ \/ record'[msg[w].job] = r
           \/ mishap'[msg[w].job] \cap {"dropped", "slow"} # {}
        /\ \A i \in Jobs \ {msg[w].job} : record'[i] = record[i]
    BY <2>1, <2>2, WriteType
  <2>4. msg[w].job # j
    BY <2>1, <2>2, <2>3 DEF Owed, Pending, Excused
  <2>5. Carried(j)
    BY <1>4, <1>14, <2>3, <2>4 DEF StoreResult, RecordFailed, Owed, Pending, apiVars
  <2> QED
    BY <1>14, <2>4, <2>5
    DEF Carried, Reporting, StoreResult, RecordFailed, Goto, TypeOK, brokerVars
<1>15. ASSUME NEW w \in Workers, SoftLimit(w) \/ Retry(w) \/ Acknowledge(w)
       PROVE  Carried(j)'
  <2>1. Carried(j)
    BY <1>4, <1>15 DEF SoftLimit, Retry, Acknowledge, Owed, Pending, apiVars, redisVars
  <2>2. pc[w] \notin Reporting /\ queue \subseteq queue'
    BY <1>15 DEF SoftLimit, Retry, Acknowledge, Reporting, brokerVars
  <2>3. \A v \in Workers \ {w} : pc'[v] = pc[v] /\ msg'[v] = msg[v]
    BY <1>15 DEF SoftLimit, Retry, Acknowledge, Drop, Goto, TypeOK
  <2> QED
    BY <2>1, <2>2, <2>3 DEF Carried
<1>16. ASSUME NEW w \in Workers, HardKill(w) PROVE Carried(j)'
  <2>1. msg[w].job # j
    BY <1>16 DEF HardKill, Blame, Owed, Excused
  <2>2. Carried(j)
    BY <1>4, <1>16 DEF HardKill, Owed, Pending, apiVars, redisVars
  <2> QED
    BY <1>16, <2>1, <2>2 DEF Carried, HardKill, Drop, Goto, TypeOK
<1>17. ASSUME NEW w \in Workers, Crash(w) PROVE Carried(j)'
  <2>1. Carried(j)
    BY <1>4, <1>17 DEF Crash, Owed, Pending, apiVars, redisVars
  <2>2. CASE msg[w].job = j
    <3>1. w \in unacked
      BY <1>3, <1>17, <2>2 DEF Crash, HeldUnacked, Excused
    <3>2. msg[w] \in Msg
      BY <1>17, BusyHolds DEF Crash
    <3>3. [msg[w] EXCEPT !.gen = crashes + 1].job = j
      BY <2>2, <3>2 DEF Msg
    <3> QED
      BY <1>17, <3>1, <3>3 DEF Carried, Crash
  <2>3. CASE msg[w].job # j
    BY <1>17, <2>1, <2>3 DEF Carried, Crash, Drop, Goto, TypeOK
  <2> QED
    BY <2>2, <2>3
<1>18. ASSUME \/ \E w \in Workers : CacheSet(w)
              \/ \E m \in volume : Cleanup(m)
              \/ \E k \in Keys : EvictEntry(k)
       PROVE  Carried(j)'
  BY <1>6, <1>18
  DEF CacheSet, Cleanup, EvictEntry, apiVars, redisVars, brokerVars, taskVars, Pending
<1>19. ASSUME NEW i \in Jobs, EvictRecord(i) PROVE Carried(j)'
  <2>1. Pending(j)' => Pending(j)
    BY <1>19 DEF EvictRecord, Pending, Absent, Rec, TypeOK
  <2> QED
    BY <1>6, <1>19, <2>1 DEF EvictRecord, apiVars, brokerVars, taskVars
<1>20. CASE EvictBroker
  <2>1. Carried(j)
    BY <1>4, <1>20 DEF EvictBroker, Owed, Pending, apiVars, redisVars
  <2>2. CASE Blame({m.job : m \in queue}, "wiped")
    <3>1. \A m \in queue : m.job # j
      BY <2>2 DEF Blame, Owed, Excused
    <3> QED
      BY <1>20, <2>1, <3>1 DEF Carried, EvictBroker, taskVars
  <2>3. CASE UNCHANGED queue
    BY <1>5, <1>20, <2>1, <2>3 DEF EvictBroker, taskVars
  <2> QED
    BY <1>20, <2>2, <2>3 DEF EvictBroker
<1>21. CASE RedisRestart
  BY <1>21 DEF RedisRestart, Owed, Pending, Absent, Rec
<1>22. ASSUME NEW d \in delayed, ExecuteLate(d) PROVE Carried(j)'
  <2>1. d.job # j
    BY <1>3 DEF DelayedBlamed, Excused
  <2>2. Pending(j)' => Pending(j)
    BY <1>22, <2>1 DEF ExecuteLate, Pending, TypeOK
  <2> QED
    BY <1>6, <1>22, <2>2 DEF ExecuteLate, apiVars, brokerVars, taskVars
<1> QED
  BY <1>7, <1>8, <1>9, <1>10, <1>11, <1>12, <1>13, <1>14, <1>15, <1>16, <1>17, <1>18,
     <1>19, <1>20, <1>21, <1>22
  DEF Next, Handler, Task, Environment

LEMMA LimboInvInit == Init => LimboInv
  BY TypeInit
  DEF Init, LimboInv, NothingBeforePublish, Unpublished, DelayedBlamed, HeldUnacked, InFlight,
      Owed

LEMMA LimboInvNext == LimboInv /\ [Next]_vars => LimboInv'
  BY TypeNext, NothingBeforePublishNext, DelayedBlamedNext, HeldUnackedNext, InFlightNext
  DEF LimboInv

(* An accepted job whose record still tells the client to wait is always   *)
(* in somebody's hands, unless Redis or a kill lost what was reported.     *)
THEOREM NobodyInLimbo == Spec => []NoLimbo
<1>1. LimboInv => NoLimbo
  BY DEF LimboInv, InFlight, Owed, Carried, Reporting, NoLimbo, Settled, Executing
<1> QED
  BY <1>1, LimboInvInit, LimboInvNext, PTL DEF Spec

(***************************************************************************)
(* No job is executed twice at a time. ExclusiveExecution compares workers *)
(* only; the inductive form also counts the messages of the queue, each of *)
(* which becomes an execution when it is delivered.                        *)
(***************************************************************************)
AtMostOne(j) ==
  /\ \A m, n \in queue : m.job = j /\ n.job = j => m = n
  /\ \A m \in queue, w \in Workers : m.job = j => ~Executing(w, j)
  /\ \A v, w \in Workers : Executing(v, j) /\ Executing(w, j) => v = w

OneCarrier == \A j \in Jobs : "crashed" \notin mishap[j] => AtMostOne(j)

LEMMA OneCarrierNext ==
  ASSUME TypeOK, NothingBeforePublish, OneCarrier, [Next]_vars
  PROVE  OneCarrier'
<1> SUFFICES ASSUME NEW j \in Jobs, "crashed" \notin mishap'[j] PROVE AtMostOne(j)'
  BY DEF OneCarrier
<1>1. AtMostOne(j)
  BY MishapsStay DEF OneCarrier
<1>2. ASSUME \A m \in queue' : m.job = j => m \in queue,
             \A w \in Workers : Executing(w, j)' => Executing(w, j)
      PROVE  AtMostOne(j)'
  BY <1>1, <1>2 DEF AtMostOne
<1>3. CASE UNCHANGED <<queue, pc, msg>>
  BY <1>2, <1>3 DEF Executing
<1>4. ASSUME NEW i \in Jobs, Enqueue(i) PROVE AtMostOne(j)'
  <2>1. First(i).job = i /\ queue' \subseteq queue \cup {First(i)}
    BY <1>4 DEF First, Enqueue
  <2>2. \A w \in Workers : Executing(w, j)' <=> Executing(w, j)
    BY <1>4 DEF Enqueue, Executing, taskVars
  <2>3. CASE i = j
    <3>1. Unpublished(j)
      BY <1>4, <2>3 DEF Enqueue, NothingBeforePublish
    <3>2. queue' \cap {m \in queue' : m.job = j} \subseteq {First(j)}
      BY <2>1, <2>3, <3>1 DEF Unpublished
    <3>3. \A w \in Workers : ~Executing(w, j)'
      BY <2>2, <3>1 DEF Unpublished, Executing
    <3> QED
      BY <3>2, <3>3 DEF AtMostOne
  <2>4. CASE i # j
    BY <1>2, <2>1, <2>2, <2>4
  <2> QED
    BY <2>3, <2>4
<1>5. ASSUME NEW w \in Workers, NEW m \in queue, Deliver(w, m) PROVE AtMostOne(j)'
  <2>1. \A v \in Workers \ {w} : Executing(v, j)' <=> Executing(v, j)
    BY <1>5 DEF Deliver, Goto, Executing, TypeOK
  <2>2. queue' = queue \ {m} /\ Executing(w, j)' <=> m.job = j
    BY <1>5 DEF Deliver, Goto, Executing, TypeOK
  <2> QED
    BY <1>1, <2>1, <2>2, <1>5 DEF AtMostOne, Deliver
<1>6. ASSUME NEW w \in Workers,
             MarkProcessing(w) \/ Synthesise(w) \/ SynthesisRaises(w) \/ Upload(w)
             \/ StoreResult(w) \/ RecordFailed(w) \/ SoftLimit(w)
      PROVE  AtMostOne(j)'
  <2>1. UNCHANGED <<queue, msg>>
    BY <1>6
    DEF MarkProcessing, Synthesise, SynthesisRaises, Upload, StoreResult, RecordFailed,
        SoftLimit, brokerVars
  <2>2. pc[w] \notin {"idle", "ack"} /\ \A v \in Workers \ {w} : pc'[v] = pc[v]
    BY <1>6
    DEF MarkProcessing, Synthesise, SynthesisRaises, Upload, StoreResult, RecordFailed,
        SoftLimit, Goto, TypeOK
  <2> QED
    BY <1>2, <2>1, <2>2 DEF Executing
<1>7. ASSUME NEW w \in Workers, Retry(w) PROVE AtMostOne(j)'
  <2>1. msg[w] \in Msg /\ pc[w] = "retry"
    BY <1>7, BusyHolds DEF Retry
  <2>2. [msg[w] EXCEPT !.tries = @ + 1].job = msg[w].job
    BY <2>1 DEF Msg
  <2>3. queue' \subseteq queue \cup {[msg[w] EXCEPT !.tries = @ + 1]}
    BY <1>7 DEF Retry
  <2>4. /\ ~Executing(w, j)'
        /\ \A v \in Workers \ {w} : Executing(v, j)' <=> Executing(v, j)
    BY <1>7 DEF Retry, Goto, Executing, TypeOK
  <2>5. CASE msg[w].job = j
    <3>1. Executing(w, j)
      BY <2>1, <2>5 DEF Executing
    <3> QED
      BY <1>1, <2>3, <2>4, <3>1 DEF AtMostOne
  <2>6. CASE msg[w].job # j
    BY <1>2, <2>2, <2>3, <2>4, <2>6
  <2> QED
    BY <2>5, <2>6
<1>8. ASSUME NEW w \in Workers, Acknowledge(w) \/ HardKill(w) PROVE AtMostOne(j)'
  BY <1>2, <1>8 DEF Acknowledge, HardKill, Drop, Goto, Executing, TypeOK
<1>9. ASSUME NEW w \in Workers, Crash(w) PROVE AtMostOne(j)'
  <2>1. msg[w] \in Msg /\ msg[w].job # j
    BY <1>9, BusyHolds DEF Crash, Blame
  <2>2. [msg[w] EXCEPT !.gen = crashes + 1].job # j
    BY <2>1 DEF Msg
  <2>3. \A v \in Workers : Executing(v, j)' => Executing(v, j)
    BY <1>9 DEF Crash, Drop, Goto, Executing, TypeOK
  <2> QED
    BY <1>2, <1>9, <2>2, <2>3 DEF Crash
<1>10. CASE EvictBroker \/ RedisRestart
  BY <1>2, <1>10 DEF EvictBroker, RedisRestart, taskVars, Executing
<1> QED
  BY <1>3, <1>4, <1>5, <1>6, <1>7, <1>8, <1>9, <1>10
  DEF Next, Handler, Task, Environment, vars, brokerVars, taskVars, LookupCache, ServeHit,
      RecordQueued, ApiCrash, EvictRecord, CacheSet, Cleanup, EvictEntry, ExecuteLate

(* A retry is published while its predecessor is still unacknowledged, but *)
(* only when that one no longer executes; without a crash, no two workers  *)
(* ever run the same job.                                                  *)
THEOREM OneExecution == Spec => []ExclusiveExecution
<1> DEFINE Inv == TypeOK /\ NothingBeforePublish /\ OneCarrier
<1>1. Init => Inv
  BY TypeInit DEF Init, NothingBeforePublish, Unpublished, OneCarrier, AtMostOne, Executing
<1>2. Inv /\ [Next]_vars => Inv'
  BY TypeNext, NothingBeforePublishNext, OneCarrierNext
<1>3. Inv => ExclusiveExecution
  BY DEF OneCarrier, AtMostOne, ExclusiveExecution, Excused
<1> QED
  BY <1>1, <1>2, <1>3, PTL DEF Spec

(***************************************************************************)
(* Completed means that there is audio. A path is good for a cache key if  *)
(* it names a finished WAV of that key that is still where the path says;  *)
(* every path on its way into a record is good: the worker's, the cache    *)
(* entry's, the handler's, and that of a write that is still on its way.   *)
(***************************************************************************)
Kept(m) == m \in volume \/ "cleanup_expired" \in Callers

Good(p, k) ==
  /\ p.wav \in made
  /\ KeyOf[p.wav.job] = k
  /\ p.at = "bucket" => bucket[p.wav.job] # NoMsg
  /\ p.at = "volume" => Kept(p.wav)

GoodRecord(j, r) ==
  r.status = "completed" => Good(r.path, KeyOf[j]) /\ (r.path.at = "bucket" => r.path.wav.job = j)

GoodPaths ==
  /\ \A w \in Workers : pc[w] = "upload" => msg[w] \in made /\ Kept(msg[w])
  /\ \A w \in Workers : pc[w] \in {"store", "return"} =>
       stored[w].wav = msg[w] /\ Good(stored[w], KeyOf[msg[w].job])
  /\ \A k \in Keys : cache[k] # NoPath => Good(cache[k], k)
  /\ \A j \in Jobs : found[j] # NoPath => Good(found[j], KeyOf[j]) /\ found[j].at = "volume"
  /\ \A j \in Jobs : GoodRecord(j, record[j])
  /\ \A d \in delayed : GoodRecord(d.job, d.to)

(* Files and objects only come, but for the clean-up. *)
LEMMA GoodStays ==
  ASSUME TypeOK, [Next]_vars
  PROVE  /\ made \subseteq made'
         /\ \A m \in Msg : Kept(m) => Kept(m)'
         /\ \A j \in Jobs : bucket[j] # NoMsg => bucket'[j] # NoMsg
<1>1. made \subseteq made'
  BY DEF Next, Handler, Task, Environment, vars, history, LookupCache, ServeHit, RecordQueued,
         Enqueue, ApiCrash, Deliver, MarkProcessing, Synthesise, SynthesisRaises, Upload,
         StoreResult, SoftLimit, RecordFailed, Retry, Acknowledge, CacheSet, Cleanup, HardKill,
         Crash, EvictRecord, EvictEntry, ExecuteLate, EvictBroker, RedisRestart
<1>2. volume \subseteq volume' \/ "cleanup_expired" \in Callers
  BY DEF Next, Handler, Task, Environment, vars, fileVars, LookupCache, ServeHit, RecordQueued,
         Enqueue, ApiCrash, Deliver, MarkProcessing, Synthesise, SynthesisRaises, Upload,
         StoreResult, SoftLimit, RecordFailed, Retry, Acknowledge, CacheSet, Cleanup, HardKill,
         Crash, EvictRecord, EvictEntry, ExecuteLate, EvictBroker, RedisRestart
<1>3. ASSUME NEW w \in Workers, Upload(w)
      PROVE  \A j \in Jobs : bucket[j] # NoMsg => bucket'[j] # NoMsg
  BY <1>3, BusyHolds, NoMsgAssumption DEF Upload, TypeOK
<1>4. (\E w \in Workers : Upload(w)) \/ UNCHANGED bucket
  BY DEF Next, Handler, Task, Environment, vars, fileVars, LookupCache, ServeHit, RecordQueued,
         Enqueue, ApiCrash, Deliver, MarkProcessing, Synthesise, SynthesisRaises,
         StoreResult, SoftLimit, RecordFailed, Retry, Acknowledge, CacheSet, Cleanup, HardKill,
         Crash, EvictRecord, EvictEntry, ExecuteLate, EvictBroker, RedisRestart
<1> QED
  BY <1>1, <1>2, <1>3, <1>4 DEF Kept

(* Another worker's step leaves a worker's task alone; its own steps are   *)
(* the task's, the soft time limit, a delivery or the end of the task.     *)
LEMMA TaskFrame ==
  ASSUME TypeOK, [Next]_vars, NEW w \in Workers
  PROVE  \/ pc'[w] = pc[w] /\ msg'[w] = msg[w] /\ stored'[w] = stored[w]
         \/ Task(w) \/ SoftLimit(w)
         \/ pc'[w] \in {"idle", "received"}
<1>1. ASSUME NEW v \in Workers, v # w,
             Task(v) \/ (\E m \in queue : Deliver(v, m)) \/ SoftLimit(v) \/ HardKill(v)
             \/ Crash(v)
      PROVE  pc'[w] = pc[w] /\ msg'[w] = msg[w] /\ stored'[w] = stored[w]
  <2>1. (\E l : Goto(v, l)) => pc'[w] = pc[w]
    BY <1>1 DEF Goto, TypeOK
  <2>2. Drop(v) => pc'[w] = pc[w] /\ msg'[w] = msg[w] /\ stored'[w] = stored[w]
    BY <1>1, <2>1 DEF Drop, TypeOK
  <2>3. ASSUME NEW m \in queue, Deliver(v, m)
        PROVE  pc'[w] = pc[w] /\ msg'[w] = msg[w] /\ stored'[w] = stored[w]
    BY <1>1, <2>1, <2>3 DEF Deliver, TypeOK
  <2>4. ASSUME Task(v) \/ SoftLimit(v)
        PROVE  pc'[w] = pc[w] /\ msg'[w] = msg[w] /\ stored'[w] = stored[w]
    BY <1>1, <2>1, <2>2, <2>4
    DEF Task, MarkProcessing, Synthesise, SynthesisRaises, Upload, StoreResult, SoftLimit,
        RecordFailed, Retry, Acknowledge, TypeOK
  <2> QED
    BY <1>1, <2>2, <2>3, <2>4 DEF HardKill, Crash
<1>2. ASSUME (\E m \in queue : Deliver(w, m)) \/ HardKill(w) \/ Crash(w)
      PROVE  pc'[w] \in {"idle", "received"}
  BY <1>2 DEF Deliver, HardKill, Crash, Drop, Goto, TypeOK
<1>3. CASE UNCHANGED taskVars
  BY <1>3 DEF taskVars
<1> QED
  BY <1>1, <1>2, <1>3
  DEF Next, Handler, Environment, vars, LookupCache, ServeHit, RecordQueued, Enqueue, ApiCrash,
      CacheSet, Cleanup, EvictRecord, EvictEntry, ExecuteLate, EvictBroker, RedisRestart

(* A good path stays good, and each place a path is kept in is written by  *)
(* the one action that has just been handed a good one.                    *)
LEMMA GoodPathsNext ==
  ASSUME TypeOK, GoodPaths, [Next]_vars
  PROVE  GoodPaths'
<1> USE NoMsgAssumption, RecordTypes
<1>0. /\ TypeOK'
      /\ \A m \in made : m \in Msg /\ m \in made' /\ m.job \in Jobs
      /\ \A m \in Msg : Kept(m) => Kept(m)'
      /\ \A j \in Jobs : bucket[j] # NoMsg => bucket'[j] # NoMsg
  BY TypeNext, GoodStays DEF TypeOK, Msg
<1>1. \A p \in Path : \A k \in Keys : Good(p, k) => Good(p, k)'
  BY <1>0 DEF Good
<1>2. ASSUME NEW w \in Workers, pc'[w] = "upload"
      PROVE  msg'[w] \in made' /\ Kept(msg[w])'
  <2>1. CASE Synthesise(w)
    BY <2>1, BusyHolds DEF Synthesise, Kept
  <2>2. ASSUME pc[w] = "upload", msg'[w] = msg[w]
        PROVE  msg'[w] \in made' /\ Kept(msg[w])'
    <3>1. msg[w] \in made /\ Kept(msg[w])
      BY <2>2 DEF GoodPaths
    <3>2. Kept(msg[w])'  <=> msg'[w] \in volume' \/ "cleanup_expired" \in Callers
      BY DEF Kept
    <3>3. msg[w] \in volume' \/ "cleanup_expired" \in Callers
      BY <3>1, <1>0 DEF Kept
    <3> QED
      BY <2>2, <3>1, <3>2, <3>3, <1>0
  <2>3. Synthesise(w) \/ (pc[w] = "upload" /\ msg'[w] = msg[w])
    BY <1>2, TaskFrame
    DEF Task, MarkProcessing, SynthesisRaises, Upload, StoreResult, SoftLimit,
        RecordFailed, Retry, Acknowledge, Drop, Goto, TypeOK
  <2> QED
    BY <2>1, <2>2, <2>3
<1>3. ASSUME NEW w \in Workers, pc'[w] \in {"store", "return"}
      PROVE  stored'[w].wav = msg'[w] /\ Good(stored[w], KeyOf[msg[w].job])'
  <2>1. CASE Upload(w)
    <3>1. msg[w] \in Msg /\ msg[w].job \in Jobs /\ msg'[w] = msg[w]
      BY <2>1, BusyHolds DEF Upload
    <3>2. msg[w] \in made /\ Kept(msg[w])
      BY <2>1 DEF Upload, GoodPaths
    <3>3. \/ stored'[w] = InBucket(msg[w]) /\ bucket'[msg[w].job] # NoMsg
          \/ stored'[w] = OnVolume(msg[w])
      BY <2>1, <3>1 DEF Upload, TypeOK
    <3>4. msg[w] \in volume' \/ "cleanup_expired" \in Callers
      BY <3>1, <3>2, <1>0 DEF Kept
    <3> QED
      BY <3>1, <3>2, <3>3, <3>4, <1>0 DEF InBucket, OnVolume, Good, Kept
  <2>2. ASSUME pc[w] \in {"store", "return"}, msg'[w] = msg[w], stored'[w] = stored[w]
        PROVE  stored'[w].wav = msg'[w] /\ Good(stored[w], KeyOf[msg[w].job])'
    <3>1. stored[w].wav = msg[w] /\ Good(stored[w], KeyOf[msg[w].job])
      BY <2>2 DEF GoodPaths
    <3> QED
      BY <2>2, <3>1, <1>0 DEF Good, Kept
  <2>3. Upload(w) \/ (/\ pc[w] \in {"store", "return"}
                      /\ msg'[w] = msg[w] /\ stored'[w] = stored[w])
    BY <1>3, TaskFrame
    DEF Task, MarkProcessing, Synthesise, SynthesisRaises, StoreResult, SoftLimit,
        RecordFailed, Retry, Acknowledge, Drop, Goto, TypeOK
  <2> QED
    BY <2>1, <2>2, <2>3
<1>4. ASSUME NEW k \in Keys, cache'[k] # NoPath PROVE Good(cache[k], k)'
  <2>1. ASSUME cache'[k] = cache[k] PROVE Good(cache[k], k)'
    BY <1>0, <1>4, <2>1 DEF GoodPaths, Good, Kept
  <2>2. ASSUME NEW w \in Workers, CacheSet(w) PROVE Good(cache[k], k)'
    <3>1. CASE k = KeyOf[msg[w].job]
      <4>1. Good(stored[w], k)
        BY <2>2, <3>1 DEF CacheSet, GoodPaths
      <4>2. cache'[k] = stored[w]
        BY <2>2, <3>1 DEF CacheSet, TypeOK
      <4> QED
        BY <4>1, <4>2, <1>0 DEF Good, Kept
    <3>2. CASE k # KeyOf[msg[w].job]
      BY <2>1, <2>2, <3>2 DEF CacheSet, TypeOK
    <3> QED
      BY <3>1, <3>2
  <2>3. (\E w \in Workers : CacheSet(w)) \/ cache'[k] = cache[k]
    BY <1>4
    DEF Next, Handler, Task, Environment, vars, redisVars, LookupCache, ServeHit, RecordQueued,
        Enqueue, ApiCrash, Deliver, MarkProcessing, Synthesise, SynthesisRaises, Upload,
        StoreResult, SoftLimit, RecordFailed, Retry, Acknowledge, Cleanup, HardKill,
        Crash, EvictRecord, EvictEntry, ExecuteLate, EvictBroker, RedisRestart, TypeOK
  <2> QED
    BY <2>1, <2>2, <2>3
<1>5. ASSUME NEW j \in Jobs, found'[j] # NoPath
      PROVE  Good(found[j], KeyOf[j])' /\ found'[j].at = "volume"
  <2>1. CASE found'[j] = found[j]
    BY <1>0, <1>5, <2>1 DEF GoodPaths, Good, Kept
  <2>2. CASE LookupCache(j) /\ found'[j] = cache[KeyOf[j]] /\ OnDisk(cache[KeyOf[j]])
    <3>1. cache[KeyOf[j]] # NoPath /\ KeyOf[j] \in Keys
      BY <2>2, KeysAssumption DEF OnDisk, NoPath
    <3> QED
      BY <1>0, <2>2, <3>1 DEF GoodPaths, Good, Kept, OnDisk
  <2>3. (\E i \in Jobs : LookupCache(i)) \/ UNCHANGED found
    BY DEF Next, Handler, Task, Environment, vars, apiVars, ServeHit, RecordQueued,
        Enqueue, ApiCrash, Deliver, MarkProcessing, Synthesise, SynthesisRaises, Upload,
        StoreResult, SoftLimit, RecordFailed, Retry, Acknowledge, CacheSet, Cleanup, HardKill,
        Crash, EvictRecord, EvictEntry, ExecuteLate, EvictBroker, RedisRestart
  <2>4. ASSUME NEW i \in Jobs, LookupCache(i)
        PROVE  \/ found'[j] = found[j]
               \/ LookupCache(j) /\ found'[j] = cache[KeyOf[j]] /\ OnDisk(cache[KeyOf[j]])
    BY <2>4 DEF LookupCache, TypeOK
  <2> QED
    BY <2>1, <2>2, <2>3, <2>4
<1>6. \A j \in Jobs : \A r \in Record : GoodRecord(j, r) => GoodRecord(j, r)'
  BY <1>1, KeysAssumption DEF GoodRecord, Record
<1>7. ASSUME NEW j \in Jobs, NEW r \in Record, WriteRecord(j, r), GoodRecord(j, r)
      PROVE  /\ \A i \in Jobs : GoodRecord(i, record[i])'
             /\ \A d \in delayed' : GoodRecord(d.job, d.to)'
  <2>1. /\ \A i \in Jobs : record'[i] \in {record[i], r} /\ (i # j => record'[i] = record[i])
        /\ delayed' \subseteq delayed \cup {[job |-> j, to |-> r]}
    BY <1>7, WriteType
  <2>2. \A i \in Jobs : GoodRecord(i, record'[i])
    BY <1>7, <2>1 DEF GoodPaths
  <2>3. \A d \in delayed' : GoodRecord(d.job, d.to)
    BY <1>7, <2>1 DEF GoodPaths
  <2>4. /\ \A i \in Jobs : record'[i] \in Record
        /\ \A d \in delayed' : d.job \in Jobs /\ d.to \in Record
    BY <1>0 DEF TypeOK, Write
  <2>5. ASSUME NEW i \in Jobs PROVE GoodRecord(i, record[i])'
    BY <1>0, <2>2, <2>4, KeysAssumption DEF GoodRecord, Record, Good, Kept
  <2>6. ASSUME NEW d \in delayed' PROVE GoodRecord(d.job, d.to)'
    BY <1>6, <2>3, <2>4
  <2> QED
    BY <2>5, <2>6
<1>8. ASSUME \A j \in Jobs : \/ record'[j] = record[j]
                            \/ record'[j] = Absent
                            \/ \E d \in delayed : d.job = j /\ record'[j] = d.to,
             delayed' \subseteq delayed
      PROVE  /\ \A i \in Jobs : GoodRecord(i, record[i])'
             /\ \A d \in delayed' : GoodRecord(d.job, d.to)'
  <2>1. ASSUME NEW i \in Jobs PROVE GoodRecord(i, record[i])'
    <3>1. GoodRecord(i, Absent)
      BY DEF GoodRecord, Absent, Rec
    <3>2. GoodRecord(i, record'[i])
      BY <1>8, <3>1 DEF GoodPaths
    <3> QED
      BY <1>0, <3>2, KeysAssumption DEF GoodRecord, Good, Kept, TypeOK, Record
  <2>2. \A d \in delayed' : d.job \in Jobs /\ d.to \in Record /\ GoodRecord(d.job, d.to)
    BY <1>8 DEF GoodPaths, TypeOK, Write
  <2> QED
    BY <1>6, <2>1, <2>2
<1>9. ASSUME NEW j \in Jobs, ServeHit(j) \/ RecordQueued(j)
      PROVE  /\ \A i \in Jobs : GoodRecord(i, record[i])'
             /\ \A d \in delayed' : GoodRecord(d.job, d.to)'
  <2>1. /\ Done(found[j]) \in Record /\ Rec("queued") \in Record
        /\ GoodRecord(j, Rec("queued"))
    BY DEF TypeOK, Status, GoodRecord, Rec
  <2>2. ServeHit(j) => GoodRecord(j, Done(found[j]))
    BY DEF ServeHit, GoodPaths, GoodRecord, Done
  <2> QED
    BY <1>7, <1>9, <2>1, <2>2 DEF ServeHit, RecordQueued
<1>10. ASSUME NEW w \in Workers, MarkProcessing(w) \/ StoreResult(w) \/ RecordFailed(w)
       PROVE  /\ \A i \in Jobs : GoodRecord(i, record[i])'
              /\ \A d \in delayed' : GoodRecord(d.job, d.to)'
  <2>1. msg[w].job \in Jobs
    BY <1>10, BusyHolds DEF MarkProcessing, StoreResult, RecordFailed
  <2>2. /\ Done(stored[w]) \in Record
        /\ Rec("processing") \in Record /\ GoodRecord(msg[w].job, Rec("processing"))
        /\ Rec("failed") \in Record /\ GoodRecord(msg[w].job, Rec("failed"))
    BY DEF TypeOK, Status, GoodRecord, Rec
  <2>3. StoreResult(w) => GoodRecord(msg[w].job, Done(stored[w]))
    BY DEF StoreResult, GoodPaths, GoodRecord, Done
  <2> QED
    BY <1>7, <1>10, <2>1, <2>2, <2>3 DEF MarkProcessing, StoreResult, RecordFailed
<1>11. ASSUME NEW d \in delayed, ExecuteLate(d)
       PROVE  /\ \A i \in Jobs : GoodRecord(i, record[i])'
              /\ \A e \in delayed' : GoodRecord(e.job, e.to)'
  <2>1. /\ \A j \in Jobs : record'[j] = record[j] \/ (d.job = j /\ record'[j] = d.to)
        /\ delayed' \subseteq delayed
    BY <1>11 DEF ExecuteLate, TypeOK
  <2> QED
    BY <1>8, <1>11, <2>1
<1>12. ASSUME NEW j \in Jobs, EvictRecord(j)
       PROVE  /\ \A i \in Jobs : GoodRecord(i, record[i])'
              /\ \A d \in delayed' : GoodRecord(d.job, d.to)'
  BY <1>8, <1>12 DEF EvictRecord, TypeOK
<1>13. ASSUME RedisRestart
       PROVE  /\ \A i \in Jobs : GoodRecord(i, record[i])'
              /\ \A d \in delayed' : GoodRecord(d.job, d.to)'
  <2>1. (\A j \in Jobs : record'[j] = Absent) /\ delayed' \subseteq delayed
    BY <1>13 DEF RedisRestart
  <2> QED
    BY <1>8, <2>1
<1>14. ASSUME UNCHANGED <<record, delayed>>
       PROVE  /\ \A i \in Jobs : GoodRecord(i, record[i])'
              /\ \A d \in delayed' : GoodRecord(d.job, d.to)'
  <2>1. (\A j \in Jobs : record'[j] = record[j]) /\ delayed' \subseteq delayed
    BY <1>14
  <2> QED
    BY <1>8, <2>1
<1>15. /\ \A j \in Jobs : GoodRecord(j, record[j])'
       /\ \A d \in delayed' : GoodRecord(d.job, d.to)'
  <2>1. \/ \E j \in Jobs : ServeHit(j) \/ RecordQueued(j) \/ EvictRecord(j)
        \/ \E w \in Workers : MarkProcessing(w) \/ StoreResult(w) \/ RecordFailed(w)
        \/ \E d \in delayed : ExecuteLate(d)
        \/ RedisRestart
        \/ UNCHANGED <<record, delayed>>
    BY DEF Next, Handler, Task, Environment, vars, redisVars, LookupCache, Enqueue, ApiCrash,
           Deliver, Synthesise, SynthesisRaises, Upload, SoftLimit, Retry, Acknowledge, CacheSet,
           Cleanup, HardKill, Crash, EvictEntry, EvictBroker
  <2> QED
    BY <1>9, <1>10, <1>11, <1>12, <1>13, <1>14, <2>1
<1> QED
  BY <1>2, <1>3, <1>4, <1>5, <1>15 DEF GoodPaths

(* A completed record, written by a worker or by a cached hit, always      *)
(* names finished audio of the request's own cache key.                    *)
THEOREM AudioBehindCompleted == Spec => []CompletedHasAudio
<1>1. Init => TypeOK /\ GoodPaths
  BY TypeInit DEF Init, GoodPaths, GoodRecord, Absent, Rec
<1>2. TypeOK /\ GoodPaths /\ [Next]_vars => (TypeOK /\ GoodPaths)'
  BY TypeNext, GoodPathsNext
<1>3. TypeOK /\ GoodPaths => CompletedHasAudio
  BY DEF GoodPaths, GoodRecord, Good, Kept, CompletedHasAudio
<1> QED
  BY <1>1, <1>2, <1>3, PTL DEF Spec

(***************************************************************************)
(* A result is final. When a record says completed, nobody is left who     *)
(* would write it again: the handler has done its part, no message of the  *)
(* job is queued, and its worker is past the last write. Only a crash      *)
(* makes a new message, only the late time limit leads a worker back, and  *)
(* only a write that timed out may come after its sender's next one.       *)
(***************************************************************************)
AllDone(j) ==
  /\ api[j] \notin {"new", "looked", "recorded"}
  /\ \A m \in queue : m.job # j
  /\ \A w \in Workers : pc[w] \notin {"idle", "return", "ack"} => msg[w].job # j

Firm(j) == record[j].status = "completed" /\ ~Excused(j, {"crashed", "late", "slow"})

ResultFinal == \A j \in Jobs : Firm(j) => AllDone(j)

(* Whoever is done stays done. *)
LEMMA DoneStays ==
  ASSUME TypeOK, [Next]_vars, NEW j \in Jobs, AllDone(j), ~Excused(j, {"crashed", "late"})'
  PROVE  AllDone(j)'
<1>1. CASE UNCHANGED <<api, queue, pc, msg>>
  BY <1>1 DEF AllDone
<1>2. ASSUME NEW i \in Jobs, LookupCache(i) \/ Handler(i) \/ ApiCrash(i) PROVE AllDone(j)'
  <2>1. i # j => api'[j] = api[j]
    BY <1>2
    DEF LookupCache, Handler, ServeHit, RecordQueued, Enqueue, ApiCrash, TypeOK
  <2>2. i = j => api'[j] \in {"accepted", "refused", "served"}
    BY <1>2
    DEF LookupCache, Handler, ServeHit, RecordQueued, Enqueue, ApiCrash, TypeOK, AllDone
  <2>3. queue' = queue \/ (i # j /\ queue' = queue \cup {First(i)})
    <3>1. CASE Enqueue(i)
      BY <3>1 DEF Enqueue, AllDone
    <3>2. CASE ~Enqueue(i)
      BY <1>2, <3>2 DEF LookupCache, Handler, ServeHit, RecordQueued, ApiCrash, brokerVars
    <3> QED
      BY <3>1, <3>2
  <2>4. UNCHANGED <<pc, msg>>
    BY <1>2
    DEF LookupCache, Handler, ServeHit, RecordQueued, Enqueue, ApiCrash, taskVars
  <2> QED
    BY <2>1, <2>2, <2>3, <2>4 DEF AllDone, First
<1>3. ASSUME NEW w \in Workers, NEW m \in queue, Deliver(w, m) PROVE AllDone(j)'
  BY <1>3 DEF Deliver, Goto, AllDone, apiVars, TypeOK
<1>4. ASSUME NEW w \in Workers,
             MarkProcessing(w) \/ Synthesise(w) \/ SynthesisRaises(w) \/ Upload(w)
             \/ StoreResult(w) \/ RecordFailed(w)
      PROVE  AllDone(j)'
  <2>1. UNCHANGED <<api, queue, msg>>
    BY <1>4
    DEF MarkProcessing, Synthesise, SynthesisRaises, Upload, StoreResult, RecordFailed,
        brokerVars, apiVars
  <2>2. pc[w] \notin {"idle", "return", "ack"} /\ \A v \in Workers \ {w} : pc'[v] = pc[v]
    BY <1>4
    DEF MarkProcessing, Synthesise, SynthesisRaises, Upload, StoreResult, RecordFailed, Goto,
        TypeOK
  <2> QED
    BY <2>1, <2>2 DEF AllDone
<1>5. ASSUME NEW w \in Workers, SoftLimit(w) PROVE AllDone(j)'
  <2>1. msg[w].job # j
    BY <1>5 DEF SoftLimit, Blame, Excused
  <2> QED
    BY <1>5, <2>1 DEF SoftLimit, Goto, AllDone, apiVars, brokerVars, TypeOK
<1>6. ASSUME NEW w \in Workers, Retry(w) PROVE AllDone(j)'
  <2>1. msg[w] \in Msg /\ msg[w].job # j
    BY <1>6, BusyHolds DEF Retry, AllDone
  <2>2. [msg[w] EXCEPT !.tries = @ + 1].job # j
    BY <2>1 DEF Msg
  <2>3. queue' \subseteq queue \cup {[msg[w] EXCEPT !.tries = @ + 1]}
    BY <1>6 DEF Retry
  <2> QED
    BY <1>6, <2>2, <2>3 DEF Retry, Goto, AllDone, apiVars, TypeOK
<1>7. ASSUME NEW w \in Workers, Acknowledge(w) \/ HardKill(w) PROVE AllDone(j)'
  BY <1>7 DEF Acknowledge, HardKill, Drop, Goto, AllDone, apiVars, TypeOK
<1>8. ASSUME NEW w \in Workers, Crash(w) PROVE AllDone(j)'
  <2>1. msg[w] \in Msg /\ msg[w].job # j
    BY <1>8, BusyHolds DEF Crash, Blame, Excused
  <2>2. [msg[w] EXCEPT !.gen = crashes + 1].job # j
    BY <2>1 DEF Msg
  <2> QED
    BY <1>8, <2>2 DEF Crash, Drop, Goto, AllDone, apiVars, TypeOK
<1>9. CASE EvictBroker \/ RedisRestart
  BY <1>9 DEF EvictBroker, RedisRestart, taskVars, apiVars, AllDone
<1> QED
  BY <1>1, <1>2, <1>3, <1>4, <1>5, <1>6, <1>7, <1>8, <1>9
  DEF Next, Task, Environment, vars, apiVars, brokerVars, taskVars, EvictRecord, CacheSet,
      Cleanup, EvictEntry, ExecuteLate

(* What writes a record, and who does. *)
LEMMA RecordWriters ==
  ASSUME TypeOK, [Next]_vars, NEW j \in Jobs, record'[j] # record[j]
  PROVE  \/ record'[j] = Absent
         \/ ServeHit(j)
         \/ RecordQueued(j)
         \/ \E w \in Workers :
              /\ msg[w].job = j
              /\ MarkProcessing(w) \/ StoreResult(w) \/ RecordFailed(w)
         \/ \E d \in delayed : d.job = j /\ ExecuteLate(d)
<1>1. ASSUME NEW i, NEW r, WriteRecord(i, r) PROVE i = j
  BY <1>1 DEF WriteRecord, TypeOK
<1>2. CASE UNCHANGED record
  BY <1>2
<1>3. ASSUME NEW i \in Jobs, ServeHit(i) \/ RecordQueued(i)
      PROVE  ServeHit(j) \/ RecordQueued(j)
  BY <1>1, <1>3 DEF ServeHit, RecordQueued
<1>4. ASSUME NEW w \in Workers, MarkProcessing(w) \/ StoreResult(w) \/ RecordFailed(w)
      PROVE  msg[w].job = j
  BY <1>1, <1>4 DEF MarkProcessing, StoreResult, RecordFailed
<1>5. ASSUME NEW i \in Jobs, EvictRecord(i) PROVE record'[j] = Absent
  BY <1>5 DEF EvictRecord, TypeOK
<1>6. CASE RedisRestart
  BY <1>6 DEF RedisRestart
<1>7. ASSUME NEW d \in delayed, ExecuteLate(d) PROVE d.job = j
  BY <1>7 DEF ExecuteLate, TypeOK
<1> QED
  BY <1>2, <1>3, <1>4, <1>5, <1>6, <1>7
  DEF Next, Handler, Task, Environment, vars, redisVars, LookupCache, Enqueue, ApiCrash,
      Deliver, Synthesise, SynthesisRaises, Upload, SoftLimit, Retry, Acknowledge, HardKill,
      Crash, CacheSet, Cleanup, EvictEntry, EvictBroker

FinalInv == TypeOK /\ NothingBeforePublish /\ DelayedBlamed /\ OneCarrier /\ ResultFinal

(* A result is final when it is written, and stays so. *)
LEMMA ResultFinalNext ==
  ASSUME FinalInv, [Next]_vars
  PROVE  ResultFinal'
<1> SUFFICES ASSUME NEW j \in Jobs, Firm(j)' PROVE AllDone(j)'
  BY DEF ResultFinal
<1> USE DEF FinalInv
<1>1. ~Excused(j, {"crashed", "late", "slow"}) /\ ~Excused(j, {"crashed", "late"})'
  BY MishapsStay DEF Firm, Excused
<1>2. SUFFICES ASSUME record'[j] # record[j] PROVE AllDone(j)'
  BY <1>1, DoneStays DEF Firm, ResultFinal
<1>3. record'[j] # Absent
  BY DEF Firm, Absent, Rec
<1>4. CASE ServeHit(j)
  <2>1. Unpublished(j)
    BY <1>4 DEF ServeHit, NothingBeforePublish
  <2>2. api'[j] = "served" /\ UNCHANGED <<queue, pc, msg>>
    BY <1>4 DEF ServeHit, TypeOK, brokerVars, taskVars
  <2> QED
    BY <2>1, <2>2 DEF AllDone, Unpublished
<1>5. ASSUME NEW w \in Workers, msg[w].job = j, StoreResult(w) PROVE AllDone(j)'
  <2>1. UNCHANGED <<api, queue, msg>> /\ pc[w] = "store" /\ pc' = [pc EXCEPT ![w] = "return"]
    BY <1>5 DEF StoreResult, Goto, apiVars, brokerVars
  <2>2. Executing(w, j)
    BY <1>5, <2>1 DEF Executing
  <2>3. AtMostOne(j)
    BY <1>1 DEF OneCarrier, Excused
  <2>4. api[j] \notin {"new", "looked", "recorded"}
    BY <1>5, <2>1 DEF NothingBeforePublish, Unpublished
  <2>5. \A v \in Workers : pc'[v] \notin {"idle", "return", "ack"} => msg'[v].job # j
    BY <2>1, <2>2, <2>3 DEF AtMostOne, Executing, TypeOK
  <2> QED
    BY <2>1, <2>2, <2>3, <2>4, <2>5 DEF AllDone, AtMostOne
<1>6. ASSUME NEW i \in Jobs, NEW r, r.status # "completed", WriteRecord(i, r) PROVE FALSE
  BY <1>2, <1>6 DEF WriteRecord, TypeOK, Firm
<1>7. Rec("queued").status # "completed" /\ Rec("processing").status # "completed"
      /\ Rec("failed").status # "completed"
  BY DEF Rec
<1>8. ~RecordQueued(j)
  BY <1>6, <1>7 DEF RecordQueued
<1>9. ASSUME NEW w \in Workers, msg[w].job = j, MarkProcessing(w) \/ RecordFailed(w)
      PROVE  FALSE
  BY <1>6, <1>7, <1>9 DEF MarkProcessing, RecordFailed
<1>10. \A d \in delayed : d.job # j
  BY <1>1 DEF DelayedBlamed, Excused
<1>11. \/ ServeHit(j)
       \/ \E w \in Workers : msg[w].job = j /\ StoreResult(w)
  BY <1>2, <1>3, <1>8, <1>9, <1>10, RecordWriters
<1> QED
  BY <1>4, <1>5, <1>11

LEMMA FinalInvAlways == Spec => []FinalInv
<1>1. Init => FinalInv
  BY TypeInit
  DEF Init, FinalInv, NothingBeforePublish, Unpublished, DelayedBlamed, OneCarrier, AtMostOne,
      Executing, ResultFinal, Firm, Absent, Rec
<1>2. FinalInv /\ [Next]_vars => FinalInv'
  BY TypeNext, NothingBeforePublishNext, DelayedBlamedNext, OneCarrierNext, ResultFinalNext
  DEF FinalInv
<1> QED
  BY <1>1, <1>2, PTL DEF Spec

(* Once a client can read "completed" no retry, no second worker and no    *)
(* handler takes it back.                                                  *)
THEOREM ResultsStay == Spec => OutcomeStable
<1> DEFINE Stays(j) == record[j].status = "completed" /\ record'[j] # record[j]
                         => record'[j] = Absent \/ Excused(j, {"crashed", "late", "slow"})
<1>1. ASSUME FinalInv, [Next]_vars, NEW j \in Jobs PROVE Stays(j)
  <2> SUFFICES ASSUME record[j].status = "completed", record'[j] # record[j],
                      record'[j] # Absent, ~Excused(j, {"crashed", "late", "slow"})
               PROVE  FALSE
    OBVIOUS
  <2>1. AllDone(j)
    BY <1>1 DEF FinalInv, ResultFinal, Firm
  <2>2. ~ServeHit(j) /\ ~RecordQueued(j)
    BY <2>1 DEF AllDone, ServeHit, RecordQueued
  <2>3. ASSUME NEW w \in Workers, msg[w].job = j,
               MarkProcessing(w) \/ StoreResult(w) \/ RecordFailed(w)
        PROVE  FALSE
    BY <2>1, <2>3 DEF AllDone, MarkProcessing, StoreResult, RecordFailed
  <2>4. TypeOK /\ [Next]_vars /\ \A d \in delayed : d.job # j
    BY <1>1 DEF FinalInv, DelayedBlamed, Excused
  <2> QED
    BY <2>2, <2>3, <2>4, RecordWriters
<1>2. FinalInv /\ [Next]_vars => [\A j \in Jobs : Stays(j)]_vars
  BY <1>1
<1> QED
  BY <1>2, FinalInvAlways, PTL DEF Spec, OutcomeStable

(***************************************************************************)
(* The record is current. Besides the carriers of a job, what the steps    *)
(* preserve speaks of its handler between the write and the publication.   *)
(***************************************************************************)
Stale == {"dropped", "slow", "crashed", "late", "evicted", "wiped"}

Current(j) ==
  /\ \A m \in queue : m.job = j => record[j].status = Reported("queue", m.tries)
  /\ \A w \in Workers : Executing(w, j) => record[j].status = Reported(pc[w], msg[w].tries)
  /\ api[j] = "recorded" => record[j].status = "queued"

AllCurrent == \A j \in Jobs : ~Excused(j, Stale) => Current(j)

CurrentInv == TypeOK /\ NothingBeforePublish /\ DelayedBlamed /\ OneCarrier /\ AllCurrent

InSynthesis == {"synth", "upload", "store", "except"}

LEMMA ReportedIs ==
  /\ \A n : Reported("received", n) = Reported("queue", n)
  /\ Reported("queue", 0) = "queued"
  /\ \A n \in Nat \ {0} : Reported("queue", n) = "failed"
  /\ \A at \in InSynthesis : \A n : Reported(at, n) = "processing"
  /\ \A n : Reported("return", n) = "completed"
  /\ \A n : Reported("retry", n) = "failed"
  BY DEF Reported, InSynthesis

(* A step that writes no record of the job and publishes nothing for it    *)
(* leaves it current.                                                      *)
LEMMA CurrentElsewhere ==
  ASSUME NEW j \in Jobs, Current(j),
         record'[j].status = record[j].status,
         api'[j] = "recorded" => api[j] = "recorded",
         \A m \in queue' : m.job = j => m \in queue,
         \A w \in Workers : Executing(w, j)' =>
           \/ Executing(w, j) /\ pc'[w] = pc[w] /\ msg'[w] = msg[w]
           \/ Executing(w, j) /\ pc[w] \in InSynthesis /\ pc'[w] \in InSynthesis
           \/ pc'[w] = "received" /\ msg'[w] \in queue
  PROVE  Current(j)'
<1>1. ASSUME NEW w \in Workers, Executing(w, j)'
      PROVE  record'[j].status = Reported(pc'[w], msg'[w].tries)
  BY <1>1, ReportedIs DEF Current, Executing
<1>2. \A m \in queue' : m.job = j => record'[j].status = Reported("queue", m.tries)
  BY DEF Current
<1> QED
  BY <1>1, <1>2 DEF Current

(* The one carrier of a job writes its record and goes on. *)
LEMMA CurrentHere ==
  ASSUME TypeOK, NothingBeforePublish, NEW j \in Jobs, AtMostOne(j),
         NEW w \in Workers, Executing(w, j), UNCHANGED <<api, queue, msg>>,
         pc' = [pc EXCEPT ![w] = pc'[w]],
         record'[j].status = Reported(pc'[w], msg[w].tries)
  PROVE  Current(j)'
<1>1. (\A m \in queue : m.job # j) /\ \A v \in Workers \ {w} : ~Executing(v, j)
  BY DEF AtMostOne
<1>2. \A v \in Workers : Executing(v, j)' => v = w
  BY <1>1 DEF Executing, TypeOK
<1>3. api[j] # "recorded"
  BY DEF Executing, NothingBeforePublish, Unpublished
<1> QED
  BY <1>1, <1>2, <1>3 DEF Current

LEMMA CurrentNext ==
  ASSUME CurrentInv, [Next]_vars
  PROVE  AllCurrent'
<1> SUFFICES ASSUME NEW j \in Jobs, ~Excused(j, Stale)' PROVE Current(j)'
  BY DEF AllCurrent
<1> USE DEF CurrentInv
<1>1. ~Excused(j, Stale)
  BY MishapsStay DEF Excused
<1>2. Current(j) /\ AtMostOne(j)
  BY <1>1 DEF AllCurrent, OneCarrier, Excused, Stale
<1>3. ASSUME NEW i \in Jobs, NEW r \in Record, WriteRecord(i, r)
      PROVE  IF i = j THEN record'[j] = r ELSE record'[j] = record[j]
  <2>1. mishap'[j] \cap {"dropped", "slow"} = {}
    BY DEF Excused, Stale
  <2> QED
    BY <1>3, <2>1, WriteType
<1>4. CASE UNCHANGED <<api, record, queue, pc, msg>>
  BY <1>2, <1>4, CurrentElsewhere DEF Executing
<1>5. ASSUME NEW i \in Jobs, LookupCache(i) \/ ApiCrash(i) PROVE Current(j)'
  <2>1. api'[j] = "recorded" => api[j] = "recorded"
    BY <1>5 DEF LookupCache, ApiCrash, TypeOK
  <2> QED
    BY <1>2, <1>5, <2>1, CurrentElsewhere
    DEF LookupCache, ApiCrash, redisVars, brokerVars, taskVars, Executing
<1>6. ASSUME NEW i \in Jobs, ServeHit(i) \/ RecordQueued(i) PROVE Current(j)'
  <2>1. UNCHANGED <<queue, pc, msg>>
    BY <1>6 DEF ServeHit, RecordQueued, brokerVars, taskVars
  <2>2. Done(found[i]) \in Record /\ Rec("queued") \in Record
    BY RecordTypes DEF TypeOK, Status
  <2>3. CASE i # j
    <3>1. record'[j] = record[j] /\ api'[j] = api[j]
      BY <1>3, <1>6, <2>2, <2>3 DEF ServeHit, RecordQueued, TypeOK
    <3> QED
      BY <1>2, <2>1, <3>1, CurrentElsewhere DEF Executing
  <2>4. CASE i = j
    <3>1. Unpublished(j)
      BY <1>6, <2>4 DEF ServeHit, RecordQueued, NothingBeforePublish
    <3>2. api'[j] = "recorded" => record'[j] = Rec("queued")
      BY <1>3, <1>6, <2>2, <2>4 DEF ServeHit, RecordQueued, TypeOK
    <3> QED
      BY <2>1, <3>1, <3>2 DEF Current, Unpublished, Executing, Rec
  <2> QED
    BY <2>3, <2>4
<1>7. ASSUME NEW i \in Jobs, Enqueue(i) PROVE Current(j)'
  <2>1. /\ UNCHANGED <<record, pc, msg>>
        /\ queue' \subseteq queue \cup {First(i)} /\ First(i).job = i /\ First(i).tries = 0
        /\ api' = [api EXCEPT ![i] = api'[i]] /\ api'[i] # "recorded"
    BY <1>7 DEF Enqueue, redisVars, taskVars, First, TypeOK
  <2>2. CASE i # j
    BY <1>2, <2>1, <2>2, CurrentElsewhere DEF Executing, TypeOK
  <2>3. CASE i = j
    <3>1. Unpublished(j) /\ record[j].status = "queued"
      BY <1>2, <1>7, <2>3 DEF Enqueue, NothingBeforePublish, Current
    <3> QED
      BY <2>1, <2>3, <3>1, ReportedIs DEF Current, Unpublished, Executing
  <2> QED
    BY <2>2, <2>3
<1>8. ASSUME NEW w \in Workers, NEW m \in queue, Deliver(w, m) PROVE Current(j)'
  <2>1. /\ UNCHANGED <<api, record>> /\ queue' \subseteq queue
        /\ pc'[w] = "received" /\ msg'[w] \in queue
        /\ \A v \in Workers \ {w} : pc'[v] = pc[v] /\ msg'[v] = msg[v]
    BY <1>8 DEF Deliver, Goto, apiVars, redisVars, TypeOK
  <2> QED
    BY <1>2, <2>1, CurrentElsewhere DEF Executing
<1>9. ASSUME NEW w \in Workers, Synthesise(w) \/ SynthesisRaises(w) \/ Upload(w)
      PROVE  Current(j)'
  <2>1. /\ UNCHANGED <<api, record, queue, msg>>
        /\ pc[w] \in InSynthesis /\ pc'[w] \in InSynthesis
        /\ \A v \in Workers \ {w} : pc'[v] = pc[v]
    BY <1>9
    DEF Synthesise, SynthesisRaises, Upload, Goto, InSynthesis, apiVars, redisVars, brokerVars,
        TypeOK
  <2> QED
    BY <1>2, <2>1, CurrentElsewhere DEF Executing, InSynthesis
<1>10. ASSUME NEW w \in Workers, MarkProcessing(w) \/ StoreResult(w) \/ RecordFailed(w)
       PROVE  Current(j)'
  <2>1. /\ UNCHANGED <<api, queue, msg>> /\ pc' = [pc EXCEPT ![w] = pc'[w]]
        /\ pc[w] \in {"received", "store", "except"}
    BY <1>10 DEF MarkProcessing, StoreResult, RecordFailed, Goto, apiVars, brokerVars, TypeOK
  <2>2. msg[w].job \in Jobs
    BY <2>1, BusyHolds
  <2>3. /\ Done(stored[w]) \in Record /\ Done(stored[w]).status = "completed"
        /\ Rec("processing") \in Record /\ Rec("processing").status = "processing"
        /\ Rec("failed") \in Record /\ Rec("failed").status = "failed"
    BY RecordTypes DEF TypeOK, Status, Done, Rec
  <2>4. CASE msg[w].job # j
    <3>1. record'[j] = record[j]
      BY <1>3, <1>10, <2>2, <2>3, <2>4 DEF MarkProcessing, StoreResult, RecordFailed
    <3>2. \A v \in Workers : Executing(v, j)' => v # w
      BY <2>1, <2>4 DEF Executing
    <3>3. \A v \in Workers \ {w} : pc'[v] = pc[v]
      BY <2>1 DEF TypeOK
    <3> QED
      BY <1>2, <2>1, <3>1, <3>2, <3>3, CurrentElsewhere DEF Executing
  <2>5. CASE msg[w].job = j
    <3>1. Executing(w, j)
      BY <2>1, <2>5 DEF Executing
    <3>2. \/ record'[j].status = "processing" /\ pc'[w] = "synth"
          \/ record'[j].status = "completed" /\ pc'[w] = "return"
          \/ record'[j].status = "failed" /\ pc'[w] = "retry"
      BY <1>3, <1>10, <2>3, <2>5 DEF MarkProcessing, StoreResult, RecordFailed, Goto, TypeOK
    <3>3. record'[j].status = Reported(pc'[w], msg[w].tries)
      BY <3>2, ReportedIs DEF InSynthesis
    <3> QED
      BY <1>2, <2>1, <3>1, <3>3, CurrentHere
  <2> QED
    BY <2>4, <2>5
<1>11. ASSUME NEW w \in Workers, SoftLimit(w) PROVE Current(j)'
  <2>1. msg[w].job # j
    BY <1>11 DEF SoftLimit, Blame, Excused, Stale
  <2>2. /\ UNCHANGED <<api, record, queue, msg>>
        /\ \A v \in Workers \ {w} : pc'[v] = pc[v]
    BY <1>11 DEF SoftLimit, Goto, apiVars, redisVars, brokerVars, TypeOK
  <2> QED
    BY <1>2, <2>1, <2>2, CurrentElsewhere DEF Executing
<1>12. ASSUME NEW w \in Workers, Retry(w) PROVE Current(j)'
  <2>1. /\ UNCHANGED <<api, record, msg>> /\ pc[w] = "retry" /\ pc'[w] = "ack"
        /\ \A v \in Workers \ {w} : pc'[v] = pc[v]
        /\ queue' \subseteq queue \cup {[msg[w] EXCEPT !.tries = @ + 1]}
    BY <1>12 DEF Retry, Goto, apiVars, redisVars, TypeOK
  <2>2. /\ msg[w] \in Msg
        /\ [msg[w] EXCEPT !.tries = @ + 1].job = msg[w].job
        /\ [msg[w] EXCEPT !.tries = @ + 1].tries \in Nat \ {0}
    BY <2>1, BusyHolds, RetriesAssumption DEF Msg
  <2>3. msg[w].job = j => record[j].status = "failed"
    BY <1>2, <2>1, ReportedIs DEF Current, Executing
  <2>4. \A v \in Workers : Executing(v, j)' => Executing(v, j) /\ pc'[v] = pc[v]
    BY <2>1 DEF Executing
  <2>5. \A m \in queue' : m.job = j => record'[j].status = Reported("queue", m.tries)
    BY <1>2, <2>1, <2>2, <2>3, ReportedIs DEF Current
  <2> QED
    BY <1>2, <2>1, <2>4, <2>5 DEF Current
<1>13. ASSUME NEW w \in Workers, Acknowledge(w) \/ HardKill(w) PROVE Current(j)'
  <2>1. /\ UNCHANGED <<api, record, queue>> /\ pc'[w] = "idle"
        /\ \A v \in Workers \ {w} : pc'[v] = pc[v] /\ msg'[v] = msg[v]
    BY <1>13 DEF Acknowledge, HardKill, Drop, Goto, apiVars, redisVars, TypeOK
  <2> QED
    BY <1>2, <2>1, CurrentElsewhere DEF Executing
<1>14. ASSUME NEW w \in Workers, Crash(w) PROVE Current(j)'
  <2>1. msg[w] \in Msg /\ msg[w].job # j
    BY <1>14, BusyHolds DEF Crash, Blame, Excused, Stale
  <2>2. [msg[w] EXCEPT !.gen = crashes + 1].job # j
    BY <2>1 DEF Msg
  <2>3. /\ UNCHANGED <<api, record>> /\ pc'[w] = "idle"
        /\ queue' \subseteq queue \cup {[msg[w] EXCEPT !.gen = crashes + 1]}
        /\ \A v \in Workers \ {w} : pc'[v] = pc[v] /\ msg'[v] = msg[v]
    BY <1>14 DEF Crash, Drop, Goto, apiVars, redisVars, TypeOK
  <2> QED
    BY <1>2, <2>2, <2>3, CurrentElsewhere DEF Executing
<1>15. ASSUME NEW i \in Jobs, EvictRecord(i) PROVE Current(j)'
  <2>1. i # j
    BY <1>15 DEF EvictRecord, Blame, Excused, Stale
  <2> QED
    BY <1>2, <1>15, <2>1, CurrentElsewhere
    DEF EvictRecord, apiVars, brokerVars, taskVars, Executing, TypeOK
<1>16. ASSUME NEW d \in delayed, ExecuteLate(d) PROVE Current(j)'
  <2>1. d.job # j
    BY <1>1 DEF DelayedBlamed, Excused, Stale
  <2> QED
    BY <1>2, <1>16, <2>1, CurrentElsewhere
    DEF ExecuteLate, apiVars, brokerVars, taskVars, Executing, TypeOK
<1>17. CASE EvictBroker
  <2>1. UNCHANGED <<api, record, pc, msg>> /\ queue' \subseteq queue
    BY <1>17 DEF EvictBroker, apiVars, redisVars, taskVars
  <2> QED
    BY <1>2, <2>1, CurrentElsewhere DEF Executing
<1>18. CASE RedisRestart
  <2>1. api[j] \in {"new", "looked"}
    BY <1>18 DEF RedisRestart, Blame, Excused, Stale
  <2>2. Unpublished(j) /\ UNCHANGED <<api, pc, msg>> /\ queue' = {}
    BY <1>18, <2>1 DEF NothingBeforePublish, RedisRestart, apiVars, taskVars
  <2> QED
    BY <2>1, <2>2 DEF Current, Unpublished, Executing
<1>19. ASSUME \/ \E w \in Workers : CacheSet(w)
              \/ \E m \in volume : Cleanup(m)
              \/ \E k \in Keys : EvictEntry(k)
              \/ UNCHANGED vars
       PROVE  UNCHANGED <<api, record, queue, pc, msg>>
  BY <1>19
  DEF CacheSet, Cleanup, EvictEntry, vars, apiVars, redisVars, brokerVars, taskVars
<1> QED
  BY <1>4, <1>5, <1>6, <1>7, <1>8, <1>9, <1>10, <1>11, <1>12, <1>13, <1>14, <1>15, <1>16, <1>17,
     <1>18, <1>19
  DEF Next, Handler, Task, Environment

(* tts.py:127-157 and celery_app.py:57-156: without a write that failed or *)
(* timed out, a second execution after a crash or the loss of a record,    *)
(* the record always says what the job's carrier reported last.            *)
THEOREM RecordFollowsCarrier == Spec => []RecordIsCurrent
<1>1. Init => CurrentInv
  BY TypeInit
  DEF Init, CurrentInv, NothingBeforePublish, Unpublished, DelayedBlamed, OneCarrier, AtMostOne,
      Executing, AllCurrent, Current
<1>2. CurrentInv /\ [Next]_vars => CurrentInv'
  BY TypeNext, NothingBeforePublishNext, DelayedBlamedNext, OneCarrierNext, CurrentNext
  DEF CurrentInv
<1>3. CurrentInv => RecordIsCurrent
  BY DEF CurrentInv, AllCurrent, Current, Executing, RecordIsCurrent, Stale
<1> QED
  BY <1>1, <1>2, <1>3, PTL DEF Spec

(***************************************************************************)
(* No early end. NoEarlyGiveUp speaks of a job that has settled; what the  *)
(* steps preserve is a chain: a message of try n exists only when the      *)
(* tries before n have begun, a worker past its first step has begun its   *)
(* own, and a failed record outlives its carrier only after the last one.  *)
(***************************************************************************)
Begun(j, n) ==
  \A t \in 0 .. MaxRetries : t < n => \E m \in started : m.job = j /\ m.tries = t

Chain(j) ==
  /\ \A m \in queue : m.job = j => Begun(j, m.tries)
  /\ \A w \in Workers : pc[w] # "idle" /\ msg[w].job = j =>
       /\ Begun(j, msg[w].tries)
       /\ pc[w] # "received" => Begun(j, msg[w].tries + 1)
       /\ pc[w] = "return" => record[j].status # "failed"
  /\ record[j].status = "failed" /\ Settled(j) => Begun(j, MaxRetries + 1)

TriesChain == \A j \in Jobs : mishap[j] = {} => Chain(j)

(* What does not concern a job leaves its chain alone. *)
LEMMA ChainElsewhere ==
  ASSUME NEW j \in Jobs, Chain(j), TypeOK,
         started \subseteq started',
         record'[j].status = "failed" => record[j].status = "failed",
         \A m : m.job = j => (m \in queue <=> m \in queue'),
         \A w \in Workers :
           \/ pc'[w] = pc[w] /\ msg'[w] = msg[w]
           \/ /\ pc[w] = "idle" \/ msg[w].job # j
              /\ pc'[w] = "idle" \/ msg'[w].job # j
  PROVE  Chain(j)'
<1>1. \A n : Begun(j, n) => Begun(j, n)'
  BY DEF Begun
<1>2. Settled(j)' => Settled(j)
  BY DEF Settled, Executing
<1> QED
  BY <1>1, <1>2 DEF Chain

LEMMA TriesChainNext ==
  ASSUME TypeOK, NothingBeforePublish, DelayedBlamed, OneCarrier, TriesChain, [Next]_vars
  PROVE  TriesChain'
<1> SUFFICES ASSUME NEW j \in Jobs, mishap'[j] = {} PROVE Chain(j)'
  BY DEF TriesChain
<1>1. mishap[j] = {}
  BY MishapsStay
<1>2. Chain(j) /\ AtMostOne(j)
  BY <1>1 DEF TriesChain, OneCarrier
<1>3. ASSUME NEW i \in Jobs, NEW r, WriteRecord(i, r)
      PROVE  /\ i # j => record'[j] = record[j]
             /\ i = j => record'[j] = r
  BY <1>3, <1>1 DEF WriteRecord, Blame, TypeOK
<1>4. CASE UNCHANGED <<record, queue, pc, msg, started>>
  BY <1>2, <1>4, ChainElsewhere
<1>5. ASSUME NEW i \in Jobs, ServeHit(i) \/ RecordQueued(i) PROVE Chain(j)'
  <2>1. Done(found[i]).status # "failed" /\ Rec("queued").status # "failed"
    BY DEF Done, Rec
  <2>2. record'[j].status = "failed" => record[j].status = "failed"
    BY <1>3, <1>5, <2>1 DEF ServeHit, RecordQueued
  <2>3. UNCHANGED <<queue, pc, msg, started>>
    BY <1>5 DEF ServeHit, RecordQueued, brokerVars, taskVars, history
  <2> QED
    BY <1>2, <2>2, <2>3, ChainElsewhere
<1>6. ASSUME NEW i \in Jobs, Enqueue(i) PROVE Chain(j)'
  <2>1. /\ UNCHANGED <<record, pc, msg, started>>
        /\ queue' = queue \/ queue' = queue \cup {First(i)}
    BY <1>6 DEF Enqueue, redisVars, taskVars, history
  <2>2. First(i).job = i /\ Begun(i, First(i).tries)
    BY DEF First, Begun
  <2>3. CASE i # j \/ queue' = queue
    BY <1>2, <2>1, <2>2, <2>3, ChainElsewhere
  <2>4. CASE i = j /\ queue' = queue \cup {First(j)}
    <3>1. ~Settled(j)'
      BY <2>2, <2>4 DEF Settled
    <3> QED
      BY <1>2, <2>1, <2>2, <2>4, <3>1 DEF Chain, Begun
  <2> QED
    BY <2>1, <2>3, <2>4
<1>7. ASSUME NEW w \in Workers, NEW m \in queue, Deliver(w, m) PROVE Chain(j)'
  <2>1. /\ UNCHANGED <<record, started>>
        /\ queue' = queue \ {m}
        /\ pc[w] = "idle" /\ pc'[w] = "received" /\ msg'[w] = m
        /\ \A v \in Workers \ {w} : pc'[v] = pc[v] /\ msg'[v] = msg[v]
    BY <1>7 DEF Deliver, Goto, redisVars, history, TypeOK
  <2>2. CASE m.job # j
    BY <1>2, <2>1, <2>2, ChainElsewhere
  <2>3. CASE m.job = j
    <3>1. ~Settled(j)'
      BY <2>1, <2>3 DEF Settled, Executing
    <3> QED
      BY <1>2, <2>1, <2>3, <3>1 DEF Chain, Begun
  <2> QED
    BY <2>2, <2>3
<1>8. ASSUME NEW w \in Workers, msg[w].job # j, Task(w) \/ SoftLimit(w) \/ HardKill(w) \/ Crash(w)
      PROVE  Chain(j)'
  <2>1. pc[w] # "idle"
    BY <1>8
    DEF Task, MarkProcessing, Synthesise, SynthesisRaises, Upload, StoreResult, SoftLimit,
        RecordFailed, Retry, Acknowledge, HardKill, Crash
  <2>2. msg[w] \in Msg /\ msg[w].job \in Jobs
    BY <2>1, BusyHolds
  <2>3. record'[j] = record[j] /\ started \subseteq started'
    BY <1>3, <1>8, <2>2
    DEF Task, MarkProcessing, Synthesise, SynthesisRaises, Upload, StoreResult, SoftLimit,
        RecordFailed, Retry, Acknowledge, HardKill, Crash, redisVars, history
  <2>4. \A v \in Workers \ {w} : pc'[v] = pc[v] /\ msg'[v] = msg[v]
    BY <1>8
    DEF Task, MarkProcessing, Synthesise, SynthesisRaises, Upload, StoreResult, SoftLimit,
        RecordFailed, Retry, Acknowledge, HardKill, Crash, Drop, Goto, TypeOK
  <2>5. msg'[w] = msg[w] \/ pc'[w] = "idle"
    BY <1>8
    DEF Task, MarkProcessing, Synthesise, SynthesisRaises, Upload, StoreResult, SoftLimit,
        RecordFailed, Retry, Acknowledge, HardKill, Crash, Drop, Goto, TypeOK
  <2>6. /\ [msg[w] EXCEPT !.tries = @ + 1].job # j
        /\ [msg[w] EXCEPT !.gen = crashes + 1].job # j
    BY <1>8, <2>2 DEF Msg
  <2>7. \/ queue' = queue
        \/ queue' = queue \cup {[msg[w] EXCEPT !.tries = @ + 1]}
        \/ queue' = queue \cup {[msg[w] EXCEPT !.gen = crashes + 1]}
    BY <1>8
    DEF Task, MarkProcessing, Synthesise, SynthesisRaises, Upload, StoreResult, SoftLimit,
        RecordFailed, Retry, Acknowledge, HardKill, Crash, brokerVars
  <2> QED
    BY <1>2, <1>8, <2>3, <2>4, <2>5, <2>6, <2>7, ChainElsewhere
<1>9. ASSUME NEW w \in Workers, msg[w].job = j,
             SoftLimit(w) \/ HardKill(w) \/ Crash(w)
      PROVE  FALSE
  BY <1>9 DEF SoftLimit, HardKill, Crash, Blame
<1>10. ASSUME NEW w \in Workers, msg[w].job = j, MarkProcessing(w) PROVE Chain(j)'
  <2>1. /\ UNCHANGED <<queue, msg>> /\ started' = started \cup {msg[w]}
        /\ pc[w] = "received" /\ pc' = [pc EXCEPT ![w] = "synth"]
    BY <1>10 DEF MarkProcessing, Goto, brokerVars
  <2>2. msg[w] \in Msg
    BY <2>1, BusyHolds
  <2>3. record'[j].status # "failed"
    BY <1>3, <1>10 DEF MarkProcessing, Rec
  <2>4. Begun(j, msg[w].tries + 1)' /\ \A n : Begun(j, n) => Begun(j, n)'
    BY <1>2, <1>10, <2>1, <2>2 DEF Chain, Begun, Msg
  <2> QED
    BY <1>2, <1>10, <2>1, <2>3, <2>4 DEF Chain, TypeOK
<1>11. ASSUME NEW w \in Workers, msg[w].job = j,
              Synthesise(w) \/ SynthesisRaises(w) \/ Upload(w) \/ StoreResult(w) \/ RecordFailed(w)
       PROVE  Chain(j)'
  <2>1. /\ UNCHANGED <<queue, msg, started>>
        /\ pc[w] \in {"synth", "upload", "store", "except"}
        /\ pc'[w] \in {"upload", "except", "store", "return", "retry"}
        /\ pc' = [pc EXCEPT ![w] = pc'[w]]
    BY <1>11
    DEF Synthesise, SynthesisRaises, Upload, StoreResult, RecordFailed, Goto, brokerVars,
        history, TypeOK
  <2>2. pc'[w] = "return" => record'[j].status # "failed"
    BY <1>3, <1>11
    DEF Synthesise, SynthesisRaises, Upload, StoreResult, RecordFailed, Goto, TypeOK, Done
  <2>3. ~Settled(j)' /\ Executing(w, j)
    BY <1>11, <2>1 DEF Settled, Executing
  <2>4. \A v \in Workers \ {w} : pc[v] = "return" => msg[v].job # j
    BY <1>2, <2>3 DEF AtMostOne, Executing
  <2>5. \A n : Begun(j, n) => Begun(j, n)'
    BY <2>1 DEF Begun
  <2>6. \A v \in Workers \ {w} : pc'[v] = pc[v]
    BY <2>1 DEF TypeOK
  <2> QED
    BY <1>2, <1>11, <2>1, <2>2, <2>3, <2>4, <2>5, <2>6 DEF Chain
<1>12. ASSUME NEW w \in Workers, msg[w].job = j, Retry(w) PROVE Chain(j)'
  <2>1. /\ UNCHANGED <<msg, record, started>>
        /\ pc[w] = "retry" /\ pc' = [pc EXCEPT ![w] = "ack"]
    BY <1>12 DEF Retry, Goto, redisVars, history
  <2>2. msg[w] \in Msg /\ msg[w].tries \in 0 .. MaxRetries
    BY <2>1, BusyHolds DEF Msg
  <2>3. Begun(j, msg[w].tries + 1)
    BY <1>2, <1>12, <2>1 DEF Chain
  <2>4. CASE msg[w].tries = MaxRetries /\ queue' = queue
    BY <1>2, <1>12, <2>1, <2>3, <2>4 DEF Chain, Begun, TypeOK
  <2>5. CASE queue' = queue \cup {[msg[w] EXCEPT !.tries = @ + 1]}
    <3>1. /\ [msg[w] EXCEPT !.tries = @ + 1].job = j
          /\ [msg[w] EXCEPT !.tries = @ + 1].tries = msg[w].tries + 1
      BY <1>12, <2>2 DEF Msg
    <3>2. ~Settled(j)'
      BY <2>5, <3>1 DEF Settled
    <3>3. \A m \in queue' : m.job = j => Begun(j, m.tries)
      BY <1>2, <2>3, <2>5, <3>1 DEF Chain
    <3>4. \A n : Begun(j, n) => Begun(j, n)'
      BY <2>1 DEF Begun
    <3>5. \A v \in Workers : pc'[v] = pc[v] \/ (v = w /\ pc'[v] = "ack")
      BY <2>1 DEF TypeOK
    <3> QED
      BY <1>2, <2>1, <3>2, <3>3, <3>4, <3>5 DEF Chain
  <2>6. ~Blame({msg[w].job}, "unpublished")
    BY <1>12 DEF Blame
  <2> QED
    BY <1>12, <2>4, <2>5, <2>6 DEF Retry
<1>13. ASSUME NEW w \in Workers, msg[w].job = j, Acknowledge(w) PROVE Chain(j)'
  <2>1. /\ UNCHANGED <<queue, record, started>>
        /\ pc[w] \in {"return", "ack"} /\ pc' = [pc EXCEPT ![w] = "idle"]
        /\ msg' = [msg EXCEPT ![w] = NoMsg]
    BY <1>13 DEF Acknowledge, Drop, Goto, redisVars, history
  <2>2. record[j].status = "failed" => pc[w] = "ack"
    BY <1>2, <1>13, <2>1 DEF Chain
  <2>3. record[j].status = "failed" /\ Settled(j)' => Settled(j)
    BY <2>1, <2>2 DEF Settled, Executing, TypeOK
  <2> QED
    BY <1>2, <2>1, <2>3 DEF Chain, Begun, TypeOK
<1>14. CASE EvictBroker
  <2>1. UNCHANGED <<record, pc, msg, started>> /\ queue' \in {queue, {}}
    BY <1>14 DEF EvictBroker, redisVars, taskVars, history
  <2>2. queue' = {} => queue = {} \/ \A m \in queue : m.job # j
    BY <1>14, <2>1 DEF EvictBroker, Blame
  <2> QED
    BY <1>2, <2>1, <2>2, ChainElsewhere
<1>15. CASE RedisRestart
  <2>1. UNCHANGED <<pc, msg, started>> /\ queue' = {} /\ record'[j].status # "failed"
    BY <1>15 DEF RedisRestart, taskVars, history, Absent, Rec
  <2> QED
    BY <1>2, <2>1 DEF Chain, Begun
<1>16. ASSUME NEW i \in Jobs, EvictRecord(i) PROVE Chain(j)'
  <2>1. UNCHANGED <<queue, pc, msg, started>>
    BY <1>16 DEF EvictRecord, brokerVars, taskVars, history
  <2>2. record'[j].status = "failed" => record[j].status = "failed"
    BY <1>16 DEF EvictRecord, Absent, Rec, TypeOK
  <2> QED
    BY <1>2, <2>1, <2>2, ChainElsewhere
<1>17. ASSUME NEW w \in Workers, Task(w) \/ SoftLimit(w) \/ HardKill(w) \/ Crash(w)
       PROVE  Chain(j)'
  BY <1>8, <1>9, <1>10, <1>11, <1>12, <1>13, <1>17 DEF Task
<1>18. ASSUME NEW d \in delayed, ExecuteLate(d) PROVE Chain(j)'
  <2>1. d.job # j
    BY <1>1 DEF DelayedBlamed
  <2>2. UNCHANGED <<queue, pc, msg, started>> /\ record'[j] = record[j]
    BY <1>18, <2>1 DEF ExecuteLate, brokerVars, taskVars, history, TypeOK
  <2> QED
    BY <1>2, <2>2, ChainElsewhere
<1> QED
  BY <1>4, <1>5, <1>6, <1>7, <1>14, <1>15, <1>16, <1>17, <1>18
  DEF Next, Handler, Environment, vars, redisVars, brokerVars, taskVars, history, LookupCache,
      ApiCrash, CacheSet, Cleanup, EvictEntry

(* A job is only given up when every try has run, and none is skipped.     *)
THEOREM EveryTryRuns == Spec => []NoEarlyGiveUp
<1> DEFINE Inv == /\ TypeOK /\ NothingBeforePublish /\ DelayedBlamed
                  /\ OneCarrier /\ TriesChain
<1>1. Init => Inv
  BY TypeInit
  DEF Init, NothingBeforePublish, Unpublished, DelayedBlamed, OneCarrier, AtMostOne, Executing,
      TriesChain, Chain, Absent, Rec
<1>2. Inv /\ [Next]_vars => Inv'
  BY TypeNext, NothingBeforePublishNext, DelayedBlamedNext, OneCarrierNext, TriesChainNext
<1>3. Inv => NoEarlyGiveUp
  BY RetriesAssumption DEF TriesChain, Chain, Begun, NoEarlyGiveUp
<1> QED
  BY <1>1, <1>2, <1>3, PTL DEF Spec

(***************************************************************************)
(* What a client may read. Before the handler's own write there is no      *)
(* record; afterwards one that is missing was refused, evicted or wiped;   *)
(* and where nobody will write any more, a result stays a result.          *)
(***************************************************************************)
Ready(j) == AllDone(j) /\ record[j].status \in {"completed", "absent"}

NoRecordYet == \A j \in Jobs : api[j] \in {"new", "looked"} => record[j].status = "absent"

LostHasCause ==
  \A j \in Jobs :
     api[j] \in {"recorded", "accepted", "served"} /\ record[j].status = "absent"
       => Excused(j, {"dropped", "slow", "evicted", "wiped"})

ServedHasResult ==
  \A j \in Jobs :
     api[j] = "served" => record[j].status \in {"completed", "absent"} \/ Excused(j, {"slow"})

RecordInv ==
  /\ TypeOK /\ NothingBeforePublish /\ DelayedBlamed
  /\ NoRecordYet /\ LostHasCause /\ ServedHasResult

(* The steps of a handler. *)
LEMMA HandlerSteps ==
  ASSUME TypeOK, [Next]_vars, NEW j \in Jobs, api'[j] # api[j]
  PROVE  LookupCache(j) \/ Handler(j) \/ ApiCrash(j)
<1>1. ASSUME NEW i \in Jobs, LookupCache(i) \/ Handler(i) \/ ApiCrash(i) PROVE i = j
  BY <1>1 DEF LookupCache, Handler, ServeHit, RecordQueued, Enqueue, ApiCrash, TypeOK
<1>2. ASSUME NEW w \in Workers, Task(w) \/ \E m \in queue : Deliver(w, m) PROVE FALSE
  BY <1>2
  DEF Task, MarkProcessing, Synthesise, SynthesisRaises, Upload, StoreResult, RecordFailed,
      Retry, Acknowledge, Deliver, apiVars
<1>3. ASSUME Environment, \A i \in Jobs : ~ApiCrash(i) PROVE FALSE
  BY <1>3
  DEF Environment, EvictRecord, SoftLimit, HardKill, Crash, CacheSet, Cleanup, EvictEntry,
      ExecuteLate, EvictBroker, RedisRestart, apiVars
<1>4. api' # api
  OBVIOUS
<1> QED
  BY <1>1, <1>2, <1>3, <1>4 DEF Next, vars, apiVars

(* A record that goes away was evicted or wiped, unless its job had a slow *)
(* write.                                                                  *)
LEMMA LossIsBlamed ==
  ASSUME TypeOK, DelayedBlamed, [Next]_vars, NEW j \in Jobs, record'[j] # record[j],
         record'[j].status = "absent"
  PROVE  api[j] \in {"new", "looked"} \/ mishap'[j] \cap {"slow", "evicted", "wiped"} # {}
<1>1. ASSUME NEW i, NEW r, r.status # "absent", WriteRecord(i, r) PROVE FALSE
  BY <1>1 DEF WriteRecord, TypeOK
<1>2. ASSUME NEW i \in Jobs, EvictRecord(i) PROVE "evicted" \in mishap'[j]
  <2>1. i = j
    BY <1>2 DEF EvictRecord, TypeOK
  <2> QED
    BY <1>2, <2>1, BlameType DEF EvictRecord, Mishaps
<1>3. ASSUME RedisRestart, api[j] \notin {"new", "looked"} PROVE "wiped" \in mishap'[j]
  BY <1>3, BlameType DEF RedisRestart, Mishaps
<1>4. ASSUME NEW i \in Jobs, ServeHit(i) \/ RecordQueued(i) PROVE FALSE
  BY <1>1, <1>4 DEF ServeHit, RecordQueued, Done, Rec
<1>5. ASSUME NEW w \in Workers, MarkProcessing(w) \/ StoreResult(w) \/ RecordFailed(w)
      PROVE  FALSE
  BY <1>1, <1>5 DEF MarkProcessing, StoreResult, RecordFailed, Done, Rec
<1>6. ASSUME NEW d \in delayed, ExecuteLate(d) PROVE "slow" \in mishap'[j]
  <2>1. d.job = j
    BY <1>6 DEF ExecuteLate, TypeOK
  <2> QED
    BY <1>6, <2>1 DEF ExecuteLate, DelayedBlamed
<1> QED
  BY <1>2, <1>3, <1>4, <1>5, <1>6
  DEF Next, Handler, Task, Environment, vars, redisVars, LookupCache, Enqueue, ApiCrash,
      Deliver, Synthesise, SynthesisRaises, Upload, SoftLimit, Retry, Acknowledge, HardKill,
      Crash, CacheSet, Cleanup, EvictEntry, EvictBroker

(* Nobody but the handler writes the record of an unpublished job, at once *)
(* or late.                                                                *)
LEMMA UnpublishedRecord ==
  ASSUME TypeOK, DelayedBlamed, [Next]_vars, NEW j \in Jobs, Unpublished(j)
  PROVE  \/ record'[j] = record[j]
         \/ record'[j] = Absent
         \/ ServeHit(j) \/ RecordQueued(j)
         \/ "slow" \in mishap'[j] /\ api[j] \notin {"new", "looked"}
<1>1. ASSUME NEW d \in delayed, d.job = j
      PROVE  "slow" \in mishap'[j] /\ api[j] \notin {"new", "looked"}
  BY <1>1, MishapsStay DEF DelayedBlamed
<1> QED
  BY <1>1, RecordWriters DEF Unpublished, MarkProcessing, StoreResult, RecordFailed

LEMMA RecordInvNext ==
  ASSUME RecordInv, [Next]_vars
  PROVE  RecordInv'
<1> USE DEF RecordInv
<1>1. TypeOK' /\ NothingBeforePublish' /\ DelayedBlamed'
  BY TypeNext, NothingBeforePublishNext, DelayedBlamedNext
<1>2. Absent.status = "absent"
  BY DEF Absent, Rec
<1>3. ASSUME NEW j \in Jobs, ServeHit(j) \/ RecordQueued(j)
      PROVE  /\ api[j] = "looked"
             /\ api'[j] \in {"recorded", "served"}
             /\ RecordQueued(j) => api'[j] = "recorded"
             /\ \/ record'[j].status = "completed"
                \/ RecordQueued(j) /\ record'[j].status # "absent"
                \/ record'[j] = record[j] /\ mishap'[j] \cap {"dropped", "slow"} # {}
  <2>1. CASE ServeHit(j)
    <3>1. Done(found[j]) \in Record /\ Done(found[j]).status = "completed"
      BY RecordTypes DEF TypeOK, Done
    <3>2. WriteRecord(j, Done(found[j])) /\ api[j] = "looked" /\ api'[j] = "served"
      BY <2>1 DEF ServeHit, TypeOK
    <3>3. \/ record'[j] = Done(found[j])
          \/ record'[j] = record[j] /\ mishap'[j] \cap {"dropped", "slow"} # {}
      BY <3>1, <3>2, WriteType
    <3>4. ~RecordQueued(j)
      BY <3>2 DEF RecordQueued, TypeOK
    <3> QED
      BY <3>1, <3>2, <3>3, <3>4
  <2>2. CASE RecordQueued(j)
    <3>1. Rec("queued") \in Record /\ Rec("queued").status = "queued"
      BY RecordTypes DEF Rec, Status
    <3> QED
      BY <2>2, <3>1, WriteType DEF RecordQueued, TypeOK
  <2> QED
    BY <1>3, <2>1, <2>2
<1>4. ASSUME NEW j \in Jobs, api'[j] # api[j]
      PROVE  \/ api'[j] = "looked" /\ api[j] = "new"
             \/ ServeHit(j) \/ RecordQueued(j)
             \/ api[j] = "recorded" /\ api'[j] \in {"accepted", "refused"}
             \/ api'[j] = "refused"
  BY <1>4, HandlerSteps DEF LookupCache, Handler, Enqueue, ApiCrash, TypeOK
<1>5. ASSUME NEW j \in Jobs, api'[j] \in {"new", "looked"}
      PROVE  record'[j].status = "absent"
  <2>1. api[j] \in {"new", "looked"}
    BY <1>3, <1>4, <1>5
  <2>2. ~ServeHit(j) /\ ~RecordQueued(j)
    BY <1>3, <1>5
  <2> QED
    BY <1>2, <2>1, <2>2, UnpublishedRecord DEF NothingBeforePublish, NoRecordYet
<1>6. ASSUME NEW j \in Jobs, api'[j] \in {"recorded", "accepted", "served"},
             record'[j].status = "absent"
      PROVE  Excused(j, {"dropped", "slow", "evicted", "wiped"})'
  <2>1. CASE ServeHit(j) \/ RecordQueued(j)
    BY <1>3, <1>6, <2>1 DEF Excused
  <2>2. CASE ~ServeHit(j) /\ ~RecordQueued(j)
    <3>1. api[j] \in {"recorded", "accepted", "served"}
      BY <1>4, <1>6, <2>2
    <3>2. CASE record'[j] # record[j]
      BY <1>6, <3>1, <3>2, LossIsBlamed DEF Excused
    <3>3. CASE record'[j] = record[j]
      BY <1>6, <3>1, <3>3, MishapsStay DEF Excused, LostHasCause
    <3> QED
      BY <3>2, <3>3
  <2> QED
    BY <2>1, <2>2
<1>7. ASSUME NEW j \in Jobs, api'[j] = "served", ~Excused(j, {"slow"})'
      PROVE  record'[j].status \in {"completed", "absent"}
  <2>1. ~RecordQueued(j)
    BY <1>3, <1>7
  <2>2. CASE ServeHit(j)
    BY <1>3, <2>1, <2>2 DEF NoRecordYet
  <2>3. CASE ~ServeHit(j)
    <3>1. api[j] = "served"
      BY <1>4, <1>7, <2>1, <2>3
    <3>2. "slow" \notin mishap'[j] /\ ~Excused(j, {"slow"})
      BY <1>7, MishapsStay DEF Excused
    <3> QED
      BY <1>2, <2>1, <2>3, <3>1, <3>2, UnpublishedRecord
      DEF NothingBeforePublish, ServedHasResult
  <2> QED
    BY <2>2, <2>3
<1> QED
  BY <1>1, <1>5, <1>6, <1>7 DEF NoRecordYet, LostHasCause, ServedHasResult

LEMMA RecordInvAlways == Spec => []RecordInv
<1>1. Init => RecordInv
  BY TypeInit
  DEF Init, RecordInv, NothingBeforePublish, Unpublished, DelayedBlamed, NoRecordYet,
      LostHasCause, ServedHasResult, Absent, Rec
<1> QED
  BY <1>1, RecordInvNext, PTL DEF Spec

(* Where nobody will write any more, nothing but a loss happens. *)
LEMMA ReadyStays ==
  ASSUME TypeOK, DelayedBlamed, [Next]_vars, NEW j \in Jobs, Ready(j),
         ~Excused(j, {"crashed", "late", "slow"})'
  PROVE  Ready(j)'
<1>1. AllDone(j)'
  <2>1. ~Excused(j, {"crashed", "late"})'
    BY DEF Excused
  <2> QED
    BY <2>1, DoneStays DEF Ready
<1>2. ~ServeHit(j) /\ ~RecordQueued(j)
  BY DEF Ready, AllDone, ServeHit, RecordQueued
<1>3. ASSUME NEW w \in Workers, msg[w].job = j,
             MarkProcessing(w) \/ StoreResult(w) \/ RecordFailed(w)
      PROVE  FALSE
  BY <1>3 DEF Ready, AllDone, MarkProcessing, StoreResult, RecordFailed
<1>4. \A d \in delayed : d.job # j
  BY MishapsStay DEF DelayedBlamed, Excused
<1>5. record'[j] = record[j] \/ record'[j] = Absent
  BY <1>2, <1>3, <1>4, RecordWriters
<1> QED
  BY <1>1, <1>5 DEF Ready, Absent, Rec

(***************************************************************************)
(* The contract. While Redis, the broker and the workers stay up, each     *)
(* step of the pipeline is one step of JobContract or changes nothing that *)
(* a client can observe. A message that waits to be executed has exactly   *)
(* the tries before its own behind it, and the record says what its worker *)
(* reported last.                                                          *)
(***************************************************************************)
Quiet == Faults \subseteq {"synth", "upload", "api", "forget", "net"}

UpTo(j, n) ==
  \A t \in 0 .. MaxRetries : (\E m \in started : m.job = j /\ m.tries = t) <=> t < n

Waits(j, m) == record[j].status \in {"queued", "failed"} /\ UpTo(j, m.tries)

Working == {"synth", "upload", "store", "except"}

Reports(j, w) ==
  pc[w] # "idle" /\ msg[w].job = j =>
    /\ pc[w] = "received" => Waits(j, msg[w])
    /\ pc[w] \in Working => record[j].status = "processing" /\ UpTo(j, msg[w].tries + 1)
    /\ pc[w] = "retry" => record[j].status = "failed" /\ UpTo(j, msg[w].tries + 1)

Progress(j) ==
  /\ \A m \in queue : m.job = j => Waits(j, m)
  /\ \A w \in Workers : Reports(j, w)
  /\ api[j] = "recorded" => record[j].status = "queued"
  /\ api[j] \in {"new", "looked", "recorded"} => UpTo(j, 0)

QuietInv == \A j \in Jobs : mishap[j] = {} /\ Progress(j)

(* Without those faults a record operation does what it is told, and       *)
(* nobody takes a message, a worker or a record away.                      *)
LEMMA QuietSteps ==
  ASSUME Quiet, delayed = {}, [Next]_vars
  PROVE  \/ \E j \in Jobs : LookupCache(j) \/ Handler(j) \/ ApiCrash(j)
         \/ \E w \in Workers : Task(w) \/ \E m \in queue : Deliver(w, m)
         \/ UNCHANGED <<api, record, queue, pc, msg, started, mishap>>
<1>1. {"late", "hard", "crash", "evict", "restart"} \cap Faults = {}
  BY DEF Quiet
<1>2. CASE Environment
  BY <1>1, <1>2
  DEF Environment, EvictRecord, SoftLimit, HardKill, Crash, CacheSet, Cleanup, EvictEntry,
      EvictBroker, RedisRestart, apiVars, redisVars, brokerVars, taskVars, history
<1>3. CASE UNCHANGED vars
  BY <1>3 DEF vars, apiVars, redisVars, brokerVars, taskVars, history
<1> QED
  BY <1>2, <1>3 DEF Next

LEMMA QuietWrite ==
  ASSUME Quiet, TypeOK, NEW j \in Jobs, NEW r, WriteRecord(j, r)
  PROVE  /\ record' = [record EXCEPT ![j] = r] /\ record'[j] = r
         /\ \A i \in Jobs : i # j => record'[i] = record[i]
         /\ mishap' = mishap
  BY DEF Quiet, WriteRecord, TypeOK

LEMMA UnblamedNext ==
  ASSUME Quiet, TypeOK, delayed = {}, [Next]_vars, \A j \in Jobs : mishap[j] = {}
  PROVE  \A j \in Jobs : mishap'[j] = {}
<1>1. ASSUME NEW j \in Jobs, LookupCache(j) \/ Handler(j) \/ ApiCrash(j)
      PROVE  mishap' = mishap
  BY <1>1, QuietWrite DEF LookupCache, Handler, ServeHit, RecordQueued, Enqueue, ApiCrash
<1>2. ASSUME NEW w \in Workers, Task(w) \/ \E m \in queue : Deliver(w, m)
      PROVE  mishap' = mishap
  <2>1. pc[w] = "idle" \/ msg[w].job \in Jobs
    BY BusyHolds
  <2>2. CASE \E m \in queue : Deliver(w, m)
    BY <2>2 DEF Deliver
  <2>3. CASE MarkProcessing(w) \/ StoreResult(w) \/ RecordFailed(w)
    BY <2>1, <2>3, QuietWrite DEF MarkProcessing, StoreResult, RecordFailed
  <2>4. CASE Synthesise(w) \/ SynthesisRaises(w) \/ Upload(w) \/ Retry(w) \/ Acknowledge(w)
    BY <2>4 DEF Synthesise, SynthesisRaises, Upload, Retry, Acknowledge, Quiet
  <2> QED
    BY <1>2, <2>2, <2>3, <2>4 DEF Task
<1> QED
  BY <1>1, <1>2, QuietSteps

(* What does not concern a job, or only ends an execution, takes nothing   *)
(* away.                                                                   *)
LEMMA ProgressElsewhere ==
  ASSUME NEW j \in Jobs, Progress(j),
         record'[j].status = record[j].status,
         api'[j] = "recorded" => api[j] = "recorded",
         api'[j] \in {"new", "looked"} => api[j] \in {"new", "looked"},
         \A m : m.job = j => (m \in started <=> m \in started'),
         \A m \in queue' : m.job = j => m \in queue,
         \A w \in Workers :
           \/ pc'[w] = pc[w] /\ msg'[w] = msg[w]
           \/ pc'[w] \in {"idle", "return", "ack"}
           \/ msg'[w].job # j
           \/ pc[w] \in Working /\ pc'[w] \in Working /\ msg'[w] = msg[w]
  PROVE  Progress(j)'
<1>1. \A n : UpTo(j, n) => UpTo(j, n)'
  BY DEF UpTo
<1>2. \A m : Waits(j, m) => Waits(j, m)'
  BY <1>1 DEF Waits
<1>3. ASSUME NEW w \in Workers PROVE Reports(j, w)'
  <2>1. Reports(j, w)
    BY DEF Progress
  <2>2. CASE pc'[w] = pc[w] /\ msg'[w] = msg[w]
    BY <1>1, <1>2, <2>1, <2>2 DEF Reports
  <2>3. CASE pc[w] \in Working /\ pc'[w] \in Working /\ msg'[w] = msg[w]
    BY <1>1, <2>1, <2>3 DEF Reports, Working
  <2>4. CASE pc'[w] \in {"idle", "return", "ack"} \/ msg'[w].job # j
    BY <2>4 DEF Reports, Working
  <2> QED
    BY <2>2, <2>3, <2>4
<1>4. \A m \in queue' : m.job = j => Waits(j, m)'
  BY <1>2 DEF Progress
<1>5. /\ api'[j] = "recorded" => record'[j].status = "queued"
      /\ api'[j] \in {"new", "looked", "recorded"} => UpTo(j, 0)'
  BY <1>1 DEF Progress
<1> QED
  BY <1>3, <1>4, <1>5 DEF Progress

(* An unpublished job has no message and no worker to account for. *)
LEMMA ProgressUnpublished ==
  ASSUME NEW j \in Jobs, Unpublished(j), Progress(j), UNCHANGED <<queue, pc, msg, started>>,
         api'[j] = "recorded" => record'[j].status = "queued",
         api'[j] \in {"new", "looked", "recorded"} => api[j] \in {"new", "looked", "recorded"}
  PROVE  Progress(j)'
<1>1. UpTo(j, 0) => UpTo(j, 0)'
  BY DEF UpTo
<1> QED
  BY <1>1 DEF Unpublished, Progress, Reports

LEMMA HandlerProgress ==
  ASSUME Quiet, RecordInv, [Next]_vars, NEW j \in Jobs, Progress(j),
         NEW i \in Jobs, LookupCache(i) \/ Handler(i) \/ ApiCrash(i)
  PROVE  Progress(j)'
<1>0. TypeOK /\ NothingBeforePublish
  BY DEF RecordInv
<1>1. UNCHANGED <<pc, msg, started>>
  BY DEF LookupCache, Handler, ServeHit, RecordQueued, Enqueue, ApiCrash, taskVars, history
<1>2. CASE i # j
  <2>1. record'[j] = record[j] /\ api'[j] = api[j]
    BY <1>0, <1>2, QuietWrite
    DEF LookupCache, Handler, ServeHit, RecordQueued, Enqueue, ApiCrash, redisVars, TypeOK
  <2>2. \A m \in queue' : m.job = j => m \in queue
    BY <1>2 DEF LookupCache, Handler, ServeHit, RecordQueued, Enqueue, ApiCrash, brokerVars, First
  <2> QED
    BY <1>1, <2>1, <2>2, ProgressElsewhere
<1>3. CASE i = j /\ (LookupCache(j) \/ ApiCrash(j))
  <2>1. /\ UNCHANGED <<record, queue>>
        /\ \/ api[j] = "new" /\ api'[j] = "looked"
           \/ api'[j] = "refused"
    BY <1>0, <1>3 DEF LookupCache, ApiCrash, redisVars, brokerVars, TypeOK
  <2> QED
    BY <1>1, <2>1, ProgressElsewhere
<1>4. CASE i = j /\ (ServeHit(j) \/ RecordQueued(j))
  <2>1. /\ UNCHANGED queue /\ api[j] = "looked"
        /\ \/ api'[j] = "served"
           \/ api'[j] = "recorded" /\ record'[j] = Rec("queued")
    BY <1>0, <1>4, QuietWrite DEF ServeHit, RecordQueued, brokerVars, TypeOK
  <2>2. Unpublished(j)
    BY <1>0, <2>1 DEF NothingBeforePublish
  <2>3. Rec("queued").status = "queued"
    BY DEF Rec
  <2> QED
    BY <1>1, <1>4, <2>1, <2>2, <2>3, ProgressUnpublished
<1>5. CASE i = j /\ Enqueue(j)
  <2>1. /\ api[j] = "recorded" /\ api'[j] = "accepted" /\ UNCHANGED record
        /\ queue' = queue \cup {First(j)}
    BY <1>0, <1>5 DEF Enqueue, redisVars, TypeOK, Quiet
  <2>2. Unpublished(j) /\ record[j].status = "queued" /\ UpTo(j, 0)
    BY <1>0, <2>1 DEF NothingBeforePublish, Progress
  <2>3. First(j).tries = 0 /\ UpTo(j, 0)'
    BY <1>1, <2>2 DEF First, UpTo
  <2>4. Waits(j, First(j))'
    <3>1. record'[j].status = "queued"
      BY <2>1, <2>2
    <3> QED
      BY <2>3, <3>1 DEF Waits, UpTo, First
  <2>5. \A m \in queue' : m.job = j => m = First(j)
    BY <2>1, <2>2 DEF Unpublished
  <2>6. \A w \in Workers : pc'[w] # "idle" => msg'[w].job # j
    BY <1>1, <2>2 DEF Unpublished
  <2> QED
    BY <2>1, <2>4, <2>5, <2>6 DEF Progress, Reports
<1> QED
  BY <1>2, <1>3, <1>4, <1>5 DEF Handler

LEMMA DeliverProgress ==
  ASSUME TypeOK, NEW j \in Jobs, Progress(j), NEW w \in Workers, NEW m \in queue, Deliver(w, m)
  PROVE  Progress(j)'
<1>1. /\ UNCHANGED <<api, record, started>> /\ queue' = queue \ {m}
      /\ pc'[w] = "received" /\ msg'[w] = m
      /\ \A v \in Workers \ {w} : pc'[v] = pc[v] /\ msg'[v] = msg[v]
  BY DEF Deliver, Goto, apiVars, redisVars, history, TypeOK
<1>2. CASE m.job # j
  BY <1>1, <1>2, ProgressElsewhere
<1>3. CASE m.job = j
  <2>1. Waits(j, m)
    BY <1>3 DEF Progress
  <2>2. \A n : Waits(j, n) <=> Waits(j, n)'
    BY <1>1 DEF Waits, UpTo
  <2>3. \A n : UpTo(j, n) <=> UpTo(j, n)'
    BY <1>1 DEF UpTo
  <2>4. Reports(j, w)'
    BY <1>1, <2>1, <2>2 DEF Reports, Working
  <2>5. \A v \in Workers \ {w} : Reports(j, v)'
    BY <1>1, <2>2, <2>3 DEF Progress, Reports
  <2>6. \A n \in queue' : n.job = j => Waits(j, n)'
    BY <1>1, <2>2 DEF Progress
  <2> QED
    BY <1>1, <2>3, <2>4, <2>5, <2>6 DEF Progress
<1> QED
  BY <1>2, <1>3

(* The only carrier of a job: no other message or worker has a claim. *)
LEMMA OnlyCarrier ==
  ASSUME NothingBeforePublish, NEW j \in Jobs, AtMostOne(j), NEW w \in Workers, Executing(w, j)
  PROVE  /\ \A m \in queue : m.job # j
         /\ \A v \in Workers \ {w} : pc[v] \in {"idle", "ack"} \/ msg[v].job # j
         /\ api[j] \notin {"new", "looked", "recorded"}
<1>1. /\ \A m \in queue : m.job # j
      /\ \A v \in Workers \ {w} : pc[v] \in {"idle", "ack"} \/ msg[v].job # j
  BY DEF AtMostOne, Executing
<1>2. api[j] \notin {"new", "looked", "recorded"}
  BY DEF Executing, NothingBeforePublish, Unpublished
<1> QED
  BY <1>1, <1>2

LEMMA TaskProgress ==
  ASSUME Quiet, TypeOK, NothingBeforePublish, NEW j \in Jobs, AtMostOne(j), Progress(j),
         NEW w \in Workers, Task(w)
  PROVE  Progress(j)'
<1>1. pc[w] # "idle" /\ msg[w] \in Msg /\ msg[w].job \in Jobs
  <2>1. pc[w] # "idle"
    BY DEF Task, MarkProcessing, Synthesise, SynthesisRaises, Upload, StoreResult, RecordFailed,
           Retry, Acknowledge
  <2> QED
    BY <2>1, BusyHolds
<1>2. api' = api
  BY DEF Task, MarkProcessing, Synthesise, SynthesisRaises, Upload, StoreResult, RecordFailed,
         Retry, Acknowledge, apiVars
<1>3. \A v \in Workers \ {w} : pc'[v] = pc[v] /\ msg'[v] = msg[v]
  BY DEF Task, MarkProcessing, Synthesise, SynthesisRaises, Upload, StoreResult, RecordFailed,
         Retry, Acknowledge, Drop, Goto, TypeOK
<1>4. /\ [msg[w] EXCEPT !.tries = @ + 1].job = msg[w].job
      /\ [msg[w] EXCEPT !.tries = @ + 1].tries = msg[w].tries + 1
  BY <1>1 DEF Msg
<1>5. CASE msg[w].job # j
  <2>1. record'[j] = record[j]
    BY <1>1, <1>5, QuietWrite
    DEF Task, MarkProcessing, Synthesise, SynthesisRaises, Upload, StoreResult, RecordFailed,
        Retry, Acknowledge, redisVars
  <2>2. started' = started \/ started' = started \cup {msg[w]}
    BY DEF Task, MarkProcessing, Synthesise, SynthesisRaises, Upload, StoreResult, RecordFailed,
           Retry, Acknowledge, history
  <2>3. queue' = queue \/ queue' = queue \cup {[msg[w] EXCEPT !.tries = @ + 1]}
    BY DEF Task, MarkProcessing, Synthesise, SynthesisRaises, Upload, StoreResult, RecordFailed,
           Retry, Acknowledge, brokerVars
  <2>4. msg'[w] = msg[w] \/ pc'[w] = "idle"
    BY DEF Task, MarkProcessing, Synthesise, SynthesisRaises, Upload, StoreResult, RecordFailed,
           Retry, Acknowledge, Drop, Goto, TypeOK
  <2>5. /\ \A m : m.job = j => (m \in started <=> m \in started')
        /\ \A m \in queue' : m.job = j => m \in queue
    BY <1>4, <1>5, <2>2, <2>3
  <2> QED
    BY <1>2, <1>3, <1>5, <2>1, <2>4, <2>5, ProgressElsewhere
<1>6. CASE msg[w].job = j /\ pc[w] \notin {"return", "ack"}
  <2>0. /\ \A m \in queue : m.job # j
        /\ \A v \in Workers \ {w} : pc[v] \in {"idle", "ack"} \/ msg[v].job # j
        /\ api'[j] \notin {"new", "looked", "recorded"}
    BY <1>1, <1>2, <1>6, OnlyCarrier DEF Executing
  <2>1. \A v \in Workers \ {w} : Reports(j, v)'
    BY <1>3, <2>0 DEF Reports, Working
  <2>2. ASSUME queue' = queue, Reports(j, w)' PROVE Progress(j)'
    BY <2>0, <2>1, <2>2 DEF Progress
  <2>3. Reports(j, w)
    BY DEF Progress
  <2>4. CASE MarkProcessing(w)
    <3>1. /\ pc[w] = "received" /\ pc'[w] = "synth" /\ UNCHANGED <<queue, msg>>
          /\ started' = started \cup {msg[w]} /\ record'[j] = Rec("processing")
      BY <1>6, <2>4, QuietWrite DEF MarkProcessing, Goto, brokerVars, TypeOK
    <3>2. UpTo(j, msg[w].tries)
      BY <1>6, <2>3, <3>1 DEF Reports, Waits
    <3>3. msg[w].tries \in 0 .. MaxRetries
      BY <1>1 DEF Msg
    <3>4. UpTo(j, msg[w].tries + 1)'
      BY <1>6, <3>1, <3>2, <3>3 DEF UpTo
    <3>5. Rec("processing").status = "processing"
      BY DEF Rec
    <3> QED
      BY <2>2, <3>1, <3>4, <3>5 DEF Reports, Working
  <2>5. CASE Synthesise(w) \/ SynthesisRaises(w) \/ Upload(w)
    <3>1. /\ pc[w] \in Working /\ pc'[w] \in Working
          /\ UNCHANGED <<queue, msg, record, started>>
      BY <2>5
      DEF Synthesise, SynthesisRaises, Upload, Goto, brokerVars, redisVars, history, TypeOK, Working
    <3> QED
      BY <1>2, <1>3, <3>1, ProgressElsewhere
  <2>6. CASE StoreResult(w)
    <3>1. pc'[w] = "return" /\ queue' = queue
      BY <2>6 DEF StoreResult, Goto, brokerVars, TypeOK
    <3> QED
      BY <2>2, <3>1 DEF Reports, Working
  <2>7. CASE RecordFailed(w)
    <3>1. /\ pc[w] = "except" /\ pc'[w] = "retry" /\ UNCHANGED <<queue, msg, started>>
          /\ record'[j] = Rec("failed")
      BY <1>6, <2>7, QuietWrite DEF RecordFailed, Goto, brokerVars, history, TypeOK
    <3>2. UpTo(j, msg[w].tries + 1)
      BY <1>6, <2>3, <3>1 DEF Reports, Working
    <3>3. UpTo(j, msg[w].tries + 1)'
      BY <3>1, <3>2 DEF UpTo
    <3>4. Rec("failed").status = "failed"
      BY DEF Rec
    <3> QED
      BY <2>2, <3>1, <3>3, <3>4 DEF Reports, Working
  <2>8. CASE Retry(w)
    <3>1. /\ pc[w] = "retry" /\ pc'[w] = "ack" /\ UNCHANGED <<msg, record, started>>
          /\ queue' = queue \/ queue' = queue \cup {[msg[w] EXCEPT !.tries = @ + 1]}
      BY <2>8 DEF Retry, Goto, redisVars, history, TypeOK
    <3>2. record[j].status = "failed" /\ UpTo(j, msg[w].tries + 1)
      BY <1>6, <2>3, <3>1 DEF Reports, Working
    <3>3. Waits(j, [msg[w] EXCEPT !.tries = @ + 1])'
      <4>1. record'[j].status = "failed" /\ UpTo(j, msg[w].tries + 1)'
        BY <3>1, <3>2 DEF UpTo
      <4> QED
        BY <1>4, <3>1, <4>1 DEF Waits, UpTo
    <3>4. \A m \in queue' : m.job = j => Waits(j, m)'
      BY <2>0, <3>1, <3>3
    <3>5. Reports(j, w)'
      BY <3>1 DEF Reports, Working
    <3> QED
      BY <2>0, <2>1, <3>4, <3>5 DEF Progress
  <2> QED
    BY <1>6, <2>4, <2>5, <2>6, <2>7, <2>8 DEF Task, Acknowledge
<1>7. CASE pc[w] \in {"return", "ack"}
  <2>1. UNCHANGED <<record, queue, started>> /\ pc'[w] = "idle"
    BY <1>7
    DEF Task, MarkProcessing, Synthesise, SynthesisRaises, Upload, StoreResult, RecordFailed,
        Retry, Acknowledge, Drop, Goto, redisVars, history, TypeOK
  <2> QED
    BY <1>2, <1>3, <2>1, ProgressElsewhere
<1> QED
  BY <1>5, <1>6, <1>7

ContractInv == RecordInv /\ OneCarrier /\ QuietInv

(* Whatever is on its way to Redis was blamed on somebody. *)
LEMMA NothingDelayed == ContractInv => delayed = {}
  BY DEF ContractInv, RecordInv, QuietInv, TypeOK, DelayedBlamed, Write

LEMMA ContractInvAlways ==
  ASSUME Quiet
  PROVE  Spec => []ContractInv
<1>1. Init => ContractInv
  BY TypeInit
  DEF Init, ContractInv, RecordInv, NothingBeforePublish, Unpublished, DelayedBlamed, NoRecordYet,
      LostHasCause, ServedHasResult, OneCarrier, AtMostOne, Executing, QuietInv, Progress, Reports, UpTo,
      Working, Absent, Rec
<1>2. ContractInv /\ [Next]_vars => ContractInv'
  <2> SUFFICES ASSUME ContractInv, [Next]_vars PROVE ContractInv'
    OBVIOUS
  <2> USE DEF ContractInv
  <2>1. TypeOK /\ NothingBeforePublish /\ delayed = {}
    BY NothingDelayed DEF RecordInv
  <2>2. RecordInv' /\ OneCarrier'
    BY <2>1, RecordInvNext, OneCarrierNext
  <2>3. \A j \in Jobs : mishap'[j] = {}
    BY <2>1, UnblamedNext DEF QuietInv
  <2>4. ASSUME NEW j \in Jobs PROVE Progress(j)'
    <3>1. Progress(j) /\ AtMostOne(j)
      BY DEF QuietInv, OneCarrier
    <3>2. CASE \E i \in Jobs : LookupCache(i) \/ Handler(i) \/ ApiCrash(i)
      BY <3>1, <3>2, HandlerProgress
    <3>3. CASE \E w \in Workers : Task(w)
      BY <2>1, <3>1, <3>3, TaskProgress
    <3>4. CASE \E w \in Workers, m \in queue : Deliver(w, m)
      BY <2>1, <3>1, <3>4, DeliverProgress
    <3>5. CASE UNCHANGED <<api, record, queue, pc, msg, started, mishap>>
      BY <3>1, <3>5, ProgressElsewhere
    <3> QED
      BY <2>1, <3>2, <3>3, <3>4, <3>5, QuietSteps
  <2> QED
    BY <2>2, <2>3, <2>4 DEF QuietInv
<1> QED
  BY <1>1, <1>2, PTL DEF Spec

(* The initial states and the steps, seen through the refinement mapping.  *)
LEMMA ContractInit == Init => Contract!Init
<1> SUFFICES ASSUME Init PROVE Contract!Init
  OBVIOUS
<1>1. [j \in Jobs |-> record[j].status] = [j \in Jobs |-> "absent"]
  BY DEF Init, Absent, Rec
<1>2. [j \in Jobs |-> {t \in 0 .. MaxRetries : \E m \in started : m.job = j /\ m.tries = t}]
        = [j \in Jobs |-> {}]
  BY DEF Init
<1>3. [j \in Jobs |-> api[j] = "accepted"] = [j \in Jobs |-> FALSE]
  BY DEF Init
<1> QED
  BY <1>1, <1>2, <1>3 DEF Contract!Init

LEMMA ContractStutter ==
  ASSUME \A j \in Jobs : /\ record'[j].status = record[j].status
                         /\ api'[j] = "accepted" <=> api[j] = "accepted",
         started' = started
  PROVE  UNCHANGED Contract!vars
  BY DEF Contract!vars

LEMMA ContractGoto ==
  ASSUME NEW j \in Jobs, NEW from, NEW to, record[j].status \in from, record'[j].status = to,
         \A i \in Jobs \ {j} : record'[i].status = record[i].status
  PROVE  Contract!Goto(j, from, to)
  BY DEF Contract!Goto

LEMMA SubmitImplements ==
  ASSUME Quiet, RecordInv, NEW j \in Jobs, ServeHit(j) \/ RecordQueued(j)
  PROVE  Contract!Submit(j)
<1>1. TypeOK /\ record[j].status = "absent"
  BY DEF RecordInv, NoRecordYet, ServeHit, RecordQueued, Absent, Rec
<1>2. /\ \A i \in Jobs \ {j} : record'[i].status = record[i].status
      /\ record'[j].status \in {"queued", "completed"}
  BY <1>1, QuietWrite DEF ServeHit, RecordQueued, Done, Rec
<1>3. /\ \A i \in Jobs : api'[i] = "accepted" <=> api[i] = "accepted"
      /\ started' = started
  BY <1>1 DEF ServeHit, RecordQueued, history, TypeOK
<1>4. Contract!Goto(j, {"absent"}, "queued") \/ Contract!Goto(j, {"absent"}, "completed")
  BY <1>1, <1>2, ContractGoto
<1> QED
  BY <1>3, <1>4 DEF Contract!Submit

LEMMA AcceptImplements ==
  ASSUME Quiet, ContractInv, NEW j \in Jobs, Enqueue(j)
  PROVE  Contract!Accept(j)
<1>1. TypeOK /\ record[j].status = "queued"
  BY DEF ContractInv, RecordInv, QuietInv, Progress, Enqueue
<1>2. api' = [api EXCEPT ![j] = "accepted"] /\ UNCHANGED <<record, started>>
  BY DEF Quiet, Enqueue, redisVars, history
<1> QED
  BY <1>1, <1>2 DEF Contract!Accept, TypeOK

LEMMA BeginImplements ==
  ASSUME Quiet, ContractInv, NEW w \in Workers, MarkProcessing(w),
         NEW j \in Jobs, msg[w].job = j
  PROVE  Contract!Begin(j)
<1> DEFINE Tries(i) == {u \in 0 .. MaxRetries : \E m \in started : m.job = i /\ m.tries = u}
<1>0. PICK t : t = msg[w].tries
  OBVIOUS
<1>1. TypeOK /\ pc[w] = "received" /\ t \in 0 .. MaxRetries
  BY <1>0, BusyHolds DEF ContractInv, RecordInv, MarkProcessing, Msg
<1>2. record[j].status \in {"queued", "failed"} /\ UpTo(j, t)
  BY <1>0, <1>1 DEF ContractInv, QuietInv, Progress, Reports, Waits
<1>3. /\ \A i \in Jobs \ {j} : record'[i].status = record[i].status
      /\ record'[j].status = "processing"
  BY <1>1, QuietWrite DEF MarkProcessing, Rec
<1>4. Contract!Goto(j, {"queued", "failed"}, "processing")
  BY <1>2, <1>3, ContractGoto
<1>5. started' = started \cup {msg[w]} /\ api' = api
  BY DEF MarkProcessing, apiVars
<1>6. Tries(j) = {u \in 0 .. MaxRetries : u < t}
  BY <1>2 DEF UpTo
<1>7. Tries(j)' = Tries(j) \cup {t}
  BY <1>0, <1>1, <1>5
<1>8. \A i \in Jobs \ {j} : Tries(i)' = Tries(i)
  BY <1>5
<1>9. [i \in Jobs |-> Tries(i)]' = [[i \in Jobs |-> Tries(i)] EXCEPT ![j] = @ \cup {t}]
  <2> HIDE DEF Tries
  <2> QED
    BY <1>7, <1>8
<1>10. [i \in Jobs |-> Tries(i)][j] = {u \in 0 .. MaxRetries : u < t}
  BY <1>6
<1> QED
  BY <1>1, <1>4, <1>5, <1>9, <1>10 DEF Contract!Begin

LEMMA EndImplements ==
  ASSUME Quiet, ContractInv, NEW w \in Workers, StoreResult(w) \/ RecordFailed(w),
         NEW j \in Jobs, msg[w].job = j
  PROVE  Contract!End(j)
<1>1. TypeOK /\ pc[w] \in {"store", "except"}
  BY DEF ContractInv, RecordInv, StoreResult, RecordFailed
<1>2. record[j].status = "processing"
  BY <1>1 DEF ContractInv, QuietInv, Progress, Reports, Working
<1>3. /\ \A i \in Jobs \ {j} : record'[i].status = record[i].status
      /\ record'[j].status \in {"completed", "failed"}
  BY <1>1, QuietWrite DEF StoreResult, RecordFailed, Done, Rec
<1>4. \/ Contract!Goto(j, {"processing"}, "completed")
      \/ Contract!Goto(j, {"processing"}, "failed")
  BY <1>2, <1>3, ContractGoto
<1>5. UNCHANGED <<api, started>>
  BY DEF StoreResult, RecordFailed, apiVars, history
<1> QED
  BY <1>4, <1>5 DEF Contract!End

LEMMA ContractStep ==
  ASSUME Quiet, ContractInv, [Next]_vars
  PROVE  Contract!Next \/ UNCHANGED Contract!vars
<1>0. TypeOK /\ RecordInv /\ delayed = {}
  BY NothingDelayed DEF ContractInv, RecordInv
<1>1. CASE \E j \in Jobs : LookupCache(j) \/ Handler(j) \/ ApiCrash(j)
  <2>1. ASSUME NEW j \in Jobs, LookupCache(j) \/ ApiCrash(j) PROVE UNCHANGED Contract!vars
    BY <1>0, <2>1, ContractStutter DEF LookupCache, ApiCrash, redisVars, history, TypeOK
  <2> QED
    BY <1>0, <1>1, <2>1, SubmitImplements, AcceptImplements DEF Handler, Contract!Next
<1>2. CASE \E w \in Workers : Task(w) \/ \E m \in queue : Deliver(w, m)
  <2>1. ASSUME NEW w \in Workers,
               \/ Synthesise(w) \/ SynthesisRaises(w) \/ Upload(w) \/ Retry(w) \/ Acknowledge(w)
               \/ \E m \in queue : Deliver(w, m)
        PROVE  UNCHANGED Contract!vars
    <3>1. UNCHANGED <<api, record, started>>
      BY <2>1 DEF Synthesise, SynthesisRaises, Upload, Retry, Acknowledge, Deliver,
                  apiVars, redisVars, history
    <3> QED
      BY <3>1, ContractStutter
  <2>2. ASSUME NEW w \in Workers, MarkProcessing(w) \/ StoreResult(w) \/ RecordFailed(w)
        PROVE  Contract!Next
    <3>1. msg[w].job \in Jobs
      BY <1>0, <2>2, BusyHolds DEF MarkProcessing, StoreResult, RecordFailed
    <3> QED
      BY <2>2, <3>1, BeginImplements, EndImplements DEF Contract!Next
  <2> QED
    BY <1>2, <2>1, <2>2 DEF Task
<1>3. CASE UNCHANGED <<api, record, queue, pc, msg, started, mishap>>
  BY <1>3, ContractStutter
<1> QED
  BY <1>0, <1>1, <1>2, <1>3, QuietSteps

(* celery_app.py:71, :130, :148, :153 and :156 against tts.py:88-107: as   *)
(* long as no record operation fails and no message, worker or record is   *)
(* taken away, whatever raises inside a try, a client never sees a status  *)
(* out of order: each job is recorded once by the handler, each execution  *)
(* goes from queued or failed through processing to one outcome, the tries *)
(* are numbered without gaps or repeats, and the last one is MaxRetries.   *)
THEOREM StepsOfContract ==
  ASSUME Quiet
  PROVE  Spec => Contract!Init /\ [][Contract!Next]_Contract!vars
<1>1. ContractInv /\ [Next]_vars => [Contract!Next]_Contract!vars
  BY ContractStep
<1> QED
  BY <1>1, ContractInit, ContractInvAlways, PTL DEF Spec

=============================================================================
