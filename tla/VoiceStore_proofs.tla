-------------------------- MODULE VoiceStore_proofs --------------------------
(***************************************************************************)
(* Proofs about VoiceStore, for any number of workers, files, blocks and   *)
(* attempts: its types, that what is left at rest is complete unless it    *)
(* was interrupted, and that a directory with complete files stays as it   *)
(* is. The invariant needed is LastWriter: an incomplete file has, among   *)
(* the workers that still write to it, one whose whole output is in it.    *)
(***************************************************************************)
EXTENDS VoiceStore, TLAPS

(* The sizes and counts are numbers, and there is a first file. *)
LEMMA Numbers ==
  /\ Files \in Nat /\ 1 \in File /\ \A f \in File : f # Files => f < Files /\ f + 1 \in File
  /\ Size \in Nat /\ \A f \in File : MinSize[f] \in 1 .. Size /\ ScriptMin[f] \in 1 .. Size
  /\ MaxAttempts \in Nat /\ 1 \in 1 .. MaxAttempts /\ MaxMishaps \in Nat
BY FilesAssumption, SizeAssumption, MinimaAssumption, AttemptsAssumption
   DEF File

LEMMA DirectoryTypes ==
  ASSUME TypeOK, NEW f \in File, NEW bs \in SUBSET (1 .. Size)
  PROVE  /\ Put(f, bs) => /\ present' \subseteq File
                          /\ blocks' \in [File -> SUBSET (1 .. Size)]
                          /\ damaged' \subseteq File
         /\ Remove(f) => /\ present' \subseteq File
                         /\ blocks' \in [File -> SUBSET (1 .. Size)]
                         /\ attached' \subseteq Workers
                         /\ damaged' \subseteq File
BY DEF TypeOK, Put, Remove

LEMMA AcceptTypes ==
  ASSUME TypeOK, NEW w \in Workers, NEW from, Accept(w, from)
  PROVE  pc' \in [Workers -> PC] /\ file' \in [Workers -> File]
<1>1. CASE file[w] < Files /\ Step(w, from, "exists") /\ file' = [file EXCEPT ![w] = @ + 1]
  <2>1. file[w] + 1 \in File
    BY <1>1, FilesAssumption DEF TypeOK, File
  <2> QED
    BY <1>1, <2>1 DEF TypeOK, Step, PC
<1>2. CASE Step(w, from, "load") /\ UNCHANGED file
  BY <1>2 DEF TypeOK, Step, PC
<1> QED
  BY <1>1, <1>2 DEF Accept

LEMMA NextRowTypes ==
  ASSUME TypeOK, NextStatus \/ NextRow
  PROVE  script' \in ScriptPC /\ at' \in File
<1>1. at + 1 \in File \/ ~(at < Files)
  BY FilesAssumption DEF TypeOK, File
<1>2. at' \in File
  BY <1>1, Numbers DEF TypeOK, NextStatus, NextRow
<1>3. script' \in ScriptPC
  BY DEF NextStatus, NextRow, ScriptPC
<1> QED
  BY <1>2, <1>3

LEMMA InterruptTypes ==
  ASSUME TypeOK, NEW w \in Workers, Interrupt(w)
  PROVE  mishaps' \in 0 .. MaxMishaps /\ damaged' \subseteq File /\ attached' \subseteq Workers
<1>1. mishaps' \in 0 .. MaxMishaps
  BY Numbers DEF TypeOK, Interrupt
<1>2. damaged' \subseteq File /\ attached' \subseteq Workers
  BY DEF TypeOK, Interrupt
<1> QED
  BY <1>1, <1>2

(* Type correctness: every step keeps every variable of the store in its   *)
(* type.                                                                   *)
THEOREM TypeCorrect == Spec => []TypeOK
<1>1. Init => TypeOK
  BY Numbers DEF Init, TypeOK, PC, ScriptPC
<1>2. TypeOK /\ [Next]_vars => TypeOK'
  <2> SUFFICES ASSUME TypeOK, [Next]_vars PROVE TypeOK'
    OBVIOUS
  <2>1. ASSUME NEW w \in Workers, GetVoice(w) PROVE TypeOK'
    BY <2>1, Numbers DEF TypeOK, GetVoice, Step, Keep, disk, scriptVars, chance, PC
  <2>2. ASSUME NEW w \in Workers, Exists(w) PROVE TypeOK'
    BY <2>2 DEF TypeOK, Exists, Step, Keep, disk, scriptVars, chance, PC
  <2>3. ASSUME NEW w \in Workers, CheckSize(w) PROVE TypeOK'
    <3>1. pc' \in [Workers -> PC] /\ file' \in [Workers -> File]
      <4>1. CASE Accept(w, "size")
        BY <4>1, AcceptTypes
      <4>2. CASE ~Reaches(file[w], MinSize[file[w]])
        BY <2>3, <4>2 DEF TypeOK, CheckSize, Step, PC
      <4> QED
        BY <2>3, <4>1, <4>2 DEF CheckSize
    <3> QED
      BY <2>3, <3>1 DEF TypeOK, CheckSize, Keep, disk, scriptVars, chance
  <2>4. ASSUME NEW w \in Workers, ExistsAgain(w) PROVE TypeOK'
    <3>1. attempt' \in [Workers -> 1 .. MaxAttempts]
      BY <2>4, Numbers DEF TypeOK, ExistsAgain
    <3> QED
      BY <2>4, <3>1 DEF TypeOK, ExistsAgain, Step, disk, scriptVars, chance, PC
  <2>5. ASSUME NEW w \in Workers, Unlink(w) PROVE TypeOK'
    <3>1. file[w] \in File
      BY DEF TypeOK
    <3> QED
      BY <2>5, <3>1, DirectoryTypes DEF TypeOK, Unlink, Step, disk, scriptVars, chance, PC
  <2>6. ASSUME NEW w \in Workers, Open(w) PROVE TypeOK'
    <3>1. file[w] \in File /\ {} \in SUBSET (1 .. Size) /\ 0 \in 0 .. Size
      BY Numbers DEF TypeOK
    <3>2. Put(file[w], {})
      BY <2>6 DEF Open
    <3>3. /\ present' \subseteq File /\ blocks' \in [File -> SUBSET (1 .. Size)]
          /\ damaged' \subseteq File
      BY <3>1, <3>2, DirectoryTypes
    <3> QED
      BY <2>6, <3>1, <3>3 DEF TypeOK, Open, Step, scriptVars, PC
  <2>7. ASSUME NEW w \in Workers, Write(w) PROVE TypeOK'
    <3>1. offset[w] + 1 \in 1 .. Size /\ offset[w] + 1 \in 0 .. Size
      BY <2>7, Numbers DEF TypeOK, Write
    <3>2. offset' \in [Workers -> 0 .. Size]
      BY <2>7, <3>1 DEF TypeOK, Write
    <3>3. blocks' \in [File -> SUBSET (1 .. Size)]
      BY <2>7, <3>1 DEF TypeOK, Write
    <3> QED
      BY <2>7, <3>2, <3>3 DEF TypeOK, Write, scriptVars, chance
  <2>8. ASSUME NEW w \in Workers, Close(w) PROVE TypeOK'
    BY <2>8 DEF TypeOK, Close, Step, scriptVars, chance, PC
  <2>9. ASSUME NEW w \in Workers, CheckDownload(w) PROVE TypeOK'
    <3>1. pc' \in [Workers -> PC] /\ file' \in [Workers -> File]
      <4>1. CASE Accept(w, "stat")
        BY <4>1, AcceptTypes
      <4>2. CASE ~Reaches(file[w], DownloadMin[file[w]])
        BY <2>9, <4>2 DEF TypeOK, CheckDownload, Step, PC
      <4> QED
        BY <2>9, <4>1, <4>2 DEF CheckDownload
    <3> QED
      BY <2>9, <3>1 DEF TypeOK, CheckDownload, Keep, disk, scriptVars, chance
  <2>10. ASSUME NEW w \in Workers, Discard(w) PROVE TypeOK'
    <3>1. file[w] \in File
      BY DEF TypeOK
    <3> QED
      BY <2>10, <3>1, DirectoryTypes DEF TypeOK, Discard, Step, scriptVars, PC
  <2>11. ASSUME NEW w \in Workers, Except(w) PROVE TypeOK'
    <3>1. attempt' \in [Workers -> 1 .. MaxAttempts]
      <4>1. attempt[w] < MaxAttempts => attempt[w] + 1 \in 1 .. MaxAttempts
        BY Numbers DEF TypeOK
      <4> QED
        BY <2>11, <4>1 DEF TypeOK, Except
    <3>2. pc' \in [Workers -> PC]
      BY <2>11 DEF TypeOK, Except, Step, PC
    <3> QED
      BY <2>11, <3>1, <3>2 DEF TypeOK, Except, disk, scriptVars, chance
  <2>12. ASSUME NEW w \in Workers, Load(w) PROVE TypeOK'
    BY <2>12 DEF TypeOK, Load, Step, disk, scriptVars, chance, PC
  <2>13. ASSUME NEW w \in Workers, NetworkFails(w) PROVE TypeOK'
    <3>1. Interrupt(w) /\ pc' \in [Workers -> PC]
      BY <2>13 DEF TypeOK, NetworkFails, Step, PC
    <3> QED
      BY <2>13, <3>1, InterruptTypes DEF TypeOK, NetworkFails, scriptVars
  <2>14. ASSUME NEW w \in Workers, Kill(w) PROVE TypeOK'
    <3>1. Interrupt(w) /\ pc' \in [Workers -> PC] /\ loaded' \subseteq Workers
      BY <2>14 DEF TypeOK, Kill, PC
    <3> QED
      BY <2>14, <3>1, InterruptTypes DEF TypeOK, Kill, scriptVars
  <2>15. CASE ScriptStart
    BY <2>15, Numbers DEF TypeOK, ScriptStart, disk, workerVars, chance, ScriptPC
  <2>16. CASE ScriptExists
    <3>1. script' \in ScriptPC /\ at' \in File
      <4>1. CASE NextStatus
        BY <4>1, NextRowTypes
      <4>2. CASE ScriptStep("exists", "exists2", "size", "size2") /\ UNCHANGED at
        BY <4>2 DEF TypeOK, ScriptStep, ScriptPC
      <4> QED
        BY <2>16, <4>1, <4>2 DEF ScriptExists
    <3>2. notOk' \subseteq File
      BY <2>16 DEF TypeOK, ScriptExists
    <3> QED
      BY <2>16, <3>1, <3>2 DEF TypeOK, ScriptExists, disk, workerVars, chance
  <2>17. CASE ScriptSize
    <3>1. script' \in ScriptPC /\ at' \in File
      <4>1. CASE NextStatus
        BY <4>1, NextRowTypes
      <4>2. CASE script' = "idle" /\ UNCHANGED at
        BY <4>2 DEF TypeOK, ScriptPC
      <4> QED
        BY <2>17, <4>1, <4>2 DEF ScriptSize
    <3>2. notOk' \subseteq File
      BY <2>17 DEF TypeOK, ScriptSize
    <3> QED
      BY <2>17, <3>1, <3>2 DEF TypeOK, ScriptSize, disk, workerVars, chance
  <2>18. CASE ScriptExistsAgain
    <3>1. script' \in ScriptPC /\ at' \in File
      <4>1. CASE NextRow
        BY <4>1, NextRowTypes
      <4>2. CASE ScriptStep("again", "again2", "unlink", "unlink2") /\ UNCHANGED at
        BY <4>2 DEF TypeOK, ScriptStep, ScriptPC
      <4> QED
        BY <2>18, <4>1, <4>2 DEF ScriptExistsAgain
    <3>2. toFix' \subseteq File
      BY <2>18 DEF TypeOK, ScriptExistsAgain
    <3> QED
      BY <2>18, <3>1, <3>2 DEF TypeOK, ScriptExistsAgain, disk, workerVars, chance
  <2>19. CASE ScriptUnlink
    <3>1. script' \in ScriptPC /\ at' \in File
      <4>1. CASE NextRow
        BY <4>1, NextRowTypes
      <4>2. CASE script' = "idle" /\ UNCHANGED at
        BY <4>2 DEF TypeOK, ScriptPC
      <4> QED
        BY <2>19, <4>1, <4>2 DEF ScriptUnlink
    <3>2. /\ present' \subseteq File /\ blocks' \in [File -> SUBSET (1 .. Size)]
          /\ attached' \subseteq Workers /\ damaged' \subseteq File
      BY <2>19, DirectoryTypes DEF TypeOK, ScriptUnlink, disk
    <3>3. toFix' \subseteq File
      BY <2>19 DEF TypeOK, ScriptUnlink
    <3> QED
      BY <2>19, <3>1, <3>2, <3>3 DEF TypeOK, ScriptUnlink, workerVars
  <2>20. ASSUME NEW f \in toFix, ScriptDownload(f) PROVE TypeOK'
    <3>1. f \in File /\ 1 .. Size \in SUBSET (1 .. Size)
      BY DEF TypeOK
    <3>2. /\ present' \subseteq File /\ blocks' \in [File -> SUBSET (1 .. Size)]
          /\ attached' \subseteq Workers /\ damaged' \subseteq File
      <4>1. CASE Put(f, 1 .. Size) /\ attached' = attached \ On(f)
        BY <3>1, <4>1, DirectoryTypes DEF TypeOK
      <4>2. CASE UNCHANGED <<disk, damaged>>
        BY <4>2 DEF TypeOK, disk
      <4> QED
        BY <2>20, <4>1, <4>2 DEF ScriptDownload
    <3> QED
      BY <2>20, <3>2 DEF TypeOK, ScriptDownload, workerVars
  <2>21. CASE ScriptRecheck
    BY <2>21 DEF TypeOK, ScriptRecheck, disk, workerVars, chance, ScriptPC
  <2>22. CASE UNCHANGED vars
    BY <2>22 DEF TypeOK, vars, disk, workerVars, scriptVars, chance
  <2> QED
    BY <2>1, <2>2, <2>3, <2>4, <2>5, <2>6, <2>7, <2>8, <2>9, <2>10, <2>11, <2>12, <2>13, <2>14,
       <2>15, <2>16, <2>17, <2>18, <2>19, <2>20, <2>21, <2>22 DEF Next, Voice, Maintenance
<1> QED
  BY <1>1, <1>2, PTL DEF Spec

(***************************************************************************)
(* The last writer.                                                        *)
(***************************************************************************)

(* Only a worker that writes is attached, and only to a file that is there. *)
Attachment ==
  \A w \in attached : w \in Workers /\ pc[w] = "write" /\ file[w] \in present

(* An incomplete file has a writer all of whose blocks are in it, unless a *)
(* download of it was interrupted.                                         *)
Intact(f) == \E w \in attached : file[w] = f /\ 1 .. offset[w] \subseteq blocks[f]

LastWriter == \A f \in present : Complete(f) \/ f \in damaged \/ Intact(f)

Rest == TypeOK /\ Attachment /\ LastWriter

(* Opening, and a worker that stops writing. *)
LEMMA OpenKeeps ==
  ASSUME Rest, NEW w \in Workers, Open(w)
  PROVE  (Attachment /\ LastWriter)'
<1>1. w \notin attached /\ file[w] \in File
  BY DEF Rest, TypeOK, Attachment, Open, Step
<1>2. Attachment'
  BY <1>1 DEF Rest, TypeOK, Attachment, Open, Put, Step
<1>3. Intact(file[w])'
  <2>1. offset'[w] = 0 /\ w \in attached' /\ file' = file
    BY DEF Rest, TypeOK, Open
  <2>2. 1 .. offset'[w] = {}
    BY <2>1
  <2> QED
    BY <2>1, <2>2 DEF Intact
<1>4. ASSUME NEW f \in present', f # file[w] PROVE (Complete(f) \/ f \in damaged \/ Intact(f))'
  <2>1. f \in present /\ blocks'[f] = blocks[f] /\ (f \in damaged => f \in damaged')
    BY <1>1, <1>4 DEF Rest, TypeOK, Open, Put
  <2>2. ASSUME NEW v \in attached, file[v] = f
        PROVE  v \in attached' /\ file'[v] = f /\ offset'[v] = offset[v]
    BY <1>1, <1>4, <2>2 DEF Rest, TypeOK, Open
  <2> QED
    BY <2>1, <2>2 DEF Rest, LastWriter, Complete, Intact
<1> QED
  BY <1>2, <1>3, <1>4 DEF LastWriter, Open, Put

LEMMA WriteKeeps ==
  ASSUME Rest, NEW w \in Workers, Write(w)
  PROVE  (Attachment /\ LastWriter)'
<1>1. Attachment'
  BY DEF Rest, TypeOK, Attachment, Write
<1>2. CASE w \notin attached
  <2>1. \A v \in attached : offset'[v] = offset[v]
    BY <1>2 DEF Rest, TypeOK, Attachment, Write
  <2>2. /\ blocks' = blocks /\ attached' = attached /\ file' = file
        /\ present' = present /\ damaged' = damaged
    BY <1>2 DEF Write, chance
  <2> QED
    BY <1>1, <2>1, <2>2 DEF Rest, LastWriter, Complete, Intact
<1>3. CASE w \in attached
  <2> DEFINE g == file[w]
  <2>1. /\ attached' = attached /\ file' = file /\ present' = present /\ damaged' = damaged
        /\ blocks'[g] = blocks[g] \cup {offset[w] + 1}
        /\ \A f \in File : f # g => blocks'[f] = blocks[f]
        /\ offset'[w] = offset[w] + 1
        /\ \A v \in Workers : v # w => offset'[v] = offset[v]
        /\ offset[w] \in Nat /\ offset[w] + 1 \in 1 .. Size /\ g \in File
    BY <1>3, Numbers DEF Rest, TypeOK, Write, chance
  <2>2. ASSUME NEW f \in present, Complete(f) PROVE Complete(f)'
    BY <2>1, <2>2 DEF Rest, TypeOK, Complete
  <2>3. ASSUME NEW f \in present, NEW v \in attached, file[v] = f, 1 .. offset[v] \subseteq blocks[f]
        PROVE  1 .. offset'[v] \subseteq blocks'[f]
    <3>1. CASE v = w
      <4>1. 1 .. offset[w] + 1 \subseteq (1 .. offset[w]) \cup {offset[w] + 1}
        BY <2>1
      <4> QED
        BY <2>1, <2>3, <3>1, <4>1
    <3>2. CASE v # w
      <4>1. offset'[v] = offset[v] /\ blocks[f] \subseteq blocks'[f]
        BY <2>1, <3>2 DEF Rest, TypeOK
      <4> QED
        BY <2>3, <4>1
    <3> QED
      BY <3>1, <3>2
  <2>4. ASSUME NEW f \in present, Intact(f) PROVE Intact(f)'
    BY <2>1, <2>3, <2>4 DEF Intact
  <2> QED
    BY <1>1, <2>1, <2>2, <2>4 DEF Rest, LastWriter
<1> QED
  BY <1>2, <1>3

LEMMA CloseKeeps ==
  ASSUME Rest, NEW w \in Workers, Close(w)
  PROVE  (Attachment /\ LastWriter)'
<1>1. Attachment'
  BY DEF Rest, TypeOK, Attachment, Close, Step
<1>2. /\ attached' = attached \ {w} /\ file' = file /\ offset' = offset /\ blocks' = blocks
      /\ present' = present /\ damaged' = damaged /\ offset[w] = Size
  BY DEF Close, chance
<1>3. ASSUME NEW f \in present, Intact(f) PROVE Complete(f) \/ Intact(f)'
  <2>1. PICK v \in attached : file[v] = f /\ 1 .. offset[v] \subseteq blocks[f]
    BY <1>3 DEF Intact
  <2>2. CASE v = w
    BY <1>2, <2>1, <2>2 DEF Rest, TypeOK, Complete
  <2>3. CASE v # w
    BY <1>2, <2>1, <2>3 DEF Intact
  <2> QED
    BY <2>2, <2>3
<1> QED
  BY <1>1, <1>2, <1>3 DEF Rest, LastWriter, Complete

(* A worker that stops writing half-way leaves a file that is marked. *)
LEMMA InterruptKeeps ==
  ASSUME Rest, NEW w \in Workers, Interrupt(w), UNCHANGED <<present, blocks, file, offset>>
  PROVE  LastWriter'
<1>1. ASSUME NEW f \in present, Intact(f) PROVE f \in damaged' \/ Intact(f)'
  <2>1. PICK v \in attached : file[v] = f /\ 1 .. offset[v] \subseteq blocks[f]
    BY <1>1 DEF Intact
  <2>2. CASE v = w
    BY <2>1, <2>2 DEF Interrupt
  <2>3. CASE v # w
    BY <2>1, <2>3 DEF Interrupt, Intact
  <2> QED
    BY <2>2, <2>3
<1>2. damaged \subseteq damaged'
  BY DEF Interrupt
<1> QED
  BY <1>1, <1>2 DEF Rest, LastWriter, Complete

(* Removing a file detaches all who write to it, and nobody else. *)
LEMMA RemoveKeeps ==
  ASSUME Rest, NEW f \in File, Remove(f), UNCHANGED <<file, offset>>,
         \A w \in attached' : pc'[w] = pc[w]
  PROVE  (Attachment /\ LastWriter)'
<1>1. Attachment'
  BY DEF Rest, TypeOK, Attachment, Remove, On
<1>2. ASSUME NEW g \in present' PROVE (Complete(g) \/ g \in damaged \/ Intact(g))'
  <2>1. g \in present /\ g # f /\ blocks'[g] = blocks[g] /\ (g \in damaged => g \in damaged')
    BY <1>2 DEF Rest, TypeOK, Remove
  <2>2. \A v \in attached : file[v] = g => v \in attached'
    BY <2>1 DEF Remove, On
  <2> QED
    BY <2>1, <2>2 DEF Rest, LastWriter, Complete, Intact
<1> QED
  BY <1>1, <1>2 DEF LastWriter

(* The script puts a complete file in its place. *)
LEMMA ReplaceKeeps ==
  ASSUME Rest, NEW f \in File, Put(f, 1 .. Size), attached' = attached \ On(f),
         UNCHANGED <<file, offset, pc>>
  PROVE  (Attachment /\ LastWriter)'
<1>1. Attachment'
  BY DEF Rest, TypeOK, Attachment, Put, On
<1>2. ASSUME NEW g \in present' PROVE (Complete(g) \/ g \in damaged \/ Intact(g))'
  <2>1. CASE g = f
    BY <2>1 DEF Rest, TypeOK, Put, Complete
  <2>2. CASE g # f
    <3>1. g \in present /\ blocks'[g] = blocks[g] /\ (g \in damaged => g \in damaged')
      BY <1>2, <2>2 DEF Rest, TypeOK, Put
    <3>2. \A v \in attached : file[v] = g => v \in attached'
      BY <2>2 DEF On
    <3> QED
      BY <3>1, <3>2 DEF Rest, LastWriter, Complete, Intact
  <2> QED
    BY <2>1, <2>2
<1> QED
  BY <1>1, <1>2 DEF LastWriter

(* A step that leaves the directory alone, and the workers that write.     *)
LEMMA ElsewhereKeeps ==
  ASSUME Rest, UNCHANGED <<disk, offset, damaged>>,
         \A w \in attached : pc'[w] = pc[w] /\ file'[w] = file[w]
  PROVE  (Attachment /\ LastWriter)'
<1>1. Attachment'
  BY DEF Rest, Attachment, disk
<1>2. LastWriter'
  BY DEF Rest, LastWriter, Complete, Intact, disk
<1> QED
  BY <1>1, <1>2

(* RestsComplete: however the workers and the script delete, truncate and  *)
(* write each other's files, a file that nobody writes to is complete,     *)
(* unless a download of it was interrupted.                                *)
THEOREM CompleteAtRest == Spec => []RestsComplete
<1>1. Init => Attachment /\ LastWriter
  BY DEF Init, Attachment, LastWriter
<1>2. Rest /\ [Next]_vars => (Attachment /\ LastWriter)'
  <2> SUFFICES ASSUME Rest, [Next]_vars PROVE (Attachment /\ LastWriter)'
    OBVIOUS
  <2> USE DEF Step
  <2>1. ASSUME NEW w \in Workers, GetVoice(w) PROVE (Attachment /\ LastWriter)'
    BY <2>1, ElsewhereKeeps DEF Rest, TypeOK, Attachment, GetVoice, Keep, chance
  <2>2. ASSUME NEW w \in Workers, Exists(w) PROVE (Attachment /\ LastWriter)'
    BY <2>2, ElsewhereKeeps DEF Rest, TypeOK, Attachment, Exists, Keep, chance
  <2>3. ASSUME NEW w \in Workers, CheckSize(w) PROVE (Attachment /\ LastWriter)'
    BY <2>3, ElsewhereKeeps DEF Rest, TypeOK, Attachment, CheckSize, Accept, Keep, chance
  <2>4. ASSUME NEW w \in Workers, ExistsAgain(w) PROVE (Attachment /\ LastWriter)'
    BY <2>4, ElsewhereKeeps DEF Rest, TypeOK, Attachment, ExistsAgain, chance
  <2>5. ASSUME NEW w \in Workers, Unlink(w) PROVE (Attachment /\ LastWriter)'
    <3>1. file[w] \in File /\ w \notin attached /\ \A v \in attached : pc'[v] = pc[v]
      BY <2>5 DEF Rest, TypeOK, Attachment, Unlink
    <3>2. CASE Remove(file[w])
      <4>1. \A v \in attached' : pc'[v] = pc[v]
        BY <3>1, <3>2 DEF Remove
      <4> QED
        BY <2>5, <3>1, <3>2, <4>1, RemoveKeeps DEF Unlink
    <3>3. CASE UNCHANGED <<disk, damaged>>
      BY <2>5, <3>1, <3>3, ElsewhereKeeps DEF Unlink
    <3> QED
      BY <2>5, <3>2, <3>3 DEF Unlink
  <2>6. ASSUME NEW w \in Workers, Open(w) PROVE (Attachment /\ LastWriter)'
    BY <2>6, OpenKeeps
  <2>7. ASSUME NEW w \in Workers, Write(w) PROVE (Attachment /\ LastWriter)'
    BY <2>7, WriteKeeps
  <2>8. ASSUME NEW w \in Workers, Close(w) PROVE (Attachment /\ LastWriter)'
    BY <2>8, CloseKeeps
  <2>9. ASSUME NEW w \in Workers, CheckDownload(w) PROVE (Attachment /\ LastWriter)'
    BY <2>9, ElsewhereKeeps DEF Rest, TypeOK, Attachment, CheckDownload, Accept, Keep, chance
  <2>10. ASSUME NEW w \in Workers, Discard(w) PROVE (Attachment /\ LastWriter)'
    <3>1. file[w] \in File /\ w \notin attached
      BY <2>10 DEF Rest, TypeOK, Attachment, Discard
    <3>2. \A v \in attached' : pc'[v] = pc[v]
      BY <2>10, <3>1 DEF Rest, TypeOK, Discard, Remove
    <3> QED
      BY <2>10, <3>1, <3>2, RemoveKeeps DEF Discard
  <2>11. ASSUME NEW w \in Workers, Except(w) PROVE (Attachment /\ LastWriter)'
    BY <2>11, ElsewhereKeeps DEF Rest, TypeOK, Attachment, Except, chance
  <2>12. ASSUME NEW w \in Workers, Load(w) PROVE (Attachment /\ LastWriter)'
    BY <2>12, ElsewhereKeeps DEF Rest, TypeOK, Attachment, Load, chance
  <2>13. ASSUME NEW w \in Workers, NetworkFails(w) PROVE (Attachment /\ LastWriter)'
    <3>1. LastWriter'
      BY <2>13, InterruptKeeps DEF NetworkFails
    <3>2. Attachment'
      BY <2>13 DEF Rest, TypeOK, Attachment, NetworkFails, Interrupt
    <3> QED
      BY <3>1, <3>2
  <2>14. ASSUME NEW w \in Workers, Kill(w) PROVE (Attachment /\ LastWriter)'
    <3>1. LastWriter'
      BY <2>14, InterruptKeeps DEF Kill
    <3>2. Attachment'
      BY <2>14 DEF Rest, TypeOK, Attachment, Kill, Interrupt
    <3> QED
      BY <3>1, <3>2
  <2>15. CASE ScriptStart \/ ScriptExists \/ ScriptSize \/ ScriptExistsAgain \/ ScriptRecheck
    BY <2>15, ElsewhereKeeps
       DEF ScriptStart, ScriptExists, ScriptSize, ScriptExistsAgain, ScriptRecheck, workerVars, chance
  <2>16. CASE ScriptUnlink
    <3>1. at \in File
      BY DEF Rest, TypeOK
    <3>2. CASE Remove(at)
      BY <2>16, <3>1, <3>2, RemoveKeeps DEF ScriptUnlink, workerVars
    <3>3. CASE UNCHANGED <<disk, damaged>>
      BY <2>16, <3>3, ElsewhereKeeps DEF ScriptUnlink, workerVars
    <3> QED
      BY <2>16, <3>2, <3>3 DEF ScriptUnlink
  <2>17. ASSUME NEW f \in toFix, ScriptDownload(f) PROVE (Attachment /\ LastWriter)'
    <3>1. f \in File
      BY DEF Rest, TypeOK
    <3>2. CASE Put(f, 1 .. Size) /\ attached' = attached \ On(f)
      BY <2>17, <3>1, <3>2, ReplaceKeeps DEF ScriptDownload, workerVars
    <3>3. CASE UNCHANGED <<disk, damaged>>
      BY <2>17, <3>3, ElsewhereKeeps DEF ScriptDownload, workerVars
    <3> QED
      BY <2>17, <3>2, <3>3 DEF ScriptDownload
  <2>18. CASE UNCHANGED vars
    BY <2>18, ElsewhereKeeps DEF vars, workerVars, chance
  <2> QED
    BY <2>1, <2>2, <2>3, <2>4, <2>5, <2>6, <2>7, <2>8, <2>9, <2>10, <2>11, <2>12, <2>13, <2>14,
       <2>15, <2>16, <2>17, <2>18 DEF Next, Voice, Maintenance
<1>3. Attachment /\ LastWriter => RestsComplete
  BY DEF LastWriter, RestsComplete, Intact, Writers
<1> QED
  BY <1>1, <1>2, <1>3, TypeCorrect, PTL DEF Spec, Rest

(* StaysSatisfied: once both files are complete and no process at work has *)
(* found one missing before, no worker and no run of the script touches    *)
(* them again.                                                             *)
THEOREM Settled == Spec => StaysSatisfied
<1>1. TypeOK /\ [Next]_vars => (Satisfied => Satisfied')
  <2> SUFFICES ASSUME TypeOK, [Next]_vars, Satisfied PROVE Satisfied'
    OBVIOUS
  <2>1. /\ \A f \in File : f \in present /\ Reaches(f, MinSize[f]) /\ Reaches(f, ScriptMin[f])
        /\ \A w \in Workers : file[w] \in File
        /\ at \in File
    <3>1. \A min \in 1 .. Size : min >= min
      BY Numbers
    <3>2. ASSUME NEW f \in File PROVE Reaches(f, MinSize[f]) /\ Reaches(f, ScriptMin[f])
      BY <3>1, Numbers DEF Satisfied, Complete, Reaches
    <3> QED
      BY <3>2 DEF TypeOK, Satisfied
  <2> USE DEF Satisfied, NothingToFix
  <2>2. CASE UNCHANGED <<disk, scriptVars>> /\ \E w \in Workers : GetVoice(w) \/ Voice(w)
    <3>1. PICK w \in Workers : GetVoice(w) \/ Voice(w)
      BY <2>2
    <3>2. GetVoice(w) \/ Exists(w) \/ CheckSize(w) \/ Load(w)
      BY <3>1 DEF Voice, ExistsAgain, Unlink, Open, Write, Close, CheckDownload, Discard, Except,
                  Accept, Step
    <3>3. pc' \in [Workers -> PC] /\ \A v \in Workers : v # w => pc'[v] = pc[v]
      BY <3>2, <2>1 DEF TypeOK, GetVoice, Exists, CheckSize, Accept, Load, Step, PC
    <3>4. pc'[w] \in {"idle", "exists", "size", "load"}
      BY <2>1, <3>2 DEF TypeOK, GetVoice, Exists, CheckSize, Accept, Load, Step
    <3> QED
      BY <2>2, <3>3, <3>4 DEF disk, scriptVars, Complete
  <2>3. ASSUME NEW w \in Workers, GetVoice(w) \/ Voice(w) PROVE UNCHANGED <<disk, scriptVars>>
    BY <2>3 DEF Voice, GetVoice, Exists, CheckSize, Load, Keep, ExistsAgain, Unlink, Open, Write,
                Close, CheckDownload, Discard, Except, Accept, Step
  <2>4. ASSUME NEW w \in Workers, NetworkFails(w) \/ Kill(w) PROVE Satisfied'
    BY <2>4 DEF TypeOK, NetworkFails, Kill, Step, scriptVars, Complete
  <2>5. CASE ScriptStart \/ ScriptExists \/ ScriptSize \/ ScriptExistsAgain \/ ScriptRecheck
    <3>1. UNCHANGED <<disk, workerVars>>
      BY <2>5 DEF ScriptStart, ScriptExists, ScriptSize, ScriptExistsAgain, ScriptRecheck
    <3>2. ASSUME ScriptExists \/ ScriptSize PROVE NothingToFix'
      <4>1. notOk' = notOk /\ UNCHANGED toFix
        BY <2>1, <3>2 DEF ScriptExists, ScriptSize
      <4>2. \/ First /\ script' \in {"size", "exists", "again"}
            \/ ~First /\ script' \in {"size2", "exists2", "again2"}
        BY <2>1, <3>2 DEF ScriptExists, ScriptSize, ScriptStep, NextStatus, First
      <4> QED
        BY <3>2, <4>1, <4>2 DEF ScriptExists, ScriptSize, ScriptStep, First
    <3>3. ASSUME ScriptExistsAgain PROVE NothingToFix'
      <4>1. NextRow /\ UNCHANGED <<notOk, toFix>> /\ script \in {"again", "again2"}
        BY <3>3 DEF ScriptExistsAgain
      <4> QED
        BY <4>1 DEF NextRow, First
    <3>4. ASSUME ScriptStart \/ ScriptRecheck PROVE NothingToFix'
      BY <3>4 DEF ScriptStart, ScriptRecheck
    <3>5. NothingToFix'
      BY <2>5, <3>2, <3>3, <3>4
    <3> QED
      BY <3>1, <3>5 DEF disk, workerVars, Complete
  <2>6. ~ScriptUnlink /\ \A f \in toFix : ~ScriptDownload(f)
    BY DEF ScriptUnlink, ScriptDownload
  <2>7. CASE UNCHANGED vars
    BY <2>7 DEF vars, disk, workerVars, scriptVars, Complete
  <2> QED
    BY <2>2, <2>3, <2>4, <2>5, <2>6, <2>7 DEF Next, Maintenance
<1> QED
  BY <1>1, TypeCorrect, PTL DEF Spec, StaysSatisfied
=============================================================================
