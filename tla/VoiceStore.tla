----------------------------- MODULE VoiceStore -----------------------------
(***************************************************************************)
(* The voice models: the worker processes of worker/celery_app.py share    *)
(* one models directory, and each downloads, checks, deletes and loads the *)
(* files of a voice there without any lock; check_download_models.py does  *)
(* the same from outside. This is one voice, with its .onnx file (1) and   *)
(* its .json file (2).                                                     *)
(*                                                                         *)
(* A file is named by its path, and several processes may write to it or   *)
(* have it removed under them: one that has opened it goes on writing into *)
(* the removed file, which nobody sees any more. attached is the set of    *)
(* those whose writes still reach the file that the path names.            *)
(***************************************************************************)
EXTENDS Naturals, FiniteSets

CONSTANTS
  Workers,      \* the worker processes
  Files,        \* how many files a voice has
  Size,         \* the blocks of a complete file
  MinSize,      \* the blocks of each file that a worker's check requires,
  DownloadMin,  \* ... that it requires after a download,
  ScriptMin,    \* ... and that check_download_models.py requires
  MaxAttempts,  \* the attempts of _download_file
  Script,       \* whether check_download_models.py is run
  MaxMishaps    \* BOUND: the interrupted downloads and killed workers

ASSUME FilesAssumption    == Files \in Nat \ {0}
ASSUME SizeAssumption     == Size \in Nat \ {0}
ASSUME MinimaAssumption   == \A min \in {MinSize, DownloadMin, ScriptMin} :
                               min \in [1 .. Files -> 1 .. Size]
ASSUME ScriptAssumption   == Script \in BOOLEAN
ASSUME AttemptsAssumption == MaxAttempts \in Nat \ {0} /\ MaxMishaps \in Nat

VARIABLES
  present,   \* the paths at which there is a file
  blocks,    \* what has been written to the file at each path
  attached,  \* the workers whose open file is the one at its path
  pc,        \* where _get_voice is in each worker
  file,      \* the file it is at
  offset,    \* how much of it the worker has written
  attempt,   \* the attempt of _download_file
  loaded,    \* the workers with the voice in _LOADED_VOICES
  script,    \* where check_and_download is
  at,        \* the file its table is at
  notOk,     \* onnx_st and json_st: the files whose status is not ok
  toFix,     \* to_fix
  mishaps,   \* BOUND: how often something was interrupted
  damaged    \* HISTORY: the files whose download was interrupted

disk       == <<present, blocks, attached>>
workerVars == <<pc, file, offset, attempt, loaded>>
scriptVars == <<script, at, notOk, toFix>>
chance     == <<mishaps, damaged>>
vars       == <<disk, workerVars, scriptVars, chance>>

File == 1 .. Files

PC == {"idle", "exists", "size", "again", "unlink", "open", "write", "stat", "discard",
       "except", "load"}
ScriptPC == {"idle", "exists", "size", "again", "unlink", "download", "exists2", "size2",
             "again2", "unlink2"}

TypeOK ==
  /\ present  \subseteq File
  /\ blocks   \in [File -> SUBSET (1 .. Size)]
  /\ attached \subseteq Workers
  /\ pc       \in [Workers -> PC]
  /\ file     \in [Workers -> File]
  /\ offset   \in [Workers -> 0 .. Size]
  /\ attempt  \in [Workers -> 1 .. MaxAttempts]
  /\ loaded   \subseteq Workers
  /\ script   \in ScriptPC
  /\ at       \in File
  /\ notOk    \subseteq File
  /\ toFix    \subseteq File
  /\ mishaps  \in 0 .. MaxMishaps
  /\ damaged  \subseteq File

Init ==
  /\ present  = {}
  /\ blocks   = [f \in File |-> {}]
  /\ attached = {}
  /\ pc       = [w \in Workers |-> "idle"]
  /\ file     = [w \in Workers |-> 1]
  /\ offset   = [w \in Workers |-> 0]
  /\ attempt  = [w \in Workers |-> 1]
  /\ loaded   = {}
  /\ script   = "idle"
  /\ at       = 1
  /\ notOk    = {}
  /\ toFix    = {}
  /\ mishaps  = 0
  /\ damaged  = {}

(***************************************************************************)
(* The directory.                                                          *)
(***************************************************************************)
Complete(f) == blocks[f] = 1 .. Size

(* stat().st_size: the last block counts, whatever is missing before it.   *)
Reaches(f, min) == \E b \in blocks[f] : b >= min

On(f) == {w \in Workers : file[w] = f}

Put(f, bs) ==
  /\ present'  = present \cup {f}
  /\ blocks'   = [blocks EXCEPT ![f] = bs]
  /\ damaged'  = damaged \ {f}

Remove(f) ==
  /\ present'  = present \ {f}
  /\ blocks'   = [blocks EXCEPT ![f] = {}]
  /\ attached' = attached \ On(f)
  /\ damaged'  = damaged \ {f}

(***************************************************************************)
(* _get_voice of a worker.                                                 *)
(***************************************************************************)
Step(w, from, to) == pc[w] = from /\ pc' = [pc EXCEPT ![w] = to]

Keep(w) == UNCHANGED <<disk, offset, attempt, loaded, scriptVars, chance>>

GetVoice(w) ==
  /\ w \notin loaded
  /\ Step(w, "idle", "exists")
  /\ file' = [file EXCEPT ![w] = 1]
  /\ Keep(w)

(* onnx_path.exists(): a missing file goes on to the branch that downloads. *)
Exists(w) ==
  /\ Step(w, "exists", IF file[w] \in present THEN "size" ELSE "again")
  /\ UNCHANGED file /\ Keep(w)

(* The file is fine: the next one, or PiperVoice.load. *)
Accept(w, from) ==
  \/ /\ file[w] < Files
     /\ Step(w, from, "exists")
     /\ file' = [file EXCEPT ![w] = @ + 1]
  \/ /\ file[w] = Files
     /\ Step(w, from, "load")
     /\ UNCHANGED file

(* Another process may have removed the file since: stat raises. *)
CheckSize(w) ==
  /\ \/ Reaches(file[w], MinSize[file[w]]) /\ Accept(w, "size")
     \/ /\ ~Reaches(file[w], MinSize[file[w]])
        /\ Step(w, "size", IF file[w] \in present THEN "again" ELSE "idle")
        /\ UNCHANGED file
  /\ Keep(w)

(* if onnx_path.exists(), then unlink, which raises if it is gone by then. *)
ExistsAgain(w) ==
  /\ Step(w, "again", IF file[w] \in present THEN "unlink" ELSE "open")
  /\ attempt' = [attempt EXCEPT ![w] = 1]
  /\ UNCHANGED <<disk, file, offset, loaded, scriptVars, chance>>

Unlink(w) ==
  /\ \/ /\ file[w] \in present
        /\ Step(w, "unlink", "open")
        /\ Remove(file[w])
     \/ /\ file[w] \notin present
        /\ Step(w, "unlink", "idle")
        /\ UNCHANGED <<disk, damaged>>
  /\ UNCHANGED <<file, offset, attempt, loaded, scriptVars, mishaps>>

(* Mistake: a retry goes on where the last attempt was interrupted.        *)
OpenResumes(w) ==
  /\ Step(w, "open", "write")
  /\ Put(file[w], {})
  /\ attached' = attached \cup {w}
  /\ UNCHANGED <<file, offset, attempt, loaded, scriptVars, mishaps>>

(* urlretrieve opens the path for writing: a file that is there is         *)
(* truncated, for those who are writing to it as well.                     *)
Open(w) ==
  /\ Step(w, "open", "write")
  /\ Put(file[w], {})
  /\ attached' = attached \cup {w}
  /\ offset' = [offset EXCEPT ![w] = 0]
  /\ UNCHANGED <<file, attempt, loaded, scriptVars, mishaps>>

Write(w) ==
  /\ pc[w] = "write"
  /\ offset[w] < Size
  /\ offset' = [offset EXCEPT ![w] = @ + 1]
  /\ blocks' = IF w \in attached
               THEN [blocks EXCEPT ![file[w]] = @ \cup {offset[w] + 1}]
               ELSE blocks
  /\ UNCHANGED <<present, attached, pc, file, attempt, loaded, scriptVars, chance>>

Close(w) ==
  /\ offset[w] = Size
  /\ Step(w, "write", "stat")
  /\ attached' = attached \ {w}
  /\ UNCHANGED <<present, blocks, file, offset, attempt, loaded, scriptVars, chance>>

(* dest.stat() looks at the path, whichever file is there by now. *)
CheckDownload(w) ==
  /\ \/ Reaches(file[w], DownloadMin[file[w]]) /\ Accept(w, "stat")
     \/ /\ ~Reaches(file[w], DownloadMin[file[w]])
        /\ Step(w, "stat", IF file[w] \in present THEN "discard" ELSE "except")
        /\ UNCHANGED file
  /\ Keep(w)

(* unlink(missing_ok=True), and the RuntimeError that follows. *)
Discard(w) ==
  /\ Step(w, "discard", "except")
  /\ Remove(file[w])
  /\ UNCHANGED <<file, offset, attempt, loaded, scriptVars, mishaps>>

(* Mistake: the attempts are counted and never compared with the limit.    *)
ExceptUnbounded(w) ==
  /\ Step(w, "except", "open")
  /\ attempt' = [attempt EXCEPT ![w] = @ + 1]
  /\ UNCHANGED <<disk, file, offset, loaded, scriptVars, chance>>

Except(w) ==
  /\ \/ /\ attempt[w] < MaxAttempts
        /\ Step(w, "except", "open")
        /\ attempt' = [attempt EXCEPT ![w] = @ + 1]
     \/ /\ attempt[w] = MaxAttempts
        /\ Step(w, "except", "idle")
        /\ UNCHANGED attempt
  /\ UNCHANGED <<disk, file, offset, loaded, scriptVars, chance>>

(* Piper cannot parse a model or a configuration that is not complete. *)
Load(w) ==
  /\ Step(w, "load", "idle")
  /\ loaded' = IF \A f \in File : Complete(f) THEN loaded \cup {w} ELSE loaded
  /\ UNCHANGED <<disk, file, offset, attempt, scriptVars, chance>>

(***************************************************************************)
(* What interrupts a download.                                             *)
(***************************************************************************)
Interrupt(w) ==
  /\ mishaps < MaxMishaps
  /\ mishaps' = mishaps + 1
  /\ damaged' = IF w \in attached THEN damaged \cup {file[w]} ELSE damaged
  /\ attached' = attached \ {w}

(* urlretrieve raises, before it has opened the file or afterwards. *)
NetworkFails(w) ==
  /\ \/ Step(w, "open", "except")
     \/ Step(w, "write", "except")
  /\ Interrupt(w)
  /\ UNCHANGED <<present, blocks, file, offset, attempt, loaded, scriptVars>>

(* The process is killed by the hard time limit, or recycled after         *)
(* worker_max_tasks_per_child tasks: its voices are forgotten.             *)
Kill(w) ==
  /\ pc[w] # "idle" \/ w \in loaded
  /\ pc' = [pc EXCEPT ![w] = "idle"]
  /\ loaded' = loaded \ {w}
  /\ Interrupt(w)
  /\ UNCHANGED <<present, blocks, file, offset, attempt, scriptVars>>

(***************************************************************************)
(* check_and_download of the script. A table takes the status of all files *)
(* of the voice before it deletes any; the second one, after the           *)
(* downloads, deletes as the first one does.                               *)
(***************************************************************************)
First == script \in {"exists", "size", "again", "unlink"}

ScriptStep(one, two, next1, next2) ==
  script \in {one, two} /\ script' = IF First THEN next1 ELSE next2

NextStatus ==
  \/ /\ at < Files
     /\ at' = at + 1
     /\ script' = IF First THEN "exists" ELSE "exists2"
  \/ /\ at = Files
     /\ at' = 1
     /\ script' = IF First THEN "again" ELSE "again2"

(* After the last file the run ends, or to_fix is downloaded if that was   *)
(* asked for.                                                              *)
NextRow ==
  \/ /\ at < Files
     /\ at' = at + 1
     /\ script' = IF First THEN "again" ELSE "again2"
  \/ /\ at = Files
     /\ at' = 1
     /\ script' \in IF First THEN {"idle", "download"} ELSE {"idle"}

ScriptStart ==
  /\ Script
  /\ script = "idle"
  /\ script' = "exists"
  /\ at' = 1
  /\ notOk' = {}
  /\ toFix' = {}
  /\ UNCHANGED <<disk, workerVars, chance>>

(* file_status: path.exists(), then path.stat(), which may raise. *)
ScriptExists ==
  /\ \/ /\ at \in present
        /\ ScriptStep("exists", "exists2", "size", "size2")
        /\ UNCHANGED <<at, notOk>>
     \/ /\ at \notin present
        /\ script \in {"exists", "exists2"}
        /\ NextStatus
        /\ notOk' = notOk \cup {at}
  /\ UNCHANGED <<toFix, disk, workerVars, chance>>

(* Mistake: the script requires more than the size of the model. *)
ScriptSizeTooStrict ==
  /\ script \in {"size", "size2"}
  /\ \/ /\ at \in present
        /\ NextStatus
        /\ notOk' = notOk \cup {f \in {at} : ~Reaches(f, ScriptMin[f] + 1)}
     \/ at \notin present /\ script' = "idle" /\ UNCHANGED <<at, notOk>>
  /\ UNCHANGED <<toFix, disk, workerVars, chance>>

ScriptSize ==
  /\ script \in {"size", "size2"}
  /\ \/ /\ at \in present
        /\ NextStatus
        /\ notOk' = notOk \cup {f \in {at} : ~Reaches(f, ScriptMin[f])}
     \/ at \notin present /\ script' = "idle" /\ UNCHANGED <<at, notOk>>
  /\ UNCHANGED <<toFix, disk, workerVars, chance>>

ScriptExistsAgain ==
  /\ script \in {"again", "again2"}
  /\ \/ at \notin notOk /\ NextRow /\ UNCHANGED toFix
     \/ /\ at \in notOk \cap present
        /\ ScriptStep("again", "again2", "unlink", "unlink2")
        /\ UNCHANGED <<at, toFix>>
     \/ at \in notOk \ present /\ NextRow /\ toFix' = toFix \cup {at}
  /\ UNCHANGED <<notOk, disk, workerVars, chance>>

ScriptUnlink ==
  /\ script \in {"unlink", "unlink2"}
  /\ \/ /\ at \in present
        /\ Remove(at)
        /\ toFix' = toFix \cup {at}
        /\ NextRow
     \/ /\ at \notin present
        /\ script' = "idle"
        /\ UNCHANGED <<at, toFix, disk, damaged>>
  /\ UNCHANGED <<notOk, workerVars, mishaps>>

(* download_file writes to a file of its own and renames it; it fails when *)
(* its attempts are used up, and leaves nothing then.                      *)
ScriptDownload(f) ==
  /\ script = "download"
  /\ f \in toFix
  /\ toFix' = toFix \ {f}
  /\ \/ Put(f, 1 .. Size) /\ attached' = attached \ On(f)
     \/ UNCHANGED <<disk, damaged>>
  /\ UNCHANGED <<script, at, notOk, workerVars, mishaps>>

ScriptRecheck ==
  /\ script = "download"
  /\ toFix = {}
  /\ script' = "exists2"
  /\ notOk' = {}
  /\ UNCHANGED <<at, toFix, disk, workerVars, chance>>

(***************************************************************************)
(* The specification.                                                      *)
(***************************************************************************)
Voice(w) ==
  \/ Exists(w) \/ CheckSize(w) \/ ExistsAgain(w) \/ Unlink(w) \/ Open(w) \/ Write(w)
  \/ Close(w) \/ CheckDownload(w) \/ Discard(w) \/ Except(w) \/ Load(w)

Maintenance ==
  \/ ScriptExists \/ ScriptSize \/ ScriptExistsAgain \/ ScriptUnlink
  \/ (\E f \in toFix : ScriptDownload(f)) \/ ScriptRecheck

Next ==
  \/ \E w \in Workers : GetVoice(w) \/ Voice(w) \/ NetworkFails(w) \/ Kill(w)
  \/ ScriptStart \/ Maintenance

Spec == Init /\ [][Next]_vars

(* A worker process goes on with its call, a task for this voice comes     *)
(* again and again, and the script runs to its end.                        *)
FairSpec ==
  /\ Spec
  /\ \A w \in Workers : WF_vars(GetVoice(w)) /\ WF_vars(Voice(w))
  /\ WF_vars(Maintenance)

(***************************************************************************)
(* Properties.                                                             *)
(***************************************************************************)

(* However the processes delete, truncate and write each other's file,     *)
(* the file they leave behind is complete, unless a download of it was     *)
(* interrupted: the last one to open it writes all of it.                  *)
Writers(f) == {w \in attached : file[w] = f}

RestsComplete ==
  \A f \in present : Writers(f) = {} => Complete(f) \/ f \in damaged

(* Once both files are complete and no process at work has found one       *)
(* missing or too small before, nothing deletes or rewrites them: no       *)
(* worker and no run of the script, on its first table or its second.      *)
NothingToFix ==
  \/ script = "idle"
  \/ script = "download" /\ toFix = {}
  \/ notOk = {} /\ script \in {"exists2", "size2", "again2"}
  \/ notOk = {} /\ script \in {"exists", "size", "again"} /\ toFix = {}

Satisfied ==
  /\ \A f \in File : f \in present /\ Complete(f)
  /\ \A w \in Workers : pc[w] \in {"idle", "exists", "size", "load"}
  /\ NothingToFix

StaysSatisfied == [][Satisfied => Satisfied']_vars

(* check_download_models.py:11-15: partial downloads no longer "pass       *)
(* silently". After an interrupted download a worker gets its voice again. *)
Heals == \A w \in Workers : []<>(w \in loaded)
=============================================================================
