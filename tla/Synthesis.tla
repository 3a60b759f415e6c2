----------------------------- MODULE Synthesis -----------------------------
(***************************************************************************)
(* _synthesise of worker/celery_app.py on the shared directory TMP_DIR,    *)
(* file operation by file operation: a text is cut into chunks, each chunk *)
(* is spoken into a file of its own, the files are renamed or merged into  *)
(* the final WAV and removed again; beside it, cleanup_expired of          *)
(* storage/backend.py for whoever calls it. An execution can raise         *)
(* anywhere (Piper, the disk, the soft time limit) and can be killed       *)
(* anywhere. Its files carry a fresh uuid4, so they are named here by the  *)
(* execution and the number of the chunk, 0 for the final WAV.             *)
(***************************************************************************)
EXTENDS Naturals, Sequences, FiniteSets

CONSTANTS
  Tasks,       \* executions of the task
  WordCounts,  \* how many words the texts may have; none is blank
  ChunkWords,  \* chunk_words of the request
  MaxChunks,   \* BOUND: the chunks of a text
  HardLimit,   \* HARD_TIME_LIMIT
  Ttl,         \* AUDIO_TTL_SECONDS
  Cleaners,    \* callers of cleanup_expired; the repository has none
  NoFile       \* no file

ASSUME ChunksAssumption == ChunkWords \in Nat \ {0} /\ MaxChunks \in Nat \ {0}
ASSUME WordsAssumption  == WordCounts \subseteq 1 .. MaxChunks * ChunkWords
ASSUME LimitsAssumption == HardLimit \in Nat /\ Ttl \in Nat /\ HardLimit < Ttl

Parts == 0 .. MaxChunks
Age   == 0 .. Ttl + 1  \* beyond the time to live age makes no difference

(* The words that are spoken in a WAV, in the order of its segments. *)
File == [audio : Seq(SUBSET Nat), age : Age]

ASSUME NoFileAssumption == NoFile \notin File

VARIABLES
  disk,    \* TMP_DIR
  pc,      \* where each execution is
  words,   \* the words of its text
  paths,   \* chunk_paths
  spent,   \* the time it has been running
  todo,    \* the expired paths that each clean-up has still to remove
  cut,     \* HISTORY: the executions interrupted while they removed chunks
  made     \* HISTORY: the executions that returned a WAV

history == <<cut, made>>
vars == <<disk, pc, words, paths, spent, todo, history>>

Running == {"open", "speak", "merge", "write", "unlink", "measure", "unwind", "returned"}

TypeOK ==
  /\ disk  \in [Tasks -> [Parts -> File \cup {NoFile}]]
  /\ pc    \in [Tasks -> Running \cup {"new", "ended", "raised", "killed"}]
  /\ words \in [Tasks -> 1 .. MaxChunks * ChunkWords]
  /\ paths \in [Tasks -> Seq(1 .. MaxChunks)]
  /\ spent \in [Tasks -> 0 .. HardLimit]
  /\ todo  \in [Cleaners -> SUBSET (Tasks \X Parts)]
  /\ cut   \subseteq Tasks
  /\ made  \subseteq Tasks

Init ==
  /\ disk  = [t \in Tasks |-> [p \in Parts |-> NoFile]]
  /\ pc    = [t \in Tasks |-> "new"]
  /\ words \in [Tasks -> WordCounts]
  /\ paths = [t \in Tasks |-> <<>>]
  /\ spent = [t \in Tasks |-> 0]
  /\ todo  = [c \in Cleaners |-> {}]
  /\ cut   = {}
  /\ made  = {}

Goto(t, l) == pc' = [pc EXCEPT ![t] = l]

(***************************************************************************)
(* The text, as the numbers of its words.                                  *)
(***************************************************************************)

(* Mistake: the last chunk has to be full. *)
ChunkCountDown(n) == IF n <= ChunkWords THEN 1 ELSE n \div ChunkWords

(* One chunk, or as many as range(0, n, max_words) has members. *)
ChunkCount(n) ==
  IF n <= ChunkWords THEN 1 ELSE (n + ChunkWords - 1) \div ChunkWords

(* _chunk_text: the whole text, or words[i : i + max_words] for each i. *)
Chunk(n, k) ==
  IF n <= ChunkWords THEN 1 .. n
  ELSE {i \in 1 .. n : (k - 1) * ChunkWords < i /\ i <= k * ChunkWords}

(***************************************************************************)
(* _synthesise.                                                            *)
(***************************************************************************)
There(t, p) == disk[t][p] # NoFile

Put(t, p, audio) == disk' = [disk EXCEPT ![t][p] = [audio |-> audio, age |-> 0]]

Begin(t) ==
  /\ pc[t] = "new"
  /\ Goto(t, "open")
  /\ UNCHANGED <<disk, words, paths, spent, todo, history>>

(* Opening the next chunk's file creates it. *)
OpenChunk(t) ==
  /\ pc[t] = "open"
  /\ Put(t, Len(paths[t]) + 1, <<>>)
  /\ Goto(t, "speak")
  /\ UNCHANGED <<words, paths, spent, todo, history>>

(* synthesize_wav, and the path is appended. *)
Speak(t) ==
  LET k == Len(paths[t]) + 1 IN
  /\ pc[t] = "speak"
  /\ Put(t, k, <<Chunk(words[t], k)>>)
  /\ paths' = [paths EXCEPT ![t] = Append(@, k)]
  /\ Goto(t, IF k = ChunkCount(words[t]) THEN "merge" ELSE "open")
  /\ UNCHANGED <<words, spent, todo, history>>

(* A single chunk is renamed, and chunk_paths cleared. *)
Rename(t) ==
  /\ pc[t] = "merge"
  /\ Len(paths[t]) = 1
  /\ There(t, paths[t][1])
  /\ disk' = [disk EXCEPT ![t][0] = disk[t][paths[t][1]], ![t][paths[t][1]] = NoFile]
  /\ paths' = [paths EXCEPT ![t] = <<>>]
  /\ Goto(t, "unlink")
  /\ UNCHANGED <<words, spent, todo, history>>

(* Several are read, and the final file is created ... *)
OpenFinal(t) ==
  /\ pc[t] = "merge"
  /\ Len(paths[t]) > 1
  /\ \A i \in DOMAIN paths[t] : There(t, paths[t][i])
  /\ Put(t, 0, <<>>)
  /\ Goto(t, "write")
  /\ UNCHANGED <<words, paths, spent, todo, history>>

(* ... and filled with their frames, which cannot change in between. *)
WriteFinal(t) ==
  /\ pc[t] = "write"
  /\ Put(t, 0, [i \in DOMAIN paths[t] |-> disk[t][paths[t][i]].audio[1]])
  /\ Goto(t, "unlink")
  /\ UNCHANGED <<words, paths, spent, todo, history>>

(* Mistake: an exception passes by the finally clause. *)
RaiseThrough(t) ==
  /\ pc[t] \in Running \ {"unlink", "unwind", "returned"}
  /\ Goto(t, "raised")
  /\ UNCHANGED <<disk, words, paths, spent, todo, history>>

(* An exception enters the finally clause ...  *)
Raise(t) ==
  /\ pc[t] \in {"open", "speak", "merge", "write"}
  /\ Goto(t, "unwind")
  /\ UNCHANGED <<disk, words, paths, spent, todo, history>>

(* ... which removes the listed chunks, one by one, as does a success.     *)
Unlink(t) ==
  /\ pc[t] \in {"unlink", "unwind"}
  /\ paths[t] # <<>>
  /\ disk' = [disk EXCEPT ![t][Head(paths[t])] = NoFile]
  /\ paths' = [paths EXCEPT ![t] = Tail(@)]
  /\ UNCHANGED <<pc, words, spent, todo, history>>

Unlinked(t) ==
  /\ pc[t] \in {"unlink", "unwind"}
  /\ paths[t] = <<>>
  /\ Goto(t, IF pc[t] = "unlink" THEN "measure" ELSE "raised")
  /\ UNCHANGED <<disk, words, paths, spent, todo, history>>

(* An exception in the finally clause itself: the rest of it is skipped.   *)
CutShort(t) ==
  /\ pc[t] \in {"unlink", "unwind"}
  /\ Goto(t, "raised")
  /\ cut' = cut \cup {t}
  /\ UNCHANGED <<disk, words, paths, spent, todo, made>>

(* The final file is opened to be measured, and its path returned.         *)
Measure(t) ==
  /\ pc[t] = "measure"
  /\ There(t, 0)
  /\ made' = made \cup {t}
  /\ Goto(t, "returned")
  /\ UNCHANGED <<disk, words, paths, spent, todo, cut>>

MeasureRaises(t) ==
  /\ pc[t] = "measure"
  /\ Goto(t, "raised")
  /\ UNCHANGED <<disk, words, paths, spent, todo, history>>

(* The task is done with the file: it was uploaded, or will not be. *)
Finish(t) ==
  /\ pc[t] = "returned"
  /\ Goto(t, "ended")
  /\ UNCHANGED <<disk, words, paths, spent, todo, history>>

(* The hard time limit, or anything else that kills the process.           *)
Kill(t) ==
  /\ pc[t] \in Running
  /\ Goto(t, "killed")
  /\ UNCHANGED <<disk, words, paths, spent, todo, history>>

(***************************************************************************)
(* cleanup_expired, and the time.                                          *)
(***************************************************************************)
Expired == {f \in Tasks \X Parts : /\ There(f[1], f[2])
                                   /\ disk[f[1]][f[2]].age > Ttl}

(* Mistake: whatever has the age of the task is taken to be left over. *)
SweepEarly(c) ==
  LET old == {f \in Tasks \X Parts : /\ There(f[1], f[2])
                                     /\ disk[f[1]][f[2]].age >= HardLimit} IN
  /\ todo[c] = {}
  /\ todo' = [todo EXCEPT ![c] = old]
  /\ UNCHANGED <<disk, pc, words, paths, spent, history>>

(* now is read and the directory listed. The time stamp of each file is    *)
(* read on the way, here at once: a later one could only spare the file.   *)
Sweep(c) ==
  /\ todo[c] = {}
  /\ Expired # {}
  /\ todo' = [todo EXCEPT ![c] = Expired]
  /\ UNCHANGED <<disk, pc, words, paths, spent, history>>

(* One file after the other; one that has gone meanwhile is skipped.       *)
Remove(c) ==
  \E f \in todo[c] :
    /\ disk' = [disk EXCEPT ![f[1]][f[2]] = NoFile]
    /\ todo' = [todo EXCEPT ![c] = @ \ {f}]
    /\ UNCHANGED <<pc, words, paths, spent, history>>

Older(file) ==
  IF file = NoFile \/ file.age > Ttl THEN file ELSE [file EXCEPT !.age = @ + 1]

(* Mistake: nothing ends an execution that hangs. *)
TickUnlimited ==
  /\ disk' = [t \in Tasks |-> [p \in Parts |-> Older(disk[t][p])]]
  /\ spent' = [t \in Tasks |-> IF pc[t] \in Running THEN spent[t] + 1 ELSE spent[t]]
  /\ UNCHANGED <<pc, words, paths, todo, history>>

(* No execution outlives the hard time limit. *)
Tick ==
  /\ \A t \in Tasks : pc[t] \in Running => spent[t] < HardLimit
  /\ disk' = [t \in Tasks |-> [p \in Parts |-> Older(disk[t][p])]]
  /\ spent' = [t \in Tasks |-> IF pc[t] \in Running THEN spent[t] + 1 ELSE spent[t]]
  /\ UNCHANGED <<pc, words, paths, todo, history>>

Work(t) ==
  \/ Begin(t) \/ OpenChunk(t) \/ Speak(t) \/ Rename(t) \/ OpenFinal(t) \/ WriteFinal(t)
  \/ Unlink(t) \/ Unlinked(t) \/ Measure(t)
  \/ Raise(t) \/ CutShort(t) \/ MeasureRaises(t) \/ Kill(t)

Clean(c) == Sweep(c) \/ Remove(c)

Next ==
  \/ \E t \in Tasks : Work(t) \/ Finish(t)
  \/ \E c \in Cleaners : Clean(c)
  \/ Tick

Spec == Init /\ [][Next]_vars

(***************************************************************************)
(* Properties.                                                             *)
(***************************************************************************)
InOrder(audio) ==
  \A i, j \in DOMAIN audio : i < j => \A v \in audio[i], w \in audio[j] : v < w

(* The WAV whose path _synthesise has returned speaks every word of the    *)
(* text, once and in order, however the text was cut; and it is there for  *)
(* as long as its task needs it, whoever cleans up.                        *)
WavIsWhole ==
  \A t \in made :
    /\ pc[t] = "returned" => There(t, 0)
    /\ There(t, 0) => LET audio == disk[t][0].audio IN
                      /\ UNION {audio[i] : i \in DOMAIN audio} = 1 .. words[t]
                      /\ InOrder(audio)

(* celery_app.py:251-253: a synthesis that ends by itself, well or not,    *)
(* leaves at most one file: the WAV, or the file it was writing to. Only   *)
(* one that is killed, or interrupted while it removes them, leaves more.  *)
LeavesAtMostOne ==
  \A t \in Tasks \ cut :
    pc[t] \in {"returned", "ended", "raised"} =>
      \A p, q \in Parts : There(t, p) /\ There(t, q) => p = q

(* How far an execution is for its caller, and the WAVs that it returned.  *)
Outcome(t) == CASE pc[t] = "returned" -> "produced"
                [] pc[t] \in {"ended", "raised", "killed"} -> "over"
                [] OTHER -> "running"

Volume == {t \in made : There(t, 0)}

(* What the rest of the worker relies on. *)
Contract == INSTANCE AudioContract WITH
  outcome <- [t \in Tasks |-> Outcome(t)], volume <- Volume

ImplementsAudio == Contract!Spec
=============================================================================
