--------------------------- MODULE Storage_proofs ---------------------------
(***************************************************************************)
(* Proofs about Synthesis and Storage: however a text is cut, its WAV is   *)
(* whole and stays while it is needed; what an execution leaves behind;    *)
(* that the file operations implement AudioContract; and the bucket's      *)
(* rule.                                                                   *)
(***************************************************************************)
EXTENDS Storage, SequenceTheorems, TLAPS

(***************************************************************************)
(* The text.                                                               *)
(***************************************************************************)
LEMMA Division ==
  ASSUME NEW a \in Nat, NEW c \in Nat \ {0}
  PROVE  a \div c \in Nat /\ c * (a \div c) <= a /\ a < c * (a \div c) + c
BY SMT

LEMMA Multiples ==
  ASSUME NEW a \in Nat, NEW b \in Nat, NEW c \in Nat, a <= b
  PROVE  c * a <= c * b
BY SMT

Texts == 1 .. MaxChunks * ChunkWords

Audio(n) == [i \in 1 .. ChunkCount(n) |-> Chunk(n, i)]

LEMMA TextTypes == ASSUME NEW n \in Texts PROVE n \in Nat \ {0} /\ n <= MaxChunks * ChunkWords
BY ChunksAssumption DEF Texts

(* A text that is cut has from one to MaxChunks chunks. *)
LEMMA CountBounds ==
  ASSUME NEW n \in Texts
  PROVE  ChunkCount(n) \in 1 .. MaxChunks
<1>1. CASE n <= ChunkWords
  BY <1>1, TextTypes, ChunksAssumption DEF ChunkCount
<1>2. CASE n > ChunkWords
  <2> DEFINE q == (n + ChunkWords - 1) \div ChunkWords
  <2>1. n + ChunkWords - 1 \in Nat
    BY TextTypes, ChunksAssumption
  <2>2. q \in Nat /\ ChunkWords * q <= n + ChunkWords - 1 /\ n + ChunkWords - 1 < ChunkWords * q + ChunkWords
    BY <2>1, Division, ChunksAssumption
  <2> HIDE DEF q
  <2>3. q # 0
    BY <1>2, <2>2, TextTypes, ChunksAssumption
  <2>4. q <= MaxChunks
    <3>1. SUFFICES ASSUME MaxChunks + 1 <= q PROVE FALSE
      BY <2>2, ChunksAssumption
    <3>2. ChunkWords * (MaxChunks + 1) <= ChunkWords * q
      BY <3>1, <2>2, Multiples, ChunksAssumption
    <3> QED BY <3>2, <2>2, TextTypes, ChunksAssumption
  <2> QED BY <1>2, <2>2, <2>3, <2>4, TextTypes, ChunksAssumption DEF ChunkCount, q
<1> QED BY <1>1, <1>2, TextTypes, ChunksAssumption

LEMMA Membership ==
  ASSUME NEW n \in Texts, n > ChunkWords, NEW k \in Nat, NEW i \in 1 .. n,
         (k - 1) * ChunkWords < i, i <= k * ChunkWords
  PROVE  i \in Chunk(n, k)
<1>1. ~(n <= ChunkWords)
  BY TextTypes, ChunksAssumption
<1> QED BY <1>1 DEF Chunk

(* Every word is in some chunk. *)
LEMMA Covered ==
  ASSUME NEW n \in Texts, NEW i \in 1 .. n
  PROVE  \E k \in 1 .. ChunkCount(n) : i \in Chunk(n, k)
<1>1. CASE n <= ChunkWords
  BY <1>1 DEF ChunkCount, Chunk
<1>2. CASE n > ChunkWords
  <2> DEFINE r == (i - 1) \div ChunkWords
             q == (n + ChunkWords - 1) \div ChunkWords
  <2>1. i - 1 \in Nat /\ n + ChunkWords - 1 \in Nat /\ i \in Nat /\ i <= n /\ n \in Nat
    BY TextTypes, ChunksAssumption
  <2>2. r \in Nat /\ ChunkWords * r <= i - 1 /\ i - 1 < ChunkWords * r + ChunkWords
    BY <2>1, Division, ChunksAssumption
  <2>3. q \in Nat /\ ChunkWords * q <= n + ChunkWords - 1 /\ n + ChunkWords - 1 < ChunkWords * q + ChunkWords
    BY <2>1, Division, ChunksAssumption
  <2>4. ChunkCount(n) = q
    BY <1>2, <2>1, ChunksAssumption DEF ChunkCount
  <2> HIDE DEF r, q
  <2>5. r + 1 <= q
    <3>1. SUFFICES ASSUME q <= r PROVE FALSE
      BY <2>2, <2>3
    <3>2. ChunkWords * q <= ChunkWords * r
      BY <3>1, <2>2, <2>3, Multiples, ChunksAssumption
    <3> QED BY <3>2, <2>1, <2>2, <2>3, ChunksAssumption
  <2>6. (r + 1 - 1) * ChunkWords < i /\ i <= (r + 1) * ChunkWords
    BY <2>1, <2>2, ChunksAssumption
  <2>7. i \in Chunk(n, r + 1)
    BY <1>2, <2>2, <2>6, Membership
  <2> QED BY <2>2, <2>3, <2>4, <2>5, <2>7
<1> QED BY <1>1, <1>2, TextTypes, ChunksAssumption

(* Words of an earlier chunk come first. *)
LEMMA Ordered ==
  ASSUME NEW n \in Texts, NEW k \in 1 .. ChunkCount(n), NEW l \in 1 .. ChunkCount(n), k < l,
         NEW v \in Chunk(n, k), NEW w \in Chunk(n, l)
  PROVE  v < w
<1>1. CASE n <= ChunkWords
  BY <1>1, CountBounds DEF ChunkCount
<1>2. CASE n > ChunkWords
  <2>1. k \in Nat /\ l \in Nat /\ k <= l - 1 /\ l - 1 \in Nat
    BY CountBounds, ChunksAssumption
  <2>2. v \in Nat /\ w \in Nat /\ v <= k * ChunkWords /\ (l - 1) * ChunkWords < w
    BY <1>2, TextTypes, ChunksAssumption DEF Chunk
  <2>3. k * ChunkWords <= (l - 1) * ChunkWords
    BY <2>1, Multiples, ChunksAssumption
  <2> QED BY <2>1, <2>2, <2>3, ChunksAssumption
<1> QED BY <1>1, <1>2, TextTypes, ChunksAssumption

LEMMA ChunkTypes ==
  ASSUME NEW n \in Texts, NEW k
  PROVE  Chunk(n, k) \subseteq 1 .. n /\ Chunk(n, k) \in SUBSET Nat
BY TextTypes DEF Chunk

(* _chunk_text loses, repeats and swaps no word of any text, whatever the  *)
(* size of the chunks.                                                     *)
THEOREM CutWhole ==
  ASSUME NEW n \in Texts
  PROVE  /\ UNION {Audio(n)[i] : i \in DOMAIN Audio(n)} = 1 .. n
         /\ InOrder(Audio(n))
<1>1. DOMAIN Audio(n) = 1 .. ChunkCount(n) /\ \A i \in 1 .. ChunkCount(n) : Audio(n)[i] = Chunk(n, i)
  BY DEF Audio
<1>2. UNION {Audio(n)[i] : i \in DOMAIN Audio(n)} \subseteq 1 .. n
  BY <1>1, ChunkTypes
<1>3. 1 .. n \subseteq UNION {Audio(n)[i] : i \in DOMAIN Audio(n)}
  BY <1>1, Covered
<1>4. InOrder(Audio(n))
  BY <1>1, Ordered DEF InOrder
<1> QED BY <1>2, <1>3, <1>4

LEMMA AudioTypes == ASSUME NEW n \in Texts PROVE Audio(n) \in Seq(SUBSET Nat)
BY CountBounds, ChunkTypes, ChunksAssumption DEF Audio

(***************************************************************************)
(* The inductive invariant, execution by execution.                        *)
(***************************************************************************)
Making == {"open", "speak", "merge", "write"}

Finished == {"ended", "raised", "killed"}

(* A file of a running execution is no older than the execution. *)
Young(t) == pc[t] \in Running =>
  \A p \in Parts : There(t, p) => disk[t][p].age <= spent[t]

(* The chunks so far are listed in order, and each is spoken. *)
Spoken(t) == pc[t] \in Making =>
  /\ \A i \in DOMAIN paths[t] :
       paths[t][i] = i /\ There(t, i) /\ disk[t][i].audio = <<Chunk(words[t], i)>>
  /\ IF pc[t] \in {"open", "speak"} THEN Len(paths[t]) < ChunkCount(words[t])
                                    ELSE Len(paths[t]) = ChunkCount(words[t])

(* From the merge on there is a final file, and it is whole. *)
Wav(t) ==
  /\ pc[t] \in {"unlink", "measure", "returned"} => There(t, 0)
  /\ pc[t] \in {"unlink", "measure", "returned"} \/ t \in made =>
       (There(t, 0) => disk[t][0].audio = Audio(words[t]))
  /\ t \in made => pc[t] \in {"returned", "ended", "killed"}
  /\ pc[t] \in {"returned", "ended"} => t \in made

(* What there is besides the listed chunks. *)
Own(t) == {paths[t][i] : i \in DOMAIN paths[t]}

Other(t, p) == There(t, p) /\ p \notin Own(t)

Tidy(t) ==
  /\ pc[t] = "new" => paths[t] = <<>> /\ \A p \in Parts : ~There(t, p)
  /\ pc[t] \in {"open", "merge"} => \A p \in Parts : ~Other(t, p)
  /\ pc[t] = "speak" => \A p \in Parts : Other(t, p) => p = Len(paths[t]) + 1
  /\ pc[t] \in {"write", "unlink", "measure", "returned", "ended"} =>
       \A p \in Parts : Other(t, p) => p = 0
  /\ pc[t] \in {"unwind", "raised"} /\ t \notin cut =>
       \A p, q \in Parts : Other(t, p) /\ Other(t, q) => p = q
  /\ pc[t] \in {"measure", "returned", "ended"} => paths[t] = <<>>
  /\ pc[t] = "raised" /\ t \notin cut => paths[t] = <<>>

Good(t) == Young(t) /\ Spoken(t) /\ Wav(t) /\ Tidy(t)

(* A clean-up has nothing on its list that is still in use. *)
OnlyFinished == \A c \in Cleaners : \A f \in todo[c] : pc[f[1]] \in Finished

Inv == TypeOK /\ OnlyFinished /\ \A t \in Tasks : Good(t)

Still(u) ==
  /\ disk'[u] = disk[u]
  /\ pc'[u] = pc[u]
  /\ words'[u] = words[u]
  /\ paths'[u] = paths[u]
  /\ spent'[u] = spent[u]
  /\ u \in cut' <=> u \in cut
  /\ u \in made' <=> u \in made

LEMMA Frame ==
  ASSUME NEW u \in Tasks, Good(u), Still(u)
  PROVE  Good(u)'
<1>1. (\A p : There(u, p)' <=> There(u, p)) /\ Own(u)' = Own(u)
  BY DEF Still, There, Own
<1>2. \A p : Other(u, p)' <=> Other(u, p)
  BY <1>1 DEF Other
<1>3. Young(u)' BY <1>1 DEF Good, Young, Still, Running
<1>4. Spoken(u)' BY <1>1 DEF Good, Spoken, Still, Making
<1>5. Wav(u)' BY <1>1 DEF Good, Wav, Still
<1>6. Tidy(u)' BY <1>1, <1>2 DEF Good, Tidy, Still
<1> QED BY <1>3, <1>4, <1>5, <1>6 DEF Good

(* A step of one execution touches nothing but its own files and record.   *)
LEMMA Local ==
  ASSUME Inv, NEW t \in Tasks, TypeOK', Good(t)', pc[t] \notin Finished,
         \A u \in Tasks \ {t} : Still(u), todo' = todo
  PROVE  Inv'
<1>1. \A u \in Tasks : Good(u)'
  BY Frame DEF Inv
<1>2. OnlyFinished'
  <2> SUFFICES ASSUME NEW c \in Cleaners, NEW f \in todo[c] PROVE pc'[f[1]] \in Finished
    BY DEF OnlyFinished
  <2>1. pc[f[1]] \in Finished /\ f[1] \in Tasks
    BY DEF Inv, OnlyFinished, TypeOK
  <2> QED BY <2>1 DEF Still
<1> QED BY <1>1, <1>2 DEF Inv

LEMMA InitInv == Init => Inv
<1> SUFFICES ASSUME Init PROVE Inv
  OBVIOUS
<1>1. TypeOK
  <2>1. words \in [Tasks -> 1 .. MaxChunks * ChunkWords]
    BY WordsAssumption DEF Init
  <2>2. /\ disk \in [Tasks -> [Parts -> File \cup {NoFile}]]
        /\ pc \in [Tasks -> Running \cup {"new", "ended", "raised", "killed"}]
        /\ paths \in [Tasks -> Seq(1 .. MaxChunks)]
        /\ spent \in [Tasks -> 0 .. HardLimit]
    BY LimitsAssumption DEF Init
  <2>3. todo \in [Cleaners -> SUBSET (Tasks \X Parts)] /\ cut \subseteq Tasks /\ made \subseteq Tasks
    BY DEF Init
  <2> QED BY <2>1, <2>2, <2>3 DEF TypeOK
<1>2. OnlyFinished
  BY DEF Init, OnlyFinished
<1>3. \A t \in Tasks : Good(t)
  BY DEF Init, Good, Young, Spoken, Wav, Tidy, There, Running, Making
<1> QED BY <1>1, <1>2, <1>3 DEF Inv

(***************************************************************************)
(* Steps that move an execution on and leave the files alone.              *)
(***************************************************************************)
Moves(t) ==
  \/ Begin(t) \/ Raise(t) \/ Unlinked(t) \/ CutShort(t)
  \/ Measure(t) \/ MeasureRaises(t) \/ Finish(t) \/ Kill(t)

LEMMA MovesInv == ASSUME Inv, NEW t \in Tasks, Moves(t) PROVE Inv'
<1> USE DEF Moves, Begin, Raise, Unlinked, CutShort, Measure, MeasureRaises, Finish, Kill, Goto, history
<1>1. /\ UNCHANGED <<disk, words, paths, spent, todo>>
      /\ pc[t] \notin Finished
      /\ \A u \in Tasks \ {t} : pc'[u] = pc[u]
      /\ \A u \in Tasks \ {t} : (u \in cut' <=> u \in cut) /\ (u \in made' <=> u \in made)
  BY DEF Inv, TypeOK, Running, Finished
<1>2. TypeOK'
  BY <1>1 DEF Inv, TypeOK, Running
<1>3. /\ \A p \in Parts : There(t, p)' <=> There(t, p)
      /\ \A p \in Parts : Other(t, p)' <=> Other(t, p)
  BY <1>1 DEF There, Other, Own
<1>4. Good(t) /\ pc \in [Tasks -> Running \cup {"new", "ended", "raised", "killed"}]
  BY DEF Inv, TypeOK
<1>5. Young(t)'
  <2>1. CASE pc[t] = "new"
    BY <1>1, <1>3, <1>4, <2>1 DEF Good, Young, Tidy
  <2>2. CASE pc[t] # "new"
    BY <1>1, <1>3, <1>4, <2>2 DEF Good, Young, Running
  <2> QED BY <2>1, <2>2
<1>6. Spoken(t)'
  <2>1. CASE Begin(t)
    <3>1. paths'[t] = <<>> /\ pc'[t] = "open"
      BY <1>1, <1>4, <2>1 DEF Good, Tidy
    <3>2. ChunkCount(words[t]) \in 1 .. MaxChunks
      BY CountBounds DEF Inv, TypeOK, Texts
    <3> QED BY <1>1, <3>1, <3>2, ChunksAssumption DEF Spoken
  <2>2. CASE ~Begin(t)
    BY <1>4, <2>2 DEF Making, Spoken
  <2> QED BY <2>1, <2>2
<1>7. Wav(t)'
  BY <1>1, <1>3, <1>4 DEF Good, Wav, There, Running, Inv, TypeOK, Parts
<1>8. Tidy(t)'
  <2>1. CASE Begin(t)
    BY <1>1, <1>3, <1>4, <2>1 DEF Good, Tidy, Other
  <2>2. CASE Raise(t)
    BY <1>1, <1>3, <1>4, <2>2 DEF Good, Tidy
  <2>3. CASE Unlinked(t)
    BY <1>1, <1>3, <1>4, <2>3 DEF Good, Tidy
  <2>4. CASE CutShort(t)
    BY <1>1, <1>3, <1>4, <2>4 DEF Good, Tidy
  <2>5. CASE Measure(t) \/ MeasureRaises(t)
    BY <1>1, <1>3, <1>4, <2>5 DEF Good, Tidy
  <2>6. CASE Finish(t) \/ Kill(t)
    BY <1>1, <1>3, <1>4, <2>6 DEF Good, Tidy
  <2> QED BY <2>1, <2>2, <2>3, <2>4, <2>5, <2>6
<1>9. \A u \in Tasks \ {t} : Still(u)
  BY <1>1 DEF Still
<1> QED BY <1>1, <1>2, <1>5, <1>6, <1>7, <1>8, <1>9, Local DEF Good

(***************************************************************************)
(* Steps that write or remove files.                                       *)
(***************************************************************************)
LEMMA Types ==
  ASSUME Inv, NEW t \in Tasks
  PROVE  /\ words[t] \in Texts
         /\ paths[t] \in Seq(1 .. MaxChunks)
         /\ disk \in [Tasks -> [Parts -> File \cup {NoFile}]]
         /\ disk[t] \in [Parts -> File \cup {NoFile}]
         /\ spent[t] \in 0 .. HardLimit
         /\ ChunkCount(words[t]) \in 1 .. MaxChunks
BY CountBounds DEF Inv, TypeOK, Texts

LEMMA Written ==
  ASSUME Inv, NEW t \in Tasks, NEW q \in Parts, NEW a \in Seq(SUBSET Nat), Put(t, q, a)
  PROVE  /\ disk' \in [Tasks -> [Parts -> File \cup {NoFile}]]
         /\ \A u \in Tasks \ {t} : disk'[u] = disk[u]
         /\ disk'[t][q] = [audio |-> a, age |-> 0] /\ There(t, q)'
         /\ \A p \in Parts \ {q} : disk'[t][p] = disk[t][p] /\ (There(t, p)' <=> There(t, p))
<1>1. [audio |-> a, age |-> 0] \in File
  BY LimitsAssumption DEF File, Age
<1>2. [audio |-> a, age |-> 0] # NoFile
  BY <1>1, NoFileAssumption
<1> QED BY <1>1, <1>2, Types DEF Put, There

LEMMA OpenChunkInv == ASSUME Inv, NEW t \in Tasks, OpenChunk(t) PROVE Inv'
<1> DEFINE k == Len(paths[t]) + 1
<1>1. pc[t] = "open" /\ Good(t) /\ Spoken(t) /\ Len(paths[t]) < ChunkCount(words[t]) /\ Len(paths[t]) \in Nat
  BY Types DEF Inv, Good, Spoken, OpenChunk, Making
<1>2. k \in 1 .. MaxChunks /\ k \in Parts
  BY <1>1, Types, ChunksAssumption DEF Parts
<1>3. <<>> \in Seq(SUBSET Nat)
  OBVIOUS
<1>4. Put(t, k, <<>>) /\ UNCHANGED <<words, paths, spent, todo, cut, made>>
      /\ pc' = [pc EXCEPT ![t] = "speak"]
  BY DEF OpenChunk, Goto, history
<1>5. /\ disk' \in [Tasks -> [Parts -> File \cup {NoFile}]]
      /\ \A u \in Tasks \ {t} : disk'[u] = disk[u]
      /\ disk'[t][k] = [audio |-> <<>>, age |-> 0]
      /\ \A p \in Parts \ {k} : disk'[t][p] = disk[t][p] /\ (There(t, p)' <=> There(t, p))
  BY <1>2, <1>3, <1>4, Written
<1>6. TypeOK' /\ pc'[t] = "speak"
  BY <1>4, <1>5 DEF Inv, TypeOK, Running
<1>7. Young(t)'
  <2> SUFFICES ASSUME NEW p \in Parts, There(t, p)' PROVE disk'[t][p].age <= spent'[t]
    BY DEF Young
  <2>1. CASE p = k
    BY <2>1, <1>4, <1>5, Types, LimitsAssumption
  <2>2. CASE p # k
    BY <2>2, <1>1, <1>4, <1>5 DEF Good, Young, Running
  <2> QED BY <2>1, <2>2
<1>8. Spoken(t)'
  <2>1. \A i \in DOMAIN paths[t] : i \in Parts \ {k}
    BY <1>1, <1>2, Types, ChunksAssumption DEF Parts
  <2> QED BY <2>1, <1>1, <1>4, <1>5, <1>6 DEF Spoken, Making
<1>9. Wav(t)'
  BY <1>1, <1>4, <1>6 DEF Good, Wav
<1>10. Tidy(t)'
  <2>1. Own(t)' = Own(t)
    BY <1>4 DEF Own
  <2>2. \A p \in Parts : Other(t, p)' => p = k
    BY <2>1, <1>1, <1>5 DEF Good, Tidy, Other
  <2> QED BY <2>2, <1>4, <1>6 DEF Tidy
<1>11. \A u \in Tasks \ {t} : Still(u)
  BY <1>4, <1>5 DEF Still, Inv, TypeOK
<1> QED BY <1>1, <1>4, <1>6, <1>7, <1>8, <1>9, <1>10, <1>11, Local DEF Good, Finished

LEMMA SpeakInv == ASSUME Inv, NEW t \in Tasks, Speak(t) PROVE Inv'
<1> DEFINE k == Len(paths[t]) + 1
           next == IF k = ChunkCount(words[t]) THEN "merge" ELSE "open"
           a == <<Chunk(words[t], k)>>
<1>1. pc[t] = "speak" /\ Good(t) /\ Spoken(t) /\ Len(paths[t]) < ChunkCount(words[t]) /\ Len(paths[t]) \in Nat
  BY Types DEF Inv, Good, Spoken, Speak, Making
<1>2. k \in 1 .. MaxChunks /\ k \in Parts
  BY <1>1, Types, ChunksAssumption DEF Parts
<1>3. a \in Seq(SUBSET Nat)
  BY ChunkTypes, Types
<1>4. Put(t, k, a) /\ UNCHANGED <<words, spent, todo, cut, made>>
      /\ pc' = [pc EXCEPT ![t] = next]
      /\ paths' = [paths EXCEPT ![t] = Append(@, k)]
  BY DEF Speak, Goto, history
<1> HIDE DEF a
<1>5. /\ disk' \in [Tasks -> [Parts -> File \cup {NoFile}]]
      /\ \A u \in Tasks \ {t} : disk'[u] = disk[u]
      /\ disk'[t][k] = [audio |-> a, age |-> 0] /\ disk'[t][k] # NoFile
      /\ \A p \in Parts \ {k} : disk'[t][p] = disk[t][p] /\ (There(t, p)' <=> There(t, p))
  BY <1>2, <1>3, <1>4, Written DEF There
<1>6. pc'[t] = next /\ paths'[t] = Append(paths[t], k) /\ paths'[t] \in Seq(1 .. MaxChunks)
  BY <1>2, <1>4, Types DEF Inv, TypeOK
<1>7. TypeOK'
  BY <1>2, <1>4, <1>5, <1>6 DEF Inv, TypeOK, Running
<1>8. /\ DOMAIN paths'[t] = 1 .. k /\ Len(paths'[t]) = k
      /\ paths'[t][k] = k
      /\ \A i \in 1 .. k : i # k => i \in DOMAIN paths[t] /\ paths'[t][i] = paths[t][i]
  BY <1>1, <1>6, Types
<1>9. Young(t)'
  <2> SUFFICES ASSUME NEW p \in Parts, There(t, p)' PROVE disk'[t][p].age <= spent'[t]
    BY DEF Young
  <2>1. CASE p = k
    BY <2>1, <1>4, <1>5, Types, LimitsAssumption
  <2>2. CASE p # k
    BY <2>2, <1>1, <1>4, <1>5 DEF Good, Young, Running
  <2> QED BY <2>1, <2>2
<1>10. Spoken(t)'
  <2>1. ASSUME NEW i \in 1 .. k
        PROVE  paths'[t][i] = i /\ There(t, i)' /\ disk'[t][i].audio = <<Chunk(words'[t], i)>>
    <3>1. CASE i = k
      BY <3>1, <1>4, <1>5, <1>8 DEF a, There
    <3>2. CASE i # k
      <4>1. i \in DOMAIN paths[t] /\ paths'[t][i] = paths[t][i] /\ i \in Parts \ {k}
        BY <3>2, <1>2, <1>8, ChunksAssumption DEF Parts
      <4> QED BY <4>1, <1>1, <1>4, <1>5 DEF Spoken, Making
    <3> QED BY <3>1, <3>2
  <2>2. k <= ChunkCount(words[t])
    BY <1>1, Types
  <2> QED BY <2>1, <2>2, <1>1, <1>4, <1>6, <1>8, Types DEF Spoken, Making
<1>11. Wav(t)'
  BY <1>1, <1>4, <1>6 DEF Good, Wav
<1>12. Tidy(t)'
  <2>1. Own(t) \cup {k} \subseteq Own(t)'
    <3>1. k \in Own(t)'
      BY <1>2, <1>8 DEF Own
    <3>2. ASSUME NEW i \in DOMAIN paths[t] PROVE paths[t][i] \in Own(t)'
      BY <1>1, <1>2, <1>8, Types DEF Own
    <3> QED BY <3>1, <3>2 DEF Own
  <2>2. \A p \in Parts : ~Other(t, p)'
    BY <2>1, <1>1, <1>5 DEF Good, Tidy, Other
  <2> QED BY <2>2, <1>6 DEF Tidy
<1>13. \A u \in Tasks \ {t} : Still(u)
  BY <1>4, <1>5 DEF Still, Inv, TypeOK
<1> QED BY <1>1, <1>4, <1>7, <1>9, <1>10, <1>11, <1>12, <1>13, Local DEF Good, Finished

LEMMA RenameInv == ASSUME Inv, NEW t \in Tasks, Rename(t) PROVE Inv'
<1>1. pc[t] = "merge" /\ Good(t) /\ Spoken(t) /\ Len(paths[t]) = 1 /\ ChunkCount(words[t]) = 1
  BY DEF Inv, Good, Spoken, Rename, Making
<1>2. /\ paths[t][1] = 1 /\ There(t, 1) /\ disk[t][1].audio = <<Chunk(words[t], 1)>>
      /\ DOMAIN paths[t] = {1}
  BY <1>1, Types DEF Spoken, Making
<1>3. 0 \in Parts /\ 1 \in Parts /\ 0 # 1
  BY ChunksAssumption DEF Parts
<1>4. /\ disk' = [disk EXCEPT ![t][0] = disk[t][1], ![t][1] = NoFile]
      /\ paths' = [paths EXCEPT ![t] = <<>>] /\ pc' = [pc EXCEPT ![t] = "unlink"]
      /\ UNCHANGED <<words, spent, todo, cut, made>>
  BY <1>2 DEF Rename, Goto, history
<1>5. /\ disk' \in [Tasks -> [Parts -> File \cup {NoFile}]]
      /\ \A u \in Tasks \ {t} : disk'[u] = disk[u]
      /\ disk'[t][0] = disk[t][1] /\ disk'[t][1] = NoFile
      /\ \A p \in Parts \ {0, 1} : disk'[t][p] = disk[t][p]
  BY <1>3, <1>4, Types
<1>6. paths'[t] = <<>> /\ pc'[t] = "unlink" /\ TypeOK'
  <2>1. paths' \in [Tasks -> Seq(1 .. MaxChunks)] /\ paths'[t] = <<>>
    BY <1>4 DEF Inv, TypeOK
  <2> QED BY <1>4, <1>5, <2>1 DEF Inv, TypeOK, Running
<1>7. \A p \in Parts : There(t, p) => p = 1
  BY <1>1, <1>2 DEF Good, Tidy, Other, Own
<1>8. \A p \in Parts : There(t, p)' => p = 0
  BY <1>5, <1>7 DEF There
<1>9. Young(t)'
  BY <1>1, <1>2, <1>3, <1>4, <1>5, <1>8 DEF Good, Young, Running
<1>10. Spoken(t)'
  BY <1>6 DEF Spoken, Making
<1>11. Wav(t)'
  <2>1. Audio(words[t]) = <<Chunk(words[t], 1)>>
    BY <1>1 DEF Audio
  <2>2. disk'[t][0].audio = Audio(words'[t]) /\ There(t, 0)'
    <3>1. Audio(words'[t]) = Audio(words[t])
      BY <1>4
    <3> QED BY <2>1, <3>1, <1>2, <1>5 DEF There
  <2> QED BY <2>2, <1>1, <1>4, <1>6 DEF Good, Wav
<1>12. Tidy(t)'
  BY <1>6, <1>8 DEF Tidy, Other
<1>13. \A u \in Tasks \ {t} : Still(u)
  BY <1>4, <1>5 DEF Still, Inv, TypeOK
<1> QED BY <1>1, <1>4, <1>6, <1>9, <1>10, <1>11, <1>12, <1>13, Local DEF Good, Finished

LEMMA OpenFinalInv == ASSUME Inv, NEW t \in Tasks, OpenFinal(t) PROVE Inv'
<1>1. pc[t] = "merge" /\ Good(t) /\ Spoken(t)
  BY DEF Inv, Good, OpenFinal
<1>2. 0 \in Parts /\ <<>> \in Seq(SUBSET Nat)
  BY ChunksAssumption DEF Parts
<1>3. Put(t, 0, <<>>) /\ UNCHANGED <<words, paths, spent, todo, cut, made>>
      /\ pc' = [pc EXCEPT ![t] = "write"]
  BY DEF OpenFinal, Goto, history
<1>4. /\ disk' \in [Tasks -> [Parts -> File \cup {NoFile}]]
      /\ \A u \in Tasks \ {t} : disk'[u] = disk[u]
      /\ disk'[t][0] = [audio |-> <<>>, age |-> 0]
      /\ \A p \in Parts \ {0} : disk'[t][p] = disk[t][p] /\ (There(t, p)' <=> There(t, p))
  BY <1>2, <1>3, Written
<1>5. TypeOK' /\ pc'[t] = "write"
  BY <1>3, <1>4 DEF Inv, TypeOK, Running
<1>6. Young(t)'
  <2> SUFFICES ASSUME NEW p \in Parts, There(t, p)' PROVE disk'[t][p].age <= spent'[t]
    BY DEF Young
  <2>1. CASE p = 0
    BY <2>1, <1>3, <1>4, Types, LimitsAssumption
  <2>2. CASE p # 0
    BY <2>2, <1>1, <1>3, <1>4 DEF Good, Young, Running
  <2> QED BY <2>1, <2>2
<1>7. Spoken(t)'
  <2>1. Len(paths[t]) = ChunkCount(words[t])
    BY <1>1 DEF Spoken, Making
  <2>2. \A i \in DOMAIN paths[t] : i \in Parts \ {0}
    BY <2>1, Types, ChunksAssumption DEF Parts
  <2> QED BY <2>2, <1>1, <1>3, <1>4, <1>5 DEF Spoken, Making
<1>8. Wav(t)'
  BY <1>1, <1>3, <1>5 DEF Good, Wav
<1>9. Tidy(t)'
  <2>1. Own(t)' = Own(t)
    BY <1>3 DEF Own
  <2>2. \A p \in Parts : Other(t, p)' => p = 0
    BY <2>1, <1>1, <1>4 DEF Good, Tidy, Other
  <2> QED BY <2>2, <1>3, <1>5 DEF Tidy
<1>10. \A u \in Tasks \ {t} : Still(u)
  BY <1>3, <1>4 DEF Still, Inv, TypeOK
<1> QED BY <1>1, <1>3, <1>5, <1>6, <1>7, <1>8, <1>9, <1>10, Local DEF Good, Finished

LEMMA WriteFinalInv == ASSUME Inv, NEW t \in Tasks, WriteFinal(t) PROVE Inv'
<1>1. pc[t] = "write" /\ Good(t) /\ Spoken(t) /\ Len(paths[t]) = ChunkCount(words[t])
  BY DEF Inv, Good, WriteFinal, Spoken, Making
<1>2. DOMAIN paths[t] = 1 .. ChunkCount(words[t])
  BY <1>1, Types
<1>3. [i \in DOMAIN paths[t] |-> disk[t][paths[t][i]].audio[1]] = Audio(words[t])
  BY <1>1, <1>2 DEF Audio, Spoken, Making
<1>4. Put(t, 0, Audio(words[t])) /\ UNCHANGED <<words, paths, spent, todo, cut, made>>
      /\ pc' = [pc EXCEPT ![t] = "unlink"]
  BY <1>3 DEF WriteFinal, Goto, history
<1>5. 0 \in Parts /\ Audio(words[t]) \in Seq(SUBSET Nat)
  BY AudioTypes, Types, ChunksAssumption DEF Parts
<1> HIDE DEF Audio
<1>6. /\ disk' \in [Tasks -> [Parts -> File \cup {NoFile}]]
      /\ \A u \in Tasks \ {t} : disk'[u] = disk[u]
      /\ disk'[t][0] = [audio |-> Audio(words[t]), age |-> 0] /\ There(t, 0)'
      /\ \A p \in Parts \ {0} : disk'[t][p] = disk[t][p] /\ (There(t, p)' <=> There(t, p))
  BY <1>4, <1>5, Written
<1>7. TypeOK' /\ pc'[t] = "unlink"
  BY <1>4, <1>6 DEF Inv, TypeOK, Running
<1>8. Young(t)'
  <2> SUFFICES ASSUME NEW p \in Parts, There(t, p)' PROVE disk'[t][p].age <= spent'[t]
    BY DEF Young
  <2>1. CASE p = 0
    BY <2>1, <1>4, <1>6, Types, LimitsAssumption
  <2>2. CASE p # 0
    BY <2>2, <1>1, <1>4, <1>6 DEF Good, Young, Running
  <2> QED BY <2>1, <2>2
<1>9. Spoken(t)'
  BY <1>7 DEF Spoken, Making
<1>10. Wav(t)'
  <2>1. words'[t] = words[t] /\ Audio(words'[t]) = Audio(words[t])
    BY <1>4
  <2> QED BY <2>1, <1>1, <1>4, <1>6, <1>7 DEF Good, Wav
<1>11. Tidy(t)'
  <2>1. Own(t)' = Own(t)
    BY <1>4 DEF Own
  <2>2. \A p \in Parts : Other(t, p)' => p = 0
    BY <2>1, <1>1, <1>6 DEF Good, Tidy, Other
  <2> QED BY <2>2, <1>4, <1>7 DEF Tidy
<1>12. \A u \in Tasks \ {t} : Still(u)
  BY <1>4, <1>6 DEF Still, Inv, TypeOK
<1> QED BY <1>1, <1>4, <1>7, <1>8, <1>9, <1>10, <1>11, <1>12, Local DEF Good, Finished

(* A file that is removed takes nothing else with it. *)
LEMMA Removed ==
  ASSUME Inv, NEW t \in Tasks, NEW q \in Parts, disk' = [disk EXCEPT ![t][q] = NoFile]
  PROVE  /\ disk' \in [Tasks -> [Parts -> File \cup {NoFile}]]
         /\ \A u \in Tasks \ {t} : disk'[u] = disk[u]
         /\ \A p \in Parts : There(t, p)' => There(t, p) /\ p # q /\ disk'[t][p] = disk[t][p]
         /\ \A p \in Parts \ {q} : disk'[t][p] = disk[t][p]
BY Types DEF There

LEMMA UnlinkInv == ASSUME Inv, NEW t \in Tasks, Unlink(t) PROVE Inv'
<1> DEFINE q == Head(paths[t])
<1>1. pc[t] \in {"unlink", "unwind"} /\ Good(t) /\ paths[t] # <<>> /\ paths[t] \in Seq(1 .. MaxChunks)
  BY Types DEF Inv, Unlink
<1>2. q \in Parts /\ q # 0 /\ Tail(paths[t]) \in Seq(1 .. MaxChunks) /\ 0 \in Parts
  <2>1. q \in 1 .. MaxChunks
    BY <1>1, HeadTailProperties
  <2>2. Tail(paths[t]) \in Seq(1 .. MaxChunks)
    BY <1>1, HeadTailProperties
  <2> QED BY <2>1, <2>2, ChunksAssumption DEF Parts
<1>3. /\ disk' = [disk EXCEPT ![t][q] = NoFile]
      /\ paths' = [paths EXCEPT ![t] = Tail(@)]
      /\ UNCHANGED <<pc, words, spent, todo, cut, made>>
  BY DEF Unlink, history
<1>4. /\ disk' \in [Tasks -> [Parts -> File \cup {NoFile}]]
      /\ \A u \in Tasks \ {t} : disk'[u] = disk[u]
      /\ \A p \in Parts : There(t, p)' => There(t, p) /\ p # q /\ disk'[t][p] = disk[t][p]
      /\ \A p \in Parts \ {q} : disk'[t][p] = disk[t][p]
  BY <1>2, <1>3, Removed
<1>5. paths' \in [Tasks -> Seq(1 .. MaxChunks)] /\ paths'[t] = Tail(paths[t])
  BY <1>2, <1>3 DEF Inv, TypeOK
<1>6. TypeOK'
  BY <1>3, <1>4, <1>5 DEF Inv, TypeOK
<1>7. \A p \in Parts : Other(t, p)' => Other(t, p)
  <2> SUFFICES ASSUME NEW p \in Parts, Other(t, p)', NEW i \in DOMAIN paths[t], p = paths[t][i]
               PROVE  FALSE
    BY <1>4 DEF Other, Own
  <2>1. i \in Nat /\ i # 1 /\ 1 <= i /\ i <= Len(paths[t])
    BY <1>1, <1>4 DEF Other
  <2>2. i - 1 \in DOMAIN Tail(paths[t]) /\ Tail(paths[t])[i - 1] = paths[t][i]
    BY <2>1, <1>1
  <2> QED BY <2>2, <1>5 DEF Other, Own
<1>8. Young(t)'
  BY <1>3, <1>4, <1>1 DEF Good, Young
<1>9. Spoken(t)'
  BY <1>1, <1>3 DEF Spoken, Making
<1>10. Wav(t)'
  BY <1>1, <1>2, <1>3, <1>4 DEF Good, Wav, There
<1>11. Tidy(t)'
  BY <1>1, <1>3, <1>7 DEF Good, Tidy
<1>12. \A u \in Tasks \ {t} : Still(u)
  BY <1>3, <1>4 DEF Still, Inv, TypeOK
<1> QED BY <1>1, <1>3, <1>6, <1>8, <1>9, <1>10, <1>11, <1>12, Local DEF Good, Finished

(***************************************************************************)
(* The clean-up and the clock.                                             *)
(***************************************************************************)

(* A file that is older than the time to live is nobody's: an execution    *)
(* does not live as long.                                                  *)
LEMMA ExpiredFinished == ASSUME Inv PROVE \A f \in Expired : pc[f[1]] \in Finished
<1> SUFFICES ASSUME NEW f \in Expired, pc[f[1]] \notin Finished PROVE FALSE
  OBVIOUS
<1> DEFINE t == f[1]
           p == f[2]
<1>1. t \in Tasks /\ p \in Parts /\ There(t, p) /\ disk[t][p].age > Ttl
  BY DEF Expired
<1>2. Good(t) /\ disk[t][p] \in File /\ spent[t] \in 0 .. HardLimit
      /\ pc[t] \in Running \cup {"new", "ended", "raised", "killed"}
  BY <1>1, Types DEF Inv, There, TypeOK
<1>3. CASE pc[t] = "new"
  BY <1>1, <1>2, <1>3 DEF Good, Tidy
<1>4. CASE pc[t] \in Running
  BY <1>1, <1>2, <1>4, LimitsAssumption DEF Good, Young, File, Age
<1> QED BY <1>2, <1>3, <1>4 DEF Finished

LEMMA SweepInv == ASSUME Inv, NEW c \in Cleaners, Sweep(c) PROVE Inv'
<1>1. UNCHANGED <<disk, pc, words, paths, spent, cut, made>> /\ todo' = [todo EXCEPT ![c] = Expired]
  BY DEF Sweep, history
<1>2. TypeOK'
  BY <1>1 DEF Inv, TypeOK, Expired
<1>3. OnlyFinished'
  BY <1>1, ExpiredFinished DEF Inv, TypeOK, OnlyFinished
<1>4. \A t \in Tasks : Good(t)'
  BY <1>1, Frame DEF Inv, Still
<1> QED BY <1>2, <1>3, <1>4 DEF Inv

LEMMA RemoveInv == ASSUME Inv, NEW c \in Cleaners, Remove(c) PROVE Inv'
<1>1. PICK f \in todo[c] : /\ disk' = [disk EXCEPT ![f[1]][f[2]] = NoFile]
                           /\ todo' = [todo EXCEPT ![c] = @ \ {f}]
                           /\ UNCHANGED <<pc, words, paths, spent, cut, made>>
  BY DEF Remove, history
<1> DEFINE t == f[1]
           q == f[2]
<1>2. t \in Tasks /\ q \in Parts /\ pc[t] \in Finished /\ Good(t)
  BY DEF Inv, TypeOK, OnlyFinished
<1>3. /\ disk' \in [Tasks -> [Parts -> File \cup {NoFile}]]
      /\ \A u \in Tasks \ {t} : disk'[u] = disk[u]
      /\ \A p \in Parts : There(t, p)' => There(t, p) /\ p # q /\ disk'[t][p] = disk[t][p]
  BY <1>1, <1>2, Removed
<1> HIDE DEF t, q
<1>4. TypeOK'
  BY <1>1, <1>3 DEF Inv, TypeOK
<1>5. OnlyFinished'
  BY <1>1 DEF Inv, TypeOK, OnlyFinished
<1>6. ASSUME NEW u \in Tasks PROVE Good(u)'
  <2>1. CASE u # t
    BY <2>1, <1>1, <1>3, Frame DEF Inv, Still
  <2>2. CASE u = t
    <3>1. 0 \in Parts
      BY ChunksAssumption DEF Parts
    <3>2. \A p \in Parts : Other(t, p)' => Other(t, p)
      BY <1>1, <1>3 DEF Other, Own
    <3>3. Young(t)' /\ Spoken(t)'
      BY <1>1, <1>2 DEF Young, Spoken, Running, Making, Finished
    <3>4. Wav(t)'
      BY <3>1, <1>1, <1>2, <1>3 DEF Good, Wav, Finished
    <3>5. Tidy(t)'
      BY <3>2, <1>1, <1>2 DEF Good, Tidy, Finished
    <3> QED BY <2>2, <3>3, <3>4, <3>5 DEF Good
  <2> QED BY <2>1, <2>2
<1> QED BY <1>4, <1>5, <1>6 DEF Inv

LEMMA Aging ==
  ASSUME NEW file \in File \cup {NoFile}
  PROVE  /\ Older(file) \in File \cup {NoFile}
         /\ Older(file) = NoFile <=> file = NoFile
         /\ file # NoFile => Older(file).audio = file.audio /\ Older(file).age <= file.age + 1
BY NoFileAssumption, LimitsAssumption DEF Older, File, Age

LEMMA TickInv == ASSUME Inv, Tick PROVE Inv'
<1>1. /\ \A t \in Tasks : pc[t] \in Running => spent[t] < HardLimit
      /\ disk' = [t \in Tasks |-> [p \in Parts |-> Older(disk[t][p])]]
      /\ spent' = [t \in Tasks |-> IF pc[t] \in Running THEN spent[t] + 1 ELSE spent[t]]
      /\ UNCHANGED <<pc, words, paths, todo, cut, made>>
  BY DEF Tick, history
<1>2. ASSUME NEW t \in Tasks, NEW p \in Parts
      PROVE  /\ disk'[t][p] = Older(disk[t][p]) /\ disk'[t][p] \in File \cup {NoFile}
             /\ There(t, p)' <=> There(t, p)
             /\ There(t, p) => disk'[t][p].audio = disk[t][p].audio
                               /\ disk'[t][p].age <= disk[t][p].age + 1
  BY <1>1, Types, Aging DEF There
<1>3. TypeOK'
  <2>1. disk' \in [Tasks -> [Parts -> File \cup {NoFile}]]
    BY <1>1, <1>2
  <2>2. spent' \in [Tasks -> 0 .. HardLimit]
    BY <1>1, LimitsAssumption DEF Inv, TypeOK
  <2> QED BY <1>1, <2>1, <2>2 DEF Inv, TypeOK
<1>4. OnlyFinished'
  BY <1>1 DEF Inv, OnlyFinished
<1>5. ASSUME NEW t \in Tasks PROVE Good(t)'
  <2>1. Good(t) /\ (\A p \in Parts : There(t, p)' <=> There(t, p)) /\ Own(t)' = Own(t)
    BY <1>1, <1>2 DEF Inv, Own
  <2>2. \A p \in Parts : Other(t, p)' <=> Other(t, p)
    BY <2>1 DEF Other
  <2>3. Young(t)'
    <3> SUFFICES ASSUME pc[t] \in Running, NEW p \in Parts, There(t, p)
                 PROVE  disk'[t][p].age <= spent'[t]
      BY <1>1, <2>1 DEF Young
    <3>1. disk[t][p].age <= spent[t] /\ spent'[t] = spent[t] + 1 /\ spent[t] \in Nat
      BY <1>1, <2>1, Types, LimitsAssumption DEF Good, Young
    <3>2. disk'[t][p].age <= disk[t][p].age + 1 /\ disk[t][p].age \in Nat /\ disk'[t][p].age \in Nat
      BY <1>2, Types, LimitsAssumption DEF There, File, Age
    <3> QED BY <3>1, <3>2
  <2>4. Spoken(t)'
    <3> SUFFICES ASSUME pc[t] \in Making PROVE Spoken(t)'
      BY <1>1 DEF Spoken
    <3>1. ASSUME NEW i \in DOMAIN paths[t] PROVE i \in Parts
      BY <2>1, Types, ChunksAssumption DEF Good, Spoken, Making, Parts
    <3> QED BY <3>1, <1>1, <1>2, <2>1 DEF Good, Spoken
  <2>5. Wav(t)'
    <3>1. 0 \in Parts
      BY ChunksAssumption DEF Parts
    <3> QED BY <3>1, <1>1, <1>2, <2>1 DEF Good, Wav
  <2>6. Tidy(t)'
    BY <1>1, <2>1, <2>2 DEF Good, Tidy
  <2> QED BY <2>3, <2>4, <2>5, <2>6 DEF Good
<1> QED BY <1>3, <1>4, <1>5 DEF Inv

LEMMA StepInv == Inv /\ [Next]_vars => Inv'
<1> SUFFICES ASSUME Inv, [Next]_vars PROVE Inv'
  OBVIOUS
<1>1. ASSUME NEW t \in Tasks, Work(t) \/ Finish(t) PROVE Inv'
  <2>1. CASE Moves(t) BY <2>1, MovesInv
  <2>2. CASE OpenChunk(t) BY <2>2, OpenChunkInv
  <2>3. CASE Speak(t) BY <2>3, SpeakInv
  <2>4. CASE Rename(t) BY <2>4, RenameInv
  <2>5. CASE OpenFinal(t) BY <2>5, OpenFinalInv
  <2>6. CASE WriteFinal(t) BY <2>6, WriteFinalInv
  <2>7. CASE Unlink(t) BY <2>7, UnlinkInv
  <2> QED BY <1>1, <2>1, <2>2, <2>3, <2>4, <2>5, <2>6, <2>7 DEF Work, Moves
<1>2. ASSUME NEW c \in Cleaners, Clean(c) PROVE Inv'
  BY <1>2, SweepInv, RemoveInv DEF Clean
<1>3. CASE Tick
  BY <1>3, TickInv
<1>4. CASE UNCHANGED vars
  <2>1. TypeOK' /\ OnlyFinished'
    BY <1>4 DEF Inv, TypeOK, OnlyFinished, vars, history
  <2>2. \A t \in Tasks : Good(t)'
    BY <1>4, Frame DEF Inv, Still, vars, history
  <2> QED BY <2>1, <2>2 DEF Inv
<1> QED BY <1>1, <1>2, <1>3, <1>4 DEF Next

(***************************************************************************)
(* The properties of Synthesis, for every number of executions and         *)
(* clean-ups, every size of the chunks and every length of the text.       *)
(***************************************************************************)
LEMMA WavOfInv == Inv => WavIsWhole
<1> SUFFICES ASSUME Inv, NEW t \in made
             PROVE  /\ pc[t] = "returned" => There(t, 0)
                    /\ There(t, 0) => /\ UNION {disk[t][0].audio[i] : i \in DOMAIN disk[t][0].audio} = 1 .. words[t]
                                      /\ InOrder(disk[t][0].audio)
  BY DEF WavIsWhole
<1>1. t \in Tasks /\ Wav(t) /\ words[t] \in Texts
  BY Types DEF Inv, TypeOK, Good
<1>2. There(t, 0) => disk[t][0].audio = Audio(words[t])
  BY <1>1 DEF Wav
<1> QED BY <1>1, <1>2, CutWhole DEF Wav

LEMMA LeavesOfInv == Inv => LeavesAtMostOne
<1> SUFFICES ASSUME Inv, NEW t \in Tasks \ cut, pc[t] \in {"returned", "ended", "raised"},
                    NEW p \in Parts, NEW q \in Parts, There(t, p), There(t, q)
             PROVE  p = q
  BY DEF LeavesAtMostOne
<1>1. Tidy(t) /\ paths[t] = <<>>
  BY DEF Inv, Good, Tidy
<1>2. Other(t, p) /\ Other(t, q)
  BY <1>1 DEF Other, Own
<1> QED BY <1>1, <1>2 DEF Tidy

(* How a step moves the execution it belongs to.                           *)
LEMMA StepOf ==
  ASSUME Inv, NEW t \in Tasks, Work(t) \/ Finish(t)
  PROVE  /\ \A u \in Tasks \ {t} : Outcome(u)' = Outcome(u) /\ disk'[u] = disk[u]
         /\ Measure(t) \/ made' = made
         /\ pc[t] = "returned" => disk' = disk
         /\ Measure(t) \/ Outcome(t)' = Outcome(t)
              \/ (Outcome(t)' = "over" /\ Outcome(t) \in {"running", "produced"})
<1> USE DEF Work, Begin, OpenChunk, Speak, Rename, OpenFinal, WriteFinal, Unlink, Unlinked,
            Raise, CutShort, MeasureRaises, Finish, Kill, Goto, Put, history
<1>1. pc \in [Tasks -> Running \cup {"new", "ended", "raised", "killed"}]
      /\ disk \in [Tasks -> [Parts -> File \cup {NoFile}]]
  BY Types DEF Inv, TypeOK
<1>2. \A u \in Tasks \ {t} : pc'[u] = pc[u] /\ disk'[u] = disk[u]
  BY <1>1 DEF Measure
<1>3. Measure(t) \/ made' = made
  OBVIOUS
<1>4. pc[t] = "returned" => disk' = disk
  BY DEF Measure
<1>5. Measure(t) \/ Outcome(t)' = Outcome(t)
        \/ (Outcome(t)' = "over" /\ Outcome(t) \in {"running", "produced"})
  <2>1. CASE Begin(t) \/ OpenChunk(t) \/ Speak(t) \/ Rename(t) \/ OpenFinal(t) \/ WriteFinal(t)
    BY <2>1, <1>1 DEF Outcome
  <2>2. CASE Unlink(t) \/ Unlinked(t) \/ Raise(t) \/ CutShort(t)
    BY <2>2, <1>1 DEF Outcome
  <2>3. CASE MeasureRaises(t) \/ Kill(t) \/ Finish(t)
    BY <2>3, <1>1 DEF Outcome, Running
  <2> QED BY <2>1, <2>2, <2>3
<1> QED BY <1>2, <1>3, <1>4, <1>5 DEF Outcome

LEMMA AudioStutter ==
  ASSUME \A t \in Tasks : Outcome(t)' = Outcome(t), Volume' = Volume
  PROVE  UNCHANGED Contract!vars
BY DEF Contract!vars

LEMMA AudioGoto ==
  ASSUME NEW t \in Tasks, \A u \in Tasks \ {t} : Outcome(u)' = Outcome(u)
  PROVE  Contract!Goto(t, Outcome(t)')
BY DEF Contract!Goto

(* A step of an execution is a step of AudioContract, or changes nothing   *)
(* that the rest of the worker can see.                                    *)
LEMMA WorkImplements ==
  ASSUME Inv, NEW t \in Tasks, Work(t) \/ Finish(t)
  PROVE  Contract!Next \/ UNCHANGED Contract!vars
<1>1. CASE Measure(t)
  <2>1. Outcome(t) = "running" /\ Outcome(t)' = "produced"
    BY <1>1 DEF Measure, Goto, Outcome, Inv, TypeOK
  <2>2. Volume' = Volume \cup {t}
    BY <1>1 DEF Measure, Volume, There
  <2>3. Contract!Goto(t, "produced")
    BY <2>1, StepOf, AudioGoto
  <2> QED BY <2>1, <2>2, <2>3 DEF Contract!Next, Contract!Produce
<1>2. CASE ~Measure(t)
  <2>1. Volume' = Volume
    <3>1. made' = made /\ made \subseteq Tasks
      BY <1>2, StepOf DEF Inv, TypeOK
    <3>2. ASSUME NEW u \in made PROVE There(u, 0)' <=> There(u, 0)
      <4>1. CASE u # t
        BY <4>1, <3>1, StepOf DEF There
      <4>2. CASE u = t
        <5>1. pc[t] \in {"returned", "ended", "killed"}
          BY <4>2 DEF Inv, Good, Wav
        <5>2. pc[t] = "returned"
          BY <5>1, <1>2 DEF Work, Begin, OpenChunk, Speak, Rename, OpenFinal, WriteFinal, Unlink,
                            Unlinked, Raise, CutShort, MeasureRaises, Finish, Kill, Running
        <5> QED BY <4>2, <5>2, StepOf DEF There
      <4> QED BY <4>1, <4>2
    <3> QED BY <3>1, <3>2 DEF Volume
  <2>2. CASE Outcome(t)' = Outcome(t)
    BY <2>1, <2>2, StepOf, AudioStutter
  <2>3. CASE Outcome(t)' = "over" /\ Outcome(t) \in {"running", "produced"}
    <3>1. Contract!Goto(t, "over")
      BY <2>3, StepOf, AudioGoto
    <3> QED BY <2>1, <2>3, <3>1 DEF Contract!Next, Contract!Over
  <2> QED BY <1>2, <2>2, <2>3, StepOf
<1> QED BY <1>1, <1>2

LEMMA RemoveImplements ==
  ASSUME Inv, NEW c \in Cleaners, Remove(c)
  PROVE  Contract!Next \/ UNCHANGED Contract!vars
<1>1. PICK f \in todo[c] : /\ disk' = [disk EXCEPT ![f[1]][f[2]] = NoFile]
                           /\ UNCHANGED <<pc, made>>
  BY DEF Remove, history
<1> DEFINE t == f[1]
           q == f[2]
<1>2. t \in Tasks /\ q \in Parts /\ pc[t] \in Finished /\ made \subseteq Tasks /\ 0 \in Parts
  BY ChunksAssumption DEF Inv, TypeOK, OnlyFinished, Parts
<1>3. /\ \A u \in Tasks \ {t} : disk'[u] = disk[u]
      /\ \A p \in Parts : There(t, p)' => There(t, p) /\ p # q
  BY <1>1, <1>2, Removed
<1>4. \A p \in Parts \ {q} : disk'[t][p] = disk[t][p]
  BY <1>1, <1>2, Types
<1> HIDE DEF t, q
<1>5. \A u \in Tasks : Outcome(u)' = Outcome(u)
  BY <1>1 DEF Outcome
<1>6. CASE q = 0 /\ t \in Volume
  <2>1. Volume' = Volume \ {t}
    BY <1>1, <1>2, <1>3, <1>4, <1>6 DEF Volume, There
  <2>2. Outcome(t) = "over"
    BY <1>2 DEF Outcome, Finished
  <2> QED BY <1>2, <1>5, <1>6, <2>1, <2>2 DEF Contract!Next, Contract!Expire
<1>7. CASE ~(q = 0 /\ t \in Volume)
  <2>1. Volume' = Volume
    BY <1>1, <1>2, <1>3, <1>4, <1>7 DEF Volume, There
  <2> QED BY <1>5, <2>1, AudioStutter
<1> QED BY <1>6, <1>7

LEMMA TickImplements == ASSUME Inv, Tick PROVE UNCHANGED Contract!vars
<1>1. 0 \in Parts /\ made \subseteq Tasks
  BY ChunksAssumption DEF Parts, Inv, TypeOK
<1>2. ASSUME NEW t \in Tasks PROVE There(t, 0)' <=> There(t, 0)
  <2>1. disk'[t][0] = Older(disk[t][0]) /\ disk[t][0] \in File \cup {NoFile}
    BY <1>1, Types DEF Tick
  <2> QED BY <2>1, Aging DEF There
<1>3. UNCHANGED <<pc, made>>
  BY DEF Tick, history
<1> QED BY <1>1, <1>2, <1>3, AudioStutter DEF Outcome, Volume

LEMMA AudioInit == Init => Contract!Init
BY DEF Init, Contract!Init, Outcome, Volume

LEMMA AudioStep == Inv /\ [Next]_vars => [Contract!Next]_Contract!vars
<1> SUFFICES ASSUME Inv, [Next]_vars PROVE Contract!Next \/ UNCHANGED Contract!vars
  OBVIOUS
<1>1. CASE \E t \in Tasks : Work(t) \/ Finish(t)
  BY <1>1, WorkImplements
<1>2. CASE \E c \in Cleaners : Clean(c)
  <2>1. ASSUME NEW c \in Cleaners, Sweep(c) PROVE UNCHANGED Contract!vars
    BY <2>1, AudioStutter DEF Sweep, Outcome, Volume, There, history
  <2> QED BY <1>2, <2>1, RemoveImplements DEF Clean
<1>3. CASE Tick
  BY <1>3, TickImplements
<1>4. CASE UNCHANGED vars
  BY <1>4, AudioStutter DEF Outcome, Volume, There, vars, history
<1> QED BY <1>1, <1>2, <1>3, <1>4 DEF Next

(***************************************************************************)
(* Storage: every step is one of Synthesis, or leaves its variables alone. *)
(***************************************************************************)
LEMMA StorageSteps == [StorageNext]_allVars => [Next]_vars
BY DEF StorageNext, Upload, ExpireObject, CleanLocal, Boot, HeadBucket, CreateBucket, PutLifecycle,
       BootFails, Restart, Next, allVars

(* What holds in every reachable state of Storage.                         *)
THEOREM StorageInvariant == StorageSpec => []Inv
<1>1. StorageInit => Inv
  BY InitInv DEF StorageInit
<1>2. Inv /\ [StorageNext]_allVars => Inv'
  BY StorageSteps, StepInv
<1> QED BY <1>1, <1>2, PTL DEF StorageSpec

(* celery_app.py:164-179 and 195-260 against backend.py:93-104: whichever  *)
(* way a text is cut, a WAV that _synthesise has returned speaks all of it *)
(* in order, and no clean-up takes it from a task that is still running,   *)
(* because the hard time limit is below the time to live.                  *)
THEOREM WholeWavs == StorageSpec => []WavIsWhole
BY StorageInvariant, WavOfInv, PTL

(* celery_app.py:251-253: the finally clause leaves one file at most.      *)
THEOREM OneFileLeft == StorageSpec => []LeavesAtMostOne
BY StorageInvariant, LeavesOfInv, PTL

(* The file operations, with every exception, kill and clean-up between    *)
(* them, implement what the rest of the worker relies on.                  *)
THEOREM SynthesisImplementsAudio == StorageSpec => ImplementsAudio
<1>1. StorageInit => Contract!Init
  BY AudioInit DEF StorageInit
<1>2. Inv /\ [StorageNext]_allVars => [Contract!Next]_Contract!vars
  BY StorageSteps, AudioStep
<1> QED BY <1>1, <1>2, StorageInvariant, PTL DEF StorageSpec, ImplementsAudio, Contract!Spec

Store ==
  /\ backend \in Backends
  /\ bucket \in [exists : BOOLEAN, rule : BOOLEAN]
  /\ objects \subseteq Tasks
  /\ boot \in [Apis -> {"head", "create", "rule", "ready", "failed"}]
  /\ starts \in 0 .. MaxStarts
  /\ halfway \in BOOLEAN
  /\ BucketKeepsRule

LEMMA StoreInit == StorageInit => Store
<1> SUFFICES ASSUME StorageInit PROVE Store
  OBVIOUS
<1>1. bucket = [exists |-> FALSE, rule |-> FALSE] /\ halfway = FALSE
  BY DEF StorageInit
<1>2. bucket \in [exists : BOOLEAN, rule : BOOLEAN] /\ halfway \in BOOLEAN
  BY <1>1, Zenon
<1>3. ~bucket.exists
  BY <1>1
<1>4. boot \in [Apis -> {"head", "create", "rule", "ready", "failed"}]
  BY DEF StorageInit
<1>5. backend \in Backends /\ objects \subseteq Tasks /\ starts \in 0 .. MaxStarts
  BY StorageAssumption DEF StorageInit
<1> QED BY <1>2, <1>3, <1>4, <1>5 DEF Store, BucketKeepsRule

LEMMA StoreStep == Store /\ [StorageNext]_allVars => Store'
<1> SUFFICES ASSUME Store, [StorageNext]_allVars PROVE Store'
  OBVIOUS
<1> USE DEF Store, BucketKeepsRule, At, BootTo, storeVars
<1>1. ASSUME NEW t \in Tasks, (Work(t) /\ UNCHANGED storeVars) \/ Upload(t) \/ ExpireObject(t) PROVE Store'
  BY <1>1 DEF Upload, ExpireObject
<1>2. ASSUME NEW c \in Cleaners, CleanLocal(c) PROVE Store'
  BY <1>2 DEF CleanLocal
<1>3. ASSUME NEW a \in Apis, Boot(a) PROVE Store'
  <2>1. CASE HeadBucket(a) BY <2>1 DEF HeadBucket
  <2>2. CASE CreateBucket(a) BY <2>2 DEF CreateBucket
  <2>3. CASE PutLifecycle(a) BY <2>3 DEF PutLifecycle
  <2>4. CASE BootFails(a) BY <2>4 DEF BootFails
  <2> QED BY <1>3, <2>1, <2>2, <2>3, <2>4 DEF Boot
<1>4. ASSUME NEW a \in Apis, Restart(a) PROVE Store'
  BY <1>4, StorageAssumption DEF Restart
<1>5. CASE (Tick /\ UNCHANGED storeVars) \/ UNCHANGED allVars
  BY <1>5 DEF allVars
<1> QED BY <1>1, <1>2, <1>3, <1>4, <1>5 DEF StorageNext

(* The type invariant of Storage.                                          *)
THEOREM StorageTypes == StorageSpec => []StorageTypeOK
<1>1. Inv /\ Store => StorageTypeOK
  BY DEF Inv, Store, StorageTypeOK
<1> QED BY <1>1, StoreInit, StoreStep, StorageInvariant, PTL DEF StorageSpec

(* backend.py:187-203: only a process that fails between its two calls     *)
(* leaves a bucket without a lifecycle rule, however many processes race.  *)
THEOREM BucketRule == StorageSpec => []BucketKeepsRule
<1>1. Store => BucketKeepsRule
  BY DEF Store
<1> QED BY <1>1, StoreInit, StoreStep, PTL DEF StorageSpec
=============================================================================
