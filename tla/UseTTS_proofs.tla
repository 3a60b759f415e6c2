---------------------------- MODULE UseTTS_proofs ----------------------------
(***************************************************************************)
(* The hook's safety for any number of calls. The properties are not       *)
(* inductive by themselves: that the last call alone is in flight needs    *)
(* that no later call has been aborted beforehand, and that its success    *)
(* leaks no URL needs that generate has revoked the previous one.          *)
(***************************************************************************)
EXTENDS UseTTS, TLAPS

InFlight(c) == call[c] \in {"waiting", "refused"} /\ c \notin aborted

(* Only the last request is ever in flight, and the spinner shows no other. *)
LastInFlight ==
  /\ \A c \in Call : InFlight(c) => c = current /\ mounted
  /\ mounted /\ loading => InFlight(current)

AbortedAreStarted == \A c \in aborted : c <= current

NoBlobInFlight == \A c \in Call : InFlight(c) => blob = NoCall

AudioIsBlob == audio # NoCall => blob = audio

Hook ==
  /\ TypeOK
  /\ AudioIsCurrent
  /\ NoBlobLeaks
  /\ LastInFlight
  /\ AbortedAreStarted
  /\ NoBlobInFlight
  /\ AudioIsBlob

(* The hook starts in its invariant. *)
LEMMA InitHook == Init => Hook
  BY CallsAssumption DEF Init, Hook, TypeOK, AudioIsCurrent, NoBlobLeaks, LastInFlight,
     AbortedAreStarted, NoBlobInFlight, AudioIsBlob, InFlight, Call, NoCall

(* No step of the hook, of its user or of the browser leaves it. *)
LEMMA NextHook == Hook /\ [Next]_vars => Hook'
<1> SUFFICES ASSUME Hook, [Next]_vars PROVE Hook'
  OBVIOUS
<1> USE CallsAssumption
    DEF Hook, TypeOK, AudioIsCurrent, NoBlobLeaks, LastInFlight, AbortedAreStarted,
        NoBlobInFlight, AudioIsBlob, InFlight, Call, NoCall, shown, refs
<1>1. CASE Generate
  <2>1. TypeOK'
    BY <1>1 DEF Generate, Abort
  <2>2. /\ current + 1 \in Call
        /\ current + 1 \notin aborted'
        /\ current # NoCall => current \in aborted'
    BY <1>1 DEF Generate, Abort
  <2>3. \A c \in Call : InFlight(c)' => c = current'
    BY <1>1, <2>2 DEF Generate, Abort
  <2>4. urls' = {}
    BY <1>1 DEF Generate
  <2>. QED BY <1>1, <2>1, <2>2, <2>3, <2>4 DEF Generate, Abort
<1>2. CASE Cancel
  <2>1. TypeOK'
    BY <1>2 DEF Cancel, Abort
  <2>2. \A c \in Call : ~InFlight(c)'
    BY <1>2 DEF Cancel, Abort
  <2>3. AbortedAreStarted'
    BY <1>2 DEF Cancel, Abort
  <2>. QED BY <1>2, <2>1, <2>2, <2>3 DEF Cancel
<1>3. CASE Unmount
  <2>1. TypeOK'
    BY <1>3 DEF Unmount, Abort
  <2>2. \A c \in Call : ~InFlight(c)'
    BY <1>3 DEF Unmount, Abort
  <2>. QED BY <1>3, <2>1, <2>2 DEF Unmount, Abort
<1>4. ASSUME NEW c \in Call, NotOk(c) PROVE Hook'
  BY <1>4 DEF NotOk
<1>5. ASSUME NEW c \in Call, Fails(c) PROVE Hook'
  BY <1>5 DEF Fails, Over, Show
<1>6. ASSUME NEW c \in Call, Aborts(c) PROVE Hook'
  BY <1>6 DEF Aborts, Over, Show
<1>7. ASSUME NEW c \in Call, Succeeds(c) PROVE Hook'
  <2>1. c = current /\ mounted /\ blob = NoCall /\ urls = {}
    BY <1>7 DEF Succeeds
  <2>2. TypeOK'
    BY <1>7 DEF Succeeds, Over, Show
  <2>3. \A d \in Call : ~InFlight(d)'
    BY <1>7, <2>1 DEF Succeeds, Over
  <2>. QED BY <1>7, <2>1, <2>2, <2>3 DEF Succeeds, Show
<1>8. CASE UNCHANGED vars
  BY <1>8 DEF vars
<1>. QED BY <1>1, <1>2, <1>3, <1>4, <1>5, <1>6, <1>7, <1>8 DEF Next, Settle

(* The invariant holds throughout. *)
LEMMA HookAlways == Spec => []Hook
  BY InitHook, NextHook, PTL DEF Spec

(* The hook's state keeps its type: useTTS of ttsClient.js. *)
THEOREM TypeCorrect == Spec => []TypeOK
  BY HookAlways, PTL DEF Hook

(* However many requests are cancelled by their successors, and in         *)
(* whatever order they end, the page plays the audio of the last one.      *)
THEOREM AudioOfLast == Spec => []AudioIsCurrent
  BY HookAlways, PTL DEF Hook

(* Every object URL that the hook creates is revoked.                      *)
THEOREM UrlsRevoked == Spec => []NoBlobLeaks
  BY HookAlways, PTL DEF Hook
=============================================================================
