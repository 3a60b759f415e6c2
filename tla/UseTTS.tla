-------------------------------- MODULE UseTTS --------------------------------
(***************************************************************************)
(* The React hook useTTS of react-client/ttsClient.js: generate may be     *)
(* called again while an earlier generateSpeech is still waiting, cancel   *)
(* and unmounting abort it. Every call keeps its own continuation, which   *)
(* runs when the browser settles the promise it awaits: an aborted call is *)
(* not gone, it still runs its catch and finally clauses, in between the   *)
(* steps of its successor. What runs between two awaits is one step; the   *)
(* awaits of generateSpeech are one wait here, as ClientSession has them.  *)
(* progress and stats follow loading and audio and are left out.           *)
(***************************************************************************)
EXTENDS Naturals

CONSTANT MaxCalls  \* BOUND: the calls of generate

ASSUME CallsAssumption == MaxCalls \in Nat \ {0}

VARIABLES
  mounted,  \* whether the component is
  current,  \* the call whose AbortController is in abortRef
  aborted,  \* the calls whose signal is aborted
  call,     \* what the continuation of each call waits for
  loading,  \* the state the component shows: the spinner,
  audio,    \* the call whose blob is in audioUrl,
  error,    \* and the call whose message is in error
  blob,     \* the call whose URL is in blobUrlRef
  urls      \* ENVIRONMENT: the object URLs of the browser, by their call

shown == <<loading, audio, error>>
refs  == <<current, blob>>
vars  == <<mounted, refs, aborted, call, shown, urls>>

Call   == 1 .. MaxCalls
NoCall == 0

TypeOK ==
  /\ mounted \in BOOLEAN
  /\ current \in Call \cup {NoCall}
  /\ aborted \subseteq Call
  /\ call \in [Call -> {"none", "waiting", "refused", "over"}]
  /\ loading \in BOOLEAN
  /\ audio \in Call \cup {NoCall}
  /\ error \in Call \cup {NoCall}
  /\ blob \in Call \cup {NoCall}
  /\ urls \subseteq Call

Init ==
  /\ mounted = TRUE
  /\ current = NoCall
  /\ aborted = {}
  /\ call = [c \in Call |-> "none"]
  /\ loading = FALSE
  /\ audio = NoCall
  /\ error = NoCall
  /\ blob = NoCall
  /\ urls = {}

(* Mistake: the first call has no AbortController to abort. *)
AbortUnchecked == aborted' = aborted \cup {current}

(* abortRef.current?.abort() *)
Abort == aborted' = IF current = NoCall THEN aborted ELSE aborted \cup {current}

(* Mistake: the previous request is not cancelled. *)
GenerateBeside ==
  /\ mounted
  /\ current < MaxCalls
  /\ current' = current + 1
  /\ call' = [call EXCEPT ![current + 1] = "waiting"]
  /\ urls' = urls \ {blob}
  /\ blob' = NoCall
  /\ loading' = TRUE
  /\ audio' = NoCall
  /\ error' = NoCall
  /\ UNCHANGED <<mounted, aborted>>

Generate ==
  /\ mounted
  /\ current < MaxCalls
  /\ Abort
  /\ current' = current + 1
  /\ call' = [call EXCEPT ![current + 1] = "waiting"]
  /\ urls' = urls \ {blob}
  /\ blob' = NoCall
  /\ loading' = TRUE
  /\ audio' = NoCall
  /\ error' = NoCall
  /\ UNCHANGED mounted

(* A response that is not ok: apiFetch reads its body for the detail, and  *)
(* swallows whatever reading it throws.                                    *)
NotOk(c) ==
  /\ call[c] = "waiting"
  /\ c \notin aborted
  /\ call' = [call EXCEPT ![c] = "refused"]
  /\ UNCHANGED <<mounted, refs, aborted, shown, urls>>

Over(c) == call' = [call EXCEPT ![c] = "over"]

(* An unmounted component ignores its setters. *)
Show(l, a, e) ==
  IF mounted THEN loading' = l /\ audio' = a /\ error' = e ELSE UNCHANGED shown

(* The error of the response, of the network, of the synthesis or of the   *)
(* last poll. A response whose body was being read when the call was       *)
(* aborted still ends in its own error.                                    *)
Fails(c) ==
  /\ call[c] \in {"waiting", "refused"}
  /\ c \in aborted => call[c] = "refused"
  /\ Over(c)
  /\ Show(FALSE, audio, c)
  /\ UNCHANGED <<mounted, refs, aborted, urls>>

(* The AbortError: catch ignores it, finally does not. *)
Aborts(c) ==
  /\ call[c] = "waiting"
  /\ c \in aborted
  /\ Over(c)
  /\ Show(FALSE, audio, error)
  /\ UNCHANGED <<mounted, refs, aborted, urls>>

Succeeds(c) ==
  /\ call[c] = "waiting"
  /\ c \notin aborted
  /\ Over(c)
  /\ urls' = urls \cup {c}
  /\ blob' = c
  /\ Show(FALSE, c, error)
  /\ UNCHANGED <<mounted, current, aborted>>

Cancel ==
  /\ mounted
  /\ Abort
  /\ loading' = FALSE
  /\ UNCHANGED <<mounted, refs, call, audio, error, urls>>

(* Mistake: the effect's clean-up leaves the request running. *)
UnmountOnly ==
  /\ mounted
  /\ mounted' = FALSE
  /\ urls' = urls \ {blob}
  /\ UNCHANGED <<refs, aborted, call, shown>>

(* The effect's clean-up. *)
Unmount ==
  /\ mounted
  /\ mounted' = FALSE
  /\ urls' = urls \ {blob}
  /\ Abort
  /\ UNCHANGED <<refs, call, shown>>

Settle(c) == Fails(c) \/ Aborts(c) \/ Succeeds(c)

Next ==
  \/ Generate \/ Cancel \/ Unmount
  \/ \E c \in Call : NotOk(c) \/ Settle(c)

Spec == Init /\ [][Next]_vars

(***************************************************************************)
(* Properties.                                                             *)
(***************************************************************************)

(* The audio on the page belongs to the last request, however the earlier  *)
(* ones end, and its object URL has not been revoked.                      *)
AudioIsCurrent == mounted /\ audio # NoCall => audio = current /\ audio \in urls

(* No blob outlives its use: the browser keeps at most the URL that        *)
(* blobUrlRef can still revoke, and none once the component is gone.       *)
NoBlobLeaks == urls \subseteq (IF mounted THEN {blob} ELSE {})
=============================================================================
