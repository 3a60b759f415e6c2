------------------------- MODULE RateLimiter_proofs -------------------------
(***************************************************************************)
(* What holds of the rate limiter for any number of processes and requests *)
(* and any burst, window and fallback limit.                               *)
(***************************************************************************)
EXTENDS RateLimiter, FiniteSetTheorems, SequenceTheorems, FunctionTheorems, TLAPS

(***************************************************************************)
(* The invariant of the window in Redis.                                   *)
(***************************************************************************)
Begun == {r \in Reqs : ~Is(r, "new")}

(* Nothing is stamped in the future, every stamp of the window has been    *)
(* counted, and the key outlives each of them by a window.                 *)
StampsInv ==
  /\ IsFiniteSet(Begun)
  /\ \A r \in Begun : req[r].at <= now
  /\ window \subseteq counted
  /\ \A s \in window : s <= now /\ s + Window <= expires

(* Those that Redis has let through, whether or not they know it yet. *)
Passed == {r \in Reqs : Is(r, "within") \/ (Is(r, "admitted") /\ req[r].by = "redis")}

(* The best tier among some requests allows for their stamps n times over. *)
Bounded(f, rs, n) ==
  rs # {} => \E r \in rs : Cardinality({f[s].at : s \in rs}) <= Burst[f[r].tier] * n

(* Those of a window that ends at t, those of the window that ends now,    *)
(* and of these the ones whose stamps a restart has removed.               *)
Within(t) == {r \in Passed : req[r].at <= t /\ req[r].at + Window > t + delay}
Fit       == {r \in Passed : req[r].at + Window > now}
Forgotten == {r \in Fit : req[r].at \notin window}

(* All subsets are bounded: a request may still fall back and leave them.  *)
WindowInv ==
  /\ \A t \in Time : \A rs \in SUBSET Within(t) : Bounded(req, rs, 1 + restarts)
  /\ \A rs \in SUBSET Fit : Bounded(req, rs, 1 + restarts)
  /\ \A rs \in SUBSET Forgotten : Bounded(req, rs, restarts)

(* WaitingHelps, for those that Redis turns away and that do not know yet. *)
Turned == {r \in Reqs : Is(r, "over") \/ (Is(r, "rejected") /\ req[r].by = "redis")}

TurnedInv ==
  \A r \in Turned : Cardinality(Recent(counted, req[r].at)) > Burst[req[r].tier]

(***************************************************************************)
(* The invariant of the deques.                                            *)
(***************************************************************************)
Fell(p) == {r \in Outcome("admitted", "fallback") : req[r].proc = p}

(* A deque is sorted, holds the time of one admitted request at each       *)
(* position, and of all that a window from now still concerns.             *)
Mirrors(f, p) ==
  /\ f \in Injection(DOMAIN deque[p], Fell(p))
  /\ \A i \in DOMAIN deque[p] : req[f[i]].at = deque[p][i]
  /\ \A r \in Fell(p) : ~Stale(req[r].at, now) => \E i \in DOMAIN deque[p] : f[i] = r

DequeInv ==
  \A p \in Procs :
    /\ \A i, j \in DOMAIN deque[p] : i <= j => deque[p][i] <= deque[p][j]
    /\ \E f \in [DOMAIN deque[p] -> Reqs] : Mirrors(f, p)

(***************************************************************************)
(* Types.                                                                  *)
(***************************************************************************)
LEMMA AskedType ==
  ASSUME TypeOK, NEW r \in Reqs, Is(r, "sent") \/ Is(r, "within") \/ Is(r, "over")
  PROVE  req[r] \in Asked
BY DEF TypeOK, Is, Fresh, Asked, Decided

LEMMA DecidedType ==
  ASSUME TypeOK, NEW r \in Reqs, Is(r, "admitted") \/ Is(r, "rejected")
  PROVE  req[r] \in Decided
BY DEF TypeOK, Is, Fresh, Asked, Decided

LEMMA BegunType ==
  ASSUME TypeOK, NEW r \in Begun
  PROVE  /\ r \in Reqs
         /\ req[r].at \in Time
         /\ req[r].tier \in Tiers
         /\ req[r].proc \in Procs
<1>1. r \in Reqs /\ req[r] \in Fresh \cup Asked \cup Decided /\ req[r].pc # "new"
  BY DEF TypeOK, Begun, Is
<1>2. req[r] \notin Fresh
  BY <1>1 DEF Fresh
<1>3. QED
  BY <1>1, <1>2 DEF Asked, Decided

(* What is left of a deque when its first n stamps are popped. *)
LEMMA PoppedType ==
  ASSUME NEW q \in Seq(Time), NEW t, NEW n \in Popped(q, t)
  PROVE  /\ n \in 0 .. Len(q)
         /\ SubSeq(q, n + 1, Len(q)) \in Seq(Time)
         /\ Len(SubSeq(q, n + 1, Len(q))) = Len(q) - n
         /\ \A i \in 1 .. Len(q) - n : SubSeq(q, n + 1, Len(q))[i] = q[n + i]
<1>1. n \in 0 .. Len(q) /\ Len(q) \in Nat
  BY LenProperties DEF Popped
<1>2. \A i \in n + 1 .. Len(q) : q[i] \in Time
  BY <1>1, ElementOfSeq
<1>3. /\ SubSeq(q, n + 1, Len(q)) \in Seq(Time)
      /\ Len(SubSeq(q, n + 1, Len(q))) =
           IF n + 1 <= Len(q) THEN Len(q) - (n + 1) + 1 ELSE 0
      /\ \A i \in 1 .. Len(q) - (n + 1) + 1 :
           SubSeq(q, n + 1, Len(q))[i] = q[n + 1 + i - 1]
  BY <1>1, <1>2, SubSeqProperties
<1>4. QED
  BY <1>1, <1>3

(* What the fallback does: n stamps are popped, and q is left.             *)
Falls(r, n, q) ==
  LET p == req[r].proc IN
  /\ n \in Popped(deque[p], now) /\ n \in 0 .. Len(deque[p])
  /\ q \in Seq(Time)
  /\ Len(q) \in Nat /\ Len(deque[p]) \in Nat /\ Len(q) = Len(deque[p]) - n
  /\ \A i \in 1 .. Len(q) : q[i] = deque[p][n + i]
  /\ deque' = [deque EXCEPT ![p] = IF Len(q) >= FallbackRpm THEN q ELSE Append(q, now)]
  /\ req' = [req EXCEPT ![r] =
       [pc |-> IF Len(q) < FallbackRpm THEN "admitted" ELSE "rejected",
        proc |-> p, tier |-> req[r].tier, at |-> now, by |-> "fallback"]]

LEMMA FallBackFacts ==
  ASSUME TypeOK, NEW r \in Reqs, FallBack(r)
  PROVE  /\ req[r] \in Asked /\ req[r].proc \in Procs
         /\ \E n \in Nat, q \in Seq(Time) : Falls(r, n, q)
         /\ UNCHANGED <<now, window, expires, restarts, counted, delay>>
<1> DEFINE p == req[r].proc
<1>1. req[r] \in Asked
  BY AskedType DEF FallBack, FallBackWith
<1>2. p \in Procs /\ deque[p] \in Seq(Time)
  BY <1>1 DEF Asked, TypeOK
<1>3. PICK n \in Popped(deque[p], now) :
        LET q == SubSeq(deque[p], n + 1, Len(deque[p])) IN
        /\ deque' = [deque EXCEPT ![p] = IF Len(q) >= FallbackRpm THEN q ELSE Append(q, now)]
        /\ req' = [req EXCEPT ![r] =
             [pc |-> IF Len(q) < FallbackRpm THEN "admitted" ELSE "rejected",
              proc |-> p, tier |-> req[r].tier, at |-> now, by |-> "fallback"]]
  BY DEF FallBack, FallBackWith, Decide
<1> DEFINE q == SubSeq(deque[p], n + 1, Len(deque[p]))
<1>4. Len(deque[p]) \in Nat
  BY <1>2, LenProperties
<1>5. /\ n \in 0 .. Len(deque[p]) /\ q \in Seq(Time)
      /\ Len(q) = Len(deque[p]) - n
      /\ \A i \in 1 .. Len(deque[p]) - n : q[i] = deque[p][n + i]
  <2> HIDE DEF p
  <2>1. QED
    BY <1>2, PoppedType
<1>6. Falls(r, n, q)
  <2> HIDE DEF q
  <2>1. QED
    BY <1>3, <1>4, <1>5 DEF Falls, q
<1>7. n \in Nat /\ q \in Seq(Time)
  BY <1>4, <1>5
<1>8. QED
  BY <1>1, <1>2, <1>6, <1>7 DEF FallBack, FallBackWith, history

LEMMA FallsFacts ==
  ASSUME TypeOK, NEW r \in Reqs, req[r] \in Asked, NEW n, NEW q, Falls(r, n, q)
  PROVE  /\ req[r].pc # "new" /\ req[r].pc # "admitted" /\ req[r].pc # "rejected"
         /\ req'[r].pc = IF Len(q) < FallbackRpm THEN "admitted" ELSE "rejected"
         /\ req'[r].proc = req[r].proc /\ req'[r].tier = req[r].tier
         /\ req'[r].at = now /\ req'[r].by = "fallback"
         /\ \A s \in Reqs : s # r => req'[s] = req[s]
BY DEF TypeOK, Falls, Asked

LEMMA InitTypes == Init => TypeOK
<1> SUFFICES ASSUME Init PROVE TypeOK
  OBVIOUS
<1>1. deque \in [Procs -> Seq(Time)] /\ \A p \in Procs : Len(deque[p]) <= FallbackRpm
  BY LimiterAssumption, EmptySeq DEF Init
<1>2. QED
  BY <1>1, LimiterAssumption DEF Init, TypeOK, Fresh, Time

LEMMA TypeStep == TypeOK /\ [Next]_vars => TypeOK'
<1> SUFFICES ASSUME TypeOK, [Next]_vars PROVE TypeOK'
  OBVIOUS
<1> USE LimiterAssumption
<1>1. ASSUME NEW r \in Reqs, NEW p \in Procs, NEW t \in Tiers, Ask(r, p, t)
      PROVE  TypeOK'
  <2>1. [pc |-> "sent", proc |-> p, tier |-> t, at |-> now] \in Asked
    BY DEF TypeOK, Asked
  <2>2. QED
    BY <1>1, <2>1 DEF TypeOK, Ask, history
<1>2. ASSUME NEW r \in Reqs, Count(r)
      PROVE  TypeOK'
  <2>1. req[r] \in Asked
    BY <1>2, AskedType DEF Count
  <2> DEFINE kept == Recent(Live \cup {req[r].at}, req[r].at)
  <2>2. Execute(r, kept, Cardinality(kept))
    BY <1>2 DEF Count
  <2>3. req' \in [Reqs -> Fresh \cup Asked \cup Decided]
    <3>1. \A pc \in {"within", "over"} : [req[r] EXCEPT !.pc = pc] \in Asked
      BY <2>1 DEF Asked
    <3>2. QED
      BY <2>2, <3>1 DEF TypeOK, Execute
  <2>4. window' \subseteq Time /\ counted' \subseteq Time
    BY <2>1, <2>2 DEF TypeOK, Execute, Recent, Live, Asked
  <2>5. expires' \in Nat /\ delay' \in Time
    BY <2>1, <2>2 DEF TypeOK, Execute, Asked, Time
  <2>6. QED
    BY <2>2, <2>3, <2>4, <2>5 DEF TypeOK, Execute
<1>3. ASSUME NEW r \in Reqs, Respond(r)
      PROVE  TypeOK'
  <2>1. req[r] \in Asked
    BY <1>3, AskedType DEF Respond
  <2>2. req' \in [Reqs -> Fresh \cup Asked \cup Decided]
    BY <1>3, <2>1 DEF TypeOK, Respond, Decide, Asked, Decided
  <2>3. QED
    BY <1>3, <2>2 DEF TypeOK, Respond, history
<1>4. ASSUME NEW r \in Reqs, FallBack(r)
      PROVE  TypeOK'
  <2> DEFINE p == req[r].proc
  <2>1. req[r] \in Asked /\ p \in Procs /\ deque[p] \in Seq(Time) /\ now \in Time
    BY <1>4, FallBackFacts DEF TypeOK
  <2>2. PICK n \in Nat, q \in Seq(Time) : Falls(r, n, q)
    BY <1>4, FallBackFacts
  <2>3. Len(q) \in Nat /\ Len(q) <= Len(deque[p])
    BY <2>2 DEF Falls
  <2>4. Append(q, now) \in Seq(Time) /\ Len(Append(q, now)) = Len(q) + 1
    BY <2>1, <2>2, AppendProperties
  <2>5. deque' \in [Procs -> Seq(Time)] /\ \A w \in Procs : Len(deque'[w]) <= FallbackRpm
    BY <2>1, <2>2, <2>3, <2>4 DEF TypeOK, Falls
  <2>6. req' \in [Reqs -> Fresh \cup Asked \cup Decided]
    BY <2>1, <2>2 DEF TypeOK, Falls, Asked, Decided
  <2>7. faults' \in 0 .. MaxFaults /\ restarts' \in 0 .. faults'
    BY <1>4 DEF TypeOK, FallBack, FallBackWith, history
  <2>8. QED
    BY <1>4, <2>5, <2>6, <2>7, FallBackFacts DEF TypeOK
<1>5. CASE RestartRedis
  BY <1>5 DEF TypeOK, RestartRedis
<1>6. CASE Tick
  BY <1>6 DEF TypeOK, Tick, history, Time
<1>7. CASE UNCHANGED vars
  BY <1>7 DEF TypeOK, vars, history
<1>8. QED
  BY <1>1, <1>2, <1>3, <1>4, <1>5, <1>6, <1>7 DEF Next

(* RateLimiter!TypeOK: in particular no deque ever holds more stamps than  *)
(* FALLBACK_RPM, although a request is appended to it after others have    *)
(* been popped (rate_limit.py:44-54).                                      *)
THEOREM TypeCorrect == Spec => []TypeOK
BY InitTypes, TypeStep, PTL DEF Spec

(***************************************************************************)
(* The stamps.                                                             *)
(***************************************************************************)

(* What Redis does with the pipeline of r. *)
LEMMA CountFacts ==
  ASSUME TypeOK, NEW r \in Reqs, Count(r)
  PROVE  LET kept == Recent(Live \cup {req[r].at}, req[r].at) IN
         /\ req[r] \in Asked /\ Is(r, "sent") /\ req[r].tier \in Tiers /\ req[r].at \in Time
         /\ window' = kept /\ kept \subseteq Time
         /\ expires' = now + Window
         /\ req' \in [Reqs -> Fresh \cup Asked \cup Decided]
         /\ \A s \in Reqs : s # r => req'[s] = req[s]
         /\ req'[r].at = req[r].at /\ req'[r].tier = req[r].tier
         /\ req'[r].pc = IF Cardinality(kept) <= Burst[req[r].tier] THEN "within" ELSE "over"
         /\ counted' = counted \cup {req[r].at}
         /\ delay' = IF now - req[r].at > delay THEN now - req[r].at ELSE delay
         /\ UNCHANGED <<now, deque, faults, restarts>>
<1>1. req[r] \in Asked
  BY AskedType DEF Count
<1> DEFINE kept == Recent(Live \cup {req[r].at}, req[r].at)
<1>2. Is(r, "sent") /\ Execute(r, kept, Cardinality(kept))
  BY DEF Count
<1>3. kept \subseteq Time
  BY <1>1 DEF TypeOK, Recent, Live, Asked
<1>4. req' \in [Reqs -> Fresh \cup Asked \cup Decided]
  BY TypeStep DEF Next, TypeOK
<1>5. req' = [req EXCEPT ![r] = [req[r] EXCEPT !.pc =
                IF Cardinality(kept) <= Burst[req[r].tier] THEN "within" ELSE "over"]]
  BY <1>2 DEF Execute
<1>6. \A pc : /\ [req[r] EXCEPT !.pc = pc].pc = pc
              /\ [req[r] EXCEPT !.pc = pc].at = req[r].at
              /\ [req[r] EXCEPT !.pc = pc].tier = req[r].tier
  BY <1>1 DEF Asked
<1> HIDE DEF kept
<1>7. /\ \A s \in Reqs : s # r => req'[s] = req[s]
      /\ req'[r].at = req[r].at /\ req'[r].tier = req[r].tier
      /\ req'[r].pc = IF Cardinality(kept) <= Burst[req[r].tier] THEN "within" ELSE "over"
  BY <1>5, <1>6 DEF TypeOK
<1>8. req[r].tier \in Tiers /\ req[r].at \in Time
  BY <1>1 DEF Asked
<1>9. QED
  BY <1>1, <1>2, <1>3, <1>4, <1>7, <1>8 DEF Execute, kept

LEMMA RespondFacts ==
  ASSUME TypeOK, NEW r \in Reqs, Respond(r)
  PROVE  /\ req[r] \in Asked
         /\ \/ Is(r, "within") /\ req'[r].pc = "admitted"
            \/ Is(r, "over") /\ req'[r].pc = "rejected"
         /\ \A s \in Reqs : s # r => req'[s] = req[s]
         /\ req'[r].at = req[r].at /\ req'[r].tier = req[r].tier
         /\ req'[r].proc = req[r].proc /\ req'[r].by = "redis"
         /\ UNCHANGED <<now, window, expires, deque, faults, restarts, counted, delay>>
<1>1. req[r] \in Asked
  BY AskedType DEF Respond
<1>2. QED
  BY <1>1 DEF TypeOK, Respond, Decide, Is, history

LEMMA InitStamps == Init => StampsInv
<1> SUFFICES ASSUME Init PROVE StampsInv
  OBVIOUS
<1>1. Begun = {}
  BY DEF Init, Begun, Is
<1>2. QED
  BY <1>1, FS_EmptySet DEF Init, StampsInv

LEMMA StampsStep == TypeOK /\ StampsInv /\ [Next]_vars => StampsInv'
<1> SUFFICES ASSUME TypeOK, StampsInv, [Next]_vars PROVE StampsInv'
  OBVIOUS
<1> USE LimiterAssumption
<1>0. now \in Nat
  BY DEF TypeOK, Time
<1>1. ASSUME NEW r \in Reqs, NEW p \in Procs, NEW t \in Tiers, Ask(r, p, t)
      PROVE  StampsInv'
  <2>1. Begun' = Begun \cup {r} /\ \A s \in Begun' : req'[s].at <= now
    BY <1>0, <1>1 DEF TypeOK, StampsInv, Ask, Begun, Is
  <2>2. IsFiniteSet(Begun')
    BY <2>1, FS_AddElement DEF StampsInv
  <2>3. QED
    BY <1>1, <2>1, <2>2 DEF StampsInv, Ask, history
<1>2. ASSUME NEW r \in Reqs, Count(r)
      PROVE  StampsInv'
  <2>1. r \in Begun
    BY <1>2 DEF Count, Begun, Is
  <2>2. Begun' = Begun
    BY <1>2, <2>1, CountFacts DEF Begun, Is
  <2>3. \A s \in Begun : req'[s].at = req[s].at
    BY <1>2, CountFacts DEF Begun
  <2>4. req[r].at <= now /\ req[r].at \in Nat
    BY <2>1, BegunType DEF StampsInv, Time
  <2>5. ASSUME NEW s \in window'
        PROVE  s \in counted' /\ s <= now /\ s + Window <= now + Window
    <3>1. s \in window \/ s = req[r].at
      BY <1>2, <2>5, CountFacts DEF Recent, Live
    <3>2. s \in Nat /\ s <= now
      <4>1. CASE s \in window
        BY <4>1 DEF StampsInv, TypeOK, Time
      <4>2. QED
        BY <2>4, <3>1, <4>1
    <3>3. s \in counted'
      BY <1>2, <3>1, CountFacts DEF StampsInv
    <3>4. QED
      BY <1>0, <3>2, <3>3
  <2>6. QED
    BY <1>2, <2>2, <2>3, <2>5, CountFacts DEF StampsInv
<1>3. ASSUME NEW r \in Reqs, Respond(r)
      PROVE  StampsInv'
  <2>1. Begun' = Begun /\ \A s \in Begun : req'[s].at = req[s].at
    BY <1>3, RespondFacts DEF Begun, Is
  <2>2. QED
    BY <1>3, <2>1, RespondFacts DEF StampsInv
<1>4. ASSUME NEW r \in Reqs, FallBack(r)
      PROVE  StampsInv'
  <2>1. PICK n \in Nat, q \in Seq(Time) : Falls(r, n, q)
    BY <1>4, FallBackFacts
  <2>2. Begun' = Begun /\ \A s \in Begun' : req'[s].at <= now
    BY <1>0, <1>4, <2>1, FallsFacts, FallBackFacts DEF StampsInv, Begun, Is
  <2>3. QED
    BY <1>4, <2>2, FallBackFacts DEF StampsInv
<1>5. CASE RestartRedis
  BY <1>5 DEF StampsInv, RestartRedis, Begun, Is
<1>6. CASE Tick
  <2>1. Begun' = Begun /\ \A s \in Begun \cup window : now' \in Nat /\ now <= now'
    BY <1>0, <1>6 DEF Tick, Begun, Is
  <2>2. ASSUME NEW s \in Begun PROVE req'[s].at <= now'
    <3>1. req[s].at \in Nat
      BY BegunType DEF Time
    <3>2. QED
      BY <1>0, <1>6, <2>1, <3>1 DEF Tick, StampsInv
  <2>3. ASSUME NEW s \in window PROVE s <= now'
    BY <1>0, <1>6 DEF Tick, StampsInv, TypeOK, Time
  <2>4. QED
    BY <1>6, <2>1, <2>2, <2>3 DEF Tick, StampsInv, history
<1>7. CASE UNCHANGED vars
  BY <1>7 DEF StampsInv, vars, history, Begun, Is
<1>8. QED
  BY <1>1, <1>2, <1>3, <1>4, <1>5, <1>6, <1>7 DEF Next

(***************************************************************************)
(* What a step may do to one request, and to what only grows.              *)
(***************************************************************************)
LEMMA RequestStep ==
  ASSUME TypeOK, [Next]_vars, NEW r \in Reqs
  PROVE  \/ req'[r] = req[r]
         \/ Is(r, "new") /\ req'[r].pc = "sent"
         \/ Count(r) \/ Respond(r) \/ FallBack(r)
<1>1. ASSUME NEW s \in Reqs, NEW p \in Procs, NEW t \in Tiers, Ask(s, p, t)
      PROVE  req'[r] = req[r] \/ (Is(r, "new") /\ req'[r].pc = "sent")
  BY <1>1 DEF TypeOK, Ask
<1>2. ASSUME NEW s \in Reqs, s # r, Count(s) \/ Respond(s)
      PROVE  req'[r] = req[r]
  BY <1>2, CountFacts, RespondFacts
<1>3. ASSUME NEW s \in Reqs, s # r, FallBack(s)
      PROVE  req'[r] = req[r]
  BY <1>3, FallBackFacts, FallsFacts
<1>4. CASE RestartRedis \/ Tick \/ UNCHANGED vars
  BY <1>4 DEF RestartRedis, Tick, vars
<1>5. QED
  BY <1>1, <1>2, <1>3, <1>4 DEF Next

LEMMA Growth ==
  ASSUME TypeOK, [Next]_vars
  PROVE  /\ counted \subseteq counted' /\ counted' \subseteq Time
         /\ now <= now' /\ delay <= delay' /\ restarts <= restarts'
         /\ {now, now', delay, delay', restarts, restarts'} \subseteq Nat
<1> USE LimiterAssumption
<1>1. TypeOK'
  BY TypeStep
<1>2. /\ counted' \subseteq Time
      /\ {now, now', delay, delay', restarts, restarts'} \subseteq Nat
  BY <1>1 DEF TypeOK, Time
<1>3. counted \subseteq counted' /\ now <= now' /\ delay <= delay' /\ restarts <= restarts'
  <2>1. CASE \E r \in Reqs : Count(r)
    <3>1. PICK r \in Reqs : Count(r)
      BY <2>1
    <3>2. req[r].at \in Nat
      BY <3>1, AskedType DEF Count, Asked, Time
    <3>3. /\ counted' = counted \cup {req[r].at}
          /\ delay' = IF now - req[r].at > delay THEN now - req[r].at ELSE delay
          /\ now' = now /\ restarts' = restarts
      BY <3>1, CountFacts
    <3>4. QED
      BY <1>2, <3>2, <3>3
  <2>2. CASE \E r \in Reqs : Respond(r)
    BY <1>2, <2>2, RespondFacts
  <2>3. CASE \E r \in Reqs : FallBack(r)
    BY <1>2, <2>3, FallBackFacts
  <2>4. CASE \E r \in Reqs, p \in Procs, t \in Tiers : Ask(r, p, t)
    BY <1>2, <2>4 DEF Ask, history
  <2>5. CASE RestartRedis \/ Tick \/ UNCHANGED vars
    BY <1>2, <2>5 DEF RestartRedis, Tick, vars, history
  <2>6. QED
    BY <2>1, <2>2, <2>3, <2>4, <2>5 DEF Next
<1>4. QED
  BY <1>2, <1>3

LEMMA TimeFinite == \A T \in SUBSET Time : IsFiniteSet(T) /\ Cardinality(T) \in Nat
<1>1. IsFiniteSet(Time)
  BY LimiterAssumption, FS_Interval DEF Time
<1>2. QED
  BY <1>1, FS_Subset, FS_CardinalityType

LEMMA Smaller ==
  ASSUME NEW T \in SUBSET Time, NEW S \in SUBSET T
  PROVE  Cardinality(S) <= Cardinality(T)
BY TimeFinite, FS_Subset

(***************************************************************************)
(* Whom Redis turns away.                                                  *)
(***************************************************************************)
LEMMA TurnedStep == TypeOK /\ StampsInv /\ TurnedInv /\ [Next]_vars => TurnedInv'
<1> SUFFICES ASSUME TypeOK, StampsInv, TurnedInv, [Next]_vars, NEW r \in Turned'
             PROVE  Cardinality(Recent(counted', req'[r].at)) > Burst[req'[r].tier]
  BY DEF TurnedInv, Recent
<1>0. r \in Reqs /\ counted \subseteq Time
  BY DEF Turned, TypeOK
<1>1. CASE /\ r \in Turned /\ req[r].tier \in Tiers
           /\ req'[r].at = req[r].at /\ req'[r].tier = req[r].tier
  <2>1. Recent(counted, req[r].at) \subseteq Recent(counted', req[r].at)
        /\ Recent(counted', req[r].at) \subseteq Time
    BY Growth DEF Recent
  <2>2. /\ Cardinality(Recent(counted, req[r].at)) <= Cardinality(Recent(counted', req[r].at))
        /\ Cardinality(Recent(counted, req[r].at)) \in Nat
        /\ Cardinality(Recent(counted', req[r].at)) \in Nat
    BY <2>1, Smaller, TimeFinite
  <2>3. Burst[req[r].tier] \in Nat
    BY <1>1, LimiterAssumption
  <2>4. QED
    BY <1>1, <2>2, <2>3 DEF TurnedInv
<1>2. CASE Count(r)
  <2> DEFINE kept == Recent(Live \cup {req[r].at}, req[r].at)
  <2>1. req'[r].pc = IF Cardinality(kept) <= Burst[req[r].tier] THEN "within" ELSE "over"
    BY <1>0, <1>2, CountFacts
  <2>2. ~(Cardinality(kept) <= Burst[req[r].tier])
    BY <2>1 DEF Turned, Is
  <2>3. kept \subseteq Recent(counted', req[r].at) /\ Recent(counted', req[r].at) \subseteq Time
    BY <1>0, <1>2, CountFacts, Growth DEF Recent, Live, StampsInv
  <2>4. /\ Cardinality(kept) <= Cardinality(Recent(counted', req[r].at))
        /\ Cardinality(kept) \in Nat /\ Cardinality(Recent(counted', req[r].at)) \in Nat
    BY <2>3, Smaller, TimeFinite
  <2>5. Burst[req[r].tier] \in Nat
    BY <1>0, <1>2, CountFacts, LimiterAssumption
  <2>6. req'[r].at = req[r].at /\ req'[r].tier = req[r].tier
    BY <1>0, <1>2, CountFacts
  <2> HIDE DEF kept
  <2>7. QED
    BY <2>2, <2>4, <2>5, <2>6
<1>3. CASE Respond(r)
  <2>1. /\ req[r] \in Asked /\ req'[r].at = req[r].at /\ req'[r].tier = req[r].tier
        /\ Is(r, "over") \/ req'[r].pc = "admitted"
    BY <1>0, <1>3, RespondFacts
  <2>2. r \in Turned
    BY <1>0, <2>1 DEF Turned, Is
  <2>3. QED
    BY <1>1, <2>1, <2>2 DEF Asked
<1>4. CASE FallBack(r)
  BY <1>0, <1>4, FallBackFacts, FallsFacts DEF Turned, Is
<1>5. CASE Is(r, "new") /\ req'[r].pc = "sent"
  BY <1>5 DEF Turned, Is
<1>6. CASE req'[r] = req[r]
  <2>1. r \in Turned
    BY <1>6 DEF Turned, Is
  <2>2. req[r].tier \in Tiers
    BY <2>1, BegunType DEF Turned, Begun, Is
  <2>3. QED
    BY <1>1, <1>6, <2>1, <2>2
<1>7. QED
  BY <1>0, <1>2, <1>3, <1>4, <1>5, <1>6, RequestStep

(***************************************************************************)
(* Whom Redis lets through.                                                *)
(***************************************************************************)
LEMMA Product ==
  ASSUME NEW a \in Nat, NEW b \in Nat, NEW m \in Nat, NEW n \in Nat, a <= b, m <= n
  PROVE  a * m <= b * n /\ a * m \in Nat /\ b * n \in Nat
<1>1. a * m \in Nat /\ b * m \in Nat /\ b * n \in Nat
  OBVIOUS
<1>2. a * m <= b * m
  <2>1. b * m = a * m + (b - a) * m /\ (b - a) * m >= 0
    OBVIOUS
  <2>2. QED
    BY <1>1, <2>1
<1>3. b * m <= b * n
  <2>1. b * n = b * m + b * (n - m) /\ b * (n - m) >= 0
    OBVIOUS
  <2>2. QED
    BY <1>1, <2>1
<1>4. QED
  BY <1>1, <1>2, <1>3

LEMMA PassedType ==
  ASSUME TypeOK, NEW r \in Passed
  PROVE  r \in Begun /\ r \in Reqs /\ req[r].at \in Time /\ req[r].tier \in Tiers
         /\ Burst[req[r].tier] \in Nat
<1>1. r \in Begun
  BY DEF Passed, Begun, Is
<1>2. QED
  BY <1>1, BegunType, LimiterAssumption

LEMMA PassedStep ==
  ASSUME TypeOK, [Next]_vars, NEW r \in Passed', ~Count(r)
  PROVE  r \in Passed /\ req'[r].at = req[r].at /\ req'[r].tier = req[r].tier
<1>1. r \in Reqs
  BY DEF Passed
<1>2. CASE Respond(r)
  BY <1>1, <1>2, RespondFacts DEF Passed, Is
<1>3. CASE FallBack(r)
  BY <1>1, <1>3, FallBackFacts, FallsFacts DEF Passed, Is
<1>4. CASE req'[r] = req[r]
  BY <1>4 DEF Passed, Is
<1>5. QED
  BY <1>1, <1>2, <1>3, <1>4, RequestStep DEF Passed, Is

(* A bound survives for requests that a step leaves alone. *)
LEMMA BoundedLater ==
  ASSUME TypeOK, NEW rs \in SUBSET Passed, NEW m \in Nat, NEW n \in Nat, m <= n,
         \A r \in rs : req'[r].at = req[r].at /\ req'[r].tier = req[r].tier,
         Bounded(req, rs, m)
  PROVE  Bounded(req', rs, n)
<1> SUFFICES ASSUME rs # {}
             PROVE  \E r \in rs : Cardinality({req'[s].at : s \in rs}) <= Burst[req'[r].tier] * n
  BY DEF Bounded
<1> DEFINE T == {req[s].at : s \in rs}
<1>1. {req'[s].at : s \in rs} = T
  OBVIOUS
<1>2. PICK r \in rs : Cardinality(T) <= Burst[req[r].tier] * m
  BY DEF Bounded
<1>3. T \subseteq Time
  BY PassedType
<1>4. Cardinality(T) \in Nat
  BY <1>3, TimeFinite
<1>5. Burst[req[r].tier] \in Nat
  BY PassedType
<1>6. Burst[req[r].tier] * m <= Burst[req[r].tier] * n
      /\ Burst[req[r].tier] * m \in Nat /\ Burst[req[r].tier] * n \in Nat
  BY <1>5, Product
<1>7. Cardinality(T) <= Burst[req[r].tier] * n
  <2> DEFINE c == Cardinality(T)
             k == Burst[req[r].tier] * m
             l == Burst[req[r].tier] * n
  <2>1. c \in Nat /\ k \in Nat /\ l \in Nat /\ c <= k /\ k <= l
    BY <1>2, <1>4, <1>6
  <2> HIDE DEF c, k, l
  <2>2. c <= l
    BY <2>1
  <2>3. QED
    BY <2>2 DEF c, l
<1>8. r \in rs /\ req'[r].tier = req[r].tier
  BY <1>2
<1> HIDE DEF T
<1>9. QED
  BY <1>1, <1>7, <1>8

LEMMA WindowTypes ==
  TypeOK => now \in Nat /\ delay \in Nat /\ restarts \in Nat /\ Window \in Nat \ {0}
BY LimiterAssumption DEF TypeOK, Time

LEMMA InitWindow == Init => StampsInv /\ WindowInv
<1> SUFFICES ASSUME Init PROVE WindowInv
  BY InitStamps
<1>1. Passed = {}
  BY DEF Init, Passed, Is
<1>2. QED
  BY <1>1 DEF WindowInv, Bounded, Within, Fit, Forgotten

(* Steps that count no request lose requests from all three sets. *)
LEMMA OtherWindow ==
  ASSUME TypeOK, WindowInv, [Next]_vars, \A r \in Reqs : ~Count(r)
  PROVE  WindowInv'
<1>1. /\ now \in Nat /\ now' \in Nat /\ now <= now' /\ delay \in Nat /\ delay' \in Nat
      /\ delay <= delay' /\ restarts \in Nat /\ restarts' \in Nat /\ restarts <= restarts'
      /\ Window \in Nat /\ 1 + restarts \in Nat /\ 1 + restarts' \in Nat
      /\ 1 + restarts <= 1 + restarts'
  BY Growth, WindowTypes
<1>2. ASSUME NEW s \in Passed'
      PROVE  /\ s \in Passed /\ req'[s].at = req[s].at /\ req'[s].tier = req[s].tier
             /\ req[s].at \in Nat
  <2>1. s \in Passed /\ req'[s].at = req[s].at /\ req'[s].tier = req[s].tier
    BY PassedStep DEF Passed
  <2>2. QED
    BY <2>1, PassedType DEF Time
<1>3. ASSUME NEW rs \in SUBSET Passed', NEW m \in Nat, NEW n \in Nat, m <= n,
             Bounded(req, rs, m)
      PROVE  Bounded(req', rs, n)
  <2>1. rs \in SUBSET Passed /\ \A s \in rs : req'[s].at = req[s].at /\ req'[s].tier = req[s].tier
    BY <1>2
  <2>2. QED
    BY <1>3, <2>1, BoundedLater
<1>4. ASSUME NEW t \in Time, NEW rs \in SUBSET Within(t)'
      PROVE  Bounded(req', rs, 1 + restarts')
  <2>1. t \in Nat
    BY DEF Time
  <2>2. ASSUME NEW s \in Within(t)' PROVE s \in Within(t) /\ s \in Passed'
    BY <1>1, <1>2, <2>1 DEF Within
  <2>3. Bounded(req, rs, 1 + restarts) /\ rs \in SUBSET Passed'
    BY <2>2 DEF WindowInv
  <2>4. QED
    BY <1>1, <1>3, <2>3
<1>5. ASSUME NEW s \in Fit' PROVE s \in Fit /\ s \in Passed'
  BY <1>1, <1>2 DEF Fit
<1>6. ASSUME NEW rs \in SUBSET Fit'
      PROVE  Bounded(req', rs, 1 + restarts') /\ Bounded(req, rs, 1 + restarts)
  <2>1. Bounded(req, rs, 1 + restarts) /\ rs \in SUBSET Passed'
    BY <1>5 DEF WindowInv
  <2>2. QED
    BY <1>1, <1>3, <2>1
<1>7. ASSUME NEW rs \in SUBSET Forgotten'
      PROVE  Bounded(req', rs, restarts')
  <2>1. rs \in SUBSET Fit' /\ rs \in SUBSET Passed'
    BY DEF Forgotten, Fit
  <2>2. CASE RestartRedis
    <3>1. restarts' = 1 + restarts
      BY <1>1, <2>2 DEF RestartRedis
    <3>2. Bounded(req, rs, 1 + restarts)
      BY <1>6, <2>1
    <3>3. QED
      BY <1>1, <1>3, <2>1, <3>1, <3>2
  <2>3. CASE window' = window
    <3>1. rs \in SUBSET Forgotten
      BY <1>2, <1>5, <2>1, <2>3 DEF Forgotten
    <3>2. Bounded(req, rs, restarts)
      BY <3>1 DEF WindowInv
    <3>3. QED
      BY <1>1, <1>3, <2>1, <3>2
  <2>4. RestartRedis \/ window' = window
    <3>1. ASSUME NEW r \in Reqs, FallBack(r) \/ Respond(r) PROVE window' = window
      BY <3>1, FallBackFacts, RespondFacts
    <3>2. QED
      BY <3>1 DEF Next, Ask, Tick, vars
  <2>5. QED
    BY <2>2, <2>3, <2>4
<1>8. QED
  BY <1>4, <1>6, <1>7 DEF WindowInv

(* The stamps that Redis still holds allow for the burst of the request it *)
(* counts, and those it has forgotten for that of each restart.            *)
LEMMA Best ==
  ASSUME NEW a \in Nat, NEW c \in Nat, NEW b1 \in Nat, NEW b2 \in Nat, NEW n \in Nat,
         a <= b1, c <= b2 * n, NEW b \in Nat, b1 <= b, b2 <= b
  PROVE  a + c <= b * (1 + n)
<1>1. b2 * n <= b * n /\ b2 * n \in Nat /\ b * n \in Nat
  BY Product
<1>2. b * (1 + n) = b + b * n
  OBVIOUS
<1> DEFINE k == b2 * n
           l == b * n
<1>3. k \in Nat /\ l \in Nat /\ c <= k /\ k <= l
  BY <1>1
<1>4. a + c <= b + l
  <2> HIDE DEF k, l
  <2>1. QED
    BY <1>3
<1>5. QED
  BY <1>2, <1>4

LEMMA CountWindow ==
  ASSUME TypeOK, StampsInv, WindowInv, [Next]_vars, NEW r \in Reqs, Count(r)
  PROVE  WindowInv'
<1> DEFINE kept == Recent(Live \cup {req[r].at}, req[r].at)
<1>1. /\ now' = now /\ restarts' = restarts /\ window' = kept /\ kept \subseteq Time
      /\ req'[r].at = req[r].at /\ req'[r].tier = req[r].tier
      /\ req[r].at \in Time /\ req[r].tier \in Tiers
      /\ req'[r].pc = IF Cardinality(kept) <= Burst[req[r].tier] THEN "within" ELSE "over"
      /\ delay' = IF now - req[r].at > delay THEN now - req[r].at ELSE delay
      /\ \A s \in Reqs : s # r => req'[s] = req[s]
  BY CountFacts
<1>2. /\ now \in Nat /\ delay \in Nat /\ delay' \in Nat /\ delay <= delay'
      /\ restarts \in Nat /\ Window \in Nat \ {0} /\ 1 + restarts \in Nat
  BY Growth, WindowTypes
<1>3. req[r].at <= now /\ req[r].at \in Nat
  <2>1. r \in Begun
    BY DEF Count, Begun, Is
  <2>2. QED
    BY <1>1, <2>1 DEF StampsInv, Time
<1>4. ASSUME NEW s \in Passed', s # r
      PROVE  s \in Passed /\ req'[s].at = req[s].at /\ req'[s].tier = req[s].tier
             /\ req[s].at \in Nat
  <2>1. s \in Passed /\ req'[s] = req[s]
    BY <1>1, <1>4 DEF Passed, Is
  <2>2. QED
    BY <2>1, PassedType DEF Time
<1>5. ASSUME NEW rs \in SUBSET Passed', r \notin rs, NEW n \in Nat, Bounded(req, rs, n)
      PROVE  Bounded(req', rs, n)
  <2>1. rs \in SUBSET Passed /\ \A s \in rs : req'[s].at = req[s].at /\ req'[s].tier = req[s].tier
    BY <1>4, <1>5
  <2>2. QED
    BY <1>5, <2>1, BoundedLater
<1>6. ASSUME NEW s \in Fit', s # r PROVE s \in Fit /\ s \in Passed'
  BY <1>1, <1>4, <1>6 DEF Fit
<1>7. ASSUME NEW s \in Fit', req'[s].at \notin window'
      PROVE  s # r /\ s \in Forgotten
  <2>1. s # r
    <3>1. req[r].at \in kept
      BY <1>2, <1>3 DEF Recent
    <3>2. QED
      BY <1>1, <1>7, <3>1
  <2>2. s \in Fit /\ req'[s].at = req[s].at /\ req[s].at \in Nat /\ req[s].at + Window > now
    BY <1>4, <1>6, <2>1 DEF Fit
  <2>3. CASE req[s].at \in window
    <3>1. req[s].at + Window <= expires /\ expires \in Nat
      BY <2>3 DEF StampsInv, TypeOK
    <3>2. now < expires
      BY <1>2, <2>2, <3>1
    <3>3. req[s].at + Window > req[r].at
      BY <1>2, <1>3, <2>2
    <3>4. req[s].at \in kept
      BY <2>3, <3>2, <3>3 DEF Recent, Live
    <3>5. QED
      BY <1>1, <1>7, <2>2, <3>4
  <2>4. QED
    BY <2>1, <2>2, <2>3 DEF Forgotten
<1>8. ASSUME NEW rs \in SUBSET Fit'
      PROVE  Bounded(req', rs, 1 + restarts)
  <2>1. CASE r \notin rs
    <3>1. rs \in SUBSET Fit /\ rs \in SUBSET Passed'
      BY <1>6, <2>1
    <3>2. QED
      BY <1>2, <1>5, <2>1, <3>1 DEF WindowInv
  <2>2. CASE r \in rs
    <3> DEFINE In  == {s \in rs : req'[s].at \in kept}
               Out == rs \ In
               I   == {req'[s].at : s \in In}
               O   == {req'[s].at : s \in Out}
               T   == {req'[s].at : s \in rs}
    <3>1. Cardinality(kept) <= Burst[req[r].tier] /\ Burst[req[r].tier] \in Nat
      <4>1. r \in Passed'
        BY <2>2 DEF Fit
      <4>2. req'[r].pc # "over"
        <5>1. TypeOK'
          BY TypeStep
        <5>2. QED
          BY <4>1 DEF Passed, Is
      <4>3. QED
        BY <1>1, <4>2, LimiterAssumption
    <3>2. Out \subseteq Forgotten /\ Out \subseteq Passed' /\ r \notin Out
      BY <1>1, <1>6, <1>7
    <3>3. Bounded(req', Out, restarts)
      BY <1>2, <1>5, <3>2 DEF WindowInv
    <3>4. I \subseteq kept /\ T = I \cup O
      OBVIOUS
    <3>5. T \subseteq Time
      <4>1. \A s \in Passed' : req'[s].at \in Time
        <5>1. TypeOK'
          BY TypeStep
        <5>2. \A s \in Passed' : s \in Begun'
          BY DEF Passed, Begun, Is
        <5>3. QED
          BY <1>1, <1>4, PassedType
      <4>2. QED
        BY <4>1 DEF Fit
    <3>6. /\ IsFiniteSet(I) /\ IsFiniteSet(O)
          /\ Cardinality(I) \in Nat /\ Cardinality(O) \in Nat
          /\ Cardinality(I) <= Cardinality(kept) /\ Cardinality(kept) \in Nat
      BY <1>1, <3>4, <3>5, TimeFinite, Smaller
    <3>7. Cardinality(T) <= Cardinality(I) + Cardinality(O) /\ Cardinality(T) \in Nat
      <4>1. /\ Cardinality(T) = Cardinality(I) + Cardinality(O) - Cardinality(I \cap O)
            /\ Cardinality(I \cap O) \in Nat
        BY <3>4, <3>5, <3>6, FS_Union, TimeFinite
      <4>2. QED
        BY <3>5, <3>6, <4>1, TimeFinite
    <3> DEFINE B(s) == Burst[req'[s].tier]
               i    == Cardinality(I)
               o    == Cardinality(O)
    <3>8. /\ i \in Nat /\ o \in Nat /\ i <= B(r) /\ B(r) \in Nat /\ r \in rs
          /\ Out # {} => \E v \in rs : B(v) \in Nat /\ o <= B(v) * restarts
          /\ Out = {} => o = 0
      <4>1. i \in Nat /\ o \in Nat /\ i <= B(r) /\ B(r) \in Nat /\ r \in rs
        BY <1>1, <2>2, <3>1, <3>6
      <4>2. ASSUME Out # {} PROVE \E v \in rs : B(v) \in Nat /\ o <= B(v) * restarts
        <5>1. PICK v \in Out : Cardinality(O) <= Burst[req'[v].tier] * restarts
          BY <3>3, <4>2 DEF Bounded
        <5>2. v \in rs /\ v \in Passed' /\ v # r
          BY <3>2, <5>1
        <5>3. B(v) \in Nat
          <6>1. v \in Passed /\ req'[v].tier = req[v].tier
            BY <1>4, <5>2
          <6>2. QED
            BY <6>1, PassedType
        <5>4. QED
          BY <5>1, <5>2, <5>3
      <4>3. ASSUME Out = {} PROVE o = 0
        <5>1. O = {}
          BY <4>3
        <5>2. QED
          BY <5>1, FS_EmptySet
      <4>4. QED
        BY <4>1, <4>2, <4>3
    <3>9. \E w \in rs : B(w) \in Nat /\ i + o <= B(w) * (1 + restarts)
      <4> HIDE DEF Out, i, o, B
      <4>1. CASE Out = {}
        <5>1. o <= B(r) * restarts
          BY <1>2, <3>8, <4>1
        <5>2. i + o <= B(r) * (1 + restarts)
          BY <1>2, <3>8, <5>1, Best
        <5>3. QED
          BY <3>8, <5>2
      <4>2. CASE Out # {}
        <5>1. PICK v \in rs : B(v) \in Nat /\ o <= B(v) * restarts
          BY <3>8, <4>2
        <5>2. PICK w \in {r, v} : B(r) <= B(w) /\ B(v) <= B(w)
          BY <3>8, <5>1
        <5>3. w \in rs /\ B(w) \in Nat
          BY <3>8, <5>1, <5>2
        <5>4. i + o <= B(w) * (1 + restarts)
          BY <1>2, <3>8, <5>1, <5>2, <5>3, Best
        <5>5. QED
          BY <5>3, <5>4
      <4>3. QED
        BY <4>1, <4>2
    <3>10. \E w \in rs : Cardinality(T) <= B(w) * (1 + restarts)
      <4>1. PICK w \in rs : B(w) \in Nat /\ i + o <= B(w) * (1 + restarts)
        BY <3>9
      <4> DEFINE c == Cardinality(T)
                 d == i + o
                 l == B(w) * (1 + restarts)
      <4>2. c \in Nat /\ d \in Nat /\ l \in Nat /\ c <= d /\ d <= l
        BY <1>2, <3>6, <3>7, <4>1, Product
      <4> HIDE DEF c, d, l
      <4>3. c <= l
        BY <4>2
      <4>4. QED
        BY <4>3 DEF c, l
    <3>11. QED
      BY <3>10 DEF Bounded
  <2>3. QED
    BY <2>1, <2>2
<1>9. ASSUME NEW t \in Time, NEW rs \in SUBSET Within(t)'
      PROVE  Bounded(req', rs, 1 + restarts)
  <2>0. t \in Nat
    BY DEF Time
  <2>1. CASE r \notin rs
    <3>1. ASSUME NEW s \in rs PROVE s \in Within(t) /\ s \in Passed'
      BY <1>2, <1>4, <2>0, <2>1 DEF Within
    <3>2. Bounded(req, rs, 1 + restarts) /\ rs \in SUBSET Passed'
      BY <3>1 DEF WindowInv
    <3>3. QED
      BY <1>2, <1>5, <2>1, <3>2
  <2>2. CASE r \in rs
    <3>1. req[r].at <= t /\ now <= t + delay'
      <4>1. req[r].at <= t
        BY <1>1, <2>2 DEF Within
      <4>2. now - req[r].at <= delay'
        BY <1>1, <1>2, <1>3
      <4>3. QED
        BY <1>2, <1>3, <2>0, <4>1, <4>2
    <3>2. ASSUME NEW s \in rs PROVE s \in Fit'
      <4>1. s \in Passed' /\ req'[s].at + Window > t + delay' /\ req'[s].at \in Nat
        BY <1>1, <1>3, <1>4 DEF Within
      <4>2. QED
        BY <1>1, <1>2, <2>0, <3>1, <4>1 DEF Fit
    <3>3. QED
      BY <1>8, <3>2
  <2>3. QED
    BY <2>1, <2>2
<1>10. ASSUME NEW rs \in SUBSET Forgotten'
       PROVE  Bounded(req', rs, restarts)
  <2>1. rs \in SUBSET Forgotten /\ r \notin rs /\ rs \in SUBSET Passed'
    BY <1>7 DEF Forgotten, Fit
  <2>2. QED
    BY <1>2, <1>5, <2>1 DEF WindowInv
<1>11. QED
  BY <1>1, <1>8, <1>9, <1>10 DEF WindowInv

LEMMA WindowStep == TypeOK /\ StampsInv /\ WindowInv /\ [Next]_vars => WindowInv'
BY OtherWindow, CountWindow

(* RateLimiter!WindowLimit, the sliding window of rate_limit.py:162-186:   *)
(* in whatever order processes stamp, count and answer their requests and  *)
(* whenever Redis is restarted, those that Redis lets through within a     *)
(* window (shortened by the longest delay) carry no more stamps than the   *)
(* burst of their best tier, once for every restart and once more.         *)
THEOREM WindowHolds == Spec => []WindowLimit
<1>1. StampsInv /\ WindowInv => WindowLimit
  <2> SUFFICES ASSUME WindowInv, NEW t \in Time PROVE
        LET rs == {r \in Outcome("admitted", "redis") :
                     req[r].at <= t /\ req[r].at + Window > t + delay} IN
        rs # {} => \E r \in rs : Cardinality(Stamps(rs)) <= Burst[req[r].tier] * (1 + restarts)
    BY DEF WindowLimit
  <2> DEFINE rs == {r \in Outcome("admitted", "redis") :
                      req[r].at <= t /\ req[r].at + Window > t + delay}
  <2>1. rs \in SUBSET Within(t)
    BY DEF Within, Passed, Outcome
  <2>2. Bounded(req, rs, 1 + restarts)
    BY <2>1 DEF WindowInv
  <2> HIDE DEF rs
  <2>3. rs # {} => \E r \in rs : Cardinality(Stamps(rs)) <= Burst[req[r].tier] * (1 + restarts)
    BY <2>2 DEF Bounded, Stamps
  <2>4. QED
    BY <2>3 DEF rs
<1>2. Init => TypeOK /\ StampsInv /\ WindowInv
  BY InitTypes, InitWindow
<1>3. TypeOK /\ StampsInv /\ WindowInv /\ [Next]_vars => TypeOK' /\ StampsInv' /\ WindowInv'
  BY TypeStep, StampsStep, WindowStep
<1>4. QED
  BY <1>1, <1>2, <1>3, PTL DEF Spec

(***************************************************************************)
(* Whom a process lets through by itself.                                  *)
(***************************************************************************)

(* A request that fell back is final: no step changes its record. *)
LEMMA FinalStep ==
  ASSUME TypeOK, [Next]_vars, NEW r \in Reqs, Is(r, "admitted") \/ Is(r, "rejected")
  PROVE  req'[r] = req[r]
<1>1. ~Is(r, "new") /\ ~Is(r, "sent") /\ ~Is(r, "within") /\ ~Is(r, "over")
  BY DEF Is
<1>2. ~Count(r) /\ ~Respond(r) /\ ~FallBack(r)
  BY <1>1 DEF Count, Respond, FallBack, FallBackWith
<1>3. QED
  BY <1>1, <1>2, RequestStep

(* A request that was not admitted by a fallback is so only by FallBack. *)
LEMMA FellStep ==
  ASSUME TypeOK, [Next]_vars, NEW r \in Reqs, req'[r] # req[r],
         req'[r].pc \in {"admitted", "rejected"}, req'[r].by = "fallback"
  PROVE  FallBack(r)
<1>1. ~Respond(r)
  BY RespondFacts
<1>2. ~Count(r)
  BY CountFacts
<1>3. QED
  BY <1>1, <1>2, RequestStep

LEMMA FellType ==
  ASSUME TypeOK, StampsInv, NEW p \in Procs
  PROVE  /\ \A r \in Fell(p) : /\ r \in Reqs /\ r \in Begun
                               /\ req[r].at \in Time /\ req[r].at \in Nat /\ req[r].at <= now
         /\ \A S \in SUBSET Fell(p) : IsFiniteSet(S) /\ Cardinality(S) \in Nat
<1>1. ASSUME NEW r \in Fell(p)
      PROVE  /\ r \in Reqs /\ r \in Begun
             /\ req[r].at \in Time /\ req[r].at \in Nat /\ req[r].at <= now
  <2>1. r \in Begun
    BY DEF Fell, Outcome, Begun, Is
  <2>2. QED
    BY <2>1, BegunType DEF StampsInv, Time
<1>2. \A S \in SUBSET Fell(p) : S \in SUBSET Begun
  BY <1>1
<1>3. QED
  BY <1>1, <1>2, FS_Subset, FS_CardinalityType DEF StampsInv

(* The fallback has popped as many stamps as have left the window: those   *)
(* of q are of the requests that the window from now still concerns, one   *)
(* for each.                                                               *)
Current(p) == {s \in Fell(p) : ~Stale(req[s].at, now)}

LEMMA Left ==
  ASSUME TypeOK, StampsInv, DequeInv, NEW r \in Reqs, req[r] \in Asked,
         NEW n \in Nat, NEW q \in Seq(Time), Falls(r, n, q)
  PROVE  /\ \E h \in Bijection(1 .. Len(q), Current(req[r].proc)) :
              \A i \in 1 .. Len(q) : req[h[i]].at = q[i]
         /\ \A i, j \in 1 .. Len(q) : i <= j => q[i] <= q[j]
         /\ Cardinality(Current(req[r].proc)) = Len(q)
<1> DEFINE p == req[r].proc
           d == deque[p]
           N == Len(d)
           L == Len(q)
<1>1. p \in Procs /\ d \in Seq(Time)
  BY DEF Asked, TypeOK
<1>2. DOMAIN d = 1 .. N
  BY <1>1, LenProperties
<1>3. PICK f \in [DOMAIN d -> Reqs] : Mirrors(f, p)
  BY <1>1 DEF DequeInv
<1>4. /\ f \in [1 .. N -> Fell(p)]
      /\ \A i, j \in 1 .. N : f[i] = f[j] => i = j
      /\ \A i \in 1 .. N : req[f[i]].at = d[i]
      /\ \A s \in Fell(p) : ~Stale(req[s].at, now) => \E i \in 1 .. N : f[i] = s
  <2>1. /\ f \in Injection(1 .. N, Fell(p))
        /\ \A i \in 1 .. N : req[f[i]].at = d[i]
        /\ \A s \in Fell(p) : ~Stale(req[s].at, now) => \E i \in 1 .. N : f[i] = s
    BY <1>2, <1>3 DEF Mirrors
  <2>2. f \in [1 .. N -> Fell(p)]
    BY <2>1 DEF Injection
  <2>3. \A i, j \in 1 .. N : f[i] = f[j] => i = j
    BY <2>1, <2>2 DEF Injection, IsInjective
  <2>4. QED
    BY <2>1, <2>2, <2>3
<1>5. /\ n \in Nat /\ N \in Nat /\ L \in Nat /\ L = N - n /\ n \in 0 .. N
      /\ \A i \in 1 .. L : q[i] = d[n + i]
      /\ \A i \in 1 .. n : Stale(d[i], now)
      /\ n < N => ~Stale(d[n + 1], now)
  BY DEF Falls, Popped
<1>6. \A i, j \in 1 .. N : i <= j => d[i] <= d[j]
  BY <1>1, <1>2 DEF DequeInv
<1>7. \A i \in 1 .. N : d[i] \in Nat
  <2>1. \A i \in 1 .. N : d[i] \in Time
    BY <1>1, <1>2, ElementOfSeq
  <2>2. QED
    BY <2>1 DEF Time
<1>8. now \in Nat /\ Window \in Nat
  BY WindowTypes
<1> HIDE DEF p, d, N, L
<1>9. \A i, j \in 1 .. L : i <= j => q[i] <= q[j]
  BY <1>5, <1>6
<1>10. \A i \in 1 .. L : ~Stale(d[n + i], now)
  <2> SUFFICES ASSUME NEW i \in 1 .. L PROVE ~Stale(d[n + i], now)
    OBVIOUS
  <2>1. n < N /\ n + 1 \in 1 .. N /\ n + i \in 1 .. N /\ n + 1 <= n + i
    BY <1>5
  <2>2. d[n + 1] <= d[n + i] /\ d[n + 1] \in Nat /\ d[n + i] \in Nat
    BY <1>6, <1>7, <2>1
  <2>3. QED
    BY <1>5, <1>8, <2>1, <2>2 DEF Stale
<1> DEFINE h == [i \in 1 .. L |-> f[n + i]]
<1>11. \A i \in 1 .. L : h[i] \in Current(p) /\ req[h[i]].at = q[i]
  BY <1>4, <1>5, <1>10 DEF Current
<1>12. \A i, j \in 1 .. L : h[i] = h[j] => i = j
  BY <1>4, <1>5
<1>13. \A s \in Current(p) : \E i \in 1 .. L : h[i] = s
  <2> SUFFICES ASSUME NEW s \in Current(p) PROVE \E i \in 1 .. L : h[i] = s
    OBVIOUS
  <2>1. PICK i \in 1 .. N : f[i] = s
    BY <1>4 DEF Current
  <2>2. i \notin 1 .. n
    BY <1>4, <1>5, <2>1 DEF Current
  <2>3. i - n \in 1 .. L /\ n + (i - n) = i
    BY <1>5, <2>2
  <2>4. QED
    BY <2>1, <2>3
<1>14. h \in Bijection(1 .. L, Current(p))
  <2>1. h \in [1 .. L -> Current(p)]
    BY <1>11
  <2> HIDE DEF h
  <2>2. QED
    BY <1>12, <1>13, <2>1, Fun_IsBij
<1>15. Cardinality(Current(p)) = L
  <2> HIDE DEF h
  <2>1. ExistsBijection(1 .. L, Current(p))
    BY <1>14, Fun_ExistsBij
  <2>2. QED
    BY <1>5, <2>1, FS_CountingElements
<1>16. \E g \in Bijection(1 .. L, Current(p)) : \A i \in 1 .. L : req[g[i]].at = q[i]
  <2> HIDE DEF h
  <2>1. QED
    BY <1>11, <1>14
<1>17. QED
  BY <1>9, <1>15, <1>16 DEF p, L

(* Steps that do not fall back in p change nothing there. *)
LEMMA FellOther ==
  ASSUME TypeOK, [Next]_vars, NEW p \in Procs,
         \A r \in Reqs : FallBack(r) => req[r].proc # p
  PROVE  /\ deque'[p] = deque[p]
         /\ \A r : r \in Fell(p)' <=> r \in Fell(p)
         /\ \A r \in Fell(p) : req'[r] = req[r]
<1>1. \A r \in Fell(p) : req'[r] = req[r] /\ r \in Reqs
  BY FinalStep DEF Fell, Outcome
<1>2. ASSUME NEW r, r \in Fell(p)' PROVE r \in Fell(p)
  <2>1. r \in Reqs /\ req'[r].pc = "admitted" /\ req'[r].by = "fallback" /\ req'[r].proc = p
    BY <1>2 DEF Fell, Outcome, Is
  <2>2. CASE req'[r] = req[r]
    BY <2>1, <2>2 DEF Fell, Outcome, Is
  <2>3. CASE req'[r] # req[r]
    <3>1. FallBack(r)
      BY <2>1, <2>3, FellStep
    <3>2. req'[r].proc = req[r].proc
      BY <2>1, <3>1, FallBackFacts, FallsFacts
    <3>3. QED
      BY <2>1, <3>1, <3>2
  <2>4. QED
    BY <2>2, <2>3
<1>3. deque'[p] = deque[p]
  <2>1. CASE \E r \in Reqs : FallBack(r)
    <3>1. PICK r \in Reqs : FallBack(r)
      BY <2>1
    <3>2. PICK n \in Nat, q \in Seq(Time) : Falls(r, n, q)
      BY <3>1, FallBackFacts
    <3>3. req[r].proc # p
      BY <3>1
    <3>4. QED
      BY <3>2, <3>3 DEF Falls, TypeOK
  <2>2. CASE \E r \in Reqs : Count(r) \/ Respond(r)
    BY <2>2, CountFacts, RespondFacts
  <2>3. QED
    BY <2>1, <2>2 DEF Next, Ask, RestartRedis, Tick, vars
<1>4. QED
  BY <1>1, <1>2, <1>3 DEF Fell, Outcome, Is

(* What falling back in p does to those whom p has let through. *)
LEMMA FellHere ==
  ASSUME TypeOK, [Next]_vars, NEW r \in Reqs, FallBack(r),
         NEW n \in Nat, NEW q \in Seq(Time), Falls(r, n, q)
  PROVE  /\ r \notin Fell(req[r].proc) /\ now' = now
         /\ \A s : s \in Fell(req[r].proc)' <=>
              s \in Fell(req[r].proc) \/ (s = r /\ Len(q) < FallbackRpm)
         /\ \A s \in Fell(req[r].proc) : req'[s] = req[s]
<1>1. /\ ~Is(r, "admitted") /\ now' = now
      /\ req'[r].pc = (IF Len(q) < FallbackRpm THEN "admitted" ELSE "rejected")
      /\ req'[r].proc = req[r].proc /\ req'[r].by = "fallback"
      /\ \A s \in Reqs : s # r => req'[s] = req[s]
  BY FallBackFacts, FallsFacts DEF Is
<1>2. r \notin Fell(req[r].proc)
  BY <1>1 DEF Fell, Outcome
<1>3. \A s \in Fell(req[r].proc) : req'[s] = req[s]
  BY <1>1, <1>2 DEF Fell, Outcome
<1>4. ASSUME NEW s
      PROVE  s \in Fell(req[r].proc)' <=>
               s \in Fell(req[r].proc) \/ (s = r /\ Len(q) < FallbackRpm)
  <2>1. CASE s \in Reqs /\ s # r
    BY <1>1, <2>1 DEF Fell, Outcome, Is
  <2>2. CASE s = r
    BY <1>1, <1>2, <2>2 DEF Fell, Outcome, Is
  <2>3. CASE s \notin Reqs
    BY <2>3 DEF Fell, Outcome
  <2>4. QED
    BY <2>1, <2>2, <2>3
<1>5. QED
  BY <1>1, <1>2, <1>3, <1>4

LEMMA InitDeques == Init => DequeInv
<1> SUFFICES ASSUME Init, NEW p \in Procs
             PROVE  /\ \A i, j \in DOMAIN deque[p] : i <= j => deque[p][i] <= deque[p][j]
                    /\ \E f \in [DOMAIN deque[p] -> Reqs] : Mirrors(f, p)
  BY DEF DequeInv
<1>1. deque[p] = << >> /\ DOMAIN deque[p] = {}
  BY DEF Init
<1>2. Fell(p) = {}
  BY DEF Init, Fell, Outcome, Is
<1> DEFINE f == [i \in DOMAIN deque[p] |-> CHOOSE r \in Reqs : TRUE]
<1>3. f \in [DOMAIN deque[p] -> Reqs] /\ f \in Injection(DOMAIN deque[p], Fell(p))
  BY <1>1 DEF Injection, IsInjective
<1> HIDE DEF f
<1>4. Mirrors(f, p)
  BY <1>1, <1>2, <1>3 DEF Mirrors
<1>5. QED
  BY <1>1, <1>3, <1>4

LEMMA DequeStep == TypeOK /\ StampsInv /\ DequeInv /\ [Next]_vars => DequeInv'
<1> SUFFICES ASSUME TypeOK, StampsInv, DequeInv, [Next]_vars, NEW p \in Procs
             PROVE  /\ \A i, j \in DOMAIN deque'[p] : i <= j => deque'[p][i] <= deque'[p][j]
                    /\ \E f \in [DOMAIN deque'[p] -> Reqs] : Mirrors(f, p)'
  BY DEF DequeInv
<1>1. CASE \A r \in Reqs : FallBack(r) => req[r].proc # p
  <2>1. /\ deque'[p] = deque[p]
        /\ \A r : r \in Fell(p)' <=> r \in Fell(p)
        /\ \A r \in Fell(p) : req'[r] = req[r]
    BY <1>1, FellOther
  <2>2. PICK f \in [DOMAIN deque[p] -> Reqs] : Mirrors(f, p)
    BY DEF DequeInv
  <2>3. f \in Injection(DOMAIN deque[p], Fell(p)') /\ f \in [DOMAIN deque[p] -> Fell(p)]
    <3>1. Fell(p)' = Fell(p)
      BY <2>1
    <3>2. QED
      BY <2>2, <3>1 DEF Mirrors, Injection
  <2>4. \A i \in DOMAIN deque[p] : req'[f[i]].at = deque[p][i]
    BY <2>1, <2>2, <2>3 DEF Mirrors
  <2>5. ASSUME NEW s \in Fell(p)', ~Stale(req'[s].at, now')
        PROVE  \E i \in DOMAIN deque[p] : f[i] = s
    <3>1. s \in Fell(p) /\ req'[s] = req[s] /\ req[s].at \in Nat
      BY <2>1, FellType
    <3>2. now <= now' /\ now \in Nat /\ now' \in Nat /\ Window \in Nat
      BY Growth, WindowTypes
    <3>3. ~Stale(req[s].at, now)
      BY <2>5, <3>1, <3>2 DEF Stale
    <3>4. QED
      BY <2>2, <3>1, <3>3 DEF Mirrors
  <2>6. Mirrors(f, p)'
    BY <2>1, <2>3, <2>4, <2>5 DEF Mirrors
  <2>7. QED
    BY <2>1, <2>2, <2>6 DEF DequeInv
<1>2. ASSUME NEW r \in Reqs, FallBack(r), req[r].proc = p
      PROVE  /\ \A i, j \in DOMAIN deque'[p] : i <= j => deque'[p][i] <= deque'[p][j]
             /\ \E f \in [DOMAIN deque'[p] -> Reqs] : Mirrors(f, p)'
  <2>1. PICK n \in Nat, q \in Seq(Time) : Falls(r, n, q)
    BY <1>2, FallBackFacts
  <2>2. req[r] \in Asked
    BY <1>2, FallBackFacts
  <2> DEFINE L == Len(q)
  <2>3. PICK h \in Bijection(1 .. L, Current(p)) : \A i \in 1 .. L : req[h[i]].at = q[i]
    BY <1>2, <2>1, <2>2, Left
  <2>4. /\ \A i, j \in 1 .. L : i <= j => q[i] <= q[j]
        /\ L \in Nat /\ DOMAIN q = 1 .. L
    BY <1>2, <2>1, <2>2, Left, LenProperties DEF Falls
  <2>5. /\ h \in [1 .. L -> Current(p)]
        /\ \A i, j \in 1 .. L : h[i] = h[j] => i = j
        /\ \A s \in Current(p) : \E i \in 1 .. L : h[i] = s
    <3> HIDE DEF L
    <3>1. h \in [1 .. L -> Current(p)]
      BY <2>3 DEF Bijection, Injection
    <3>2. QED
      BY <2>3, <3>1 DEF Bijection, Injection, IsInjective, Surjection
  <2>6. /\ r \notin Fell(p) /\ now' = now
        /\ \A s : s \in Fell(p)' <=> s \in Fell(p) \/ (s = r /\ L < FallbackRpm)
        /\ \A s \in Fell(p) : req'[s] = req[s]
        /\ req'[r].at = now
    BY <1>2, <2>1, <2>2, FellHere, FallsFacts
  <2>7. ASSUME NEW i \in 1 .. L
        PROVE  /\ h[i] \in Fell(p) /\ h[i] \in Reqs /\ h[i] # r /\ req'[h[i]].at = q[i]
               /\ q[i] \in Nat /\ q[i] <= now
    <3>1. h[i] \in Fell(p)
      BY <2>5 DEF Current
    <3>2. QED
      BY <2>3, <2>6, <3>1, FellType
  <2>8. CASE L >= FallbackRpm
    <3>1. deque'[p] = q
      BY <1>2, <2>1, <2>2, <2>8 DEF Falls, TypeOK, Asked
    <3>2. \A s : s \in Fell(p)' <=> s \in Fell(p)
      BY <2>4, <2>6, <2>8, LimiterAssumption
    <3>3. h \in [1 .. L -> Reqs] /\ h \in Injection(1 .. L, Fell(p)')
      <4>1. h \in [1 .. L -> Fell(p)'] /\ h \in [1 .. L -> Reqs]
        BY <2>5, <2>7, <3>2
      <4> HIDE DEF L
      <4>2. QED
        BY <2>5, <4>1, Fun_IsInj
    <3>4. \A s \in Fell(p)' : ~Stale(req'[s].at, now') => \E i \in 1 .. L : h[i] = s
      BY <2>5, <2>6, <3>2 DEF Current
    <3>5. Mirrors(h, p)'
      BY <2>4, <2>7, <3>1, <3>3, <3>4 DEF Mirrors
    <3>6. QED
      BY <2>4, <3>1, <3>3, <3>5
  <2>9. CASE L < FallbackRpm
    <3>1. deque'[p] = Append(q, now)
      BY <1>2, <2>1, <2>2, <2>4, <2>9, LimiterAssumption DEF Falls, TypeOK, Asked
    <3>2. /\ DOMAIN Append(q, now) = 1 .. L + 1
          /\ \A i \in 1 .. L : Append(q, now)[i] = q[i]
          /\ Append(q, now)[L + 1] = now
      <4>1. now \in Time
        BY DEF TypeOK
      <4>2. QED
        BY <2>4, <4>1, AppendProperties, LenProperties
    <3> DEFINE g == [i \in 1 .. L + 1 |-> IF i = L + 1 THEN r ELSE h[i]]
    <3>3. \A i \in 1 .. L + 1 : i = L + 1 \/ i \in 1 .. L
      BY <2>4
    <3>4. L + 1 \in 1 .. L + 1 /\ L + 1 \notin 1 .. L /\ 1 .. L \subseteq 1 .. L + 1
      BY <2>4
    <3> HIDE DEF L
    <3>5. g \in [1 .. L + 1 -> Reqs] /\ g \in [1 .. L + 1 -> Fell(p)']
      <4>1. r \in Fell(p)'
        BY <2>6, <2>9
      <4>2. QED
        BY <2>6, <2>7, <3>3, <4>1
    <3>6. \A i, j \in 1 .. L + 1 : g[i] = g[j] => i = j
      BY <2>5, <2>7, <3>3
    <3>7. /\ \A i \in 1 .. L : g[i] = h[i]
          /\ g[L + 1] = r
      BY <3>4
    <3> HIDE DEF g
    <3>8. g \in Injection(1 .. L + 1, Fell(p)')
      BY <3>5, <3>6, Fun_IsInj
    <3>9. \A i \in 1 .. L + 1 : req'[g[i]].at = Append(q, now)[i]
      BY <2>6, <2>7, <3>2, <3>3, <3>7
    <3>10. ASSUME NEW s \in Fell(p)', ~Stale(req'[s].at, now')
           PROVE  \E i \in 1 .. L + 1 : g[i] = s
      <4>1. CASE s = r
        BY <3>4, <3>7, <4>1
      <4>2. CASE s \in Fell(p)
        <5>1. s \in Current(p)
          BY <2>6, <3>10, <4>2 DEF Current
        <5>2. QED
          BY <2>5, <3>4, <3>7, <5>1
      <4>3. QED
        BY <2>6, <4>1, <4>2
    <3>11. Mirrors(g, p)'
      BY <3>1, <3>2, <3>8, <3>9, <3>10 DEF Mirrors
    <3>12. \A i, j \in 1 .. L + 1 : i <= j => Append(q, now)[i] <= Append(q, now)[j]
      <4> SUFFICES ASSUME NEW i \in 1 .. L + 1, NEW j \in 1 .. L + 1, i <= j
                   PROVE  Append(q, now)[i] <= Append(q, now)[j]
        OBVIOUS
      <4>1. now \in Nat
        BY WindowTypes
      <4>2. CASE j = L + 1
        BY <2>7, <3>2, <3>3, <4>1, <4>2
      <4>3. CASE j \in 1 .. L
        <5>1. i \in 1 .. L
          BY <2>4, <4>3
        <5>2. QED
          BY <2>4, <3>2, <4>3, <5>1
      <4>4. QED
        BY <3>3, <4>2, <4>3
    <3>13. QED
      BY <3>1, <3>2, <3>5, <3>11, <3>12
  <2>10. QED
    BY <2>4, <2>8, <2>9, LimiterAssumption
<1>3. QED
  BY <1>1, <1>2

(***************************************************************************)
(* FallbackLimit and the second part of WaitingHelps.                      *)
(***************************************************************************)
Spell(p, t) == {r \in Fell(p) : t <= req[r].at /\ req[r].at <= t + Window}

SpellInv == \A p \in Procs, t \in Time : Cardinality(Spell(p, t)) <= FallbackRpm

LEMMA SpellStep == TypeOK /\ StampsInv /\ DequeInv /\ SpellInv /\ [Next]_vars => SpellInv'
<1> SUFFICES ASSUME TypeOK, StampsInv, DequeInv, SpellInv, [Next]_vars,
                    NEW p \in Procs, NEW t \in Time
             PROVE  Cardinality(Spell(p, t)') <= FallbackRpm
  BY DEF SpellInv
<1>0. Cardinality(Spell(p, t)) <= FallbackRpm
  BY DEF SpellInv
<1>1. CASE \A r \in Reqs : FallBack(r) => req[r].proc # p
  <2>1. Spell(p, t)' = Spell(p, t)
    BY <1>1, FellOther DEF Spell
  <2>2. QED
    BY <1>0, <2>1
<1>2. ASSUME NEW r \in Reqs, FallBack(r), req[r].proc = p
      PROVE  Cardinality(Spell(p, t)') <= FallbackRpm
  <2>1. PICK n \in Nat, q \in Seq(Time) : Falls(r, n, q)
    BY <1>2, FallBackFacts
  <2>2. req[r] \in Asked
    BY <1>2, FallBackFacts
  <2>3. /\ r \notin Fell(p) /\ now' = now
        /\ \A s : s \in Fell(p)' <=> s \in Fell(p) \/ (s = r /\ Len(q) < FallbackRpm)
        /\ \A s \in Fell(p) : req'[s] = req[s]
        /\ req'[r].at = now
    BY <1>2, <2>1, <2>2, FellHere, FallsFacts
  <2>4. CASE r \notin Spell(p, t)'
    <3>1. Spell(p, t)' = Spell(p, t)
      BY <2>3, <2>4 DEF Spell
    <3>2. QED
      BY <1>0, <3>1
  <2>5. CASE r \in Spell(p, t)'
    <3>1. /\ Spell(p, t)' = Spell(p, t) \cup {r} /\ r \notin Spell(p, t)
          /\ Len(q) < FallbackRpm /\ now <= t + Window
      BY <2>3, <2>5 DEF Spell
    <3>2. ASSUME NEW s \in Spell(p, t) PROVE s \in Current(p)
      <4>1. s \in Fell(p) /\ t <= req[s].at /\ req[s].at \in Nat /\ t \in Nat
        BY FellType DEF Spell, Time
      <4>2. req[s].at + Window >= now
        BY <3>1, <4>1, WindowTypes
      <4>3. QED
        BY <4>1, <4>2, WindowTypes DEF Current, Stale
    <3>3. Current(p) \in SUBSET Fell(p) /\ Spell(p, t) \in SUBSET Fell(p)
      BY DEF Current, Spell
    <3>4. /\ IsFiniteSet(Current(p)) /\ Cardinality(Current(p)) \in Nat
          /\ IsFiniteSet(Spell(p, t)) /\ Cardinality(Spell(p, t)) \in Nat
      BY <3>3, FellType
    <3>5. Cardinality(Spell(p, t)) <= Cardinality(Current(p))
      BY <3>2, <3>4, FS_Subset
    <3>6. Cardinality(Current(p)) = Len(q)
      BY <1>2, <2>1, <2>2, Left
    <3>7. Cardinality(Spell(p, t)') = Cardinality(Spell(p, t)) + 1
      BY <3>1, <3>4, FS_AddElement
    <3>8. QED
      BY <3>1, <3>4, <3>5, <3>6, <3>7, LimiterAssumption
  <2>6. QED
    BY <2>4, <2>5
<1>3. QED
  BY <1>1, <1>2

(* RateLimiter!FallbackLimit, the deque of rate_limit.py:44-54: although   *)
(* requests fall back in any order and late, and a stamp is only popped    *)
(* from the left, no process admits more than FALLBACK_RPM of them within  *)
(* a window that begins at any time.                                       *)
THEOREM FallbackHolds == Spec => []FallbackLimit
<1>1. Init => SpellInv
  <2> SUFFICES ASSUME Init, NEW p \in Procs, NEW t \in Time
               PROVE  Cardinality(Spell(p, t)) <= FallbackRpm
    BY DEF SpellInv
  <2>1. Spell(p, t) = {}
    BY DEF Init, Spell, Fell, Outcome, Is
  <2>2. QED
    BY <2>1, FS_EmptySet, LimiterAssumption
<1>2. SpellInv => FallbackLimit
  <2> SUFFICES ASSUME SpellInv, NEW p \in Procs, NEW t \in Time
               PROVE  Cardinality({r \in Outcome("admitted", "fallback") :
                        req[r].proc = p /\ t <= req[r].at /\ req[r].at <= t + Window})
                      <= FallbackRpm
    BY DEF FallbackLimit
  <2>1. {r \in Outcome("admitted", "fallback") :
          req[r].proc = p /\ t <= req[r].at /\ req[r].at <= t + Window} = Spell(p, t)
    BY DEF Spell, Fell
  <2>2. QED
    BY <2>1 DEF SpellInv
<1>3. Init => TypeOK /\ StampsInv /\ DequeInv
  BY InitTypes, InitStamps, InitDeques
<1>4. /\ TypeOK /\ StampsInv /\ DequeInv /\ SpellInv /\ [Next]_vars
      => TypeOK' /\ StampsInv' /\ DequeInv' /\ SpellInv'
  BY TypeStep, StampsStep, DequeStep, SpellStep
<1>5. QED
  BY <1>1, <1>2, <1>3, <1>4, PTL DEF Spec

(* Whom the process of r had let through when it turned r away. *)
Blocking(r) == {q \in Fell(req[r].proc) : req[q].at + Window >= req[r].at}

BlockedInv == \A r \in Outcome("rejected", "fallback") : Cardinality(Blocking(r)) >= FallbackRpm

LEMMA BlockedStep ==
  TypeOK /\ StampsInv /\ DequeInv /\ BlockedInv /\ [Next]_vars => BlockedInv'
<1> SUFFICES ASSUME TypeOK, StampsInv, DequeInv, BlockedInv, [Next]_vars,
                    NEW r \in Reqs, req'[r].pc = "rejected", req'[r].by = "fallback"
             PROVE  Cardinality(Blocking(r)') >= FallbackRpm
  BY DEF BlockedInv, Outcome, Is
<1>0. \A S \in SUBSET Begun' : IsFiniteSet(S) /\ Cardinality(S) \in Nat
  BY StampsStep, FS_Subset, FS_CardinalityType DEF StampsInv
<1>1. ASSUME NEW p \in Procs, NEW s \in Fell(p)
      PROVE  s \in Fell(p)' /\ req'[s] = req[s]
  <2>1. req'[s] = req[s]
    BY FinalStep DEF Fell, Outcome
  <2>2. QED
    BY <2>1 DEF Fell, Outcome, Is
<1>2. CASE req'[r] = req[r]
  <2>1. r \in Outcome("rejected", "fallback") /\ Is(r, "rejected")
    BY <1>2 DEF Outcome, Is
  <2>2. req[r].proc \in Procs
    BY <2>1, DecidedType DEF Decided
  <2>3. Blocking(r) \subseteq Blocking(r)'
    BY <1>1, <1>2, <2>2 DEF Blocking
  <2>4. Blocking(r)' \in SUBSET Begun'
    BY DEF Blocking, Fell, Outcome, Begun, Is
  <2>5. IsFiniteSet(Blocking(r)') /\ Cardinality(Blocking(r)') \in Nat
    BY <1>0, <2>4
  <2>6. /\ Cardinality(Blocking(r)) <= Cardinality(Blocking(r)')
        /\ Cardinality(Blocking(r)) \in Nat
    BY <2>3, <2>5, FS_Subset, FS_CardinalityType
  <2>7. Cardinality(Blocking(r)) >= FallbackRpm
    BY <2>1 DEF BlockedInv
  <2>8. QED
    BY <2>5, <2>6, <2>7, LimiterAssumption
<1>3. CASE FallBack(r)
  <2> DEFINE p == req[r].proc
  <2>1. PICK n \in Nat, q \in Seq(Time) : Falls(r, n, q)
    BY <1>3, FallBackFacts
  <2>2. req[r] \in Asked /\ p \in Procs
    BY <1>3, FallBackFacts
  <2>3. /\ req'[r].pc = (IF Len(q) < FallbackRpm THEN "admitted" ELSE "rejected")
        /\ req'[r].proc = p /\ req'[r].at = now
    BY <2>1, <2>2, FallsFacts
  <2>4. Len(q) >= FallbackRpm /\ Len(q) \in Nat
    BY <2>1, <2>3, LimiterAssumption DEF Falls
  <2>5. Cardinality(Current(p)) = Len(q)
    BY <2>1, <2>2, Left
  <2>6. Current(p) \subseteq Blocking(r)'
    <3> SUFFICES ASSUME NEW s \in Current(p) PROVE s \in Blocking(r)'
      OBVIOUS
    <3>1. s \in Fell(p) /\ req[s].at \in Nat /\ ~Stale(req[s].at, now)
      BY <2>2, FellType DEF Current
    <3>2. req[s].at + Window >= now
      BY <3>1, WindowTypes DEF Stale
    <3>3. QED
      BY <1>1, <2>2, <2>3, <3>1, <3>2 DEF Blocking
  <2>7. Blocking(r)' \in SUBSET Begun'
    BY DEF Blocking, Fell, Outcome, Begun, Is
  <2>8. IsFiniteSet(Blocking(r)') /\ Cardinality(Blocking(r)') \in Nat
    BY <1>0, <2>7
  <2>9. Cardinality(Current(p)) <= Cardinality(Blocking(r)')
    BY <2>6, <2>8, FS_Subset
  <2>10. QED
    BY <2>4, <2>5, <2>8, <2>9, LimiterAssumption
<1>4. QED
  BY <1>2, <1>3, FellStep

(* RateLimiter!WaitingHelps, the 429 with Retry-After of                   *)
(* rate_limit.py:141-152: whoever is turned away has that many stamps      *)
(* counted, or that many requests admitted by the process, in the window   *)
(* before, and all of it is still there later: nobody is turned away for   *)
(* requests that are older than a window.                                  *)
THEOREM WaitingHolds == Spec => []WaitingHelps
<1>1. Init => TurnedInv /\ BlockedInv
  BY DEF Init, TurnedInv, Turned, BlockedInv, Outcome, Is
<1>2. TurnedInv /\ BlockedInv => WaitingHelps
  <2> SUFFICES ASSUME TurnedInv, BlockedInv PROVE WaitingHelps
    OBVIOUS
  <2>1. \A r \in Outcome("rejected", "redis") :
          Cardinality(Recent(counted, req[r].at)) > Burst[req[r].tier]
    BY DEF TurnedInv, Turned, Outcome
  <2>2. ASSUME NEW r \in Outcome("rejected", "fallback")
        PROVE  Cardinality({q \in Outcome("admitted", "fallback") :
                 req[q].proc = req[r].proc /\ req[q].at + Window >= req[r].at}) >= FallbackRpm
    <3>1. {q \in Outcome("admitted", "fallback") :
             req[q].proc = req[r].proc /\ req[q].at + Window >= req[r].at} = Blocking(r)
      BY DEF Blocking, Fell
    <3>2. QED
      BY <3>1 DEF BlockedInv
  <2>3. QED
    BY <2>1, <2>2 DEF WaitingHelps
<1>3. Init => TypeOK /\ StampsInv /\ DequeInv
  BY InitTypes, InitStamps, InitDeques
<1>4. /\ TypeOK /\ StampsInv /\ DequeInv /\ TurnedInv /\ BlockedInv /\ [Next]_vars
      => TypeOK' /\ StampsInv' /\ DequeInv' /\ TurnedInv' /\ BlockedInv'
  BY TypeStep, StampsStep, DequeStep, TurnedStep, BlockedStep
<1>5. QED
  BY <1>1, <1>2, <1>3, <1>4, PTL DEF Spec

=============================================================================
