----------------------------- MODULE RateLimiter -----------------------------
(***************************************************************************)
(* RateLimitMiddleware of api/middleware/rate_limit.py for one client IP:  *)
(* the sliding window that every API process keeps in one Redis, the       *)
(* deque that each process falls back to, and the change between the two   *)
(* with every request. A request is stamped when its process asks for the  *)
(* time and counted when Redis executes its pipeline; others may be        *)
(* stamped, counted and answered in between. Paths that are not limited    *)
(* and other IPs, which have keys of their own, are left out.              *)
(***************************************************************************)
EXTENDS Naturals, Sequences, FiniteSets

CONSTANTS
  Procs,         \* the API processes
  Reqs,          \* the requests that one IP makes
  Tiers,         \* the prefixes of API keys that they may carry
  Burst,         \* int(rpm * BURST_MULTIPLIER) of every tier
  FallbackRpm,   \* FALLBACK_RPM
  Window,        \* WINDOW_SECONDS
  MaxTime,       \* BOUND: the time
  MaxFaults      \* BOUND: the failed calls and the restarts of Redis

ASSUME LimiterAssumption ==
  /\ Burst \in [Tiers -> Nat]
  /\ FallbackRpm \in Nat
  /\ Window \in Nat \ {0}
  /\ MaxTime \in Nat
  /\ MaxFaults \in Nat

VARIABLES
  now,        \* time.time()
  window,     \* the sorted set rate:{ip} of Redis: its members are stamps
  expires,    \* when Redis deletes that key
  deque,      \* _fallback_limiter._windows of every process
  req,        \* what each request has come to
  faults,     \* BOUND: the faults so far
  restarts,   \* HISTORY: how often Redis was restarted
  counted,    \* HISTORY: the stamps that Redis has counted
  delay       \* HISTORY: the longest time from a stamp to its being counted

history == <<restarts, counted, delay>>
vars    == <<now, window, expires, deque, req, faults, history>>

Time == 0 .. MaxTime

(* at is the stamp, and when the fallback decided, the time of that.       *)
Fresh == [pc : {"new"}]
Asked == [pc : {"sent", "within", "over"}, proc : Procs, tier : Tiers, at : Time]
Decided == [pc : {"admitted", "rejected"}, proc : Procs, tier : Tiers, at : Time,
            by : {"redis", "fallback"}]

TypeOK ==
  /\ now \in Time
  /\ window \subseteq Time
  /\ expires \in Nat
  /\ deque \in [Procs -> Seq(Time)]
  /\ \A p \in Procs : Len(deque[p]) <= FallbackRpm
  /\ req \in [Reqs -> Fresh \cup Asked \cup Decided]
  /\ faults \in 0 .. MaxFaults
  /\ restarts \in 0 .. faults
  /\ counted \subseteq Time
  /\ delay \in Time

Init ==
  /\ now = 0
  /\ window = {}
  /\ expires = 0
  /\ deque = [p \in Procs |-> <<>>]
  /\ req = [r \in Reqs |-> [pc |-> "new"]]
  /\ faults = 0
  /\ restarts = 0
  /\ counted = {}
  /\ delay = 0

Is(r, pc) == req[r].pc = pc

(* dispatch, up to the pipeline: the tier is read, and the time. *)
Ask(r, p, t) ==
  /\ Is(r, "new")
  /\ req' = [req EXCEPT ![r] = [pc |-> "sent", proc |-> p, tier |-> t, at |-> now]]
  /\ UNCHANGED <<now, window, expires, deque, faults, history>>

Live == IF now < expires THEN window ELSE {}

(* The stamps that a request at time t still counts. *)
Recent(stamps, t) == {s \in stamps : s + Window > t}

(* The pipeline of _check_redis, executed at once: it leaves the key with  *)
(* these stamps for another window, and answers with this count.           *)
Execute(r, stamps, count) ==
  /\ window' = stamps
  /\ expires' = now + Window
  /\ req' = [req EXCEPT ![r].pc = IF count <= Burst[req[r].tier] THEN "within" ELSE "over"]
  /\ counted' = counted \cup {req[r].at}
  /\ delay' = IF now - req[r].at > delay THEN now - req[r].at ELSE delay
  /\ UNCHANGED <<now, deque, faults, restarts>>

(* Mistake: zcard before zadd. *)
CountFirst(r) ==
  LET t == req[r].at IN
  Is(r, "sent") /\ Execute(r, Recent(Live \cup {t}, t), Cardinality(Recent(Live, t)))

(* Mistake: nothing removes the members that have left the window. *)
CountAll(r) ==
  LET all == Live \cup {req[r].at} IN
  Is(r, "sent") /\ Execute(r, all, Cardinality(all))

(* zadd, with the stamp as the member; zremrangebyscore; zcard; expire. *)
Count(r) ==
  LET t == req[r].at
      kept == Recent(Live \cup {t}, t) IN
  Is(r, "sent") /\ Execute(r, kept, Cardinality(kept))

Decide(r, t, by, allowed) ==
  req' = [req EXCEPT ![r] =
    [pc |-> IF allowed THEN "admitted" ELSE "rejected",
     proc |-> req[r].proc, tier |-> req[r].tier, at |-> t, by |-> by]]

(* The result of the pipeline arrives: 429, or the handler is called. *)
Respond(r) ==
  /\ Is(r, "within") \/ Is(r, "over")
  /\ Decide(r, req[r].at, "redis", Is(r, "within"))
  /\ UNCHANGED <<now, window, expires, deque, faults, history>>

(* Mistake: the window is not subtracted from the cut-off. *)
StaleNow(s, t) == s < t

(* dq[0] < cutoff *)
Stale(s, t) == s + Window < t

(* How many stamps the loop pops from the left: as long as the head is stale. *)
Popped(q, t) ==
  {n \in 0 .. Len(q) : /\ \A i \in 1 .. n : Stale(q[i], t)
                       /\ n < Len(q) => ~Stale(q[n + 1], t)}

(* The connection fails, before or after the pipeline was executed, and    *)
(* InMemoryLimiter.is_allowed of the process decides with its lock held.   *)
FallBackWith(r, limit) ==
  LET p == req[r].proc IN
  /\ \E pc \in {"sent", "within", "over"} : Is(r, pc)
  /\ faults < MaxFaults
  /\ faults' = faults + 1
  /\ \E n \in Popped(deque[p], now) :
       LET q == SubSeq(deque[p], n + 1, Len(deque[p])) IN
       /\ deque' = [deque EXCEPT ![p] = IF Len(q) >= limit THEN q ELSE Append(q, now)]
       /\ Decide(r, now, "fallback", Len(q) < limit)
  /\ UNCHANGED <<now, window, expires, history>>

(* Mistake: a full window still takes one more. *)
FallBackLate(r) == FallBackWith(r, FallbackRpm + 1)

FallBack(r) == FallBackWith(r, FallbackRpm)

(* Redis keeps nothing over a restart. *)
RestartRedis ==
  /\ faults < MaxFaults
  /\ faults' = faults + 1
  /\ restarts' = restarts + 1
  /\ window' = {}
  /\ UNCHANGED <<now, expires, deque, req, counted, delay>>

Tick ==
  /\ now < MaxTime
  /\ now' = now + 1
  /\ UNCHANGED <<window, expires, deque, req, faults, history>>

Next ==
  \/ \E r \in Reqs : \/ \E p \in Procs, t \in Tiers : Ask(r, p, t)
                     \/ Count(r) \/ Respond(r) \/ FallBack(r)
  \/ RestartRedis \/ Tick

Spec == Init /\ [][Next]_vars

(***************************************************************************)
(* Properties.                                                             *)
(***************************************************************************)
Outcome(pc, by) == {r \in Reqs : Is(r, pc) /\ req[r].by = by}

Stamps(rs) == {req[r].at : r \in rs}

(* rate_limit.py:162-186, the sliding window over all processes: however   *)
(* their requests overtake one another, those that Redis lets through      *)
(* within a window carry no more stamps than the burst of their best tier. *)
(* A stamp is kept for a window from the moment it was taken, so the       *)
(* windows this holds for are shorter than WINDOW_SECONDS by the delay     *)
(* until a request is counted; and a restart of Redis begins a new one.    *)
WindowLimit ==
  \A t \in Time :
    LET rs == {r \in Outcome("admitted", "redis") :
                 req[r].at <= t /\ req[r].at + Window > t + delay} IN
    rs # {} => \E r \in rs : Cardinality(Stamps(rs)) <= Burst[req[r].tier] * (1 + restarts)

(* rate_limit.py:44-54: one process lets no more than FALLBACK_RPM         *)
(* requests through within a window while Redis cannot be asked.           *)
FallbackLimit ==
  \A p \in Procs, t \in Time :
    Cardinality({r \in Outcome("admitted", "fallback") :
      req[r].proc = p /\ t <= req[r].at /\ req[r].at <= t + Window}) <= FallbackRpm

(* rate_limit.py:141-152: a client is told Retry-After: window. It is only *)
(* turned away for requests within the window before, in Redis or in the   *)
(* process itself: whoever waits that long is let through.                 *)
WaitingHelps ==
  /\ \A r \in Outcome("rejected", "redis") :
       Cardinality(Recent(counted, req[r].at)) > Burst[req[r].tier]
  /\ \A r \in Outcome("rejected", "fallback") :
       Cardinality({q \in Outcome("admitted", "fallback") :
         req[q].proc = req[r].proc /\ req[q].at + Window >= req[r].at}) >= FallbackRpm
=============================================================================
