------------------------------ MODULE RateLimit ------------------------------
(***************************************************************************)
(* The sliding-window rate limiter in front of all provider routes.  A     *)
(* request is checked against its client's address and then against the    *)
(* hash of its Authorization header, each a sorted set in Redis of the     *)
(* requests seen and the times they read from the clock.  A check is five  *)
(* steps, one await each: read the clock, trim the set, add the request,   *)
(* count, refresh the time to live.  Requests interleave between them, on  *)
(* any server; the servers and Redis are taken to agree on the time.       *)
(*                                                                         *)
(* Redis drops a key whose time to live is over, and one whose set became  *)
(* empty.  A command that fails lets the request pass the check.           *)
(***************************************************************************)
EXTENDS Integers, Sequences, FiniteSets

CONSTANTS
  Requests,   \* requests of clients
  Keys,       \* sorted sets: ratelimit:ip:<address> and ratelimit:token:<hash>
  Checks,     \* the keys a request is checked against, in order
  Limit,      \* ip_requests or token_requests, by key
  Window,     \* ip_window_secs or token_window_secs, by key
  MaxClock,   \* bound on the time
  MaxFaults,  \* bound on failed commands
  None        \* a key without time to live, a time that is not set

ASSUME RateLimitAssumption ==
  /\ IsFiniteSet(Requests)
  /\ Checks \in [Requests -> Seq(Keys)]
  /\ \A r \in Requests : \A i, j \in DOMAIN Checks[r] :
       Checks[r][i] = Checks[r][j] => i = j
  /\ Limit \in [Keys -> Nat]
  /\ Window \in [Keys -> Nat \ {0}]
  /\ MaxClock \in Nat
  /\ MaxFaults \in Nat
  /\ None \notin Int

VARIABLES
  clock,    \* milliseconds, in steps that matter
  entries,  \* the members of each sorted set
  expiry,   \* when its time to live ends
  pc,       \* the next step of each request
  at,       \* the check it is in
  stamp,    \* now_ms of each of its checks, the score of its entry
  count,    \* what ZCARD answered, until the check ends
  passed,   \* <<request, key>> of the checks that let a request through
            \* with every command answered
  added,    \* history: when each entry was added
  faults    \* faults so far

redis   == <<entries, expiry, added>>
handler == <<pc, at, stamp, count, passed>>
vars    == <<clock, redis, handler, faults>>

InCheck == {"clock", "trim", "add", "count", "expire"}
PCs     == InCheck \cup {"admitted", "refused"}

Key(r) == Checks[r][at[r]]

(***************************************************************************)
(* rate_limit_middleware waits for a connection to Redis for the first     *)
(* check of each request.  A request without address or token has fewer    *)
(* checks, and none where rate limiting is off.  One that never comes, or  *)
(* whose client disconnects, which drops its handler, takes no more steps. *)
(***************************************************************************)
Init ==
  /\ clock = 0
  /\ entries = [k \in Keys |-> {}]
  /\ expiry = [k \in Keys |-> None]
  /\ pc = [r \in Requests |-> IF Checks[r] = <<>> THEN "admitted" ELSE "clock"]
  /\ at = [r \in Requests |-> 1]
  /\ stamp = [r \in Requests |-> [k \in Keys |-> 0]]
  /\ count = [r \in Requests |-> 0]
  /\ passed = {}
  /\ added = [r \in Requests |-> [k \in Keys |-> None]]
  /\ faults = 0

Fault == faults < MaxFaults /\ faults' = faults + 1

-----------------------------------------------------------------------------
\* A sorted set becomes s: an empty one goes, and its time to live with it.
Becomes(k, s) ==
  /\ entries' = [entries EXCEPT ![k] = s]
  /\ expiry' = [expiry EXCEPT ![k] = IF s = {} THEN None ELSE @]

Tick ==
  /\ clock < MaxClock
  /\ clock' = clock + 1
  /\ LET Over(k) == expiry[k] # None /\ expiry[k] <= clock'
     IN  /\ entries' = [k \in Keys |-> IF Over(k) THEN {} ELSE entries[k]]
         /\ expiry' = [k \in Keys |-> IF Over(k) THEN None ELSE expiry[k]]
  /\ UNCHANGED <<added, handler, faults>>

-----------------------------------------------------------------------------
\* Mutant: goes on after the last check.
GoOnTooFar(r) ==
  IF at[r] <= Len(Checks[r])
    THEN at' = [at EXCEPT ![r] = @ + 1] /\ pc' = [pc EXCEPT ![r] = "clock"]
    ELSE pc' = [pc EXCEPT ![r] = "admitted"] /\ UNCHANGED at

\* On to the next check, or to the handler after the last.
GoOn(r) ==
  IF at[r] < Len(Checks[r])
    THEN at' = [at EXCEPT ![r] = @ + 1] /\ pc' = [pc EXCEPT ![r] = "clock"]
    ELSE pc' = [pc EXCEPT ![r] = "admitted"] /\ UNCHANGED at

-----------------------------------------------------------------------------
(***************************************************************************)
(* check_rate_limit.                                                       *)
(***************************************************************************)
To(r, label) == pc' = [pc EXCEPT ![r] = label] /\ UNCHANGED at

ReadClock(r) ==
  /\ pc[r] = "clock"
  /\ stamp' = [stamp EXCEPT ![r][Key(r)] = clock]
  /\ To(r, "trim")
  /\ UNCHANGED <<clock, redis, count, passed, faults>>

\* Mutant: a window as long as its start is early.
RecentOnly(k, now) == {q \in entries[k] : stamp[q][k] > now - Window[k] + 1}

\* Mutant: nothing ever leaves.
Everything(k, now) == entries[k]

\* The entries that ZREMRANGEBYSCORE leaves.
Recent(k, now) == {q \in entries[k] : stamp[q][k] > now - Window[k]}

Trim(r) ==
  /\ pc[r] = "trim"
  /\ Becomes(Key(r), Recent(Key(r), stamp[r][Key(r)]))
  /\ To(r, "add")
  /\ UNCHANGED <<clock, added, stamp, count, passed, faults>>

Add(r) ==
  /\ pc[r] = "add"
  /\ entries' = [entries EXCEPT ![Key(r)] = @ \cup {r}]
  /\ added' = [added EXCEPT ![r][Key(r)] = clock]
  /\ To(r, "count")
  /\ UNCHANGED <<clock, expiry, stamp, count, passed, faults>>

Count(r) ==
  /\ pc[r] = "count"
  /\ count' = [count EXCEPT ![r] = Cardinality(entries[Key(r)])]
  /\ To(r, "expire")
  /\ UNCHANGED <<clock, redis, stamp, passed, faults>>

\* Mutant: one more than the maximum.
OverByTwo(r) == count[r] > Limit[Key(r)] + 1

Exceeded(r) == count[r] > Limit[Key(r)]

Decide(r) ==
  /\ IF Exceeded(r) THEN To(r, "refused") ELSE GoOn(r)
  /\ count' = [count EXCEPT ![r] = 0]

\* EXPIRE, which does nothing to a key that is gone, and the decision.
Refresh(r) ==
  /\ pc[r] = "expire"
  /\ expiry' = [expiry EXCEPT ![Key(r)] =
                  IF entries[Key(r)] = {} THEN None ELSE clock + Window[Key(r)]]
  /\ passed' = IF Exceeded(r) THEN passed ELSE passed \cup {<<r, Key(r)>>}
  /\ Decide(r)
  /\ UNCHANGED <<clock, entries, added, stamp, faults>>

\* EXPIRE fails, which is logged, and the request is decided as it would be.
RefreshFails(r) ==
  /\ pc[r] = "expire"
  /\ Fault
  /\ Decide(r)
  /\ UNCHANGED <<clock, redis, stamp, passed>>

\* No connection, or any other command fails: the request passes the check.  A
\* command that was executed and whose answer was lost looks like the failure
\* of the next one.
Allow(r) ==
  /\ pc[r] \in InCheck \ {"expire"}
  /\ Fault
  /\ GoOn(r)
  /\ UNCHANGED <<clock, redis, stamp, count, passed>>

-----------------------------------------------------------------------------
Check(r) ==
  \/ ReadClock(r)
  \/ Trim(r)
  \/ Add(r)
  \/ Count(r)
  \/ Refresh(r)
  \/ RefreshFails(r)
  \/ Allow(r)

Next ==
  \/ Tick
  \/ \E r \in Requests : Check(r)

Spec == Init /\ [][Next]_vars
=============================================================================
