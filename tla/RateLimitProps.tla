---------------------------- MODULE RateLimitProps ----------------------------
(***************************************************************************)
(* Properties of RateLimit.                                                *)
(***************************************************************************)
EXTENDS RateLimit

Times == 0 .. MaxClock

(***************************************************************************)
(* The type invariant.  A request that is not admitted is in one of its    *)
(* own checks, or was refused by one.                                      *)
(***************************************************************************)
TypeOK ==
  /\ clock \in Times
  /\ entries \in [Keys -> SUBSET Requests]
  /\ expiry \in [Keys -> Int \cup {None}]
  /\ pc \in [Requests -> PCs]
  /\ at \in [Requests -> Nat]
  /\ stamp \in [Requests -> [Keys -> Times]]
  /\ count \in [Requests -> Nat]
  /\ passed \in SUBSET (Requests \X Keys)
  /\ added \in [Requests -> [Keys -> Times \cup {None}]]
  /\ faults \in 0 .. MaxFaults
  /\ \A r \in Requests : pc[r] # "admitted" => at[r] \in DOMAIN Checks[r]

InWindow(r, k) == stamp[r][k] > clock - Window[k]

(***************************************************************************)
(* check_rate_limit never has more than the maximum in a window: of the    *)
(* requests that a set let through and that it still holds, at most Limit  *)
(* read their time within the last window, however their commands          *)
(* interleave and however long each takes.                                 *)
(***************************************************************************)
AtMostMax ==
  \A k \in Keys :
    Cardinality({r \in entries[k] : <<r, k>> \in passed /\ InWindow(r, k)}) <= Limit[k]

(***************************************************************************)
(* And the set holds them for the whole window: neither another request's  *)
(* trim, whose clock was read earlier or later, nor the end of the time to *)
(* live, refreshed by some requests and not by others, removes an entry of *)
(* a request that was let through before the window has passed it.         *)
(***************************************************************************)
KeptInWindow ==
  [][\A k \in Keys : \A r \in entries[k] \ entries'[k] :
       <<r, k>> \in passed => stamp[r][k] <= clock' - Window[k]]_vars

\* The requests that entered a set less than a window before r read its time,
\* or later.
Around(r, k) ==
  {q \in Requests : added[q][k] # None /\ added[q][k] > stamp[r][k] - Window[k]}

(***************************************************************************)
(* No request is answered 429 without a cause: more than the maximum, this *)
(* one included, entered the set within a window of it.  A set that is not *)
(* trimmed, or a clock read for another key, would refuse clients for what *)
(* they did long ago.                                                      *)
(***************************************************************************)
RefusedForCause ==
  \A r \in Requests :
    pc[r] = "refused" => Cardinality(Around(r, Key(r))) > Limit[Key(r)]
=============================================================================
