------------------------------- MODULE Routing -------------------------------
(***************************************************************************)
(* Requests routed to upstreams, and the three parties that write          *)
(* llm_upstreams.status: a request whose upstream cannot be reached spawns *)
(* a task that marks it offline, the health check of the defer worker      *)
(* marks offline upstreams online again, and administrators update rows.   *)
(*                                                                         *)
(* Models stand for the active models that answer to the requested name    *)
(* and feature.  Several may be served by one upstream: the name is the    *)
(* part of fullname behind the first "/".                                  *)
(***************************************************************************)
EXTENDS Integers, Sequences, FiniteSets

CONSTANTS
  Upstreams,  \* rows of llm_upstreams
  Models,     \* rows of llm_models for the requested name
  Host,       \* the upstream of each model
  Requests,   \* client requests
  Updates,    \* calls of update_upstream
  Count,      \* candidates a request asks for: 2, or 1 where it never retries
  MaxFaults,  \* bound on failed statements and crashes
  None        \* a field that an update does not give

ASSUME RoutingAssumption ==
  /\ IsFiniteSet(Models)
  /\ Host \in [Models -> Upstreams]
  /\ Count \in Nat \ {0}
  /\ MaxFaults \in Nat
  /\ None \notin Upstreams \cup {"online", "offline", "maintenance"}

Statuses == {"online", "offline", "maintenance"}

VARIABLES
  status,     \* llm_upstreams.status
  reachable,  \* upstreams that answer requests
  healthy,    \* upstreams whose /models answers the health check with success
  failed,     \* upstreams a call of which has failed without an answer that counts
  pc,         \* where each request is
  picked,     \* its candidates, in the order they are tried
  at,         \* the index of the candidate being tried
  marking,    \* spawned mark_upstream_offline tasks: <<request, index>>
  probing,    \* upstreams the health check listed and is calling
  reviving,   \* upstreams that answered it and will be marked online
  stage,      \* where each update is
  target,     \* its upstream
  given,      \* the status it gives, None if it gives none
  saw,        \* the status it read
  faults      \* faults so far

outside == <<reachable, healthy, failed>>
request == <<pc, picked, at>>
health  == <<probing, reviving>>
update  == <<stage, target, given, saw>>
vars    == <<status, outside, request, marking, health, update, faults>>

PCs == {"new", "trying", "answered", "failed", "no_upstream"}

Init ==
  /\ status \in [Upstreams -> Statuses]
  /\ reachable = Upstreams
  /\ healthy \in SUBSET Upstreams
  /\ failed = {u \in Upstreams : status[u] = "offline"}
  /\ pc = [r \in Requests |-> "new"]
  /\ picked = [r \in Requests |-> << >>]
  /\ at = [r \in Requests |-> 0]
  /\ marking = {}
  /\ probing = {}
  /\ reviving = {}
  /\ stage = [a \in Updates |-> "new"]
  /\ target = [a \in Updates |-> None]
  /\ given = [a \in Updates |-> None]
  /\ saw = [a \in Updates |-> None]
  /\ faults = 0

Fault == faults < MaxFaults /\ faults' = faults + 1

-----------------------------------------------------------------------------
(***************************************************************************)
(* Upstreams come and go, for requests and for the health check.           *)
(***************************************************************************)
Break(u) ==
  /\ u \in reachable
  /\ reachable' = reachable \ {u}
  /\ failed' = failed \cup {u}
  /\ UNCHANGED <<status, healthy, request, marking, health, update, faults>>

Repair(u) ==
  /\ u \notin reachable
  /\ reachable' = reachable \cup {u}
  /\ UNCHANGED <<status, healthy, failed, request, marking, health, update, faults>>

\* GET /models is another call than those of requests: without the proxies of the
\* upstream, with bearer authentication, and only a 2xx counts.
TurnHealthy(u) ==
  /\ u \notin healthy
  /\ healthy' = healthy \cup {u}
  /\ UNCHANGED <<status, reachable, failed, request, marking, health, update, faults>>

TurnUnhealthy(u) ==
  /\ u \in healthy
  /\ healthy' = healthy \ {u}
  /\ UNCHANGED <<status, reachable, failed, request, marking, health, update, faults>>

-----------------------------------------------------------------------------
(***************************************************************************)
(* Requests.                                                               *)
(***************************************************************************)
\* Mutant: only offline upstreams are left out.
NotOffline == {m \in Models : status[Host[m]] # "offline"}

\* find_models_by_name_and_capacity.
Available == {m \in Models : status[Host[m]] = "online"}

Lesser(a, b) == IF a < b THEN a ELSE b

\* select_model_clients can return any of these: the token usage it sorts by is
\* left out.
Candidates ==
  {s \in [1 .. Lesser(Count, Cardinality(Available)) -> Available] :
     \A i, j \in DOMAIN s : s[i] = s[j] => i = j}

Select(r) ==
  /\ pc[r] = "new"
  /\ \/ /\ Available = {}
        /\ pc' = [pc EXCEPT ![r] = "no_upstream"]
        /\ UNCHANGED <<picked, at>>
     \/ \E s \in Candidates :
          /\ Available # {}
          /\ pc' = [pc EXCEPT ![r] = "trying"]
          /\ picked' = [picked EXCEPT ![r] = s]
          /\ at' = [at EXCEPT ![r] = 1]
  /\ UNCHANGED <<status, outside, marking, health, update, faults>>

\* The query fails, which counts as having found nothing.
SelectFails(r) ==
  /\ pc[r] = "new"
  /\ Fault
  /\ pc' = [pc EXCEPT ![r] = "no_upstream"]
  /\ UNCHANGED <<status, outside, picked, at, marking, health, update>>

\* The upstream of a request's i-th candidate, and of the one being tried.
Upstream(r, i) == Host[picked[r][i]]
Tried(r)       == Upstream(r, at[r])

\* The upstream answers, if only with the beginning of a stream.
Answer(r) ==
  /\ pc[r] = "trying"
  /\ Tried(r) \in reachable
  /\ pc' = [pc EXCEPT ![r] = "answered"]
  /\ UNCHANGED <<status, outside, picked, at, marking, health, update,
                 faults>>

\* Mutant: one attempt more than there are candidates.
TryOneMore(r) ==
  IF at[r] <= Len(picked[r])
    THEN at' = [at EXCEPT ![r] = @ + 1] /\ UNCHANGED <<pc, picked>>
    ELSE pc' = [pc EXCEPT ![r] = "failed"] /\ UNCHANGED <<at, picked>>

\* The next candidate, or an error to the client after the last.
TryNext(r) ==
  IF at[r] < Len(picked[r])
    THEN at' = [at EXCEPT ![r] = @ + 1] /\ UNCHANGED <<pc, picked>>
    ELSE pc' = [pc EXCEPT ![r] = "failed"] /\ UNCHANGED <<at, picked>>

\* Mutant: every error counts as a network error.
RefuseMarks(r) ==
  /\ pc[r] = "trying"
  /\ Tried(r) \in reachable
  /\ TryNext(r)
  /\ marking' = marking \cup {<<r, at[r]>>}
  /\ UNCHANGED <<status, outside, health, update, faults>>

\* The upstream answers with an error status.
Refuse(r) ==
  /\ pc[r] = "trying"
  /\ Tried(r) \in reachable
  /\ TryNext(r)
  /\ UNCHANGED <<status, outside, marking, health, update, faults>>

\* The upstream answers with success and a body that cannot be decoded.  The
\* Anthropic helpers return this as AnthropicError::Connection, so that upstream is
\* marked as well; the OpenAI client tells it from a network error.
Garble(r) ==
  /\ pc[r] = "trying"
  /\ Tried(r) \in reachable
  /\ TryNext(r)
  /\ failed' = failed \cup {Tried(r)}
  /\ marking' \in {marking, marking \cup {<<r, at[r]>>}}
  /\ UNCHANGED <<status, reachable, healthy, health, update, faults>>

\* A request to /images/generations marks nothing offline, all others do.
NetworkError(r) ==
  /\ pc[r] = "trying"
  /\ Tried(r) \notin reachable
  /\ TryNext(r)
  /\ marking' \in {marking, marking \cup {<<r, at[r]>>}}
  /\ UNCHANGED <<status, outside, health, update, faults>>

MarkOffline(r, i) ==
  /\ <<r, i>> \in marking
  /\ status' = [status EXCEPT ![Upstream(r, i)] = "offline"]
  /\ marking' = marking \ {<<r, i>>}
  /\ UNCHANGED <<outside, request, health, update, faults>>

MarkFails(r, i) ==
  /\ <<r, i>> \in marking
  /\ Fault
  /\ marking' = marking \ {<<r, i>>}
  /\ UNCHANGED <<status, outside, request, health, update>>

-----------------------------------------------------------------------------
(***************************************************************************)
(* check_offline_upstreams.  It waits for all its calls, whose timeout is  *)
(* far below the five minutes between two checks, so one check runs at a   *)
(* time.                                                                   *)
(***************************************************************************)
ListOffline ==
  /\ probing = {} /\ reviving = {}
  /\ probing' = {u \in Upstreams : status[u] = "offline"}
  /\ UNCHANGED <<status, outside, request, marking, reviving, update,
                 faults>>

Reach(u) ==
  /\ u \in probing \cap healthy
  /\ probing' = probing \ {u}
  /\ reviving' = reviving \cup {u}
  /\ UNCHANGED <<status, outside, request, marking, update, faults>>

\* Mutant: a call has no timeout, and the check waits for it.
WaitForAnswer(u) ==
  /\ u \in probing \ healthy
  /\ UNCHANGED vars

\* An error status, no connection, or no answer within the timeout.
DoNotReach(u) ==
  /\ u \in probing \ healthy
  /\ probing' = probing \ {u}
  /\ UNCHANGED <<status, outside, request, marking, reviving, update,
                 faults>>

MarkOnline(u) ==
  /\ u \in reviving
  /\ status' = [status EXCEPT ![u] = "online"]
  /\ reviving' = reviving \ {u}
  /\ UNCHANGED <<outside, request, marking, probing, update, faults>>

\* A statement fails, or the worker dies.
CheckFails ==
  /\ probing \cup reviving # {}
  /\ Fault
  /\ probing' \in SUBSET probing
  /\ reviving' \in SUBSET reviving
  /\ UNCHANGED <<status, outside, request, marking, update>>

-----------------------------------------------------------------------------
(***************************************************************************)
(* update_upstream reads the row and writes every column back, given or    *)
(* not.  update_upstream_by_id may give a status; a repeated registration  *)
(* of the upstream gives none.                                             *)
(***************************************************************************)
ReadUpstream(a, u, s) ==
  /\ stage[a] = "new"
  /\ stage' = [stage EXCEPT ![a] = "read"]
  /\ target' = [target EXCEPT ![a] = u]
  /\ given' = [given EXCEPT ![a] = s]
  /\ saw' = [saw EXCEPT ![a] = status[u]]
  /\ UNCHANGED <<status, outside, request, marking, health, faults>>

Written(a) == IF given[a] = None THEN saw[a] ELSE given[a]

WriteUpstream(a) ==
  /\ stage[a] = "read"
  /\ stage' = [stage EXCEPT ![a] = "done"]
  /\ status' = [status EXCEPT ![target[a]] = Written(a)]
  /\ UNCHANGED <<outside, request, marking, health, target, given, saw,
                 faults>>

UpdateFails(a) ==
  /\ stage[a] = "read"
  /\ Fault
  /\ stage' = [stage EXCEPT ![a] = "failed"]
  /\ UNCHANGED <<status, outside, request, marking, health, target, given,
                 saw>>

\* The server dies with its requests and the tasks they spawned.
ServerCrash ==
  /\ Fault
  /\ pc' = [r \in Requests |-> IF pc[r] = "trying" THEN "failed" ELSE pc[r]]
  /\ stage' = [a \in Updates |-> IF stage[a] = "read" THEN "failed" ELSE stage[a]]
  /\ marking' = {}
  /\ UNCHANGED <<status, outside, picked, at, health, target, given, saw>>

-----------------------------------------------------------------------------
Outside(u) == Break(u) \/ Repair(u) \/ TurnHealthy(u) \/ TurnUnhealthy(u)

Request(r) ==
  \/ Select(r)
  \/ SelectFails(r)
  \/ Answer(r)
  \/ Refuse(r)
  \/ Garble(r)
  \/ NetworkError(r)

Mark(r, i) == MarkOffline(r, i) \/ MarkFails(r, i)

Probe(u) == Reach(u) \/ DoNotReach(u) \/ MarkOnline(u)

Update(a) ==
  \/ \E u \in Upstreams, s \in Statuses \cup {None} : ReadUpstream(a, u, s)
  \/ WriteUpstream(a)
  \/ UpdateFails(a)

Next ==
  \/ \E u \in Upstreams : Outside(u) \/ Probe(u)
  \/ \E r \in Requests : Request(r) \/ \E i \in 1 .. Count : Mark(r, i)
  \/ \E a \in Updates : Update(a)
  \/ ListOffline
  \/ CheckFails
  \/ ServerCrash

Spec == Init /\ [][Next]_vars

\* The cron schedule goes on, and the runtime runs the tasks that were spawned
\* and the statements that were begun.
Fairness ==
  /\ WF_vars(ListOffline)
  /\ \A u \in Upstreams : WF_vars(Probe(u))
  /\ \A r \in Requests, i \in 1 .. Count : WF_vars(MarkOffline(r, i))
  /\ \A a \in Updates : WF_vars(WriteUpstream(a))

FairSpec == Spec /\ Fairness
=============================================================================
