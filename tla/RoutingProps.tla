---------------------------- MODULE RoutingProps ----------------------------
(***************************************************************************)
(* What routing and the status of upstreams must guarantee.                *)
(***************************************************************************)
EXTENDS Routing

(***************************************************************************)
(* The type invariant of the rows, the requests, and the tasks in flight.  *)
(***************************************************************************)
TypeOK ==
  /\ status \in [Upstreams -> Statuses]
  /\ reachable \subseteq Upstreams
  /\ healthy \subseteq Upstreams
  /\ failed \subseteq Upstreams
  /\ Upstreams \ reachable \subseteq failed
  /\ pc \in [Requests -> PCs]
  /\ picked \in [Requests -> Seq(Models)]
  /\ at \in [Requests -> 0 .. Count]
  /\ \A r \in Requests : Len(picked[r]) <= Count
  /\ \A r \in Requests : pc[r] = "new" => picked[r] = << >>
  /\ \A r \in Requests : pc[r] = "trying" => at[r] \in DOMAIN picked[r]
  /\ marking \subseteq Requests \X (1 .. Count)
  /\ \A p \in marking : p[2] \in DOMAIN picked[p[1]]
  /\ probing \subseteq Upstreams
  /\ reviving \subseteq Upstreams
  /\ stage \in [Updates -> {"new", "read", "done", "failed"}]
  /\ target \in [Updates -> Upstreams \cup {None}]
  /\ \A a \in Updates : stage[a] = "read" => target[a] \in Upstreams
  /\ given \in [Updates -> Statuses \cup {None}]
  /\ saw \in [Updates -> Statuses \cup {None}]
  /\ \A a \in Updates : stage[a] = "read" => saw[a] \in Statuses
  /\ faults \in 0 .. MaxFaults

\* A call to u failed so that it may be marked, or an administrator took it offline.
Blamed(u) ==
  \/ u \in failed
  \/ \E a \in Updates : stage[a] = "done" /\ target[a] = u /\ given[a] = "offline"

(***************************************************************************)
(* Only a call that failed without an answer that counts - no connection,  *)
(* or a body that could not be decoded - or an administrator takes an      *)
(* upstream out of service.  An answer with an error status never does,    *)
(* nor does a failed check, although the marks are written later, and      *)
(* updates write back what they read earlier.                              *)
(***************************************************************************)
OfflineHasCause ==
  /\ \A u \in Upstreams : status[u] = "offline" => Blamed(u)
  /\ \A p \in marking : Upstream(p[1], p[2]) \in failed
  /\ \A a \in Updates : stage[a] = "read" /\ saw[a] = "offline" => Blamed(target[a])

(***************************************************************************)
(* An upstream in maintenance that no request, check or update has its     *)
(* hands on.                                                               *)
(***************************************************************************)
Drained(u) ==
  /\ status[u] = "maintenance"
  /\ u \notin probing \cup reviving
  /\ \A p \in marking : Upstream(p[1], p[2]) # u
  /\ \A r \in Requests : pc[r] = "trying" =>
       \A i \in DOMAIN picked[r] : Upstream(r, i) # u
  /\ \A a \in Updates : stage[a] = "read" => target[a] # u

(***************************************************************************)
(* Maintenance is stable: once what was in flight is over, the upstream    *)
(* gets no request and nobody but an administrator changes its status.     *)
(***************************************************************************)
MaintenanceIsStable ==
  [][\A u \in Upstreams : Drained(u) =>
       \/ Drained(u)'
       \/ \E a \in Updates : stage[a] = "new" /\ stage'[a] = "read" /\ target'[a] = u
    ]_vars

(***************************************************************************)
(* The health check brings back, again and again, every upstream whose     *)
(* /models answers it for good: nobody keeps it offline, neither marks and *)
(* updates that are still on their way nor upstreams that never answer the *)
(* check.  An upstream that serves requests, but not /models, has no such  *)
(* promise: once offline it stays so until an administrator changes it.    *)
(***************************************************************************)
RecoversEventually ==
  \A u \in Upstreams : <>[](u \in healthy) => []<>(status[u] # "offline")

(***************************************************************************)
(* "Only the provided fields will be updated" (update_upstream_by_id): an  *)
(* update that gives no status leaves the status alone.                    *)
(***************************************************************************)
OnlyGivenFields ==
  [][\A a \in Updates :
       stage[a] = "read" /\ stage'[a] = "done" /\ given[a] = None =>
         status'[target[a]] = status[target[a]]]_vars

\* Nobody else is about to write the status of an upstream whose row an update
\* has read and not yet written back.
UpdatesApart ==
  \A a \in Updates : stage[a] = "read" =>
    /\ target[a] \notin reviving
    /\ \A p \in marking : Upstream(p[1], p[2]) # target[a]
    /\ \A b \in Updates \ {a} : stage[b] = "read" => target[b] # target[a]
=============================================================================
