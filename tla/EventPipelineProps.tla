------------------------- MODULE EventPipelineProps -------------------------
(***************************************************************************)
(* What the event pipeline must guarantee.                                 *)
(***************************************************************************)
EXTENDS EventPipeline

(***************************************************************************)
(* The type invariant of the tables, the broker and the handlers.          *)
(***************************************************************************)
TypeOK ==
  /\ event \in [Events -> [model : Models, usage : Usages]]
  /\ price \in [Models -> Versions \cup {None}]
  /\ added \subseteq Events
  /\ queue \subseteq Events
  /\ inflight \subseteq Events
  /\ recorded \in [Events -> Price \cup {Unpriced, None}]
  /\ charge \in [Events -> Price \cup {None}]
  /\ counted \in [Events -> 0 .. CountCap]
  /\ pushed \subseteq Events
  /\ truncated \in BOOLEAN
  /\ pc \in [Workers -> PCs]
  /\ task \in [Workers -> Events \cup {None}]
  /\ \A w \in Workers : pc[w] # "idle" => task[w] \in Events
  /\ read \in [Workers -> Versions \cup {Unpriced}]
  /\ faults \in 0 .. MaxFaults

(***************************************************************************)
(* However often an event is delivered, one handler inserts its charge,    *)
(* under the lock of the session event, and that handler alone pushes the  *)
(* settle task, after the charge is committed.  Only usage is charged.      *)
(***************************************************************************)
OneCharger ==
  /\ \A v, w \in Workers :
       LocksEvent(v) /\ LocksEvent(w) /\ task[v] = task[w] => v = w
  /\ \A w \in Workers : pc[w] = "commit" /\ Charges(w) => charge[task[w]] = None
  /\ \A w \in Workers : pc[w] = "push" =>
       charge[task[w]] # None /\ task[w] \notin pushed
  /\ \A v, w \in Workers :
       pc[v] = "push" /\ pc[w] = "push" /\ task[v] = task[w] => v = w
  /\ \A e \in pushed : charge[e] # None
  /\ \A e \in Events : charge[e] # None => Usage(e)

\* p, recorded for e, is what the charge of e was computed from, or the default.
BackedBy(e, p) ==
  \/ p = Unpriced
  \/ p = [charge[e] EXCEPT !.rate = "regular"]

(***************************************************************************)
(* A charge is backed by a session event that records the regular prices   *)
(* of the very version it was computed from, although the event may be     *)
(* handled again after the prices changed.  For the usage of a batch the   *)
(* two differ, as the charge has the batch prices of that version; all     *)
(* other usage is charged what is recorded.  At worst the event is left    *)
(* with the default price, by a delivery that found no model.  Only a      *)
(* crash of the database loses the event of a charge.                      *)
(***************************************************************************)
ChargeIsRecorded ==
  /\ ~truncated => \A e \in Events : charge[e] # None => BackedBy(e, recorded[e])
  /\ \A e \in Events : charge[e] # None =>
       (charge[e].rate = "batch" <=> event[e].usage = "batch")

(***************************************************************************)
(* Usage is in the counters before it is charged, unless something failed. *)
(***************************************************************************)
ChargeIsCounted ==
  faults = 0 =>
    /\ \A w \in Workers : pc[w] \in InTx /\ Usage(task[w]) => counted[task[w]] > 0
    /\ \A e \in Events : charge[e] # None => counted[e] > 0

(***************************************************************************)
(* The pipeline submits balance changes as settlement expects.             *)
(***************************************************************************)
Pushing(e) == \E w \in Workers : pc[w] = "push" /\ task[w] = e

Stage(e) ==
  CASE charge[e] = None -> "new"
    [] charge[e] # None /\ e \in pushed -> "enqueued"
    [] charge[e] # None /\ e \notin pushed /\ Pushing(e) -> "inserted"
    [] charge[e] # None /\ e \notin pushed /\ ~Pushing(e) -> "unqueued"

S == INSTANCE Submission WITH
       Changes <- Events,
       stage <- [e \in Events |-> Stage(e)]

ImplementsSubmission == S!Spec

\* An invocation has fetched e and has not returned.
Handled(e) == \E w \in Workers : pc[w] # "idle" /\ task[w] = e

(***************************************************************************)
(* No usage gets lost on the way.  A recorded event with usage and a price *)
(* is charged; and as long as nothing fails, an event that was added is    *)
(* waiting, in the hands of a handler, or recorded, and a charge is pushed *)
(* or about to be, by the one handler that inserted it.                    *)
(***************************************************************************)
NothingIsDropped ==
  /\ \A e \in Events : Usage(e) /\ recorded[e] \in Price => charge[e] # None
  /\ faults = 0 => \A e \in Events :
       /\ e \in added => e \in queue \/ Handled(e) \/ recorded[e] # None
       /\ charge[e] # None => e \in pushed \/ Pushing(e)

(***************************************************************************)
(* As long as nothing fails, usage of a known model that reached the queue *)
(* gets a balance change whose settle task is pushed.                      *)
(***************************************************************************)
UsageIsPushed ==
  \A e \in Events :
    e \in queue /\ Usage(e) /\ price[event[e].model] # None
      ~> e \in pushed \/ faults > 0
=============================================================================
