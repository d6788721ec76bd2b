---------------------------- MODULE EventPipeline ----------------------------
(***************************************************************************)
(* From a proxied response to a balance change: SessionTracer pushes each  *)
(* session event to Redis, and handle_openai_event (handle_anthropic_event *)
(* is the same sequence) counts its usage, records it in session_events,   *)
(* inserts the balance change in the same transaction, commits, and pushes *)
(* the settle task.                                                        *)
(*                                                                         *)
(* An event stands for a (session_id, session_index) pair: the tracer      *)
(* raises its index whether or not the push succeeds, so a pair is pushed  *)
(* once.  Each version of a model's row has regular and batch prices.  The *)
(* session event records the regular ones, also for the usage of a batch,  *)
(* which is charged at the batch prices.                                   *)
(***************************************************************************)
EXTENDS Integers

CONSTANTS
  Events,     \* session events
  Models,     \* model ids that events name
  Versions,   \* versions of a model's row
  Workers,    \* concurrent invocations of the handler
  MaxFaults,  \* bound on crashes, errors and lost replies
  Unpriced,   \* the default price 0 of a model that is not found
  None        \* no row, no task

\* The input and output prices of one version, for which there are two rates.
Price == [version : Versions, rate : {"regular", "batch"}]

ASSUME PipelineAssumption ==
  /\ MaxFaults \in Nat
  /\ None \notin Events \cup Versions \cup Price \cup {Unpriced}
  /\ Unpriced \notin Versions \cup Price

VARIABLES
  event,      \* [model, usage] of each event; usage: what extract_usage finds
  price,      \* llm_models: the version of each row, None where there is no row
  added,      \* events whose tracer is past them
  queue,      \* event tasks waiting in Redis
  inflight,   \* event tasks fetched and not acknowledged
  recorded,   \* session_events: the price recorded, None where there is no row
  charge,     \* balance_changes: the price charged, None where there is no row
  counted,    \* how often the usage of an event was added to the counters
  pushed,     \* events whose settle task was pushed
  truncated,  \* a database crash has emptied the UNLOGGED session_events
  pc,         \* the next step of each handler
  task,       \* its event
  read,       \* the version its SELECT returned
  faults      \* faults so far

rows    == <<recorded, charge>>
broker  == <<queue, inflight>>
handler == <<pc, task, read>>
vars    == <<event, price, added, broker, rows, counted, pushed, truncated,
             handler, faults>>

InTx == {"select_model", "upsert_event", "insert_charge", "commit"}
PCs  == InTx \cup {"idle", "count", "push"}

\* `counted` distinguishes never, once and more often.
CountCap == 2

Usages == {"none", "tokens", "batch"}

Usage(e) == event[e].usage # "none"

-----------------------------------------------------------------------------
(***************************************************************************)
(* Initial states.  Some callers of SessionTracer::new pass an id that is  *)
(* not a model's, so a model may have no row.                              *)
(***************************************************************************)
Init ==
  /\ event \in [Events -> [model : Models, usage : Usages]]
  /\ price \in [Models -> Versions \cup {None}]
  /\ added = {}
  /\ queue = {}
  /\ inflight = {}
  /\ recorded = [e \in Events |-> None]
  /\ charge = [e \in Events |-> None]
  /\ counted = [e \in Events |-> 0]
  /\ pushed = {}
  /\ truncated = FALSE
  /\ pc = [w \in Workers |-> "idle"]
  /\ task = [w \in Workers |-> None]
  /\ read = [w \in Workers |-> Unpriced]
  /\ faults = 0

Fault == faults < MaxFaults /\ faults' = faults + 1

-----------------------------------------------------------------------------
(***************************************************************************)
(* SessionTracer::add, which only logs a failed push, and administration   *)
(* of the models (creation, and new prices for an existing row).           *)
(***************************************************************************)
Add(e) ==
  /\ e \notin added
  /\ added' = added \cup {e}
  /\ queue' = queue \cup {e}
  /\ UNCHANGED <<event, price, inflight, rows, counted, pushed, truncated,
                 handler, faults>>

AddFails(e) ==
  /\ e \notin added
  /\ Fault
  /\ added' = added \cup {e}
  /\ UNCHANGED <<event, price, broker, rows, counted, pushed, truncated, handler>>

SetPrice(m, v) ==
  /\ price' = [price EXCEPT ![m] = v]
  /\ UNCHANGED <<event, added, broker, rows, counted, pushed, truncated,
                 handler, faults>>

-----------------------------------------------------------------------------
(***************************************************************************)
(* The handler.                                                            *)
(***************************************************************************)
Fetch(w, e) ==
  /\ pc[w] = "idle"
  /\ e \in queue
  /\ queue' = queue \ {e}
  /\ inflight' = inflight \cup {e}
  /\ pc' = [pc EXCEPT ![w] = "count"]
  /\ task' = [task EXCEPT ![w] = e]
  /\ UNCHANGED <<event, price, added, rows, counted, pushed, truncated, read, faults>>

EndHandler(w) ==
  /\ pc' = [pc EXCEPT ![w] = "idle"]
  /\ task' = [task EXCEPT ![w] = None]
  /\ read' = [read EXCEPT ![w] = Unpriced]

\* The handler returns (): the task counts as done.
Return(w) ==
  /\ EndHandler(w)
  /\ inflight' = inflight \ {task[w]}
  /\ queue' = queue

\* Mutant of Count: increments where there is no usage.
CountWithoutUsage(w) ==
  /\ pc[w] = "count"
  /\ pc' = [pc EXCEPT ![w] = "select_model"]
  /\ counted' = IF ~Usage(task[w]) /\ counted[task[w]] < CountCap
                  THEN [counted EXCEPT ![task[w]] = @ + 1]
                  ELSE counted
  /\ UNCHANGED <<event, price, added, broker, rows, pushed, truncated, task,
                 read, faults>>

\* increment_token_usage, before the transaction and outside of it.
Count(w) ==
  /\ pc[w] = "count"
  /\ pc' = [pc EXCEPT ![w] = "select_model"]
  /\ counted' = IF Usage(task[w]) /\ counted[task[w]] < CountCap
                  THEN [counted EXCEPT ![task[w]] = @ + 1]
                  ELSE counted
  /\ UNCHANGED <<event, price, added, broker, rows, pushed, truncated, task,
                 read, faults>>

\* Mutant of SelectModel: a model that is not found is not given a default.
SelectWithoutDefault(w) ==
  /\ pc[w] = "select_model"
  /\ pc' = [pc EXCEPT ![w] = "upsert_event"]
  /\ read' = [read EXCEPT ![w] = price[event[task[w]].model]]
  /\ UNCHANGED <<event, price, added, broker, rows, counted, pushed, truncated,
                 task, faults>>

SelectModel(w) ==
  /\ pc[w] = "select_model"
  /\ pc' = [pc EXCEPT ![w] = "upsert_event"]
  /\ read' = [read EXCEPT ![w] =
                IF price[event[task[w]].model] = None
                  THEN Unpriced ELSE price[event[task[w]].model]]
  /\ UNCHANGED <<event, price, added, broker, rows, counted, pushed, truncated,
                 task, faults>>

\* There is usage and a model, so there is something to charge.
Charges(w) == Usage(task[w]) /\ read[w] # Unpriced

\* The prices for the session event: never those for batches.
RecordedPrice(w) ==
  IF read[w] = Unpriced THEN Unpriced ELSE [version |-> read[w], rate |-> "regular"]

\* The prices for the charge: is_batch is set for the usage of a batch.
ChargedPrice(w) ==
  [version |-> read[w],
   rate |-> IF event[task[w]].usage = "batch" THEN "batch" ELSE "regular"]

\* w holds the row of its session event, inserted or updated.
LocksEvent(w) == pc[w] \in {"insert_charge", "commit"}

\* Mutant of EventFree: ON CONFLICT DO NOTHING, which waits for no one.
NoEventLock(w) == TRUE

EventFree(w) ==
  \A v \in Workers \ {w} : ~(LocksEvent(v) /\ task[v] = task[w])

\* Mutant of UpsertEvent: on the pool instead of the transaction, so that it is
\* not rolled back.
UpsertOutsideTx(w) ==
  /\ pc[w] = "upsert_event"
  /\ EventFree(w)
  /\ pc' = [pc EXCEPT ![w] = IF Charges(w) THEN "insert_charge" ELSE "commit"]
  /\ recorded' = [recorded EXCEPT ![task[w]] = RecordedPrice(w)]
  /\ UNCHANGED <<event, price, added, broker, charge, counted, pushed, truncated,
                 task, read, faults>>

\* INSERT ... ON CONFLICT (session_id, session_index) DO UPDATE.
UpsertEvent(w) ==
  /\ pc[w] = "upsert_event"
  /\ EventFree(w)
  /\ pc' = [pc EXCEPT ![w] = IF Charges(w) THEN "insert_charge" ELSE "commit"]
  /\ UNCHANGED <<event, price, added, broker, rows, counted, pushed, truncated,
                 task, read, faults>>

InsertCharge(w) ==
  /\ pc[w] = "insert_charge"
  /\ charge[task[w]] = None
  /\ pc' = [pc EXCEPT ![w] = "commit"]
  /\ UNCHANGED <<event, price, added, broker, rows, counted, pushed, truncated,
                 task, read, faults>>

\* Mutant of ChargeExists: the task of the existing change is pushed again.
PushExisting(w) ==
  /\ pc[w] = "insert_charge"
  /\ charge[task[w]] # None
  /\ pc' = [pc EXCEPT ![w] = "push"]
  /\ UNCHANGED <<event, price, added, broker, rows, counted, pushed, truncated,
                 task, read, faults>>

\* The unique index on unique_request_id refuses a second charge; the handler
\* rolls back, its update of the session event included.
ChargeExists(w) ==
  /\ pc[w] = "insert_charge"
  /\ charge[task[w]] # None
  /\ Return(w)
  /\ UNCHANGED <<event, price, added, rows, counted, pushed, truncated, faults>>

\* What COMMIT makes visible.
Publish(w) ==
  /\ recorded' = [recorded EXCEPT ![task[w]] = RecordedPrice(w)]
  /\ charge' = IF Charges(w) THEN [charge EXCEPT ![task[w]] = ChargedPrice(w)] ELSE charge

\* Mutant of Commit: returns before the settle task is pushed.
CommitWithoutPush(w) ==
  /\ pc[w] = "commit"
  /\ Publish(w)
  /\ Return(w)
  /\ UNCHANGED <<event, price, added, counted, pushed, truncated, faults>>

Commit(w) ==
  /\ pc[w] = "commit"
  /\ Publish(w)
  /\ IF Charges(w)
       THEN /\ pc' = [pc EXCEPT ![w] = "push"]
            /\ UNCHANGED <<broker, task, read>>
       ELSE Return(w)
  /\ UNCHANGED <<event, price, added, counted, pushed, truncated, faults>>

\* The handler only logs an error, so a push whose reply is lost looks the same.
Push(w) ==
  /\ pc[w] = "push"
  /\ pushed' = pushed \cup {task[w]}
  /\ Return(w)
  /\ UNCHANGED <<event, price, added, rows, counted, truncated, faults>>

-----------------------------------------------------------------------------
(***************************************************************************)
(* Faults.                                                                 *)
(***************************************************************************)
\* Redis refuses the increment, which is only logged.
CountFails(w) ==
  /\ pc[w] = "count"
  /\ Fault
  /\ pc' = [pc EXCEPT ![w] = "select_model"]
  /\ UNCHANGED <<event, price, added, broker, rows, counted, pushed, truncated,
                 task, read>>

\* A statement of the transaction or the push of the settle task fails; an
\* error leaves the transaction unusable and the handler returns.
StepFails(w) ==
  /\ pc[w] \in InTx \cup {"push"}
  /\ Fault
  /\ Return(w)
  /\ UNCHANGED <<event, price, added, rows, counted, pushed, truncated>>

LostCommitReply(w) ==
  /\ pc[w] = "commit"
  /\ Fault
  /\ Publish(w)
  /\ Return(w)
  /\ UNCHANGED <<event, price, added, counted, pushed, truncated>>

Crash(w) ==
  /\ pc[w] # "idle"
  /\ Fault
  /\ EndHandler(w)
  /\ UNCHANGED <<event, price, added, broker, rows, counted, pushed, truncated>>

\* PostgreSQL dies and recovers: session_events is empty, every transaction is
\* rolled back and its handler returns.
DatabaseCrash ==
  LET lost == {w \in Workers : pc[w] \in InTx} IN
  /\ Fault
  /\ truncated' = TRUE
  /\ recorded' = [e \in Events |-> None]
  /\ pc' = [w \in Workers |-> IF w \in lost THEN "idle" ELSE pc[w]]
  /\ task' = [w \in Workers |-> IF w \in lost THEN None ELSE task[w]]
  /\ read' = [w \in Workers |-> IF w \in lost THEN Unpriced ELSE read[w]]
  /\ inflight' = inflight \ {task[w] : w \in lost}
  /\ UNCHANGED <<event, price, added, queue, charge, counted, pushed>>

Redeliver(e) ==
  /\ e \in inflight
  /\ inflight' = inflight \ {e}
  /\ queue' = queue \cup {e}
  /\ UNCHANGED <<event, price, added, rows, counted, pushed, truncated, handler,
                 faults>>

-----------------------------------------------------------------------------
\* The statements of one invocation, without faults.
Step(w) ==
  \/ Count(w)
  \/ SelectModel(w)
  \/ UpsertEvent(w)
  \/ InsertCharge(w)
  \/ ChargeExists(w)
  \/ Commit(w)
  \/ Push(w)

Fail(w) ==
  \/ CountFails(w)
  \/ StepFails(w)
  \/ LostCommitReply(w)
  \/ Crash(w)

Next ==
  \/ \E e \in Events : Add(e) \/ AddFails(e) \/ Redeliver(e)
  \/ \E m \in Models, v \in Versions : SetPrice(m, v)
  \/ \E w \in Workers : Step(w) \/ Fail(w) \/ \E e \in Events : Fetch(w, e)
  \/ DatabaseCrash

Spec == Init /\ [][Next]_vars

\* As in Settlement: the runtime runs every invocation, PostgreSQL serves the
\* waiters of a row in turn, and the broker's list is first in, first out.
Fairness ==
  /\ \A w \in Workers : SF_vars(Step(w))
  /\ \A e \in Events : SF_vars(\E w \in Workers : Fetch(w, e))

FairSpec == Spec /\ Fairness
=============================================================================
