------------------------- MODULE EventPipelineProofs -------------------------
(***************************************************************************)
(* Proofs about EventPipeline, for every set of events, models,            *)
(* versions and workers.                                                   *)
(***************************************************************************)
EXTENDS EventPipelineProps, TLAPS

(***************************************************************************)
(* Type correctness.                                                       *)
(***************************************************************************)
LEMMA TypeInit == Init => TypeOK
<1> SUFFICES ASSUME Init
             PROVE  TypeOK
  OBVIOUS
<1>1. /\ event \in [Events -> [model : Models, usage : Usages]]
      /\ price \in [Models -> Versions \cup {None}]
  BY DEF Init
<1>2. counted \in [Events -> 0 .. CountCap] /\ faults \in 0 .. MaxFaults
  BY PipelineAssumption, SMT DEF Init, CountCap
<1>3. /\ recorded \in [Events -> Price \cup {Unpriced, None}]
      /\ charge \in [Events -> Price \cup {None}]
      /\ pc \in [Workers -> PCs]
      /\ task \in [Workers -> Events \cup {None}]
      /\ read \in [Workers -> Versions \cup {Unpriced}]
      /\ \A w \in Workers : pc[w] = "idle"
  BY SMT DEF Init, PCs
<1>4. /\ added \subseteq Events /\ queue \subseteq Events
      /\ inflight \subseteq Events /\ pushed \subseteq Events
      /\ truncated \in BOOLEAN
  BY DEF Init
<1> QED
  BY <1>1, <1>2, <1>3, <1>4 DEF TypeOK

\* The two prices a commit makes visible: both are of the version that was read,
\* and the recorded one has the regular rate.
LEMMA PricesOfOneVersion ==
  ASSUME TypeOK, NEW w \in Workers
  PROVE  /\ RecordedPrice(w) \in Price \cup {Unpriced}
         /\ RecordedPrice(w) # None
         /\ Charges(w) =>
              /\ ChargedPrice(w) \in Price
              /\ ChargedPrice(w) # None
              /\ ChargedPrice(w).rate = "batch" <=> event[task[w]].usage = "batch"
              /\ RecordedPrice(w) = [ChargedPrice(w) EXCEPT !.rate = "regular"]
         /\ read[w] = Unpriced => RecordedPrice(w) = Unpriced
<1>1. read[w] \in Versions \cup {Unpriced}
  BY DEF TypeOK
<1>2. RecordedPrice(w) \in Price \cup {Unpriced}
  BY <1>1 DEF RecordedPrice, Price
<1>3. ASSUME Charges(w)
      PROVE  /\ ChargedPrice(w) \in Price
             /\ ChargedPrice(w).rate = "batch" <=> event[task[w]].usage = "batch"
             /\ RecordedPrice(w) = [ChargedPrice(w) EXCEPT !.rate = "regular"]
  BY <1>1, <1>3 DEF Charges, ChargedPrice, RecordedPrice, Price
<1>4. None \notin Price \cup {Unpriced}
  BY PipelineAssumption
<1>5. read[w] = Unpriced => RecordedPrice(w) = Unpriced
  BY DEF RecordedPrice
<1> QED
  BY <1>2, <1>3, <1>4, <1>5

LEMMA TypeStep == TypeOK /\ [Next]_vars => TypeOK'
<1> SUFFICES ASSUME TypeOK, [Next]_vars
             PROVE  TypeOK'
  OBVIOUS
<1> USE PipelineAssumption DEF broker, rows, handler, PCs, InTx, CountCap
<1>1. ASSUME NEW e \in Events, Add(e) \/ AddFails(e) \/ Redeliver(e)
      PROVE  TypeOK'
  BY <1>1 DEF TypeOK, Add, AddFails, Redeliver, Fault
<1>2. ASSUME NEW m \in Models, NEW v \in Versions, SetPrice(m, v)
      PROVE  TypeOK'
  BY <1>2 DEF TypeOK, SetPrice
<1>3. ASSUME NEW w \in Workers, NEW e \in Events, Fetch(w, e)
      PROVE  TypeOK'
  BY <1>3 DEF TypeOK, Fetch
<1>4. ASSUME NEW w \in Workers, Count(w)
      PROVE  TypeOK'
  BY <1>4 DEF TypeOK, Count
<1>5. ASSUME NEW w \in Workers, SelectModel(w)
      PROVE  TypeOK'
  <2>1. event[task[w]].model \in Models
    BY <1>5 DEF TypeOK, SelectModel
  <2> QED
    BY <1>5, <2>1 DEF TypeOK, SelectModel
<1>6. ASSUME NEW w \in Workers, UpsertEvent(w) \/ InsertCharge(w)
      PROVE  TypeOK'
  <2>1. pc' \in [Workers -> PCs]
    BY <1>6 DEF TypeOK, UpsertEvent, InsertCharge
  <2>2. \A v \in Workers : pc'[v] # "idle" => task[v] \in Events
    BY <1>6 DEF TypeOK, UpsertEvent, InsertCharge
  <2> QED
    BY <1>6, <2>1, <2>2 DEF TypeOK, UpsertEvent, InsertCharge
<1>7. ASSUME NEW w \in Workers, ChargeExists(w) \/ Push(w)
      PROVE  TypeOK'
  BY <1>7 DEF TypeOK, ChargeExists, Push, Return, EndHandler
<1>8. ASSUME NEW w \in Workers, Commit(w)
      PROVE  TypeOK'
  <2>1. /\ recorded' \in [Events -> Price \cup {Unpriced, None}]
        /\ charge' \in [Events -> Price \cup {None}]
    BY <1>8, PricesOfOneVersion DEF TypeOK, Commit, Publish
  <2>2. CASE Charges(w)
    BY <1>8, <2>1, <2>2 DEF TypeOK, Commit
  <2>3. CASE ~Charges(w)
    BY <1>8, <2>1, <2>3 DEF TypeOK, Commit, Return, EndHandler
  <2> QED
    BY <2>2, <2>3
<1>9. ASSUME NEW w \in Workers, CountFails(w) \/ StepFails(w) \/ Crash(w)
      PROVE  TypeOK'
  <2>1. CASE CountFails(w)
    BY <2>1 DEF TypeOK, CountFails, Fault
  <2>2. CASE StepFails(w)
    BY <2>2 DEF TypeOK, StepFails, Fault, Return, EndHandler
  <2>3. CASE Crash(w)
    BY <2>3 DEF TypeOK, Crash, Fault, EndHandler
  <2> QED
    BY <1>9, <2>1, <2>2, <2>3
<1>10. ASSUME NEW w \in Workers, LostCommitReply(w)
       PROVE  TypeOK'
  <2>1. /\ recorded' \in [Events -> Price \cup {Unpriced, None}]
        /\ charge' \in [Events -> Price \cup {None}]
    BY <1>10, PricesOfOneVersion DEF TypeOK, LostCommitReply, Publish
  <2> QED
    BY <1>10, <2>1 DEF TypeOK, LostCommitReply, Fault, Return, EndHandler
<1>11. ASSUME DatabaseCrash
       PROVE  TypeOK'
  BY <1>11 DEF TypeOK, DatabaseCrash, Fault
<1>12. ASSUME UNCHANGED vars
       PROVE  TypeOK'
  BY <1>12 DEF TypeOK, vars
<1> QED
  BY <1>1, <1>2, <1>3, <1>4, <1>5, <1>6, <1>7, <1>8, <1>9, <1>10, <1>11, <1>12
     DEF Next, Step, Fail

(***************************************************************************)
(* What the broker, the tables, the counters and the handlers hold has its *)
(* type, for any number of events, workers and faults.                     *)
(***************************************************************************)
THEOREM TypeCorrect == Spec => []TypeOK
  BY TypeInit, TypeStep, PTL DEF Spec

(***************************************************************************)
(* One charger per event.                                                  *)
(***************************************************************************)
LEMMA ChargerInit == Init => OneCharger
  BY DEF Init, OneCharger, LocksEvent, InTx

LEMMA ChargerStep == TypeOK /\ OneCharger /\ [Next]_vars => OneCharger'
<1> SUFFICES ASSUME TypeOK, OneCharger, [Next]_vars
             PROVE  OneCharger'
  OBVIOUS
<1> USE DEF broker, rows, handler, LocksEvent, Charges, Usage
<1>1. ASSUME NEW e \in Events, Add(e) \/ AddFails(e) \/ Redeliver(e)
      PROVE  OneCharger'
  BY <1>1 DEF OneCharger, Add, AddFails, Redeliver
<1>2. ASSUME NEW m \in Models, NEW v \in Versions, SetPrice(m, v)
      PROVE  OneCharger'
  BY <1>2 DEF OneCharger, SetPrice
<1>3. ASSUME NEW w \in Workers, NEW e \in Events, Fetch(w, e)
      PROVE  OneCharger'
  BY <1>3 DEF TypeOK, OneCharger, Fetch
<1>4. ASSUME NEW w \in Workers, Count(w) \/ CountFails(w)
      PROVE  OneCharger'
  BY <1>4, SMTT(20) DEF TypeOK, OneCharger, Count, CountFails
<1>5. ASSUME NEW w \in Workers, SelectModel(w)
      PROVE  OneCharger'
  BY <1>5 DEF TypeOK, OneCharger, SelectModel
<1>6. ASSUME NEW w \in Workers, UpsertEvent(w)
      PROVE  OneCharger'
  BY <1>6 DEF TypeOK, OneCharger, UpsertEvent, EventFree
<1>7. ASSUME NEW w \in Workers, InsertCharge(w)
      PROVE  OneCharger'
  BY <1>7 DEF TypeOK, OneCharger, InsertCharge
<1>8. ASSUME NEW w \in Workers,
             ChargeExists(w) \/ StepFails(w) \/ Crash(w)
      PROVE  OneCharger'
  <2>1. /\ pc'[w] = "idle"
        /\ \A v \in Workers \ {w} :
             pc'[v] = pc[v] /\ task'[v] = task[v] /\ read'[v] = read[v]
        /\ UNCHANGED <<charge, pushed, event>>
    BY <1>8 DEF TypeOK, ChargeExists, StepFails, Crash, Return, EndHandler
  <2> QED
    BY <2>1 DEF OneCharger
<1>9. ASSUME NEW w \in Workers, Commit(w) \/ LostCommitReply(w)
      PROVE  OneCharger'
  <2>1. /\ pc[w] = "commit" /\ task[w] \in Events
        /\ \A v \in Workers \ {w} :
             pc'[v] = pc[v] /\ task'[v] = task[v] /\ read'[v] = read[v]
        /\ pc'[w] \in {"idle", "push"}
        /\ pc'[w] = "push" =>
             Charges(w) /\ task'[w] = task[w] /\ charge'[task[w]] # None
    BY <1>9, PricesOfOneVersion
       DEF TypeOK, Commit, LostCommitReply, Publish, Return, EndHandler
  <2>2. /\ \A e \in Events \ {task[w]} : charge'[e] = charge[e]
        /\ ~Charges(w) => charge'[task[w]] = charge[task[w]]
        /\ Charges(w) => charge'[task[w]] # None
        /\ UNCHANGED <<pushed, event>>
    BY <1>9, PricesOfOneVersion
       DEF TypeOK, Commit, LostCommitReply, Publish, Return, EndHandler
  <2>3. Charges(w) =>
          \A v \in Workers : pc[v] = "push" => task[v] # task[w]
    BY <2>1 DEF OneCharger
  <2>4. \A v \in Workers \ {w} : LocksEvent(v) => task[v] # task[w]
    BY <2>1 DEF OneCharger
  <2>5. \A v \in Workers : pc[v] # "idle" => task[v] \in Events
    BY DEF TypeOK
  <2>6. Charges(w) => task[w] \notin pushed
    BY <2>1 DEF OneCharger
  <2> QED
    BY <2>1, <2>2, <2>3, <2>4, <2>5, <2>6 DEF OneCharger, TypeOK
<1>10. ASSUME NEW w \in Workers, Push(w)
       PROVE  OneCharger'
  <2>1. /\ pc[w] = "push" /\ task[w] \in Events
        /\ pc'[w] = "idle"
        /\ \A v \in Workers \ {w} :
             pc'[v] = pc[v] /\ task'[v] = task[v] /\ read'[v] = read[v]
        /\ pushed' = pushed \cup {task[w]}
        /\ UNCHANGED <<charge, event>>
    BY <1>10 DEF TypeOK, Push, Return, EndHandler
  <2> QED
    BY <2>1 DEF OneCharger
<1>11. ASSUME DatabaseCrash
       PROVE  OneCharger'
  BY <1>11 DEF TypeOK, OneCharger, DatabaseCrash, InTx
<1>12. ASSUME UNCHANGED vars
       PROVE  OneCharger'
  BY <1>12 DEF OneCharger, vars
<1> QED
  BY <1>1, <1>2, <1>3, <1>4, <1>5, <1>6, <1>7, <1>8, <1>9, <1>10, <1>11, <1>12
     DEF Next, Step, Fail

(***************************************************************************)
(* However often events are delivered, to however many workers, the lock   *)
(* of the session event and the unique index leave each event one charge   *)
(* and one handler that pushes its settle task.                            *)
(***************************************************************************)
THEOREM OneChargerAlways == Spec => []OneCharger
  BY TypeCorrect, ChargerInit, ChargerStep, PTL DEF Spec

(***************************************************************************)
(* Charges and session events.                                             *)
(***************************************************************************)
LEMMA RecordedStep ==
  TypeOK /\ OneCharger /\ ChargeIsRecorded /\ [Next]_vars => ChargeIsRecorded'
<1> SUFFICES ASSUME TypeOK, OneCharger, ChargeIsRecorded, [Next]_vars
             PROVE  ChargeIsRecorded'
  OBVIOUS
<1>1. CASE \E w \in Workers : Commit(w) \/ LostCommitReply(w)
  <2>1. PICK w \in Workers : Commit(w) \/ LostCommitReply(w)
    BY <1>1
  <2>2. /\ Publish(w)
        /\ UNCHANGED <<event, truncated>>
        /\ task[w] \in Events
        /\ Charges(w) => charge[task[w]] = None
    BY <2>1 DEF Commit, LostCommitReply, TypeOK, OneCharger
  <2>3. charge[task[w]] # None => Usage(task[w])
    BY <2>2 DEF OneCharger
  <2>4. \A e \in Events \ {task[w]} :
          charge'[e] = charge[e] /\ recorded'[e] = recorded[e]
    BY <2>2 DEF Publish, TypeOK
  <2>5. recorded'[task[w]] = RecordedPrice(w)
    BY <2>2 DEF Publish, TypeOK
  <2>6. CASE Charges(w)
    <3>1. charge'[task[w]] = ChargedPrice(w)
      BY <2>2, <2>6 DEF Publish, TypeOK
    <3> QED
      BY <2>2, <2>4, <2>5, <2>6, <3>1, PricesOfOneVersion DEF ChargeIsRecorded, BackedBy
  <2>7. CASE ~Charges(w)
    <3>1. charge' = charge
      BY <2>2, <2>7 DEF Publish
    <3>2. charge[task[w]] # None => recorded'[task[w]] = Unpriced
      BY <2>3, <2>5, <2>7, PricesOfOneVersion DEF Charges
    <3> QED
      BY <2>2, <2>4, <3>1, <3>2 DEF ChargeIsRecorded, BackedBy
  <2> QED
    BY <2>6, <2>7
<1>2. CASE UNCHANGED <<rows, event, truncated>>
  BY <1>2 DEF rows, ChargeIsRecorded, BackedBy
<1>3. CASE DatabaseCrash
  BY <1>3 DEF DatabaseCrash, ChargeIsRecorded
<1> QED
  BY <1>1, <1>2, <1>3
     DEF Next, Step, Fail, vars, Add, AddFails, Redeliver, SetPrice, Fetch, Count,
         SelectModel, UpsertEvent, InsertCharge, ChargeExists, Push, CountFails,
         StepFails, Crash

(***************************************************************************)
(* The upsert and the charge commit together, from one read of the model:  *)
(* unless a crash of the database empties session_events, every charge has *)
(* its session event, with the regular prices of the version it was        *)
(* computed from.  The usage of a batch, and no other, is charged at the   *)
(* batch prices instead, which are not recorded.                           *)
(***************************************************************************)
THEOREM ChargeIsRecordedAlways == Spec => []ChargeIsRecorded
<1>1. Init => ChargeIsRecorded
  BY DEF Init, ChargeIsRecorded
<1> QED
  BY <1>1, RecordedStep, TypeCorrect, OneChargerAlways, PTL DEF Spec

(***************************************************************************)
(* Charges and counters.                                                   *)
(***************************************************************************)
LEMMA CountedStep ==
  TypeOK /\ ChargeIsCounted /\ [Next]_vars => ChargeIsCounted'
<1> SUFFICES ASSUME TypeOK, ChargeIsCounted, [Next]_vars, faults' = 0
             PROVE  ChargeIsCounted'
  BY DEF ChargeIsCounted
<1> USE DEF rows, handler, broker, Usage, InTx
<1>1. ~Fault
  BY PipelineAssumption DEF TypeOK, Fault
<1>2. CASE \E e \in Events : Add(e) \/ Redeliver(e)
  BY <1>2 DEF ChargeIsCounted, Add, Redeliver
<1>3. CASE \E m \in Models, v \in Versions : SetPrice(m, v)
  BY <1>3 DEF ChargeIsCounted, SetPrice
<1>4. ASSUME NEW w \in Workers, NEW e \in Events, Fetch(w, e)
      PROVE  ChargeIsCounted'
  BY <1>4 DEF TypeOK, ChargeIsCounted, Fetch
<1>5. ASSUME NEW w \in Workers, Count(w)
      PROVE  ChargeIsCounted'
  <2>1. \A e \in Events :
          /\ counted[e] > 0 => counted'[e] > 0
          /\ e = task[w] /\ Usage(e) => counted'[e] > 0
    BY <1>5 DEF TypeOK, Count, CountCap
  <2> QED
    BY <1>5, <2>1 DEF TypeOK, ChargeIsCounted, Count
<1>6. ASSUME NEW w \in Workers,
             SelectModel(w) \/ UpsertEvent(w) \/ InsertCharge(w)
      PROVE  ChargeIsCounted'
  BY <1>6 DEF TypeOK, ChargeIsCounted, SelectModel, UpsertEvent, InsertCharge
<1>7. ASSUME NEW w \in Workers, ChargeExists(w) \/ Push(w)
      PROVE  ChargeIsCounted'
  BY <1>7 DEF TypeOK, ChargeIsCounted, ChargeExists, Push, Return, EndHandler
<1>8. ASSUME NEW w \in Workers, Commit(w)
      PROVE  ChargeIsCounted'
  BY <1>8
     DEF TypeOK, ChargeIsCounted, Commit, Publish, Charges, Return, EndHandler
<1>9. CASE UNCHANGED vars
  BY <1>9 DEF ChargeIsCounted, vars
<1> QED
  BY <1>1, <1>2, <1>3, <1>4, <1>5, <1>6, <1>7, <1>8, <1>9
     DEF Next, Step, Fail, AddFails, CountFails, StepFails, LostCommitReply, Crash,
         DatabaseCrash

(***************************************************************************)
(* Without faults, usage is in the counters before it is charged.          *)
(***************************************************************************)
THEOREM ChargeIsCountedAlways == Spec => []ChargeIsCounted
<1>1. Init => ChargeIsCounted
  BY DEF Init, ChargeIsCounted, InTx
<1> QED
  BY <1>1, CountedStep, TypeCorrect, PTL DEF Spec

(***************************************************************************)
(* What was added is kept until it is recorded, charged and pushed.  A     *)
(* delivery that finds the charge gives up its own transaction, which is   *)
(* right because the charge was committed with its session event.          *)
(***************************************************************************)
Kept == NothingIsDropped /\ (truncated => faults > 0)

\* Only a commit records anything, and it charges what it prices.
LEMMA PricedIsCharged ==
  ASSUME TypeOK, [Next]_vars,
         \A e \in Events : Usage(e) /\ recorded[e] \in Price => charge[e] # None
  PROVE  \A e \in Events : Usage(e)' /\ recorded'[e] \in Price => charge'[e] # None
<1> USE PipelineAssumption DEF rows, handler, broker, Usage
<1>1. ASSUME NEW w \in Workers, Publish(w), pc[w] = "commit", event' = event
      PROVE  \A e \in Events : Usage(e)' /\ recorded'[e] \in Price => charge'[e] # None
  <2>1. \A e \in Events \ {task[w]} : charge'[e] = charge[e] /\ recorded'[e] = recorded[e]
    BY <1>1 DEF TypeOK, Publish
  <2>2. /\ task[w] \in Events
        /\ recorded'[task[w]] = RecordedPrice(w)
        /\ Charges(w) => charge'[task[w]] # None
    BY <1>1, PricesOfOneVersion DEF TypeOK, Publish
  <2>3. Unpriced \notin Price /\ (~Charges(w) /\ Usage(task[w]) => RecordedPrice(w) = Unpriced)
    BY PricesOfOneVersion DEF Charges
  <2> QED
    BY <1>1, <2>1, <2>2, <2>3
<1>2. ASSUME DatabaseCrash
      PROVE  \A e \in Events : Usage(e)' /\ recorded'[e] \in Price => charge'[e] # None
  BY <1>2 DEF DatabaseCrash
<1>3. ASSUME UNCHANGED <<event, rows>>
      PROVE  \A e \in Events : Usage(e)' /\ recorded'[e] \in Price => charge'[e] # None
  BY <1>3
<1>4. ASSUME NEW w \in Workers, Step(w) \/ Fail(w) \/ \E e \in Events : Fetch(w, e)
      PROVE  \/ UNCHANGED <<event, rows>>
             \/ Publish(w) /\ pc[w] = "commit" /\ event' = event
  BY <1>4 DEF Step, Fail, Fetch, Count, SelectModel, UpsertEvent, InsertCharge, ChargeExists,
              Commit, Push, CountFails, StepFails, LostCommitReply, Crash
<1>5. ASSUME \/ \E e \in Events : Add(e) \/ AddFails(e) \/ Redeliver(e)
             \/ \E m \in Models, v \in Versions : SetPrice(m, v)
             \/ UNCHANGED vars
      PROVE  UNCHANGED <<event, rows>>
  BY <1>5 DEF Add, AddFails, Redeliver, SetPrice, vars
<1> QED
  BY <1>1, <1>2, <1>3, <1>4, <1>5 DEF Next

\* What an invocation does without faults that matters here: it goes on with its
\* event, or ends with the event recorded and its charge pushed.
Advances(w, e) ==
  /\ \/ pc'[w] # "idle" /\ task'[w] = e
     \/ recorded'[e] # None
  /\ charge'[e] # None => \/ e \in pushed'
                          \/ pc'[w] = "push" /\ task'[w] = e
                          \/ charge[e] # None /\ pc[w] # "push"

LEMMA ChargeHasRecord ==
  ASSUME TypeOK, ChargeIsRecorded, ~truncated, NEW e \in Events, charge[e] # None
  PROVE  recorded[e] # None
<1>1. charge[e] \in Price /\ BackedBy(e, recorded[e])
  BY DEF TypeOK, ChargeIsRecorded
<1>2. [charge[e] EXCEPT !.rate = "regular"] \in Price
  BY <1>1 DEF Price
<1> QED
  BY <1>1, <1>2, PipelineAssumption DEF BackedBy

LEMMA StepAdvances ==
  ASSUME TypeOK, OneCharger, ChargeIsRecorded, ~truncated, NEW w \in Workers, Step(w)
  PROVE  /\ task[w] \in Events
         /\ Advances(w, task[w])
         /\ UNCHANGED <<added, queue, truncated>>
         /\ \A v \in Workers \ {w} : pc'[v] = pc[v] /\ task'[v] = task[v]
         /\ \A e \in Events \ {task[w]} :
              /\ recorded'[e] = recorded[e] /\ charge'[e] = charge[e]
              /\ e \in pushed => e \in pushed'
         /\ recorded[task[w]] # None => recorded'[task[w]] # None
         /\ pushed \subseteq pushed'
<1> USE PipelineAssumption DEF rows, handler, broker, Advances
<1>1. task[w] \in Events
  BY DEF TypeOK, Step, Count, SelectModel, UpsertEvent, InsertCharge, ChargeExists, Commit, Push
<1>2. CASE Count(w) \/ SelectModel(w) \/ UpsertEvent(w) \/ InsertCharge(w)
  BY <1>1, <1>2 DEF TypeOK, PCs, InTx, Count, SelectModel, UpsertEvent, InsertCharge
<1>3. CASE ChargeExists(w)
  <2>1. recorded[task[w]] # None
    BY <1>1, <1>3, ChargeHasRecord DEF ChargeExists
  <2> QED
    BY <1>1, <1>3, <2>1 DEF TypeOK, ChargeExists, Return, EndHandler
<1>4. CASE Commit(w)
  <2>1. /\ recorded'[task[w]] # None
        /\ \A e \in Events \ {task[w]} : charge'[e] = charge[e] /\ recorded'[e] = recorded[e]
        /\ Charges(w) => charge'[task[w]] # None
        /\ ~Charges(w) => charge' = charge
    BY <1>1, <1>4, PricesOfOneVersion DEF TypeOK, Commit, Publish
  <2>2. CASE Charges(w)
    BY <1>1, <1>4, <2>1, <2>2 DEF TypeOK, Commit
  <2>3. CASE ~Charges(w)
    BY <1>1, <1>4, <2>1, <2>3 DEF TypeOK, Commit, Return, EndHandler
  <2> QED
    BY <2>2, <2>3
<1>5. CASE Push(w)
  <2>1. recorded[task[w]] # None
    BY <1>1, <1>5, ChargeHasRecord DEF Push, OneCharger
  <2> QED
    BY <1>1, <1>5, <2>1 DEF TypeOK, Push, Return, EndHandler
<1> QED
  BY <1>2, <1>3, <1>4, <1>5 DEF Step

LEMMA KeptStep ==
  ASSUME TypeOK, OneCharger, ChargeIsRecorded, Kept, [Next]_vars
  PROVE  Kept'
<1> USE DEF rows, handler, broker
<1> DEFINE Waiting(e) == e \in queue \/ Handled(e) \/ recorded[e] # None
           Pushed(e)  == charge[e] # None => e \in pushed \/ Pushing(e)
<1>1. \A e \in Events : Usage(e)' /\ recorded'[e] \in Price => charge'[e] # None
  BY PricedIsCharged DEF Kept, NothingIsDropped
<1>2. faults' # 0 => faults' > 0
  BY TypeStep DEF TypeOK
<1>3. SUFFICES ASSUME faults' = 0
               PROVE  /\ ~truncated'
                      /\ \A e \in Events : (e \in added' => Waiting(e)') /\ Pushed(e)'
  BY <1>1, <1>2 DEF Kept, NothingIsDropped
<1>4. ~Fault
  BY <1>3, PipelineAssumption DEF TypeOK, Fault
<1>5. CASE \/ \E e \in Events : Add(e) \/ Redeliver(e)
           \/ \E m \in Models, v \in Versions : SetPrice(m, v)
           \/ UNCHANGED vars
  <2>1. /\ UNCHANGED <<truncated, recorded, charge, pushed, pc, task, faults>>
        /\ queue \subseteq queue'
        /\ added' \subseteq added \cup queue'
    BY <1>5 DEF Add, Redeliver, SetPrice, vars
  <2> QED
    BY <1>3, <2>1 DEF Kept, NothingIsDropped, Handled, Pushing
<1>6. ASSUME NEW w \in Workers, NEW e \in Events, Fetch(w, e)
      PROVE  /\ ~truncated'
             /\ \A x \in Events : (x \in added' => Waiting(x)') /\ Pushed(x)'
  <2>1. /\ UNCHANGED <<truncated, recorded, charge, pushed, added, faults>>
        /\ pc[w] = "idle" /\ pc'[w] = "count" /\ task'[w] = e
        /\ \A v \in Workers \ {w} : pc'[v] = pc[v] /\ task'[v] = task[v]
        /\ queue' = queue \ {e}
    BY <1>6 DEF TypeOK, Fetch
  <2> QED
    BY <1>3, <2>1 DEF Kept, NothingIsDropped, Handled, Pushing
<1>7. ASSUME NEW w \in Workers, Step(w)
      PROVE  /\ ~truncated'
             /\ \A x \in Events : (x \in added' => Waiting(x)') /\ Pushed(x)'
  <2>1. faults = 0 /\ ~truncated
    BY <1>3, <1>7 DEF Kept, Step, Count, SelectModel, UpsertEvent, InsertCharge, ChargeExists,
                      Commit, Push
  <2>2. /\ task[w] \in Events
        /\ Advances(w, task[w])
        /\ UNCHANGED <<added, queue, truncated>>
        /\ \A v \in Workers \ {w} : pc'[v] = pc[v] /\ task'[v] = task[v]
        /\ \A e \in Events \ {task[w]} :
             /\ recorded'[e] = recorded[e] /\ charge'[e] = charge[e]
             /\ e \in pushed => e \in pushed'
        /\ recorded[task[w]] # None => recorded'[task[w]] # None
        /\ pushed \subseteq pushed'
    BY <1>7, <2>1, StepAdvances
  <2>3. \A x \in Events : (x \in added => Waiting(x)) /\ Pushed(x)
    BY <2>1 DEF Kept, NothingIsDropped
  <2>4. ASSUME NEW x \in Events, x # task[w]
        PROVE  (x \in added' => Waiting(x)') /\ Pushed(x)'
    BY <2>2, <2>3, <2>4 DEF Handled, Pushing
  <2>5. ASSUME NEW x \in Events, x = task[w]
        PROVE  (x \in added' => Waiting(x)') /\ Pushed(x)'
    <3>1. Waiting(x)'
      BY <2>2, <2>5 DEF Advances, Handled
    <3>2. Pushed(x)'
      BY <2>2, <2>3, <2>5 DEF Advances, Pushing
    <3> QED
      BY <3>1, <3>2
  <2> QED
    BY <2>1, <2>2, <2>4, <2>5
<1> QED
  BY <1>4, <1>5, <1>6, <1>7
     DEF Next, Fail, AddFails, CountFails, StepFails, LostCommitReply, Crash, DatabaseCrash

(***************************************************************************)
(* Without faults no event and no charge is dropped on the way, for any    *)
(* number of handlers, deliveries and price changes: the safety half of    *)
(* UsageIsPushed.                                                          *)
(***************************************************************************)
THEOREM NothingIsDroppedAlways == Spec => []NothingIsDropped
<1>1. Init => Kept
  BY PipelineAssumption DEF Init, Kept, NothingIsDropped, Usage
<1>2. TypeOK /\ OneCharger /\ ChargeIsRecorded /\ Kept /\ [Next]_vars => Kept'
  BY KeptStep
<1>3. Kept => NothingIsDropped
  BY DEF Kept
<1> QED
  BY <1>1, <1>2, <1>3, TypeCorrect, OneChargerAlways, ChargeIsRecordedAlways, PTL DEF Spec

(***************************************************************************)
(* The pipeline implements Submission.  A step moves the stage of at most  *)
(* one event.                                                              *)
(***************************************************************************)
LEMMA StageUnchanged ==
  ASSUME UNCHANGED <<charge, pushed>>,
         \A e \in Events : Pushing(e)' <=> Pushing(e)
  PROVE  UNCHANGED [e \in Events |-> Stage(e)]
<1>1. ASSUME NEW e \in Events
      PROVE  Stage(e)' = Stage(e)
  BY DEF Stage
<1> QED
  BY <1>1

LEMMA StageMoves ==
  ASSUME NEW e \in Events, NEW t,
         Stage(e)' = t,
         \A x \in Events \ {e} :
           /\ charge'[x] = charge[x]
           /\ x \in pushed' <=> x \in pushed
           /\ Pushing(x)' <=> Pushing(x)
  PROVE  [x \in Events |-> Stage(x)]' = [[x \in Events |-> Stage(x)] EXCEPT ![e] = t]
<1>1. ASSUME NEW x \in Events \ {e}
      PROVE  Stage(x)' = Stage(x)
  BY <1>1 DEF Stage
<1> QED
  BY <1>1

LEMMA SubmissionInit == Init => S!Init
  BY DEF Init, S!Init, Stage

LEMMA SubmissionStep ==
  TypeOK /\ OneCharger /\ [Next]_vars => [S!Next]_([e \in Events |-> Stage(e)])
<1> SUFFICES ASSUME TypeOK, OneCharger, [Next]_vars
             PROVE  [S!Next]_([e \in Events |-> Stage(e)])
  OBVIOUS
<1> DEFINE Quiet == /\ UNCHANGED <<charge, pushed>>
                    /\ \A e \in Events : Pushing(e)' <=> Pushing(e)
<1> USE DEF rows, handler, broker
<1>1. ASSUME NEW w \in Workers, Commit(w) \/ LostCommitReply(w), Charges(w)
      PROVE  S!Next
  <2> PICK e0 \in Events : e0 = task[w]
    BY <1>1 DEF Commit, LostCommitReply, TypeOK
  <2>1. /\ pc[w] = "commit"
        /\ charge[e0] = None
        /\ \A x \in Events \ {e0} : charge'[x] = charge[x]
        /\ charge'[e0] # None
        /\ UNCHANGED pushed
        /\ \A v \in Workers \ {w} : pc'[v] = pc[v] /\ task'[v] = task[v]
    BY <1>1, PricesOfOneVersion
       DEF Commit, LostCommitReply, Publish, Return, EndHandler, TypeOK, OneCharger
  <2>2. e0 \notin pushed /\ ~Pushing(e0) /\ Stage(e0) = "new"
    BY <2>1 DEF OneCharger, Pushing, Stage
  <2>3. \A x \in Events \ {e0} : Pushing(x)' <=> Pushing(x)
    BY <1>1, <2>1
       DEF Pushing, Commit, LostCommitReply, Return, EndHandler, TypeOK
  <2>4. CASE Commit(w)
    <3>1. Pushing(e0)'
      BY <1>1, <2>1, <2>4 DEF Commit, Pushing, TypeOK
    <3>2. Stage(e0)' = "inserted"
      BY <2>1, <2>2, <3>1 DEF Stage
    <3>3. S!Insert(e0)
      BY <2>1, <2>2, <2>3, <3>2, StageMoves DEF S!Insert
    <3> QED
      BY <2>1, <3>3 DEF S!Next
  <2>5. CASE LostCommitReply(w)
    <3>1. ~Pushing(e0)'
      BY <2>1, <2>2, <2>5
         DEF LostCommitReply, Return, EndHandler, Pushing, TypeOK
    <3>2. Stage(e0)' = "unqueued"
      BY <2>1, <2>2, <3>1 DEF Stage
    <3>3. S!GiveUp(e0)
      BY <2>1, <2>2, <2>3, <3>2, StageMoves DEF S!GiveUp
    <3> QED
      BY <2>1, <3>3 DEF S!Next
  <2> QED
    BY <1>1, <2>4, <2>5
<1>2. ASSUME NEW w \in Workers, pc[w] = "push",
             Push(w) \/ StepFails(w) \/ Crash(w)
      PROVE  S!Next
  <2> PICK e0 \in Events : e0 = task[w]
    BY <1>2 DEF TypeOK
  <2>1. /\ charge[e0] # None
        /\ e0 \notin pushed
        /\ UNCHANGED charge
        /\ pc'[w] = "idle"
        /\ \A v \in Workers \ {w} : pc'[v] = pc[v] /\ task'[v] = task[v]
    BY <1>2
       DEF Push, StepFails, Crash, Return, EndHandler, TypeOK, OneCharger
  <2>2. Stage(e0) = "inserted" /\ ~Pushing(e0)'
    BY <1>2, <2>1 DEF OneCharger, Pushing, Stage
  <2>3. \A x \in Events \ {e0} : Pushing(x)' <=> Pushing(x)
    BY <1>2, <2>1 DEF Pushing
  <2>4. CASE Push(w)
    <3>1. pushed' = pushed \cup {e0}
      BY <2>4 DEF Push
    <3>2. Stage(e0)' = "enqueued"
      BY <2>1, <3>1 DEF Stage
    <3>3. S!Enqueue(e0)
      BY <2>1, <2>2, <2>3, <3>1, <3>2, StageMoves DEF S!Enqueue
    <3> QED
      BY <2>1, <3>3 DEF S!Next
  <2>5. CASE StepFails(w) \/ Crash(w)
    <3>1. UNCHANGED pushed
      BY <2>5 DEF StepFails, Crash
    <3>2. Stage(e0)' = "unqueued"
      BY <2>1, <2>2, <3>1 DEF Stage
    <3>3. S!GiveUp(e0)
      BY <2>1, <2>2, <2>3, <3>1, <3>2, StageMoves DEF S!GiveUp
    <3> QED
      BY <2>1, <3>3 DEF S!Next
  <2> QED
    BY <1>2, <2>4, <2>5
<1>3. CASE Quiet
  BY <1>3, StageUnchanged
<1>4. ASSUME NEW w \in Workers,
             \/ Count(w) \/ SelectModel(w) \/ UpsertEvent(w) \/ InsertCharge(w)
             \/ CountFails(w)
      PROVE  Quiet
  BY <1>4
     DEF Count, SelectModel, UpsertEvent, InsertCharge, CountFails, Pushing, TypeOK
<1>5. ASSUME NEW w \in Workers, pc[w] # "push",
             ChargeExists(w) \/ StepFails(w) \/ Crash(w)
      PROVE  Quiet
  <2>1. /\ UNCHANGED <<charge, pushed>>
        /\ pc'[w] = "idle"
        /\ \A v \in Workers \ {w} : pc'[v] = pc[v] /\ task'[v] = task[v]
    BY <1>5 DEF ChargeExists, StepFails, Crash, Return, EndHandler, TypeOK
  <2> QED
    BY <1>5, <2>1 DEF Pushing
<1>6. ASSUME NEW w \in Workers, Commit(w) \/ LostCommitReply(w), ~Charges(w)
      PROVE  Quiet
  <2>1. /\ UNCHANGED <<charge, pushed>>
        /\ pc[w] = "commit" /\ pc'[w] = "idle"
        /\ \A v \in Workers \ {w} : pc'[v] = pc[v] /\ task'[v] = task[v]
    BY <1>6 DEF Commit, LostCommitReply, Publish, Return, EndHandler, TypeOK
  <2> QED
    BY <2>1 DEF Pushing
<1>7. ASSUME NEW w \in Workers, NEW e \in Events, Fetch(w, e)
      PROVE  Quiet
  BY <1>7 DEF Fetch, Pushing, TypeOK
<1>8. ASSUME DatabaseCrash
      PROVE  Quiet
  BY <1>8 DEF DatabaseCrash, Pushing, TypeOK, InTx
<1>9. ASSUME UNCHANGED vars
      PROVE  Quiet
  BY <1>9 DEF vars, Pushing
<1>10. ASSUME NEW e \in Events, Add(e) \/ AddFails(e) \/ Redeliver(e)
       PROVE  Quiet
  BY <1>10 DEF Add, AddFails, Redeliver, Pushing
<1>11. ASSUME NEW m \in Models, NEW v \in Versions, SetPrice(m, v)
       PROVE  Quiet
  BY <1>11 DEF SetPrice, Pushing
<1> HIDE DEF Quiet
<1>12. ASSUME NEW w \in Workers, Step(w) \/ Fail(w)
       PROVE  S!Next \/ Quiet
  <2>1. CASE Commit(w) \/ LostCommitReply(w)
    BY <1>1, <1>6, <2>1
  <2>2. CASE Push(w)
    <3>1. pc[w] = "push"
      BY <2>2 DEF Push
    <3> QED
      BY <1>2, <2>2, <3>1
  <2>3. CASE ChargeExists(w)
    <3>1. pc[w] # "push"
      BY <2>3 DEF ChargeExists
    <3> QED
      BY <1>5, <2>3, <3>1
  <2>4. CASE StepFails(w) \/ Crash(w)
    BY <1>2, <1>5, <2>4
  <2> QED
    BY <1>4, <1>12, <2>1, <2>2, <2>3, <2>4 DEF Step, Fail
<1> QED
  BY <1>3, <1>7, <1>8, <1>9, <1>10, <1>11, <1>12 DEF Next

(***************************************************************************)
(* Whatever is redelivered, fails or crashes, a charge is inserted once,   *)
(* and its settle task is pushed at most once and only after the commit.   *)
(***************************************************************************)
THEOREM PipelineSubmits == Spec => ImplementsSubmission
  BY SubmissionInit, SubmissionStep, TypeCorrect, OneChargerAlways, PTL
     DEF Spec, ImplementsSubmission, S!Spec
=============================================================================
