---------------------------- MODULE RoutingProofs ----------------------------
(***************************************************************************)
(* Proofs about Routing, for every set of upstreams, models, requests and  *)
(* updates, and every number of candidates and faults.                     *)
(***************************************************************************)
EXTENDS RoutingProps, FiniteSetTheorems, TLAPS

(***************************************************************************)
(* What select_model_clients returns: at least one candidate and at most   *)
(* Count, if any model is available.                                       *)
(***************************************************************************)
LEMMA CandidatesAreSequences ==
  ASSUME NEW s \in Candidates
  PROVE  /\ s \in Seq(Models)
         /\ Len(s) \in 0 .. Count
         /\ Available # {} => 1 \in DOMAIN s
         /\ \A i \in DOMAIN s : s[i] \in Available
<1> DEFINE n == Lesser(Count, Cardinality(Available))
<1>1. IsFiniteSet(Available) /\ Cardinality(Available) \in Nat
  BY RoutingAssumption, FS_Subset, FS_CardinalityType DEF Available
<1>2. Available # {} => Cardinality(Available) # 0
  BY <1>1, FS_EmptySet
<1>3. n \in 0 .. Count /\ (Available # {} => n >= 1)
  BY <1>1, <1>2, RoutingAssumption DEF Lesser
<1>4. s \in [1 .. n -> Available] /\ n \in Nat
  BY <1>3, RoutingAssumption DEF Candidates
<1> HIDE DEF n
<1>5. s \in Seq(Available) /\ Len(s) = n /\ DOMAIN s = 1 .. n
  BY <1>4
<1> QED
  BY <1>3, <1>4, <1>5 DEF Available

(***************************************************************************)
(* Type correctness.                                                       *)
(***************************************************************************)
LEMMA TypeInit == Init => TypeOK
  BY RoutingAssumption DEF Init, TypeOK, PCs, Statuses

\* Trying the next candidate keeps the requests well formed.
LEMMA TryNextType ==
  ASSUME TypeOK, NEW r \in Requests, pc[r] = "trying", TryNext(r)
  PROVE  /\ pc' \in [Requests -> PCs]
         /\ picked' = picked
         /\ at' \in [Requests -> 0 .. Count]
         /\ \A q \in Requests : pc'[q] = "trying" => at'[q] \in DOMAIN picked[q]
         /\ \A q \in Requests : pc'[q] = "new" => pc[q] = "new"
<1>1. picked[r] \in Seq(Models) /\ at[r] \in DOMAIN picked[r] /\ Len(picked[r]) <= Count
  BY DEF TypeOK
<1>2. CASE at[r] < Len(picked[r])
  <2>1. /\ at' = [at EXCEPT ![r] = at[r] + 1]
        /\ pc' = pc /\ picked' = picked
    BY <1>2 DEF TryNext
  <2>2. at[r] + 1 \in 0 .. Count /\ at[r] + 1 \in DOMAIN picked[r]
    BY <1>1, <1>2, RoutingAssumption
  <2> QED
    BY <2>1, <2>2 DEF TypeOK
<1>3. CASE ~(at[r] < Len(picked[r]))
  BY <1>3 DEF TryNext, TypeOK, PCs
<1> QED
  BY <1>2, <1>3

LEMMA TypeStep == TypeOK /\ [Next]_vars => TypeOK'
<1> SUFFICES ASSUME TypeOK, [Next]_vars
             PROVE  TypeOK'
  OBVIOUS
<1> USE RoutingAssumption DEF outside, request, health, update, Statuses
<1>1. ASSUME NEW u \in Upstreams, Outside(u)
      PROVE  TypeOK'
  BY <1>1 DEF TypeOK, Outside, Break, Repair, TurnHealthy, TurnUnhealthy
<1>2. ASSUME NEW u \in Upstreams, Probe(u)
      PROVE  TypeOK'
  <2>1. CASE Reach(u)
    BY <2>1 DEF TypeOK, Reach
  <2>2. CASE DoNotReach(u)
    BY <2>2 DEF TypeOK, DoNotReach
  <2>3. CASE MarkOnline(u)
    BY <2>3 DEF TypeOK, MarkOnline
  <2> QED
    BY <1>2, <2>1, <2>2, <2>3 DEF Probe
<1>3. ASSUME NEW r \in Requests, Select(r)
      PROVE  TypeOK'
  <2>1. CASE Available = {} /\ pc' = [pc EXCEPT ![r] = "no_upstream"]
                            /\ UNCHANGED <<picked, at>>
    BY <1>3, <2>1 DEF TypeOK, Select, PCs
  <2>2. ASSUME NEW s \in Candidates, Available # {},
               pc' = [pc EXCEPT ![r] = "trying"],
               picked' = [picked EXCEPT ![r] = s],
               at' = [at EXCEPT ![r] = 1]
        PROVE  TypeOK'
    <3>1. s \in Seq(Models) /\ Len(s) <= Count /\ 1 \in DOMAIN s
      BY <2>2, CandidatesAreSequences
    <3>2. \A p \in marking : p[1] # r
      BY <1>3 DEF TypeOK, Select
    <3>3. /\ pc' \in [Requests -> PCs]
          /\ picked' \in [Requests -> Seq(Models)]
          /\ at' \in [Requests -> 0 .. Count]
      BY <2>2, <3>1 DEF TypeOK, PCs
    <3>4. /\ \A q \in Requests : pc'[q] = "trying" => at'[q] \in DOMAIN picked'[q]
          /\ \A q \in Requests : Len(picked'[q]) <= Count
          /\ \A q \in Requests : pc'[q] = "new" => picked'[q] = << >>
      BY <2>2, <3>1 DEF TypeOK
    <3>5. marking' = marking /\ \A p \in marking : p[2] \in DOMAIN picked'[p[1]]
      BY <1>3, <2>2, <3>2 DEF TypeOK, Select
    <3> QED
      BY <1>3, <3>3, <3>4, <3>5 DEF TypeOK, Select
  <2> QED
    BY <1>3, <2>1, <2>2 DEF Select
<1>4. ASSUME NEW r \in Requests, SelectFails(r) \/ Answer(r)
      PROVE  TypeOK'
  <2>1. /\ pc' \in [Requests -> PCs]
        /\ \A q \in Requests : pc'[q] \in {"new", "trying"} => pc'[q] = pc[q]
    BY <1>4 DEF TypeOK, SelectFails, Answer, PCs
  <2>2. /\ faults' \in 0 .. MaxFaults
        /\ UNCHANGED <<status, outside, picked, at, marking, health,
                       update>>
    BY <1>4 DEF TypeOK, SelectFails, Answer, Fault
  <2> QED
    BY <2>1, <2>2 DEF TypeOK
<1>5. ASSUME NEW r \in Requests, Refuse(r) \/ Garble(r) \/ NetworkError(r)
      PROVE  TypeOK'
  <2>1. /\ pc' \in [Requests -> PCs]
        /\ picked' = picked
        /\ at' \in [Requests -> 0 .. Count]
        /\ \A q \in Requests : pc'[q] = "trying" => at'[q] \in DOMAIN picked[q]
        /\ \A q \in Requests : pc'[q] = "new" => pc[q] = "new"
    BY <1>5, TryNextType DEF Refuse, Garble, NetworkError
  <2>2. at[r] \in DOMAIN picked[r] /\ DOMAIN picked[r] = 1 .. Len(picked[r])
        /\ Len(picked[r]) <= Count
    BY <1>5 DEF TypeOK, Refuse, Garble, NetworkError
  <2>3. <<r, at[r]>> \in Requests \X (1 .. Count)
    BY <2>2 DEF TypeOK
  <2>4. /\ marking' \subseteq marking \cup {<<r, at[r]>>}
        /\ failed' = failed \/ failed' = failed \cup {Tried(r)}
        /\ UNCHANGED <<status, reachable, healthy, health, update, faults>>
    BY <1>5 DEF Refuse, Garble, NetworkError
  <2>5. /\ marking' \subseteq Requests \X (1 .. Count)
        /\ \A p \in marking' : p[2] \in DOMAIN picked[p[1]]
    BY <2>2, <2>3, <2>4 DEF TypeOK
  <2>6. failed' \subseteq Upstreams /\ Upstreams \ reachable \subseteq failed'
    <3>1. Tried(r) \in Upstreams
      BY <1>5 DEF TypeOK, Refuse, Garble, NetworkError, Tried, Upstream
    <3> QED
      BY <2>4, <3>1 DEF TypeOK
  <2>7. /\ \A q \in Requests : Len(picked'[q]) <= Count
        /\ \A q \in Requests : pc'[q] = "new" => picked'[q] = << >>
    BY <2>1 DEF TypeOK
  <2> QED
    BY <2>1, <2>4, <2>5, <2>6, <2>7 DEF TypeOK
<1>6. ASSUME NEW r \in Requests, NEW i \in 1 .. Count, Mark(r, i)
      PROVE  TypeOK'
  <2>1. /\ marking' \subseteq marking
        /\ UNCHANGED <<outside, request, health, update>>
    BY <1>6 DEF Mark, MarkOffline, MarkFails
  <2>2. status' \in [Upstreams -> Statuses]
    BY <1>6 DEF TypeOK, Mark, MarkOffline, MarkFails
  <2>3. faults' \in 0 .. MaxFaults
    BY <1>6 DEF TypeOK, Mark, MarkOffline, MarkFails, Fault
  <2>4. \A p \in marking' : p[2] \in DOMAIN picked'[p[1]]
    BY <2>1 DEF TypeOK
  <2> QED
    BY <2>1, <2>2, <2>3, <2>4 DEF TypeOK
<1>7. ASSUME NEW a \in Updates, Update(a)
      PROVE  TypeOK'
  <2>1. ASSUME NEW u \in Upstreams, NEW s \in Statuses \cup {None},
               ReadUpstream(a, u, s)
        PROVE  TypeOK'
    BY <2>1 DEF TypeOK, ReadUpstream
  <2>2. CASE WriteUpstream(a)
    <3>1. Written(a) \in Statuses
      BY <2>2 DEF TypeOK, WriteUpstream, Written
    <3> QED
      BY <2>2, <3>1 DEF TypeOK, WriteUpstream
  <2>3. CASE UpdateFails(a)
    BY <2>3 DEF TypeOK, UpdateFails, Fault
  <2> QED
    BY <1>7, <2>1, <2>2, <2>3 DEF Update
<1>8. CASE ListOffline
  BY <1>8 DEF TypeOK, ListOffline
<1>9. CASE CheckFails
  BY <1>9 DEF TypeOK, CheckFails, Fault
<1>10. CASE ServerCrash
  BY <1>10 DEF TypeOK, ServerCrash, Fault, PCs
<1>11. CASE UNCHANGED vars
  BY <1>11 DEF TypeOK, vars
<1> QED
  BY <1>1, <1>2, <1>3, <1>4, <1>5, <1>6, <1>7, <1>8, <1>9, <1>10, <1>11
     DEF Next, Request

(***************************************************************************)
(* Rows, requests and tasks in flight have their types.                    *)
(***************************************************************************)
THEOREM TypeCorrect == Spec => []TypeOK
  BY TypeInit, TypeStep, PTL DEF Spec
(***************************************************************************)
(* Every upstream that is offline has a cause.                             *)
(***************************************************************************)
LEMMA CauseInit == Init => OfflineHasCause
  BY DEF Init, OfflineHasCause, Blamed

\* A cause is never forgotten, and no mark changes its upstream.
LEMMA CauseRemains ==
  ASSUME TypeOK, [Next]_vars
  PROVE  /\ failed \subseteq failed'
         /\ \A u \in Upstreams : Blamed(u) => Blamed(u)'
         /\ \A p \in marking : picked'[p[1]] = picked[p[1]]
<1> USE DEF outside, request, health, update, Blamed
<1>1. ASSUME NEW u \in Upstreams, Outside(u) \/ Probe(u)
      PROVE  failed \subseteq failed' /\ UNCHANGED <<picked, update>>
  BY <1>1 DEF Outside, Break, Repair, TurnHealthy, TurnUnhealthy, Probe, Reach, DoNotReach, MarkOnline
<1>2. ASSUME NEW r \in Requests, Request(r)
      PROVE  /\ failed \subseteq failed' /\ UNCHANGED update
             /\ \A p \in marking : picked'[p[1]] = picked[p[1]]
  <2>1. CASE Select(r)
    BY <2>1 DEF TypeOK, Select
  <2>2. CASE SelectFails(r) \/ Answer(r)
    BY <2>2 DEF SelectFails, Answer
  <2>3. CASE Refuse(r) \/ Garble(r) \/ NetworkError(r)
    BY <2>3 DEF Refuse, Garble, NetworkError, TryNext
  <2> QED
    BY <1>2, <2>1, <2>2, <2>3 DEF Request
<1>3. ASSUME NEW r \in Requests, NEW i \in 1 .. Count, Mark(r, i)
      PROVE  UNCHANGED <<failed, picked, update>>
  BY <1>3 DEF Mark, MarkOffline, MarkFails
<1>4. ASSUME NEW a \in Updates, Update(a)
      PROVE  /\ UNCHANGED <<failed, picked>>
             /\ \A b \in Updates : stage[b] = "done" =>
                  stage'[b] = "done" /\ target'[b] = target[b] /\ given'[b] = given[b]
  BY <1>4 DEF TypeOK, Update, ReadUpstream, WriteUpstream, UpdateFails
<1>5. ASSUME ListOffline \/ CheckFails
      PROVE  UNCHANGED <<failed, picked, update>>
  BY <1>5 DEF ListOffline, CheckFails
<1>6. ASSUME ServerCrash
      PROVE  /\ UNCHANGED <<failed, picked, target, given>>
             /\ \A b \in Updates : stage[b] = "done" => stage'[b] = "done"
  BY <1>6 DEF ServerCrash
<1>7. ASSUME UNCHANGED vars
      PROVE  UNCHANGED <<failed, picked, update>>
  BY <1>7 DEF vars
<1>8. /\ failed \subseteq failed'
      /\ \A p \in marking : picked'[p[1]] = picked[p[1]]
      /\ \A b \in Updates : stage[b] = "done" =>
           stage'[b] = "done" /\ target'[b] = target[b] /\ given'[b] = given[b]
  BY <1>1, <1>2, <1>3, <1>4, <1>5, <1>6, <1>7 DEF Next
<1> QED
  BY <1>8
\* What there is to see of an action: the rows it turns offline, the marks it
\* spawns, and the offline rows it reads.
LEMMA CauseSuffices ==
  ASSUME TypeOK, OfflineHasCause, [Next]_vars,
         \A u \in Upstreams : status'[u] = "offline" =>
           status[u] = "offline" \/ Blamed(u) \/ Blamed(u)',
         \A p \in marking' : p \in marking \/ Host[picked'[p[1]][p[2]]] \in failed',
         \A a \in Updates : stage'[a] = "read" /\ saw'[a] = "offline" =>
           \/ stage[a] = "read" /\ saw[a] = "offline" /\ target'[a] = target[a]
           \/ status[target'[a]] = "offline"
  PROVE  OfflineHasCause'
<1>1. /\ failed \subseteq failed'
      /\ \A u \in Upstreams : Blamed(u) => Blamed(u)'
      /\ \A p \in marking : picked'[p[1]] = picked[p[1]]
  BY CauseRemains
<1>2. /\ \A u \in Upstreams : status[u] = "offline" => Blamed(u)
      /\ \A p \in marking : Host[picked[p[1]][p[2]]] \in failed
      /\ \A a \in Updates : stage[a] = "read" /\ saw[a] = "offline" => Blamed(target[a])
  BY DEF OfflineHasCause, Upstream
<1>3. \A u \in Upstreams : status'[u] = "offline" => Blamed(u)'
  BY <1>1, <1>2
<1>4. \A p \in marking' : Host[picked'[p[1]][p[2]]] \in failed'
  BY <1>1, <1>2
<1>5. ASSUME NEW a \in Updates, stage'[a] = "read", saw'[a] = "offline"
      PROVE  Blamed(target[a])'
  <2>1. PICK u \in Upstreams : u = target'[a]
    BY <1>5, TypeStep DEF TypeOK
  <2>2. Blamed(u)
    BY <1>2, <1>5, <2>1
  <2>3. Blamed(u)'
    BY <1>1, <2>2
  <2> QED
    BY <2>1, <2>3 DEF Blamed
<1> QED
  BY <1>3, <1>4, <1>5 DEF OfflineHasCause, Upstream

LEMMA CauseStep == TypeOK /\ OfflineHasCause /\ [Next]_vars => OfflineHasCause'
<1> SUFFICES ASSUME TypeOK, OfflineHasCause, [Next]_vars
             PROVE  OfflineHasCause'
  OBVIOUS
<1> USE DEF outside, request, health, update
<1>1. ASSUME NEW u \in Upstreams, Outside(u) \/ Reach(u) \/ DoNotReach(u)
      PROVE  OfflineHasCause'
  <2>1. CASE Outside(u)
    BY <2>1, CauseSuffices DEF Outside, Break, Repair, TurnHealthy, TurnUnhealthy
  <2>2. CASE Reach(u) \/ DoNotReach(u)
    BY <2>2, CauseSuffices DEF Reach, DoNotReach
  <2> QED
    BY <1>1, <2>1, <2>2
<1>2. ASSUME NEW u \in Upstreams, MarkOnline(u)
      PROVE  OfflineHasCause'
  <2>1. \A v \in Upstreams : status'[v] = "offline" => status[v] = "offline"
    BY <1>2 DEF TypeOK, MarkOnline
  <2> QED
    BY <1>2, <2>1, CauseSuffices DEF MarkOnline
<1>3. ASSUME NEW r \in Requests, Select(r) \/ SelectFails(r) \/ Answer(r) \/ Refuse(r)
      PROVE  OfflineHasCause'
  BY <1>3, CauseSuffices DEF Select, SelectFails, Answer, Refuse
<1>4. ASSUME NEW r \in Requests, Garble(r) \/ NetworkError(r)
      PROVE  OfflineHasCause'
  \* What cannot be reached has been unreachable, and a body that cannot be
  \* decoded is a cause of its own.
  <2>1. Host[picked[r][at[r]]] \in failed'
    <3>1. picked[r] \in Seq(Models) /\ at[r] \in DOMAIN picked[r]
      BY <1>4 DEF TypeOK, Garble, NetworkError
    <3>2. CASE Garble(r)
      BY <3>2 DEF Garble, Tried, Upstream
    <3>3. CASE NetworkError(r)
      <4>1. Host[picked[r][at[r]]] \in Upstreams \ reachable
        BY <3>1, <3>3, RoutingAssumption DEF NetworkError, Tried, Upstream
      <4> QED
        BY <3>3, <4>1 DEF TypeOK, NetworkError
    <3> QED
      BY <1>4, <3>2, <3>3
  <2>2. /\ UNCHANGED <<status, picked, update>>
        /\ marking' \subseteq marking \cup {<<r, at[r]>>}
    BY <1>4 DEF Garble, NetworkError, TryNext
  <2> QED
    BY <2>1, <2>2, CauseSuffices
<1>5. ASSUME NEW r \in Requests, NEW i \in 1 .. Count, Mark(r, i)
      PROVE  OfflineHasCause'
  <2>1. Blamed(Upstream(r, i))
    BY <1>5 DEF OfflineHasCause, Mark, MarkOffline, MarkFails, Blamed
  <2>2. \A u \in Upstreams : status'[u] = "offline" => status[u] = "offline" \/ Blamed(u)
    BY <1>5, <2>1 DEF TypeOK, Mark, MarkOffline, MarkFails
  <2> QED
    BY <1>5, <2>2, CauseSuffices DEF Mark, MarkOffline, MarkFails
<1>6. ASSUME NEW a \in Updates, NEW u \in Upstreams, NEW s \in Statuses \cup {None},
             ReadUpstream(a, u, s)
      PROVE  OfflineHasCause'
  <2>1. \A b \in Updates : stage'[b] = "read" /\ saw'[b] = "offline" =>
           \/ stage[b] = "read" /\ saw[b] = "offline" /\ target'[b] = target[b]
           \/ status[target'[b]] = "offline"
    BY <1>6 DEF TypeOK, ReadUpstream
  <2> QED
    BY <1>6, <2>1, CauseSuffices DEF ReadUpstream
<1>7. ASSUME NEW a \in Updates, WriteUpstream(a)
      PROVE  OfflineHasCause'
  <2>1. PICK u \in Upstreams : u = target[a]
    BY <1>7 DEF TypeOK, WriteUpstream
  \* It writes back a status that had a cause when it was read, or what the
  \* administrator gave.
  <2>2. Written(a) = "offline" => Blamed(u) \/ Blamed(u)'
    <3>1. CASE given[a] = None
      BY <1>7, <2>1, <3>1 DEF OfflineHasCause, WriteUpstream, Written
    <3>2. CASE given[a] # None
      BY <1>7, <2>1, <3>2 DEF TypeOK, WriteUpstream, Written, Blamed
    <3> QED
      BY <3>1, <3>2
  <2>3. \A v \in Upstreams : status'[v] = "offline" =>
          status[v] = "offline" \/ Blamed(v) \/ Blamed(v)'
    BY <1>7, <2>1, <2>2 DEF TypeOK, WriteUpstream
  <2>4. \A b \in Updates : stage'[b] = "read" => stage[b] = "read"
    BY <1>7 DEF TypeOK, WriteUpstream
  <2> QED
    BY <1>7, <2>3, <2>4, CauseSuffices DEF WriteUpstream
<1>8. ASSUME NEW a \in Updates, UpdateFails(a)
      PROVE  OfflineHasCause'
  <2>1. \A b \in Updates : stage'[b] = "read" => stage[b] = "read"
    BY <1>8 DEF TypeOK, UpdateFails
  <2> QED
    BY <1>8, <2>1, CauseSuffices DEF UpdateFails
<1>9. CASE ListOffline \/ CheckFails
  BY <1>9, CauseSuffices DEF ListOffline, CheckFails
<1>10. CASE ServerCrash
  <2>1. \A b \in Updates : stage'[b] = "read" => stage[b] = "read"
    BY <1>10 DEF TypeOK, ServerCrash
  <2> QED
    BY <1>10, <2>1, CauseSuffices DEF ServerCrash
<1>11. CASE UNCHANGED vars
  BY <1>11, CauseSuffices DEF vars
<1> QED
  BY <1>1, <1>2, <1>3, <1>4, <1>5, <1>6, <1>7, <1>8, <1>9, <1>10, <1>11
     DEF Next, Probe, Request, Update

(***************************************************************************)
(* Only an administrator, or a call that failed without an answer that     *)
(* counts, ever takes an upstream out of service.                          *)
(***************************************************************************)
THEOREM OfflineHasCauseAlways == Spec => []OfflineHasCause
<1>1. TypeOK /\ OfflineHasCause /\ [Next]_vars => TypeOK' /\ OfflineHasCause'
  BY TypeStep, CauseStep
<1> QED
  BY <1>1, TypeInit, CauseInit, PTL DEF Spec

(***************************************************************************)
(* Maintenance.                                                            *)
(***************************************************************************)
LEMMA MaintenanceStep ==
  ASSUME TypeOK, [Next]_vars, NEW u \in Upstreams, Drained(u),
         ~ \E a \in Updates : stage[a] = "new" /\ stage'[a] = "read" /\ target'[a] = u
  PROVE  Drained(u)'
<1> USE DEF outside, request, health, update, Drained, Upstream
<1>1. ASSUME NEW v \in Upstreams, Outside(v)
      PROVE  Drained(u)'
  BY <1>1 DEF Outside, Break, Repair, TurnHealthy, TurnUnhealthy
<1>2. ASSUME NEW v \in Upstreams, Reach(v) \/ DoNotReach(v) \/ MarkOnline(v)
      PROVE  Drained(u)'
  BY <1>2 DEF TypeOK, Reach, DoNotReach, MarkOnline
<1>3. ASSUME NEW r \in Requests, Select(r)
      PROVE  Drained(u)'
  \* No candidate belongs to an upstream that is not online.
  <2>1. \A q \in Requests : pc'[q] = "trying" =>
          \A i \in DOMAIN picked'[q] : Host[picked'[q][i]] # u
    <3>1. CASE UNCHANGED picked /\ pc' = [pc EXCEPT ![r] = "no_upstream"]
      BY <3>1 DEF TypeOK
    <3>2. ASSUME NEW s \in Candidates, pc' = [pc EXCEPT ![r] = "trying"],
                 picked' = [picked EXCEPT ![r] = s]
          PROVE  \A q \in Requests : pc'[q] = "trying" =>
                   \A i \in DOMAIN picked'[q] : Host[picked'[q][i]] # u
      <4>1. \A i \in DOMAIN s : Host[s[i]] # u
        BY CandidatesAreSequences DEF Available
      <4> QED
        BY <3>2, <4>1 DEF TypeOK
    <3> QED
      BY <1>3, <3>1, <3>2 DEF Select
  <2>2. \A p \in marking : picked'[p[1]] = picked[p[1]]
    BY CauseRemains
  <2>3. UNCHANGED <<status, marking, health, update>>
    BY <1>3 DEF Select
  <2> QED
    BY <2>1, <2>2, <2>3
<1>4. ASSUME NEW r \in Requests, SelectFails(r) \/ Answer(r)
      PROVE  Drained(u)'
  <2>1. \A q \in Requests : pc'[q] = "trying" => pc[q] = "trying"
    BY <1>4 DEF TypeOK, SelectFails, Answer
  <2>2. UNCHANGED <<status, picked, marking, health, update>>
    BY <1>4 DEF SelectFails, Answer
  <2> QED
    BY <2>1, <2>2
<1>5. ASSUME NEW r \in Requests, Refuse(r) \/ Garble(r) \/ NetworkError(r)
      PROVE  Drained(u)'
  \* A request that fails was not trying u, so neither marks it nor tries it next.
  <2>1. /\ picked' = picked
        /\ \A q \in Requests : pc'[q] = "trying" => pc[q] = "trying"
    BY <1>5 DEF TypeOK, Refuse, Garble, NetworkError, TryNext
  <2>2. \A p \in marking' : Host[picked[p[1]][p[2]]] # u
    <3>1. pc[r] = "trying" /\ at[r] \in DOMAIN picked[r]
      BY <1>5 DEF TypeOK, Refuse, Garble, NetworkError
    <3>2. Host[picked[r][at[r]]] # u
      BY <3>1
    <3>3. marking' \subseteq marking \cup {<<r, at[r]>>}
      BY <1>5 DEF Refuse, Garble, NetworkError
    <3> QED
      BY <3>2, <3>3
  <2>3. UNCHANGED <<status, health, update>>
    BY <1>5 DEF Refuse, Garble, NetworkError
  <2> QED
    BY <2>1, <2>2, <2>3
<1>6. ASSUME NEW r \in Requests, NEW i \in 1 .. Count, Mark(r, i)
      PROVE  Drained(u)'
  <2>1. status'[u] = status[u]
    BY <1>6 DEF TypeOK, Mark, MarkOffline, MarkFails
  <2>2. marking' \subseteq marking /\ UNCHANGED <<request, health, update>>
    BY <1>6 DEF Mark, MarkOffline, MarkFails
  <2> QED
    BY <2>1, <2>2
<1>7. ASSUME NEW a \in Updates, Update(a)
      PROVE  Drained(u)'
  <2>1. ASSUME NEW v \in Upstreams, NEW s \in Statuses \cup {None},
               ReadUpstream(a, v, s)
        PROVE  Drained(u)'
    <3>1. v # u
      BY <2>1 DEF TypeOK, ReadUpstream
    <3> QED
      BY <2>1, <3>1 DEF TypeOK, ReadUpstream
  <2>2. CASE WriteUpstream(a) \/ UpdateFails(a)
    BY <2>2 DEF TypeOK, WriteUpstream, UpdateFails
  <2> QED
    BY <1>7, <2>1, <2>2 DEF Update
<1>8. CASE ListOffline \/ CheckFails
  BY <1>8 DEF ListOffline, CheckFails
<1>9. CASE ServerCrash
  BY <1>9 DEF TypeOK, ServerCrash
<1>10. CASE UNCHANGED vars
  BY <1>10 DEF vars
<1> QED
  BY <1>1, <1>2, <1>3, <1>4, <1>5, <1>6, <1>7, <1>8, <1>9, <1>10
     DEF Next, Probe, Request

(***************************************************************************)
(* Nobody but an administrator ends the maintenance of a drained upstream, *)
(* and until then it gets no request.                                      *)
(***************************************************************************)
THEOREM MaintenanceIsStableAlways == Spec => MaintenanceIsStable
<1>1. TypeOK /\ [Next]_vars =>
        [\A u \in Upstreams : Drained(u) =>
           \/ Drained(u)'
           \/ \E a \in Updates : stage[a] = "new" /\ stage'[a] = "read" /\ target'[a] = u
        ]_vars
  BY MaintenanceStep
<1> QED
  BY <1>1, TypeCorrect, PTL DEF Spec, MaintenanceIsStable

(***************************************************************************)
(* An update that nobody writes the status beside writes back what is      *)
(* there.                                                                  *)
(***************************************************************************)
ReadIsCurrent == \A a \in Updates : stage[a] = "read" => saw[a] = status[target[a]]

LEMMA CurrentStep ==
  ASSUME TypeOK, ReadIsCurrent, UpdatesApart, [Next]_vars
  PROVE  ReadIsCurrent'
<1> USE DEF outside, request, health, update, ReadIsCurrent
<1>1. ASSUME NEW u \in Upstreams, Outside(u) \/ Reach(u) \/ DoNotReach(u)
      PROVE  ReadIsCurrent'
  BY <1>1 DEF Outside, Break, Repair, TurnHealthy, TurnUnhealthy, Reach, DoNotReach
<1>2. ASSUME NEW u \in Upstreams, MarkOnline(u)
      PROVE  ReadIsCurrent'
  BY <1>2 DEF TypeOK, MarkOnline, UpdatesApart
<1>3. ASSUME NEW r \in Requests, Request(r)
      PROVE  ReadIsCurrent'
  BY <1>3 DEF Request, Select, SelectFails, Answer, Refuse, Garble, NetworkError
<1>4. ASSUME NEW r \in Requests, NEW i \in 1 .. Count, Mark(r, i)
      PROVE  ReadIsCurrent'
  <2>1. MarkOffline(r, i) =>
          /\ \A a \in Updates : stage[a] = "read" => Upstream(r, i) # target[a]
          /\ status' = [status EXCEPT ![Upstream(r, i)] = "offline"]
          /\ UNCHANGED update
    BY DEF MarkOffline, UpdatesApart
  <2>2. CASE MarkOffline(r, i)
    BY <2>1, <2>2 DEF TypeOK
  <2> QED
    BY <1>4, <2>2 DEF Mark, MarkFails
<1>5. ASSUME NEW a \in Updates, Update(a)
      PROVE  ReadIsCurrent'
  <2>1. ASSUME NEW u \in Upstreams, NEW s \in Statuses \cup {None}, ReadUpstream(a, u, s)
        PROVE  ReadIsCurrent'
    BY <2>1 DEF TypeOK, ReadUpstream
  <2>2. CASE WriteUpstream(a)
    BY <2>2 DEF TypeOK, WriteUpstream, UpdatesApart
  <2>3. CASE UpdateFails(a)
    BY <2>3 DEF TypeOK, UpdateFails
  <2> QED
    BY <1>5, <2>1, <2>2, <2>3 DEF Update
<1>6. CASE ListOffline \/ CheckFails \/ UNCHANGED vars
  BY <1>6 DEF ListOffline, CheckFails, vars
<1>7. CASE ServerCrash
  BY <1>7 DEF TypeOK, ServerCrash
<1> QED
  BY <1>1, <1>2, <1>3, <1>4, <1>5, <1>6, <1>7 DEF Next, Probe

(***************************************************************************)
(* As long as no mark, health check or other update is about to write an   *)
(* upstream whose row an update holds, an update that gives no status      *)
(* leaves it alone.  status_write_back is what one health check does.      *)
(***************************************************************************)
THEOREM OnlyGivenFieldsWhenApart == Spec /\ []UpdatesApart => OnlyGivenFields
<1>1. Init => ReadIsCurrent
  BY DEF Init, ReadIsCurrent
<1>2. TypeOK /\ ReadIsCurrent /\ UpdatesApart /\ [Next]_vars => ReadIsCurrent'
  BY CurrentStep
<1>3. TypeOK /\ ReadIsCurrent /\ [Next]_vars =>
        [\A a \in Updates :
           stage[a] = "read" /\ stage'[a] = "done" /\ given[a] = None =>
             status'[target[a]] = status[target[a]]]_vars
  <2> SUFFICES ASSUME TypeOK, ReadIsCurrent, [Next]_vars, NEW a \in Updates,
                      stage[a] = "read", stage'[a] = "done", given[a] = None
               PROVE  status'[target[a]] = status[target[a]]
    OBVIOUS
  <2> USE DEF outside, request, health, update
  <2>1. ASSUME \A b \in Updates : ~Update(b)
        PROVE  stage' = stage \/ \A b \in Updates : stage'[b] # "done" \/ stage[b] = "done"
    <3>1. CASE ServerCrash
      BY <3>1 DEF TypeOK, ServerCrash
    <3>2. CASE \/ \E u \in Upstreams : Outside(u) \/ Probe(u)
               \/ \E r \in Requests : Request(r) \/ \E i \in 1 .. Count : Mark(r, i)
               \/ ListOffline \/ CheckFails \/ UNCHANGED vars
      BY <3>2 DEF Outside, Break, Repair, TurnHealthy, TurnUnhealthy, Probe, Reach,
                  DoNotReach, MarkOnline, Request, Select, SelectFails, Answer,
                  Refuse, Garble, NetworkError, Mark, MarkOffline, MarkFails,
                  ListOffline, CheckFails, vars
    <3> QED
      BY <2>1, <3>1, <3>2 DEF Next
  <2>2. PICK b \in Updates : Update(b)
    BY <2>1
  <2>3. WriteUpstream(b) /\ b = a
    BY <2>2 DEF TypeOK, Update, ReadUpstream, WriteUpstream, UpdateFails
  <2> QED
    BY <2>3 DEF TypeOK, WriteUpstream, Written, ReadIsCurrent
<1> QED
  BY <1>1, <1>2, <1>3, TypeCorrect, PTL DEF Spec, OnlyGivenFields
=============================================================================
