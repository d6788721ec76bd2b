--------------------------- MODULE RateLimitProofs ---------------------------
(***************************************************************************)
(* Proofs about RateLimit, for every set of requests, every limit and      *)
(* window and any number of failed commands.                               *)
(***************************************************************************)
EXTENDS RateLimitProps, FiniteSetTheorems, TLAPS

(***************************************************************************)
(* A check's place in its request: it is to come, or has not added yet.    *)
(***************************************************************************)
Unadded(r, k) ==
  /\ pc[r] \in InCheck
  /\ \E i \in DOMAIN Checks[r] :
       /\ Checks[r][i] = k
       /\ i > at[r] \/ (i = at[r] /\ pc[r] \in {"clock", "trim", "add"})

Undecided(r, k) ==
  /\ pc[r] \in InCheck
  /\ \E i \in DOMAIN Checks[r] : Checks[r][i] = k /\ i >= at[r]

(***************************************************************************)
(* A request is in no set it has not been added to, and was not let        *)
(* through by one that has not decided; it is added at the time it read,   *)
(* or later.                                                               *)
(***************************************************************************)
Order ==
  \A r \in Requests, k \in Keys :
    /\ Unadded(r, k) => added[r][k] = None
    /\ Undecided(r, k) => <<r, k>> \notin passed
    /\ r \in entries[k] => added[r][k] # None
    /\ added[r][k] # None => stamp[r][k] <= added[r][k] /\ added[r][k] <= clock
    /\ stamp[r][k] <= clock

(***************************************************************************)
(* The requests a set has granted: let through, or counted and bound to    *)
(* be.  Counting is the only step that grants, and what it counts holds    *)
(* every request granted before.                                           *)
(***************************************************************************)
Granted(k) ==
  {r \in entries[k] :
     /\ InWindow(r, k)
     /\ \/ <<r, k>> \in passed
        \/ pc[r] = "expire" /\ Key(r) = k /\ count[r] <= Limit[k]}

Bounded == \A k \in Keys : Cardinality(Granted(k)) <= Limit[k]

\* The time to live covers every request that was let through.
Alive ==
  \A k \in Keys : \A r \in entries[k] :
    <<r, k>> \in passed => expiry[k] # None /\ expiry[k] >= stamp[r][k] + Window[k]

\* What a request that has trimmed will count is recent, and a count that
\* exceeds the limit, and the refusal that follows, had a cause.
Cause ==
  \A r \in Requests :
    /\ pc[r] \in {"add", "count"} => entries[Key(r)] \subseteq Around(r, Key(r))
    /\ \/ pc[r] = "expire" /\ Exceeded(r)
       \/ pc[r] = "refused"
       => Cardinality(Around(r, Key(r))) > Limit[Key(r)]

-----------------------------------------------------------------------------
(***************************************************************************)
(* What the steps do to the place of a request, in one place.              *)
(***************************************************************************)
LEMMA KeyType ==
  ASSUME TypeOK, NEW r \in Requests, pc[r] # "admitted"
  PROVE  Key(r) \in Keys
<1>1. at[r] \in DOMAIN Checks[r]
  BY DEF TypeOK
<1>2. Checks[r] \in Seq(Keys)
  BY RateLimitAssumption
<1> QED
  BY <1>1, <1>2 DEF Key

LEMMA GoOnType ==
  ASSUME TypeOK, NEW r \in Requests, pc[r] # "admitted", GoOn(r)
  PROVE  /\ pc' \in [Requests -> PCs]
         /\ at' \in [Requests -> Nat]
         /\ \A q \in Requests \ {r} : pc'[q] = pc[q] /\ at'[q] = at[q]
         /\ \/ pc'[r] = "admitted"
            \/ pc'[r] = "clock" /\ at'[r] = at[r] + 1 /\ at'[r] \in DOMAIN Checks[r]
<1>1. Checks[r] \in Seq(Keys) /\ at[r] \in Nat /\ at[r] \in DOMAIN Checks[r]
  BY RateLimitAssumption DEF TypeOK
<1>2. CASE at[r] < Len(Checks[r])
  <2>1. at[r] + 1 \in DOMAIN Checks[r]
    BY <1>1, <1>2
  <2>2. /\ at' = [at EXCEPT ![r] = at[r] + 1]
        /\ pc' = [pc EXCEPT ![r] = "clock"]
    BY <1>2 DEF GoOn
  <2>3. pc \in [Requests -> PCs] /\ at \in [Requests -> Nat] /\ "clock" \in PCs
    BY DEF TypeOK, PCs, InCheck
  <2>4. pc' \in [Requests -> PCs] /\ at' \in [Requests -> Nat]
    BY <2>2, <2>3
  <2>5. /\ \A q \in Requests \ {r} : pc'[q] = pc[q] /\ at'[q] = at[q]
        /\ pc'[r] = "clock" /\ at'[r] = at[r] + 1
    BY <2>2, <2>3
  <2> QED
    BY <2>1, <2>4, <2>5
<1>3. CASE ~(at[r] < Len(Checks[r]))
  BY <1>1, <1>3 DEF GoOn, TypeOK, PCs
<1> QED
  BY <1>2, <1>3

LEMMA ToType ==
  ASSUME TypeOK, NEW r \in Requests, NEW label \in PCs, pc[r] # "admitted", To(r, label)
  PROVE  /\ pc' \in [Requests -> PCs]
         /\ at' = at
         /\ \A q \in Requests \ {r} : pc'[q] = pc[q]
         /\ pc'[r] = label
  BY DEF To, TypeOK

\* A decision leaves the check, by a refusal where the limit is exceeded.
LEMMA DecideType ==
  ASSUME TypeOK, NEW r \in Requests, pc[r] = "expire", Decide(r)
  PROVE  /\ pc' \in [Requests -> PCs]
         /\ at' \in [Requests -> Nat]
         /\ count' \in [Requests -> Nat]
         /\ \A q \in Requests \ {r} :
              pc'[q] = pc[q] /\ at'[q] = at[q] /\ count'[q] = count[q]
         /\ \/ pc'[r] = "refused" /\ Exceeded(r) /\ at'[r] = at[r]
            \/ pc'[r] = "admitted" /\ ~Exceeded(r)
            \/ /\ pc'[r] = "clock" /\ ~Exceeded(r)
               /\ at'[r] = at[r] + 1 /\ at'[r] \in DOMAIN Checks[r]
<1>1. count' \in [Requests -> Nat] /\ \A q \in Requests \ {r} : count'[q] = count[q]
  BY DEF Decide, TypeOK
<1>2. CASE Exceeded(r)
  <2>1. To(r, "refused")
    BY <1>2 DEF Decide
  <2>2. at \in [Requests -> Nat]
    BY DEF TypeOK
  <2> QED
    BY <1>1, <1>2, <2>1, <2>2, ToType DEF PCs
<1>3. CASE ~Exceeded(r)
  <2>1. GoOn(r)
    BY <1>3 DEF Decide
  <2> QED
    BY <1>1, <1>3, <2>1, GoOnType
<1> QED
  BY <1>2, <1>3

LEMMA TypeInit == Init => TypeOK
<1> SUFFICES ASSUME Init
             PROVE  TypeOK
  OBVIOUS
<1>1. \A r \in Requests : pc[r] # "admitted" => at[r] \in DOMAIN Checks[r]
  <2> SUFFICES ASSUME NEW r \in Requests, pc[r] # "admitted"
               PROVE  at[r] \in DOMAIN Checks[r]
    OBVIOUS
  <2>1. Checks[r] \in Seq(Keys) /\ Checks[r] # <<>>
    BY RateLimitAssumption DEF Init
  <2> QED
    BY <2>1 DEF Init
<1>2. pc \in [Requests -> PCs]
  BY DEF Init, PCs, InCheck
<1> QED
  BY <1>1, <1>2, RateLimitAssumption DEF Init, TypeOK, Times

LEMMA TypeStep == TypeOK /\ [Next]_vars => TypeOK'
<1> SUFFICES ASSUME TypeOK, [Next]_vars
             PROVE  TypeOK'
  OBVIOUS
<1> USE RateLimitAssumption DEF redis, handler
<1>1. CASE Tick
  <2>1. clock' \in Times
    BY <1>1 DEF TypeOK, Tick, Times
  <2>2. entries' \in [Keys -> SUBSET Requests] /\ expiry' \in [Keys -> Int \cup {None}]
    BY <1>1 DEF TypeOK, Tick
  <2> QED
    BY <1>1, <2>1, <2>2 DEF TypeOK, Tick
<1>2. ASSUME NEW r \in Requests, ReadClock(r)
      PROVE  TypeOK'
  <2>1. pc[r] # "admitted" /\ To(r, "trim") /\ "trim" \in PCs
    BY <1>2 DEF ReadClock, PCs, InCheck
  <2> QED
    BY <1>2, <2>1, ToType DEF TypeOK, ReadClock
<1>3. ASSUME NEW r \in Requests, Trim(r)
      PROVE  TypeOK'
  <2>1. pc[r] # "admitted" /\ To(r, "add") /\ "add" \in PCs
    BY <1>3 DEF Trim, PCs, InCheck
  <2>2. entries' \in [Keys -> SUBSET Requests] /\ expiry' \in [Keys -> Int \cup {None}]
    <3>1. Recent(Key(r), stamp[r][Key(r)]) \in SUBSET Requests
      BY <2>1, KeyType DEF TypeOK, Recent
    <3> QED
      BY <1>3, <2>1, <3>1, KeyType DEF TypeOK, Trim, Becomes
  <2> QED
    BY <1>3, <2>1, <2>2, ToType DEF TypeOK, Trim
<1>4. ASSUME NEW r \in Requests, Add(r)
      PROVE  TypeOK'
  <2>1. pc[r] # "admitted" /\ To(r, "count") /\ "count" \in PCs
    BY <1>4 DEF Add, PCs, InCheck
  <2>2. entries' \in [Keys -> SUBSET Requests]
    BY <1>4 DEF TypeOK, Add
  <2>3. added' \in [Requests -> [Keys -> Times \cup {None}]]
    BY <1>4 DEF TypeOK, Add
  <2> QED
    BY <1>4, <2>1, <2>2, <2>3, ToType DEF TypeOK, Add
<1>5. ASSUME NEW r \in Requests, Count(r)
      PROVE  TypeOK'
  <2>1. pc[r] # "admitted" /\ To(r, "expire") /\ "expire" \in PCs
    BY <1>5 DEF Count, PCs, InCheck
  <2>2. Cardinality(entries[Key(r)]) \in Nat
    <3>1. entries[Key(r)] \in SUBSET Requests
      BY <2>1, KeyType DEF TypeOK
    <3> QED
      BY <3>1, FS_Subset, FS_CardinalityType
  <2>3. count' \in [Requests -> Nat]
    BY <1>5, <2>2 DEF TypeOK, Count
  <2> QED
    BY <1>5, <2>1, <2>3, ToType DEF TypeOK, Count
<1>6. ASSUME NEW r \in Requests, Refresh(r) \/ RefreshFails(r)
      PROVE  TypeOK'
  <2>1. pc[r] = "expire" /\ Decide(r) /\ Key(r) \in Keys
    BY <1>6, KeyType DEF Refresh, RefreshFails
  <2>2. expiry' \in [Keys -> Int \cup {None}]
    <3>1. clock + Window[Key(r)] \in Int
      BY <2>1 DEF TypeOK, Times
    <3> QED
      BY <1>6, <3>1 DEF TypeOK, Refresh, RefreshFails
  <2>3. passed' \in SUBSET (Requests \X Keys)
    BY <1>6, <2>1 DEF TypeOK, Refresh, RefreshFails
  <2>4. faults' \in 0 .. MaxFaults
    BY <1>6 DEF TypeOK, Refresh, RefreshFails, Fault
  <2>5. UNCHANGED <<clock, entries, added, stamp>>
    BY <1>6 DEF Refresh, RefreshFails
  <2> QED
    BY <2>1, <2>2, <2>3, <2>4, <2>5, DecideType DEF TypeOK
<1>7. ASSUME NEW r \in Requests, Allow(r)
      PROVE  TypeOK'
  <2>1. pc[r] # "admitted" /\ GoOn(r)
    BY <1>7 DEF Allow, InCheck
  <2>2. faults' \in 0 .. MaxFaults
    BY <1>7 DEF TypeOK, Allow, Fault
  <2> QED
    BY <1>7, <2>1, <2>2, GoOnType DEF TypeOK, Allow
<1>8. CASE UNCHANGED vars
  BY <1>8 DEF TypeOK, vars
<1> QED
  BY <1>1, <1>2, <1>3, <1>4, <1>5, <1>6, <1>7, <1>8 DEF Next, Check

(***************************************************************************)
(* Time, sets and requests have their types.                               *)
(***************************************************************************)
THEOREM TypeCorrect == Spec => []TypeOK
  BY TypeInit, TypeStep, PTL DEF Spec

-----------------------------------------------------------------------------
(***************************************************************************)
(* A request only moves on: what it has added or decided stays so.         *)
(***************************************************************************)
LEMMA MovesOn ==
  ASSUME TypeOK, NEW r \in Requests, Check(r)
  PROVE  /\ pc[r] \in InCheck
         /\ \A q \in Requests, k \in Keys :
              /\ Unadded(q, k)' => Unadded(q, k)
              /\ Undecided(q, k)' => Undecided(q, k)
         /\ \A k \in Keys : k = Key(r) =>
              /\ pc'[r] = "count" => ~Unadded(r, k)'
              /\ pc[r] = "expire" => ~Undecided(r, k)'
<1>1. /\ pc[r] \in InCheck /\ pc[r] # "admitted"
      /\ at[r] \in Nat /\ at[r] \in DOMAIN Checks[r] /\ Checks[r] \in Seq(Keys)
      /\ \A i, j \in DOMAIN Checks[r] : Checks[r][i] = Checks[r][j] => i = j
  BY RateLimitAssumption
     DEF TypeOK, Check, ReadClock, Trim, Add, Count, Refresh, RefreshFails, Allow, InCheck
<1>2. /\ \A q \in Requests \ {r} : pc'[q] = pc[q] /\ at'[q] = at[q]
      /\ \/ /\ at'[r] = at[r]
            /\ \/ pc[r] = "clock" /\ pc'[r] = "trim"
               \/ pc[r] = "trim" /\ pc'[r] = "add"
               \/ pc[r] = "add" /\ pc'[r] = "count"
               \/ pc[r] = "count" /\ pc'[r] = "expire"
         \/ pc'[r] \in {"refused", "admitted"}
         \/ pc'[r] = "clock" /\ at'[r] = at[r] + 1
  <2>1. CASE ReadClock(r) \/ Trim(r) \/ Add(r) \/ Count(r)
    <3>1. PICK label \in {"trim", "add", "count", "expire"} :
            /\ To(r, label)
            /\ \/ pc[r] = "clock" /\ label = "trim"
               \/ pc[r] = "trim" /\ label = "add"
               \/ pc[r] = "add" /\ label = "count"
               \/ pc[r] = "count" /\ label = "expire"
      BY <2>1 DEF ReadClock, Trim, Add, Count
    <3>2. label \in PCs
      BY DEF PCs, InCheck
    <3> QED
      BY <1>1, <3>1, <3>2, ToType
  <2>2. CASE Refresh(r) \/ RefreshFails(r)
    <3>1. pc[r] = "expire" /\ Decide(r)
      BY <2>2 DEF Refresh, RefreshFails
    <3> QED
      BY <3>1, DecideType
  <2>3. CASE Allow(r)
    <3>1. GoOn(r)
      BY <2>3 DEF Allow
    <3> QED
      BY <1>1, <3>1, GoOnType
  <2> QED
    BY <2>1, <2>2, <2>3 DEF Check
<1>3. ASSUME NEW q \in Requests, NEW k \in Keys
      PROVE  /\ Unadded(q, k)' => Unadded(q, k)
             /\ Undecided(q, k)' => Undecided(q, k)
  <2>1. CASE q # r
    BY <1>2, <2>1 DEF Unadded, Undecided
  <2>2. CASE q = r
    BY <1>1, <1>2, <2>2 DEF Unadded, Undecided, InCheck
  <2> QED
    BY <2>1, <2>2
<1>4. ASSUME NEW k \in Keys, k = Key(r), pc'[r] = "count"
      PROVE  ~Unadded(r, k)'
  <2>1. \A i \in DOMAIN Checks[r] : Checks[r][i] = k => i = at[r]
    BY <1>1, <1>4 DEF Key
  <2>2. at'[r] = at[r]
    BY <1>2, <1>4
  <2> QED
    BY <1>1, <1>4, <2>1, <2>2 DEF Unadded
<1>5. ASSUME NEW k \in Keys, k = Key(r), pc[r] = "expire"
      PROVE  ~Undecided(r, k)'
  <2>1. \A i \in DOMAIN Checks[r] : Checks[r][i] = k => i = at[r]
    BY <1>1, <1>5 DEF Key
  <2>2. pc'[r] \in InCheck => at'[r] = at[r] + 1
    BY <1>2, <1>5 DEF InCheck
  <2> QED
    BY <1>1, <2>1, <2>2 DEF Undecided
<1> QED
  BY <1>1, <1>3, <1>4, <1>5

LEMMA OrderInit == Init => Order
  BY RateLimitAssumption DEF Init, Order

\* The clock is read, and a request added, by one that is in no set yet.
LEMMA HasPlace ==
  ASSUME TypeOK, NEW r \in Requests
  PROVE  /\ pc[r] \in {"clock", "trim", "add"} => Unadded(r, Key(r))
         /\ pc[r] \in InCheck => Undecided(r, Key(r))
<1>1. at[r] \in Nat
  BY DEF TypeOK
<1>2. pc[r] \in InCheck => at[r] \in DOMAIN Checks[r]
  BY DEF TypeOK, InCheck
<1> QED
  BY <1>1, <1>2 DEF Unadded, Undecided, Key, InCheck

LEMMA OrderStep == TypeOK /\ Order /\ [Next]_vars => Order'
<1> SUFFICES ASSUME TypeOK, Order, [Next]_vars,
                    NEW q \in Requests, NEW k \in Keys
             PROVE  /\ Unadded(q, k)' => added'[q][k] = None
                    /\ Undecided(q, k)' => <<q, k>> \notin passed'
                    /\ q \in entries'[k] => added'[q][k] # None
                    /\ added'[q][k] # None =>
                         stamp'[q][k] <= added'[q][k] /\ added'[q][k] <= clock'
                    /\ stamp'[q][k] <= clock'
  BY DEF Order
<1> USE DEF redis, handler
<1>1. /\ Unadded(q, k) => added[q][k] = None
      /\ Undecided(q, k) => <<q, k>> \notin passed
      /\ q \in entries[k] => added[q][k] # None
      /\ added[q][k] # None => stamp[q][k] <= added[q][k] /\ added[q][k] <= clock
      /\ stamp[q][k] <= clock
  BY DEF Order
<1>2. /\ clock \in Int /\ stamp[q][k] \in Int
      /\ added[q][k] # None => added[q][k] \in Int
  BY DEF TypeOK, Times
<1>3. CASE Tick
  <2>1. /\ clock' = clock + 1 /\ entries'[k] \subseteq entries[k]
        /\ UNCHANGED <<added, stamp, passed, pc, at>>
    BY <1>3 DEF TypeOK, Tick
  <2>2. (Unadded(q, k)' <=> Unadded(q, k)) /\ (Undecided(q, k)' <=> Undecided(q, k))
    BY <2>1 DEF Unadded, Undecided
  <2> QED
    BY <1>1, <1>2, <2>1, <2>2
<1>4. ASSUME NEW r \in Requests, ReadClock(r)
      PROVE  /\ UNCHANGED <<clock, entries, added, passed>>
             /\ stamp'[q][k] = stamp[q][k] \/ (stamp'[q][k] = clock /\ Unadded(q, k))
  BY <1>4, HasPlace DEF TypeOK, ReadClock
<1>5. ASSUME NEW r \in Requests, Trim(r)
      PROVE  UNCHANGED <<clock, added, stamp, passed>> /\ entries'[k] \subseteq entries[k]
  <2>1. Recent(Key(r), stamp[r][Key(r)]) \subseteq entries[Key(r)]
    BY DEF Recent
  <2> QED
    BY <1>5, <2>1 DEF TypeOK, Trim, Becomes
<1>6. ASSUME NEW r \in Requests, Add(r)
      PROVE  /\ UNCHANGED <<clock, stamp, passed>>
             /\ \/ added'[q][k] = added[q][k] /\ entries'[k] = entries[k]
                \/ q = r /\ k = Key(r) /\ added'[q][k] = clock /\ pc'[r] = "count"
                \/ q # r /\ added'[q][k] = added[q][k] /\ entries'[k] = entries[k] \cup {r}
  <2>1. UNCHANGED <<clock, stamp, passed>> /\ pc'[r] = "count"
    BY <1>6 DEF TypeOK, Add, To
  <2>2. CASE k # Key(r)
    BY <1>6, <2>2 DEF TypeOK, Add
  <2>3. CASE k = Key(r)
    BY <1>6, <2>1, <2>3 DEF TypeOK, Add
  <2> QED
    BY <2>1, <2>2, <2>3
<1>7. ASSUME NEW r \in Requests, Count(r) \/ RefreshFails(r) \/ Allow(r)
      PROVE  UNCHANGED <<clock, entries, added, stamp, passed>>
  BY <1>7 DEF Count, RefreshFails, Allow
<1>8. ASSUME NEW r \in Requests, Refresh(r)
      PROVE  /\ UNCHANGED <<clock, entries, added, stamp>>
             /\ passed' \subseteq passed \cup {<<r, Key(r)>>}
             /\ pc[r] = "expire"
  BY <1>8 DEF Refresh
<1>9. ASSUME NEW r \in Requests, Check(r)
      PROVE  /\ Unadded(q, k)' => added'[q][k] = None
             /\ Undecided(q, k)' => <<q, k>> \notin passed'
             /\ q \in entries'[k] => added'[q][k] # None
             /\ added'[q][k] # None =>
                  stamp'[q][k] <= added'[q][k] /\ added'[q][k] <= clock'
             /\ stamp'[q][k] <= clock'
  <2>1. (Unadded(q, k)' => Unadded(q, k)) /\ (Undecided(q, k)' => Undecided(q, k))
    BY <1>9, MovesOn
  <2>2. CASE ReadClock(r)
    BY <1>1, <1>2, <1>4, <2>1, <2>2
  <2>3. CASE Trim(r)
    BY <1>1, <1>2, <1>5, <2>1, <2>3
  <2>4. CASE Add(r)
    <3>1. q = r /\ k = Key(r) => ~Unadded(q, k)' \/ pc'[r] # "count"
      BY <1>9, MovesOn
    <3>2. clock \in Times /\ None \notin Int
      BY RateLimitAssumption DEF TypeOK
    <3> QED
      BY <1>1, <1>2, <1>6, <2>1, <2>4, <3>1, <3>2 DEF Times
  <2>5. CASE Count(r) \/ RefreshFails(r) \/ Allow(r)
    BY <1>1, <1>2, <1>7, <2>1, <2>5
  <2>6. CASE Refresh(r)
    <3>1. q = r /\ k = Key(r) => ~Undecided(q, k)'
      BY <1>8, <1>9, <2>6, MovesOn
    <3> QED
      BY <1>1, <1>2, <1>8, <2>1, <2>6, <3>1
  <2> QED
    BY <1>9, <2>2, <2>3, <2>4, <2>5, <2>6 DEF Check
<1>10. CASE UNCHANGED vars
  <2>1. (Unadded(q, k)' <=> Unadded(q, k)) /\ (Undecided(q, k)' <=> Undecided(q, k))
    BY <1>10 DEF Unadded, Undecided, vars
  <2> QED
    BY <1>1, <1>10, <2>1 DEF vars
<1> QED
  BY <1>3, <1>9, <1>10 DEF Next

-----------------------------------------------------------------------------
LEMMA Finite ==
  ASSUME NEW S, S \subseteq Requests, NEW T, T \subseteq S
  PROVE  /\ Cardinality(S) \in Nat /\ Cardinality(T) \in Nat
         /\ Cardinality(T) <= Cardinality(S)
<1>1. IsFiniteSet(S)
  BY FS_Subset, RateLimitAssumption
<1>2. IsFiniteSet(T) /\ Cardinality(T) <= Cardinality(S)
  BY <1>1, FS_Subset
<1> QED
  BY <1>1, <1>2, FS_CardinalityType

LEMMA BoundedInit == Init => Bounded
<1> SUFFICES ASSUME Init, NEW k \in Keys
             PROVE  Cardinality(Granted(k)) <= Limit[k]
  BY DEF Bounded
<1>1. Granted(k) = {}
  BY DEF Init, Granted
<1> QED
  BY <1>1, FS_EmptySet, RateLimitAssumption

\* Only counting grants.
LEMMA NoGrant ==
  ASSUME TypeOK, Order, NEW k \in Keys,
         Tick \/ \E r \in Requests : Check(r) /\ ~Count(r)
  PROVE  Granted(k)' \subseteq Granted(k)
<1> SUFFICES ASSUME NEW q \in Granted(k)'
             PROVE  q \in Granted(k)
  OBVIOUS
<1> USE DEF redis, handler
<1>1. /\ q \in entries'[k] /\ stamp'[q][k] > clock' - Window[k]
      /\ \/ <<q, k>> \in passed'
         \/ pc'[q] = "expire" /\ Checks[q][at'[q]] = k /\ count'[q] <= Limit[k]
  BY DEF Granted, InWindow, Key
<1>2. SUFFICES /\ q \in entries[k] /\ stamp[q][k] > clock - Window[k]
               /\ \/ <<q, k>> \in passed
                  \/ pc[q] = "expire" /\ Checks[q][at[q]] = k /\ count[q] <= Limit[k]
  BY DEF Granted, InWindow, Key
<1>3. CASE Tick
  <2>1. /\ clock' = clock + 1 /\ entries'[k] \subseteq entries[k]
        /\ UNCHANGED <<stamp, passed, pc, at, count>>
    BY <1>3 DEF TypeOK, Tick
  <2>2. clock \in Int /\ stamp \in [Requests -> [Keys -> Times]]
        /\ entries[k] \subseteq Requests /\ Window[k] \in Int
    BY RateLimitAssumption DEF TypeOK, Times
  <2> QED
    BY <1>1, <2>1, <2>2 DEF Times
<1>4. ASSUME NEW r \in Requests, Check(r), ~Count(r)
      PROVE  /\ q \in entries[k] /\ stamp[q][k] > clock - Window[k]
             /\ \/ <<q, k>> \in passed
                \/ pc[q] = "expire" /\ Checks[q][at[q]] = k /\ count[q] <= Limit[k]
  <2>0. q \in Requests
    <3>1. entries'[k] \subseteq Requests
      BY <1>4, TypeStep DEF Next, TypeOK
    <3> QED
      BY <1>1, <3>1
  <2>1. CASE ReadClock(r)
    <3>1. /\ UNCHANGED <<clock, entries, added, passed, count>>
          /\ stamp'[q][k] = stamp[q][k] \/ Unadded(q, k)
      BY <2>0, <2>1, HasPlace DEF TypeOK, ReadClock
    <3>2. stamp'[q][k] = stamp[q][k]
      BY <1>1, <2>0, <3>1 DEF Order
    <3>3. pc'[q] = "expire" => pc[q] = "expire" /\ at'[q] = at[q]
      BY <2>0, <2>1 DEF ReadClock, To, TypeOK
    <3> QED
      BY <1>1, <3>1, <3>2, <3>3
  <2>2. CASE Trim(r)
    <3>1. Recent(Key(r), stamp[r][Key(r)]) \subseteq entries[Key(r)]
      BY DEF Recent
    <3>2. UNCHANGED <<clock, stamp, passed, count, at>> /\ entries'[k] \subseteq entries[k]
      BY <2>2, <3>1 DEF TypeOK, Trim, Becomes, To
    <3>3. pc'[q] = "expire" => pc[q] = "expire"
      BY <2>0, <2>2 DEF Trim, To, TypeOK
    <3> QED
      BY <1>1, <3>2, <3>3
  <2>3. CASE Add(r)
    <3>1. UNCHANGED <<clock, stamp, passed, count, at>> /\ pc'[r] = "count"
          /\ entries'[k] \subseteq (IF k = Key(r) THEN entries[k] \cup {r} ELSE entries[k])
      BY <2>3 DEF TypeOK, Add, To
    <3>2. pc'[q] = "expire" => pc[q] = "expire"
      BY <2>0, <2>3 DEF Add, To, TypeOK
    <3>3. q = r => k # Key(r)
      <4>1. Undecided(r, Key(r))
        BY <2>3, HasPlace DEF Add, InCheck
      <4> QED
        BY <1>1, <3>1, <4>1 DEF Order
    <3> QED
      BY <1>1, <3>1, <3>2, <3>3
  <2>4. CASE Refresh(r) \/ RefreshFails(r)
    <3>1. pc[r] = "expire" /\ Decide(r) /\ UNCHANGED <<clock, entries, stamp>>
      BY <2>4 DEF Refresh, RefreshFails
    <3>2. passed' \subseteq passed \cup (IF Exceeded(r) THEN {} ELSE {<<r, Key(r)>>})
      BY <2>4 DEF Refresh, RefreshFails
    <3>3. pc'[r] # "expire"
          /\ \A p \in Requests \ {r} : pc'[p] = pc[p] /\ at'[p] = at[p] /\ count'[p] = count[p]
      BY <3>1, DecideType
    <3>4. Exceeded(r) \/ count[r] <= Limit[Key(r)]
      <4>1. Limit[Key(r)] \in Int /\ count[r] \in Int
        BY <3>1, KeyType, RateLimitAssumption DEF TypeOK
      <4> QED
        BY <4>1 DEF Exceeded
    <3> QED
      BY <1>1, <2>0, <3>1, <3>2, <3>3, <3>4 DEF Key
  <2>5. CASE Allow(r)
    <3>1. pc[r] # "admitted" /\ GoOn(r) /\ UNCHANGED <<clock, entries, stamp, passed, count>>
      BY <2>5 DEF Allow, InCheck
    <3>2. pc'[r] # "expire" /\ \A p \in Requests \ {r} : pc'[p] = pc[p] /\ at'[p] = at[p]
      BY <3>1, GoOnType
    <3> QED
      BY <1>1, <2>0, <3>1, <3>2
  <2> QED
    BY <1>4, <2>1, <2>2, <2>3, <2>4, <2>5 DEF Check
<1> QED
  BY <1>2, <1>3, <1>4

LEMMA BoundedStep == TypeOK /\ Order /\ Bounded /\ [Next]_vars => Bounded'
<1> SUFFICES ASSUME TypeOK, Order, Bounded, [Next]_vars, NEW k \in Keys
             PROVE  Cardinality(Granted(k)') <= Limit[k]
  BY DEF Bounded
<1>1. Cardinality(Granted(k)) <= Limit[k] /\ Limit[k] \in Nat
  BY RateLimitAssumption DEF Bounded
<1>2. entries[k] \subseteq Requests /\ Granted(k) \subseteq entries[k]
  BY DEF TypeOK, Granted
<1>3. CASE Granted(k)' \subseteq Granted(k)
  BY <1>1, <1>2, <1>3, Finite
<1>4. ASSUME NEW r \in Requests, Count(r)
      PROVE  \/ Granted(k)' \subseteq Granted(k)
             \/ Granted(k)' \subseteq entries[k] /\ Cardinality(entries[k]) <= Limit[k]
  <2>1. UNCHANGED <<clock, entries, stamp, passed, at>>
    BY <1>4 DEF Count, To, redis
  <2>2. Granted(k)' \subseteq entries[k]
    BY <2>1 DEF Granted
  <2>3. CASE k = Key(r) /\ Cardinality(entries[k]) <= Limit[k]
    BY <2>2, <2>3
  <2>4. CASE k # Key(r) \/ ~(Cardinality(entries[k]) <= Limit[k])
    <3>1. \A q \in Requests \ {r} : pc'[q] = pc[q] /\ count'[q] = count[q]
      BY <1>4 DEF Count, To, TypeOK
    <3>2. count'[r] = Cardinality(entries[Key(r)])
      BY <1>4 DEF Count, TypeOK
    <3> SUFFICES ASSUME NEW q \in Granted(k)'
                 PROVE  q \in Granted(k)
      OBVIOUS
    <3>3. /\ q \in entries[k] /\ q \in Requests /\ stamp[q][k] > clock - Window[k]
          /\ \/ <<q, k>> \in passed
             \/ pc'[q] = "expire" /\ Checks[q][at[q]] = k /\ count'[q] <= Limit[k]
      BY <1>2, <2>1 DEF Granted, InWindow, Key
    <3>4. CASE q = r
      BY <2>4, <3>2, <3>3, <3>4 DEF Granted, InWindow, Key
    <3>5. CASE q # r
      BY <3>1, <3>3, <3>5 DEF Granted, InWindow, Key
    <3> QED
      BY <3>4, <3>5
  <2> QED
    BY <2>3, <2>4
<1>5. CASE \E r \in Requests : Count(r)
  <2>1. \/ Granted(k)' \subseteq entries[k] /\ Cardinality(entries[k]) <= Limit[k]
        \/ Granted(k)' \subseteq Granted(k)
    BY <1>4, <1>5
  <2>2. CASE Granted(k)' \subseteq entries[k] /\ Cardinality(entries[k]) <= Limit[k]
    BY <1>1, <1>2, <2>2, Finite
  <2> QED
    BY <1>3, <2>1, <2>2
<1>6. CASE UNCHANGED vars
  <2>1. Granted(k)' = Granted(k)
    BY <1>6 DEF Granted, InWindow, Key, vars, redis, handler
  <2> QED
    BY <1>3, <2>1
<1> QED
  BY <1>3, <1>5, <1>6, NoGrant DEF Next

(***************************************************************************)
(* A set never holds more than the limit of requests it let through within *)
(* the last window.                                                        *)
(***************************************************************************)
THEOREM LimitHolds == Spec => []AtMostMax
<1>1. TypeOK /\ Bounded => AtMostMax
  <2> SUFFICES ASSUME TypeOK, Bounded, NEW k \in Keys
               PROVE  Cardinality({r \in entries[k] :
                        <<r, k>> \in passed /\ InWindow(r, k)}) <= Limit[k]
    BY DEF AtMostMax
  <2> DEFINE Let == {r \in entries[k] : <<r, k>> \in passed /\ InWindow(r, k)}
  <2>1. Granted(k) \subseteq Requests /\ Let \subseteq Granted(k)
    <3>1. entries[k] \subseteq Requests
      BY DEF TypeOK
    <3> QED
      BY <3>1 DEF Granted
  <2>2. Cardinality(Granted(k)) <= Limit[k] /\ Limit[k] \in Nat
    BY RateLimitAssumption DEF Bounded
  <2> HIDE DEF Let
  <2>3. /\ Cardinality(Granted(k)) \in Nat /\ Cardinality(Let) \in Nat
        /\ Cardinality(Let) <= Cardinality(Granted(k))
    BY <2>1, Finite
  <2>4. Cardinality(Let) <= Limit[k]
    BY <2>2, <2>3
  <2> QED
    BY <2>4 DEF Let
<1> QED
  BY <1>1, TypeInit, TypeStep, OrderInit, OrderStep, BoundedInit, BoundedStep, PTL DEF Spec

-----------------------------------------------------------------------------
LEMMA AliveInit == Init => Alive
  BY RateLimitAssumption DEF Init, Alive

\* A request that was let through leaves a set when its window is over.
LEMMA AliveStep ==
  ASSUME TypeOK, Order, Alive, [Next]_vars, NEW k \in Keys, NEW q \in Requests,
         <<q, k>> \in passed \/ (q \in entries'[k] /\ <<q, k>> \in passed')
  PROVE  /\ q \in entries'[k] => expiry'[k] # None /\ expiry'[k] >= stamp'[q][k] + Window[k]
         /\ q \in entries[k] \ entries'[k] => stamp[q][k] <= clock' - Window[k]
<1> USE DEF redis, handler
<1>1. /\ clock \in Int /\ Window[k] \in Int /\ Window[k] > 0 /\ stamp[q][k] \in Int
      /\ expiry[k] # None => expiry[k] \in Int
      /\ entries[k] \subseteq Requests /\ None \notin Int
  BY RateLimitAssumption DEF TypeOK, Times
<1>2. /\ stamp[q][k] <= clock
      /\ q \in entries[k] /\ <<q, k>> \in passed =>
           expiry[k] # None /\ expiry[k] >= stamp[q][k] + Window[k]
  BY DEF Order, Alive
<1>3. CASE Tick
  <2>1. /\ clock' = clock + 1
        /\ \/ /\ expiry[k] # None /\ expiry[k] <= clock'
              /\ entries'[k] = {} /\ expiry'[k] = None
           \/ /\ ~(expiry[k] # None /\ expiry[k] <= clock')
              /\ entries'[k] = entries[k] /\ expiry'[k] = expiry[k]
        /\ UNCHANGED <<stamp, passed>>
    BY <1>3 DEF Tick
  <2> QED
    BY <1>1, <1>2, <2>1
<1>4. ASSUME NEW r \in Requests, ReadClock(r)
      PROVE  UNCHANGED <<entries, expiry, passed>> /\ stamp'[q][k] = stamp[q][k]
  <2>1. /\ UNCHANGED <<entries, expiry, passed>>
        /\ stamp'[q][k] = stamp[q][k] \/ (q = r /\ k = Key(r))
    BY <1>4 DEF ReadClock, TypeOK
  <2>2. <<r, Key(r)>> \notin passed
    <3>1. Undecided(r, Key(r)) /\ Key(r) \in Keys
      BY <1>4, HasPlace, KeyType DEF ReadClock, InCheck
    <3> QED
      BY <3>1 DEF Order
  <2> QED
    BY <2>1, <2>2
<1>5. ASSUME NEW r \in Requests, Trim(r)
      PROVE  /\ UNCHANGED <<clock, stamp, passed>>
             /\ \/ entries'[k] = entries[k] /\ expiry'[k] = expiry[k]
                \/ /\ q \in entries'[k] => expiry'[k] = expiry[k] /\ q \in entries[k]
                   /\ q \in entries[k] \ entries'[k] => stamp[q][k] <= clock - Window[k]
  <2>1. /\ UNCHANGED <<clock, stamp, passed>>
        /\ Becomes(Key(r), Recent(Key(r), stamp[r][Key(r)]))
    BY <1>5 DEF Trim
  <2>2. CASE k # Key(r)
    BY <2>1, <2>2 DEF Becomes, TypeOK
  <2>3. CASE k = Key(r)
    <3>1. /\ entries'[k] = {p \in entries[k] : stamp[p][k] > stamp[r][k] - Window[k]}
          /\ expiry'[k] = IF entries'[k] = {} THEN None ELSE expiry[k]
      BY <2>1, <2>3 DEF Becomes, Recent, TypeOK
    <3>2. stamp[r][k] \in Int /\ stamp[r][k] <= clock
      <4>1. stamp[r][k] \in Times
        BY DEF TypeOK
      <4>2. stamp[r][k] <= clock
        BY DEF Order
      <4> QED
        BY <4>1, <4>2 DEF Times
    <3>3. q \in entries'[k] => expiry'[k] = expiry[k] /\ q \in entries[k]
      BY <3>1
    <3>4. q \in entries[k] \ entries'[k] => stamp[q][k] <= stamp[r][k] - Window[k]
      BY <1>1, <3>1, <3>2
    <3>5. q \in entries[k] \ entries'[k] => stamp[q][k] <= clock - Window[k]
      BY <1>1, <3>2, <3>4
    <3> QED
      BY <2>1, <3>3, <3>5
  <2> QED
    BY <2>1, <2>2, <2>3
<1>6. ASSUME NEW r \in Requests, Add(r)
      PROVE  /\ UNCHANGED <<stamp, passed, expiry>> /\ entries[k] \subseteq entries'[k]
             /\ q \in entries'[k] => q \in entries[k] \/ (q = r /\ k = Key(r))
             /\ <<r, Key(r)>> \notin passed
  <2>1. Undecided(r, Key(r)) /\ Key(r) \in Keys
    BY <1>6, HasPlace, KeyType DEF Add, InCheck
  <2> QED
    BY <1>6, <2>1 DEF Add, TypeOK, Order
<1>7. ASSUME NEW r \in Requests, Count(r) \/ RefreshFails(r) \/ Allow(r)
      PROVE  UNCHANGED <<entries, expiry, stamp, passed>>
  BY <1>7 DEF Count, RefreshFails, Allow
<1>8. ASSUME NEW r \in Requests, Refresh(r)
      PROVE  /\ UNCHANGED <<clock, entries, stamp>>
             /\ \/ /\ k # Key(r) /\ expiry'[k] = expiry[k]
                   /\ <<q, k>> \in passed' => <<q, k>> \in passed
                \/ q \in entries[k] => expiry'[k] = clock + Window[k]
  <2>1. UNCHANGED <<clock, entries, stamp>>
        /\ passed' \subseteq passed \cup {<<r, Key(r)>>}
    BY <1>8 DEF Refresh
  <2>2. CASE k # Key(r)
    BY <1>8, <2>1, <2>2 DEF Refresh, TypeOK
  <2>3. CASE k = Key(r)
    BY <1>8, <2>1, <2>3 DEF Refresh, TypeOK
  <2> QED
    BY <2>1, <2>2, <2>3
<1>9. CASE UNCHANGED vars
  BY <1>1, <1>2, <1>9 DEF vars
<1>10. CASE \E r \in Requests : Check(r)
  <2>1. PICK r \in Requests : Check(r)
    BY <1>10
  <2>2. CASE ReadClock(r)
    BY <1>1, <1>2, <1>4, <2>2
  <2>3. CASE Trim(r)
    BY <1>1, <1>2, <1>5, <2>3
  <2>4. CASE Add(r)
    BY <1>1, <1>2, <1>6, <2>4
  <2>5. CASE Count(r) \/ RefreshFails(r) \/ Allow(r)
    BY <1>1, <1>2, <1>7, <2>5
  <2>6. CASE Refresh(r)
    BY <1>1, <1>2, <1>8, <2>6
  <2> QED
    BY <2>1, <2>2, <2>3, <2>4, <2>5, <2>6 DEF Check
<1> QED
  BY <1>3, <1>9, <1>10 DEF Next

LEMMA AliveKept == TypeOK /\ Order /\ Alive /\ [Next]_vars => Alive'
<1> SUFFICES ASSUME TypeOK, Order, Alive, [Next]_vars, NEW k \in Keys,
                    NEW q \in entries'[k], <<q, k>> \in passed'
             PROVE  expiry'[k] # None /\ expiry'[k] >= stamp'[q][k] + Window[k]
  BY DEF Alive
<1>1. q \in Requests
  BY TypeStep DEF TypeOK
<1> QED
  BY <1>1, AliveStep

(***************************************************************************)
(* And every request it let through stays for the whole window.            *)
(***************************************************************************)
THEOREM LetThroughIsKept == Spec => KeptInWindow
<1>1. ASSUME TypeOK, Order, Alive, [Next]_vars
      PROVE  \A k \in Keys : \A r \in entries[k] \ entries'[k] :
               <<r, k>> \in passed => stamp[r][k] <= clock' - Window[k]
  <2> SUFFICES ASSUME NEW k \in Keys, NEW r \in entries[k] \ entries'[k], <<r, k>> \in passed
               PROVE  stamp[r][k] <= clock' - Window[k]
    OBVIOUS
  <2>1. r \in Requests
    BY <1>1 DEF TypeOK
  <2> QED
    BY <1>1, <2>1, AliveStep
<1>2. TypeOK /\ Order /\ Alive /\ [Next]_vars
      => [\A k \in Keys : \A r \in entries[k] \ entries'[k] :
            <<r, k>> \in passed => stamp[r][k] <= clock' - Window[k]]_vars
  BY <1>1
<1> QED
  BY <1>2, TypeInit, TypeStep, OrderInit, OrderStep, AliveInit, AliveKept, PTL
     DEF Spec, KeptInWindow

-----------------------------------------------------------------------------
LEMMA CauseInit == Init => Cause
  BY DEF Init, Cause

\* What entered a set around a request stays there.
LEMMA AroundGrows ==
  ASSUME TypeOK, Order, [Next]_vars, NEW r \in Requests, NEW k \in Keys,
         stamp'[r][k] = stamp[r][k]
  PROVE  /\ Around(r, k) \subseteq Around(r, k)' /\ Around(r, k)' \subseteq Requests
         /\ Cardinality(Around(r, k)) \in Nat /\ Cardinality(Around(r, k)') \in Nat
         /\ Cardinality(Around(r, k)) <= Cardinality(Around(r, k)')
<1>1. ASSUME NEW q \in Requests
      PROVE  added[q][k] # None => added'[q][k] = added[q][k]
  <2>1. ASSUME NEW p \in Requests, Add(p)
        PROVE  added[q][k] # None => added'[q][k] = added[q][k]
    <3>1. Unadded(p, Key(p)) /\ Key(p) \in Keys
      BY <2>1, HasPlace, KeyType DEF Add
    <3> QED
      BY <2>1, <3>1 DEF Add, Order, TypeOK
  <2>2. (\E p \in Requests : Add(p)) \/ UNCHANGED added
    BY DEF Next, Check, Tick, ReadClock, Trim, Count, Refresh, RefreshFails, Allow,
           vars, redis, handler
  <2> QED
    BY <2>1, <2>2
<1>2. Around(r, k) \subseteq Around(r, k)' /\ Around(r, k)' \subseteq Requests
  BY <1>1 DEF Around
<1> HIDE DEF Around
<1> QED
  BY <1>2, Finite

\* The steps of a request that bring it to where Cause says something.
LEMMA CauseOwn ==
  ASSUME TypeOK, Order, Cause, NEW r \in Requests, Check(r), NEW k \in Keys, k = Key(r),
         pc'[r] \in {"add", "count", "expire", "refused"}
  PROVE  /\ pc'[r] \in {"add", "count"} => entries'[k] \subseteq Around(r, k)'
         /\ (pc'[r] = "expire" /\ count'[r] > Limit[k]) \/ pc'[r] = "refused"
            => Cardinality(Around(r, k)) > Limit[k]
<1> USE DEF redis
<1>1. /\ clock \in Int /\ Window[k] \in Int /\ Window[k] > 0 /\ None \notin Int
      /\ \A q \in Requests : stamp[q][k] \in Int /\ (added[q][k] # None => added[q][k] \in Int)
      /\ entries[k] \subseteq Requests /\ entries \in [Keys -> SUBSET Requests]
  BY RateLimitAssumption DEF TypeOK, Times
<1>2. ASSUME NEW q \in Requests
      PROVE  /\ stamp[q][k] <= clock
             /\ added[q][k] # None => stamp[q][k] <= added[q][k] /\ added[q][k] <= clock
             /\ q \in entries[k] => added[q][k] # None
  BY DEF Order
<1>3. CASE Trim(r)
  <2>1. /\ entries'[k] = {q \in entries[k] : stamp[q][k] > stamp[r][k] - Window[k]}
        /\ UNCHANGED <<added, stamp>>
    BY <1>1, <1>3 DEF Trim, Becomes, Recent
  <2>2. pc'[r] = "add"
    BY <1>3 DEF Trim, To, TypeOK
  <2>3. ASSUME NEW q \in entries'[k]
        PROVE  q \in Requests /\ added[q][k] # None /\ added[q][k] > stamp[r][k] - Window[k]
    <3>1. q \in Requests /\ q \in entries[k] /\ stamp[q][k] > stamp[r][k] - Window[k]
      BY <1>1, <2>1, <2>3
    <3>2. added[q][k] # None /\ stamp[q][k] <= added[q][k]
      BY <1>2, <3>1
    <3>3. stamp[q][k] \in Int /\ added[q][k] \in Int /\ stamp[r][k] \in Int
      BY <1>1, <3>1, <3>2
    <3> QED
      BY <1>1, <3>1, <3>2, <3>3
  <2>4. entries'[k] \subseteq Around(r, k)'
    BY <2>1, <2>3 DEF Around
  <2> QED
    BY <2>2, <2>4
<1>4. CASE Add(r)
  <2>1. /\ entries'[k] = entries[k] \cup {r} /\ stamp' = stamp
        /\ \A q \in Requests : added'[q][k] = IF q = r THEN clock ELSE added[q][k]
    BY <1>1, <1>4 DEF Add, TypeOK
  <2>2. pc'[r] = "count"
    BY <1>4 DEF Add, To, TypeOK
  <2>3. entries[k] \subseteq Around(r, k)
    BY <1>4 DEF Add, Cause
  <2>4. clock > stamp[r][k] - Window[k] /\ clock # None
    BY <1>1, <1>2
  <2>5. entries'[k] \subseteq Around(r, k)'
    BY <2>1, <2>3, <2>4 DEF Around
  <2> QED
    BY <2>2, <2>5
<1>5. CASE Count(r)
  <2>1. pc'[r] = "expire" /\ count'[r] = Cardinality(entries[k])
    BY <1>5 DEF Count, To, TypeOK
  <2>2. entries[k] \subseteq Around(r, k)
    BY <1>5 DEF Count, Cause
  <2>3. Around(r, k) \subseteq Requests
    BY DEF Around
  <2>4. /\ Cardinality(entries[k]) \in Nat /\ Cardinality(Around(r, k)) \in Nat
        /\ Cardinality(entries[k]) <= Cardinality(Around(r, k))
    BY <2>2, <2>3, Finite
  <2>5. Limit[k] \in Nat
    BY RateLimitAssumption
  <2> QED
    BY <2>1, <2>4, <2>5
<1>6. CASE Refresh(r) \/ RefreshFails(r)
  <2>1. pc[r] = "expire" /\ Decide(r)
    BY <1>6 DEF Refresh, RefreshFails
  <2>2. pc'[r] = "refused" /\ Exceeded(r)
    BY <2>1, DecideType
  <2> QED
    BY <2>1, <2>2 DEF Cause
<1>7. ASSUME ReadClock(r) \/ Allow(r)
      PROVE  FALSE
  <2>1. CASE ReadClock(r)
    BY <2>1 DEF ReadClock, To, TypeOK
  <2>2. CASE Allow(r)
    <3>1. pc[r] # "admitted" /\ GoOn(r)
      BY <2>2 DEF Allow, InCheck
    <3> QED
      BY <3>1, GoOnType
  <2> QED
    BY <1>7, <2>1, <2>2
<1> QED
  BY <1>3, <1>4, <1>5, <1>6, <1>7 DEF Check

\* And those of others, while it is there.
LEMMA CauseOther ==
  ASSUME TypeOK, Order, Cause, [Next]_vars, NEW r \in Requests, NEW k \in Keys, k = Key(r),
         pc'[r] = pc[r], stamp'[r][k] = stamp[r][k], pc[r] \in {"add", "count"}
  PROVE  entries'[k] \subseteq Around(r, k)'
<1> USE DEF redis, handler
<1>1. entries[k] \subseteq Around(r, k)'
  <2>1. entries[k] \subseteq Around(r, k)
    BY DEF Cause
  <2> QED
    BY <2>1, AroundGrows
<1>2. entries \in [Keys -> SUBSET Requests]
  BY DEF TypeOK
<1>3. ASSUME NEW q \in Requests, Add(q)
      PROVE  entries'[k] \subseteq Around(r, k)'
  <2>1. CASE k # Key(q)
    BY <1>1, <1>2, <1>3, <2>1 DEF Add
  <2>2. CASE k = Key(q)
    <3>1. entries'[k] = entries[k] \cup {q} /\ added'[q][k] = clock /\ stamp' = stamp
      BY <1>2, <1>3, <2>2 DEF Add, TypeOK
    <3>2. /\ clock \in Int /\ Window[k] \in Int /\ Window[k] > 0 /\ None \notin Int
          /\ stamp[r][k] \in Int
      BY RateLimitAssumption DEF TypeOK, Times
    <3>3. stamp[r][k] <= clock
      BY DEF Order
    <3>4. clock # None /\ clock > stamp[r][k] - Window[k]
      BY <3>2, <3>3
    <3>5. q \in Around(r, k)'
      BY <3>1, <3>4 DEF Around
    <3> QED
      BY <1>1, <3>1, <3>5
  <2> QED
    BY <2>1, <2>2
<1>4. ASSUME NEW q \in Requests, Trim(q)
      PROVE  entries'[k] \subseteq entries[k]
  <2>1. Recent(Key(q), stamp[q][Key(q)]) \subseteq entries[Key(q)]
    BY DEF Recent
  <2> QED
    BY <1>2, <1>4, <2>1 DEF Trim, Becomes
<1>5. CASE Tick
  <2>1. entries'[k] \subseteq entries[k]
    BY <1>2, <1>5 DEF Tick
  <2> QED
    BY <1>1, <2>1
<1>6. (\E q \in Requests : Add(q) \/ Trim(q)) \/ Tick \/ UNCHANGED entries
  BY DEF Next, Check, ReadClock, Count, Refresh, RefreshFails, Allow, vars
<1> QED
  BY <1>1, <1>3, <1>4, <1>5, <1>6

LEMMA CauseStep == TypeOK /\ Order /\ Cause /\ [Next]_vars => Cause'
<1> SUFFICES ASSUME TypeOK, Order, Cause, [Next]_vars, NEW r \in Requests
             PROVE  /\ pc'[r] \in {"add", "count"} => (entries[Key(r)] \subseteq Around(r, Key(r)))'
                    /\ \/ pc'[r] = "expire" /\ Exceeded(r)'
                       \/ pc'[r] = "refused"
                       => (Cardinality(Around(r, Key(r))) > Limit[Key(r)])'
  BY DEF Cause
<1> USE DEF redis, handler
<1>1. CASE pc'[r] \notin {"add", "count", "expire", "refused"}
  BY <1>1
<1>2. CASE pc'[r] \in {"add", "count", "expire", "refused"}
  <2>1. ASSUME Check(r)
        PROVE  pc[r] # "admitted" /\ at'[r] = at[r] /\ stamp' = stamp
    <3>1. ~ReadClock(r)
      BY <1>2 DEF ReadClock, To, TypeOK
    <3>2. CASE Trim(r) \/ Add(r) \/ Count(r)
      BY <3>2 DEF Trim, Add, Count, To
    <3>3. CASE Refresh(r) \/ RefreshFails(r)
      <4>1. pc[r] = "expire" /\ Decide(r) /\ stamp' = stamp
        BY <3>3 DEF Refresh, RefreshFails
      <4> QED
        BY <1>2, <4>1, DecideType
    <3>4. ~Allow(r)
      <4> SUFFICES ASSUME Allow(r)
                   PROVE  FALSE
        OBVIOUS
      <4>1. pc[r] # "admitted" /\ GoOn(r)
        BY DEF Allow, InCheck
      <4> QED
        BY <1>2, <4>1, GoOnType
    <3> QED
      BY <2>1, <3>1, <3>2, <3>3, <3>4 DEF Check
  <2>2. ASSUME ~Check(r)
        PROVE  pc'[r] = pc[r] /\ at'[r] = at[r] /\ count'[r] = count[r] /\ stamp'[r] = stamp[r]
    <3>1. CASE Tick \/ UNCHANGED vars
      BY <3>1 DEF Tick, vars
    <3>2. ASSUME NEW q \in Requests, Check(q)
          PROVE  pc'[r] = pc[r] /\ at'[r] = at[r] /\ count'[r] = count[r] /\ stamp'[r] = stamp[r]
      <4>1. q # r
        BY <2>2, <3>2
      <4>2. CASE ReadClock(q) \/ Trim(q) \/ Add(q) \/ Count(q)
        BY <4>1, <4>2 DEF ReadClock, Trim, Add, Count, To, TypeOK
      <4>3. CASE Refresh(q) \/ RefreshFails(q)
        <5>1. pc[q] = "expire" /\ Decide(q) /\ stamp' = stamp
          BY <4>3 DEF Refresh, RefreshFails
        <5> QED
          BY <4>1, <5>1, DecideType
      <4>4. CASE Allow(q)
        <5>1. pc[q] # "admitted" /\ GoOn(q) /\ stamp' = stamp /\ count' = count
          BY <4>4 DEF Allow, InCheck
        <5> QED
          BY <4>1, <5>1, GoOnType
      <4> QED
        BY <3>2, <4>2, <4>3, <4>4 DEF Check
    <3> QED
      BY <3>1, <3>2 DEF Next
  <2>3. pc[r] # "admitted" /\ at'[r] = at[r] /\ stamp'[r] = stamp[r]
    BY <1>2, <2>1, <2>2
  <2>4. PICK k \in Keys : k = Key(r) /\ k = Checks[r][at'[r]]
    BY <2>3, KeyType DEF Key
  <2>5. /\ Cardinality(Around(r, k)) \in Nat /\ Cardinality(Around(r, k)') \in Nat
        /\ Cardinality(Around(r, k)) <= Cardinality(Around(r, k)') /\ Limit[k] \in Nat
    BY <2>3, AroundGrows, RateLimitAssumption
  <2>6. pc'[r] \in {"add", "count"} => entries'[k] \subseteq Around(r, k)'
    <3>1. CASE Check(r)
      BY <1>2, <2>4, <3>1, CauseOwn
    <3>2. CASE ~Check(r)
      BY <2>2, <2>3, <2>4, <3>2, CauseOther
    <3> QED
      BY <3>1, <3>2
  <2>7. (pc'[r] = "expire" /\ count'[r] > Limit[k]) \/ pc'[r] = "refused"
        => Cardinality(Around(r, k)) > Limit[k]
    <3>1. CASE Check(r)
      BY <1>2, <2>4, <3>1, CauseOwn
    <3>2. CASE ~Check(r)
      BY <2>2, <2>4, <3>2 DEF Cause, Exceeded
    <3> QED
      BY <3>1, <3>2
  <2>8. (pc'[r] = "expire" /\ count'[r] > Limit[k]) \/ pc'[r] = "refused"
        => Cardinality(Around(r, k)') > Limit[k]
    BY <2>5, <2>7
  <2>9. Key(r)' = k
    BY <2>4 DEF Key
  <2>10. /\ (entries[Key(r)] \subseteq Around(r, Key(r)))' <=> entries'[k] \subseteq Around(r, k)'
         /\ (Cardinality(Around(r, Key(r))) > Limit[Key(r)])'
            <=> Cardinality(Around(r, k)') > Limit[k]
         /\ Exceeded(r)' <=> count'[r] > Limit[k]
    BY <2>9 DEF Around, Exceeded
  <2> QED
    BY <2>6, <2>8, <2>10
<1> QED
  BY <1>1, <1>2

(***************************************************************************)
(* No request is refused unless more than the limit entered the set within *)
(* a window of it.                                                         *)
(***************************************************************************)
THEOREM RefusalsHaveCause == Spec => []RefusedForCause
<1>1. Cause => RefusedForCause
  BY DEF Cause, RefusedForCause
<1> QED
  BY <1>1, TypeInit, TypeStep, OrderInit, OrderStep, CauseInit, CauseStep, PTL DEF Spec
=============================================================================
