-------------------------- MODULE ApiKeyAuthProofs --------------------------
(***************************************************************************)
(* Proofs about ApiKeyAuth, for every set of accounts, keys and requests.  *)
(***************************************************************************)
EXTENDS ApiKeyAuthProps, TLAPS

LEMMA TypeInit == Init => TypeOK
  BY AuthAssumption DEF Init, TypeOK, PCs, Creating

LEMMA TypeStep == TypeOK /\ [Next]_vars => TypeOK'
<1> SUFFICES ASSUME TypeOK, [Next]_vars
             PROVE  TypeOK'
  OBVIOUS
<1> USE AuthAssumption DEF request, create, PCs, Creating
<1>1. ASSUME NEW r \in Requests, NEW k \in Keys, Arrive(r, k)
      PROVE  TypeOK'
  BY <1>1 DEF TypeOK, Arrive
<1>2. ASSUME NEW r \in Requests, Hit(r) \/ Miss(r) \/ ReadKey(r)
      PROVE  TypeOK'
  BY <1>2 DEF TypeOK, Hit, Miss, ReadKey
<1>3. ASSUME NEW r \in Requests, ReadAccount(r)
      PROVE  TypeOK'
  <2>1. [key |-> TRUE, account |-> TRUE] \in Info
    BY DEF Info
  <2> QED
    BY <1>3, <2>1 DEF TypeOK, ReadAccount
<1>4. ASSUME NEW r \in Requests, Fill(r)
      PROVE  TypeOK'
  BY <1>4 DEF TypeOK, Fill
<1>5. ASSUME NEW r \in Requests, CacheFails(r) \/ ReadFails(r) \/ FillFails(r)
      PROVE  TypeOK'
  <2>1. faults' \in 0 .. MaxFaults
    BY <1>5 DEF TypeOK, CacheFails, ReadFails, FillFails, Fault
  <2>2. /\ pc' \in [Requests -> PCs]
        /\ \A q \in Requests : pc'[q] = "fill" => pc[q] = "fill"
        /\ \A q \in Requests : pc'[q] # "idle" => pc[q] # "idle"
    BY <1>5 DEF TypeOK, CacheFails, ReadFails, FillFails
  <2>3. UNCHANGED <<row, active, cache, sent, found, create, deleting>>
    BY <1>5 DEF CacheFails, ReadFails, FillFails
  <2> QED
    BY <2>1, <2>2, <2>3 DEF TypeOK
<1>6. ASSUME NEW k \in Keys, CheckOwner(k)
      PROVE  TypeOK'
  BY <1>6 DEF TypeOK, CheckOwner
<1>7. ASSUME NEW k \in Keys, InsertKey(k)
      PROVE  TypeOK'
  BY <1>7 DEF TypeOK, InsertKey
<1>8. ASSUME NEW k \in Keys, CacheKey(k)
      PROVE  TypeOK'
  <2>1. [key |-> TRUE, account |-> seen[k]] \in Info
    BY DEF TypeOK, Info
  <2> QED
    BY <1>8, <2>1 DEF TypeOK, CacheKey
<1>9. ASSUME NEW k \in Keys, CacheKeyFails(k) \/ UncacheKeyFails(k)
      PROVE  TypeOK'
  BY <1>9 DEF TypeOK, CacheKeyFails, UncacheKeyFails, Fault
<1>10. ASSUME NEW k \in Keys, DeactivateKey(k) \/ UncacheKey(k) \/ Expire(k)
       PROVE  TypeOK'
  BY <1>10 DEF TypeOK, DeactivateKey, UncacheKey, Expire
<1>11. ASSUME NEW a \in Accounts, UpdateAccount(a)
       PROVE  TypeOK'
  BY <1>11 DEF TypeOK, UpdateAccount
<1>12. CASE Drop
  <2>1. /\ pc' \in [Requests -> PCs]
        /\ \A q \in Requests : pc'[q] # "idle" => pc'[q] = pc[q]
    BY <1>12 DEF TypeOK, Drop
  <2>2. /\ creating' \in [Keys -> Creating]
        /\ deleting' \subseteq Keys
        /\ faults' \in 0 .. MaxFaults
        /\ UNCHANGED <<row, active, cache, sent, found, seen>>
    BY <1>12 DEF TypeOK, Drop, Fault
  <2> QED
    BY <2>1, <2>2 DEF TypeOK
<1>13. CASE UNCHANGED vars
  BY <1>13 DEF TypeOK, vars
<1> QED
  BY <1>1, <1>2, <1>3, <1>4, <1>5, <1>6, <1>7, <1>8, <1>9, <1>10, <1>11, <1>12, <1>13
     DEF Next, Step, StepFails, CreateKey

(***************************************************************************)
(* Tables, cache and handlers have their types.                            *)
(***************************************************************************)
THEOREM TypeCorrect == Spec => []TypeOK
  BY TypeInit, TypeStep, PTL DEF Spec

(***************************************************************************)
(* A shut key stays shut.                                                  *)
(***************************************************************************)
LEMMA ShutStep ==
  ASSUME TypeOK, [Next]_vars, NEW k \in Keys, Shut(k),
         row'[k] = row[k], active'[Owner[k]] = active[Owner[k]]
  PROVE  /\ Shut(k)'
         /\ \A r \in Requests : sent'[r] = k /\ pc'[r] = "served" => pc[r] = "served"
<1> USE AuthAssumption DEF request, create, Shut, Usable
<1>1. ASSUME NEW r \in Requests, NEW l \in Keys, Arrive(r, l)
      PROVE  /\ Shut(k)'
             /\ \A q \in Requests : sent'[q] = k /\ pc'[q] = "served" => pc[q] = "served"
  BY <1>1 DEF TypeOK, Arrive
\* The entry, if there is one, refuses it.
<1>2. ASSUME NEW r \in Requests, Hit(r)
      PROVE  /\ Shut(k)'
             /\ \A q \in Requests : sent'[q] = k /\ pc'[q] = "served" => pc[q] = "served"
  BY <1>2 DEF TypeOK, Hit
\* The key is inactive, or the request will find its account inactive.
<1>3. ASSUME NEW r \in Requests, Miss(r) \/ ReadKey(r) \/ ReadAccount(r)
      PROVE  /\ Shut(k)'
             /\ \A q \in Requests : sent'[q] = k /\ pc'[q] = "served" => pc[q] = "served"
  <2>1. CASE Miss(r)
    BY <2>1 DEF TypeOK, Miss
  <2>2. CASE ReadKey(r)
    BY <2>2 DEF TypeOK, ReadKey
  <2>3. CASE ReadAccount(r)
    BY <2>3 DEF TypeOK, ReadAccount
  <2> QED
    BY <1>3, <2>1, <2>2, <2>3
\* Requests with other keys fill other entries.
<1>4. ASSUME NEW r \in Requests, Fill(r)
      PROVE  /\ Shut(k)'
             /\ \A q \in Requests : sent'[q] = k /\ pc'[q] = "served" => pc[q] = "served"
  BY <1>4 DEF TypeOK, Fill
<1>5. ASSUME NEW r \in Requests, StepFails(r)
      PROVE  /\ Shut(k)'
             /\ \A q \in Requests : sent'[q] = k /\ pc'[q] = "served" => pc[q] = "served"
  BY <1>5 DEF TypeOK, StepFails, CacheFails, ReadFails, FillFails
<1>6. ASSUME NEW l \in Keys, CreateKey(l) \/ CacheKeyFails(l)
      PROVE  /\ Shut(k)'
             /\ UNCHANGED pc
  BY <1>6 DEF TypeOK, CreateKey, CheckOwner, InsertKey, CacheKey, CacheKeyFails
<1>7. ASSUME NEW l \in Keys,
             DeactivateKey(l) \/ UncacheKey(l) \/ UncacheKeyFails(l) \/ Expire(l)
      PROVE  /\ Shut(k)'
             /\ UNCHANGED pc
  BY <1>7 DEF TypeOK, DeactivateKey, UncacheKey, UncacheKeyFails, Expire
<1>8. ASSUME NEW a \in Accounts, UpdateAccount(a)
      PROVE  /\ Shut(k)'
             /\ UNCHANGED pc
  BY <1>8 DEF UpdateAccount
<1>9. CASE Drop
  <2>1. \A r \in Requests : pc'[r] # "idle" => pc'[r] = pc[r]
    BY <1>9 DEF TypeOK, Drop
  <2>2. creating'[k] = creating[k]
    BY <1>9 DEF TypeOK, Drop
  <2>3. UNCHANGED <<row, active, cache, sent>>
    BY <1>9 DEF Drop
  <2> QED
    BY <2>1, <2>2, <2>3
<1>10. CASE UNCHANGED vars
  BY <1>10 DEF vars
<1> QED
  BY <1>1, <1>2, <1>3, <1>4, <1>5, <1>6, <1>7, <1>8, <1>9, <1>10 DEF Next, Step

(***************************************************************************)
(* Nobody but an administrator opens a shut key, and no request passes     *)
(* with it, whatever the interleaving of requests, fills, creations,       *)
(* deletions and expiries.                                                 *)
(***************************************************************************)
THEOREM ShutStaysShutAlways == Spec => ShutStaysShut
<1>1. TypeOK /\ [Next]_vars =>
        [\A k \in Keys : Shut(k) =>
           /\ Shut(k)' \/ row'[k] # row[k] \/ active'[Owner[k]] # active[Owner[k]]
           /\ \A r \in Requests :
                sent'[r] = k /\ pc'[r] = "served" => pc[r] = "served"
        ]_vars
  <2> SUFFICES ASSUME TypeOK, [Next]_vars, NEW k \in Keys, Shut(k)
               PROVE  /\ Shut(k)' \/ row'[k] # row[k] \/ active'[Owner[k]] # active[Owner[k]]
                      /\ \A r \in Requests :
                           sent'[r] = k /\ pc'[r] = "served" => pc[r] = "served"
    OBVIOUS
  <2>1. CASE row'[k] = row[k] /\ active'[Owner[k]] = active[Owner[k]]
    BY <2>1, ShutStep
  \* A step of an administrator lets no request pass.
  <2>2. CASE row'[k] # row[k] \/ active'[Owner[k]] # active[Owner[k]]
    <3>1. UNCHANGED pc
      BY <2>2 DEF Next, vars, request, create, Arrive, Step, Hit, Miss, ReadKey, ReadAccount,
                  Fill, StepFails, CacheFails, ReadFails, FillFails, CreateKey, CheckOwner,
                  InsertKey, CacheKey, CacheKeyFails, DeactivateKey, UncacheKey,
                  UncacheKeyFails, Expire, UpdateAccount, Drop
    <3> QED
      BY <2>2, <3>1
  <2> QED
    BY <2>1, <2>2
<1> QED
  BY <1>1, TypeCorrect, PTL DEF Spec, ShutStaysShut

(***************************************************************************)
(* A deleted key leaves the cache, if no request is still about to cache   *)
(* it: what delete_apikey would have to wait for.                          *)
(***************************************************************************)
DeletedInv ==
  /\ DeletedIsUncached
  /\ \A k \in Keys : row[k] = "inactive" => creating[k] = "done"

LEMMA DeletedStep ==
  ASSUME TypeOK, DeletedInv, ReadersAreGone, [Next]_vars
  PROVE  DeletedInv'
<1> USE AuthAssumption DEF request, create, DeletedInv, DeletedIsUncached
<1>1. ASSUME NEW r \in Requests, (\E k \in Keys : Arrive(r, k)) \/ Hit(r) \/ Miss(r)
                                 \/ ReadKey(r) \/ ReadAccount(r)
      PROVE  DeletedInv'
  BY <1>1 DEF Arrive, Hit, Miss, ReadKey, ReadAccount
\* The request read a key that is active, or whose deletion is not over.
<1>2. ASSUME NEW r \in Requests, Fill(r)
      PROVE  DeletedInv'
  BY <1>2 DEF TypeOK, Fill, ReadersAreGone
<1>3. ASSUME NEW k \in Keys, CreateKey(k)
      PROVE  DeletedInv'
  BY <1>3 DEF TypeOK, CreateKey, CheckOwner, InsertKey, CacheKey
<1>4. ASSUME NEW k \in Keys, DeactivateKey(k) \/ UncacheKey(k) \/ Expire(k)
      PROVE  DeletedInv'
  BY <1>4 DEF TypeOK, DeactivateKey, UncacheKey, Expire
<1>5. CASE (\E a \in Accounts : UpdateAccount(a)) \/ UNCHANGED vars
  BY <1>5 DEF UpdateAccount, vars
\* After a fault only the rows and the creations count.
<1>6. CASE \/ \E r \in Requests : StepFails(r)
           \/ \E k \in Keys : CacheKeyFails(k) \/ UncacheKeyFails(k)
           \/ Drop
  <2>1. faults' # 0
    BY <1>6 DEF TypeOK, Fault, StepFails, CacheFails, ReadFails, FillFails, CacheKeyFails,
                UncacheKeyFails, Drop
  <2>2. row' = row /\ \A k \in Keys : creating[k] = "done" => creating'[k] = "done"
    BY <1>6 DEF TypeOK, StepFails, CacheFails, ReadFails, FillFails, CacheKeyFails,
                UncacheKeyFails, Drop
  <2> QED
    BY <2>1, <2>2
<1> QED
  BY <1>1, <1>2, <1>3, <1>4, <1>5, <1>6 DEF Next, Step

(***************************************************************************)
(* As long as no request is past reading a key whose deletion is over, no  *)
(* entry accepts a deleted key.  deleted_key_cached is what one such       *)
(* request does.                                                           *)
(***************************************************************************)
THEOREM DeletedIsUncachedWhenApart == Spec /\ []ReadersAreGone => []DeletedIsUncached
<1>1. Init => DeletedInv
  BY DEF Init, DeletedInv, DeletedIsUncached
<1>2. TypeOK /\ DeletedInv /\ ReadersAreGone /\ [Next]_vars => DeletedInv'
  BY DeletedStep
<1>3. DeletedInv => DeletedIsUncached
  BY DEF DeletedInv
<1> QED
  BY <1>1, <1>2, <1>3, TypeCorrect, PTL DEF Spec
=============================================================================
