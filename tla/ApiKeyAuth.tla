----------------------------- MODULE ApiKeyAuth -----------------------------
(***************************************************************************)
(* Authentication by API key: requests look their key up in a Redis cache  *)
(* and, if it is not there, in the database, and fill the cache with what  *)
(* they found; administrators create and delete keys and activate and      *)
(* deactivate accounts.  Entries of the cache expire.                      *)
(***************************************************************************)
EXTENDS Integers

CONSTANTS
  Accounts,   \* rows of accounts
  Keys,       \* API keys, created or to be created
  Owner,      \* the account of each key
  Requests,   \* connections, on which requests follow one another
  MaxFaults,  \* bound on failed calls and crashes
  None        \* no entry, or no key

ASSUME AuthAssumption ==
  /\ Owner \in [Keys -> Accounts]
  /\ MaxFaults \in Nat
  /\ None \notin Keys

\* ApiKeyInfo, with is_active and account_is_active.
Info == [key : BOOLEAN, account : BOOLEAN]

ASSUME NoneIsNoInfo == None \notin Info

VARIABLES
  row,       \* api_credentials: "absent", "active" or "inactive"
  active,    \* accounts.is_active
  cache,     \* the entry of each key in Redis
  pc,        \* where the request of each connection is
  sent,      \* the key it sent
  found,     \* what it read from the database
  creating,  \* where create_account_apikey is
  seen,      \* the is_active of the account that it read
  deleting,  \* keys between the two steps of delete_apikey
  faults     \* faults so far

request == <<pc, sent, found>>
create  == <<creating, seen>>
vars    == <<row, active, cache, request, create, deleting, faults>>

PCs      == {"idle", "cache", "key", "account", "fill", "served", "refused"}
Creating == {"no", "account", "row", "done", "lost"}

Init ==
  /\ row = [k \in Keys |-> "absent"]
  /\ active \in [Accounts -> BOOLEAN]
  /\ cache = [k \in Keys |-> None]
  /\ pc = [r \in Requests |-> "idle"]
  /\ sent = [r \in Requests |-> None]
  /\ found = [r \in Requests |-> None]
  /\ creating = [k \in Keys |-> "no"]
  /\ seen = [k \in Keys |-> FALSE]
  /\ deleting = {}
  /\ faults = 0

Fault == faults < MaxFaults /\ faults' = faults + 1

-----------------------------------------------------------------------------
(***************************************************************************)
(* Requests: auth_openai_api and auth_anthropic_api.                       *)
(***************************************************************************)
\* Only the answer to create_account_apikey tells the key.
Arrive(r, k) ==
  /\ pc[r] \in {"idle", "served", "refused"}
  /\ creating[k] = "done"
  /\ pc' = [pc EXCEPT ![r] = "cache"]
  /\ sent' = [sent EXCEPT ![r] = k]
  /\ found' = [found EXCEPT ![r] = None]
  /\ UNCHANGED <<row, active, cache, create, deleting, faults>>

Accepts(info) == info.key /\ info.account

\* Mutant: every hit writes its entry back with a new TTL.
HitRefreshes(r) ==
  LET info == cache[sent[r]] IN
  /\ pc[r] = "cache"
  /\ info # None
  /\ IF Accepts(info)
       THEN /\ pc' = [pc EXCEPT ![r] = "fill"]
            /\ found' = [found EXCEPT ![r] = info]
       ELSE pc' = [pc EXCEPT ![r] = "refused"] /\ UNCHANGED found
  /\ UNCHANGED <<row, active, cache, sent, create, deleting, faults>>

Hit(r) ==
  LET info == cache[sent[r]] IN
  /\ pc[r] = "cache"
  /\ info # None
  /\ pc' = [pc EXCEPT ![r] = IF Accepts(info) THEN "served" ELSE "refused"]
  /\ UNCHANGED <<row, active, cache, sent, found, create, deleting, faults>>

Miss(r) ==
  /\ pc[r] = "cache"
  /\ cache[sent[r]] = None
  /\ pc' = [pc EXCEPT ![r] = "key"]
  /\ UNCHANGED <<row, active, cache, sent, found, create, deleting, faults>>

\* An error of the cache counts as a miss.
CacheFails(r) ==
  /\ pc[r] = "cache"
  /\ Fault
  /\ pc' = [pc EXCEPT ![r] = "key"]
  /\ UNCHANGED <<row, active, cache, sent, found, create, deleting>>

\* Mutant: the account of the key is not looked up.
SkipAccount(r) ==
  /\ pc[r] = "key"
  /\ pc' = [pc EXCEPT ![r] = IF row[sent[r]] = "active" THEN "fill" ELSE "refused"]
  /\ UNCHANGED <<row, active, cache, sent, found, create, deleting, faults>>

\* Mutant: deleted keys are found as well.
ReadAnyKey(r) ==
  /\ pc[r] = "key"
  /\ pc' = [pc EXCEPT ![r] = "account"]
  /\ UNCHANGED <<row, active, cache, sent, found, create, deleting, faults>>

ReadKey(r) ==
  /\ pc[r] = "key"
  /\ pc' = [pc EXCEPT ![r] =
              IF row[sent[r]] = "active" THEN "account" ELSE "refused"]
  /\ UNCHANGED <<row, active, cache, sent, found, create, deleting, faults>>

ReadAccount(r) ==
  /\ pc[r] = "account"
  /\ \/ /\ active[Owner[sent[r]]]
        /\ pc' = [pc EXCEPT ![r] = "fill"]
        /\ found' = [found EXCEPT ![r] = [key |-> TRUE, account |-> TRUE]]
     \/ /\ ~active[Owner[sent[r]]]
        /\ pc' = [pc EXCEPT ![r] = "refused"]
        /\ UNCHANGED found
  /\ UNCHANGED <<row, active, cache, sent, create, deleting, faults>>

ReadFails(r) ==
  /\ pc[r] \in {"key", "account"}
  /\ Fault
  /\ pc' = [pc EXCEPT ![r] = "refused"]
  /\ UNCHANGED <<row, active, cache, sent, found, create, deleting>>

Fill(r) ==
  /\ pc[r] = "fill"
  /\ pc' = [pc EXCEPT ![r] = "served"]
  /\ cache' = [cache EXCEPT ![sent[r]] = found[r]]
  /\ UNCHANGED <<row, active, sent, found, create, deleting, faults>>

FillFails(r) ==
  /\ pc[r] = "fill"
  /\ Fault
  /\ pc' = [pc EXCEPT ![r] = "served"]
  /\ UNCHANGED <<row, active, cache, sent, found, create, deleting>>

-----------------------------------------------------------------------------
(***************************************************************************)
(* Administration: create_account_apikey reads the account, inserts the    *)
(* key and caches it; delete_apikey deactivates the key and deletes its    *)
(* entry.                                                                  *)
(***************************************************************************)
CheckOwner(k) ==
  /\ creating[k] = "no"
  /\ creating' = [creating EXCEPT ![k] = "account"]
  /\ seen' = [seen EXCEPT ![k] = active[Owner[k]]]
  /\ UNCHANGED <<row, active, cache, request, deleting, faults>>

InsertKey(k) ==
  /\ creating[k] = "account"
  /\ creating' = [creating EXCEPT ![k] = "row"]
  /\ row' = [row EXCEPT ![k] = "active"]
  /\ UNCHANGED <<active, cache, request, seen, deleting, faults>>

CacheKey(k) ==
  /\ creating[k] = "row"
  /\ creating' = [creating EXCEPT ![k] = "done"]
  /\ cache' = [cache EXCEPT ![k] = [key |-> TRUE, account |-> seen[k]]]
  /\ UNCHANGED <<row, active, request, seen, deleting, faults>>

CacheKeyFails(k) ==
  /\ creating[k] = "row"
  /\ Fault
  /\ creating' = [creating EXCEPT ![k] = "done"]
  /\ UNCHANGED <<row, active, cache, request, seen, deleting>>

DeactivateKey(k) ==
  /\ creating[k] = "done"
  /\ k \notin deleting
  /\ row' = [row EXCEPT ![k] = "inactive"]
  /\ deleting' = deleting \cup {k}
  /\ UNCHANGED <<active, cache, request, create, faults>>

UncacheKey(k) ==
  /\ k \in deleting
  /\ deleting' = deleting \ {k}
  /\ cache' = [cache EXCEPT ![k] = None]
  /\ UNCHANGED <<row, active, request, create, faults>>

\* delete_apikey answers with success all the same.
UncacheKeyFails(k) ==
  /\ k \in deleting
  /\ Fault
  /\ deleting' = deleting \ {k}
  /\ UNCHANGED <<row, active, cache, request, create>>

\* update_account_by_id deletes the account's own entry, which nothing reads:
\* that of its keys holds another copy of is_active.
UpdateAccount(a) ==
  /\ active' = [active EXCEPT ![a] = ~@]
  /\ UNCHANGED <<row, cache, request, create, deleting, faults>>

-----------------------------------------------------------------------------
\* Entries live for 900 seconds.
Expire(k) ==
  /\ cache[k] # None
  /\ cache' = [cache EXCEPT ![k] = None]
  /\ UNCHANGED <<row, active, request, create, deleting, faults>>

\* Handlers are dropped: those of a server that dies, or of a client that
\* disconnects.  Nobody was told of a key whose creation does not end.
Drop ==
  /\ Fault
  /\ \E R \in SUBSET Requests, K \in SUBSET Keys :
       /\ pc' = [r \in Requests |-> IF r \in R THEN "idle" ELSE pc[r]]
       /\ creating' = [k \in Keys |->
                         IF k \in K /\ creating[k] \in {"account", "row"}
                           THEN "lost" ELSE creating[k]]
       /\ deleting' = deleting \ K
  /\ UNCHANGED <<row, active, cache, sent, found, seen>>

Step(r) ==
  \/ Hit(r)
  \/ Miss(r)
  \/ ReadKey(r)
  \/ ReadAccount(r)
  \/ Fill(r)

StepFails(r) == CacheFails(r) \/ ReadFails(r) \/ FillFails(r)

CreateKey(k) == CheckOwner(k) \/ InsertKey(k) \/ CacheKey(k)

Next ==
  \/ \E r \in Requests : (\E k \in Keys : Arrive(r, k)) \/ Step(r) \/ StepFails(r)
  \/ \E k \in Keys : CreateKey(k) \/ CacheKeyFails(k)
  \/ \E k \in Keys : DeactivateKey(k) \/ UncacheKey(k) \/ UncacheKeyFails(k)
  \/ \E k \in Keys : Expire(k)
  \/ \E a \in Accounts : UpdateAccount(a)
  \/ Drop

Spec == Init /\ [][Next]_vars

\* Handlers that began go on, and Redis drops entries past their TTL.
Fairness ==
  /\ \A r \in Requests : WF_vars(Step(r))
  /\ \A k \in Keys :
       /\ WF_vars(InsertKey(k) \/ CacheKey(k))
       /\ WF_vars(UncacheKey(k))
       /\ WF_vars(Expire(k))

FairSpec == Spec /\ Fairness
=============================================================================
