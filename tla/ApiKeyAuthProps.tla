--------------------------- MODULE ApiKeyAuthProps ---------------------------
(***************************************************************************)
(* What authentication by API key must guarantee.                          *)
(***************************************************************************)
EXTENDS ApiKeyAuth

(***************************************************************************)
(* The type invariant of the tables, the cache and the handlers.           *)
(***************************************************************************)
TypeOK ==
  /\ row \in [Keys -> {"absent", "active", "inactive"}]
  /\ active \in [Accounts -> BOOLEAN]
  /\ cache \in [Keys -> Info \cup {None}]
  /\ pc \in [Requests -> PCs]
  /\ sent \in [Requests -> Keys \cup {None}]
  /\ \A r \in Requests : pc[r] # "idle" => sent[r] \in Keys
  /\ found \in [Requests -> Info \cup {None}]
  /\ \A r \in Requests : pc[r] = "fill" => found[r] \in Info
  /\ creating \in [Keys -> Creating]
  /\ seen \in [Keys -> BOOLEAN]
  /\ deleting \subseteq Keys
  /\ faults \in 0 .. MaxFaults

Usable(k) == row[k] = "active" /\ active[Owner[k]]

\* Nothing is under way that could let a request with k pass, as long as nobody
\* changes the key or its account.
Shut(k) ==
  /\ ~Usable(k)
  /\ cache[k] = None \/ ~Accepts(cache[k])
  /\ \A r \in Requests : sent[r] = k =>
       pc[r] # "fill" /\ (pc[r] = "account" => ~active[Owner[k]])
  /\ creating[k] \in {"done", "lost"}

(***************************************************************************)
(* A key that was deleted, or whose account is inactive, stays shut: once  *)
(* no entry accepts it and no handler is past reading it, no request       *)
(* passes with it and nothing puts it back, until an administrator changes *)
(* the key or the account.                                                 *)
(***************************************************************************)
ShutStaysShut ==
  [][\A k \in Keys : Shut(k) =>
       /\ Shut(k)' \/ row'[k] # row[k] \/ active'[Owner[k]] # active[Owner[k]]
       /\ \A r \in Requests : sent'[r] = k /\ pc'[r] = "served" => pc[r] = "served"
    ]_vars

\* What the cache says, or is about to be told, about k.
Cached(k) ==
  ({cache[k]} \ {None})
    \cup {found[r] : r \in {q \in Requests : sent[q] = k /\ pc[q] = "fill"}}

(***************************************************************************)
(* Every entry is on its way out: what an administrator decides about a    *)
(* key or its account in the end, that is what all requests get, accepted  *)
(* or refused, however many of them keep coming.                           *)
(***************************************************************************)
CacheConverges ==
  \A k \in Keys :
    /\ <>[]Usable(k) => <>[](\A info \in Cached(k) : Accepts(info))
    /\ <>[]~Usable(k) => <>[](\A info \in Cached(k) : ~Accepts(info))

(***************************************************************************)
(* "Used when an apikey is deactivated so the cache is immediately         *)
(* invalidated" (delete_apikey of the cache): when delete_apikey is over   *)
(* and nothing failed, no entry accepts the key.                           *)
(***************************************************************************)
DeletedIsUncached ==
  \A k \in Keys :
    row[k] = "inactive" /\ k \notin deleting /\ faults = 0 =>
      cache[k] = None \/ ~Accepts(cache[k])
\* No request that has read a key goes on with it after the key is deleted.
ReadersAreGone ==
  \A k \in Keys : row[k] = "inactive" /\ k \notin deleting =>
    \A r \in Requests : sent[r] = k => pc[r] \notin {"account", "fill"}
=============================================================================
