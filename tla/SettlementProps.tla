--------------------------- MODULE SettlementProps ---------------------------
(***************************************************************************)
(* What the settlement of balance changes must guarantee.                  *)
(***************************************************************************)
EXTENDS Settlement

(***************************************************************************)
(* The type invariant of the tables, the broker and the workers' sessions. *)
(***************************************************************************)
TypeOK ==
  /\ req \in [Changes -> [account : Accounts, content : Contents]]
  /\ stage \in [Changes -> Stages]
  /\ is_applied \in [Changes -> BOOLEAN]
  /\ subscription_id \in [Changes -> Subs \cup {None}]
  /\ wallets \subseteq Accounts
  /\ balance \in [Accounts -> Int]
  /\ subs \in [Subs -> Subscription]
  /\ queue \subseteq Changes
  /\ inflight \subseteq Changes
  /\ cache \in [Accounts -> Int \cup {None}]
  /\ pc \in [Workers -> PCs]
  /\ task \in [Workers -> Changes \cup {None}]
  /\ \A w \in Workers : pc[w] # "idle" => task[w] \in Changes
  /\ seen \in [Workers -> Int]
  /\ created \in [Workers -> BOOLEAN]
  /\ chosen \in [Workers -> Subs \cup {None}]
  /\ seenTokens \in [Workers -> Nat]
  /\ seenMoney \in [Workers -> Nat]
  /\ faults \in 0 .. MaxFaults

\* Its push reached Redis, whatever the submitter was told.
IsPushed(c) == stage[c] \in {"enqueued", "unanswered"}

(***************************************************************************)
(* No task names a balance change that is not committed: the task is       *)
(* pushed after the insert.  A handler never meets "Balance change record  *)
(* not found", which would lose the change.  And a change whose push did   *)
(* not happen is never applied, though its row stays; the answer 500       *)
(* "record created but failed to enqueue" does not tell the client whether *)
(* it happened.                                                            *)
(***************************************************************************)
TasksNameRows ==
  /\ \A c \in queue \cup inflight : IsPushed(c)
  /\ \A w \in Workers : pc[w] # "idle" => IsPushed(task[w])
  /\ \A c \in Changes : is_applied[c] => IsPushed(c)

(***************************************************************************)
(* A change in the middle of its transaction is still unapplied, and no    *)
(* two invocations are in the middle of the same one, however often its    *)
(* task was delivered.                                                     *)
(***************************************************************************)
OneSettlerPerChange ==
  /\ \A w \in Workers : pc[w] \in InTx => ~is_applied[task[w]]
  /\ \A v, w \in Workers :
       pc[v] \in InTx /\ pc[w] \in InTx /\ task[v] = task[w] => v = w

(***************************************************************************)
(* The usage a subscription records never exceeds its quota, though the    *)
(* row is read without a lock and written back later.                      *)
(***************************************************************************)
RecordedUseWithinLimit == \A s \in Subs : subs[s].tokens <= subs[s].limit

(***************************************************************************)
(* A balance differs from zero only in an existing wallet, and a change is *)
(* applied only to an account that has one.                                *)
(***************************************************************************)
AppliedToWallet ==
  /\ \A a \in Accounts : balance[a] # 0 => a \in wallets
  /\ \A c \in Changes : is_applied[c] => Account(c) \in wallets

(***************************************************************************)
(* What a transaction has read and may still rely on: the subscription it  *)
(* chose belongs to the account, was provisioned, and has room for the     *)
(* usage it is about to write; the wallet it will update exists, or it has *)
(* inserted it itself.  This makes the invariants above inductive.         *)
(***************************************************************************)
AfterSubscription == {"update_subscription", "update_wallet", "commit"}

SessionSound ==
  /\ \A s \in Subs :
       /\ subs[s].status = "absent" => subs[s].window = "none"
       /\ subs[s].window = "none" => subs[s].limit = 0 /\ subs[s].tokens = 0
  /\ \A w \in Workers : chosen[w] # None => pc[w] \in AfterSubscription \cup {"set_cache"}
  /\ \A w \in Workers : pc[w] \in AfterSubscription /\ chosen[w] # None =>
       /\ Kind(task[w]) = "SpendToken"
       /\ subs[chosen[w]].account = Wallet(w)
       /\ subs[chosen[w]].window # "none"
       /\ seenTokens[w] + Tokens(task[w]) <= subs[chosen[w]].limit
  /\ \A w \in Workers : pc[w] \in AfterSubscription \cup {"select_subscription"} =>
       created[w] \/ Wallet(w) \in wallets
  /\ \A w \in Workers : pc[w] = "select_subscription" => Kind(task[w]) = "SpendToken"

(***************************************************************************)
(* What a transaction has read and holds no lock on is still what is       *)
(* committed when it writes, as long as no other transaction of the same   *)
(* account is between its own read and its commit; with one worker none    *)
(* is.  Nothing is recorded of an unapplied change, nor of a subscription  *)
(* that was not created.                                                   *)
(***************************************************************************)
ReadIsCurrent(w) ==
  /\ pc[w] \in {"idle", "select_change", "select_wallet", "insert_wallet"} =>
       seen[w] = 0
  /\ pc[w] \in AfterSubscription \cup {"select_subscription"} =>
       seen[w] = balance[Wallet(w)]
  /\ pc[w] \in AfterSubscription /\ chosen[w] # None =>
       /\ seenTokens[w] = subs[chosen[w]].tokens
       /\ seenMoney[w] = subs[chosen[w]].money

ReadsAreCurrent ==
  /\ \A w \in Workers : ReadIsCurrent(w)
  /\ \A c \in Changes : ~is_applied[c] => subscription_id[c] = None
  /\ \A s \in Subs : subs[s].status = "absent" => subs[s].account = None

\* The change c becomes applied in this step.
Settles(c) == ~is_applied[c] /\ is_applied'[c]

(***************************************************************************)
(* Settling is atomic and once: an applied change stays applied, with the  *)
(* subscription that paid for it; a balance or a subscription's usage      *)
(* moves only in the step that applies a change of that account; and that  *)
(* step takes the price from exactly one of the two.                       *)
(***************************************************************************)
SettleStep ==
  /\ \A c \in Changes : is_applied[c] =>
       is_applied'[c] /\ subscription_id'[c] = subscription_id[c]
  /\ \A a \in Accounts : balance'[a] # balance[a] =>
       \E c \in Changes : /\ Settles(c)
                          /\ Account(c) = a
                          /\ subscription_id'[c] = None
                          /\ \A s \in Subs : subs'[s] = subs[s]
  /\ \A s \in Subs :
       subs'[s].tokens # subs[s].tokens \/ subs'[s].money # subs[s].money =>
         \E c \in Changes : /\ Settles(c)
                            /\ Kind(c) = "SpendToken"
                            /\ Account(c) = subs[s].account
                            /\ subscription_id'[c] = s
                            /\ balance' = balance

SettlesOnce == [][SettleStep]_vars

\* The transaction of v holds the row that the next statement of w needs.
HoldsUp(v, w) ==
  /\ v # w
  /\ \/ pc[w] = "select_change" /\ LocksChange(v, task[w])
     \/ pc[w] = "insert_wallet" /\ created[v] /\ pc[v] \in InTx /\ Wallet(v) = Wallet(w)
     \/ pc[w] = "update_subscription" /\ LocksSub(v, chosen[w])
     \/ /\ pc[w] = "update_wallet" /\ ~created[w] /\ NewBalance(w) # seen[w]
        /\ LocksWallet(v, Wallet(w))

(***************************************************************************)
(* Row locks never leave transactions waiting for one another: a           *)
(* settlement locks its balance change, its account's wallet insert, its   *)
(* subscription and its wallet row in this order, so of any number of      *)
(* invocations one is held up by none of them.                             *)
(***************************************************************************)
NoLockCycle ==
  \A W \in (SUBSET Workers) \ {{}} : \E w \in W : \A v \in W : ~HoldsUp(v, w)

(***************************************************************************)
(* As long as nothing fails, a task that reached the queue is applied.     *)
(***************************************************************************)
EnqueuedIsApplied ==
  \A c \in Changes : stage[c] = "enqueued" ~> is_applied[c] \/ faults > 0

\* An invocation has fetched c and has not returned.
Handled(c) == \E w \in Workers : pc[w] # "idle" /\ task[w] = c

(***************************************************************************)
(* No task gets lost as long as nothing fails: a change that was queued is *)
(* waiting, in the hands of an invocation, or applied.  The handler        *)
(* returns () on every path, so a task that ends unapplied is gone.  Two   *)
(* workers that create one wallet can lose one: wallet_creation_race.      *)
(***************************************************************************)
NothingIsDropped ==
  faults = 0 => \A c \in Changes :
    stage[c] = "enqueued" => c \in queue \/ Handled(c) \/ is_applied[c]

(***************************************************************************)
(* "Update the wallet cache with the latest balance": when no invocation   *)
(* is about to write the cache and nothing has failed, an entry that has   *)
(* not expired holds the committed balance.                                *)
(***************************************************************************)
CacheIsLatest ==
  faults = 0 => \A a \in Accounts :
    \/ cache[a] \in {None, balance[a]}
    \/ \E w \in Workers : pc[w] = "set_cache" /\ Wallet(w) = a

(***************************************************************************)
(* Settlement implements the ledger, as long as one worker runs: every     *)
(* commit posts one change in full, to one source, and nothing else moves  *)
(* money.                                                                  *)
(***************************************************************************)
L == INSTANCE Ledger WITH
       posted <- {c \in Changes : is_applied[c]},
       source <- subscription_id,
       quota  <- [s \in Subs |-> [account |-> subs[s].account,
                                  limit |-> subs[s].limit,
                                  tokens |-> subs[s].tokens,
                                  money |-> subs[s].money]]

ImplementsLedger == L!Spec
=============================================================================
