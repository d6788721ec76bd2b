----------------------------- MODULE Settlement -----------------------------
(***************************************************************************)
(* The settlement of balance changes: the tables balance_changes, wallets  *)
(* and subscriptions, the Redis queue of BalanceChangeTask, the wallet     *)
(* cache, and the concurrent handlers `settle_balance_change` of the       *)
(* balance-change-worker.                                                  *)
(*                                                                         *)
(* Every SQL statement of a transaction is a step of its own.  PostgreSQL  *)
(* runs at READ COMMITTED: a SELECT reads what is committed when it runs,  *)
(* an UPDATE or a FOR UPDATE waits for the transaction that holds the row, *)
(* and an INSERT waits for an uncommitted insert of the same key.  What a  *)
(* transaction writes is kept in its worker's variables and published by   *)
(* Commit; a rollback forgets it.                                          *)
(***************************************************************************)
EXTENDS Integers

CONSTANTS
  Accounts,   \* account ids
  Changes,    \* unique_request_ids, each with the row and the task it may give
  Subs,       \* subscription ids
  Workers,    \* concurrent invocations of settle_balance_change
  Contents,   \* the BalanceChangeContent values requests carry
  Limits,     \* the token quotas an operator may give a subscription
  MaxFaults,  \* bound on crashes, errors and lost replies
  None        \* no task, no subscription, no cache entry

Kinds == {"SpendToken", "Deposit", "AddCredit", "Withdraw"}

\* `amount` stands for input_spend_amount + output_spend_amount of a
\* SpendToken, `tokens` for its input_tokens + output_tokens.
Content == [kind : Kinds, amount : Nat, tokens : Nat]

\* The admin handlers refuse an amount that is not positive.
ASSUME SettlementAssumption ==
  /\ Contents \subseteq Content
  /\ \A x \in Contents : x.kind # "SpendToken" => x.amount > 0
  /\ Limits \subseteq Nat
  /\ MaxFaults \in Nat
  /\ None \notin Changes \cup Subs \cup Accounts \cup Int

VARIABLES
  req,              \* [account, content] of the request with each unique_request_id
  stage,            \* how far its submitter got
  is_applied,       \* balance_changes.is_applied
  subscription_id,  \* balance_changes.subscription_id
  wallets,          \* accounts with a row in wallets
  balance,          \* wallets.balance, 0 where there is no row
  subs,             \* the rows of subscriptions
  queue,            \* tasks waiting in Redis
  inflight,         \* tasks fetched and not acknowledged
  cache,            \* wallet:info:<account>
  pc,               \* the next statement of each worker
  task,             \* its balance_change_id
  seen,             \* the balance its SELECT returned
  created,          \* whether it inserted the wallet row it uses
  chosen,           \* the subscription its SELECT returned
  seenTokens,       \* that row's used_total_tokens
  seenMoney,        \* that row's used_money
  faults            \* faults so far

tables  == <<is_applied, subscription_id, wallets, balance, subs>>
session == <<seen, created, chosen, seenTokens, seenMoney>>
submit  == <<req, stage>>
broker  == <<queue, inflight>>
vars    == <<submit, tables, broker, cache, pc, task, session, faults>>

\* "unanswered": the task is queued, but the submitter was told that it is not.
Stages == {"new", "checked", "inserted", "enqueued", "unanswered", "unqueued"}

\* Between the FOR UPDATE of the balance change and the end of the transaction.
InTx == {"select_wallet", "insert_wallet", "select_subscription",
         "update_subscription", "update_wallet", "commit"}

PCs == InTx \cup {"idle", "select_change", "set_cache"}

Statuses == {"absent", "pending", "active", "deactive"}
Windows  == {"none", "open", "closed"}

\* A row of subscriptions; `window` stands for start_at and end_at against NOW().
Subscription == [account : Accounts \cup {None}, status : Statuses,
                 window : Windows, limit : Nat, tokens : Nat, money : Nat]

Account(c)  == req[c].account
Kind(c)     == req[c].content.kind
Amount(c)   == req[c].content.amount
Tokens(c)   == req[c].content.tokens
Wallet(w)   == Account(task[w])

-----------------------------------------------------------------------------
(***************************************************************************)
(* Initial states: no balance change yet; any account may already own an   *)
(* empty wallet.  `req` lists the requests that may come.                  *)
(***************************************************************************)
Init ==
  /\ req \in [Changes -> [account : Accounts, content : Contents]]
  /\ stage = [c \in Changes |-> "new"]
  /\ is_applied = [c \in Changes |-> FALSE]
  /\ subscription_id = [c \in Changes |-> None]
  /\ wallets \in SUBSET Accounts
  /\ balance = [a \in Accounts |-> 0]
  /\ subs = [s \in Subs |-> [account |-> None, status |-> "absent",
                             window |-> "none", limit |-> 0,
                             tokens |-> 0, money |-> 0]]
  /\ queue = {}
  /\ inflight = {}
  /\ cache = [a \in Accounts |-> None]
  /\ pc = [w \in Workers |-> "idle"]
  /\ task = [w \in Workers |-> None]
  /\ seen = [w \in Workers |-> 0]
  /\ created = [w \in Workers |-> FALSE]
  /\ chosen = [w \in Workers |-> None]
  /\ seenTokens = [w \in Workers |-> 0]
  /\ seenMoney = [w \in Workers |-> 0]
  /\ faults = 0

-----------------------------------------------------------------------------
(***************************************************************************)
(* Submitters.  create_deposit, create_credit and the event handlers       *)
(* insert the row and then push the task; create_withdraw reads the wallet *)
(* first.  The unique index on unique_request_id makes the insert of a     *)
(* repeated request fail, so a request leaves "new" once.                  *)
(***************************************************************************)
InsertChange(c) ==
  /\ stage[c] = "new"
  /\ Kind(c) # "Withdraw"
  /\ stage' = [stage EXCEPT ![c] = "inserted"]
  /\ UNCHANGED <<req, tables, broker, cache, pc, task, session, faults>>

CheckWithdraw(c) ==
  /\ stage[c] = "new"
  /\ Kind(c) = "Withdraw"
  /\ Account(c) \in wallets
  /\ balance[Account(c)] >= Amount(c)
  /\ stage' = [stage EXCEPT ![c] = "checked"]
  /\ UNCHANGED <<req, tables, broker, cache, pc, task, session, faults>>

InsertWithdraw(c) ==
  /\ stage[c] = "checked"
  /\ stage' = [stage EXCEPT ![c] = "inserted"]
  /\ UNCHANGED <<req, tables, broker, cache, pc, task, session, faults>>

\* Mutant: the task is pushed before the row is inserted.
EnqueueBeforeInsert(c) ==
  /\ stage[c] = "new"
  /\ queue' = queue \cup {c}
  /\ UNCHANGED <<submit, tables, inflight, cache, pc, task, session, faults>>

Enqueue(c) ==
  /\ stage[c] = "inserted"
  /\ stage' = [stage EXCEPT ![c] = "enqueued"]
  /\ queue' = queue \cup {c}
  /\ UNCHANGED <<req, tables, inflight, cache, pc, task, session, faults>>

\* The push reaches Redis and its reply is lost: an administrator is answered 500,
\* as when it fails, and the change is settled all the same.  The event handlers
\* answer nobody, so with them this is Enqueue.
LostPushReply(c) ==
  /\ faults < MaxFaults
  /\ Kind(c) # "SpendToken"
  /\ stage[c] = "inserted"
  /\ stage' = [stage EXCEPT ![c] = "unanswered"]
  /\ queue' = queue \cup {c}
  /\ faults' = faults + 1
  /\ UNCHANGED <<req, tables, inflight, cache, pc, task, session>>

\* The push fails, or the submitter dies before it: the row stays without a
\* task, and a retry with the same unique_request_id is refused.
EnqueueFails(c) ==
  /\ faults < MaxFaults
  /\ stage[c] = "inserted"
  /\ stage' = [stage EXCEPT ![c] = "unqueued"]
  /\ faults' = faults + 1
  /\ UNCHANGED <<req, tables, broker, cache, pc, task, session>>

-----------------------------------------------------------------------------
(***************************************************************************)
(* Row locks, read off the program counters.                               *)
(***************************************************************************)
LocksChange(w, c) == pc[w] \in InTx /\ task[w] = c

\* Mutant: the balance change is selected without FOR UPDATE.
NoRowLock(w) == TRUE

\* balance_changes ... FOR UPDATE can be granted to w.
ChangeFree(w) == \A v \in Workers \ {w} : ~LocksChange(v, task[w])

\* No other transaction has inserted w's wallet without having committed.
InsertFree(w) ==
  \A v \in Workers \ {w} : ~(created[v] /\ pc[v] \in InTx /\ Wallet(v) = Wallet(w))

\* Mutant: the subscription is selected FOR SHARE, which two may hold and neither
\* can then update.
LocksSubShared(w, s) ==
  pc[w] \in {"update_subscription", "update_wallet", "commit"} /\ chosen[w] = s

LocksSub(w, s) == pc[w] \in {"update_wallet", "commit"} /\ chosen[w] = s

SubFree(w) == \A v \in Workers \ {w} : ~LocksSub(v, chosen[w])

\* A statement outside the workers can update s.
SubIdle(s) == \A w \in Workers : ~LocksSub(w, s)

-----------------------------------------------------------------------------
(***************************************************************************)
(* Subscription rows.  create_subscription writes account and plan only;   *)
(* nothing in the program writes start_at, end_at or total_token_limit, so *)
(* ProvisionSubscription is an operator's SQL.  CloseSubscription is time  *)
(* passing end_at.                                                         *)
(***************************************************************************)
CreateSubscription(s, a) ==
  /\ subs[s].status = "absent"
  /\ subs' = [subs EXCEPT ![s].account = a, ![s].status = "pending"]
  /\ UNCHANGED <<submit, is_applied, subscription_id, wallets, balance, broker,
                 cache, pc, task, session, faults>>

\* Mutant: activating a subscription starts its usage afresh.
UpdateResettingUsage(s, status) ==
  /\ subs[s].status # "absent"
  /\ SubIdle(s)
  /\ subs' = [subs EXCEPT ![s].status = status, ![s].tokens = 0, ![s].money = 0]
  /\ UNCHANGED <<submit, is_applied, subscription_id, wallets, balance, broker,
                 cache, pc, task, session, faults>>

UpdateSubscription(s, status) ==
  /\ subs[s].status # "absent"
  /\ SubIdle(s)
  /\ subs' = [subs EXCEPT ![s].status = status]
  /\ UNCHANGED <<submit, is_applied, subscription_id, wallets, balance, broker,
                 cache, pc, task, session, faults>>

\* Mutant: the status the handler's comment names, which the schema does not know.
CancelAsCommented(s) == UpdateSubscription(s, "canceled")

CancelSubscription(s) == UpdateSubscription(s, "deactive")

ProvisionSubscription(s, limit) ==
  /\ subs[s].status # "absent"
  /\ SubIdle(s)
  /\ subs[s].window = "none"
  /\ subs' = [subs EXCEPT ![s].window = "open", ![s].limit = limit]
  /\ UNCHANGED <<submit, is_applied, subscription_id, wallets, balance, broker,
                 cache, pc, task, session, faults>>

CloseSubscription(s) ==
  /\ subs[s].window = "open"
  /\ subs' = [subs EXCEPT ![s].window = "closed"]
  /\ UNCHANGED <<submit, is_applied, subscription_id, wallets, balance, broker,
                 cache, pc, task, session, faults>>

-----------------------------------------------------------------------------
(***************************************************************************)
(* What a balance change does to the row of its account.                   *)
(***************************************************************************)
\* Mutant: a withdrawal has the sign of a deposit.
DeltaWithdrawAdds(c) ==
  IF Kind(c) # "SpendToken" THEN Amount(c) ELSE 0 - Amount(c)

\* The signed amount of a balance change.
Delta(c) ==
  IF Kind(c) \in {"Deposit", "AddCredit"} THEN Amount(c) ELSE 0 - Amount(c)

\* Mutant: the wallet is charged although a subscription paid.
ChargeBoth(w) == seen[w] + Delta(task[w])

\* new_balance of apply_balance_change_with_tx, from the balance it read; only
\* a SpendToken can have a subscription.
NewBalance(w) ==
  IF chosen[w] # None THEN seen[w] ELSE seen[w] + Delta(task[w])

\* w has updated a wallet row that others can see.
LocksWallet(w, a) ==
  pc[w] = "commit" /\ Wallet(w) = a /\ ~created[w] /\ NewBalance(w) # seen[w]

WalletFree(w) ==
  \/ created[w]
  \/ NewBalance(w) = seen[w]
  \/ \A v \in Workers \ {w} : ~LocksWallet(v, Wallet(w))

\* Mutant: the quota is compared before the consumed tokens are added.
CurrentBeforeUse(c) ==
  {s \in Subs : /\ subs[s].account = Account(c)
                /\ subs[s].status = "active"
                /\ subs[s].window = "open"
                /\ subs[s].limit >= subs[s].tokens}

\* The rows get_current_subscription_with_tx can return.
Current(c) ==
  {s \in Subs : /\ subs[s].account = Account(c)
                /\ subs[s].status = "active"
                /\ subs[s].window = "open"
                /\ subs[s].limit >= subs[s].tokens + Tokens(c)}

-----------------------------------------------------------------------------
(***************************************************************************)
(* settle_balance_change.                                                  *)
(***************************************************************************)
Fetch(w, c) ==
  /\ pc[w] = "idle"
  /\ c \in queue
  /\ queue' = queue \ {c}
  /\ inflight' = inflight \cup {c}
  /\ pc' = [pc EXCEPT ![w] = "select_change"]
  /\ task' = [task EXCEPT ![w] = c]
  /\ UNCHANGED <<submit, tables, cache, session, faults>>

\* The transaction is over and its variables are dropped.
EndSession(w) ==
  /\ pc' = [pc EXCEPT ![w] = "idle"]
  /\ task' = [task EXCEPT ![w] = None]
  /\ seen' = [seen EXCEPT ![w] = 0]
  /\ created' = [created EXCEPT ![w] = FALSE]
  /\ chosen' = [chosen EXCEPT ![w] = None]
  /\ seenTokens' = [seenTokens EXCEPT ![w] = 0]
  /\ seenMoney' = [seenMoney EXCEPT ![w] = 0]

\* The handler returns (): whatever happened, the task counts as done.
Return(w) ==
  /\ EndSession(w)
  /\ inflight' = inflight \ {task[w]}
  /\ queue' = queue

\* Mutant: is_applied is not looked at.
NoAppliedCheck(c) == TRUE

\* The row is locked and found unapplied.
MaySettle(c) == ~is_applied[c]

LockChange(w) ==
  /\ pc[w] = "select_change"
  /\ ChangeFree(w)
  /\ MaySettle(task[w])
  /\ pc' = [pc EXCEPT ![w] = "select_wallet"]
  /\ UNCHANGED <<submit, tables, broker, cache, task, session, faults>>

SkipApplied(w) ==
  /\ pc[w] = "select_change"
  /\ ChangeFree(w)
  /\ ~MaySettle(task[w])
  /\ Return(w)
  /\ UNCHANGED <<submit, tables, cache, faults>>

AfterWallet(w) ==
  IF Kind(task[w]) = "SpendToken" THEN "select_subscription" ELSE "update_wallet"

SelectWallet(w) ==
  /\ pc[w] = "select_wallet"
  /\ IF Wallet(w) \in wallets
       THEN /\ seen' = [seen EXCEPT ![w] = balance[Wallet(w)]]
            /\ pc' = [pc EXCEPT ![w] = AfterWallet(w)]
       ELSE /\ seen' = seen
            /\ pc' = [pc EXCEPT ![w] = "insert_wallet"]
  /\ UNCHANGED <<submit, tables, broker, cache, task, created, chosen,
                 seenTokens, seenMoney, faults>>

\* Mutant: a missing wallet is an error.
MissingWalletIsError(w) ==
  /\ pc[w] = "insert_wallet"
  /\ Wallet(w) \notin wallets
  /\ Return(w)
  /\ UNCHANGED <<submit, tables, cache, faults>>

InsertWallet(w) ==
  /\ pc[w] = "insert_wallet"
  /\ InsertFree(w)
  /\ Wallet(w) \notin wallets
  /\ created' = [created EXCEPT ![w] = TRUE]
  /\ pc' = [pc EXCEPT ![w] = AfterWallet(w)]
  /\ UNCHANGED <<submit, tables, broker, cache, task, seen, chosen, seenTokens,
                 seenMoney, faults>>

\* Another transaction committed the row since SelectWallet: the unique index on
\* account_id refuses the insert, and the handler rolls back and returns.
InsertConflict(w) ==
  /\ pc[w] = "insert_wallet"
  /\ InsertFree(w)
  /\ Wallet(w) \in wallets
  /\ Return(w)
  /\ UNCHANGED <<submit, tables, cache, faults>>

SelectSubscription(w) ==
  /\ pc[w] = "select_subscription"
  /\ \/ \E s \in Current(task[w]) :
          /\ chosen' = [chosen EXCEPT ![w] = s]
          /\ seenTokens' = [seenTokens EXCEPT ![w] = subs[s].tokens]
          /\ seenMoney' = [seenMoney EXCEPT ![w] = subs[s].money]
          /\ pc' = [pc EXCEPT ![w] = "update_subscription"]
     \/ /\ Current(task[w]) = {}
        /\ pc' = [pc EXCEPT ![w] = "update_wallet"]
        /\ UNCHANGED <<chosen, seenTokens, seenMoney>>
  /\ UNCHANGED <<submit, tables, broker, cache, task, seen, created, faults>>

UpdateSubscriptionUsage(w) ==
  /\ pc[w] = "update_subscription"
  /\ SubFree(w)
  /\ pc' = [pc EXCEPT ![w] = "update_wallet"]
  /\ UNCHANGED <<submit, tables, broker, cache, task, session, faults>>

\* The UPDATE of wallets, when the balance changes, and the UPDATE that marks
\* the balance change, whose row this transaction already holds.
UpdateWallet(w) ==
  /\ pc[w] = "update_wallet"
  /\ WalletFree(w)
  /\ pc' = [pc EXCEPT ![w] = "commit"]
  /\ UNCHANGED <<submit, tables, broker, cache, task, session, faults>>

\* What COMMIT makes visible.
Publish(w) ==
  LET c == task[w] IN
  /\ is_applied' = [is_applied EXCEPT ![c] = TRUE]
  /\ subscription_id' = [subscription_id EXCEPT ![c] = chosen[w]]
  /\ wallets' = IF created[w] THEN wallets \cup {Wallet(w)} ELSE wallets
  /\ balance' = IF NewBalance(w) # seen[w]
                  THEN [balance EXCEPT ![Wallet(w)] = NewBalance(w)]
                  ELSE balance
  /\ subs' = IF chosen[w] # None
               THEN [subs EXCEPT ![chosen[w]].tokens = seenTokens[w] + Tokens(c),
                                 ![chosen[w]].money = seenMoney[w] + Amount(c)]
               ELSE subs

Commit(w) ==
  /\ pc[w] = "commit"
  /\ Publish(w)
  /\ pc' = [pc EXCEPT ![w] = "set_cache"]
  /\ UNCHANGED <<submit, broker, cache, task, session, faults>>

\* Mutant: the wallet that was read is cached, not the one written.
CacheOldWallet(w) ==
  /\ pc[w] = "set_cache"
  /\ cache' = [cache EXCEPT ![Wallet(w)] = seen[w]]
  /\ Return(w)
  /\ UNCHANGED <<submit, tables, faults>>

SetCache(w) ==
  /\ pc[w] = "set_cache"
  /\ cache' = [cache EXCEPT ![Wallet(w)] = NewBalance(w)]
  /\ Return(w)
  /\ UNCHANGED <<submit, tables, faults>>

-----------------------------------------------------------------------------
(***************************************************************************)
(* Faults.  A statement, the cache write or the pool fails and the handler *)
(* returns; the worker dies in the middle; COMMIT succeeds and its reply   *)
(* is lost.                                                                *)
(***************************************************************************)
Fault == faults < MaxFaults /\ faults' = faults + 1

StatementFails(w) ==
  /\ pc[w] # "idle"
  /\ Fault
  /\ Return(w)
  /\ UNCHANGED <<submit, tables, cache>>

LostCommitReply(w) ==
  /\ pc[w] = "commit"
  /\ Fault
  /\ Publish(w)
  /\ Return(w)
  /\ UNCHANGED <<submit, cache>>

Crash(w) ==
  /\ pc[w] # "idle"
  /\ Fault
  /\ EndSession(w)
  /\ UNCHANGED <<submit, tables, broker, cache>>

\* The broker hands an unacknowledged task out again, whether its worker died
\* or is only slow.
Redeliver(c) ==
  /\ c \in inflight
  /\ inflight' = inflight \ {c}
  /\ queue' = queue \cup {c}
  /\ UNCHANGED <<submit, tables, cache, pc, task, session, faults>>

\* The TTL of wallet:info ends.
ExpireCache(a) ==
  /\ cache[a] # None
  /\ cache' = [cache EXCEPT ![a] = None]
  /\ UNCHANGED <<submit, tables, broker, pc, task, session, faults>>

-----------------------------------------------------------------------------
Submit(c) ==
  \/ InsertChange(c)
  \/ CheckWithdraw(c)
  \/ InsertWithdraw(c)
  \/ Enqueue(c)
  \/ LostPushReply(c)
  \/ EnqueueFails(c)

Subscriptions(s) ==
  \/ \E a \in Accounts : CreateSubscription(s, a)
  \/ \E status \in {"active", "deactive"} : UpdateSubscription(s, status)
  \/ CancelSubscription(s)
  \/ \E limit \in Limits : ProvisionSubscription(s, limit)
  \/ CloseSubscription(s)

\* The statements of one invocation, without faults.
Step(w) ==
  \/ LockChange(w)
  \/ SkipApplied(w)
  \/ SelectWallet(w)
  \/ InsertWallet(w)
  \/ InsertConflict(w)
  \/ SelectSubscription(w)
  \/ UpdateSubscriptionUsage(w)
  \/ UpdateWallet(w)
  \/ Commit(w)
  \/ SetCache(w)

Fail(w) ==
  \/ StatementFails(w)
  \/ LostCommitReply(w)
  \/ Crash(w)

Next ==
  \/ \E c \in Changes : Submit(c) \/ Redeliver(c)
  \/ \E s \in Subs : Subscriptions(s)
  \/ \E w \in Workers : Step(w) \/ Fail(w) \/ \E c \in Changes : Fetch(w, c)
  \/ \E a \in Accounts : ExpireCache(a)

Spec == Init /\ [][Next]_vars

\* The runtime keeps running the statements of an invocation, and PostgreSQL
\* grants a row lock to its waiters in turn, so a statement that can run again
\* and again does run; the broker's list is first in, first out, so no waiting
\* task is passed over for ever.
Fairness ==
  /\ \A w \in Workers : SF_vars(Step(w))
  /\ \A c \in Changes : SF_vars(\E w \in Workers : Fetch(w, c))

FairSpec == Spec /\ Fairness
=============================================================================
