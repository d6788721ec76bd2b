-------------------------- MODULE SettlementProofs --------------------------
(***************************************************************************)
(* Proofs about Settlement, for every set of accounts, changes, workers    *)
(* and subscriptions.                                                      *)
(***************************************************************************)
EXTENDS SettlementProps, TLAPS

(***************************************************************************)
(* The requests' fields have the types the tables need.                    *)
(***************************************************************************)
LEMMA RequestTypes ==
  ASSUME TypeOK, NEW c \in Changes
  PROVE  /\ Account(c) \in Accounts
         /\ Kind(c) \in Kinds
         /\ Amount(c) \in Nat
         /\ Tokens(c) \in Nat
         /\ Delta(c) \in Int
  BY SettlementAssumption, SMT
     DEF TypeOK, Account, Kind, Amount, Tokens, Delta, Content, Kinds

(***************************************************************************)
(* A busy worker has a change, and computes an integer balance for an      *)
(* account.                                                                *)
(***************************************************************************)
LEMMA WorkerTypes ==
  ASSUME TypeOK, NEW w \in Workers, pc[w] # "idle"
  PROVE  /\ task[w] \in Changes
         /\ Wallet(w) \in Accounts
         /\ NewBalance(w) \in Int
         /\ seen[w] \in Int
<1>1. task[w] \in Changes /\ seen[w] \in Int
  BY DEF TypeOK
<1>2. Delta(task[w]) \in Int /\ Account(task[w]) \in Accounts
  BY <1>1, RequestTypes
<1> QED
  BY <1>1, <1>2 DEF NewBalance, Wallet

(***************************************************************************)
(* Type correctness.                                                       *)
(***************************************************************************)
LEMMA TypeInit == Init => TypeOK
  BY SettlementAssumption, SMT
     DEF Init, TypeOK, Stages, PCs, InTx, Subscription, Statuses, Windows

LEMMA TypeStep == TypeOK /\ [Next]_vars => TypeOK'
<1> SUFFICES ASSUME TypeOK, [Next]_vars
             PROVE  TypeOK'
  OBVIOUS
<1> USE DEF submit, tables, broker, session
<1>1. ASSUME NEW c \in Changes, Submit(c) \/ Redeliver(c)
      PROVE  TypeOK'
  <2>1. CASE InsertChange(c) \/ CheckWithdraw(c) \/ InsertWithdraw(c)
    BY <2>1 DEF TypeOK, InsertChange, CheckWithdraw, InsertWithdraw, Stages
  <2>2. CASE Enqueue(c)
    BY <2>2 DEF TypeOK, Enqueue, Stages
  <2>3. CASE LostPushReply(c) \/ EnqueueFails(c)
    BY <2>3, SettlementAssumption DEF TypeOK, LostPushReply, EnqueueFails, Stages
  <2>4. CASE Redeliver(c)
    BY <2>4 DEF TypeOK, Redeliver
  <2> QED
    BY <1>1, <2>1, <2>2, <2>3, <2>4 DEF Submit
<1>2. ASSUME NEW s \in Subs, Subscriptions(s)
      PROVE  TypeOK'
  <2>1. subs' \in [Subs -> Subscription]
    <3>1. ASSUME NEW a \in Accounts, CreateSubscription(s, a)
          PROVE  subs' \in [Subs -> Subscription]
      BY <3>1 DEF TypeOK, CreateSubscription, Subscription, Statuses
    <3>2. ASSUME NEW status \in {"active", "deactive"}, UpdateSubscription(s, status)
          PROVE  subs' \in [Subs -> Subscription]
      BY <3>2, SMTT(20) DEF TypeOK, UpdateSubscription, Subscription, Statuses
    <3>3. ASSUME NEW limit \in Limits, ProvisionSubscription(s, limit)
          PROVE  subs' \in [Subs -> Subscription]
      <4>1. limit \in Nat
        BY SettlementAssumption
      <4>2. subs \in [Subs -> Subscription]
        BY DEF TypeOK
      <4>3. subs' = [subs EXCEPT ![s].window = "open", ![s].limit = limit]
        BY <3>3 DEF ProvisionSubscription
      <4> QED
        BY <4>1, <4>2, <4>3 DEF Subscription, Windows
    <3>4. CASE CloseSubscription(s)
      BY <3>4, SMTT(20) DEF TypeOK, CloseSubscription, Subscription, Windows
    <3> QED
      BY <1>2, <3>1, <3>2, <3>3, <3>4 DEF Subscriptions, CancelSubscription
  <2>2. UNCHANGED <<submit, is_applied, subscription_id, wallets, balance, broker,
                    cache, pc, task, session, faults>>
    BY <1>2 DEF Subscriptions, CreateSubscription, UpdateSubscription,
           CancelSubscription, ProvisionSubscription, CloseSubscription
  <2> QED
    BY <2>1, <2>2 DEF TypeOK
<1>3. ASSUME NEW a \in Accounts, ExpireCache(a)
      PROVE  TypeOK'
  BY <1>3 DEF TypeOK, ExpireCache
<1>4. ASSUME NEW w \in Workers, NEW c \in Changes, Fetch(w, c)
      PROVE  TypeOK'
  BY <1>4 DEF TypeOK, Fetch, PCs
<1>5. ASSUME NEW w \in Workers, EndSession(w)
      PROVE  /\ pc' \in [Workers -> PCs]
             /\ task' \in [Workers -> Changes \cup {None}]
             /\ \A v \in Workers : pc'[v] # "idle" => task'[v] \in Changes
             /\ seen' \in [Workers -> Int]
             /\ created' \in [Workers -> BOOLEAN]
             /\ chosen' \in [Workers -> Subs \cup {None}]
             /\ seenTokens' \in [Workers -> Nat]
             /\ seenMoney' \in [Workers -> Nat]
  BY <1>5 DEF TypeOK, EndSession, PCs
<1>6. ASSUME NEW w \in Workers, pc[w] = "commit", Publish(w)
      PROVE  /\ is_applied' \in [Changes -> BOOLEAN]
             /\ subscription_id' \in [Changes -> Subs \cup {None}]
             /\ wallets' \subseteq Accounts
             /\ balance' \in [Accounts -> Int]
             /\ subs' \in [Subs -> Subscription]
  <2>1. /\ task[w] \in Changes /\ Wallet(w) \in Accounts /\ NewBalance(w) \in Int
        /\ Tokens(task[w]) \in Nat /\ Amount(task[w]) \in Nat
        /\ seenTokens[w] \in Nat /\ seenMoney[w] \in Nat
    BY <1>6, WorkerTypes, RequestTypes DEF TypeOK
  <2>2. subs' \in [Subs -> Subscription]
    <3>1. CASE chosen[w] = None
      BY <1>6, <3>1 DEF TypeOK, Publish
    <3>2. CASE chosen[w] # None
      <4>1. chosen[w] \in Subs /\ subs \in [Subs -> Subscription]
        BY <3>2 DEF TypeOK
      <4>2. /\ seenTokens[w] + Tokens(task[w]) \in Nat
            /\ seenMoney[w] + Amount(task[w]) \in Nat
        BY <2>1
      <4>3. subs' = [subs EXCEPT ![chosen[w]].tokens = seenTokens[w] + Tokens(task[w]),
                                 ![chosen[w]].money = seenMoney[w] + Amount(task[w])]
        BY <1>6, <3>2 DEF Publish
      <4> QED
        BY <4>1, <4>2, <4>3 DEF Subscription
    <3> QED
      BY <3>1, <3>2
  <2> QED
    BY <1>6, <2>1, <2>2 DEF TypeOK, Publish
<1>7. ASSUME NEW w \in Workers, Step(w)
      PROVE  TypeOK'
  <2>1. CASE LockChange(w)
    BY <2>1 DEF TypeOK, LockChange, PCs, InTx
  <2>2. CASE SkipApplied(w) \/ InsertConflict(w)
    BY <2>2, <1>5 DEF TypeOK, SkipApplied, InsertConflict, Return
  <2>3. CASE SelectWallet(w)
    <3>1. seen' \in [Workers -> Int]
      BY <2>3, WorkerTypes DEF TypeOK, SelectWallet
    <3> QED
      BY <2>3, <3>1 DEF TypeOK, SelectWallet, AfterWallet, PCs, InTx
  <2>4. CASE InsertWallet(w)
    BY <2>4 DEF TypeOK, InsertWallet, AfterWallet, PCs, InTx
  <2>5. CASE SelectSubscription(w)
    <3>1. \A s \in Current(task[w]) : s \in Subs /\ subs[s].tokens \in Nat
                                                  /\ subs[s].money \in Nat
      BY DEF TypeOK, Current, Subscription
    <3> QED
      BY <2>5, <3>1, SMTT(20) DEF TypeOK, SelectSubscription, PCs, InTx
  <2>6. CASE UpdateSubscriptionUsage(w) \/ UpdateWallet(w)
    BY <2>6 DEF TypeOK, UpdateSubscriptionUsage, UpdateWallet, PCs, InTx
  <2>7. CASE Commit(w)
    BY <2>7, <1>6 DEF TypeOK, Commit, PCs
  <2>8. CASE SetCache(w)
    <3>1. cache' \in [Accounts -> Int \cup {None}]
      BY <2>8, WorkerTypes DEF TypeOK, SetCache
    <3> QED
      BY <2>8, <3>1, <1>5 DEF TypeOK, SetCache, Return
  <2> QED
    BY <1>7, <2>1, <2>2, <2>3, <2>4, <2>5, <2>6, <2>7, <2>8 DEF Step
<1>8. ASSUME NEW w \in Workers, Fail(w)
      PROVE  TypeOK'
  <2>1. faults' \in 0 .. MaxFaults
    BY <1>8, SettlementAssumption
       DEF TypeOK, Fail, StatementFails, LostCommitReply, Crash, Fault
  <2>2. CASE StatementFails(w) \/ Crash(w)
    BY <2>1, <2>2, <1>5 DEF TypeOK, StatementFails, Crash, Return
  <2>3. CASE LostCommitReply(w)
    BY <2>1, <2>3, <1>5, <1>6 DEF TypeOK, LostCommitReply, Return
  <2> QED
    BY <1>8, <2>2, <2>3 DEF Fail
<1>9. CASE UNCHANGED vars
  BY <1>9 DEF TypeOK, vars
<1> QED
  BY <1>1, <1>2, <1>3, <1>4, <1>7, <1>8, <1>9 DEF Next

(***************************************************************************)
(* Every reachable state of every instance is well typed.                  *)
(***************************************************************************)
THEOREM TypeCorrect == Spec => []TypeOK
  BY TypeInit, TypeStep, PTL DEF Spec

(***************************************************************************)
(* A task names a committed row: pushing follows inserting, and no step    *)
(* takes a row back.                                                       *)
(***************************************************************************)
LEMMA RowsStep == TypeOK /\ TasksNameRows /\ [Next]_vars => TasksNameRows'
<1> SUFFICES ASSUME TypeOK, TasksNameRows, [Next]_vars
             PROVE  TasksNameRows'
  OBVIOUS
<1> USE DEF submit, tables, broker, session, TasksNameRows, IsPushed
<1>1. ASSUME NEW c \in Changes, Submit(c) \/ Redeliver(c)
      PROVE  TasksNameRows'
  <2>1. \A d \in Changes : IsPushed(d) => IsPushed(d)'
    <3>1. CASE InsertChange(c) \/ CheckWithdraw(c) \/ InsertWithdraw(c) \/ EnqueueFails(c)
      BY <3>1 DEF TypeOK, InsertChange, CheckWithdraw, InsertWithdraw, EnqueueFails
    <3>2. CASE Enqueue(c) \/ LostPushReply(c) \/ Redeliver(c)
      BY <3>2 DEF TypeOK, Enqueue, LostPushReply, Redeliver
    <3> QED
      BY <1>1, <3>1, <3>2 DEF Submit
  <2>2. \A d \in queue' \cup inflight' : d \in queue \cup inflight \/ IsPushed(d)'
    <3>1. CASE InsertChange(c) \/ CheckWithdraw(c) \/ InsertWithdraw(c) \/ EnqueueFails(c)
      BY <3>1 DEF InsertChange, CheckWithdraw, InsertWithdraw, EnqueueFails
    <3>2. CASE Enqueue(c) \/ LostPushReply(c)
      BY <3>2 DEF TypeOK, Enqueue, LostPushReply
    <3>3. CASE Redeliver(c)
      BY <3>3 DEF Redeliver
    <3> QED
      BY <1>1, <3>1, <3>2, <3>3 DEF Submit
  <2>3. UNCHANGED <<is_applied, pc, task>>
    BY <1>1 DEF Submit, InsertChange, CheckWithdraw, InsertWithdraw, Enqueue,
           LostPushReply, EnqueueFails, Redeliver
  <2> QED
    BY <2>1, <2>2, <2>3 DEF TypeOK
<1>2. ASSUME NEW s \in Subs, Subscriptions(s)
      PROVE  TasksNameRows'
  <2>1. UNCHANGED <<stage, is_applied, queue, inflight, pc, task>>
    BY <1>2 DEF Subscriptions, CreateSubscription, UpdateSubscription,
           CancelSubscription, ProvisionSubscription, CloseSubscription
  <2> QED
    BY <2>1
<1>3. ASSUME NEW a \in Accounts, ExpireCache(a)
      PROVE  TasksNameRows'
  BY <1>3 DEF ExpireCache
<1>4. ASSUME NEW w \in Workers, NEW c \in Changes, Fetch(w, c)
      PROVE  TasksNameRows'
  BY <1>4 DEF TypeOK, Fetch
<1>5. ASSUME NEW w \in Workers, Step(w)
      PROVE  TasksNameRows'
  <2>1. CASE Commit(w)
    BY <2>1 DEF TypeOK, Commit, Publish
  <2>2. CASE SkipApplied(w) \/ InsertConflict(w) \/ SetCache(w)
    BY <2>2 DEF TypeOK, SkipApplied, InsertConflict, SetCache, Return, EndSession
  <2>3. CASE \/ LockChange(w) \/ SelectWallet(w) \/ InsertWallet(w)
             \/ SelectSubscription(w) \/ UpdateSubscriptionUsage(w) \/ UpdateWallet(w)
    BY <2>3 DEF TypeOK, LockChange, SelectWallet, InsertWallet, SelectSubscription,
           UpdateSubscriptionUsage, UpdateWallet
  <2> QED
    BY <1>5, <2>1, <2>2, <2>3 DEF Step
<1>6. ASSUME NEW w \in Workers, Fail(w)
      PROVE  TasksNameRows'
  <2>1. CASE StatementFails(w) \/ Crash(w)
    BY <2>1 DEF TypeOK, StatementFails, Crash, Return, EndSession
  <2>2. CASE LostCommitReply(w)
    BY <2>2 DEF TypeOK, LostCommitReply, Publish, Return, EndSession
  <2> QED
    BY <1>6, <2>1, <2>2 DEF Fail
<1>7. CASE UNCHANGED vars
  BY <1>7 DEF vars
<1> QED
  BY <1>1, <1>2, <1>3, <1>4, <1>5, <1>6, <1>7 DEF Next

(***************************************************************************)
(* The row lock and the test of is_applied keep a change to one settler.   *)
(***************************************************************************)
LEMMA SettlerStep == TypeOK /\ OneSettlerPerChange /\ [Next]_vars => OneSettlerPerChange'
<1> SUFFICES ASSUME TypeOK, OneSettlerPerChange, [Next]_vars
             PROVE  OneSettlerPerChange'
  OBVIOUS
<1> USE DEF submit, tables, broker, session, OneSettlerPerChange, InTx
<1>1. ASSUME UNCHANGED <<pc, task, is_applied>>
      PROVE  OneSettlerPerChange'
  BY <1>1
<1>2. ASSUME NEW w \in Workers, NEW c \in Changes, Fetch(w, c)
      PROVE  OneSettlerPerChange'
  BY <1>2 DEF TypeOK, Fetch
<1>3. ASSUME NEW w \in Workers, EndSession(w), is_applied' = is_applied
      PROVE  OneSettlerPerChange'
  BY <1>3 DEF TypeOK, EndSession
<1>4. ASSUME NEW w \in Workers, LockChange(w)
      PROVE  OneSettlerPerChange'
  BY <1>4 DEF TypeOK, LockChange, ChangeFree, LocksChange, MaySettle
<1>5. ASSUME NEW w \in Workers, pc[w] \in InTx,
             \E next \in InTx : pc' = [pc EXCEPT ![w] = next],
             UNCHANGED <<task, is_applied>>
      PROVE  OneSettlerPerChange'
  BY <1>5 DEF TypeOK
<1>6. ASSUME NEW w \in Workers, pc[w] = "commit", Publish(w),
             \/ pc' = [pc EXCEPT ![w] = "set_cache"] /\ task' = task
             \/ EndSession(w)
      PROVE  OneSettlerPerChange'
  <2>1. is_applied' = [is_applied EXCEPT ![task[w]] = TRUE]
    BY <1>6 DEF Publish
  <2>2. pc'[w] \notin InTx
    BY <1>6 DEF TypeOK, EndSession
  <2>3. \A v \in Workers \ {w} : pc'[v] = pc[v] /\ task'[v] = task[v]
    BY <1>6 DEF TypeOK, EndSession
  <2>4. \A v \in Workers \ {w} : pc[v] \in InTx => task[v] # task[w] /\ ~is_applied[task[v]]
    BY <1>6
  <2>5. \A v \in Workers : pc'[v] \in InTx => ~is_applied'[task'[v]]
    BY <2>1, <2>2, <2>3, <2>4 DEF TypeOK
  <2>6. \A u, v \in Workers :
          pc'[u] \in InTx /\ pc'[v] \in InTx /\ task'[u] = task'[v] => u = v
    BY <2>2, <2>3
  <2> QED
    BY <2>5, <2>6
<1>7. ASSUME NEW w \in Workers, Step(w)
      PROVE  OneSettlerPerChange'
  <2>1. CASE SelectWallet(w) \/ InsertWallet(w) \/ SelectSubscription(w)
             \/ UpdateSubscriptionUsage(w) \/ UpdateWallet(w)
    BY <2>1, <1>5 DEF SelectWallet, InsertWallet, SelectSubscription,
         UpdateSubscriptionUsage, UpdateWallet, AfterWallet
  <2>2. CASE SkipApplied(w) \/ InsertConflict(w) \/ SetCache(w)
    BY <2>2, <1>3 DEF SkipApplied, InsertConflict, SetCache, Return
  <2>3. CASE Commit(w)
    BY <2>3, <1>6 DEF Commit
  <2> QED
    BY <1>7, <1>4, <2>1, <2>2, <2>3 DEF Step
<1>8. ASSUME NEW w \in Workers, Fail(w)
      PROVE  OneSettlerPerChange'
  BY <1>8, <1>3, <1>6 DEF Fail, StatementFails, LostCommitReply, Crash, Return
<1>9. ASSUME \/ \E c \in Changes : Submit(c) \/ Redeliver(c)
             \/ \E s \in Subs : Subscriptions(s)
             \/ \E a \in Accounts : ExpireCache(a)
             \/ UNCHANGED vars
      PROVE  UNCHANGED <<pc, task, is_applied>>
  BY <1>9 DEF vars, Submit, InsertChange, CheckWithdraw, InsertWithdraw, Enqueue,
         LostPushReply, EnqueueFails, Redeliver, Subscriptions, CreateSubscription,
         UpdateSubscription, CancelSubscription, ProvisionSubscription,
         CloseSubscription, ExpireCache
<1> QED
  BY <1>1, <1>2, <1>7, <1>8, <1>9 DEF Next

(***************************************************************************)
(* What COMMIT publishes keeps the books sound: the wallet it writes       *)
(* exists, and the usage it writes fits the quota it was checked against.  *)
(***************************************************************************)
Books == RecordedUseWithinLimit /\ AppliedToWallet /\ SessionSound

LEMMA PublishBooks ==
  ASSUME TypeOK, Books, NEW w \in Workers, pc[w] = "commit", Publish(w), req' = req,
         \/ pc' = [pc EXCEPT ![w] = "set_cache"] /\ UNCHANGED <<task, session>>
         \/ EndSession(w)
  PROVE  Books'
<1> USE DEF Books, session
<1>1. /\ task[w] \in Changes /\ Wallet(w) \in Accounts /\ NewBalance(w) \in Int
      /\ Tokens(task[w]) \in Nat /\ Amount(task[w]) \in Nat
  BY WorkerTypes, RequestTypes
<1>2. wallets \subseteq wallets' /\ Wallet(w) \in wallets'
  BY DEF Publish, SessionSound, AfterSubscription
<1>3. \A s \in Subs :
        /\ subs'[s].status = subs[s].status
        /\ subs'[s].account = subs[s].account
        /\ subs'[s].window = subs[s].window
        /\ subs'[s].limit = subs[s].limit
        /\ \/ subs'[s].tokens = subs[s].tokens
           \/ /\ s = chosen[w]
              /\ subs'[s].tokens = seenTokens[w] + Tokens(task[w])
  BY DEF Publish, TypeOK, Subscription
<1>4. \A v \in Workers \ {w} : /\ pc'[v] = pc[v] /\ task'[v] = task[v]
                               /\ chosen'[v] = chosen[v]
                               /\ created'[v] = created[v]
                               /\ seenTokens'[v] = seenTokens[v]
  BY DEF TypeOK, EndSession
<1>5. pc'[w] \in {"idle", "set_cache"} /\ (chosen'[w] # None => pc'[w] = "set_cache")
  BY DEF TypeOK, EndSession
<1>6. RecordedUseWithinLimit'
  <2> SUFFICES ASSUME NEW s \in Subs
               PROVE  subs'[s].tokens <= subs'[s].limit
    BY DEF RecordedUseWithinLimit
  <2>1. s = chosen[w] => seenTokens[w] + Tokens(task[w]) <= subs[s].limit
    BY SettlementAssumption DEF SessionSound, AfterSubscription
  <2> QED
    BY <1>3, <2>1 DEF RecordedUseWithinLimit
<1>7. AppliedToWallet'
  <2>1. \A a \in Accounts : a = Wallet(w) \/ balance'[a] = balance[a]
    BY <1>1 DEF Publish, TypeOK
  <2>2. \A c \in Changes : c = task[w] \/ is_applied'[c] = is_applied[c]
    BY <1>1 DEF Publish, TypeOK
  <2>3. \A c \in Changes : Account(c)' = Account(c)
    BY DEF Account
  <2> QED
    BY <1>2, <2>1, <2>2, <2>3 DEF AppliedToWallet, Wallet
<1>8. SessionSound'
  <2>1. \A s \in Subs :
          /\ subs'[s].status = "absent" => subs'[s].window = "none"
          /\ subs'[s].window = "none" => subs'[s].limit = 0 /\ subs'[s].tokens = 0
    BY <1>3, SettlementAssumption DEF SessionSound, AfterSubscription
  <2>2. ASSUME NEW v \in Workers, pc'[v] \in AfterSubscription \cup {"select_subscription"}
        PROVE  /\ v # w
               /\ Wallet(v)' = Wallet(v)
               /\ Kind(task[v])' = Kind(task[v])
               /\ Tokens(task[v])' = Tokens(task[v])
    <3>1. v # w
      BY <1>5, <2>2 DEF AfterSubscription
    <3> QED
      BY <1>4, <3>1 DEF Wallet, Account, Kind, Tokens
  <2>3. \A v \in Workers : chosen'[v] # None => pc'[v] \in AfterSubscription \cup {"set_cache"}
    BY <1>4, <1>5 DEF SessionSound
  <2>4. ASSUME NEW v \in Workers, pc'[v] \in AfterSubscription, chosen'[v] # None
        PROVE  /\ Kind(task[v])' = "SpendToken"
               /\ subs'[chosen'[v]].account = Wallet(v)'
               /\ subs'[chosen'[v]].window # "none"
               /\ seenTokens'[v] + Tokens(task[v])' <= subs'[chosen'[v]].limit
    <3>1. /\ v # w /\ Wallet(v)' = Wallet(v) /\ Kind(task[v])' = Kind(task[v])
          /\ Tokens(task[v])' = Tokens(task[v])
      BY <2>2, <2>4
    <3>2. pc[v] \in AfterSubscription /\ chosen'[v] = chosen[v] /\ chosen[v] \in Subs
      BY <1>4, <3>1, <2>4 DEF TypeOK
    <3> QED
      BY <1>3, <1>4, <3>1, <3>2, <2>4 DEF SessionSound
  <2>5. ASSUME NEW v \in Workers, pc'[v] \in AfterSubscription \cup {"select_subscription"}
        PROVE  created'[v] \/ Wallet(v)' \in wallets'
    <3>1. v # w /\ Wallet(v)' = Wallet(v)
      BY <2>2, <2>5
    <3>2. pc[v] \in AfterSubscription \cup {"select_subscription"} /\ created'[v] = created[v]
      BY <1>4, <3>1, <2>5
    <3> QED
      BY <1>2, <3>1, <3>2 DEF SessionSound
  <2>6. ASSUME NEW v \in Workers, pc'[v] = "select_subscription"
        PROVE  Kind(task[v])' = "SpendToken"
    BY <1>4, <2>2, <2>6 DEF SessionSound, AfterSubscription
  <2> QED
    BY <2>1, <2>3, <2>4, <2>5, <2>6 DEF SessionSound, AfterSubscription
<1> QED
  BY <1>6, <1>7, <1>8

LEMMA BooksStep == TypeOK /\ Books /\ [Next]_vars => Books'
<1> SUFFICES ASSUME TypeOK, Books, [Next]_vars
             PROVE  Books'
  OBVIOUS
<1> USE DEF submit, tables, broker, session
<1>1. ASSUME UNCHANGED <<req, tables, pc, task, session>>
      PROVE  Books'
  BY <1>1 DEF Books, RecordedUseWithinLimit, AppliedToWallet, SessionSound,
         Account, Wallet, Kind, Tokens
<1>2. ASSUME NEW s \in Subs, Subscriptions(s)
      PROVE  Books'
  <2>1. UNCHANGED <<req, is_applied, wallets, balance, pc, task, session>>
    BY <1>2 DEF Subscriptions, CreateSubscription, UpdateSubscription,
         CancelSubscription, ProvisionSubscription, CloseSubscription
  <2>2. \A r \in Subs :
          /\ subs'[r].tokens = subs[r].tokens
          /\ subs[r].window # "none" => /\ subs'[r].account = subs[r].account
                                       /\ subs'[r].window # "none"
                                       /\ subs'[r].limit = subs[r].limit
          /\ subs[r].tokens <= subs'[r].limit
          /\ subs'[r].status = "absent" => subs'[r].window = "none"
          /\ subs'[r].window = "none" => subs'[r].limit = 0 /\ subs'[r].tokens = 0
    <3> DEFINE Kept(r) ==
          /\ subs'[r].tokens = subs[r].tokens
          /\ subs[r].window # "none" => /\ subs'[r].account = subs[r].account
                                       /\ subs'[r].window # "none"
                                       /\ subs'[r].limit = subs[r].limit
          /\ subs[r].tokens <= subs'[r].limit
          /\ subs'[r].status = "absent" => subs'[r].window = "none"
          /\ subs'[r].window = "none" => subs'[r].limit = 0 /\ subs'[r].tokens = 0
    <3>1. ASSUME NEW r \in Subs
          PROVE  /\ subs[r] \in Subscription
                 /\ subs[r].tokens <= subs[r].limit
                 /\ subs[r].status = "absent" => subs[r].window = "none"
                 /\ subs[r].window = "none" => subs[r].limit = 0 /\ subs[r].tokens = 0
      BY DEF TypeOK, Books, RecordedUseWithinLimit, SessionSound
    <3>2. \A r \in Subs : r # s => subs'[r] = subs[r]
      BY <1>2 DEF TypeOK, Subscriptions, CreateSubscription, UpdateSubscription,
           CancelSubscription, ProvisionSubscription, CloseSubscription
    <3>3. ASSUME NEW a \in Accounts, CreateSubscription(s, a)
          PROVE  Kept(s)
      BY <3>1, <3>3 DEF CreateSubscription, TypeOK, Subscription
    <3>4. ASSUME NEW status \in {"active", "deactive"}, UpdateSubscription(s, status)
          PROVE  Kept(s)
      BY <3>1, <3>4 DEF UpdateSubscription, TypeOK, Subscription
    <3>5. ASSUME NEW limit \in Limits, ProvisionSubscription(s, limit)
          PROVE  Kept(s)
      <4>1. limit \in Nat
        BY SettlementAssumption
      <4> QED
        BY <3>1, <3>5, <4>1 DEF ProvisionSubscription, TypeOK, Subscription
    <3>6. CASE CloseSubscription(s)
      BY <3>1, <3>6 DEF CloseSubscription, TypeOK, Subscription
    <3>7. Kept(s)
      BY <1>2, <3>3, <3>4, <3>5, <3>6 DEF Subscriptions, CancelSubscription
    <3> QED
      BY <3>1, <3>2, <3>7
  <2>3. RecordedUseWithinLimit'
    BY <2>2 DEF RecordedUseWithinLimit
  <2>4. AppliedToWallet'
    BY <2>1 DEF Books, AppliedToWallet, Account
  <2>5. SessionSound'
    BY <2>1, <2>2 DEF Books, SessionSound, TypeOK, Wallet, Account, Kind, Tokens
  <2> QED
    BY <2>3, <2>4, <2>5 DEF Books
<1>3. ASSUME NEW w \in Workers, NEW c \in Changes, Fetch(w, c)
      PROVE  Books'
  <2>1. UNCHANGED <<req, tables, session>> /\ pc[w] = "idle"
    BY <1>3 DEF Fetch
  <2>2. \A v \in Workers : v # w => pc'[v] = pc[v] /\ task'[v] = task[v]
    BY <1>3 DEF Fetch, TypeOK
  <2>3. pc'[w] = "select_change" /\ chosen[w] = None
    BY <1>3 DEF Fetch, TypeOK, Books, SessionSound, AfterSubscription
  <2>4. SessionSound'
    BY <2>1, <2>2, <2>3
       DEF Books, SessionSound, AfterSubscription, Wallet, Account, Kind, Tokens
  <2> QED
    BY <2>1, <2>4 DEF Books, RecordedUseWithinLimit, AppliedToWallet, Account
<1>4. ASSUME NEW w \in Workers, EndSession(w), UNCHANGED <<req, tables>>
      PROVE  Books'
  <2>1. \A v \in Workers : v # w => /\ pc'[v] = pc[v] /\ task'[v] = task[v]
                                   /\ chosen'[v] = chosen[v]
                                   /\ created'[v] = created[v]
                                   /\ seenTokens'[v] = seenTokens[v]
    BY <1>4 DEF EndSession, TypeOK
  <2>2. pc'[w] = "idle" /\ chosen'[w] = None
    BY <1>4 DEF EndSession, TypeOK
  <2>3. SessionSound'
    BY <1>4, <2>1, <2>2
       DEF Books, SessionSound, AfterSubscription, Wallet, Account, Kind, Tokens
  <2> QED
    BY <1>4, <2>3 DEF Books, RecordedUseWithinLimit, AppliedToWallet, Account
<1>5. ASSUME NEW w \in Workers, Step(w)
      PROVE  Books'
  <2>1. CASE SkipApplied(w) \/ InsertConflict(w) \/ SetCache(w)
    BY <2>1, <1>4 DEF SkipApplied, InsertConflict, SetCache, Return
  <2>2. CASE Commit(w)
    BY <2>2, PublishBooks DEF Commit
  <2>3. ASSUME UNCHANGED <<req, tables>>, SessionSound'
        PROVE  Books'
    BY <2>3 DEF Books, RecordedUseWithinLimit, AppliedToWallet, Account
  <2>4. CASE LockChange(w)
    <3>1. SessionSound'
      BY <2>4 DEF LockChange, Books, SessionSound, AfterSubscription, TypeOK,
                  Wallet, Account, Kind, Tokens
    <3> QED
      BY <2>3, <2>4, <3>1 DEF LockChange
  <2>5. CASE SelectWallet(w)
    <3>1. SessionSound'
      BY <2>5 DEF SelectWallet, AfterWallet, Books, SessionSound, AfterSubscription,
                  TypeOK, Wallet, Account, Kind, Tokens
    <3> QED
      BY <2>3, <2>5, <3>1 DEF SelectWallet
  <2>6. CASE InsertWallet(w)
    <3>1. SessionSound'
      BY <2>6 DEF InsertWallet, AfterWallet, Books, SessionSound, AfterSubscription,
                  TypeOK, Wallet, Account, Kind, Tokens
    <3> QED
      BY <2>3, <2>6, <3>1 DEF InsertWallet
  <2>7. CASE SelectSubscription(w)
    <3>1. /\ UNCHANGED <<req, tables, task, created>>
          /\ pc[w] = "select_subscription"
          /\ Kind(task[w]) = "SpendToken"
          /\ created[w] \/ Wallet(w) \in wallets
      BY <2>7 DEF SelectSubscription, Books, SessionSound
    <3>2. \A v \in Workers : v # w => /\ pc'[v] = pc[v]
                                     /\ chosen'[v] = chosen[v]
                                     /\ seenTokens'[v] = seenTokens[v]
      BY <2>7 DEF SelectSubscription, TypeOK
    <3>3. /\ pc'[w] \in AfterSubscription
          /\ chosen'[w] # None =>
               /\ subs[chosen'[w]].account = Wallet(w)
               /\ subs[chosen'[w]].window # "none"
               /\ seenTokens'[w] + Tokens(task[w]) <= subs[chosen'[w]].limit
      <4>1. ASSUME NEW s \in Current(task[w]),
                   chosen' = [chosen EXCEPT ![w] = s],
                   seenTokens' = [seenTokens EXCEPT ![w] = subs[s].tokens],
                   pc' = [pc EXCEPT ![w] = "update_subscription"]
            PROVE  <3>3!1 /\ <3>3!2
        <5>1. /\ s \in Subs /\ subs[s].account = Wallet(w) /\ subs[s].window = "open"
              /\ subs[s].limit >= subs[s].tokens + Tokens(task[w])
          BY DEF Current, Wallet
        <5>2. chosen'[w] = s /\ seenTokens'[w] = subs[s].tokens
              /\ pc'[w] = "update_subscription"
          BY <4>1 DEF TypeOK
        <5>3. subs[s].limit \in Nat /\ subs[s].tokens + Tokens(task[w]) \in Nat
          BY <3>1, <5>1, WorkerTypes, RequestTypes DEF TypeOK, Subscription
        <5> QED
          BY <5>1, <5>2, <5>3 DEF AfterSubscription
      <4>2. ASSUME pc' = [pc EXCEPT ![w] = "update_wallet"], chosen' = chosen
            PROVE  <3>3!1 /\ <3>3!2
        BY <3>1, <4>2 DEF Books, SessionSound, AfterSubscription, TypeOK
      <4> QED
        BY <2>7, <4>1, <4>2 DEF SelectSubscription
    <3>4. SessionSound'
      BY <3>1, <3>2, <3>3
         DEF Books, SessionSound, AfterSubscription, Wallet, Account, Kind, Tokens
    <3> QED
      BY <2>3, <3>1, <3>4
  <2>8. CASE UpdateSubscriptionUsage(w) \/ UpdateWallet(w)
    <3>1. UNCHANGED <<req, tables, task, session>>
      BY <2>8 DEF UpdateSubscriptionUsage, UpdateWallet
    <3>2. /\ pc[w] \in AfterSubscription /\ pc'[w] \in AfterSubscription
          /\ \A v \in Workers : v # w => pc'[v] = pc[v]
      BY <2>8 DEF UpdateSubscriptionUsage, UpdateWallet, AfterSubscription, TypeOK
    <3>3. SessionSound'
      BY <3>1, <3>2
         DEF Books, SessionSound, AfterSubscription, Wallet, Account, Kind, Tokens
    <3> QED
      BY <2>3, <3>1, <3>3
  <2> QED
    BY <1>5, <2>1, <2>2, <2>4, <2>5, <2>6, <2>7, <2>8 DEF Step
<1>6. ASSUME NEW w \in Workers, Fail(w)
      PROVE  Books'
  <2>1. CASE StatementFails(w) \/ Crash(w)
    BY <2>1, <1>4 DEF StatementFails, Crash, Return
  <2>2. CASE LostCommitReply(w)
    BY <2>2, PublishBooks DEF LostCommitReply, Return
  <2> QED
    BY <1>6, <2>1, <2>2 DEF Fail
<1>7. ASSUME \/ \E c \in Changes : Submit(c) \/ Redeliver(c)
             \/ \E a \in Accounts : ExpireCache(a)
             \/ UNCHANGED vars
      PROVE  UNCHANGED <<req, tables, pc, task, session>>
  BY <1>7 DEF vars, Submit, InsertChange, CheckWithdraw, InsertWithdraw, Enqueue,
         LostPushReply, EnqueueFails, Redeliver, ExpireCache
<1> QED
  BY <1>1, <1>2, <1>3, <1>5, <1>6, <1>7 DEF Next

(***************************************************************************)
(* The inductive invariant: its parts hold initially and no step breaks    *)
(* them.                                                                   *)
(***************************************************************************)
Inv == TypeOK /\ TasksNameRows /\ OneSettlerPerChange /\ Books

LEMMA InvInit == Init => Inv
<1> SUFFICES ASSUME Init
             PROVE  Inv
  OBVIOUS
<1>1. TypeOK
  BY TypeInit
<1>2. TasksNameRows /\ OneSettlerPerChange
  BY DEF Init, TasksNameRows, OneSettlerPerChange, InTx
<1>3. RecordedUseWithinLimit /\ AppliedToWallet
  BY DEF Init, RecordedUseWithinLimit, AppliedToWallet
<1>4. SessionSound
  BY DEF Init, SessionSound, AfterSubscription
<1> QED
  BY <1>1, <1>2, <1>3, <1>4 DEF Inv, Books

LEMMA InvStep == Inv /\ [Next]_vars => Inv'
  BY TypeStep, RowsStep, SettlerStep, BooksStep DEF Inv

LEMMA Invariance == Spec => []Inv
  BY InvInit, InvStep, PTL DEF Spec

(***************************************************************************)
(* Every task the broker holds names a committed balance change, and what  *)
(* was not pushed is never applied.                                        *)
(***************************************************************************)
THEOREM TasksNameRowsAlways == Spec => []TasksNameRows
<1>1. Inv => TasksNameRows
  BY DEF Inv
<1> QED
  BY <1>1, Invariance, PTL

(***************************************************************************)
(* However many workers run and however often a task is delivered, a       *)
(* change has at most one settler, and that settler found it unapplied.    *)
(***************************************************************************)
THEOREM OneSettlerAlways == Spec => []OneSettlerPerChange
<1>1. Inv => OneSettlerPerChange
  BY DEF Inv
<1> QED
  BY <1>1, Invariance, PTL

(***************************************************************************)
(* The recorded usage of a subscription never exceeds its quota.           *)
(***************************************************************************)
THEOREM BooksAlways == Spec => []RecordedUseWithinLimit
<1>1. Inv => RecordedUseWithinLimit
  BY DEF Inv, Books
<1> QED
  BY <1>1, Invariance, PTL

(***************************************************************************)
(* Money only ever sits in a wallet that exists.                           *)
(***************************************************************************)
THEOREM AppliedToWalletAlways == Spec => []AppliedToWallet
<1>1. Inv => AppliedToWallet
  BY DEF Inv, Books
<1> QED
  BY <1>1, Invariance, PTL

(***************************************************************************)
(* The subscription and the wallet a transaction has chosen stay fit for   *)
(* what it will write.                                                     *)
(***************************************************************************)
THEOREM SessionSoundAlways == Spec => []SessionSound
<1>1. Inv => SessionSound
  BY DEF Inv, Books
<1> QED
  BY <1>1, Invariance, PTL

(***************************************************************************)
(* Locks are taken in one order.  Each waiter waits for a transaction that *)
(* is further on than itself.                                              *)
(***************************************************************************)
Further(w) ==
  CASE pc[w] = "select_change" -> 1
    [] pc[w] = "insert_wallet" -> 2
    [] pc[w] = "update_subscription" -> 4
    [] pc[w] = "update_wallet" -> 5
    [] pc[w] = "commit" -> 6
    [] OTHER -> 3

\* A transaction that inserted its wallet is past the insert.
Inserted ==
  \A w \in Workers : created[w] =>
    pc[w] \in AfterSubscription \cup {"select_subscription", "set_cache"}

LEMMA InsertedStep == TypeOK /\ Inserted /\ [Next]_vars => Inserted'
<1> SUFFICES ASSUME TypeOK, Inserted, [Next]_vars, NEW w \in Workers, created'[w]
             PROVE  pc'[w] \in AfterSubscription \cup {"select_subscription", "set_cache"}
  BY DEF Inserted
<1> USE DEF submit, tables, broker, session, AfterSubscription
<1>1. created[w] => pc[w] \in AfterSubscription \cup {"select_subscription", "set_cache"}
  BY DEF Inserted
<1>2. CASE UNCHANGED <<pc, created>>
  BY <1>1, <1>2
<1>3. ASSUME NEW v \in Workers, Step(v)
      PROVE  pc'[w] \in AfterSubscription \cup {"select_subscription", "set_cache"}
  <2>1. CASE LockChange(v) \/ SelectWallet(v) \/ SelectSubscription(v)
             \/ UpdateSubscriptionUsage(v) \/ UpdateWallet(v) \/ Commit(v)
    BY <1>1, <2>1
       DEF TypeOK, LockChange, SelectWallet, SelectSubscription, UpdateSubscriptionUsage,
           UpdateWallet, Commit
  <2>2. CASE InsertWallet(v)
    BY <1>1, <2>2 DEF TypeOK, InsertWallet, AfterWallet
  <2>3. CASE SkipApplied(v) \/ InsertConflict(v) \/ SetCache(v)
    BY <1>1, <2>3 DEF TypeOK, SkipApplied, InsertConflict, SetCache, Return, EndSession
  <2> QED
    BY <1>3, <2>1, <2>2, <2>3 DEF Step
<1>4. ASSUME NEW v \in Workers, Fail(v)
      PROVE  pc'[w] \in AfterSubscription \cup {"select_subscription", "set_cache"}
  <2>1. EndSession(v)
    BY <1>4 DEF Fail, StatementFails, LostCommitReply, Crash, Return
  <2> QED
    BY <1>1, <2>1 DEF TypeOK, EndSession
<1>5. ASSUME NEW v \in Workers, NEW c \in Changes, Fetch(v, c)
      PROVE  pc'[w] \in AfterSubscription \cup {"select_subscription", "set_cache"}
  BY <1>1, <1>5 DEF TypeOK, Fetch
<1>6. ASSUME \/ \E c \in Changes : Submit(c) \/ Redeliver(c)
             \/ \E s \in Subs : Subscriptions(s)
             \/ \E a \in Accounts : ExpireCache(a)
             \/ UNCHANGED vars
      PROVE  UNCHANGED <<pc, created>>
  BY <1>6 DEF vars, Submit, InsertChange, CheckWithdraw, InsertWithdraw, Enqueue,
       LostPushReply, EnqueueFails, Redeliver, ExpireCache, Subscriptions, CreateSubscription,
       UpdateSubscription, CancelSubscription, ProvisionSubscription, CloseSubscription
<1> QED
  BY <1>2, <1>3, <1>4, <1>5, <1>6 DEF Next

LEMMA WaitsForFurther ==
  ASSUME Inserted, NEW v \in Workers, NEW w \in Workers, HoldsUp(v, w)
  PROVE  Further(v) > Further(w)
<1>1. CASE pc[w] = "select_change"
  BY <1>1 DEF HoldsUp, LocksChange, InTx, Further
<1>2. CASE pc[w] = "insert_wallet"
  BY <1>2 DEF HoldsUp, Inserted, AfterSubscription, Further
<1>3. CASE pc[w] = "update_subscription"
  BY <1>3 DEF HoldsUp, LocksSub, Further
<1>4. CASE pc[w] = "update_wallet"
  BY <1>4 DEF HoldsUp, LocksWallet, Further
<1> QED
  BY <1>1, <1>2, <1>3, <1>4 DEF HoldsUp

(***************************************************************************)
(* Among any invocations there is one that is furthest on, and none of     *)
(* them holds it up: no set of settlements is deadlocked.                  *)
(***************************************************************************)
THEOREM NoLockCycleAlways == Spec => []NoLockCycle
<1>1. Init => Inserted
  BY DEF Init, Inserted
<1>2. ASSUME Inserted, NEW W \in (SUBSET Workers) \ {{}}
      PROVE  \E w \in W : \A v \in W : ~HoldsUp(v, w)
  <2>0. W \subseteq Workers /\ W # {}
    BY <1>2
  <2>1. \A w \in W : Further(w) \in 1 .. 6
    <3> SUFFICES ASSUME NEW w \in W
                 PROVE  Further(w) \in 1 .. 6
      OBVIOUS
    <3>1. CASE pc[w] \in {"select_change", "insert_wallet"}
      BY <3>1 DEF Further
    <3>2. CASE pc[w] \in {"update_subscription", "update_wallet", "commit"}
      BY <3>2 DEF Further
    <3>3. CASE pc[w] \notin {"select_change", "insert_wallet", "update_subscription",
                            "update_wallet", "commit"}
      BY <3>3 DEF Further
    <3> QED
      BY <3>1, <3>2, <3>3
  <2>2. \E w \in W : \A v \in W : ~(Further(v) > Further(w))
    <3> HIDE DEF Further
    <3>1. CASE \E w \in W : Further(w) = 6
      BY <2>1, <3>1
    <3>2. CASE (\A w \in W : Further(w) <= 5) /\ \E w \in W : Further(w) = 5
      BY <2>1, <3>2
    <3>3. CASE (\A w \in W : Further(w) <= 4) /\ \E w \in W : Further(w) = 4
      BY <2>1, <3>3
    <3>4. CASE (\A w \in W : Further(w) <= 3) /\ \E w \in W : Further(w) = 3
      BY <2>1, <3>4
    <3>5. CASE (\A w \in W : Further(w) <= 2) /\ \E w \in W : Further(w) = 2
      BY <2>1, <3>5
    <3>6. CASE \A w \in W : Further(w) = 1
      BY <2>0, <3>6
    <3> QED
      BY <2>0, <2>1, <3>1, <3>2, <3>3, <3>4, <3>5, <3>6
  <2> QED
    BY <1>2, <2>0, <2>2, WaitsForFurther
<1>3. Inserted => NoLockCycle
  BY <1>2 DEF NoLockCycle
<1> QED
  BY <1>1, <1>3, TypeInit, TypeStep, InsertedStep, PTL DEF Spec

(***************************************************************************)
(* Settling is atomic and happens once, for any number of workers: a step  *)
(* that moves a balance or a subscription's usage applies, for the first   *)
(* time, one change of that account, and charges one source only.          *)
(***************************************************************************)
THEOREM SettlesOnceAlways == Spec => SettlesOnce
<1>1. ASSUME Inv, [Next]_vars
      PROVE  [SettleStep]_vars
  <2> USE DEF submit, tables, broker, session
  <2>1. ASSUME NEW w \in Workers, pc[w] = "commit", Publish(w)
        PROVE  SettleStep
    <3>1. /\ task[w] \in Changes /\ Wallet(w) \in Accounts
          /\ ~is_applied[task[w]] /\ Wallet(w) = Account(task[w])
      BY <1>1, <2>1, WorkerTypes DEF Inv, OneSettlerPerChange, InTx, Wallet
    <3>2. Settles(task[w]) /\ subscription_id'[task[w]] = chosen[w]
      BY <1>1, <2>1, <3>1 DEF Publish, Settles, Inv, TypeOK
    <3>3. \A c \in Changes : is_applied[c] =>
            is_applied'[c] /\ subscription_id'[c] = subscription_id[c]
      BY <1>1, <2>1, <3>1 DEF Publish, Inv, TypeOK
    <3>4. CASE chosen[w] = None
      <4>1. subs' = subs
        BY <2>1, <3>4 DEF Publish
      <4>2. \A a \in Accounts : balance'[a] # balance[a] => a = Wallet(w)
        BY <1>1, <2>1, <3>1 DEF Publish, Inv, TypeOK
      <4> QED
        BY <3>1, <3>2, <3>3, <3>4, <4>1, <4>2 DEF SettleStep
    <3>5. CASE chosen[w] # None
      <4>1. balance' = balance
        BY <2>1, <3>5 DEF Publish, NewBalance
      <4>2. /\ Kind(task[w]) = "SpendToken" /\ subs[chosen[w]].account = Wallet(w)
            /\ chosen[w] \in Subs
        BY <1>1, <2>1, <3>5
           DEF Inv, Books, SessionSound, AfterSubscription, TypeOK
      <4>3. \A s \in Subs : s # chosen[w] => subs'[s] = subs[s]
        BY <1>1, <2>1, <3>5 DEF Publish, Inv, TypeOK
      <4> QED
        BY <3>1, <3>2, <3>3, <4>1, <4>2, <4>3 DEF SettleStep
    <3> QED
      BY <3>4, <3>5
  <2>2. ASSUME NEW s \in Subs, Subscriptions(s)
        PROVE  SettleStep
    <3>1. UNCHANGED <<is_applied, subscription_id, balance>>
      BY <2>2 DEF Subscriptions, CreateSubscription, UpdateSubscription,
           CancelSubscription, ProvisionSubscription, CloseSubscription
    <3>2. \A r \in Subs : subs'[r].tokens = subs[r].tokens /\ subs'[r].money = subs[r].money
      <4>1. subs \in [Subs -> Subscription]
        BY <1>1 DEF Inv, TypeOK
      <4>2. ASSUME NEW a \in Accounts, CreateSubscription(s, a)
            PROVE  <3>2
        BY <4>1, <4>2 DEF CreateSubscription, Subscription
      <4>3. ASSUME NEW status \in {"active", "deactive"}, UpdateSubscription(s, status)
            PROVE  <3>2
        BY <4>1, <4>3 DEF UpdateSubscription, Subscription
      <4>4. ASSUME NEW limit \in Limits, ProvisionSubscription(s, limit)
            PROVE  <3>2
        BY <4>1, <4>4 DEF ProvisionSubscription, Subscription
      <4>5. CASE CloseSubscription(s)
        BY <4>1, <4>5 DEF CloseSubscription, Subscription
      <4> QED
        BY <2>2, <4>2, <4>3, <4>4, <4>5 DEF Subscriptions, CancelSubscription
    <3> QED
      BY <3>1, <3>2 DEF SettleStep
  <2>3. ASSUME UNCHANGED tables
        PROVE  SettleStep
    BY <2>3 DEF SettleStep
  <2>4. ASSUME NEW w \in Workers, Step(w) \/ Fail(w)
        PROVE  SettleStep
    <3>1. CASE Commit(w) \/ LostCommitReply(w)
      BY <2>1, <3>1 DEF Commit, LostCommitReply
    <3>2. CASE ~(Commit(w) \/ LostCommitReply(w))
      BY <2>3, <2>4, <3>2
         DEF Step, Fail, LockChange, SkipApplied, SelectWallet, InsertWallet,
             InsertConflict, SelectSubscription, UpdateSubscriptionUsage,
             UpdateWallet, SetCache, StatementFails, Crash
    <3> QED
      BY <3>1, <3>2
  <2>5. ASSUME \/ \E c \in Changes : Submit(c) \/ Redeliver(c)
               \/ \E a \in Accounts : ExpireCache(a)
               \/ \E w \in Workers, c \in Changes : Fetch(w, c)
        PROVE  SettleStep
    BY <2>3, <2>5 DEF Submit, InsertChange, CheckWithdraw, InsertWithdraw, Enqueue,
           LostPushReply, EnqueueFails, Redeliver, ExpireCache, Fetch
  <2> QED
    BY <1>1, <2>2, <2>4, <2>5 DEF Next
<1> QED
  BY <1>1, Invariance, PTL DEF Spec, SettlesOnce
=============================================================================
