------------------------ MODULE SettlementRefinement ------------------------
(***************************************************************************)
(* What settlement achieves beyond its invariants, for any number of       *)
(* accounts, changes, subscriptions and workers and any sequence of        *)
(* faults: no money from nowhere, always; and, as long as transactions of  *)
(* one account do not overlap between read and commit, the ledger, the     *)
(* exact totals and the latest balance in the cache.                       *)
(***************************************************************************)
EXTENDS SettlementProofs, SettlementTotals, FiniteSetTheorems

-----------------------------------------------------------------------------
(***************************************************************************)
(* Sums over finite sets, argued by a smallest counterexample: among       *)
(* subsets of a finite set, one contains no other, because strict          *)
(* inclusion of finite sets is well-founded.                               *)
(***************************************************************************)
LEMMA SmallestSet ==
  ASSUME NEW S, IsFiniteSet(S), NEW Q, Q \subseteq SUBSET S, Q # {}
  PROVE  \E T \in Q : \A U \in Q : ~(U \subseteq T /\ U # T)
<1>1. IsWellFoundedOn(StrictSubsetOrdering(S), FiniteSubsetsOf(S))
  BY FS_StrictSubsetOrderingWellFounded
<1>2. FiniteSubsetsOf(S) = SUBSET S
  BY FS_FiniteSubsetsOfFinite
<1>3. PICK T \in Q : \A U \in Q : ~(<<U, T>> \in StrictSubsetOrdering(S))
  BY <1>1, <1>2, WFMin
<1>4. ASSUME NEW U \in Q, U \subseteq T, U # T
      PROVE  <<U, T>> \in StrictSubsetOrdering(S)
  BY <1>4 DEF StrictSubsetOrdering
<1>5. \A U \in Q : ~(U \subseteq T /\ U # T)
  BY <1>3, <1>4, Zenon
<1> QED
  BY <1>5

Pick(T) == CHOOSE x \in T : TRUE

IsSum(f, S, g) ==
  g = [T \in SUBSET S |-> IF T = {} THEN 0 ELSE f[Pick(T)] + g[T \ {Pick(T)}]]

(***************************************************************************)
(* The community modules' sum, as the value of the function it recurs on.  *)
(***************************************************************************)
LEMMA SumDef ==
  ASSUME NEW S, NEW f
  PROVE  SumFunctionOnSet(f, S) = (CHOOSE g : IsSum(f, S, g))[S]
  BY DEF SumFunctionOnSet, FoldFunctionOnSet, MapThenFoldSet, IsSum, Pick

(***************************************************************************)
(* Two such functions, over a set and over a subset, agree where both are  *)
(* defined: a smallest set on which they differ has an element to take     *)
(* out.                                                                    *)
(***************************************************************************)
LEMMA SumsAgree ==
  ASSUME NEW f, NEW S, NEW T \in SUBSET S, IsFiniteSet(S),
         NEW g, IsSum(f, S, g), NEW h, IsSum(f, T, h)
  PROVE  \A U \in SUBSET T : g[U] = h[U]
<1> DEFINE Q == {U \in SUBSET T : g[U] # h[U]}
<1> SUFFICES ASSUME Q # {}
             PROVE  FALSE
  OBVIOUS
<1>1. PICK U \in Q : \A V \in Q : ~(V \subseteq U /\ V # U)
  <2>1. Q \subseteq SUBSET T /\ IsFiniteSet(T)
    BY FS_Subset
  <2> HIDE DEF Q
  <2> QED
    BY <2>1, SmallestSet
<1>2. /\ g[U] = IF U = {} THEN 0 ELSE f[Pick(U)] + g[U \ {Pick(U)}]
      /\ h[U] = IF U = {} THEN 0 ELSE f[Pick(U)] + h[U \ {Pick(U)}]
  BY DEF IsSum
<1>3. U # {} => Pick(U) \in U
  BY DEF Pick
<1> QED
  BY <1>1, <1>2, <1>3

(***************************************************************************)
(* There is such a function for every finite set.                          *)
(***************************************************************************)
LEMMA SumExists ==
  ASSUME NEW f, NEW S, IsFiniteSet(S)
  PROVE  \E g : IsSum(f, S, g)
<1> DEFINE Q == {T \in SUBSET S : ~ \E g : IsSum(f, T, g)}
<1> SUFFICES ASSUME Q # {}
             PROVE  FALSE
  OBVIOUS
<1>1. PICK T \in Q : \A U \in Q : ~(U \subseteq T /\ U # T)
  <2>1. Q \subseteq SUBSET S
    OBVIOUS
  <2> HIDE DEF Q
  <2> QED
    BY <2>1, SmallestSet
<1> DEFINE sum(U) == (CHOOSE g : IsSum(f, U, g))
           g == [U \in SUBSET T |-> IF U = {} THEN 0
                                    ELSE f[Pick(U)] + sum(U \ {Pick(U)})[U \ {Pick(U)}]]
<1>2. \A U \in SUBSET T : U # T => IsSum(f, U, sum(U)) /\ IsFiniteSet(U)
  BY <1>1, FS_Subset
<1>3. ASSUME NEW U \in SUBSET T, U # T
      PROVE  g[U] = sum(U)[U]
  <2> DEFINE V == U \ {Pick(U)}
  <2>1. g[U] = IF U = {} THEN 0 ELSE f[Pick(U)] + sum(V)[V]
    OBVIOUS
  <2>2. sum(U)[U] = IF U = {} THEN 0 ELSE f[Pick(U)] + sum(U)[V]
    <3> HIDE DEF sum
    <3> QED BY <1>2, <1>3 DEF IsSum
  <2>3. V \in SUBSET U /\ V # T
    BY <1>3
  <2>4. sum(U)[V] = sum(V)[V]
    <3>1. IsSum(f, U, sum(U)) /\ IsSum(f, V, sum(V)) /\ IsFiniteSet(U)
      BY <1>2, <1>3, <2>3
    <3> HIDE DEF sum
    <3> QED BY <3>1, <2>3, SumsAgree
  <2> QED
    BY <2>1, <2>2, <2>4
<1>4. IsSum(f, T, g)
  <2>1. ASSUME NEW U \in SUBSET T, U # {}
        PROVE  g[U \ {Pick(U)}] = sum(U \ {Pick(U)})[U \ {Pick(U)}]
    <3>1. Pick(U) \in U
      BY <2>1 DEF Pick
    <3> QED
      BY <1>3, <3>1
  <2> HIDE DEF sum
  <2>2. g = [U \in SUBSET T |-> IF U = {} THEN 0 ELSE f[Pick(U)] + g[U \ {Pick(U)}]]
    BY <2>1
  <2> HIDE DEF g
  <2> QED
    BY <2>2 DEF IsSum
<1> QED
  BY <1>1, <1>4

(***************************************************************************)
(* So the sum over a set takes one element, and the sum over the others.   *)
(***************************************************************************)
LEMMA SumUnfold ==
  ASSUME NEW f, NEW S, IsFiniteSet(S), S # {}
  PROVE  /\ Pick(S) \in S
         /\ SumFunctionOnSet(f, S) = f[Pick(S)] + SumFunctionOnSet(f, S \ {Pick(S)})
<1> DEFINE T == S \ {Pick(S)}
           sum(U) == (CHOOSE g : IsSum(f, U, g))
<1>1. IsFiniteSet(T)
  BY FS_Subset
<1>2. IsSum(f, S, sum(S)) /\ IsSum(f, T, sum(T))
  BY <1>1, SumExists
<1> HIDE DEF sum
<1>3. sum(S)[S] = f[Pick(S)] + sum(S)[T]
  BY <1>2 DEF IsSum
<1>4. sum(S)[T] = sum(T)[T]
  <2>1. T \in SUBSET S
    OBVIOUS
  <2> HIDE DEF T
  <2> QED
    BY <1>2, <2>1, SumsAgree
<1>5. SumFunctionOnSet(f, S) = sum(S)[S] /\ SumFunctionOnSet(f, T) = sum(T)[T]
  BY SumDef DEF sum
<1> QED
  BY <1>3, <1>4, <1>5 DEF Pick

(***************************************************************************)
(* The sum over nothing.                                                   *)
(***************************************************************************)
LEMMA SumEmpty ==
  ASSUME NEW f
  PROVE  SumFunctionOnSet(f, {}) = 0
<1>1. PICK g : IsSum(f, {}, g)
  BY SumExists, FS_EmptySet
<1>2. IsSum(f, {}, CHOOSE h : IsSum(f, {}, h))
  BY <1>1
<1> QED
  BY <1>2, SumDef DEF IsSum

(***************************************************************************)
(* The type of a sum.                                                      *)
(***************************************************************************)
LEMMA SumInt ==
  ASSUME NEW f, NEW S, IsFiniteSet(S), \A x \in S : f[x] \in Int
  PROVE  SumFunctionOnSet(f, S) \in Int
<1> DEFINE Q == {T \in SUBSET S : SumFunctionOnSet(f, T) \notin Int}
<1> SUFFICES ASSUME Q # {}
             PROVE  FALSE
  OBVIOUS
<1>1. PICK T \in Q : \A U \in Q : ~(U \subseteq T /\ U # T)
  <2>1. Q \subseteq SUBSET S
    OBVIOUS
  <2> HIDE DEF Q
  <2> QED
    BY <2>1, SmallestSet
<1>2. CASE T = {}
  BY <1>1, <1>2, SumEmpty
<1>3. CASE T # {}
  <2>1. /\ Pick(T) \in T
        /\ SumFunctionOnSet(f, T) = f[Pick(T)] + SumFunctionOnSet(f, T \ {Pick(T)})
    BY <1>3, SumUnfold, FS_Subset
  <2>2. SumFunctionOnSet(f, T \ {Pick(T)}) \in Int
    BY <1>1, <2>1
  <2> QED
    BY <1>1, <2>1, <2>2
<1> QED
  BY <1>2, <1>3

(***************************************************************************)
(* It does not matter which element is taken first.                        *)
(***************************************************************************)
LEMMA SumRemove ==
  ASSUME NEW f, NEW S, IsFiniteSet(S), \A x \in S : f[x] \in Int, NEW x \in S
  PROVE  SumFunctionOnSet(f, S) = f[x] + SumFunctionOnSet(f, S \ {x})
<1> DEFINE Sum(T) == SumFunctionOnSet(f, T)
           Q == {T \in SUBSET S : \E y \in T : Sum(T) # f[y] + Sum(T \ {y})}
<1> SUFFICES ASSUME Q # {}
             PROVE  FALSE
  OBVIOUS
<1>1. PICK T \in Q : \A U \in Q : ~(U \subseteq T /\ U # T)
  <2>1. Q \subseteq SUBSET S
    OBVIOUS
  <2> HIDE DEF Q
  <2> QED
    BY <2>1, SmallestSet
<1>2. \A U \in SUBSET S : IsFiniteSet(U) /\ Sum(U) \in Int
  BY SumInt, FS_Subset
<1>3. PICK y \in T : Sum(T) # f[y] + Sum(T \ {y})
  OBVIOUS
<1> DEFINE z == Pick(T)
<1>4. z \in T /\ Sum(T) = f[z] + Sum(T \ {z})
  BY <1>2, <1>3, SumUnfold
<1> HIDE DEF Sum, z
<1>5. y # z
  BY <1>3, <1>4
<1>6. Sum(T \ {z}) = f[y] + Sum((T \ {z}) \ {y})
  BY <1>1, <1>3, <1>4, <1>5
<1>7. Sum(T \ {y}) = f[z] + Sum((T \ {y}) \ {z})
  BY <1>1, <1>3, <1>4, <1>5
<1>8. (T \ {z}) \ {y} = (T \ {y}) \ {z}
  OBVIOUS
<1>9. f[y] \in Int /\ f[z] \in Int /\ Sum((T \ {y}) \ {z}) \in Int
  BY <1>2, <1>3, <1>4
<1>10. \A i, j, k \in Int : i + (j + k) = j + (i + k)
  OBVIOUS
<1>11. Sum(T) = f[z] + (f[y] + Sum((T \ {y}) \ {z}))
  BY <1>4, <1>6, <1>8
<1>12. Sum(T) = f[y] + (f[z] + Sum((T \ {y}) \ {z}))
  BY <1>9, <1>10, <1>11
<1> QED
  BY <1>3, <1>7, <1>12

(***************************************************************************)
(* Adding an element to the set adds its value.                            *)
(***************************************************************************)
LEMMA SumAdd ==
  ASSUME NEW f, NEW S, IsFiniteSet(S), NEW x, x \notin S, \A y \in S \cup {x} : f[y] \in Int
  PROVE  SumFunctionOnSet(f, S \cup {x}) = SumFunctionOnSet(f, S) + f[x]
<1>1. IsFiniteSet(S \cup {x})
  BY FS_AddElement
<1>2. SumFunctionOnSet(f, S \cup {x}) = f[x] + SumFunctionOnSet(f, (S \cup {x}) \ {x})
  BY <1>1, SumRemove
<1>3. (S \cup {x}) \ {x} = S
  OBVIOUS
<1>4. SumFunctionOnSet(f, S \cup {x}) = f[x] + SumFunctionOnSet(f, S)
  BY <1>2, <1>3, Zenon
<1>5. SumFunctionOnSet(f, S) \in Int /\ f[x] \in Int
  BY SumInt
<1> QED
  BY <1>4, <1>5

-----------------------------------------------------------------------------

OneWorker == \A v, w \in Workers : v = w

(***************************************************************************)
(* Administration moves no usage and never re-creates a subscription.      *)
(***************************************************************************)
LEMMA AdminSteps ==
  ASSUME Inv, ReadsAreCurrent, NEW s \in Subs, Subscriptions(s)
  PROVE  /\ UNCHANGED <<submit, is_applied, subscription_id, wallets, balance, broker,
                        cache, pc, task, session, faults>>
         /\ \A r \in Subs : subs'[r].tokens = subs[r].tokens /\ subs'[r].money = subs[r].money
         /\ \A r \in Subs : subs'[r].status = "absent" => subs'[r].account = None
         /\ L!Next \/ UNCHANGED L!vars
<1> DEFINE Usage == \A r \in Subs : /\ subs'[r].tokens = subs[r].tokens
                                    /\ subs'[r].money = subs[r].money
           Created == \A r \in Subs : subs'[r].status = "absent" => subs'[r].account = None
           Frame == UNCHANGED <<submit, is_applied, subscription_id, wallets, balance,
                                broker, cache, pc, task, session, faults>>
           quota == [r \in Subs |-> [account |-> subs[r].account, limit |-> subs[r].limit,
                                     tokens |-> subs[r].tokens, money |-> subs[r].money]]
<1> USE DEF submit
<1>1. /\ subs \in [Subs -> Subscription]
      /\ \A r \in Subs : subs[r].status = "absent" => subs[r].account = None
      /\ \A r \in Subs : /\ subs[r].status = "absent" => subs[r].window = "none"
                         /\ subs[r].window = "none" => subs[r].limit = 0
  BY DEF Inv, TypeOK, Books, SessionSound, ReadsAreCurrent
<1>2. ASSUME NEW a \in Accounts, CreateSubscription(s, a)
      PROVE  Frame /\ Usage /\ Created /\ L!Open(s, a)
  <2>1. Frame /\ Usage /\ Created
    BY <1>1, <1>2 DEF CreateSubscription, Subscription
  <2>2. quota[s].account = None
    BY <1>1, <1>2 DEF CreateSubscription
  <2>3. quota' = [quota EXCEPT ![s].account = a]
    BY <1>1, <1>2 DEF CreateSubscription, Subscription
  <2> QED
    BY <2>1, <2>2, <2>3 DEF L!Open
<1>3. ASSUME NEW status \in {"active", "deactive"}, UpdateSubscription(s, status)
      PROVE  Frame /\ Usage /\ Created /\ quota' = quota
  BY <1>1, <1>3 DEF UpdateSubscription, Subscription
<1>4. ASSUME NEW limit \in Limits, ProvisionSubscription(s, limit)
      PROVE  Frame /\ Usage /\ Created /\ L!Grant(s, limit)
  <2>1. Frame /\ Usage /\ Created
    BY <1>1, <1>4 DEF ProvisionSubscription, Subscription
  <2>2. quota[s].limit <= limit
    BY <1>1, <1>4, SettlementAssumption DEF ProvisionSubscription
  <2>3. quota' = [quota EXCEPT ![s].limit = limit]
    BY <1>1, <1>4, SMTT(20) DEF ProvisionSubscription, Subscription
  <2> QED
    BY <2>1, <2>2, <2>3 DEF L!Grant
<1>5. ASSUME CloseSubscription(s)
      PROVE  Frame /\ Usage /\ Created /\ quota' = quota
  BY <1>1, <1>5 DEF CloseSubscription, Subscription
<1>6. Frame /\ Usage /\ Created /\ (L!Next \/ quota' = quota)
  BY <1>2, <1>3, <1>4, <1>5 DEF Subscriptions, CancelSubscription, L!Next
<1> QED
  BY <1>6 DEF L!vars

(***************************************************************************)
(* A commit posts its change, in full, to one source.                      *)
(***************************************************************************)
LEMMA CommitPosts ==
  ASSUME Inv, ReadsAreCurrent, NEW w \in Workers, pc[w] = "commit", Publish(w), req' = req
  PROVE  L!Next
<1> DEFINE posted == {x \in Changes : is_applied[x]}
           quota == [r \in Subs |-> [account |-> subs[r].account, limit |-> subs[r].limit,
                                     tokens |-> subs[r].tokens, money |-> subs[r].money]]
<1>1. TypeOK /\ Books /\ OneSettlerPerChange
  BY DEF Inv
<1>2. PICK c \in Changes : c = task[w]
  BY <1>1, WorkerTypes
<1>3. /\ Wallet(w) \in Accounts /\ Wallet(w) = req[c].account
      /\ Amount(c) \in Nat /\ Tokens(c) \in Nat /\ Delta(c) \in Int /\ Kind(c) \in Kinds
  BY <1>1, <1>2, WorkerTypes, RequestTypes DEF Wallet, Account
<1>4. /\ c \notin posted
      /\ posted' = posted \cup {c}
      /\ seen[w] = balance[req[c].account]
      /\ subscription_id[c] = None
  BY <1>1, <1>2, <1>3 DEF OneSettlerPerChange, InTx, Publish, TypeOK, ReadsAreCurrent,
                          AfterSubscription, ReadIsCurrent
<1>5. CASE chosen[w] = None
  <2>1. L!Signed(req[c].content) = Delta(c)
    BY <1>3 DEF L!Signed, Delta, Kind, Amount, Kinds
  <2>2. balance' = [balance EXCEPT ![req[c].account] = @ + L!Signed(req[c].content)]
    <3>1. balance \in [Accounts -> Int]
      BY <1>1 DEF TypeOK
    <3>2. NewBalance(w) = balance[req[c].account] + Delta(c)
      BY <1>2, <1>4, <1>5 DEF NewBalance
    <3>3. CASE Delta(c) = 0
      BY <1>3, <1>4, <2>1, <3>1, <3>2, <3>3 DEF Publish
    <3>4. CASE Delta(c) # 0
      BY <1>3, <1>4, <2>1, <3>1, <3>2, <3>4 DEF Publish
    <3> QED
      BY <3>3, <3>4
  <2>3. subscription_id' = subscription_id /\ subs' = subs
    BY <1>1, <1>2, <1>4, <1>5 DEF Publish, TypeOK
  <2>4. L!PostToWallet(c)
    BY <1>4, <2>2, <2>3 DEF L!PostToWallet
  <2> QED
    BY <2>4 DEF L!Next
<1>6. CASE chosen[w] # None
  <2>0. PICK s \in Subs : s = chosen[w]
    BY <1>1, <1>6 DEF TypeOK
  <2>1. /\ Kind(c) = "SpendToken" /\ subs[s].account = Wallet(w)
        /\ subs[s].tokens + Tokens(c) <= subs[s].limit
        /\ seenTokens[w] = subs[s].tokens /\ seenMoney[w] = subs[s].money
    BY <1>1, <1>2, <1>6, <2>0 DEF Books, SessionSound, ReadsAreCurrent,
                                     ReadIsCurrent, AfterSubscription
  <2>2. balance' = balance
    BY <1>6 DEF Publish, NewBalance
  <2>3. subscription_id' = [subscription_id EXCEPT ![c] = s]
    BY <1>2, <2>0 DEF Publish
  <2>4. quota' = [quota EXCEPT ![s].tokens = @ + req[c].content.tokens,
                               ![s].money = @ + req[c].content.amount]
    <3> DEFINE row == [subs[s] EXCEPT !.tokens = subs[s].tokens + Tokens(c),
                                      !.money = subs[s].money + Amount(c)]
    <3>1. subs \in [Subs -> Subscription]
      BY <1>1 DEF TypeOK
    <3>2. subs' = [subs EXCEPT ![s] = row]
      BY <1>2, <1>6, <2>0, <2>1, <3>1 DEF Publish, Subscription
    <3>3. subs'[s] = row /\ \A r \in Subs \ {s} : subs'[r] = subs[r]
      BY <3>1, <3>2
    <3>4. /\ row.account = subs[s].account /\ row.limit = subs[s].limit
          /\ row.tokens = subs[s].tokens + req[c].content.tokens
          /\ row.money = subs[s].money + req[c].content.amount
      BY <3>1 DEF Subscription, Tokens, Amount
    <3> HIDE DEF row
    <3> QED
      BY <3>3, <3>4
  <2>5. quota[s].account = req[c].account
        /\ quota[s].tokens + req[c].content.tokens <= quota[s].limit
    BY <1>3, <2>1 DEF Tokens
  <2>6. L!PostToSubscription(c, s)
    BY <1>4, <2>1, <2>2, <2>3, <2>4, <2>5 DEF L!PostToSubscription, Kind
  <2> QED
    BY <2>6 DEF L!Next
<1> QED
  BY <1>5, <1>6

(***************************************************************************)
(* A step of one worker leaves the others where they are, and writes no    *)
(* table unless it commits.                                                *)
(***************************************************************************)
Alone(w) ==
  /\ req' = req
  /\ \A v \in Workers \ {w} :
       /\ pc'[v] = pc[v] /\ task'[v] = task[v] /\ seen'[v] = seen[v]
       /\ created'[v] = created[v] /\ chosen'[v] = chosen[v]
       /\ seenTokens'[v] = seenTokens[v] /\ seenMoney'[v] = seenMoney[v]

LEMMA WorkerAlone ==
  ASSUME TypeOK, NEW w \in Workers,
         Step(w) \/ Fail(w) \/ \E c \in Changes : Fetch(w, c)
  PROVE  /\ Alone(w)
         /\ UNCHANGED tables \/ (pc[w] = "commit" /\ Publish(w))
<1> USE DEF submit, tables, session, Alone, TypeOK
<1>1. CASE SkipApplied(w) \/ InsertConflict(w) \/ SetCache(w) \/ StatementFails(w) \/ Crash(w)
  BY <1>1 DEF SkipApplied, InsertConflict, SetCache, StatementFails, Crash, Return, EndSession
<1>2. CASE Commit(w) \/ LostCommitReply(w)
  BY <1>2 DEF Commit, LostCommitReply, Return, EndSession
<1>3. CASE LockChange(w) \/ UpdateSubscriptionUsage(w) \/ UpdateWallet(w)
           \/ \E c \in Changes : Fetch(w, c)
  BY <1>3 DEF LockChange, UpdateSubscriptionUsage, UpdateWallet, Fetch
<1>4. CASE SelectWallet(w)
  BY <1>4 DEF SelectWallet
<1>5. CASE InsertWallet(w)
  BY <1>5 DEF InsertWallet
<1>6. CASE SelectSubscription(w)
  BY <1>6 DEF SelectSubscription
<1> QED
  BY <1>1, <1>2, <1>3, <1>4, <1>5, <1>6 DEF Step, Fail

(***************************************************************************)
(* Another transaction of the account cannot be between its read and its   *)
(* commit.  This is what the code lacks a lock for.                        *)
(***************************************************************************)
Reading == AfterSubscription \cup {"select_subscription"}

Apart(Span) ==
  \A v, w \in Workers :
    pc[v] \in Span /\ pc[w] \in Span /\ Wallet(v) = Wallet(w) => v = w

ReadsApart == Apart(Reading)

\* The same up to the write of the cache.
SettlementsApart == Apart(Reading \cup {"set_cache"})

\* One worker is apart from all others.
LEMMA OneWorkerIsApart == OneWorker => ReadsApart /\ SettlementsApart
  BY DEF OneWorker, ReadsApart, SettlementsApart, Apart

(***************************************************************************)
(* A commit leaves current what the transactions of other accounts read.   *)
(***************************************************************************)
LEMMA OthersStayCurrent ==
  ASSUME Inv, ReadsApart, NEW w \in Workers, NEW v \in Workers \ {w}, ReadIsCurrent(v), Alone(w),
         UNCHANGED tables \/ (pc[w] = "commit" /\ Publish(w))
  PROVE  ReadIsCurrent(v)'
<1> USE DEF tables
<1>1. TypeOK /\ SessionSound
  BY DEF Inv, Books
<1>2. /\ pc'[v] = pc[v] /\ Wallet(v)' = Wallet(v) /\ seen'[v] = seen[v]
      /\ chosen'[v] = chosen[v] /\ seenTokens'[v] = seenTokens[v]
      /\ seenMoney'[v] = seenMoney[v]
  BY DEF Alone, Wallet, Account
<1>3. CASE UNCHANGED tables
  BY <1>2, <1>3 DEF ReadIsCurrent
<1>4. CASE pc[w] = "commit" /\ Publish(w) /\ pc[v] \in Reading
  <2>1. Wallet(v) # Wallet(w) /\ Wallet(v) \in Accounts /\ Wallet(w) \in Accounts
    BY <1>1, <1>4, WorkerTypes DEF ReadsApart, Apart, Reading, AfterSubscription
  <2>2. balance'[Wallet(v)] = balance[Wallet(v)]
    BY <1>1, <1>4, <2>1 DEF Publish, TypeOK
  <2>3. ASSUME pc[v] \in AfterSubscription, chosen[v] # None
        PROVE  subs'[chosen[v]] = subs[chosen[v]]
    <3>1. chosen[v] \in Subs /\ subs[chosen[v]].account = Wallet(v)
      BY <1>1, <2>3 DEF TypeOK, SessionSound
    <3>2. chosen[w] # None => chosen[w] \in Subs /\ subs[chosen[w]].account = Wallet(w)
      BY <1>1, <1>4 DEF TypeOK, SessionSound, AfterSubscription
    <3>3. chosen[w] # chosen[v]
      BY <2>1, <2>3, <3>1, <3>2
    <3> QED
      BY <1>1, <1>4, <3>1, <3>3 DEF Publish, TypeOK
  <2>4. pc[v] \notin {"idle", "select_change", "select_wallet", "insert_wallet"}
    BY <1>4 DEF Reading, AfterSubscription
  <2> QED
    BY <1>2, <2>2, <2>3, <2>4 DEF ReadIsCurrent
<1>5. CASE pc[v] \notin Reading
  BY <1>2, <1>5 DEF ReadIsCurrent, Reading
<1> QED
  BY <1>3, <1>4, <1>5

(***************************************************************************)
(* What the worker itself has read stays current until its transaction     *)
(* ends, and a new transaction has read nothing.                           *)
(***************************************************************************)
LEMMA OwnReadIsCurrent ==
  ASSUME Inv, NEW w \in Workers, ReadIsCurrent(w),
         Step(w) \/ Fail(w) \/ \E c \in Changes : Fetch(w, c)
  PROVE  ReadIsCurrent(w)'
<1> USE DEF submit, tables, session
<1>1. TypeOK /\ Books /\ SessionSound /\ AppliedToWallet
  BY DEF Inv, Books
<1>2. ASSUME EndSession(w)
      PROVE  ReadIsCurrent(w)'
  BY <1>1, <1>2 DEF EndSession, TypeOK, ReadIsCurrent, AfterSubscription
<1>3. CASE Fail(w) \/ SkipApplied(w) \/ InsertConflict(w) \/ SetCache(w)
  BY <1>2, <1>3 DEF Fail, StatementFails, Crash, LostCommitReply, SkipApplied,
                    InsertConflict, SetCache, Return
<1>4. CASE Commit(w)
  <2>1. pc'[w] = "set_cache"
    BY <1>1, <1>4 DEF Commit, TypeOK
  <2> QED
    BY <2>1 DEF ReadIsCurrent, AfterSubscription
<1>5. CASE \E c \in Changes : Fetch(w, c)
  <2>1. pc[w] = "idle" /\ pc'[w] = "select_change" /\ UNCHANGED session
    BY <1>1, <1>5 DEF Fetch, TypeOK
  <2> QED
    BY <2>1 DEF ReadIsCurrent, AfterSubscription
<1>6. CASE LockChange(w) \/ UpdateSubscriptionUsage(w) \/ UpdateWallet(w)
  <2>1. UNCHANGED <<req, tables, task, session>>
    BY <1>6 DEF LockChange, UpdateSubscriptionUsage, UpdateWallet
  <2>2. \/ pc[w] = "select_change" /\ pc'[w] = "select_wallet"
        \/ pc[w] \in AfterSubscription /\ pc'[w] \in AfterSubscription
    BY <1>1, <1>6 DEF LockChange, UpdateSubscriptionUsage, UpdateWallet,
                      AfterSubscription, TypeOK
  <2> QED
    BY <2>1, <2>2 DEF ReadIsCurrent, AfterSubscription, Wallet, Account
<1>7. CASE SelectWallet(w)
  <2>1. UNCHANGED <<req, tables, task, chosen, seenTokens, seenMoney>> /\ chosen[w] = None
    BY <1>1, <1>7 DEF SelectWallet, SessionSound, AfterSubscription
  <2>2. \/ pc'[w] = "insert_wallet" /\ seen'[w] = 0
        \/ pc'[w] # "idle" /\ pc'[w] \notin {"select_change", "select_wallet", "insert_wallet"}
           /\ seen'[w] = balance[Wallet(w)]
    BY <1>1, <1>7 DEF SelectWallet, AfterWallet, ReadIsCurrent, TypeOK
  <2> QED
    BY <2>1, <2>2 DEF ReadIsCurrent, AfterSubscription, Wallet, Account
<1>8. CASE InsertWallet(w)
  <2>1. UNCHANGED <<req, tables, task, seen, chosen, seenTokens, seenMoney>>
        /\ chosen[w] = None
    BY <1>1, <1>8 DEF InsertWallet, SessionSound, AfterSubscription
  <2>2. seen[w] = 0 /\ balance[Wallet(w)] = 0
    BY <1>1, <1>8, WorkerTypes DEF InsertWallet, ReadIsCurrent, AppliedToWallet
  <2>3. pc'[w] \in {"select_subscription", "update_wallet"}
    BY <1>1, <1>8 DEF InsertWallet, AfterWallet, TypeOK
  <2> QED
    BY <2>1, <2>2, <2>3 DEF ReadIsCurrent, AfterSubscription, Wallet, Account
<1>9. CASE SelectSubscription(w)
  <2>1. UNCHANGED <<req, tables, task, seen>>
        /\ seen[w] = balance[Wallet(w)] /\ chosen[w] = None
    BY <1>1, <1>9 DEF SelectSubscription, ReadIsCurrent, SessionSound, AfterSubscription
  <2>2. pc'[w] \in AfterSubscription
    BY <1>1, <1>9 DEF SelectSubscription, AfterSubscription, TypeOK
  <2>3. chosen'[w] # None => /\ seenTokens'[w] = subs[chosen'[w]].tokens
                             /\ seenMoney'[w] = subs[chosen'[w]].money
    BY <1>1, <1>9, <2>1 DEF SelectSubscription, TypeOK
  <2> QED
    BY <2>1, <2>2, <2>3 DEF ReadIsCurrent, AfterSubscription, Wallet, Account
<1> QED
  BY <1>3, <1>4, <1>5, <1>6, <1>7, <1>8, <1>9 DEF Step

(***************************************************************************)
(* While settlements of an account are apart, reads stay current.          *)
(***************************************************************************)
LEMMA ReadsStep == Inv /\ ReadsApart /\ ReadsAreCurrent /\ [Next]_vars => ReadsAreCurrent'
<1> SUFFICES ASSUME Inv, ReadsApart, ReadsAreCurrent, [Next]_vars
             PROVE  ReadsAreCurrent'
  OBVIOUS
<1> USE DEF submit, tables, broker, session
<1>1. TypeOK
  BY DEF Inv
<1>2. ASSUME UNCHANGED <<req, tables, pc, task, session>>
      PROVE  ReadsAreCurrent'
  BY <1>2 DEF ReadsAreCurrent, ReadIsCurrent, Wallet, Account
<1>3. ASSUME NEW s \in Subs, Subscriptions(s)
      PROVE  ReadsAreCurrent'
  <2>1. /\ UNCHANGED <<req, is_applied, subscription_id, balance, pc, task, session>>
        /\ \A r \in Subs : subs'[r].tokens = subs[r].tokens /\ subs'[r].money = subs[r].money
        /\ \A r \in Subs : subs'[r].status = "absent" => subs'[r].account = None
    BY <1>3, AdminSteps
  <2> QED
    BY <1>1, <2>1 DEF ReadsAreCurrent, ReadIsCurrent, Wallet, Account, TypeOK
<1>4. ASSUME NEW w \in Workers, Step(w) \/ Fail(w) \/ \E c \in Changes : Fetch(w, c)
      PROVE  ReadsAreCurrent'
  <2>1. Alone(w) /\ (UNCHANGED tables \/ (pc[w] = "commit" /\ Publish(w)))
    BY <1>1, <1>4, WorkerAlone
  <2>2. ASSUME NEW v \in Workers
        PROVE  ReadIsCurrent(v)'
    <3>1. ReadIsCurrent(v)
      BY DEF ReadsAreCurrent
    <3>2. CASE v = w
      BY <1>4, <3>1, <3>2, OwnReadIsCurrent
    <3>3. CASE v # w
      BY <2>1, <3>1, <3>3, OthersStayCurrent
    <3> QED
      BY <3>2, <3>3
  <2>3. /\ \A c \in Changes : ~is_applied'[c] => subscription_id'[c] = None
        /\ \A s \in Subs : subs'[s].status = "absent" => subs'[s].account = None
    <3>1. CASE UNCHANGED tables
      BY <3>1 DEF ReadsAreCurrent
    <3>2. CASE pc[w] = "commit" /\ Publish(w)
      <4>1. task[w] \in Changes
        BY <1>1, <3>2 DEF TypeOK
      <4>2. \A s \in Subs : /\ subs'[s].status = subs[s].status
                             /\ subs'[s].account = subs[s].account
        BY <1>1, <3>2 DEF Publish, TypeOK, Subscription
      <4> QED
        BY <1>1, <3>2, <4>1, <4>2 DEF Publish, TypeOK, ReadsAreCurrent
    <3> QED
      BY <2>1, <3>1, <3>2
  <2> QED
    BY <2>2, <2>3 DEF ReadsAreCurrent
<1>5. ASSUME \/ \E c \in Changes : Submit(c) \/ Redeliver(c)
             \/ \E a \in Accounts : ExpireCache(a)
             \/ UNCHANGED vars
      PROVE  UNCHANGED <<req, tables, pc, task, session>>
  BY <1>5 DEF vars, Submit, InsertChange, CheckWithdraw, InsertWithdraw, Enqueue,
         LostPushReply, EnqueueFails, Redeliver, ExpireCache
<1> QED
  BY <1>2, <1>3, <1>4, <1>5 DEF Next

(***************************************************************************)
(* Every step of settlement is a step of the ledger or changes nothing the *)
(* ledger sees.                                                            *)
(***************************************************************************)
LEMMA StepSimulation == Inv /\ ReadsAreCurrent /\ [Next]_vars => [L!Next]_(L!vars)
<1> SUFFICES ASSUME Inv, ReadsAreCurrent, [Next]_vars
             PROVE  L!Next \/ UNCHANGED L!vars
  OBVIOUS
<1> USE DEF submit, tables, broker, session
<1>1. ASSUME UNCHANGED <<req, tables>>
      PROVE  UNCHANGED L!vars
  BY <1>1 DEF L!vars
<1>2. ASSUME NEW s \in Subs, Subscriptions(s)
      PROVE  L!Next \/ UNCHANGED L!vars
  BY <1>2, AdminSteps
<1>3. ASSUME NEW w \in Workers, Step(w) \/ Fail(w)
      PROVE  L!Next \/ UNCHANGED L!vars
  <2>1. CASE Commit(w) \/ LostCommitReply(w)
    BY <2>1, CommitPosts DEF Commit, LostCommitReply
  <2>2. CASE ~(Commit(w) \/ LostCommitReply(w))
    BY <1>1, <1>3, <2>2
       DEF Step, Fail, LockChange, SkipApplied, SelectWallet, InsertWallet,
           InsertConflict, SelectSubscription, UpdateSubscriptionUsage,
           UpdateWallet, SetCache, StatementFails, Crash
  <2> QED
    BY <2>1, <2>2
<1>4. ASSUME \/ \E c \in Changes : Submit(c) \/ Redeliver(c)
             \/ \E a \in Accounts : ExpireCache(a)
             \/ \E w \in Workers, c \in Changes : Fetch(w, c)
             \/ UNCHANGED vars
      PROVE  UNCHANGED L!vars
  BY <1>1, <1>4 DEF vars, Submit, InsertChange, CheckWithdraw, InsertWithdraw, Enqueue,
         LostPushReply, EnqueueFails, Redeliver, ExpireCache, Fetch
<1> QED
  BY <1>2, <1>3, <1>4 DEF Next

(***************************************************************************)
(* With any number of workers, what a transaction has read is current when *)
(* it writes, unless another transaction of its account was between its    *)
(* own read and commit.                                                    *)
(***************************************************************************)
THEOREM ReadsAreCurrentWhenApart == Spec /\ []ReadsApart => []ReadsAreCurrent
<1>1. Init => ReadsAreCurrent
  BY DEF Init, ReadsAreCurrent, ReadIsCurrent, AfterSubscription
<1>2. Inv /\ ReadsApart /\ ReadsAreCurrent /\ [Next]_vars => ReadsAreCurrent'
  BY ReadsStep
<1> QED
  BY <1>1, <1>2, Invariance, PTL DEF Spec

(***************************************************************************)
(* With one worker, what a transaction has read is current when it writes. *)
(***************************************************************************)
THEOREM ReadsAreCurrentAlways == OneWorker /\ Spec => []ReadsAreCurrent
<1> SUFFICES ASSUME OneWorker
             PROVE  Spec => []ReadsAreCurrent
  OBVIOUS
<1>1. ReadsApart
  BY OneWorkerIsApart
<1> QED
  BY <1>1, ReadsAreCurrentWhenApart, PTL

(***************************************************************************)
(* As long as the transactions of one account are apart, settlement        *)
(* implements the ledger, however many run: each change is posted at most  *)
(* once, in one step, in full and to one source.                           *)
(***************************************************************************)
THEOREM SettlementIsLedgerWhenApart == Spec /\ []ReadsApart => ImplementsLedger
<1>1. Init => L!Init
  BY DEF Init, L!Init
<1>2. Spec /\ []ReadsApart => []ReadsAreCurrent
  BY ReadsAreCurrentWhenApart
<1> QED
  BY <1>1, <1>2, Invariance, StepSimulation, PTL
     DEF Spec, ImplementsLedger, L!Spec

(***************************************************************************)
(* With one worker, settlement implements the ledger.                      *)
(***************************************************************************)
THEOREM SerialSettlementIsLedger == OneWorker /\ Spec => ImplementsLedger
<1> SUFFICES ASSUME OneWorker
             PROVE  Spec => ImplementsLedger
  OBVIOUS
<1>1. ReadsApart
  BY OneWorkerIsApart
<1> QED
  BY <1>1, SettlementIsLedgerWhenApart, PTL

(***************************************************************************)
(* What a worker is about to cache is the committed balance, so an entry   *)
(* can only be behind while its worker is about to write it.               *)
(***************************************************************************)
CacheInv ==
  /\ \A w \in Workers : pc[w] = "set_cache" => NewBalance(w) = balance[Wallet(w)]
  /\ CacheIsLatest

LEMMA CachedStep ==
  ASSUME Inv, ReadsAreCurrent, SettlementsApart, CacheInv,
         NEW w \in Workers, Step(w) \/ Fail(w) \/ \E c \in Changes : Fetch(w, c)
  PROVE  CacheInv'
<1> USE DEF submit, tables, session
<1>1. TypeOK
  BY DEF Inv
<1>2. Alone(w) /\ (UNCHANGED tables \/ (pc[w] = "commit" /\ Publish(w)))
  BY <1>1, WorkerAlone
<1>3. ASSUME NEW v \in Workers \ {w}
      PROVE  /\ pc'[v] = pc[v] /\ Wallet(v)' = Wallet(v)
             /\ NewBalance(v)' = NewBalance(v)
  BY <1>2 DEF Alone, Wallet, NewBalance, Account, Delta, Kind, Amount
<1>4. ASSUME UNCHANGED tables, pc'[w] # "set_cache",
             pc[w] = "set_cache" => cache'[Wallet(w)] = balance[Wallet(w)] \/ faults' # 0,
             \A a \in Accounts : cache'[a] = cache[a] \/ cache'[a] = balance[a],
             faults' = 0 => faults = 0
      PROVE  CacheInv'
  <2>1. \A v \in Workers : pc'[v] = "set_cache" => NewBalance(v)' = balance'[Wallet(v)']
    BY <1>3, <1>4 DEF CacheInv
  <2>2. ASSUME faults' = 0, NEW a \in Accounts, cache'[a] \notin {None, balance'[a]}
        PROVE  \E v \in Workers : pc'[v] = "set_cache" /\ Wallet(v)' = a
    <3>1. cache[a] \notin {None, balance[a]}
      BY <1>4, <2>2
    <3>2. PICK v \in Workers : pc[v] = "set_cache" /\ Wallet(v) = a
      BY <1>4, <2>2, <3>1 DEF CacheInv, CacheIsLatest
    <3>3. v # w
      BY <1>4, <2>2, <3>2
    <3> QED
      BY <1>3, <3>2, <3>3
  <2> QED
    BY <2>1, <2>2 DEF CacheInv, CacheIsLatest
<1>5. CASE Fail(w)
  <2>1. faults' # 0
    BY <1>1, <1>5 DEF Fail, StatementFails, LostCommitReply, Crash, Fault, TypeOK
  <2>2. pc'[w] = "idle"
    BY <1>1, <1>5 DEF Fail, StatementFails, LostCommitReply, Crash, Return, EndSession, TypeOK
  <2>3. ASSUME NEW v \in Workers, pc'[v] = "set_cache"
        PROVE  NewBalance(v)' = balance'[Wallet(v)']
    <3>1. v # w /\ pc[v] = "set_cache" /\ NewBalance(v) = balance[Wallet(v)]
      BY <1>3, <2>2, <2>3 DEF CacheInv
    <3>2. Wallet(v) \in Accounts
      BY <1>1, <3>1, WorkerTypes
    <3>3. pc[w] = "commit" => Wallet(v) # Wallet(w)
      BY <3>1 DEF SettlementsApart, Apart, Reading, AfterSubscription
    <3>4. balance'[Wallet(v)] = balance[Wallet(v)]
      BY <1>1, <1>2, <3>2, <3>3 DEF Publish, TypeOK
    <3> QED
      BY <1>3, <3>1, <3>4
  <2> QED
    BY <2>1, <2>3 DEF CacheInv, CacheIsLatest
<1>6. CASE Commit(w)
  <2>1. pc[w] = "commit" /\ pc'[w] = "set_cache" /\ UNCHANGED <<req, cache, task, session, faults>>
    BY <1>1, <1>6 DEF Commit, TypeOK
  <2>2. Wallet(w) \in Accounts /\ Wallet(w)' = Wallet(w) /\ NewBalance(w)' = NewBalance(w)
    BY <1>1, <2>1, WorkerTypes DEF Wallet, NewBalance, Account, Delta, Kind, Amount
  <2>3. seen[w] = balance[Wallet(w)]
    BY <2>1 DEF ReadsAreCurrent, ReadIsCurrent, AfterSubscription
  <2>4. balance' = [balance EXCEPT ![Wallet(w)] = NewBalance(w)]
    BY <1>1, <1>6, <2>3 DEF Commit, Publish, TypeOK
  <2>5. ASSUME NEW v \in Workers, pc'[v] = "set_cache"
        PROVE  NewBalance(v)' = balance'[Wallet(v)']
    <3>1. CASE v = w
      BY <1>1, <2>2, <2>4, <3>1 DEF TypeOK
    <3>2. CASE v # w
      <4>1. pc[v] = "set_cache" /\ NewBalance(v) = balance[Wallet(v)]
        BY <1>3, <2>5, <3>2 DEF CacheInv
      <4>2. Wallet(v) \in Accounts /\ Wallet(v) # Wallet(w)
        BY <1>1, <2>1, <3>2, <4>1, WorkerTypes DEF SettlementsApart, Apart, Reading, AfterSubscription
      <4> QED
        BY <1>1, <1>3, <2>4, <3>2, <4>1, <4>2 DEF TypeOK
    <3> QED
      BY <3>1, <3>2
  <2>6. ASSUME faults' = 0, NEW a \in Accounts, cache'[a] \notin {None, balance'[a]}
        PROVE  \E v \in Workers : pc'[v] = "set_cache" /\ Wallet(v)' = a
    <3>1. CASE a = Wallet(w)
      BY <2>1, <2>2, <3>1
    <3>2. CASE a # Wallet(w)
      <4>1. faults = 0 /\ cache[a] \notin {None, balance[a]}
        BY <1>1, <2>1, <2>4, <2>6, <3>2 DEF TypeOK
      <4>2. PICK v \in Workers : pc[v] = "set_cache" /\ Wallet(v) = a
        BY <4>1 DEF CacheInv, CacheIsLatest
      <4>3. v # w
        BY <3>2, <4>2
      <4> QED
        BY <1>3, <4>2, <4>3
    <3> QED
      BY <3>1, <3>2
  <2> QED
    BY <2>5, <2>6 DEF CacheInv, CacheIsLatest
<1>7. CASE SetCache(w)
  <2>1. /\ pc[w] = "set_cache" /\ pc'[w] = "idle" /\ UNCHANGED <<tables, faults>>
        /\ cache' = [cache EXCEPT ![Wallet(w)] = NewBalance(w)]
    BY <1>1, <1>7 DEF SetCache, Return, EndSession, TypeOK
  <2>2. Wallet(w) \in Accounts /\ NewBalance(w) = balance[Wallet(w)]
    BY <1>1, <2>1, WorkerTypes DEF CacheInv
  <2>3. /\ cache'[Wallet(w)] = balance[Wallet(w)]
        /\ \A a \in Accounts : cache'[a] = cache[a] \/ cache'[a] = balance[a]
    BY <1>1, <2>1, <2>2 DEF TypeOK
  <2> QED
    BY <1>4, <2>1, <2>3
<1>8. CASE ~(Fail(w) \/ Commit(w) \/ SetCache(w))
  <2>1. /\ UNCHANGED <<tables, cache, faults>>
        /\ pc[w] # "set_cache" /\ pc'[w] # "set_cache"
    BY <1>1, <1>8
       DEF Step, LockChange, SkipApplied, SelectWallet, AfterWallet, InsertWallet,
           InsertConflict, SelectSubscription, UpdateSubscriptionUsage, UpdateWallet,
           Fetch, Return, EndSession, TypeOK
  <2> QED
    BY <1>4, <2>1
<1> QED
  BY <1>5, <1>6, <1>7, <1>8

(***************************************************************************)
(* As long as the settlements of one account are apart up to their cache   *)
(* writes, an entry that has not expired holds the committed balance,      *)
(* unless its worker is about to write it or something has failed.         *)
(***************************************************************************)
THEOREM CacheIsLatestWhenApart == Spec /\ []SettlementsApart => []CacheIsLatest
<1>1. Init => CacheInv
  BY DEF Init, CacheInv, CacheIsLatest
<1>2. Inv /\ ReadsAreCurrent /\ SettlementsApart /\ CacheInv /\ [Next]_vars => CacheInv'
  <2> SUFFICES ASSUME Inv, ReadsAreCurrent, SettlementsApart, CacheInv, [Next]_vars
               PROVE  CacheInv'
    OBVIOUS
  <2> USE DEF submit, tables, session, broker
  <2>1. ASSUME UNCHANGED <<req, balance, pc, task, session>>,
               faults' = 0 => faults = 0,
               \A a \in Accounts : cache'[a] \in {None, cache[a]}
        PROVE  CacheInv'
    <3>1. \A v \in Workers : /\ pc'[v] = pc[v] /\ Wallet(v)' = Wallet(v)
                             /\ NewBalance(v)' = NewBalance(v)
      BY <2>1 DEF Wallet, NewBalance, Account, Delta, Kind, Amount
    <3> QED
      BY <2>1, <3>1 DEF CacheInv, CacheIsLatest
  <2>2. ASSUME NEW s \in Subs, Subscriptions(s)
        PROVE  CacheInv'
    BY <2>1, <2>2, AdminSteps
  <2>3. ASSUME NEW a \in Accounts, ExpireCache(a)
        PROVE  CacheInv'
    BY <2>1, <2>3 DEF ExpireCache, Inv, TypeOK
  <2>4. ASSUME (\E c \in Changes : Submit(c) \/ Redeliver(c)) \/ UNCHANGED vars
        PROVE  CacheInv'
    <3>1. UNCHANGED <<req, balance, cache, pc, task, session>> /\ (faults' = 0 => faults = 0)
      BY <2>4 DEF vars, Submit, InsertChange, CheckWithdraw, InsertWithdraw, Enqueue,
             LostPushReply, EnqueueFails, Redeliver, Inv, TypeOK
    <3> QED
      BY <2>1, <3>1
  <2> QED
    BY <2>2, <2>3, <2>4, CachedStep DEF Next
<1>3. SettlementsApart => ReadsApart
  BY DEF SettlementsApart, ReadsApart, Apart
<1>4. CacheInv => CacheIsLatest
  BY DEF CacheInv
<1> QED
  BY <1>1, <1>2, <1>3, <1>4, ReadsAreCurrentWhenApart, Invariance, PTL DEF Spec

(***************************************************************************)
(* With one worker, the cache holds the committed balance.                 *)
(***************************************************************************)
THEOREM CacheIsLatestAlways == OneWorker /\ Spec => []CacheIsLatest
<1> SUFFICES ASSUME OneWorker
             PROVE  Spec => []CacheIsLatest
  OBVIOUS
<1>1. SettlementsApart
  BY OneWorkerIsApart
<1> QED
  BY <1>1, CacheIsLatestWhenApart, PTL

-----------------------------------------------------------------------------
(***************************************************************************)
(* What is applied so far; applying a change adds it to the sum of the     *)
(* source that pays for it, and leaves every other sum as it is.           *)
(***************************************************************************)
Settled == {c \in Changes : is_applied[c]}

LEMMA PostSums ==
  ASSUME IsFiniteSet(Settled), req' = req, NEW f, \A x \in Changes : f[x] \in Int,
         NEW c \in Changes, ~is_applied[c], NEW src,
         \A x \in Changes : is_applied'[x] <=> is_applied[x] \/ x = c,
         \A x \in Changes : subscription_id'[x] = IF x = c THEN src ELSE subscription_id[x]
  PROVE  /\ IsFiniteSet(Settled')
         /\ \A s : /\ SumFunctionOnSet(f, Charged(s)) \in Int
                   /\ SumFunctionOnSet(f, Charged(s)') =
                        SumFunctionOnSet(f, Charged(s)) + (IF s = src THEN f[c] ELSE 0)
         /\ \A a : /\ SumFunctionOnSet(f, ChargedToWallet(a)) \in Int
                   /\ SumFunctionOnSet(f, ChargedToWallet(a)') =
                        SumFunctionOnSet(f, ChargedToWallet(a))
                          + (IF src = None /\ Account(c) = a THEN f[c] ELSE 0)
<1> DEFINE Sum(T) == SumFunctionOnSet(f, T)
<1>1. IsFiniteSet(Settled')
  <2>1. Settled' = Settled \cup {c}
    BY DEF Settled
  <2> QED
    BY <2>1, FS_AddElement, Zenon
<1>2. ASSUME NEW T \in SUBSET Settled
      PROVE  Sum(T) \in Int /\ Sum(T \cup {c}) = Sum(T) + f[c]
  <2>1. IsFiniteSet(T) /\ T \subseteq Changes /\ c \notin T
    BY FS_Subset DEF Settled
  <2> QED
    BY <2>1, SumInt, SumAdd
<1>3. ASSUME NEW s
      PROVE  Sum(Charged(s)) \in Int /\ Sum(Charged(s)') = Sum(Charged(s)) + (IF s = src THEN f[c] ELSE 0)
  <2>1. Charged(s) \in SUBSET Settled
    BY DEF Charged, Settled
  <2>2. Charged(s)' = IF s = src THEN Charged(s) \cup {c} ELSE Charged(s)
    BY DEF Charged
  <2>3. Sum(Charged(s)) \in Int /\ Sum(Charged(s) \cup {c}) = Sum(Charged(s)) + f[c]
    BY <1>2, <2>1
  <2>4. CASE s = src
    BY <2>2, <2>3, <2>4, Zenon
  <2>5. CASE s # src
    <3>1. Sum(Charged(s)') = Sum(Charged(s))
      BY <2>2, <2>5, Zenon
    <3> HIDE DEF Sum
    <3> QED
      BY <2>3, <2>5, <3>1
  <2> QED
    BY <2>4, <2>5
<1>4. ASSUME NEW a
      PROVE  /\ Sum(ChargedToWallet(a)) \in Int
             /\ Sum(ChargedToWallet(a)') = Sum(ChargedToWallet(a))
                                             + (IF src = None /\ Account(c) = a THEN f[c] ELSE 0)
  <2> DEFINE W == ChargedToWallet(a)
  <2>1. W \in SUBSET Settled
    BY DEF ChargedToWallet, Charged, Settled
  <2>2. W' = IF src = None /\ Account(c) = a THEN W \cup {c} ELSE W
    BY DEF ChargedToWallet, Charged, Account
  <2>3. Sum(W) \in Int /\ Sum(W \cup {c}) = Sum(W) + f[c]
    BY <1>2, <2>1
  <2>4. CASE src = None /\ Account(c) = a
    BY <2>2, <2>3, <2>4, Zenon
  <2>5. CASE ~(src = None /\ Account(c) = a)
    <3>1. Sum(W') = Sum(W)
      BY <2>2, <2>5, Zenon
    <3> HIDE DEF Sum
    <3> QED
      BY <2>3, <2>5, <3>1
  <2> QED
    BY <2>4, <2>5
<1> QED
  BY <1>1, <1>3, <1>4

(***************************************************************************)
(* The amounts that are summed.                                            *)
(***************************************************************************)
LEMMA AmountTypes ==
  ASSUME TypeOK, NEW c \in Changes
  PROVE  /\ PostedAmount[c] = Delta(c) /\ PostedAmount[c] \in Int
         /\ UsedTokens[c] = Tokens(c) /\ UsedTokens[c] \in Nat
         /\ UsedMoney[c] = Amount(c) /\ UsedMoney[c] \in Nat
         /\ Credits[c] \in Nat /\ Debits[c] \in Nat
         /\ Delta(c) = Credits[c] - Debits[c]
<1>1. Amount(c) \in Nat /\ Tokens(c) \in Nat /\ Kind(c) \in Kinds
  BY RequestTypes
<1>2. L!Signed(req[c].content) = Delta(c)
  BY <1>1 DEF L!Signed, Delta, Kind, Amount, Kinds
<1>3. PostedAmount[c] = L!Signed(req[c].content)
  BY DEF PostedAmount
<1>4. Delta(c) \in Int
  BY RequestTypes
<1>5. UsedTokens[c] = Tokens(c) /\ UsedMoney[c] = Amount(c)
  BY DEF UsedTokens, UsedMoney
<1>6. /\ Credits[c] = IF IsCredit(c) THEN Amount(c) ELSE 0
      /\ Debits[c] = IF IsCredit(c) THEN 0 ELSE Amount(c)
      /\ Delta(c) = IF IsCredit(c) THEN Amount(c) ELSE 0 - Amount(c)
  BY DEF Credits, Debits, Delta, IsCredit
<1> QED
  BY <1>1, <1>2, <1>3, <1>4, <1>5, <1>6

(***************************************************************************)
(* A step of the ledger keeps the totals: it is what the ledger is for.    *)
(***************************************************************************)
Totals == IsFiniteSet(Settled) /\ EveryChangeCounts

LEMMA LedgerKeepsTotals ==
  ASSUME Inv, TypeOK', ReadsAreCurrent, Totals, [L!Next]_(L!vars)
  PROVE  Totals'
<1> DEFINE posted == {x \in Changes : is_applied[x]}
           quota == [r \in Subs |-> [account |-> subs[r].account, limit |-> subs[r].limit,
                                     tokens |-> subs[r].tokens, money |-> subs[r].money]]
           Usage == \A r \in Subs : subs'[r].tokens = subs[r].tokens /\ subs'[r].money = subs[r].money
<1>1. TypeOK
  BY DEF Inv
<1>2. ASSUME quota' = quota
      PROVE  Usage
  <2>1. ASSUME NEW r \in Subs
        PROVE  subs'[r].tokens = subs[r].tokens /\ subs'[r].money = subs[r].money
    <3>1. quota'[r] = quota[r]
      BY <1>2
    <3> QED
      BY <3>1
  <2> QED
    BY <2>1
<1>3. ASSUME UNCHANGED <<req, posted, subscription_id, balance>>, Usage
      PROVE  Totals'
  <2>1. /\ PostedAmount' = PostedAmount /\ UsedTokens' = UsedTokens /\ UsedMoney' = UsedMoney
        /\ \A x \in Changes : is_applied'[x] <=> is_applied[x]
    BY <1>3 DEF PostedAmount, UsedTokens, UsedMoney, Tokens, Amount
  <2>2. /\ \A s : Charged(s)' = Charged(s)
        /\ \A a : ChargedToWallet(a)' = ChargedToWallet(a)
    BY <1>3, <2>1 DEF Charged, ChargedToWallet, Account
  <2>3. Settled' = Settled
    BY <1>3 DEF Settled
  <2>4. \A s \in Subs : /\ subs'[s].tokens = SumFunctionOnSet(UsedTokens', Charged(s)')
                        /\ subs'[s].money = SumFunctionOnSet(UsedMoney', Charged(s)')
    BY <1>3, <2>1, <2>2, Zenon DEF Totals, EveryChangeCounts
  <2>5. \A a \in Accounts : balance'[a] = SumFunctionOnSet(PostedAmount', ChargedToWallet(a)')
    BY <1>3, <2>1, <2>2, Zenon DEF Totals, EveryChangeCounts
  <2> QED
    BY <2>3, <2>4, <2>5 DEF Totals, EveryChangeCounts
<1>4. ASSUME NEW c \in Changes, NEW src \in Subs \cup {None}, c \notin posted,
             posted' = posted \cup {c}, req' = req,
             subscription_id' = [subscription_id EXCEPT ![c] = src],
             \A a \in Accounts : balance'[a] = balance[a] +
               (IF src = None /\ Account(c) = a THEN PostedAmount[c] ELSE 0),
             \A s \in Subs :
               /\ subs'[s].tokens = subs[s].tokens + (IF s = src THEN UsedTokens[c] ELSE 0)
               /\ subs'[s].money = subs[s].money + (IF s = src THEN UsedMoney[c] ELSE 0)
      PROVE  Totals'
  <2>1. /\ ~is_applied[c]
        /\ \A x \in Changes : is_applied'[x] <=> is_applied[x] \/ x = c
        /\ \A x \in Changes : subscription_id'[x] = IF x = c THEN src ELSE subscription_id[x]
    BY <1>1, <1>4 DEF TypeOK
  <2>2. \A x \in Changes : PostedAmount[x] \in Int /\ UsedTokens[x] \in Int /\ UsedMoney[x] \in Int
    BY <1>1, AmountTypes
  <2>3. PostedAmount' = PostedAmount /\ UsedTokens' = UsedTokens /\ UsedMoney' = UsedMoney
    BY <1>4 DEF PostedAmount, UsedTokens, UsedMoney, Tokens, Amount
  <2>4. ASSUME NEW f, \A x \in Changes : f[x] \in Int
        PROVE  /\ IsFiniteSet(Settled')
               /\ \A s : /\ SumFunctionOnSet(f, Charged(s)) \in Int
                         /\ SumFunctionOnSet(f, Charged(s)') =
                              SumFunctionOnSet(f, Charged(s)) + (IF s = src THEN f[c] ELSE 0)
               /\ \A a : /\ SumFunctionOnSet(f, ChargedToWallet(a)) \in Int
                         /\ SumFunctionOnSet(f, ChargedToWallet(a)') =
                              SumFunctionOnSet(f, ChargedToWallet(a))
                                + (IF src = None /\ Account(c) = a THEN f[c] ELSE 0)
    <3>1. IsFiniteSet(Settled) /\ req' = req
      BY <1>4 DEF Totals
    <3> QED
      BY <2>1, <2>4, <3>1, PostSums, ZenonT(30)
  <2>5. ASSUME NEW a \in Accounts
        PROVE  SumFunctionOnSet(PostedAmount, ChargedToWallet(a)') =
                  SumFunctionOnSet(PostedAmount, ChargedToWallet(a))
                     + (IF src = None /\ Account(c) = a THEN PostedAmount[c] ELSE 0)
    BY <2>2, <2>4
  <2>6. ASSUME NEW s \in Subs
        PROVE  /\ SumFunctionOnSet(UsedTokens, Charged(s)') =
                     SumFunctionOnSet(UsedTokens, Charged(s)) + (IF s = src THEN UsedTokens[c] ELSE 0)
               /\ SumFunctionOnSet(UsedMoney, Charged(s)') =
                     SumFunctionOnSet(UsedMoney, Charged(s)) + (IF s = src THEN UsedMoney[c] ELSE 0)
    BY <2>2, <2>4
  <2>7. IsFiniteSet(Settled')
    BY <2>2, <2>4
  <2>8. /\ \A a \in Accounts : balance'[a] = SumFunctionOnSet(PostedAmount', ChargedToWallet(a)')
        /\ \A s \in Subs : /\ subs'[s].tokens = SumFunctionOnSet(UsedTokens', Charged(s)')
                           /\ subs'[s].money = SumFunctionOnSet(UsedMoney', Charged(s)')
    BY <1>4, <2>3, <2>5, <2>6 DEF Totals, EveryChangeCounts
  <2> QED
    BY <2>7, <2>8 DEF Totals, EveryChangeCounts
<1>5. ASSUME NEW c \in Changes, L!PostToWallet(c)
      PROVE  Totals'
  <2>1. /\ c \notin posted /\ posted' = posted \cup {c}
        /\ balance' = [balance EXCEPT ![req[c].account] = @ + L!Signed(req[c].content)]
        /\ UNCHANGED <<req, subscription_id>> /\ quota' = quota
    BY <1>5 DEF L!PostToWallet
  <2>2. Usage
    BY <1>2, <2>1
  <2>3. subscription_id' = [subscription_id EXCEPT ![c] = None]
    BY <1>1, <2>1 DEF TypeOK, ReadsAreCurrent
  <2>4. \A a \in Accounts : balance'[a] = balance[a] +
          (IF None = None /\ Account(c) = a THEN PostedAmount[c] ELSE 0)
    BY <1>1, <2>1, RequestTypes DEF TypeOK, PostedAmount, Account
  <2>5. \A s \in Subs :
          /\ subs'[s].tokens = subs[s].tokens + (IF s = None THEN UsedTokens[c] ELSE 0)
          /\ subs'[s].money = subs[s].money + (IF s = None THEN UsedMoney[c] ELSE 0)
    BY <1>1, <2>2, SettlementAssumption DEF TypeOK, Subscription
  <2> HIDE DEF posted, quota, Usage
  <2> QED
    BY <1>4, <2>1, <2>3, <2>4, <2>5, ZenonT(30)
<1>6. ASSUME NEW c \in Changes, NEW s \in Subs, L!PostToSubscription(c, s)
      PROVE  Totals'
  <2>1. /\ c \notin posted /\ posted' = posted \cup {c}
        /\ subscription_id' = [subscription_id EXCEPT ![c] = s]
        /\ UNCHANGED <<req, balance>>
        /\ quota' = [quota EXCEPT ![s].tokens = @ + req[c].content.tokens,
                                  ![s].money = @ + req[c].content.amount]
    BY <1>6 DEF L!PostToSubscription
  <2>2. \A r \in Subs :
          /\ subs'[r].tokens = subs[r].tokens + (IF r = s THEN UsedTokens[c] ELSE 0)
          /\ subs'[r].money = subs[r].money + (IF r = s THEN UsedMoney[c] ELSE 0)
    <3>1. ASSUME NEW r \in Subs
          PROVE  /\ quota'[r].tokens = quota[r].tokens + (IF r = s THEN Tokens(c) ELSE 0)
                 /\ quota'[r].money = quota[r].money + (IF r = s THEN Amount(c) ELSE 0)
      <4>1. quota[r].tokens \in Nat /\ quota[r].money \in Nat
        BY <1>1 DEF TypeOK, Subscription
      <4>2. CASE r = s
        BY <2>1, <4>2, ZenonT(30) DEF Tokens, Amount
      <4>3. CASE r # s
        <5>1. quota'[r] = quota[r]
          BY <2>1, <4>3
        <5> HIDE DEF quota
        <5> QED
          BY <4>1, <4>3, <5>1
      <4> QED
        BY <4>2, <4>3
    <3>2. UsedTokens[c] = Tokens(c) /\ UsedMoney[c] = Amount(c)
      BY <1>1, AmountTypes
    <3> QED
      BY <3>1, <3>2
  <2>3. \A a \in Accounts : balance'[a] = balance[a] +
          (IF s = None /\ Account(c) = a THEN PostedAmount[c] ELSE 0)
    BY <1>1, <2>1, SettlementAssumption DEF TypeOK
  <2> HIDE DEF posted, quota
  <2> QED
    BY <1>4, <2>1, <2>2, <2>3
<1>7. ASSUME NEW s \in Subs, \/ \E a \in Accounts : L!Open(s, a)
                             \/ \E limit \in Limits : L!Grant(s, limit)
      PROVE  Totals'
  <2>1. UNCHANGED <<req, posted, subscription_id, balance>>
    BY <1>7 DEF L!Open, L!Grant
  <2>2. ASSUME NEW r \in Subs
        PROVE  quota'[r].tokens = quota[r].tokens /\ quota'[r].money = quota[r].money
    <3>1. ASSUME NEW a \in Accounts, L!Open(s, a)
          PROVE  quota'[r].tokens = quota[r].tokens /\ quota'[r].money = quota[r].money
      <4>1. quota' = [quota EXCEPT ![s].account = a]
        BY <3>1 DEF L!Open
      <4>2. /\ [quota EXCEPT ![s].account = a][r].tokens = quota[r].tokens
            /\ [quota EXCEPT ![s].account = a][r].money = quota[r].money
        OBVIOUS
      <4> HIDE DEF quota
      <4> QED
        BY <4>1, <4>2
    <3>2. ASSUME NEW limit \in Limits, L!Grant(s, limit)
          PROVE  quota'[r].tokens = quota[r].tokens /\ quota'[r].money = quota[r].money
      <4>1. quota' = [quota EXCEPT ![s].limit = limit]
        BY <3>2 DEF L!Grant
      <4>2. /\ [quota EXCEPT ![s].limit = limit][r].tokens = quota[r].tokens
            /\ [quota EXCEPT ![s].limit = limit][r].money = quota[r].money
        OBVIOUS
      <4> HIDE DEF quota
      <4> QED
        BY <4>1, <4>2
    <3> QED
      BY <1>7, <3>1, <3>2
  <2>3. Usage
    BY <2>2
  <2> HIDE DEF posted, quota, Usage
  <2> QED
    BY <1>3, <2>1, <2>3
<1>8. CASE UNCHANGED L!vars
  <2>1. UNCHANGED <<req, posted, subscription_id, balance>> /\ quota' = quota
    BY <1>8 DEF L!vars
  <2> HIDE DEF posted, quota, Usage
  <2> QED
    BY <1>2, <1>3, <2>1
<1> QED
  BY <1>5, <1>6, <1>7, <1>8 DEF L!Next

(***************************************************************************)
(* As long as the transactions of one account are apart, every applied     *)
(* change counts: balances and usage are exactly the sums of what was      *)
(* charged to them, however many workers run and whatever fails.           *)
(***************************************************************************)
THEOREM EveryChangeCountsWhenApart == Spec /\ []ReadsApart => []EveryChangeCounts
<1>1. Init => Totals
  <2> SUFFICES ASSUME Init
               PROVE  Totals
    OBVIOUS
  <2>1. Settled = {} /\ \A s : Charged(s) = {} /\ \A a : ChargedToWallet(a) = {}
    BY DEF Init, Settled, Charged, ChargedToWallet
  <2>2. /\ \A a \in Accounts : balance[a] = 0
        /\ \A s \in Subs : subs[s].tokens = 0 /\ subs[s].money = 0
    BY DEF Init
  <2>3. \A a : SumFunctionOnSet(PostedAmount, ChargedToWallet(a)) = 0
    BY <2>1, SumEmpty, Zenon
  <2>4. \A s : /\ SumFunctionOnSet(UsedTokens, Charged(s)) = 0
               /\ SumFunctionOnSet(UsedMoney, Charged(s)) = 0
    BY <2>1, SumEmpty, Zenon
  <2>5. IsFiniteSet(Settled)
    BY <2>1, FS_EmptySet, Zenon
  <2> QED
    BY <2>2, <2>3, <2>4, <2>5 DEF Totals, EveryChangeCounts
<1>2. Inv /\ Inv' /\ ReadsAreCurrent /\ Totals /\ [Next]_vars => Totals'
  <2> SUFFICES ASSUME Inv, Inv', ReadsAreCurrent, Totals, [Next]_vars
               PROVE  Totals'
    OBVIOUS
  <2>1. [L!Next]_(L!vars)
    BY StepSimulation
  <2>2. TypeOK'
    BY DEF Inv
  <2> QED
    BY <2>1, <2>2, LedgerKeepsTotals
<1>3. Totals => EveryChangeCounts
  BY DEF Totals
<1> QED
  BY <1>1, <1>2, <1>3, ReadsAreCurrentWhenApart, Invariance, PTL DEF Spec

(***************************************************************************)
(* With one worker, balances and usage are the sums of what was applied.   *)
(***************************************************************************)
THEOREM EveryChangeCountsAlways == OneWorker /\ Spec => []EveryChangeCounts
<1> SUFFICES ASSUME OneWorker
             PROVE  Spec => []EveryChangeCounts
  OBVIOUS
<1>1. ReadsApart
  BY OneWorkerIsApart
<1> QED
  BY <1>1, EveryChangeCountsWhenApart, PTL

-----------------------------------------------------------------------------
(***************************************************************************)
(* With any number of workers, overlapping or not, what a wallet holds and *)
(* what a transaction has read of it stay covered by the applied changes.  *)
(***************************************************************************)
Covered(a, b) == /\ b <= SumFunctionOnSet(Credits, ChargedToWallet(a))
                 /\ 0 - b <= SumFunctionOnSet(Debits, ChargedToWallet(a))

Recorded(s, t, m) == /\ t <= SumFunctionOnSet(UsedTokens, Charged(s))
                     /\ m <= SumFunctionOnSet(UsedMoney, Charged(s))

\* What the transaction of w has read.
ReadIsBacked(w) ==
  /\ pc[w] \in {"idle", "select_change", "select_wallet", "insert_wallet"} => seen[w] = 0
  /\ pc[w] \in Reading => Covered(Wallet(w), seen[w])
  /\ pc[w] \in AfterSubscription /\ chosen[w] # None =>
       Recorded(chosen[w], seenTokens[w], seenMoney[w])

Backed ==
  /\ IsFiniteSet(Settled)
  /\ \A a \in Accounts : Covered(a, balance[a])
  /\ \A s \in Subs : Recorded(s, subs[s].tokens, subs[s].money)
  /\ \A w \in Workers : ReadIsBacked(w)

(***************************************************************************)
(* A commit adds to the sums what it adds to what it read, and takes from  *)
(* none of them: whatever was covered stays covered.                       *)
(***************************************************************************)
LEMMA CommitCovers ==
  ASSUME Inv, Backed, NEW w \in Workers, pc[w] = "commit", Publish(w), req' = req
  PROVE  /\ IsFiniteSet(Settled')
         /\ \A a \in Accounts : \A b \in Int :
              Covered(a, b) \/ (a = Wallet(w) /\ b = NewBalance(w)) => Covered(a, b)'
         /\ \A s \in Subs : \A t, m \in Nat :
              \/ Recorded(s, t, m)
              \/ /\ s = chosen[w]
                 /\ t = seenTokens[w] + Tokens(task[w]) /\ m = seenMoney[w] + Amount(task[w])
              => Recorded(s, t, m)'
<1>1. TypeOK /\ OneSettlerPerChange
  BY DEF Inv
<1>2. PICK c \in Changes : c = task[w]
  BY <1>1, WorkerTypes
<1>3. PICK src \in Subs \cup {None} : src = chosen[w]
  BY <1>1 DEF TypeOK
<1>4. /\ ~is_applied[c]
      /\ \A x \in Changes : is_applied'[x] <=> is_applied[x] \/ x = c
      /\ \A x \in Changes : subscription_id'[x] = IF x = c THEN src ELSE subscription_id[x]
  BY <1>1, <1>2, <1>3 DEF OneSettlerPerChange, InTx, Publish, TypeOK
<1>5. ASSUME NEW f, \A x \in Changes : f[x] \in Int
      PROVE  /\ IsFiniteSet(Settled')
             /\ \A s : /\ SumFunctionOnSet(f, Charged(s)) \in Int
                       /\ SumFunctionOnSet(f, Charged(s)') =
                            SumFunctionOnSet(f, Charged(s)) + (IF s = src THEN f[c] ELSE 0)
             /\ \A a : /\ SumFunctionOnSet(f, ChargedToWallet(a)) \in Int
                       /\ SumFunctionOnSet(f, ChargedToWallet(a)') =
                            SumFunctionOnSet(f, ChargedToWallet(a))
                              + (IF src = None /\ Account(c) = a THEN f[c] ELSE 0)
  <2>1. IsFiniteSet(Settled) /\ req' = req
    BY DEF Backed
  <2> QED
    BY <1>4, <1>5, <2>1, PostSums, ZenonT(30)
<1>6. /\ Credits' = Credits /\ Debits' = Debits
      /\ UsedTokens' = UsedTokens /\ UsedMoney' = UsedMoney
  BY DEF Credits, Debits, UsedTokens, UsedMoney, IsCredit, Kind, Amount, Tokens
<1>7. \A x \in Changes : /\ Credits[x] \in Nat /\ Debits[x] \in Nat
                         /\ UsedTokens[x] \in Nat /\ UsedMoney[x] \in Nat
  BY <1>1, AmountTypes
<1>8. IsFiniteSet(Settled')
  BY <1>5, <1>7
<1>9. ASSUME NEW a \in Accounts, NEW b \in Int
      PROVE  Covered(a, b) \/ (a = Wallet(w) /\ b = NewBalance(w)) => Covered(a, b)'
  <2> DEFINE given == SumFunctionOnSet(Credits, ChargedToWallet(a))
             taken == SumFunctionOnSet(Debits, ChargedToWallet(a))
             more(f) == IF src = None /\ Account(c) = a THEN f[c] ELSE 0
  <2>1. /\ given \in Int /\ SumFunctionOnSet(Credits, ChargedToWallet(a)') = given + more(Credits)
        /\ taken \in Int /\ SumFunctionOnSet(Debits, ChargedToWallet(a)') = taken + more(Debits)
    BY <1>5, <1>7
  <2>2. more(Credits) \in Nat /\ more(Debits) \in Nat
    BY <1>7
  <2>3. Covered(a, b)' <=> b <= given + more(Credits) /\ 0 - b <= taken + more(Debits)
    BY <1>6, <2>1, Zenon DEF Covered
  <2>4. \A i \in Int : Covered(a, i) <=> i <= given /\ 0 - i <= taken
    BY DEF Covered
  <2>5. ASSUME a = Wallet(w), b = NewBalance(w)
        PROVE  /\ Covered(a, seen[w]) /\ seen[w] \in Int
               /\ b = seen[w] + more(Credits) - more(Debits)
    <3>1. Covered(a, seen[w]) /\ seen[w] \in Int
      BY <1>1, <2>5 DEF Backed, ReadIsBacked, Reading, AfterSubscription, TypeOK
    <3>2. Account(c) = a
      BY <1>2, <2>5 DEF Wallet
    <3>3. Delta(c) = Credits[c] - Debits[c] /\ Credits[c] \in Nat /\ Debits[c] \in Nat
      BY <1>1, AmountTypes
    <3>4. b = IF src # None THEN seen[w] ELSE seen[w] + Delta(c)
      BY <1>2, <1>3, <2>5 DEF NewBalance
    <3> QED
      BY <3>1, <3>2, <3>3, <3>4
  <2> HIDE DEF given, taken, more
  <2> QED
    BY <2>1, <2>2, <2>3, <2>4, <2>5
<1>10. ASSUME NEW s \in Subs, NEW t \in Nat, NEW m \in Nat
       PROVE  \/ Recorded(s, t, m)
              \/ /\ s = chosen[w]
                 /\ t = seenTokens[w] + Tokens(task[w]) /\ m = seenMoney[w] + Amount(task[w])
              => Recorded(s, t, m)'
  <2> DEFINE used == SumFunctionOnSet(UsedTokens, Charged(s))
             spent == SumFunctionOnSet(UsedMoney, Charged(s))
             more(f) == IF s = src THEN f[c] ELSE 0
  <2>1. /\ used \in Int /\ SumFunctionOnSet(UsedTokens, Charged(s)') = used + more(UsedTokens)
        /\ spent \in Int /\ SumFunctionOnSet(UsedMoney, Charged(s)') = spent + more(UsedMoney)
    BY <1>5, <1>7
  <2>2. more(UsedTokens) \in Nat /\ more(UsedMoney) \in Nat
    BY <1>7
  <2>3. Recorded(s, t, m)' <=> t <= used + more(UsedTokens) /\ m <= spent + more(UsedMoney)
    BY <1>6, <2>1, Zenon DEF Recorded
  <2>4. \A i, j \in Nat : Recorded(s, i, j) <=> i <= used /\ j <= spent
    BY DEF Recorded
  <2>5. ASSUME s = chosen[w], t = seenTokens[w] + Tokens(task[w]), m = seenMoney[w] + Amount(task[w])
        PROVE  /\ Recorded(s, seenTokens[w], seenMoney[w])
               /\ seenTokens[w] \in Nat /\ seenMoney[w] \in Nat
               /\ t = seenTokens[w] + more(UsedTokens) /\ m = seenMoney[w] + more(UsedMoney)
    <3>1. s # None
      BY SettlementAssumption
    <3>2. Recorded(s, seenTokens[w], seenMoney[w])
      BY <2>5, <3>1 DEF Backed, ReadIsBacked, AfterSubscription
    <3>3. UsedTokens[c] = Tokens(task[w]) /\ UsedMoney[c] = Amount(task[w])
      BY <1>1, <1>2, AmountTypes
    <3> QED
      BY <1>1, <1>3, <2>5, <3>2, <3>3 DEF TypeOK
  <2> HIDE DEF used, spent, more
  <2> QED
    BY <2>1, <2>2, <2>3, <2>4, <2>5
<1> QED
  BY <1>8, <1>9, <1>10

(***************************************************************************)
(* Administration of subscriptions moves no usage.                         *)
(***************************************************************************)
LEMMA AdminUsage ==
  ASSUME TypeOK, NEW s \in Subs, Subscriptions(s)
  PROVE  /\ UNCHANGED <<submit, is_applied, subscription_id, wallets, balance, broker,
                        cache, pc, task, session, faults>>
         /\ \A r \in Subs : subs'[r].tokens = subs[r].tokens /\ subs'[r].money = subs[r].money
<1>1. \A r \in Subs : subs[r] \in Subscription
  BY DEF TypeOK
<1>2. ASSUME NEW a \in Accounts, CreateSubscription(s, a)
      PROVE  \A r \in Subs : subs'[r].tokens = subs[r].tokens /\ subs'[r].money = subs[r].money
  BY <1>1, <1>2 DEF CreateSubscription, TypeOK, Subscription
<1>3. ASSUME NEW status \in {"active", "deactive"}, UpdateSubscription(s, status)
      PROVE  \A r \in Subs : subs'[r].tokens = subs[r].tokens /\ subs'[r].money = subs[r].money
  BY <1>1, <1>3 DEF UpdateSubscription, TypeOK, Subscription
<1>4. ASSUME NEW limit \in Limits, ProvisionSubscription(s, limit)
      PROVE  \A r \in Subs : subs'[r].tokens = subs[r].tokens /\ subs'[r].money = subs[r].money
  BY <1>1, <1>4 DEF ProvisionSubscription, TypeOK, Subscription
<1>5. ASSUME CloseSubscription(s)
      PROVE  \A r \in Subs : subs'[r].tokens = subs[r].tokens /\ subs'[r].money = subs[r].money
  BY <1>1, <1>5 DEF CloseSubscription, TypeOK, Subscription
<1>6. UNCHANGED <<submit, is_applied, subscription_id, wallets, balance, broker,
                  cache, pc, task, session, faults>>
  BY DEF Subscriptions, CreateSubscription, UpdateSubscription, CancelSubscription,
         ProvisionSubscription, CloseSubscription
<1> QED
  BY <1>2, <1>3, <1>4, <1>5, <1>6 DEF Subscriptions, CancelSubscription

(***************************************************************************)
(* The step of a worker, seen from what is covered.                        *)
(***************************************************************************)
LEMMA WorkerKeepsBacked ==
  ASSUME Inv, Backed, NEW w \in Workers,
         Step(w) \/ Fail(w) \/ \E c \in Changes : Fetch(w, c)
  PROVE  Backed'
<1> USE DEF submit, tables, session
<1>1. TypeOK /\ SessionSound /\ AppliedToWallet
  BY DEF Inv, Books
<1>2. Alone(w) /\ (UNCHANGED tables \/ (pc[w] = "commit" /\ Publish(w)))
  BY <1>1, WorkerAlone
<1>3. /\ IsFiniteSet(Settled')
      /\ \A a \in Accounts : \A b \in Int : Covered(a, b) => Covered(a, b)'
      /\ \A s \in Subs : \A t, m \in Nat : Recorded(s, t, m) => Recorded(s, t, m)'
  <2>1. CASE pc[w] = "commit" /\ Publish(w)
    BY <1>2, <2>1, CommitCovers DEF Alone
  <2>2. CASE UNCHANGED tables
    <3>1. /\ Settled' = Settled /\ \A s : Charged(s)' = Charged(s)
          /\ \A a : ChargedToWallet(a)' = ChargedToWallet(a)
          /\ Credits' = Credits /\ Debits' = Debits
          /\ UsedTokens' = UsedTokens /\ UsedMoney' = UsedMoney
      BY <1>2, <2>2 DEF Alone, Settled, Charged, ChargedToWallet, Credits, Debits, UsedTokens,
                        UsedMoney, IsCredit, Account, Kind, Amount, Tokens
    <3> QED
      BY <3>1, Zenon DEF Covered, Recorded, Backed
  <2> QED
    BY <1>2, <2>1, <2>2
<1>4. ASSUME NEW a \in Accounts
      PROVE  Covered(a, balance[a])'
  <2>1. Covered(a, balance[a]) /\ balance[a] \in Int
    BY <1>1 DEF Backed, TypeOK
  <2>2. CASE UNCHANGED tables
    <3>1. \A b \in Int : b = balance'[a] => Covered(a, b)'
      BY <1>3, <2>1, <2>2
    <3> QED
      BY <2>1, <2>2, <3>1 DEF Covered
  <2>3. CASE pc[w] = "commit" /\ Publish(w)
    <3>1. NewBalance(w) \in Int /\ Wallet(w) \in Accounts
      BY <1>1, <2>3, WorkerTypes
    <3>2. balance'[a] = balance[a] \/ (a = Wallet(w) /\ balance'[a] = NewBalance(w))
      BY <1>1, <2>3, <3>1 DEF Publish, TypeOK
    <3>3. \A b \in Int : b = balance'[a] => Covered(a, b)'
      BY <1>2, <2>1, <2>3, <3>2, CommitCovers DEF Alone
    <3>4. balance'[a] \in Int
      BY <2>1, <3>1, <3>2
    <3> QED
      BY <3>3, <3>4 DEF Covered
  <2> QED
    BY <1>2, <2>2, <2>3
<1>5. ASSUME NEW s \in Subs
      PROVE  Recorded(s, subs[s].tokens, subs[s].money)'
  <2>1. /\ Recorded(s, subs[s].tokens, subs[s].money)
        /\ subs[s].tokens \in Nat /\ subs[s].money \in Nat
    BY <1>1 DEF Backed, TypeOK, Subscription
  <2>2. CASE UNCHANGED tables
    <3>1. \A t, m \in Nat : t = subs'[s].tokens /\ m = subs'[s].money => Recorded(s, t, m)'
      BY <1>3, <2>1, <2>2
    <3> QED
      BY <2>1, <2>2, <3>1 DEF Recorded
  <2>3. CASE pc[w] = "commit" /\ Publish(w)
    <3>1. /\ seenTokens[w] + Tokens(task[w]) \in Nat /\ seenMoney[w] + Amount(task[w]) \in Nat
      BY <1>1, <2>3, WorkerTypes, RequestTypes DEF TypeOK
    <3>2. \/ subs'[s].tokens = subs[s].tokens /\ subs'[s].money = subs[s].money
          \/ /\ s = chosen[w]
             /\ subs'[s].tokens = seenTokens[w] + Tokens(task[w])
             /\ subs'[s].money = seenMoney[w] + Amount(task[w])
      BY <1>1, <2>3 DEF Publish, TypeOK, Subscription
    <3>3. \A t, m \in Nat : t = subs'[s].tokens /\ m = subs'[s].money => Recorded(s, t, m)'
      BY <1>2, <2>1, <2>3, <3>2, CommitCovers DEF Alone
    <3>4. subs'[s].tokens \in Nat /\ subs'[s].money \in Nat
      BY <2>1, <3>1, <3>2
    <3> QED
      BY <3>3, <3>4 DEF Recorded
  <2> QED
    BY <1>2, <2>2, <2>3
<1>6. ASSUME NEW v \in Workers, UNCHANGED <<req, task[v], chosen[v], seen[v], seenTokens[v], seenMoney[v]>>,
             pc[v] \notin Reading => pc'[v] \notin Reading,
             pc[v] \notin AfterSubscription => pc'[v] \notin AfterSubscription \/ chosen[v] = None,
             pc'[v] \in {"idle", "select_change", "select_wallet", "insert_wallet"} => seen[v] = 0
      PROVE  ReadIsBacked(v)'
  <2>1. ReadIsBacked(v) /\ Wallet(v)' = Wallet(v)
    BY <1>6 DEF Backed, Wallet, Account
  <2>2. ASSUME pc'[v] \in Reading
        PROVE  Covered(Wallet(v), seen[v])'
    <3>1. pc[v] # "idle" /\ Covered(Wallet(v), seen[v])
      BY <1>6, <2>1, <2>2 DEF ReadIsBacked, Reading, AfterSubscription
    <3>2. PICK a \in Accounts : a = Wallet(v)
      BY <1>1, <3>1, WorkerTypes
    <3>3. PICK b \in Int : b = seen[v]
      BY <1>1 DEF TypeOK
    <3>4. Covered(a, b)'
      BY <1>3, <3>1, <3>2, <3>3
    <3> QED
      BY <1>6, <2>1, <3>2, <3>3, <3>4 DEF Covered
  <2>3. ASSUME pc'[v] \in AfterSubscription, chosen'[v] # None
        PROVE  Recorded(chosen[v], seenTokens[v], seenMoney[v])'
    <3>1. Recorded(chosen[v], seenTokens[v], seenMoney[v])
      BY <1>6, <2>1, <2>3 DEF ReadIsBacked
    <3>2. PICK s \in Subs : s = chosen[v]
      BY <1>1, <1>6, <2>3 DEF TypeOK
    <3>3. PICK t \in Nat, m \in Nat : t = seenTokens[v] /\ m = seenMoney[v]
      BY <1>1 DEF TypeOK
    <3>4. Recorded(s, t, m)'
      BY <1>3, <3>1, <3>2, <3>3
    <3> QED
      BY <1>6, <3>2, <3>3, <3>4 DEF Recorded
  <2> QED
    BY <1>6, <2>2, <2>3 DEF ReadIsBacked
<1>7. ASSUME NEW v \in Workers \ {w}
      PROVE  ReadIsBacked(v)'
  <2>1. /\ UNCHANGED <<req, task[v], chosen[v], seen[v], seenTokens[v], seenMoney[v]>>
        /\ pc'[v] = pc[v]
    BY <1>2 DEF Alone
  <2>2. ReadIsBacked(v)
    BY DEF Backed
  <2> QED
    BY <1>6, <2>1, <2>2 DEF ReadIsBacked
<1>8. ReadIsBacked(w)'
  <2>0. ReadIsBacked(w)
    BY DEF Backed
  <2>1. ASSUME pc'[w] \in {"idle", "set_cache"}, pc'[w] = "idle" => seen'[w] = 0
        PROVE  ReadIsBacked(w)'
    BY <2>1 DEF ReadIsBacked, Reading, AfterSubscription
  <2>2. CASE Fail(w) \/ SkipApplied(w) \/ InsertConflict(w) \/ SetCache(w) \/ Commit(w)
    <3>1. pc'[w] \in {"idle", "set_cache"} /\ (pc'[w] = "idle" => seen'[w] = 0)
      BY <1>1, <2>2 DEF Fail, StatementFails, LostCommitReply, Crash, SkipApplied, InsertConflict,
                        SetCache, Commit, Return, EndSession, TypeOK
    <3> QED
      BY <2>1, <3>1
  <2>3. CASE \E c \in Changes : Fetch(w, c)
    <3>1. pc[w] = "idle" /\ pc'[w] = "select_change" /\ UNCHANGED session
      BY <1>1, <2>3 DEF Fetch, TypeOK
    <3> QED
      BY <2>0, <3>1 DEF ReadIsBacked, Reading, AfterSubscription
  <2>4. CASE LockChange(w) \/ UpdateSubscriptionUsage(w) \/ UpdateWallet(w)
    <3>1. UNCHANGED <<req, tables, task, session>>
      BY <2>4 DEF LockChange, UpdateSubscriptionUsage, UpdateWallet
    <3>2. \/ pc[w] = "select_change" /\ pc'[w] = "select_wallet"
          \/ pc[w] \in AfterSubscription /\ pc'[w] \in AfterSubscription
      BY <1>1, <2>4 DEF LockChange, UpdateSubscriptionUsage, UpdateWallet,
                        AfterSubscription, TypeOK
    <3> QED
      BY <1>6, <2>0, <3>1, <3>2 DEF ReadIsBacked, Reading, AfterSubscription
  <2>5. CASE SelectWallet(w)
    <3>1. UNCHANGED <<req, tables, task, chosen, seenTokens, seenMoney>> /\ chosen[w] = None
      BY <1>1, <2>5 DEF SelectWallet, SessionSound, AfterSubscription
    <3>2. \/ pc'[w] = "insert_wallet" /\ seen'[w] = 0
          \/ pc'[w] # "idle" /\ pc'[w] \notin {"select_change", "select_wallet", "insert_wallet"}
             /\ seen'[w] = balance[Wallet(w)]
      BY <1>1, <2>0, <2>5 DEF SelectWallet, AfterWallet, ReadIsBacked, TypeOK
    <3>3. Wallet(w) \in Accounts /\ Wallet(w)' = Wallet(w)
      BY <1>1, <2>5, <3>1, WorkerTypes DEF SelectWallet, Wallet, Account
    <3>4. seen'[w] = balance'[Wallet(w)] => Covered(Wallet(w), seen[w])'
      BY <1>4, <3>3 DEF Covered
    <3> QED
      BY <3>1, <3>2, <3>4 DEF ReadIsBacked, Reading, AfterSubscription
  <2>6. CASE InsertWallet(w)
    <3>1. UNCHANGED <<req, tables, task, seen, chosen, seenTokens, seenMoney>>
          /\ chosen[w] = None
      BY <1>1, <2>6 DEF InsertWallet, SessionSound, AfterSubscription
    <3>2. Wallet(w) \in Accounts /\ Wallet(w)' = Wallet(w)
      BY <1>1, <2>6, <3>1, WorkerTypes DEF InsertWallet, Wallet, Account
    <3>3. seen'[w] = balance'[Wallet(w)]
      BY <1>1, <2>0, <2>6, <3>1, <3>2 DEF InsertWallet, ReadIsBacked, AppliedToWallet
    <3>4. Covered(Wallet(w), seen[w])'
      BY <1>4, <3>2, <3>3 DEF Covered
    <3>5. pc'[w] \in {"select_subscription", "update_wallet"}
      BY <1>1, <2>6 DEF InsertWallet, AfterWallet, TypeOK
    <3> QED
      BY <3>1, <3>4, <3>5 DEF ReadIsBacked, Reading, AfterSubscription
  <2>7. CASE SelectSubscription(w)
    <3>1. /\ UNCHANGED <<req, tables, task, seen>> /\ pc[w] = "select_subscription"
          /\ chosen[w] = None /\ pc'[w] \in AfterSubscription
      BY <1>1, <2>7 DEF SelectSubscription, SessionSound, AfterSubscription, TypeOK
    <3>2. Wallet(w) \in Accounts /\ Wallet(w)' = Wallet(w)
      BY <1>1, <3>1, WorkerTypes DEF Wallet, Account
    <3>3. PICK a \in Accounts, b \in Int : a = Wallet(w) /\ b = seen[w]
      BY <1>1, <3>2 DEF TypeOK
    <3>4. Covered(a, b)'
      BY <1>3, <2>0, <3>1, <3>3 DEF ReadIsBacked, Reading
    <3>5. Covered(Wallet(w), seen[w])'
      BY <3>1, <3>2, <3>3, <3>4 DEF Covered
    <3>6. chosen'[w] # None => /\ chosen'[w] \in Subs
                               /\ seenTokens'[w] = subs'[chosen'[w]].tokens
                               /\ seenMoney'[w] = subs'[chosen'[w]].money
      BY <1>1, <2>7, <3>1 DEF SelectSubscription, Current, TypeOK
    <3>7. chosen'[w] # None => Recorded(chosen[w], seenTokens[w], seenMoney[w])'
      BY <1>5, <3>6 DEF Recorded
    <3> QED
      BY <3>1, <3>5, <3>7 DEF ReadIsBacked, Reading, AfterSubscription
  <2> QED
    BY <2>2, <2>3, <2>4, <2>5, <2>6, <2>7 DEF Step
<1> QED
  BY <1>3, <1>4, <1>5, <1>7, <1>8 DEF Backed

(***************************************************************************)
(* However many workers overlap and whatever fails, balances and usage are *)
(* backed by the changes that were applied.                                *)
(***************************************************************************)
THEOREM BalancesAreBackedAlways == Spec => []BalancesAreBacked
<1>1. Init => Backed
  <2> SUFFICES ASSUME Init
               PROVE  Backed
    OBVIOUS
  <2>1. Settled = {} /\ \A s : Charged(s) = {} /\ \A a : ChargedToWallet(a) = {}
    BY DEF Init, Settled, Charged, ChargedToWallet
  <2>2. \A f, s : SumFunctionOnSet(f, Charged(s)) = 0
    BY <2>1, SumEmpty, Zenon
  <2>3. \A f, a : SumFunctionOnSet(f, ChargedToWallet(a)) = 0
    BY <2>1, SumEmpty, Zenon
  <2>4. IsFiniteSet(Settled)
    BY <2>1, FS_EmptySet, Zenon
  <2>5. \A a : Covered(a, 0)
    BY <2>3 DEF Covered
  <2>6. \A s : Recorded(s, 0, 0)
    BY <2>2 DEF Recorded
  <2>7. \A w \in Workers : ReadIsBacked(w)
    BY DEF Init, ReadIsBacked, Reading, AfterSubscription
  <2> QED
    BY <2>4, <2>5, <2>6, <2>7 DEF Init, Backed
<1>2. Inv /\ Backed /\ [Next]_vars => Backed'
  <2> SUFFICES ASSUME Inv, Backed, [Next]_vars
               PROVE  Backed'
    OBVIOUS
  <2> USE DEF submit, tables, session, broker
  <2>1. ASSUME UNCHANGED <<req, is_applied, subscription_id, balance, pc, task, session>>,
               \A s \in Subs : subs'[s].tokens = subs[s].tokens /\ subs'[s].money = subs[s].money
        PROVE  Backed'
    <3>1. /\ Settled' = Settled /\ \A s : Charged(s)' = Charged(s)
          /\ \A a : ChargedToWallet(a)' = ChargedToWallet(a)
          /\ Credits' = Credits /\ Debits' = Debits
          /\ UsedTokens' = UsedTokens /\ UsedMoney' = UsedMoney
      BY <2>1 DEF Settled, Charged, ChargedToWallet, Credits, Debits, UsedTokens,
                  UsedMoney, IsCredit, Account, Kind, Amount, Tokens
    <3>2. \A w \in Workers : Wallet(w)' = Wallet(w)
      BY <2>1 DEF Wallet, Account
    <3>3. \A w \in Workers : ReadIsBacked(w)'
      BY <2>1, <3>1, <3>2, Zenon DEF Backed, ReadIsBacked, Covered, Recorded
    <3>4. /\ \A a \in Accounts : Covered(a, balance[a])'
          /\ \A s \in Subs : Recorded(s, subs[s].tokens, subs[s].money)'
      BY <2>1, <3>1, Zenon DEF Backed, Covered, Recorded
    <3>5. IsFiniteSet(Settled')
      BY <3>1, Zenon DEF Backed
    <3> QED
      BY <3>3, <3>4, <3>5 DEF Backed
  <2>2. ASSUME NEW s \in Subs, Subscriptions(s)
        PROVE  Backed'
    BY <2>1, <2>2, AdminUsage DEF Inv
  <2>3. ASSUME \/ \E c \in Changes : Submit(c) \/ Redeliver(c)
               \/ \E a \in Accounts : ExpireCache(a)
               \/ UNCHANGED vars
        PROVE  UNCHANGED <<req, tables, pc, task, session>>
    BY <2>3 DEF vars, Submit, InsertChange, CheckWithdraw, InsertWithdraw, Enqueue,
           LostPushReply, EnqueueFails, Redeliver, ExpireCache
  <2> QED
    BY <2>1, <2>2, <2>3, WorkerKeepsBacked DEF Next
<1>3. Inv /\ Backed => BalancesAreBacked
  BY DEF Inv, Books, Backed, Covered, Recorded, BalancesAreBacked
<1> QED
  BY <1>1, <1>2, <1>3, Invariance, PTL DEF Spec
(***************************************************************************)
(* Tasks are kept until they are applied.  Only a refused insert of a      *)
(* wallet ends an invocation that has neither failed nor settled its       *)
(* change: it needs another insert of the wallet that was still open when  *)
(* this one came.                                                          *)
(***************************************************************************)
InsertsApart == \A w \in Workers : pc[w] = "insert_wallet" => InsertFree(w)

TasksInv ==
  /\ NothingIsDropped
  /\ \A w \in Workers : pc[w] = "insert_wallet" => Wallet(w) \notin wallets
  /\ \A w \in Workers : pc[w] = "set_cache" => is_applied[task[w]]

\* A change that is applied stays so, and so does what a worker found missing,
\* unless a transaction commits its insert of it.
LEMMA TaskFacts ==
  ASSUME Inv, TasksInv, InsertsApart, NEW w \in Workers,
         Step(w) \/ Fail(w) \/ \E c \in Changes : Fetch(w, c)
  PROVE  /\ \A c \in Changes : is_applied[c] => is_applied'[c]
         /\ \A v \in Workers : pc'[v] = "insert_wallet" => Wallet(v)' \notin wallets'
         /\ \A v \in Workers : pc'[v] = "set_cache" => is_applied'[task'[v]]
<1> USE DEF submit, tables, broker, session
<1>1. TypeOK
  BY DEF Inv
<1>2. /\ Alone(w)
      /\ UNCHANGED tables \/ (pc[w] = "commit" /\ Publish(w))
  BY <1>1, WorkerAlone
<1>3. \A c \in Changes : is_applied[c] => is_applied'[c]
  BY <1>1, <1>2 DEF TypeOK, Publish
<1>4. ASSUME NEW v \in Workers \ {w}, pc'[v] = "insert_wallet"
      PROVE  Wallet(v)' \notin wallets'
  <2>1. /\ pc[v] = "insert_wallet" /\ Wallet(v)' = Wallet(v)
        /\ Wallet(v) \notin wallets
    BY <1>2, <1>4 DEF Alone, Wallet, Account, TasksInv
  <2>2. CASE pc[w] = "commit" /\ Publish(w)
    <3>1. created[w] => Wallet(w) # Wallet(v)
      BY <2>1, <2>2 DEF InsertsApart, InsertFree, InTx
    <3> QED
      BY <2>1, <2>2, <3>1 DEF Publish
  <2> QED
    BY <1>2, <2>1, <2>2
<1>5. pc'[w] = "insert_wallet" => Wallet(w)' \notin wallets'
  <2>1. pc'[w] = "insert_wallet" => SelectWallet(w) /\ Wallet(w) \notin wallets
    BY <1>1 DEF TypeOK, PCs, InTx, Step, Fail, Fetch, LockChange, SkipApplied, SelectWallet, AfterWallet,
           InsertWallet, InsertConflict, SelectSubscription, UpdateSubscriptionUsage,
           UpdateWallet, Commit, SetCache, StatementFails, LostCommitReply, Crash, Return,
           EndSession
  <2> QED
    BY <2>1 DEF SelectWallet, Wallet, Account
<1>6. ASSUME NEW v \in Workers \ {w}, pc'[v] = "set_cache"
      PROVE  is_applied'[task'[v]]
  <2>1. /\ pc[v] = "set_cache" /\ task'[v] = task[v]
        /\ task[v] \in Changes /\ is_applied[task[v]]
    BY <1>1, <1>2, <1>6 DEF Alone, TasksInv, TypeOK
  <2> QED
    BY <1>3, <2>1
<1>7. pc'[w] = "set_cache" => is_applied'[task'[w]]
  <2>1. pc'[w] = "set_cache" => Commit(w)
    BY <1>1 DEF TypeOK, PCs, InTx, Step, Fail, Fetch, LockChange, SkipApplied, SelectWallet, AfterWallet,
           InsertWallet, InsertConflict, SelectSubscription, UpdateSubscriptionUsage,
           UpdateWallet, Commit, SetCache, StatementFails, LostCommitReply, Crash, Return,
           EndSession
  <2> QED
    BY <1>1, <2>1 DEF TypeOK, Commit, Publish
<1> QED
  BY <1>3, <1>4, <1>5, <1>6, <1>7

\* A worker keeps its change, takes one, or ends with an applied one.
LEMMA TasksStep ==
  ASSUME Inv, TasksInv, InsertsApart, [Next]_vars
  PROVE  TasksInv'
<1> USE DEF submit, tables, broker, session
<1>1. TypeOK
  BY DEF Inv
<1>2. CASE \/ \E c \in Changes : Submit(c) \/ Redeliver(c)
           \/ \E s \in Subs : Subscriptions(s)
           \/ \E a \in Accounts : ExpireCache(a)
           \/ UNCHANGED vars
  <2>1. /\ UNCHANGED <<req, is_applied, wallets, pc, task>>
        /\ queue \subseteq queue'
        /\ \A c \in Changes : stage'[c] = "enqueued" => stage[c] = "enqueued" \/ c \in queue'
        /\ faults' = 0 => faults = 0
    <3>1. CASE \E c \in Changes : Submit(c) \/ Redeliver(c)
      BY <1>1, <3>1 DEF TypeOK, Submit, InsertChange, CheckWithdraw, InsertWithdraw, Enqueue,
                        LostPushReply, EnqueueFails, Redeliver
    <3>2. CASE \E s \in Subs : Subscriptions(s)
      BY <3>2 DEF Subscriptions, CreateSubscription, UpdateSubscription, CancelSubscription,
                  ProvisionSubscription, CloseSubscription
    <3>3. CASE (\E a \in Accounts : ExpireCache(a)) \/ UNCHANGED vars
      BY <3>3 DEF ExpireCache, vars
    <3> QED
      BY <1>2, <3>1, <3>2, <3>3
  <2> QED
    BY <2>1 DEF TasksInv, NothingIsDropped, Handled, Wallet, Account
<1>3. ASSUME NEW w \in Workers, Step(w) \/ Fail(w) \/ \E c \in Changes : Fetch(w, c)
      PROVE  TasksInv'
  <2>1. /\ \A c \in Changes : is_applied[c] => is_applied'[c]
        /\ \A v \in Workers : pc'[v] = "insert_wallet" => Wallet(v)' \notin wallets'
        /\ \A v \in Workers : pc'[v] = "set_cache" => is_applied'[task'[v]]
    BY <1>3, TaskFacts
  <2>2. Alone(w)
    BY <1>1, <1>3, WorkerAlone
  <2>3. NothingIsDropped'
    <3> SUFFICES ASSUME faults' = 0, NEW c \in Changes, stage'[c] = "enqueued"
                 PROVE  c \in queue' \/ Handled(c)' \/ is_applied'[c]
      BY DEF NothingIsDropped
    <3>1. ~Fault
      BY <1>1, SettlementAssumption DEF TypeOK, Fault
    <3>2. faults = 0 /\ stage[c] = "enqueued"
      BY <1>3, <3>1
         DEF Step, Fail, Fetch, LockChange, SkipApplied, SelectWallet, InsertWallet,
             InsertConflict, SelectSubscription, UpdateSubscriptionUsage, UpdateWallet, Commit,
             SetCache, StatementFails, LostCommitReply, Crash
    <3>3. c \in queue \/ Handled(c) \/ is_applied[c]
      BY <3>2 DEF TasksInv, NothingIsDropped
    <3>4. ASSUME NEW v \in Workers \ {w}, pc[v] # "idle", task[v] = c
          PROVE  Handled(c)'
      BY <2>2, <3>4 DEF Alone, Handled
    <3>5. /\ c \in queue => c \in queue' \/ (pc'[w] # "idle" /\ task'[w] = c)
          /\ pc[w] # "idle" /\ task[w] = c =>
               \/ pc'[w] # "idle" /\ task'[w] = c
               \/ is_applied'[c]
      <4>1. CASE SkipApplied(w)
        BY <1>1, <4>1 DEF SkipApplied, MaySettle, Return, EndSession
      <4>2. CASE InsertConflict(w)
        BY <4>2 DEF InsertConflict, TasksInv
      <4>3. CASE SetCache(w)
        BY <1>1, <4>3 DEF TasksInv, SetCache, Return, EndSession
      <4>4. CASE \E x \in Changes : Fetch(w, x)
        BY <1>1, <4>4 DEF TypeOK, Fetch
      <4>5. CASE \/ LockChange(w) \/ SelectWallet(w) \/ InsertWallet(w) \/ SelectSubscription(w)
                 \/ UpdateSubscriptionUsage(w) \/ UpdateWallet(w) \/ Commit(w)
        BY <1>1, <4>5 DEF TypeOK, LockChange, SelectWallet, InsertWallet, AfterWallet,
               SelectSubscription, UpdateSubscriptionUsage, UpdateWallet, Commit
      <4> QED
        BY <1>3, <3>1, <4>1, <4>2, <4>3, <4>4, <4>5
           DEF Step, Fail, StatementFails, LostCommitReply, Crash
    <3>6. CASE \E v \in Workers \ {w} : pc[v] # "idle" /\ task[v] = c
      BY <3>4, <3>6
    <3> QED
      BY <2>1, <3>3, <3>5, <3>6 DEF Handled
  <2> QED
    BY <2>1, <2>3 DEF TasksInv
<1> QED
  BY <1>2, <1>3 DEF Next

LEMMA TasksInit == Init => TasksInv
  BY DEF Init, TasksInv, NothingIsDropped

(***************************************************************************)
(* Without faults no queued change is dropped, for any number of workers,  *)
(* as long as no insert of a wallet comes while another insert of it is    *)
(* open.  wallet_creation_race is what happens otherwise.                  *)
(***************************************************************************)
THEOREM NothingIsDroppedWhenApart == Spec /\ []InsertsApart => []NothingIsDropped
<1>1. Inv /\ TasksInv /\ InsertsApart /\ [Next]_vars => TasksInv'
  BY TasksStep
<1>2. TasksInv => NothingIsDropped
  BY DEF TasksInv
<1> QED
  BY <1>1, <1>2, TasksInit, Invariance, PTL DEF Spec

\* One worker alone never waits.
THEOREM NothingIsDroppedAlone == OneWorker /\ Spec => []NothingIsDropped
<1> SUFFICES ASSUME OneWorker
             PROVE  Spec => []NothingIsDropped
  OBVIOUS
<1>1. InsertsApart
  BY DEF OneWorker, InsertsApart, InsertFree
<1> QED
  BY <1>1, NothingIsDroppedWhenApart, PTL

(***************************************************************************)
(* Nor is any dropped where every account had its wallet from the start,   *)
(* whatever the number of workers: no worker ever inserts one.             *)
(***************************************************************************)
LEMMA WalletsStay ==
  ASSUME TypeOK, [Next]_vars,
         wallets = Accounts /\ \A w \in Workers : pc[w] # "insert_wallet"
  PROVE  wallets' = Accounts /\ \A w \in Workers : pc'[w] # "insert_wallet"
<1> USE DEF submit, tables, broker, session
<1>1. CASE \/ \E c \in Changes : Submit(c) \/ Redeliver(c)
           \/ \E s \in Subs : Subscriptions(s)
           \/ \E a \in Accounts : ExpireCache(a)
           \/ UNCHANGED vars
  BY <1>1
     DEF Submit, InsertChange, CheckWithdraw, InsertWithdraw, Enqueue, LostPushReply, EnqueueFails,
         Redeliver, Subscriptions, CreateSubscription, UpdateSubscription,
         CancelSubscription, ProvisionSubscription, CloseSubscription, ExpireCache, vars
<1>2. ASSUME NEW w \in Workers, Step(w) \/ Fail(w) \/ \E c \in Changes : Fetch(w, c)
      PROVE  wallets' = Accounts /\ \A v \in Workers : pc'[v] # "insert_wallet"
  <2>1. /\ Alone(w)
        /\ UNCHANGED tables \/ (pc[w] = "commit" /\ Publish(w))
    BY <1>2, WorkerAlone
  <2>2. wallets' = Accounts
    BY <2>1, WorkerTypes DEF Publish
  <2>3. pc'[w] # "insert_wallet"
    <3>1. pc[w] = "select_wallet" => Wallet(w) \in wallets
      BY WorkerTypes
    <3> QED
      BY <1>2, <3>1
       DEF TypeOK, PCs, InTx, Step, Fail, Fetch, LockChange, SkipApplied, SelectWallet, AfterWallet,
           InsertWallet, InsertConflict, SelectSubscription, UpdateSubscriptionUsage,
           UpdateWallet, Commit, SetCache, StatementFails, LostCommitReply, Crash, Return,
           EndSession
  <2> QED
    BY <2>1, <2>2, <2>3 DEF Alone
<1> QED
  BY <1>1, <1>2 DEF Next

\* Every wallet exists already: no change is dropped without a fault.
THEOREM NothingIsDroppedWithWallets == Spec /\ wallets = Accounts => []NothingIsDropped
<1> DEFINE Had == wallets = Accounts /\ \A w \in Workers : pc[w] # "insert_wallet"
<1>1. Init /\ wallets = Accounts => Had
  BY DEF Init
<1>2. TypeOK /\ Had /\ [Next]_vars => Had'
  BY WalletsStay
<1>3. Had => InsertsApart
  BY DEF InsertsApart
<1> HIDE DEF Had
<1> QED
  BY <1>1, <1>2, <1>3, TypeCorrect, NothingIsDroppedWhenApart, PTL DEF Spec

(***************************************************************************)
(* The submitters inside Settlement keep to Submission, what settlement    *)
(* relies on, as the event pipeline does.  A withdrawal that was checked   *)
(* has submitted nothing yet, and a push whose reply was lost was a push.  *)
(***************************************************************************)
Submitted(c) ==
  CASE stage[c] = "checked" -> "new"
    [] stage[c] = "unanswered" -> "enqueued"
    [] OTHER -> stage[c]

Sub == INSTANCE Submission WITH stage <- [c \in Changes |-> Submitted(c)]

\* Each step of a submitter is a step of Submission, or a check that it is not.
LEMMA SubmissionStep ==
  ASSUME TypeOK, [Next]_vars
  PROVE  [Sub!Next]_([c \in Changes |-> Submitted(c)])
<1> USE DEF submit, tables, broker, session
<1> DEFINE sub == [c \in Changes |-> Submitted(c)]
<1>1. ASSUME UNCHANGED stage
      PROVE  UNCHANGED sub
  BY <1>1 DEF Submitted
<1>2. ASSUME NEW c \in Changes, NEW s \in {"inserted", "enqueued", "unqueued"},
             \/ stage' = [stage EXCEPT ![c] = s]
             \/ s = "enqueued" /\ stage' = [stage EXCEPT ![c] = "unanswered"]
      PROVE  sub' = [sub EXCEPT ![c] = s]
  <2>1. stage \in [Changes -> Stages]
    BY DEF TypeOK
  <2>2. \A d \in Changes : Submitted(d)' = IF d = c THEN s ELSE Submitted(d)
    BY <1>2, <2>1 DEF Submitted
  <2> QED
    BY <2>2
<1>3. ASSUME NEW c \in Changes, Submit(c)
      PROVE  [Sub!Next]_sub
  <2>1. CASE InsertChange(c) \/ InsertWithdraw(c)
    <3>1. stage' = [stage EXCEPT ![c] = "inserted"] /\ sub[c] = "new"
      BY <2>1 DEF InsertChange, InsertWithdraw, Submitted
    <3>2. Sub!Insert(c)
      BY <1>2, <3>1 DEF Sub!Insert
    <3> QED
      BY <3>2 DEF Sub!Next
  <2>2. CASE CheckWithdraw(c)
    BY <2>2 DEF CheckWithdraw, TypeOK, Submitted
  <2>3. CASE Enqueue(c) \/ LostPushReply(c)
    <3>1. /\ \/ stage' = [stage EXCEPT ![c] = "enqueued"]
             \/ stage' = [stage EXCEPT ![c] = "unanswered"]
          /\ sub[c] = "inserted"
      BY <2>3 DEF Enqueue, LostPushReply, Submitted
    <3>2. Sub!Enqueue(c)
      BY <1>2, <3>1 DEF Sub!Enqueue
    <3> QED
      BY <3>2 DEF Sub!Next
  <2>4. CASE EnqueueFails(c)
    <3>1. stage' = [stage EXCEPT ![c] = "unqueued"] /\ sub[c] = "inserted"
      BY <2>4 DEF EnqueueFails, Submitted
    <3>2. Sub!GiveUp(c)
      BY <1>2, <3>1 DEF Sub!GiveUp
    <3> QED
      BY <3>2 DEF Sub!Next
  <2> QED
    BY <1>3, <2>1, <2>2, <2>3, <2>4 DEF Submit
<1>4. CASE \/ \E c \in Changes : Redeliver(c)
           \/ \E s \in Subs : Subscriptions(s)
           \/ \E a \in Accounts : ExpireCache(a)
           \/ UNCHANGED vars
  BY <1>1, <1>4
     DEF Redeliver, Subscriptions, CreateSubscription, UpdateSubscription,
         CancelSubscription, ProvisionSubscription, CloseSubscription, ExpireCache, vars
<1>5. ASSUME NEW w \in Workers, Step(w) \/ Fail(w) \/ \E c \in Changes : Fetch(w, c)
      PROVE  UNCHANGED stage
  BY <1>5
     DEF Step, Fail, Fetch, LockChange, SkipApplied, SelectWallet, InsertWallet,
         InsertConflict, SelectSubscription, UpdateSubscriptionUsage, UpdateWallet, Commit,
         SetCache, StatementFails, LostCommitReply, Crash
<1> QED
  BY <1>1, <1>3, <1>4, <1>5 DEF Next

\* Every change is inserted once and queued at most once, after its row.
THEOREM SettlementSubmits == Spec => Sub!Spec
<1>1. Init => Sub!Init
  BY DEF Init, Sub!Init, Submitted
<1> QED
  BY <1>1, SubmissionStep, TypeCorrect, PTL DEF Spec, Sub!Spec
=============================================================================
