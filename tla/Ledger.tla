------------------------------- MODULE Ledger -------------------------------
(***************************************************************************)
(* What settlement promises, without transactions, queues or workers: a    *)
(* balance change is posted once, in one step, either to the account's     *)
(* wallet with its signed amount or, for token spending, to one            *)
(* subscription of the account with quota left.                            *)
(***************************************************************************)
EXTENDS Integers

CONSTANTS Accounts, Changes, Subs, Contents, Limits, None

VARIABLES
  req,      \* [account, content] of each balance change
  posted,   \* the changes that have been posted
  source,   \* the subscription that paid for a change, None for the wallet
  balance,  \* the balance of each account
  quota     \* [account, limit, tokens, money] of each subscription

vars == <<req, posted, source, balance, quota>>

Init ==
  /\ req \in [Changes -> [account : Accounts, content : Contents]]
  /\ posted = {}
  /\ source = [c \in Changes |-> None]
  /\ balance = [a \in Accounts |-> 0]
  /\ quota = [s \in Subs |-> [account |-> None, limit |-> 0,
                              tokens |-> 0, money |-> 0]]

Signed(x) ==
  IF x.kind \in {"SpendToken", "Withdraw"} THEN 0 - x.amount ELSE x.amount

PostToWallet(c) ==
  /\ c \notin posted
  /\ posted' = posted \cup {c}
  /\ balance' = [balance EXCEPT ![req[c].account] = @ + Signed(req[c].content)]
  /\ UNCHANGED <<req, source, quota>>

PostToSubscription(c, s) ==
  LET x == req[c].content IN
  /\ c \notin posted
  /\ x.kind = "SpendToken"
  /\ quota[s].account = req[c].account
  /\ quota[s].tokens + x.tokens <= quota[s].limit
  /\ posted' = posted \cup {c}
  /\ source' = [source EXCEPT ![c] = s]
  /\ quota' = [quota EXCEPT ![s].tokens = @ + x.tokens, ![s].money = @ + x.amount]
  /\ UNCHANGED <<req, balance>>

\* A subscription is opened for an account, or given its quota, before use.
Open(s, a) ==
  /\ quota[s].account = None
  /\ quota' = [quota EXCEPT ![s].account = a]
  /\ UNCHANGED <<req, posted, source, balance>>

Grant(s, limit) ==
  /\ quota[s].limit <= limit
  /\ quota' = [quota EXCEPT ![s].limit = limit]
  /\ UNCHANGED <<req, posted, source, balance>>

Next ==
  \/ \E c \in Changes : PostToWallet(c) \/ \E s \in Subs : PostToSubscription(c, s)
  \/ \E s \in Subs : \/ \E a \in Accounts : Open(s, a)
                     \/ \E limit \in Limits : Grant(s, limit)

Spec == Init /\ [][Next]_vars
=============================================================================
