-------------------------- MODULE SettlementTotals --------------------------
(***************************************************************************)
(* Sums over the balance changes.                                          *)
(***************************************************************************)
EXTENDS SettlementProps, Functions

\* What the ledger posts for each change, and what a subscription that pays for
\* it records.
PostedAmount == [c \in Changes |-> L!Signed(req[c].content)]
UsedTokens   == [c \in Changes |-> Tokens(c)]
UsedMoney    == [c \in Changes |-> Amount(c)]

\* The applied changes that a subscription paid for, or with None a wallet.
Charged(source) == {c \in Changes : is_applied[c] /\ subscription_id[c] = source}

ChargedToWallet(a) == {c \in Charged(None) : Account(c) = a}

\* What a change gives to a wallet, or takes from it.
IsCredit(c) == Kind(c) \in {"Deposit", "AddCredit"}

Credits == [c \in Changes |-> IF IsCredit(c) THEN Amount(c) ELSE 0]
Debits  == [c \in Changes |-> IF IsCredit(c) THEN 0 ELSE Amount(c)]

(***************************************************************************)
(* However many workers overlap, no money and no usage comes from nowhere: *)
(* a wallet that holds or owes anything exists, holds at most what applied *)
(* changes gave it and owes at most what they took, and a subscription     *)
(* records at most what was charged to it.  What a transaction read may be *)
(* stale, but it was backed by changes that stay applied.                  *)
(***************************************************************************)
BalancesAreBacked ==
  /\ AppliedToWallet
  /\ \A a \in Accounts :
       /\ balance[a] <= SumFunctionOnSet(Credits, ChargedToWallet(a))
       /\ 0 - balance[a] <= SumFunctionOnSet(Debits, ChargedToWallet(a))
  /\ \A s \in Subs : /\ subs[s].tokens <= SumFunctionOnSet(UsedTokens, Charged(s))
                     /\ subs[s].money <= SumFunctionOnSet(UsedMoney, Charged(s))

(***************************************************************************)
(* The documented effect of apply_balance_change_with_tx: every applied    *)
(* change moved its wallet by its amount, or its subscription's usage by   *)
(* its tokens and its price.  No change is lost under another one's write. *)
(***************************************************************************)
EveryChangeCounts ==
  /\ \A a \in Accounts :
       balance[a] = SumFunctionOnSet(PostedAmount, ChargedToWallet(a))
  /\ \A s \in Subs : /\ subs[s].tokens = SumFunctionOnSet(UsedTokens, Charged(s))
                     /\ subs[s].money = SumFunctionOnSet(UsedMoney, Charged(s))
=============================================================================
