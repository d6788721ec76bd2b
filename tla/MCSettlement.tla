---------------------------- MODULE MCSettlement ----------------------------
(***************************************************************************)
(* Small instances of Settlement for TLC.                                  *)
(***************************************************************************)
EXTENDS SettlementTotals, TLC

Spend(amount, tokens) ==
  [kind |-> "SpendToken", amount |-> amount, tokens |-> tokens]

Admin(kind, amount) == [kind |-> kind, amount |-> amount, tokens |-> 0]

MCContents == {Spend(2, 1), Admin("Deposit", 3), Admin("Withdraw", 1)}

\* No withdrawals, for the run with more changes.
MCSpendOrDeposit == {Spend(2, 1), Admin("Deposit", 3)}

\* Deposits alone already race with one another.
MCDeposit == {Admin("Deposit", 3)}

MCLimits == {1}

\* Room for one spending, or for two.
MCTwoLimits == {1, 2}

\* Changes and workers are interchangeable.
MCSymmetry == Permutations(Changes) \cup Permutations(Workers)
=============================================================================
