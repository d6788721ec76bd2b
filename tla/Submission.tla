----------------------------- MODULE Submission -----------------------------
(***************************************************************************)
(* What settlement relies on from whoever submits balance changes: a       *)
(* change is inserted once, its task is queued at most once and only after *)
(* the row is there, and a change given up on is never queued.             *)
(***************************************************************************)
CONSTANT Changes

VARIABLE stage  \* "new", "inserted", "enqueued" or "unqueued" for each change

Init == stage = [c \in Changes |-> "new"]

Insert(c) ==
  /\ stage[c] = "new"
  /\ stage' = [stage EXCEPT ![c] = "inserted"]

Enqueue(c) ==
  /\ stage[c] = "inserted"
  /\ stage' = [stage EXCEPT ![c] = "enqueued"]

\* The submitter fails after the insert, or cannot tell that it happened.
GiveUp(c) ==
  /\ stage[c] \in {"new", "inserted"}
  /\ stage' = [stage EXCEPT ![c] = "unqueued"]

Next == \E c \in Changes : Insert(c) \/ Enqueue(c) \/ GiveUp(c)

Spec == Init /\ [][Next]_stage
=============================================================================
