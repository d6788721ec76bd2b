---------------------------- MODULE MCResourceMap ----------------------------
(***************************************************************************)
(* A small instance of ResourceMap for TLC.                                *)
(***************************************************************************)
EXTENDS ResourceMapProps, TLC

CONSTANTS u1, u2, o1, o2, o3

\* A file, a batch and its output at one upstream, a chain of responses at another,
\* and at each something with the original id of an object of the other: a file with
\* that of the output, and a response with that of the first in the chain.
MCGiven ==
  [k \in Kinds |-> CASE k = "file" -> {<<u1, o1>>, <<u2, o3>>}
                     [] k = "batch" -> {<<u1, o2>>}
                     [] k = "message_batch" -> {<<u2, o3>>}
                     [] k = "output" -> {<<u1, o3>>}
                     [] k = "response" -> {<<u2, o1>>, <<u2, o3>>, <<u1, o1>>}]

\* Our ids and the connections are interchangeable.
MCSymmetry == Permutations(Ids) \cup Permutations(Requests)
=============================================================================
