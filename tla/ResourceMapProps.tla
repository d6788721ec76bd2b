-------------------------- MODULE ResourceMapProps --------------------------
(***************************************************************************)
(* What the mapping of files, batches and responses must guarantee.        *)
(***************************************************************************)
EXTENDS ResourceMap

(***************************************************************************)
(* The type invariant of the upstreams, the tables and the handlers.       *)
(***************************************************************************)
TypeOK ==
  /\ kind \in [Objects -> Kinds \cup {None}]
  /\ exists \subseteq Objects
  /\ output \in [Objects -> Originals \cup {None}]
  /\ previous \in [Objects -> Originals \cup {None}]
  /\ row \in [Ids -> Row \cup {None}]
  /\ deleted \subseteq Ids
  /\ billed \subseteq Objects
  /\ known \subseteq Ids
  /\ pc \in [Requests -> PCs]
  /\ local \in [Requests -> Local]
  /\ faults \in 0 .. MaxFaults

Row2(i) == <<row[i].upstream_id, row[i].original>>

(***************************************************************************)
(* Every row names an object that its upstream created, of the kind its    *)
(* table holds, whichever upstream answered after a retry; and only an     *)
(* output file, which several requests may wrap at once, has two rows.     *)
(***************************************************************************)
RowsNameObjects ==
  \A i \in Ids : row[i] # None =>
    /\ kind[Row2(i)] \in KindsIn(row[i].table)
    /\ \A j \in Ids \ {i} : row[j] # None /\ Row2(j) = Row2(i) => kind[Row2(i)] = "output"

\* The object existed and was deleted.
Gone(x) == kind[x] # None /\ x \notin exists

\* Where a deletion of the row of i goes: the Anthropic API sends that of a file
\* to an upstream that serves the nameless model, whatever the row says.
Addressed(i) ==
  {row[i].upstream_id} \cup IF row[i].table = "file_metas" THEN Nameless ELSE {}

(***************************************************************************)
(* A row that is marked deleted stands for an object that is gone, the one *)
(* it names or a namesake at an upstream that the Anthropic API addresses  *)
(* in its place: no failure, lost answer or concurrent deletion leaves a   *)
(* live object behind an id that no longer resolves.                       *)
(***************************************************************************)
DeletedMeansGone ==
  \A i \in deleted : \E u \in Addressed(i) : Gone(<<u, row[i].original>>)

(***************************************************************************)
(* As long as nothing fails, every object that clients caused is reachable *)
(* by an id, or its handler is about to insert one.                        *)
(***************************************************************************)
NothingIsLost ==
  faults = 0 => \A x \in exists : kind[x] # "output" =>
    \/ \E i \in Ids : Names(i, x)
    \/ \E r \in Requests : pc[r] \in {"insert", "trace"} /\ Object(r) = x

(***************************************************************************)
(* The id a request found or made for an output file names the output of   *)
(* the batch it asked about, at the upstream of that batch.                *)
(***************************************************************************)
ResultIsWrapped ==
  \A r \in Requests : local[r].file_id # None =>
    /\ local[r].output = output[Object(r)]
    /\ Names(local[r].file_id, OutputFile(r))

(***************************************************************************)
(* As long as nothing fails, a client learns the id of a response, or of a *)
(* batch's results, only after the usage was queued for billing.           *)
(***************************************************************************)
BilledBeforeKnown ==
  faults = 0 => \A i \in known :
    /\ kind[Row2(i)] = "response" => Row2(i) \in billed
    /\ kind[Row2(i)] = "output" =>
         \E b \in billed : b[1] = Row2(i)[1] /\ output[b] = Row2(i)[2]
=============================================================================
