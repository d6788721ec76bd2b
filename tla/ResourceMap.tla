----------------------------- MODULE ResourceMap -----------------------------
(***************************************************************************)
(* Files, batches and responses of the OpenAI and Anthropic proxies:       *)
(* objects that exist at an upstream under an id of its choice, which      *)
(* clients know by an id of ours.  file_metas, batch_metas and             *)
(* response_metas map one to the other.  Handlers call the upstream and    *)
(* write the map in separate steps, and queue the usage they see.          *)
(***************************************************************************)
EXTENDS Integers, FiniteSets

CONSTANTS
  Upstreams,  \* upstream ids
  Nameless,   \* those that serve a model named "" to the Anthropic API
  Originals,  \* ids that upstreams give to objects, each on its own
  Given,      \* the objects of each kind that upstreams may create, a bound
  Ids,        \* UUIDs of ours
  Requests,   \* connections, on which requests follow one another
  MaxFaults,  \* bound on failed calls, lost replies and dropped handlers
  None        \* no object, no id, no upstream

Kinds   == {"file", "output", "batch", "message_batch", "response"}
Tables  == {"file_metas", "batch_metas", "response_metas"}
Objects == Upstreams \X Originals
Row     == [table : Tables, upstream_id : Upstreams, original : Originals]

ASSUME ResourceAssumption ==
  /\ Given \in [Kinds -> SUBSET Objects]
  /\ Nameless \subseteq Upstreams
  /\ MaxFaults \in Nat
  /\ None \notin Upstreams \cup Originals \cup Ids \cup Kinds \cup Row

VARIABLES
  kind,     \* what each object is, None before it is created
  exists,   \* objects at their upstreams
  output,   \* the original id of a completed batch's output file
  previous, \* the original id of the response that a response continues
  row,      \* the row of each id in its table
  deleted,  \* ids whose row is marked deleted
  billed,   \* objects whose usage was queued
  known,    \* ids that clients were given
  pc,       \* where the request of each connection is
  local,    \* what its handler remembers
  faults    \* faults so far

upstreams == <<kind, exists, output, previous>>
tables    == <<row, deleted>>
vars      == <<upstreams, tables, billed, known, pc, local, faults>>

Creating == {"upload", "create_batch", "create_message_batch", "create_response"}
Deleting == {"delete_file", "delete_anthropic_file", "delete_response"}
Reading  == {"retrieve_batch", "retrieve_response"}
Ops      == Creating \cup Deleting \cup Reading

PCs == {"idle", "resolve", "call", "insert", "wrap", "wrap_insert",
        "trace", "mark", "answer"}

\* at and next: the upstream it calls, and the one it tries if that fails;
\* needs: the original id of an input file or of a previous response;
\* original: that of its own object; output, file_id: of the output file.
Local == [op : Ops, id : Ids \cup {None},
          at : Upstreams \cup {None}, next : Upstreams \cup {None},
          needs : Originals \cup {None}, original : Originals \cup {None},
          output : Originals \cup {None}, file_id : Ids \cup {None}]

Blank == [op |-> "upload", id |-> None, at |-> None, next |-> None, needs |-> None,
          original |-> None, output |-> None, file_id |-> None]

Init ==
  /\ kind = [x \in Objects |-> None]
  /\ exists = {}
  /\ output = [x \in Objects |-> None]
  /\ previous = [x \in Objects |-> None]
  /\ row = [i \in Ids |-> None]
  /\ deleted = {}
  /\ billed = {}
  /\ known = {}
  /\ pc = [r \in Requests |-> "idle"]
  /\ local = [r \in Requests |-> Blank]
  /\ faults = 0

Fault == faults < MaxFaults /\ faults' = faults + 1

\* The object the handler of r works on.
Object(r) == <<local[r].at, local[r].original>>

\* The table of what an endpoint creates, and the one it looks its id up in.
Made(o) == IF o = "upload" THEN "file_metas"
           ELSE IF o = "create_response" THEN "response_metas" ELSE "batch_metas"

LookedUp(o) == IF o \in {"create_response", "retrieve_response", "delete_response"}
                 THEN "response_metas"
               ELSE IF o = "retrieve_batch" THEN "batch_metas" ELSE "file_metas"

\* What may be in each table.
KindsIn(t) == IF t = "file_metas" THEN {"file", "output"}
              ELSE IF t = "batch_metas" THEN {"batch", "message_batch"}
              ELSE {"response"}

Names(i, x) == row[i] # None /\ x = <<row[i].upstream_id, row[i].original>>
Found(i, t) == row[i] # None /\ row[i].table = t /\ i \notin deleted

RowOf(t, x) == [table |-> t, upstream_id |-> x[1], original |-> x[2]]

\* Handlers that may still insert a row, and the bound on what they may call for
\* before the ids of an instance run out.
Claims(r) ==
  \/ pc[r] \in {"insert", "wrap", "wrap_insert"}
  \/ pc[r] = "trace" /\ local[r].op = "create_response"

IdsLeft ==
  Cardinality({r \in Requests : Claims(r)}) < Cardinality({i \in Ids : row[i] = None})

OutputFile(r) == <<local[r].at, local[r].output>>

\* Mutant: the lookup leaves out the upstream.
WrappedAnywhere(x) ==
  {i \in Ids : Found(i, "file_metas") /\ row[i].original = x[2]}

\* The rows of x that wrap_file may find, of which it takes the newest.
Wrapped(x) == {i \in Ids : Found(i, "file_metas") /\ Names(i, x)}

Goto(r, l, where) ==
  /\ pc' = [pc EXCEPT ![r] = where]
  /\ local' = [local EXCEPT ![r] = l]

End(r) == Goto(r, Blank, "idle")

-----------------------------------------------------------------------------
(***************************************************************************)
(* Requests arrive.  An upload goes to some upstream, a response to one or *)
(* two candidates, with or without a previous response.  An id of another  *)
(* table, which a lookup does not find, is left out.  Cancelling a batch   *)
(* does to the map what retrieving it does, and batch_metas.status, which  *)
(* both write and nothing reads, is left out, and with it the reads of     *)
(* message batches and the reads of files.  So is an output file in the    *)
(* answer to a batch's creation, which create_batch wraps as a read does:  *)
(* upstreams create batches that are still to run.                         *)
(***************************************************************************)
Upload(r, u) ==
  /\ pc[r] = "idle"
  /\ Goto(r, [Blank EXCEPT !.at = u], "call")
  /\ UNCHANGED <<upstreams, tables, billed, known, faults>>

\* Over the Anthropic API, without a model to select an upstream by.
UploadFile(r) == \E u \in Nameless : Upload(r, u)

CreateMessageBatch(r, u) ==
  /\ pc[r] = "idle"
  /\ Goto(r, [Blank EXCEPT !.op = "create_message_batch", !.at = u], "call")
  /\ UNCHANGED <<upstreams, tables, billed, known, faults>>

CreateResponse(r, i, u, v) ==
  /\ pc[r] = "idle"
  /\ i # None => row[i].table = "response_metas"
  /\ Goto(r, [Blank EXCEPT !.op = "create_response", !.id = i, !.at = u, !.next = v],
          IF i = None THEN "call" ELSE "resolve")
  /\ UNCHANGED <<upstreams, tables, billed, known, faults>>

UseId(r, o, i) ==
  /\ pc[r] = "idle"
  /\ o \notin {"upload", "create_message_batch", "create_response"}
  /\ row[i].table = LookedUp(o)
  /\ Goto(r, [Blank EXCEPT !.op = o, !.id = i], "resolve")
  /\ UNCHANGED <<upstreams, tables, billed, known, faults>>

-----------------------------------------------------------------------------
(***************************************************************************)
(* The id is looked up: it names the object, or what the new object needs. *)
(***************************************************************************)
Translated(r) ==
  LET l == local[r]
      x == row[l.id]
  IN CASE l.op = "create_response" -> [l EXCEPT !.id = None, !.needs = x.original]
       [] l.op = "create_batch" ->
            [l EXCEPT !.id = None, !.at = x.upstream_id, !.needs = x.original]
       [] OTHER -> [l EXCEPT !.at = x.upstream_id, !.original = x.original]

Resolve(r) ==
  /\ pc[r] = "resolve"
  /\ local[r].op # "delete_anthropic_file"
  /\ Found(local[r].id, LookedUp(local[r].op))
  /\ Goto(r, Translated(r), "call")
  /\ UNCHANGED <<upstreams, tables, billed, known, faults>>

\* The Anthropic API takes the original id from the row but not the upstream.
ResolveElsewhere(r, u) ==
  /\ pc[r] = "resolve"
  /\ local[r].op = "delete_anthropic_file"
  /\ Found(local[r].id, LookedUp(local[r].op))
  /\ Goto(r, [Translated(r) EXCEPT !.at = u], "call")
  /\ UNCHANGED <<upstreams, tables, billed, known, faults>>

\* The nameless model is inactive, or its upstream not online.
Unserved(r) ==
  /\ pc[r] = "resolve"
  /\ local[r].op = "delete_anthropic_file"
  /\ End(r)
  /\ UNCHANGED <<upstreams, tables, billed, known, faults>>

NotFound(r) ==
  /\ pc[r] = "resolve"
  /\ ~Found(local[r].id, LookedUp(local[r].op))
  /\ End(r)
  /\ UNCHANGED <<upstreams, tables, billed, known, faults>>

-----------------------------------------------------------------------------
(***************************************************************************)
(* The upstream answers.  A response is traced before its row is inserted. *)
(***************************************************************************)
NewKind(o) == CASE o = "upload" -> "file"
                [] o = "create_batch" -> "batch"
                [] o = "create_message_batch" -> "message_batch"
                [] OTHER -> "response"

\* Upstreams know the ids they gave, and no others.
Has(u, o, kinds) == <<u, o>> \in exists /\ kind[<<u, o>>] \in kinds

Needed(l) == IF l.op = "create_batch" THEN {"file", "output"} ELSE {"response"}

Continued(l) == IF l.op = "create_response" THEN l.needs ELSE None

\* Mutant: the row keeps the first candidate though the second one answered.
MakesObjectAtNext(r, x) ==
  LET l == local[r] IN
  /\ pc[r] = "call"
  /\ l.op \in Creating
  /\ IdsLeft
  /\ x \in Given[NewKind(l.op)]
  /\ x[1] = IF l.next = None THEN l.at ELSE l.next
  /\ kind[x] = None
  /\ l.needs # None => Has(l.at, l.needs, Needed(l))
  /\ kind' = [kind EXCEPT ![x] = NewKind(l.op)]
  /\ exists' = exists \cup {x}
  /\ previous' = [previous EXCEPT ![x] = Continued(l)]

\* The upstream creates x for the request of r.
MakesObject(r, x) ==
  LET l == local[r] IN
  /\ pc[r] = "call"
  /\ l.op \in Creating
  /\ IdsLeft
  /\ x \in Given[NewKind(l.op)]
  /\ x[1] = l.at
  /\ kind[x] = None
  /\ l.needs # None => Has(l.at, l.needs, Needed(l))
  /\ kind' = [kind EXCEPT ![x] = NewKind(l.op)]
  /\ exists' = exists \cup {x}
  /\ previous' = [previous EXCEPT ![x] = Continued(l)]

\* Mutant: the usage of a response is not traced.
CreateUntraced(r, x) ==
  /\ MakesObject(r, x)
  /\ Goto(r, [local[r] EXCEPT !.original = x[2], !.next = None, !.needs = None], "insert")
  /\ UNCHANGED <<output, tables, billed, known, faults>>

Create(r, x) ==
  /\ MakesObject(r, x)
  /\ Goto(r, [local[r] EXCEPT !.original = x[2], !.next = None, !.needs = None],
          IF local[r].op = "create_response" THEN "trace" ELSE "insert")
  /\ UNCHANGED <<output, tables, billed, known, faults>>

\* The answer to a creation does not arrive, which is an error to the handler.
TryNext(r) ==
  IF local[r].next # None
    THEN Goto(r, [local[r] EXCEPT !.at = local[r].next, !.next = None], "call")
    ELSE End(r)

CreateUnanswered(r, x) ==
  /\ MakesObject(r, x)
  /\ Fault
  /\ TryNext(r)
  /\ UNCHANGED <<output, tables, billed, known>>

\* Mutant: the row is marked whatever the upstream answers.
MarkAnyway(r) ==
  /\ pc[r] = "call"
  /\ IF local[r].op \in Deleting
       THEN pc' = [pc EXCEPT ![r] = "mark"] /\ UNCHANGED local
       ELSE TryNext(r)
  /\ UNCHANGED <<upstreams, tables, billed, known, faults>>

\* An error of the upstream or of the network; only responses are retried.
Refuse(r) ==
  /\ pc[r] = "call"
  /\ TryNext(r)
  /\ UNCHANGED <<upstreams, tables, billed, known, faults>>

Retrieve(r) ==
  LET f == output[Object(r)] IN
  /\ pc[r] = "call"
  /\ local[r].op \in Reading
  /\ Has(local[r].at, local[r].original, {"batch", "response"})
  /\ f # None => IdsLeft \/ Wrapped(<<local[r].at, f>>) # {}
  /\ Goto(r, [local[r] EXCEPT !.output = f],
          IF f # None THEN "wrap" ELSE "trace")
  /\ UNCHANGED <<upstreams, tables, billed, known, faults>>

Delete(r) ==
  /\ pc[r] = "call"
  /\ local[r].op \in Deleting
  /\ Has(local[r].at, local[r].original, KindsIn(LookedUp(local[r].op)))
  /\ exists' = exists \ {Object(r)}
  /\ pc' = [pc EXCEPT ![r] = "mark"]
  /\ UNCHANGED <<kind, output, previous, tables, billed, known, local, faults>>

-----------------------------------------------------------------------------
(***************************************************************************)
(* The map.                                                                *)
(***************************************************************************)
InsertRow(i, t, x) ==
  /\ row[i] = None
  /\ row' = [row EXCEPT ![i] = RowOf(t, x)]

Insert(r) ==
  /\ pc[r] = "insert"
  /\ \E i \in Ids :
       /\ InsertRow(i, Made(local[r].op), Object(r))
       /\ Goto(r, [local[r] EXCEPT !.id = i],
               IF local[r].op = "create_batch" THEN "trace" ELSE "answer")
  /\ UNCHANGED <<upstreams, deleted, billed, known, faults>>

Reuse(r) ==
  /\ pc[r] = "wrap"
  /\ \E i \in Wrapped(OutputFile(r)) :
       Goto(r, [local[r] EXCEPT !.file_id = i], "trace")
  /\ UNCHANGED <<upstreams, tables, billed, known, faults>>

NotWrapped(r) ==
  /\ pc[r] = "wrap"
  /\ Wrapped(OutputFile(r)) = {}
  /\ Goto(r, local[r], "wrap_insert")
  /\ UNCHANGED <<upstreams, tables, billed, known, faults>>

WrapInsert(r) ==
  /\ pc[r] = "wrap_insert"
  /\ \E i \in Ids :
       /\ InsertRow(i, "file_metas", OutputFile(r))
       /\ Goto(r, [local[r] EXCEPT !.file_id = i], "trace")
  /\ UNCHANGED <<upstreams, deleted, billed, known, faults>>

Mark(r) ==
  /\ pc[r] = "mark"
  /\ deleted' = deleted \cup {local[r].id}
  /\ End(r)
  /\ UNCHANGED <<upstreams, row, billed, known, faults>>

-----------------------------------------------------------------------------
(***************************************************************************)
(* SessionTracer::add, and the answer to the client.  A response and a     *)
(* completed batch carry usage.                                            *)
(***************************************************************************)
\* Mutant: the row of a response is not inserted.
AnswerAfterTrace(r) == Goto(r, local[r], "answer")

AfterTrace(r) ==
  Goto(r, local[r], IF local[r].op = "create_response" THEN "insert" ELSE "answer")

Trace(r) ==
  /\ pc[r] = "trace"
  /\ billed' = IF local[r].op \in {"create_response", "retrieve_response"}
                  \/ local[r].output # None
                 THEN billed \cup {Object(r)} ELSE billed
  /\ AfterTrace(r)
  /\ UNCHANGED <<upstreams, tables, known, faults>>

\* A failed push is logged.
TraceFails(r) ==
  /\ pc[r] = "trace"
  /\ Fault
  /\ AfterTrace(r)
  /\ UNCHANGED <<upstreams, tables, billed, known>>

\* A response that is retrieved names the one it continues by one of our ids: that
\* of a row with its original id, whichever upstream the row is of.  If there is
\* none the original id is left as it is.
Continues(r) ==
  LET o == previous[Object(r)]
      named == {i \in Ids : Found(i, "response_metas") /\ row[i].original = o}
  IN IF local[r].op = "retrieve_response" /\ o # None THEN named ELSE {}

Named(r) == IF Continues(r) = {} THEN {None} ELSE Continues(r)

\* Mutant: the answer names an output file that a batch does not have yet.
AnswerNothing(r) ==
  /\ pc[r] = "answer"
  /\ known' = known \cup {local[r].id, local[r].file_id}
  /\ End(r)
  /\ UNCHANGED <<upstreams, tables, billed, faults>>

Answer(r) ==
  /\ pc[r] = "answer"
  /\ \E p \in Named(r) :
       known' = known \cup ({local[r].id, local[r].file_id, p} \ {None})
  /\ End(r)
  /\ UNCHANGED <<upstreams, tables, billed, faults>>

-----------------------------------------------------------------------------
\* A statement fails and the handler answers with an error, the client
\* disconnects and the handler is dropped, or the server dies.
Fail(r) ==
  /\ pc[r] # "idle"
  /\ Fault
  /\ End(r)
  /\ UNCHANGED <<upstreams, tables, billed, known>>

\* An upstream completes a batch, with the output file x.
Complete(b, x) ==
  /\ kind[b] = "batch"
  /\ output[b] = None
  /\ x \in Given["output"]
  /\ x[1] = b[1]
  /\ kind[x] = None
  /\ kind' = [kind EXCEPT ![x] = "output"]
  /\ exists' = exists \cup {x}
  /\ output' = [output EXCEPT ![b] = x[2]]
  /\ UNCHANGED <<previous, tables, billed, known, pc, local, faults>>

Arrive(r) ==
  \/ \E u \in Upstreams : Upload(r, u) \/ CreateMessageBatch(r, u)
  \/ UploadFile(r)
  \/ \E i \in known \cup {None}, u \in Upstreams, v \in Upstreams \cup {None} :
       CreateResponse(r, i, u, v)
  \/ \E o \in Ops, i \in known : UseId(r, o, i)

LookUp(r) ==
  \/ Resolve(r)
  \/ \E u \in Nameless : ResolveElsewhere(r, u)
  \/ Unserved(r)
  \/ NotFound(r)

Call(r) ==
  \/ \E x \in Objects : Create(r, x) \/ CreateUnanswered(r, x)
  \/ Refuse(r)
  \/ Retrieve(r)
  \/ Delete(r)

Store(r) ==
  \/ Insert(r)
  \/ Reuse(r) \/ NotWrapped(r) \/ WrapInsert(r)
  \/ Mark(r)

Finish(r) == Trace(r) \/ TraceFails(r) \/ Answer(r) \/ Fail(r)

Next ==
  \/ \E r \in Requests :
       Arrive(r) \/ LookUp(r) \/ Call(r) \/ Store(r) \/ Finish(r)
  \/ \E b, x \in Objects : Complete(b, x)

Spec == Init /\ [][Next]_vars
=============================================================================
