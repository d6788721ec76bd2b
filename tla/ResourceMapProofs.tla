-------------------------- MODULE ResourceMapProofs --------------------------
(***************************************************************************)
(* Proofs about ResourceMap for any upstreams, ids, connections and        *)
(* numbers of faults.                                                      *)
(***************************************************************************)
EXTENDS ResourceMapProps, TLAPS

\* What a handler may rely on: the id it looks up or marks is one of ours, and
\* the objects it maps or bills have an upstream and an original id.
Fits(l, where) ==
  /\ where \in {"resolve", "mark"} => l.id \in Ids
  /\ where = "call" /\ l.op \notin Creating => l.id \in Ids
  /\ where \in {"insert", "wrap", "wrap_insert", "trace", "mark"} =>
       <<l.at, l.original>> \in Objects
  /\ where \in {"wrap", "wrap_insert"} => l.output \in Originals

Types == TypeOK /\ \A r \in Requests : Fits(local[r], pc[r])

\* The types of all but the handlers.
DataOK ==
  /\ kind \in [Objects -> Kinds \cup {None}]
  /\ exists \subseteq Objects
  /\ output \in [Objects -> Originals \cup {None}]
  /\ previous \in [Objects -> Originals \cup {None}]
  /\ row \in [Ids -> Row \cup {None}]
  /\ deleted \subseteq Ids
  /\ billed \subseteq Objects
  /\ known \subseteq Ids
  /\ faults \in 0 .. MaxFaults

\* What a step of the handler of r leaves to the others.
Alone(r) ==
  \A s \in Requests \ {r} : pc'[s] = pc[s] /\ local'[s] = local[s]

-----------------------------------------------------------------------------
LEMMA GotoAlone ==
  ASSUME TypeOK, NEW r \in Requests, NEW l, NEW where, Goto(r, l, where)
  PROVE  pc'[r] = where /\ local'[r] = l /\ Alone(r)
BY DEF TypeOK, Goto, Alone

LEMMA GotoTypes ==
  ASSUME Types, NEW r \in Requests, NEW l \in Local, NEW where \in PCs,
         Goto(r, l, where), Fits(l, where), DataOK'
  PROVE  Types'
<1>1. pc' \in [Requests -> PCs] /\ local' \in [Requests -> Local]
  BY DEF Types, TypeOK, Goto
<1>2. TypeOK'
  BY <1>1 DEF TypeOK, DataOK
<1>3. pc'[r] = where /\ local'[r] = l /\ Alone(r)
  BY GotoAlone DEF Types
<1>4. ASSUME NEW s \in Requests
      PROVE  Fits(local'[s], pc'[s])
  BY <1>3 DEF Types, Alone
<1> QED
  BY <1>2, <1>4 DEF Types

LEMMA BlankTyped == Blank \in Local
BY DEF Blank, Local, Ops, Creating, Deleting, Reading

LEMMA EndTypes ==
  ASSUME Types, NEW r \in Requests, End(r), DataOK'
  PROVE  Types'
<1>1. Fits(Blank, "idle")
  BY DEF Fits
<1> QED
  BY <1>1, GotoTypes, BlankTyped DEF End, PCs

LEMMA TypesData == Types => DataOK
BY DEF Types, TypeOK, DataOK

LEMMA FaultType == DataOK /\ Fault => faults' \in 0 .. MaxFaults
BY ResourceAssumption DEF DataOK, Fault

LEMMA TypesInit == Init => Types
<1> SUFFICES ASSUME Init PROVE Types
  OBVIOUS
<1>1. TypeOK
  BY ResourceAssumption, BlankTyped DEF Init, TypeOK, Objects, PCs
<1>2. ASSUME NEW r \in Requests PROVE Fits(local[r], pc[r])
  BY DEF Init, Fits
<1> QED
  BY <1>1, <1>2 DEF Types

-----------------------------------------------------------------------------
LEMMA TypesArrive ==
  ASSUME Types, NEW r \in Requests, Arrive(r)
  PROVE  Types'
<1>0. TypeOK /\ DataOK
  BY TypesData DEF Types
<1> SUFFICES ASSUME NEW l \in Local, NEW where \in {"call", "resolve"},
                    Goto(r, l, where), Fits(l, where),
                    UNCHANGED <<upstreams, tables, billed, known, faults>>
             PROVE  Types'
  <2>1. ASSUME NEW u \in Upstreams, Upload(r, u) PROVE Types'
    <3>1. [Blank EXCEPT !.at = u] \in Local /\ Fits([Blank EXCEPT !.at = u], "call")
      BY BlankTyped DEF Local, Blank, Creating, Fits
    <3> QED
      BY <2>1, <3>1 DEF Upload
  <2>2. ASSUME NEW u \in Upstreams, CreateMessageBatch(r, u) PROVE Types'
    <3> DEFINE l == [Blank EXCEPT !.op = "create_message_batch", !.at = u]
    <3>1. l \in Local /\ l.op \in Creating
      BY BlankTyped DEF Local, Blank, Creating, Ops
    <3> HIDE DEF l
    <3>2. Fits(l, "call")
      BY <3>1 DEF Fits
    <3> QED
      BY <2>2, <3>1, <3>2 DEF CreateMessageBatch, l
  <2>3. ASSUME NEW i \in known \cup {None}, NEW u \in Upstreams,
               NEW v \in Upstreams \cup {None}, CreateResponse(r, i, u, v)
        PROVE  Types'
    <3> DEFINE l == [Blank EXCEPT !.op = "create_response", !.id = i, !.at = u, !.next = v]
    <3>1. l \in Local /\ l.op \in Creating /\ l.id = i
      BY <1>0, BlankTyped DEF TypeOK, Local, Blank, Creating, Ops
    <3>2. i # None => i \in Ids
      BY <1>0 DEF TypeOK
    <3> HIDE DEF l
    <3>3. Fits(l, "call") /\ (i # None => Fits(l, "resolve"))
      BY <3>1, <3>2 DEF Fits
    <3> QED
      BY <2>3, <3>1, <3>3 DEF CreateResponse, l
  <2>4. ASSUME NEW o \in Ops, NEW i \in known, UseId(r, o, i)
        PROVE  Types'
    <3> DEFINE l == [Blank EXCEPT !.op = o, !.id = i]
    <3>1. l \in Local /\ l.id \in Ids
      BY <1>0, BlankTyped DEF TypeOK, Local, Blank
    <3> HIDE DEF l
    <3>2. Fits(l, "resolve")
      BY <3>1 DEF Fits
    <3> QED
      BY <2>4, <3>1, <3>2 DEF UseId, l
  <2> QED
    BY <2>1, <2>3, <2>4, <2>2, ResourceAssumption DEF Arrive, UploadFile
<1>1. DataOK'
  BY <1>0 DEF DataOK, upstreams, tables
<1> QED
  BY <1>1, GotoTypes DEF PCs

LEMMA TypesResolve ==
  ASSUME Types, NEW r \in Requests, LookUp(r)
  PROVE  Types'
<1>0. TypeOK /\ DataOK /\ local[r].id \in Ids /\ local[r] \in Local
  BY TypesData DEF Types, Fits, LookUp, Resolve, ResolveElsewhere, Unserved, NotFound, TypeOK
<1>1. DataOK'
  BY <1>0 DEF DataOK, upstreams, tables, LookUp, Resolve, ResolveElsewhere, Unserved, NotFound
<1>2. ASSUME NEW u \in Nameless, ResolveElsewhere(r, u) PROVE Types'
  <2> DEFINE l == [Translated(r) EXCEPT !.at = u]
  <2>1. row[local[r].id] \in Row /\ u \in Upstreams
    BY <1>0, <1>2, ResourceAssumption DEF ResolveElsewhere, Found, TypeOK
  <2>2. l \in Local /\ l.id \in Ids
    BY <1>0, <1>2, <2>1 DEF ResolveElsewhere, Translated, Local, Row
  <2> HIDE DEF l
  <2>3. Fits(l, "call")
    BY <2>2 DEF Fits
  <2> QED
    BY <1>1, <1>2, <2>2, <2>3, GotoTypes DEF ResolveElsewhere, l, PCs
<1>3. ASSUME Resolve(r) PROVE Types'
  <2> DEFINE l == Translated(r)
  <2>1. row[local[r].id] \in Row
    BY <1>0, <1>3 DEF Resolve, Found, TypeOK
  <2>2. l \in Local /\ (l.op \notin Creating => l.id \in Ids)
    <3>1. CASE local[r].op = "create_response"
      BY <1>0, <2>1, <3>1 DEF Translated, Local, Row, Creating
    <3>2. CASE local[r].op = "create_batch"
      BY <1>0, <2>1, <3>2 DEF Translated, Local, Row, Creating
    <3>3. CASE local[r].op \notin {"create_response", "create_batch"}
      BY <1>0, <2>1, <3>3 DEF Translated, Local, Row
    <3> QED
      BY <3>1, <3>2, <3>3
  <2> HIDE DEF l
  <2>3. Fits(l, "call")
    BY <2>2 DEF Fits
  <2> QED
    BY <1>1, <1>3, <2>2, <2>3, GotoTypes DEF Resolve, l, PCs
<1>4. ASSUME NotFound(r) \/ Unserved(r) PROVE Types'
  BY <1>1, <1>4, EndTypes DEF NotFound, Unserved
<1> QED
  BY <1>3, <1>4, <1>2 DEF LookUp

LEMMA TypesTryNext ==
  ASSUME Types, NEW r \in Requests, pc[r] = "call", TryNext(r), DataOK'
  PROVE  Types'
<1>1. CASE local[r].next # None
  <2> DEFINE l == [local[r] EXCEPT !.at = local[r].next, !.next = None]
  <2>1. local[r] \in Local
    BY DEF Types, TypeOK
  <2>2. l \in Local /\ l.op = local[r].op /\ l.id = local[r].id
    BY <2>1 DEF Local
  <2> HIDE DEF l
  <2>3. Fits(l, "call")
    BY <2>2 DEF Types, Fits
  <2> QED
    BY <1>1, <2>2, <2>3, GotoTypes DEF TryNext, l, PCs
<1>2. CASE local[r].next = None
  BY <1>2, EndTypes DEF TryNext
<1> QED
  BY <1>1, <1>2

LEMMA TypesCall ==
  ASSUME Types, NEW r \in Requests, Call(r)
  PROVE  Types'
<1>0. TypeOK /\ DataOK /\ local[r] \in Local
  BY TypesData DEF Types, TypeOK
<1>1. ASSUME NEW x \in Objects, MakesObject(r, x)
      PROVE  /\ pc[r] = "call"
             /\ kind' \in [Objects -> Kinds \cup {None}]
             /\ exists' \subseteq Objects
             /\ previous' \in [Objects -> Originals \cup {None}]
  <2>1. Continued(local[r]) \in Originals \cup {None}
    BY <1>0 DEF Continued, Local
  <2> QED
    BY <1>0, <1>1, <2>1 DEF MakesObject, DataOK, NewKind, Kinds
<1>2. ASSUME NEW x \in Objects, Create(r, x)
      PROVE  Types'
  <2> DEFINE l == [local[r] EXCEPT !.original = x[2], !.next = None, !.needs = None]
  <2>1. x[1] = local[r].at /\ x = <<x[1], x[2]>> /\ x[2] \in Originals
    BY <1>2 DEF Create, MakesObject, Objects
  <2>2. l \in Local /\ <<l.at, l.original>> = x
    BY <1>0, <2>1 DEF Local
  <2> HIDE DEF l
  <2>3. Fits(l, "trace") /\ Fits(l, "insert")
    BY <2>2 DEF Fits
  <2>4. DataOK'
    BY <1>0, <1>1, <1>2 DEF Create, DataOK, tables
  <2> QED
    BY <1>2, <2>2, <2>3, <2>4, GotoTypes DEF Create, l, PCs
<1>3. ASSUME NEW x \in Objects, CreateUnanswered(r, x)
      PROVE  Types'
  <2>1. DataOK'
    BY <1>0, <1>1, <1>3, FaultType DEF CreateUnanswered, DataOK, tables
  <2> QED
    BY <1>1, <1>3, <2>1, TypesTryNext DEF CreateUnanswered
<1>4. ASSUME Refuse(r)
      PROVE  Types'
  <2>1. DataOK'
    BY <1>0, <1>4 DEF Refuse, DataOK, upstreams, tables
  <2> QED
    BY <1>4, <2>1, TypesTryNext DEF Refuse
<1>5. ASSUME Retrieve(r)
      PROVE  Types'
  <2> DEFINE f == output[Object(r)]
             l == [local[r] EXCEPT !.output = f]
  <2>1. Object(r) \in Objects /\ f \in Originals \cup {None}
    BY <1>0, <1>5 DEF Retrieve, Has, Object, DataOK
  <2>2. /\ l \in Local
        /\ <<l.at, l.original>> = Object(r)
        /\ l.output = f
    BY <1>0, <2>1 DEF Local, Object
  <2>3. Goto(r, l, IF f # None THEN "wrap" ELSE "trace")
    BY <1>5 DEF Retrieve
  <2> HIDE DEF l, f
  <2>4. Fits(l, "trace") /\ (f # None => Fits(l, "wrap"))
    BY <2>1, <2>2 DEF Fits
  <2>5. DataOK'
    BY <1>0, <1>5 DEF Retrieve, DataOK, upstreams, tables
  <2> QED
    BY <2>2, <2>3, <2>4, <2>5, GotoTypes DEF PCs
<1>6. ASSUME Delete(r)
      PROVE  Types'
  <2>1. Goto(r, local[r], "mark")
    BY <1>0, <1>6 DEF Delete, Goto, TypeOK
  <2>2. Fits(local[r], "mark")
    BY <1>0, <1>6 DEF Types, Fits, Delete, Has, Deleting, Creating, DataOK
  <2>3. DataOK'
    BY <1>0, <1>6 DEF Delete, DataOK, tables
  <2> QED
    BY <1>0, <2>1, <2>2, <2>3, GotoTypes DEF PCs
<1> QED
  BY <1>2, <1>3, <1>4, <1>5, <1>6 DEF Call

LEMMA InsertRowTypes ==
  ASSUME TypeOK, NEW i \in Ids, NEW t \in Tables, NEW x \in Objects, InsertRow(i, t, x)
  PROVE  row' \in [Ids -> Row \cup {None}]
<1>1. RowOf(t, x) \in Row
  BY DEF RowOf, Row, Objects
<1> QED
  BY <1>1 DEF InsertRow, TypeOK

LEMMA TypesStore ==
  ASSUME Types, NEW r \in Requests, Store(r)
  PROVE  Types'
<1>0. TypeOK /\ DataOK /\ local[r] \in Local
  BY TypesData DEF Types, TypeOK
<1>1. ASSUME Insert(r)
      PROVE  Types'
  <2>1. PICK i \in Ids :
          /\ InsertRow(i, Made(local[r].op), Object(r))
          /\ Goto(r, [local[r] EXCEPT !.id = i],
                  IF local[r].op = "create_batch" THEN "trace" ELSE "answer")
    BY <1>1 DEF Insert
  <2> DEFINE l == [local[r] EXCEPT !.id = i]
  <2>2. Object(r) \in Objects
    BY <1>1 DEF Types, Fits, Insert, Object
  <2>3. l \in Local /\ <<l.at, l.original>> = Object(r)
    BY <1>0 DEF Local, Object
  <2> HIDE DEF l
  <2>4. Fits(l, "trace") /\ Fits(l, "answer")
    BY <2>2, <2>3 DEF Fits
  <2>5. Made(local[r].op) \in Tables
    BY DEF Made, Tables
  <2>6. DataOK'
    BY <1>0, <1>1, <2>1, <2>2, <2>5, InsertRowTypes DEF Insert, DataOK, upstreams
  <2> QED
    BY <2>1, <2>3, <2>4, <2>6, GotoTypes DEF l, PCs
<1>2. ASSUME Reuse(r)
      PROVE  Types'
  <2>1. PICK i \in Ids : Goto(r, [local[r] EXCEPT !.file_id = i], "trace")
    BY <1>2 DEF Reuse, Wrapped
  <2> DEFINE l == [local[r] EXCEPT !.file_id = i]
  <2>2. l \in Local /\ <<l.at, l.original>> = Object(r)
    BY <1>0 DEF Local, Object
  <2> HIDE DEF l
  <2>3. Fits(l, "trace")
    BY <1>2, <2>2 DEF Types, Fits, Reuse, Object
  <2>4. DataOK'
    BY <1>0, <1>2 DEF Reuse, DataOK, upstreams, tables
  <2> QED
    BY <2>1, <2>2, <2>3, <2>4, GotoTypes DEF l, PCs
<1>3. ASSUME NotWrapped(r)
      PROVE  Types'
  <2>1. Fits(local[r], "wrap_insert")
    BY <1>3 DEF Types, Fits, NotWrapped
  <2>2. DataOK'
    BY <1>0, <1>3 DEF NotWrapped, DataOK, upstreams, tables
  <2> QED
    BY <1>0, <1>3, <2>1, <2>2, GotoTypes DEF NotWrapped, PCs
<1>4. ASSUME WrapInsert(r)
      PROVE  Types'
  <2>1. PICK i \in Ids :
          /\ InsertRow(i, "file_metas", OutputFile(r))
          /\ Goto(r, [local[r] EXCEPT !.file_id = i], "trace")
    BY <1>4 DEF WrapInsert
  <2> DEFINE l == [local[r] EXCEPT !.file_id = i]
  <2>2. Object(r) \in Objects /\ local[r].output \in Originals
    BY <1>4 DEF Types, Fits, WrapInsert, Object
  <2>3. l \in Local /\ <<l.at, l.original>> = Object(r)
    BY <1>0 DEF Local, Object
  <2> HIDE DEF l
  <2>4. Fits(l, "trace")
    BY <2>2, <2>3 DEF Fits
  <2>5. OutputFile(r) \in Objects /\ "file_metas" \in Tables
    BY <2>2 DEF OutputFile, Object, Objects, Tables
  <2>6. DataOK'
    BY <1>0, <1>4, <2>1, <2>5, InsertRowTypes DEF WrapInsert, DataOK, upstreams
  <2> QED
    BY <2>1, <2>3, <2>4, <2>6, GotoTypes DEF l, PCs
<1>5. ASSUME Mark(r)
      PROVE  Types'
  <2>1. local[r].id \in Ids
    BY <1>5 DEF Types, Fits, Mark
  <2>2. DataOK'
    BY <1>0, <1>5, <2>1 DEF Mark, DataOK, upstreams
  <2> QED
    BY <1>5, <2>2, EndTypes DEF Mark
<1> QED
  BY <1>1, <1>2, <1>3, <1>4, <1>5 DEF Store

LEMMA TypesFinish ==
  ASSUME Types, NEW r \in Requests, Finish(r)
  PROVE  Types'
<1>0. TypeOK /\ DataOK /\ local[r] \in Local
  BY TypesData DEF Types, TypeOK
<1>1. ASSUME Trace(r) \/ TraceFails(r)
      PROVE  Types'
  <2>1. Object(r) \in Objects
    BY <1>1 DEF Types, Fits, Trace, TraceFails, Object
  <2>2. Fits(local[r], "insert") /\ Fits(local[r], "answer")
    BY <2>1 DEF Fits, Object
  <2>3. DataOK'
    <3>1. billed' \subseteq Objects
      BY <1>0, <1>1, <2>1 DEF Trace, TraceFails, DataOK
    <3>2. faults' \in 0 .. MaxFaults
      BY <1>0, <1>1, FaultType DEF Trace, TraceFails, DataOK
    <3>3. UNCHANGED <<upstreams, tables, known>>
      BY <1>1 DEF Trace, TraceFails
    <3> QED
      BY <1>0, <3>1, <3>2, <3>3 DEF DataOK, upstreams, tables
  <2>4. AfterTrace(r)
    BY <1>1 DEF Trace, TraceFails
  <2> QED
    BY <1>0, <2>2, <2>3, <2>4, GotoTypes DEF AfterTrace, PCs
<1>2. ASSUME Answer(r)
      PROVE  Types'
  <2>1. PICK p \in Named(r) : known' = known \cup ({local[r].id, local[r].file_id, p} \ {None})
    BY <1>2 DEF Answer
  <2>3. {local[r].id, local[r].file_id, p} \ {None} \subseteq Ids
    BY <1>0 DEF Local, Named, Continues
  <2>2. DataOK'
    BY <1>0, <1>2, <2>1, <2>3 DEF Answer, DataOK, upstreams, tables
  <2> QED
    BY <1>2, <2>2, EndTypes DEF Answer
<1>3. ASSUME Fail(r)
      PROVE  Types'
  <2>1. DataOK'
    BY <1>0, <1>3, FaultType DEF Fail, DataOK, upstreams, tables
  <2> QED
    BY <1>3, <2>1, EndTypes DEF Fail
<1> QED
  BY <1>1, <1>2, <1>3 DEF Finish

LEMMA TypesComplete ==
  ASSUME Types, NEW b \in Objects, NEW x \in Objects, Complete(b, x)
  PROVE  Types'
<1>0. TypeOK
  BY DEF Types
<1>1. x[2] \in Originals /\ "output" \in Kinds
  BY DEF Objects, Kinds
<1>2. /\ kind' \in [Objects -> Kinds \cup {None}]
      /\ exists' \subseteq Objects
      /\ output' \in [Objects -> Originals \cup {None}]
  BY <1>0, <1>1 DEF Complete, TypeOK
<1>3. TypeOK'
  BY <1>0, <1>2 DEF Complete, TypeOK, tables
<1> QED
  BY <1>3 DEF Complete, Types, Fits

LEMMA TypesStep == Types /\ [Next]_vars => Types'
<1> SUFFICES ASSUME Types, [Next]_vars
             PROVE  Types'
  OBVIOUS
<1>1. CASE UNCHANGED vars
  BY <1>1 DEF Types, TypeOK, Fits, vars, upstreams, tables
<1>2. ASSUME NEW r \in Requests,
             Arrive(r) \/ LookUp(r) \/ Call(r) \/ Store(r) \/ Finish(r)
      PROVE  Types'
  BY <1>2, TypesArrive, TypesResolve, TypesCall, TypesStore, TypesFinish
<1> QED
  BY <1>1, <1>2, TypesComplete DEF Next

(***************************************************************************)
(* The types of the map and of its handlers hold for any number of         *)
(* connections, objects and failures.                                      *)
(***************************************************************************)
THEOREM TypeCorrect == Spec => []TypeOK
<1>1. Types => TypeOK
  BY DEF Types
<1> QED
  BY TypesInit, TypesStep, <1>1, PTL DEF Spec

-----------------------------------------------------------------------------
(***************************************************************************)
(* The inductive invariant behind RowsNameObjects and DeletedMeansGone:    *)
(* what each handler has found out about the object it works on stays true *)
(* until it uses it, because rows and kinds of objects never change.       *)
(***************************************************************************)
Obj(l) == <<l.at, l.original>>

\* The handler created the object and has not inserted its row yet.
Holds(l, where) ==
  where = "insert" \/ (where = "trace" /\ l.op = "create_response")

\* The handler addresses what the row of its id says, or its namesake.
Aims(l) ==
  /\ row[l.id] # None
  /\ l.original = row[l.id].original
  /\ l.at \in Addressed(l.id)

Relies(l, where) ==
  /\ l.op # "create_response" => l.next = None
  /\ where = "call" /\ l.op \notin Creating => Aims(l)
  /\ Holds(l, where) =>
       /\ l.op \in Creating
       /\ kind[Obj(l)] = NewKind(l.op)
       /\ \A i \in Ids : ~Names(i, Obj(l))
  /\ where \in {"wrap", "wrap_insert"} =>
       l.op \notin Creating /\ kind[<<l.at, l.output>>] = "output"
  /\ where = "mark" => Aims(l) /\ Gone(Obj(l))

OutputsAreOutputs ==
  \A b \in Objects : output[b] # None => kind[<<b[1], output[b]>>] = "output"

OneHolder ==
  \A r, s \in Requests :
    Holds(local[r], pc[r]) /\ Holds(local[s], pc[s]) /\ Obj(local[r]) = Obj(local[s])
      => r = s

DeletedRows == \A i \in deleted : row[i] # None

MapInv ==
  /\ Types
  /\ RowsNameObjects
  /\ DeletedRows
  /\ DeletedMeansGone
  /\ OutputsAreOutputs
  /\ OneHolder
  /\ \A r \in Requests : Relies(local[r], pc[r])

\* What no step takes back.
Grows ==
  /\ \A x \in Objects : kind[x] # None => kind'[x] = kind[x]
  /\ \A i \in Ids : row[i] # None => row'[i] = row[i]
  /\ \A x \in exists' : x \in exists \/ kind[x] = None

LEMMA RowObject ==
  ASSUME TypeOK, NEW i \in Ids, row[i] # None
  PROVE  Row2(i) \in Objects /\ row[i].table \in Tables /\ row[i] \in Row
<1>1. row[i] \in Row
  BY DEF TypeOK
<1> QED
  BY <1>1 DEF Row, Row2, Objects

LEMMA KindFacts ==
  /\ \A t : None \notin KindsIn(t)
  /\ \A o : NewKind(o) # None /\ NewKind(o) # "output"
  /\ \A o \in Creating : NewKind(o) \in KindsIn(Made(o))
BY ResourceAssumption DEF KindsIn, NewKind, Kinds, Creating, Made

\* What is gone stays gone, and a row stays as it is.
LEMMA GoneKept ==
  ASSUME TypeOK, Grows, NEW x \in Objects, Gone(x)
  PROVE  Gone(x)'
BY DEF Gone, Grows, TypeOK

LEMMA DeletedKept ==
  ASSUME Types, DeletedRows, DeletedMeansGone, Grows, NEW i \in deleted
  PROVE  /\ row[i] # None /\ row'[i] = row[i]
         /\ (\E u \in Addressed(i) : Gone(<<u, row[i].original>>))'
<1>1. TypeOK /\ i \in Ids
  BY DEF Types, TypeOK
<1>2. row[i] # None /\ row'[i] = row[i] /\ row[i] \in Row
  BY <1>1 DEF DeletedRows, Grows, TypeOK
<1>3. PICK u \in Addressed(i) : Gone(<<u, row[i].original>>)
  BY DEF DeletedMeansGone
<1>4. <<u, row[i].original>> \in Objects
  BY <1>2, ResourceAssumption DEF Addressed, Row, Objects
<1>5. Gone(<<u, row[i].original>>)'
  BY <1>1, <1>2, <1>3, <1>4, GoneKept DEF Gone
<1>6. u \in Addressed(i)'
  BY <1>2 DEF Addressed
<1> QED
  BY <1>2, <1>5, <1>6

LEMMA ReliesKept ==
  ASSUME MapInv, Types', Grows, NEW s \in Requests,
         pc'[s] = pc[s], local'[s] = local[s],
         Holds(local[s], pc[s]) => \A i \in Ids : ~Names(i, Obj(local[s]))'
  PROVE  Relies(local[s], pc[s])'
<1> DEFINE l == local[s]
           where == pc[s]
<1>1. Types /\ Relies(l, where) /\ Fits(l, where) /\ l \in Local
  BY DEF MapInv, Types, TypeOK
<1>2. ASSUME where = "mark" \/ (where = "call" /\ l.op \notin Creating)
      PROVE  Aims(local[s])'
  <2>1. l.id \in Ids /\ Aims(l)
    BY <1>1, <1>2 DEF Relies, Fits
  <2>2. row'[l.id] = row[l.id]
    BY <2>1 DEF Grows, Aims
  <2> QED
    BY <2>1, <2>2 DEF Aims, Addressed
<1>3. ASSUME Holds(l, where)
      PROVE  l.op \in Creating /\ kind'[Obj(l)] = NewKind(l.op)
  <2>1. Obj(l) \in Objects
    BY <1>1, <1>3 DEF Fits, Holds, Obj
  <2> QED
    BY <1>1, <1>3, <2>1, KindFacts DEF Relies, Grows
<1>4. ASSUME where \in {"wrap", "wrap_insert"}
      PROVE  l.op \notin Creating /\ kind'[<<l.at, l.output>>] = "output"
  <2>1. <<l.at, l.output>> \in Objects
    BY <1>1, <1>4 DEF Fits, Objects
  <2>2. "output" # None
    BY ResourceAssumption DEF Kinds
  <2> QED
    BY <1>1, <1>4, <2>1, <2>2 DEF Relies, Grows
<1>5. ASSUME where = "mark"
      PROVE  Gone(Obj(local[s]))'
  <2>1. Obj(l) \in Objects /\ Gone(Obj(l))
    BY <1>1, <1>5 DEF Relies, Fits, Obj
  <2>2. Gone(Obj(l))'
    BY <1>1, <2>1, GoneKept DEF Types, Gone, Obj
  <2> QED
    BY <2>2 DEF Obj, Gone
<1> QED
  BY <1>1, <1>2, <1>3, <1>4, <1>5 DEF Relies, Obj, Names

\* A step of r that leaves the map to the others.
LEMMA HandlersKept ==
  ASSUME MapInv, Types', Grows, NEW r \in Requests, Alone(r),
         Relies(local[r], pc[r])',
         \A s \in Requests \ {r} : Holds(local[s], pc[s]) =>
           /\ \A i \in Ids : ~Names(i, Obj(local[s]))'
           /\ Holds(local[r], pc[r])' => Obj(local[s]) # Obj(local'[r])
  PROVE  OneHolder' /\ \A s \in Requests : Relies(local[s], pc[s])'
<1>1. ASSUME NEW s \in Requests PROVE Relies(local[s], pc[s])'
  <2>1. CASE s = r
    BY <2>1
  <2>2. CASE s # r
    <3>1. pc'[s] = pc[s] /\ local'[s] = local[s]
      BY <2>2 DEF Alone
    <3>2. Holds(local[s], pc[s]) => \A i \in Ids : ~Names(i, Obj(local[s]))'
      BY <2>2
    <3> QED
      BY <3>1, <3>2, ReliesKept
  <2> QED
    BY <2>1, <2>2
<1>2. ASSUME NEW q \in Requests, NEW s \in Requests, q # s,
             Holds(local[q], pc[q])', Holds(local[s], pc[s])',
             Obj(local'[q]) = Obj(local'[s])
      PROVE  FALSE
  <2>1. CASE q # r /\ s # r
    <3>1. pc'[q] = pc[q] /\ local'[q] = local[q] /\ pc'[s] = pc[s] /\ local'[s] = local[s]
      BY <2>1 DEF Alone
    <3> QED
      BY <1>2, <3>1 DEF MapInv, OneHolder, Holds
  <2>2. CASE q = r /\ s # r
    <3>1. pc'[s] = pc[s] /\ local'[s] = local[s]
      BY <2>2 DEF Alone
    <3> QED
      BY <1>2, <2>2, <3>1 DEF Holds
  <2>3. CASE q # r /\ s = r
    <3>1. pc'[q] = pc[q] /\ local'[q] = local[q]
      BY <2>3 DEF Alone
    <3> QED
      BY <1>2, <2>3, <3>1 DEF Holds
  <2> QED
    BY <1>2, <2>1, <2>2, <2>3
<1>3. OneHolder'
  BY <1>2 DEF OneHolder, Obj
<1> QED
  BY <1>1, <1>3

\* A step of r that reads the map, or does not touch it.
LEMMA QuietStep ==
  ASSUME MapInv, Types', NEW r \in Requests, Alone(r),
         UNCHANGED <<upstreams, tables>>,
         Relies(local'[r], pc'[r]),
         Holds(local'[r], pc'[r]) =>
           Holds(local[r], pc[r]) /\ Obj(local'[r]) = Obj(local[r])
  PROVE  MapInv'
<1>0. UNCHANGED <<kind, exists, output, row, deleted>>
  BY DEF upstreams, tables
<1>1. Grows
  BY <1>0 DEF Grows
<1>2. Relies(local[r], pc[r])'
  BY <1>0 DEF Relies, Names, Holds, Obj, Aims, Addressed, Gone
<1>3. ASSUME NEW s \in Requests \ {r}, Holds(local[s], pc[s])
      PROVE  /\ \A i \in Ids : ~Names(i, Obj(local[s]))'
             /\ Holds(local[r], pc[r])' => Obj(local[s]) # Obj(local'[r])
  <2>1. \A i \in Ids : ~Names(i, Obj(local[s]))
    BY <1>3 DEF MapInv, Relies
  <2>2. pc'[s] = pc[s] /\ local'[s] = local[s]
    BY DEF Alone
  <2>3. Holds(local'[r], pc'[r]) => Obj(local[s]) # Obj(local'[r])
    BY <1>3 DEF MapInv, OneHolder
  <2> QED
    BY <1>0, <2>1, <2>2, <2>3 DEF Names, Holds, Obj
<1>4. OneHolder' /\ \A s \in Requests : Relies(local[s], pc[s])'
  BY <1>1, <1>2, <1>3, HandlersKept
<1>5. (RowsNameObjects /\ DeletedRows /\ DeletedMeansGone /\ OutputsAreOutputs)'
  BY <1>0 DEF MapInv, RowsNameObjects, DeletedRows, DeletedMeansGone,
              OutputsAreOutputs, Row2, Addressed, Gone
<1> QED
  BY <1>4, <1>5 DEF MapInv

\* A handler that ends, or calls the next candidate.
LEMMA QuietEnd ==
  ASSUME MapInv, Types', NEW r \in Requests, End(r), UNCHANGED <<upstreams, tables>>
  PROVE  MapInv'
<1>1. pc'[r] = "idle" /\ local'[r] = Blank /\ Alone(r)
  BY GotoAlone DEF End, MapInv, Types
<1>2. Relies(Blank, "idle") /\ ~Holds(Blank, "idle")
  BY DEF Relies, Holds, Blank
<1> QED
  BY <1>1, <1>2, QuietStep

LEMMA QuietGoto ==
  ASSUME MapInv, Types', NEW r \in Requests, NEW l, NEW where, Goto(r, l, where),
         UNCHANGED <<upstreams, tables>>, Relies(l, where),
         Holds(l, where) => Holds(local[r], pc[r]) /\ Obj(l) = Obj(local[r])
  PROVE  MapInv'
<1>1. pc'[r] = where /\ local'[r] = l /\ Alone(r)
  BY GotoAlone DEF MapInv, Types
<1> QED
  BY <1>1, QuietStep

LEMMA MapInit == Init => MapInv
<1> SUFFICES ASSUME Init PROVE MapInv
  OBVIOUS
<1>1. Types
  BY TypesInit
<1>2. RowsNameObjects /\ DeletedRows /\ DeletedMeansGone /\ OutputsAreOutputs
  BY DEF Init, RowsNameObjects, DeletedRows, DeletedMeansGone, OutputsAreOutputs
<1>3. \A r \in Requests : ~Holds(local[r], pc[r]) /\ Relies(local[r], pc[r])
  BY DEF Init, Holds, Relies, Blank
<1>4. OneHolder
  BY <1>3 DEF OneHolder
<1> QED
  BY <1>1, <1>2, <1>3, <1>4 DEF MapInv

LEMMA MapArrive ==
  ASSUME MapInv, Types', NEW r \in Requests, Arrive(r)
  PROVE  MapInv'
<1> SUFFICES ASSUME NEW l, NEW where \in {"call", "resolve"}, Goto(r, l, where),
                    where = "call" => l.op \in Creating,
                    l.op # "create_response" => l.next = None,
                    UNCHANGED <<upstreams, tables>>
             PROVE  MapInv'
  <2>1. ASSUME NEW u \in Upstreams, Upload(r, u) PROVE MapInv'
    <3>1. /\ [Blank EXCEPT !.at = u].op \in Creating
          /\ [Blank EXCEPT !.at = u].next = None
      BY DEF Blank, Creating
    <3> QED
      BY <2>1, <3>1 DEF Upload
  <2>2. ASSUME NEW u \in Upstreams, CreateMessageBatch(r, u) PROVE MapInv'
    <3> DEFINE l == [Blank EXCEPT !.op = "create_message_batch", !.at = u]
    <3>1. l.op \in Creating /\ l.next = None
      BY DEF Blank, Creating
    <3> HIDE DEF l
    <3> QED
      BY <2>2, <3>1 DEF CreateMessageBatch, l
  <2>3. ASSUME NEW i \in known \cup {None}, NEW u \in Upstreams,
               NEW v \in Upstreams \cup {None}, CreateResponse(r, i, u, v)
        PROVE  MapInv'
    <3> DEFINE l == [Blank EXCEPT !.op = "create_response", !.id = i, !.at = u, !.next = v]
    <3>1. l.op \in Creating /\ l.op = "create_response"
      BY DEF Blank, Creating
    <3> HIDE DEF l
    <3> QED
      BY <2>3, <3>1 DEF CreateResponse, l
  <2>4. ASSUME NEW o \in Ops, NEW i \in known, UseId(r, o, i)
        PROVE  MapInv'
    <3> DEFINE l == [Blank EXCEPT !.op = o, !.id = i]
    <3>1. l.next = None
      BY DEF Blank
    <3> HIDE DEF l
    <3> QED
      BY <2>4, <3>1 DEF UseId, l
  <2> QED
    BY <2>1, <2>3, <2>4, <2>2, ResourceAssumption DEF Arrive, UploadFile
<1>1. Relies(l, where) /\ ~Holds(l, where)
  BY DEF Relies, Holds
<1> QED
  BY <1>1, QuietGoto

LEMMA MapResolve ==
  ASSUME MapInv, Types', NEW r \in Requests, LookUp(r)
  PROVE  MapInv'
<1>0. local[r] \in Local /\ (local[r].op # "create_response" => local[r].next = None)
  BY DEF MapInv, Types, TypeOK, Relies
<1>1. ASSUME Resolve(r) PROVE MapInv'
  <2> DEFINE l == Translated(r)
             x == row[local[r].id]
  <2>1. /\ l.op = local[r].op /\ l.next = local[r].next
        /\ l.op \notin Creating =>
             l.id = local[r].id /\ l.at = x.upstream_id /\ l.original = x.original
    <3>1. CASE local[r].op = "create_response"
      BY <1>0, <3>1 DEF Translated, Local, Creating
    <3>2. CASE local[r].op = "create_batch"
      BY <1>0, <3>2 DEF Translated, Local, Creating
    <3>3. CASE local[r].op \notin {"create_response", "create_batch"}
      BY <1>0, <3>3 DEF Translated, Local
    <3> QED
      BY <3>1, <3>2, <3>3
  <2>2. x # None
    BY <1>1 DEF Resolve, Found
  <2>3. l.op \notin Creating => Aims(l)
    BY <2>1, <2>2 DEF Aims, Addressed
  <2>4. Goto(r, l, "call") /\ UNCHANGED <<upstreams, tables>>
    BY <1>1 DEF Resolve
  <2> HIDE DEF l, x
  <2>5. Relies(l, "call") /\ ~Holds(l, "call")
    BY <1>0, <2>1, <2>3 DEF Relies, Holds
  <2> QED
    BY <2>4, <2>5, QuietGoto
<1>2. ASSUME NEW u \in Nameless, ResolveElsewhere(r, u) PROVE MapInv'
  <2> DEFINE l == [Translated(r) EXCEPT !.at = u]
  <2>1. /\ l.op = "delete_anthropic_file" /\ l.next = None
        /\ l.id = local[r].id /\ l.at = u /\ l.original = row[l.id].original
    BY <1>0, <1>2 DEF ResolveElsewhere, Translated, Local
  <2>2. row[local[r].id] # None /\ row[local[r].id].table = "file_metas"
    BY <1>2 DEF ResolveElsewhere, Found, LookedUp
  <2>3. Goto(r, l, "call") /\ UNCHANGED <<upstreams, tables>>
    BY <1>2 DEF ResolveElsewhere
  <2> HIDE DEF l
  <2>4. Aims(l)
    BY <2>1, <2>2 DEF Aims, Addressed
  <2>5. Relies(l, "call") /\ ~Holds(l, "call")
    BY <2>1, <2>4 DEF Relies, Holds
  <2> QED
    BY <2>3, <2>5, QuietGoto
<1>3. ASSUME NotFound(r) \/ Unserved(r) PROVE MapInv'
  BY <1>3, QuietEnd DEF NotFound, Unserved
<1> QED
  BY <1>1, <1>3, <1>2 DEF LookUp

\* What the objects of other handlers and of rows have in common: they exist or
\* existed, so that a new object is none of them.
LEMMA NewObject ==
  ASSUME MapInv, NEW x \in Objects, kind[x] = None
  PROVE  /\ \A i \in Ids : ~Names(i, x)
         /\ \A s \in Requests : Holds(local[s], pc[s]) => Obj(local[s]) # x
<1>1. ASSUME NEW i \in Ids PROVE ~Names(i, x)
  BY <1>1, KindFacts DEF MapInv, RowsNameObjects, Names, Row2
<1>2. ASSUME NEW s \in Requests, Holds(local[s], pc[s]) PROVE Obj(local[s]) # x
  BY <1>2, KindFacts DEF MapInv, Relies
<1> QED
  BY <1>1, <1>2

\* Where an object is new, the map of the others stays as it is.
LEMMA NewObjectMap ==
  ASSUME MapInv, NEW x \in Objects, NEW k, kind[x] = None,
         kind' = [kind EXCEPT ![x] = k], exists' = exists \cup {x},
         UNCHANGED <<row, deleted>>
  PROVE  /\ Grows
         /\ kind'[x] = k
         /\ RowsNameObjects' /\ DeletedRows' /\ DeletedMeansGone'
<1>0. kind \in [Objects -> Kinds \cup {None}] /\ TypeOK
  BY DEF MapInv, Types, TypeOK
<1>1. Grows /\ kind'[x] = k
  BY <1>0 DEF Grows
<1>2. ASSUME NEW i \in Ids, row[i] # None
      PROVE  Row2(i) # x /\ kind'[Row2(i)] = kind[Row2(i)]
  <2>1. Row2(i) # x
    BY <1>2, NewObject DEF Names, Row2
  <2> QED
    BY <1>0, <1>2, <2>1, RowObject
<1>3. RowsNameObjects'
  BY <1>2 DEF MapInv, RowsNameObjects, Row2
<1>4. DeletedRows' /\ DeletedMeansGone'
  BY <1>1, DeletedKept DEF MapInv, DeletedRows, DeletedMeansGone, Gone
<1> QED
  BY <1>1, <1>3, <1>4

LEMMA OutputsKept ==
  ASSUME MapInv, Grows, UNCHANGED output
  PROVE  OutputsAreOutputs'
<1>1. "output" # None /\ TypeOK
  BY ResourceAssumption DEF Kinds, MapInv, Types
<1>2. ASSUME NEW b \in Objects, output[b] # None
      PROVE  <<b[1], output[b]>> \in Objects /\ kind[<<b[1], output[b]>>] = "output"
  BY <1>1, <1>2 DEF TypeOK, Objects, MapInv, OutputsAreOutputs
<1> QED
  BY <1>1, <1>2 DEF OutputsAreOutputs, Grows

LEMMA MapMakes ==
  ASSUME MapInv, Types', NEW r \in Requests, NEW x \in Objects,
         Create(r, x) \/ CreateUnanswered(r, x)
  PROVE  MapInv'
<1>0. TypeOK /\ local[r] \in Local /\ Relies(local[r], pc[r])
  BY DEF MapInv, Types, TypeOK
<1>1. MakesObject(r, x) /\ UNCHANGED <<output, row, deleted>>
  BY DEF Create, CreateUnanswered, tables
<1>2. /\ local[r].op \in Creating
      /\ pc[r] = "call"
      /\ x = <<local[r].at, x[2]>>
      /\ kind[x] = None
  BY <1>1 DEF MakesObject, Objects
<1>3. /\ Grows
      /\ kind'[x] = NewKind(local[r].op)
      /\ RowsNameObjects' /\ DeletedRows' /\ DeletedMeansGone'
  BY <1>1, <1>2, NewObjectMap DEF MakesObject
<1>4. OutputsAreOutputs'
  BY <1>1, <1>3, OutputsKept
<1>5. /\ Alone(r)
      /\ Relies(local[r], pc[r])'
      /\ Holds(local[r], pc[r])' => Obj(local'[r]) = x
  <2>1. CASE Create(r, x)
    <3> DEFINE l == [local[r] EXCEPT !.original = x[2], !.next = None, !.needs = None]
               where == IF local[r].op = "create_response" THEN "trace" ELSE "insert"
    <3>1. /\ Obj(l) = x
          /\ l.op = local[r].op
          /\ l.next = None
      BY <1>0, <1>2 DEF Obj, Local
    <3>2. Goto(r, l, where)
      BY <2>1 DEF Create
    <3>3. where \notin {"call", "wrap", "wrap_insert", "mark"}
      OBVIOUS
    <3> HIDE DEF l, where
    <3>4. pc'[r] = where /\ local'[r] = l /\ Alone(r)
      BY <1>0, <3>2, GotoAlone
    <3>5. \A i \in Ids : ~Names(i, x)'
      BY <1>1, <1>2, NewObject DEF Names
    <3>6. Relies(local[r], pc[r])'
      BY <1>0, <1>2, <1>3, <3>1, <3>3, <3>4, <3>5 DEF Relies, Holds, Obj, Names
    <3> QED
      BY <3>1, <3>4, <3>6
  <2>2. CASE CreateUnanswered(r, x)
    <3>1. TryNext(r)
      BY <2>2 DEF CreateUnanswered
    <3>2. CASE local[r].next # None
      <4> DEFINE l == [local[r] EXCEPT !.at = local[r].next, !.next = None]
      <4>1. l.op = local[r].op /\ l.next = None
        BY <1>0 DEF Local
      <4>2. Goto(r, l, "call")
        BY <3>1, <3>2 DEF TryNext
      <4> HIDE DEF l
      <4>3. pc'[r] = "call" /\ local'[r] = l /\ Alone(r)
        BY <1>0, <4>2, GotoAlone
      <4> QED
        BY <1>2, <4>1, <4>3 DEF Relies, Holds
    <3>3. CASE local[r].next = None
      <4>1. pc'[r] = "idle" /\ local'[r] = Blank /\ Alone(r)
        BY <1>0, <3>1, <3>3, GotoAlone DEF TryNext, End
      <4>2. Blank.next = None
        BY DEF Blank
      <4> QED
        BY <4>1, <4>2 DEF Relies, Holds
    <3> QED
      BY <3>2, <3>3
  <2> QED
    BY <2>1, <2>2
<1>6. ASSUME NEW s \in Requests \ {r}, Holds(local[s], pc[s])
      PROVE  /\ \A i \in Ids : ~Names(i, Obj(local[s]))'
             /\ Holds(local[r], pc[r])' => Obj(local[s]) # Obj(local'[r])
  <2>1. \A i \in Ids : ~Names(i, Obj(local[s]))
    BY <1>6 DEF MapInv, Relies
  <2>2. pc'[s] = pc[s] /\ local'[s] = local[s]
    BY <1>5 DEF Alone
  <2>3. Obj(local[s]) # x
    BY <1>2, <1>6, NewObject
  <2> QED
    BY <1>1, <1>5, <2>1, <2>2, <2>3 DEF Names, Obj
<1>7. OneHolder' /\ \A s \in Requests : Relies(local[s], pc[s])'
  BY <1>3, <1>5, <1>6, HandlersKept
<1> QED
  BY <1>3, <1>4, <1>7 DEF MapInv

LEMMA MapCall ==
  ASSUME MapInv, Types', NEW r \in Requests, Call(r)
  PROVE  MapInv'
<1>0. TypeOK /\ local[r] \in Local /\ Relies(local[r], pc[r])
  BY DEF MapInv, Types, TypeOK
<1>1. ASSUME Refuse(r)
      PROVE  MapInv'
  <2>1. CASE local[r].next # None
    <3> DEFINE l == [local[r] EXCEPT !.at = local[r].next, !.next = None]
    <3>1. l.op = local[r].op /\ l.next = None /\ local[r].op = "create_response"
      BY <1>0, <2>1 DEF Local, Relies
    <3>2. Goto(r, l, "call") /\ UNCHANGED <<upstreams, tables>>
      BY <1>1, <2>1 DEF Refuse, TryNext
    <3> HIDE DEF l
    <3>3. Relies(l, "call") /\ ~Holds(l, "call")
      BY <3>1 DEF Relies, Holds, Creating
    <3> QED
      BY <3>2, <3>3, QuietGoto
  <2>2. CASE local[r].next = None
    BY <1>1, <2>2, QuietEnd DEF Refuse, TryNext
  <2> QED
    BY <2>1, <2>2
<1>2. ASSUME Retrieve(r)
      PROVE  MapInv'
  <2> DEFINE f == output[Object(r)]
             l == [local[r] EXCEPT !.output = f]
             where == IF f # None THEN "wrap" ELSE "trace"
  <2>1. /\ l.op = local[r].op /\ l.next = local[r].next
        /\ l.at = local[r].at /\ l.output = f
    BY <1>0 DEF Local
  <2>2. Object(r) \in Objects /\ local[r].op \in Reading
    BY <1>0, <1>2 DEF Retrieve, Has, Object, TypeOK
  <2>3. f # None => kind[<<local[r].at, f>>] = "output"
    BY <2>2 DEF MapInv, OutputsAreOutputs, Object
  <2>4. Goto(r, l, where) /\ UNCHANGED <<upstreams, tables>>
    BY <1>2 DEF Retrieve
  <2>5. where \in {"wrap", "trace"} /\ (where = "wrap" => f # None)
    OBVIOUS
  <2> HIDE DEF f, l, where
  <2>6. ~Holds(l, where)
    BY <2>1, <2>2, <2>5 DEF Holds, Reading
  <2>7. Relies(l, where)
    BY <1>0, <2>1, <2>2, <2>3, <2>5, <2>6 DEF Relies, Reading, Creating
  <2> QED
    BY <2>4, <2>6, <2>7, QuietGoto
<1>3. ASSUME Delete(r)
      PROVE  MapInv'
  <2>1. /\ pc[r] = "call" /\ local[r].op \in Deleting
        /\ pc'[r] = "mark" /\ local' = local /\ Alone(r)
        /\ exists' = exists \ {Obj(local[r])}
        /\ kind[Obj(local[r])] # None
        /\ UNCHANGED <<kind, output, row, deleted>>
    BY <1>0, <1>3, KindFacts DEF Delete, Has, Object, Obj, TypeOK, Alone, tables
  <2>2. Grows
    BY <2>1 DEF Grows
  <2>3. (RowsNameObjects /\ DeletedRows /\ OutputsAreOutputs)'
    BY <2>1 DEF MapInv, RowsNameObjects, DeletedRows, OutputsAreOutputs, Row2
  <2>4. DeletedMeansGone'
    BY <2>1, <2>2, DeletedKept DEF MapInv, DeletedMeansGone, Gone
  <2>5. Aims(local[r])' /\ Gone(Obj(local[r]))'
    BY <1>0, <2>1 DEF Relies, Deleting, Creating, Aims, Addressed, Gone, Obj
  <2>6. Relies(local[r], pc[r])' /\ ~Holds(local[r], pc[r])'
    BY <1>0, <2>1, <2>5 DEF Relies, Holds
  <2>7. ASSUME NEW s \in Requests \ {r}, Holds(local[s], pc[s])
        PROVE  \A i \in Ids : ~Names(i, Obj(local[s]))'
    <3>1. \A i \in Ids : ~Names(i, Obj(local[s]))
      BY <2>7 DEF MapInv, Relies
    <3> QED
      BY <2>1, <3>1 DEF Names, Obj
  <2>8. OneHolder' /\ \A s \in Requests : Relies(local[s], pc[s])'
    BY <2>1, <2>2, <2>6, <2>7, HandlersKept
  <2> QED
    BY <2>3, <2>8, <2>4 DEF MapInv
<1> QED
  BY <1>1, <1>2, <1>3, MapMakes DEF Call

LEMMA InsertedRow ==
  ASSUME MapInv, NEW i \in Ids, NEW t \in Tables, NEW x \in Objects, InsertRow(i, t, x),
         UNCHANGED <<upstreams, deleted>>,
         kind[x] \in KindsIn(t),
         \A j \in Ids : Names(j, x) => kind[x] = "output"
  PROVE  /\ Grows
         /\ (RowsNameObjects /\ DeletedRows /\ DeletedMeansGone /\ OutputsAreOutputs)'
         /\ \A j \in Ids, y \in Objects : y # x /\ ~Names(j, y) => ~Names(j, y)'
<1>0. TypeOK /\ UNCHANGED <<kind, exists, output>>
  BY DEF MapInv, Types, upstreams
<1>1. /\ row[i] = None
      /\ row'[i] = RowOf(t, x)
      /\ \A j \in Ids \ {i} : row'[j] = row[j]
  BY <1>0 DEF InsertRow, TypeOK
<1>2. Row2(i)' = x /\ row'[i].table = t
  BY <1>1 DEF Row2, RowOf, Objects
<1>3. Grows
  BY <1>0, <1>1 DEF Grows
<1>4. RowsNameObjects'
  <2>1. ASSUME NEW j \in Ids, row'[j] # None
        PROVE  kind'[Row2(j)'] \in KindsIn(row'[j].table)
    <3>1. CASE j = i
      BY <1>0, <1>2, <3>1
    <3>2. CASE j # i
      BY <1>0, <1>1, <2>1, <3>2 DEF MapInv, RowsNameObjects, Row2
    <3> QED
      BY <3>1, <3>2
  <2>2. ASSUME NEW j \in Ids, NEW k \in Ids, j # k, row'[j] # None, row'[k] # None,
               Row2(k)' = Row2(j)'
        PROVE  kind'[Row2(j)'] = "output"
    <3>1. CASE j = i
      <4>1. Names(k, x)
        BY <1>1, <1>2, <2>2, <3>1 DEF Names, Row2
      <4> QED
        BY <1>0, <1>2, <3>1, <4>1
    <3>2. CASE k = i
      <4>1. Names(j, x)
        BY <1>1, <1>2, <2>2, <3>2 DEF Names, Row2
      <4> QED
        BY <1>0, <1>2, <2>2, <3>2, <4>1
    <3>3. CASE j # i /\ k # i
      BY <1>0, <1>1, <2>2, <3>3 DEF MapInv, RowsNameObjects, Row2
    <3> QED
      BY <3>1, <3>2, <3>3
  <2> QED
    BY <2>1, <2>2 DEF RowsNameObjects, Row2
<1>5. (DeletedRows /\ DeletedMeansGone /\ OutputsAreOutputs)'
  <2>1. DeletedRows' /\ DeletedMeansGone'
    BY <1>3, DeletedKept DEF MapInv, DeletedRows, DeletedMeansGone, Gone
  <2> QED
    BY <1>0, <2>1 DEF MapInv, OutputsAreOutputs
<1>6. ASSUME NEW j \in Ids, NEW y \in Objects, y # x, ~Names(j, y)
      PROVE  ~Names(j, y)'
  <2>1. CASE j = i
    BY <1>2, <1>6, <2>1 DEF Names, Row2
  <2>2. CASE j # i
    BY <1>1, <1>6, <2>2 DEF Names
  <2> QED
    BY <2>1, <2>2
<1> QED
  BY <1>3, <1>4, <1>5, <1>6

LEMMA MapInsert ==
  ASSUME MapInv, Types', NEW r \in Requests, Insert(r)
  PROVE  MapInv'
<1> DEFINE x == Obj(local[r])
           t == Made(local[r].op)
<1>0. TypeOK /\ local[r] \in Local /\ Relies(local[r], pc[r]) /\ Fits(local[r], pc[r])
  BY DEF MapInv, Types, TypeOK
<1>1. /\ pc[r] = "insert" /\ x \in Objects
      /\ local[r].op \in Creating
      /\ kind[x] = NewKind(local[r].op)
      /\ \A j \in Ids : ~Names(j, x)
  BY <1>0 DEF Insert, Fits, Relies, Holds, Obj
<1>2. PICK i \in Ids :
        /\ InsertRow(i, t, x)
        /\ Goto(r, [local[r] EXCEPT !.id = i],
                IF local[r].op = "create_batch" THEN "trace" ELSE "answer")
  BY DEF Insert, Object, Obj
<1>3. UNCHANGED <<upstreams, deleted>> /\ t \in Tables
  BY DEF Insert, Made, Tables
<1>4. kind[x] \in KindsIn(t)
  BY <1>1, KindFacts
<1> HIDE DEF x, t
<1>5. /\ Grows
      /\ (RowsNameObjects /\ DeletedRows /\ DeletedMeansGone /\ OutputsAreOutputs)'
      /\ \A j \in Ids, y \in Objects : y # x /\ ~Names(j, y) => ~Names(j, y)'
  BY <1>1, <1>2, <1>3, <1>4, InsertedRow
<1>6. Alone(r) /\ Relies(local[r], pc[r])' /\ ~Holds(local[r], pc[r])'
  <2> DEFINE l == [local[r] EXCEPT !.id = i]
             where == IF local[r].op = "create_batch" THEN "trace" ELSE "answer"
  <2>1. l.op = local[r].op /\ l.next = local[r].next
    BY <1>0 DEF Local
  <2>2. where \in {"trace", "answer"} /\ (where = "trace" => local[r].op = "create_batch")
    OBVIOUS
  <2> HIDE DEF l, where
  <2>3. pc'[r] = where /\ local'[r] = l /\ Alone(r)
    BY <1>0, <1>2, GotoAlone DEF l, where
  <2> QED
    BY <1>0, <2>1, <2>2, <2>3 DEF Relies, Holds
<1>7. ASSUME NEW s \in Requests \ {r}, Holds(local[s], pc[s])
      PROVE  \A j \in Ids : ~Names(j, Obj(local[s]))'
  <2>1. Obj(local[s]) \in Objects /\ \A j \in Ids : ~Names(j, Obj(local[s]))
    BY <1>7 DEF MapInv, Relies, Types, Fits, Holds, Obj
  <2>2. Obj(local[s]) # x
    BY <1>1, <1>7 DEF MapInv, OneHolder, Holds, x
  <2>3. local'[s] = local[s]
    BY <1>6 DEF Alone
  <2> QED
    BY <1>5, <2>1, <2>2, <2>3 DEF Names, Obj
<1>8. OneHolder' /\ \A s \in Requests : Relies(local[s], pc[s])'
  BY <1>5, <1>6, <1>7, HandlersKept
<1> QED
  BY <1>5, <1>8 DEF MapInv

LEMMA MapWrapInsert ==
  ASSUME MapInv, Types', NEW r \in Requests, WrapInsert(r)
  PROVE  MapInv'
<1> DEFINE x == OutputFile(r)
<1>0. TypeOK /\ local[r] \in Local /\ Relies(local[r], pc[r]) /\ Fits(local[r], pc[r])
  BY DEF MapInv, Types, TypeOK
<1>1. pc[r] = "wrap_insert" /\ x \in Objects /\ kind[x] = "output"
  BY <1>0 DEF WrapInsert, Fits, Relies, OutputFile, Objects
<1>2. PICK i \in Ids :
        /\ InsertRow(i, "file_metas", x)
        /\ Goto(r, [local[r] EXCEPT !.file_id = i], "trace")
  BY DEF WrapInsert
<1>3. UNCHANGED <<upstreams, deleted>> /\ "file_metas" \in Tables
  BY DEF WrapInsert, Tables
<1>4. kind[x] \in KindsIn("file_metas")
  BY <1>1 DEF KindsIn
<1> HIDE DEF x
<1>5. /\ Grows
      /\ (RowsNameObjects /\ DeletedRows /\ DeletedMeansGone /\ OutputsAreOutputs)'
      /\ \A j \in Ids, y \in Objects : y # x /\ ~Names(j, y) => ~Names(j, y)'
  BY <1>1, <1>2, <1>3, <1>4, InsertedRow
<1>6. Alone(r) /\ Relies(local[r], pc[r])' /\ ~Holds(local[r], pc[r])'
  <2> DEFINE l == [local[r] EXCEPT !.file_id = i]
  <2>1. l.op = local[r].op /\ l.next = local[r].next
    BY <1>0 DEF Local
  <2> HIDE DEF l
  <2>2. pc'[r] = "trace" /\ local'[r] = l /\ Alone(r)
    BY <1>0, <1>2, GotoAlone DEF l
  <2>3. l.op # "create_response"
    BY <1>0, <1>1, <2>1 DEF Relies, Creating
  <2> QED
    BY <1>0, <2>1, <2>2, <2>3 DEF Relies, Holds
<1>7. ASSUME NEW s \in Requests \ {r}, Holds(local[s], pc[s])
      PROVE  \A j \in Ids : ~Names(j, Obj(local[s]))'
  <2>1. /\ Obj(local[s]) \in Objects
        /\ \A j \in Ids : ~Names(j, Obj(local[s]))
        /\ kind[Obj(local[s])] # "output"
    BY <1>7, KindFacts DEF MapInv, Relies, Types, Fits, Holds, Obj
  <2>2. local'[s] = local[s]
    BY <1>6 DEF Alone
  <2> QED
    BY <1>1, <1>5, <2>1, <2>2 DEF Names, Obj
<1>8. OneHolder' /\ \A s \in Requests : Relies(local[s], pc[s])'
  BY <1>5, <1>6, <1>7, HandlersKept
<1> QED
  BY <1>5, <1>8 DEF MapInv

LEMMA MapStore ==
  ASSUME MapInv, Types', NEW r \in Requests, Store(r)
  PROVE  MapInv'
<1>0. TypeOK /\ local[r] \in Local /\ Relies(local[r], pc[r]) /\ Fits(local[r], pc[r])
  BY DEF MapInv, Types, TypeOK
<1>1. ASSUME Reuse(r)
      PROVE  MapInv'
  <2>1. PICK i \in Ids : Goto(r, [local[r] EXCEPT !.file_id = i], "trace")
    BY <1>1 DEF Reuse, Wrapped
  <2> DEFINE l == [local[r] EXCEPT !.file_id = i]
  <2>2. l.op = local[r].op /\ l.next = local[r].next /\ l.op # "create_response"
    BY <1>0, <1>1 DEF Local, Reuse, Relies, Creating
  <2>3. UNCHANGED <<upstreams, tables>>
    BY <1>1 DEF Reuse
  <2> HIDE DEF l
  <2>4. Relies(l, "trace") /\ ~Holds(l, "trace")
    BY <1>0, <2>2 DEF Relies, Holds
  <2> QED
    BY <2>1, <2>3, <2>4, QuietGoto DEF l
<1>2. ASSUME NotWrapped(r)
      PROVE  MapInv'
  <2>1. Relies(local[r], "wrap_insert") /\ ~Holds(local[r], "wrap_insert")
    BY <1>0, <1>2 DEF NotWrapped, Relies, Holds
  <2> QED
    BY <1>2, <2>1, QuietGoto DEF NotWrapped
<1>3. ASSUME Mark(r)
      PROVE  MapInv'
  <2>1. pc'[r] = "idle" /\ local'[r] = Blank /\ Alone(r)
    BY <1>0, <1>3, GotoAlone DEF Mark, End
  <2>2. UNCHANGED <<kind, exists, output, row>> /\ deleted' = deleted \cup {local[r].id}
    BY <1>3 DEF Mark, upstreams
  <2>3. Grows
    BY <2>2 DEF Grows
  <2>4. Aims(local[r]) /\ Gone(Obj(local[r]))
    BY <1>0, <1>3 DEF Mark, Relies
  <2>5. (RowsNameObjects /\ DeletedRows /\ DeletedMeansGone /\ OutputsAreOutputs)'
    <3>1. RowsNameObjects' /\ OutputsAreOutputs'
      BY <2>2 DEF MapInv, RowsNameObjects, OutputsAreOutputs, Row2
    <3>2. DeletedRows'
      BY <2>2, <2>4 DEF MapInv, DeletedRows, Aims
    <3>3. DeletedMeansGone'
      BY <2>2, <2>4 DEF MapInv, DeletedMeansGone, Row2, Aims, Addressed, Gone, Obj
    <3> QED
      BY <3>1, <3>2, <3>3
  <2>6. Relies(local[r], pc[r])' /\ ~Holds(local[r], pc[r])'
    BY <2>1 DEF Relies, Holds, Blank
  <2>7. ASSUME NEW s \in Requests \ {r}, Holds(local[s], pc[s])
        PROVE  \A i \in Ids : ~Names(i, Obj(local[s]))'
    <3>1. \A i \in Ids : ~Names(i, Obj(local[s]))
      BY <2>7 DEF MapInv, Relies
    <3>2. local'[s] = local[s]
      BY <2>1 DEF Alone
    <3> QED
      BY <2>2, <3>1, <3>2 DEF Names, Obj
  <2>8. OneHolder' /\ \A s \in Requests : Relies(local[s], pc[s])'
    BY <2>1, <2>3, <2>6, <2>7, HandlersKept
  <2> QED
    BY <2>5, <2>8 DEF MapInv
<1> QED
  BY <1>1, <1>2, <1>3, MapInsert, MapWrapInsert DEF Store

LEMMA MapFinish ==
  ASSUME MapInv, Types', NEW r \in Requests, Finish(r)
  PROVE  MapInv'
<1>0. Relies(local[r], pc[r])
  BY DEF MapInv
<1>1. ASSUME Trace(r) \/ TraceFails(r)
      PROVE  MapInv'
  <2> DEFINE where == IF local[r].op = "create_response" THEN "insert" ELSE "answer"
  <2>1. pc[r] = "trace" /\ Goto(r, local[r], where) /\ UNCHANGED <<upstreams, tables>>
    BY <1>1 DEF Trace, TraceFails, AfterTrace
  <2>2. /\ where \in {"insert", "answer"}
        /\ where = "insert" => local[r].op = "create_response"
    OBVIOUS
  <2> HIDE DEF where
  <2>3. /\ Relies(local[r], where)
        /\ Holds(local[r], where) => Holds(local[r], pc[r])
    BY <1>0, <2>1, <2>2 DEF Relies, Holds
  <2> QED
    BY <2>1, <2>3, QuietGoto
<1>2. ASSUME Answer(r) \/ Fail(r)
      PROVE  MapInv'
  BY <1>2, QuietEnd DEF Answer, Fail
<1> QED
  BY <1>1, <1>2 DEF Finish

LEMMA MapComplete ==
  ASSUME MapInv, Types', NEW b \in Objects, NEW x \in Objects, Complete(b, x)
  PROVE  MapInv'
<1>0. TypeOK
  BY DEF MapInv, Types
<1>1. /\ kind[x] = None
      /\ kind' = [kind EXCEPT ![x] = "output"]
      /\ exists' = exists \cup {x}
      /\ UNCHANGED <<row, deleted, pc, local>>
  BY DEF Complete, tables
<1>2. /\ Grows
      /\ kind'[x] = "output"
      /\ RowsNameObjects' /\ DeletedRows' /\ DeletedMeansGone'
  BY <1>1, NewObjectMap
<1>3. OutputsAreOutputs'
  <2>1. ASSUME NEW c \in Objects, output'[c] # None
        PROVE  kind'[<<c[1], output'[c]>>] = "output"
    <3>1. CASE c = b
      <4>1. output'[b] = x[2] /\ x = <<b[1], x[2]>>
        BY <1>0 DEF Complete, TypeOK, Objects
      <4> QED
        BY <1>2, <3>1, <4>1
    <3>2. CASE c # b
      <4>1. output'[c] = output[c]
        BY <1>0, <3>2 DEF Complete, TypeOK
      <4>2. /\ <<c[1], output[c]>> \in Objects
            /\ kind[<<c[1], output[c]>>] = "output"
        BY <1>0, <2>1, <4>1 DEF TypeOK, Objects, MapInv, OutputsAreOutputs
      <4>3. "output" # None
        BY ResourceAssumption DEF Kinds
      <4> QED
        BY <1>2, <4>1, <4>2, <4>3 DEF Grows
    <3> QED
      BY <3>1, <3>2
  <2> QED
    BY <2>1 DEF OutputsAreOutputs
<1>4. ASSUME NEW s \in Requests
      PROVE  Relies(local[s], pc[s])'
  <2>1. Holds(local[s], pc[s]) => \A i \in Ids : ~Names(i, Obj(local[s]))'
    BY <1>1 DEF MapInv, Relies, Names, Obj
  <2> QED
    BY <1>1, <1>2, <2>1, ReliesKept
<1>5. OneHolder'
  BY <1>1 DEF MapInv, OneHolder, Holds, Obj
<1> QED
  BY <1>2, <1>3, <1>4, <1>5 DEF MapInv

LEMMA MapStep == MapInv /\ [Next]_vars => MapInv'
<1> SUFFICES ASSUME MapInv, [Next]_vars
             PROVE  MapInv'
  OBVIOUS
<1>0. Types'
  BY TypesStep DEF MapInv
<1>1. CASE UNCHANGED vars
  <2>1. /\ UNCHANGED <<kind, exists, output, row, deleted, pc, local>>
        /\ \A r \in Requests : local'[r] = local[r] /\ pc'[r] = pc[r]
    BY <1>1 DEF vars, upstreams, tables
  <2>2. RowsNameObjects' /\ DeletedRows' /\ DeletedMeansGone' /\ OutputsAreOutputs'
    BY <2>1 DEF MapInv, RowsNameObjects, DeletedRows, DeletedMeansGone, OutputsAreOutputs,
                Row2, Aims, Addressed, Gone
  <2>3. OneHolder'
    BY <2>1 DEF MapInv, OneHolder, Holds, Obj
  <2>4. ASSUME NEW r \in Requests
        PROVE  Relies(local[r], pc[r])'
    BY <2>1 DEF MapInv, Relies, Holds, Obj, Names, Row2, Aims, Addressed, Gone
  <2> QED
    BY <1>0, <2>2, <2>3, <2>4 DEF MapInv
<1>2. ASSUME NEW r \in Requests,
             Arrive(r) \/ LookUp(r) \/ Call(r) \/ Store(r) \/ Finish(r)
      PROVE  MapInv'
  BY <1>0, <1>2, MapArrive, MapResolve, MapCall, MapStore, MapFinish
<1> QED
  BY <1>0, <1>1, <1>2, MapComplete DEF Next

(***************************************************************************)
(* Whatever is retried, lost or concurrent, each row names an object of    *)
(* its table's kind, which only output files share with another row.       *)
(***************************************************************************)
THEOREM RowsCorrect == Spec => []RowsNameObjects
<1>1. MapInv => RowsNameObjects
  BY DEF MapInv
<1> QED
  BY MapInit, MapStep, <1>1, PTL DEF Spec

(***************************************************************************)
(* No row is marked deleted before its object, or the namesake that the    *)
(* Anthropic API addressed instead, is gone from the upstream.             *)
(***************************************************************************)
THEOREM DeletedCorrect == Spec => []DeletedMeansGone
<1>1. MapInv => DeletedMeansGone
  BY DEF MapInv
<1> QED
  BY MapInit, MapStep, <1>1, PTL DEF Spec

-----------------------------------------------------------------------------
(***************************************************************************)
(* The inductive invariant behind ResultIsWrapped: the output a handler    *)
(* read stays that of its batch, and the row it found or made keeps naming *)
(* it, so that both hold until the answer.                                 *)
(***************************************************************************)
Result(l, where) ==
  /\ where \in {"wrap", "wrap_insert"} => l.output = output[Obj(l)]
  /\ l.file_id # None =>
       /\ where \in {"trace", "answer"}
       /\ l.op \notin Creating
       /\ Obj(l) \in Objects
       /\ l.output # None /\ l.output = output[Obj(l)]
       /\ Names(l.file_id, <<l.at, l.output>>)

ResultInv == MapInv /\ \A r \in Requests : Result(local[r], pc[r])

OutputsGrow == \A b \in Objects : output[b] # None => output'[b] = output[b]

LEMMA RowsKept ==
  ASSUME TypeOK, NEW i \in Ids, NEW t, NEW x, InsertRow(i, t, x)
  PROVE  \A j \in Ids : row[j] # None => row'[j] = row[j]
BY DEF TypeOK, InsertRow

LEMMA StepGrows == MapInv /\ [Next]_vars => Grows /\ OutputsGrow
<1> SUFFICES ASSUME MapInv, [Next]_vars
             PROVE  Grows /\ OutputsGrow
  OBVIOUS
<1>0. TypeOK
  BY DEF MapInv, Types
<1>1. CASE UNCHANGED <<upstreams, row>>
  BY <1>1 DEF Grows, OutputsGrow, upstreams
<1>2. ASSUME NEW r \in Requests, NEW x \in Objects, MakesObject(r, x),
             UNCHANGED <<output, row>>
      PROVE  Grows /\ OutputsGrow
  BY <1>0, <1>2 DEF MakesObject, Grows, OutputsGrow, TypeOK
<1>3. ASSUME NEW r \in Requests, Delete(r)
      PROVE  Grows /\ OutputsGrow
  BY <1>0, <1>3 DEF Delete, Grows, OutputsGrow, tables
<1>4. ASSUME NEW i \in Ids, NEW t, NEW x, InsertRow(i, t, x), UNCHANGED upstreams
      PROVE  Grows /\ OutputsGrow
  BY <1>0, <1>4, RowsKept DEF Grows, OutputsGrow, upstreams
<1>5. ASSUME NEW b \in Objects, NEW x \in Objects, Complete(b, x)
      PROVE  Grows /\ OutputsGrow
  BY <1>0, <1>5 DEF Complete, Grows, OutputsGrow, TypeOK, tables
<1>6. ASSUME NEW r \in Requests, Arrive(r) \/ LookUp(r) \/ Finish(r)
      PROVE  UNCHANGED <<upstreams, row>>
  BY <1>6 DEF Arrive, Upload, UploadFile, CreateMessageBatch, CreateResponse, UseId, LookUp,
              Resolve, ResolveElsewhere, Unserved, NotFound, Finish, Trace, TraceFails, Answer,
              Fail, tables
<1>7. ASSUME NEW r \in Requests, Call(r)
      PROVE  Grows /\ OutputsGrow
  <2>1. ASSUME NEW x \in Objects, Create(r, x) \/ CreateUnanswered(r, x)
        PROVE  Grows /\ OutputsGrow
    BY <2>1, <1>2 DEF Create, CreateUnanswered, tables
  <2>2. ASSUME Refuse(r) \/ Retrieve(r)
        PROVE  UNCHANGED <<upstreams, row>>
    BY <2>2 DEF Refuse, Retrieve, tables
  <2> QED
    BY <1>1, <1>3, <1>7, <2>1, <2>2 DEF Call
<1>8. ASSUME NEW r \in Requests, Store(r)
      PROVE  Grows /\ OutputsGrow
  <2>1. ASSUME Insert(r) \/ WrapInsert(r)
        PROVE  Grows /\ OutputsGrow
    BY <2>1, <1>4 DEF Insert, WrapInsert
  <2>2. ASSUME Reuse(r) \/ NotWrapped(r) \/ Mark(r)
        PROVE  UNCHANGED <<upstreams, row>>
    BY <2>2 DEF Reuse, NotWrapped, Mark, tables
  <2> QED
    BY <1>1, <1>8, <2>1, <2>2 DEF Store
<1> QED
  BY <1>1, <1>5, <1>6, <1>7, <1>8 DEF Next, vars, tables

\* What one connection does, it does alone.
LEMMA StepAlone ==
  ASSUME TypeOK, NEW r \in Requests,
         Arrive(r) \/ LookUp(r) \/ Call(r) \/ Store(r) \/ Finish(r)
  PROVE  Alone(r)
<1> USE DEF TypeOK, Alone, Goto, End
<1>1. CASE Arrive(r)
  BY <1>1 DEF Arrive, Upload, UploadFile, CreateMessageBatch, CreateResponse, UseId
<1>2. CASE LookUp(r)
  BY <1>2 DEF LookUp, Resolve, ResolveElsewhere, Unserved, NotFound
<1>3. CASE Call(r)
  BY <1>3 DEF Call, Create, CreateUnanswered, Refuse, TryNext, Retrieve, Delete
<1>4. CASE Store(r)
  BY <1>4 DEF Store, Insert, Reuse, NotWrapped, WrapInsert, Mark
<1>5. CASE Finish(r)
  BY <1>5 DEF Finish, Trace, TraceFails, AfterTrace, Answer, Fail
<1> QED
  BY <1>1, <1>2, <1>3, <1>4, <1>5

LEMMA ResultKept ==
  ASSUME Types, Grows, OutputsGrow, NEW l \in Local, NEW where, Fits(l, where),
         Result(l, where)
  PROVE  /\ where \in {"wrap", "wrap_insert"} => l.output = output'[Obj(l)]
         /\ l.file_id # None =>
              /\ l.output = output'[Obj(l)]
              /\ row'[l.file_id] = row[l.file_id]
<1>1. l.file_id \in Ids \cup {None} /\ None \notin Originals
  BY ResourceAssumption DEF Local
<1>2. CASE where \in {"wrap", "wrap_insert"}
  BY <1>1, <1>2 DEF Result, Fits, Obj, OutputsGrow
<1>3. CASE l.file_id # None
  BY <1>1, <1>3 DEF Result, Names, Grows, OutputsGrow
<1> QED
  BY <1>2, <1>3

LEMMA ResultOwn ==
  ASSUME ResultInv, NEW r \in Requests, Grows, OutputsGrow,
         Arrive(r) \/ LookUp(r) \/ Call(r) \/ Store(r) \/ Finish(r)
  PROVE  Result(local[r], pc[r])'
<1> DEFINE old == local[r]
<1>0. /\ TypeOK /\ old \in Local
      /\ Fits(old, pc[r]) /\ Relies(old, pc[r]) /\ Result(old, pc[r])
  BY DEF ResultInv, MapInv, Types, TypeOK
<1>1. ASSUME NEW l, NEW where \in {"idle", "resolve", "call", "insert", "trace", "answer"},
             Goto(r, l, where), l.file_id = None
      PROVE  Result(local[r], pc[r])'
  BY <1>0, <1>1, GotoAlone DEF Result
<1>2. ASSUME End(r)
      PROVE  Result(local[r], pc[r])'
  BY <1>1, <1>2 DEF End, Blank
<1>3. CASE Arrive(r)
  <2>1. ASSUME NEW u \in Upstreams, Upload(r, u) \/ CreateMessageBatch(r, u)
        PROVE  Result(local[r], pc[r])'
    <3>1. /\ [Blank EXCEPT !.at = u].file_id = None
          /\ [Blank EXCEPT !.op = "create_message_batch", !.at = u].file_id = None
      BY DEF Blank
    <3> QED
      BY <1>1, <2>1, <3>1 DEF Upload, CreateMessageBatch
  <2>2. ASSUME NEW i, NEW u, NEW v, CreateResponse(r, i, u, v)
        PROVE  Result(local[r], pc[r])'
    <3>1. [Blank EXCEPT !.op = "create_response", !.id = i, !.at = u, !.next = v].file_id = None
      BY DEF Blank
    <3> QED
      BY <1>1, <2>2, <3>1 DEF CreateResponse
  <2>3. ASSUME NEW o, NEW i, UseId(r, o, i)
        PROVE  Result(local[r], pc[r])'
    <3>1. [Blank EXCEPT !.op = o, !.id = i].file_id = None
      BY DEF Blank
    <3> QED
      BY <1>1, <2>3, <3>1 DEF UseId
  <2> QED
    BY <1>3, <2>1, <2>2, <2>3, ResourceAssumption DEF Arrive, UploadFile
<1>4. CASE LookUp(r)
  <2>1. CASE Unserved(r) \/ NotFound(r)
    BY <1>2, <2>1 DEF Unserved, NotFound
  <2>2. CASE Resolve(r) \/ \E u \in Nameless : ResolveElsewhere(r, u)
    <3>1. old.file_id = None
      BY <1>0, <2>2 DEF Result, Resolve, ResolveElsewhere
    <3>2. Translated(r).file_id = None
      BY <1>0, <3>1 DEF Translated, Local
    <3>3. CASE Resolve(r)
      BY <1>1, <3>2, <3>3 DEF Resolve
    <3>4. ASSUME NEW u \in Nameless, ResolveElsewhere(r, u)
          PROVE  Result(local[r], pc[r])'
      <4>1. Translated(r) = [old EXCEPT !.at = row[old.id].upstream_id,
                                        !.original = row[old.id].original]
        BY <3>4 DEF ResolveElsewhere, Translated
      <4>2. [Translated(r) EXCEPT !.at = u].file_id = None
        BY <1>0, <3>1, <4>1 DEF Local
      <4> QED
        BY <1>1, <3>4, <4>2 DEF ResolveElsewhere
    <3> QED
      BY <2>2, <3>3, <3>4
  <2> QED
    BY <1>4, <2>1, <2>2 DEF LookUp
<1>5. CASE Call(r)
  <2>1. old.file_id = None
    <3>1. pc[r] = "call"
      BY <1>5 DEF Call, Create, CreateUnanswered, MakesObject, Refuse, Retrieve, Delete
    <3> QED
      BY <1>0, <3>1 DEF Result
  <2>2. ASSUME NEW x \in Objects, Create(r, x)
        PROVE  Result(local[r], pc[r])'
    <3>1. [old EXCEPT !.original = x[2], !.next = None, !.needs = None].file_id = None
      BY <1>0, <2>1 DEF Local
    <3> QED
      BY <1>1, <2>2, <3>1 DEF Create
  <2>3. ASSUME TryNext(r)
        PROVE  Result(local[r], pc[r])'
    <3>1. [old EXCEPT !.at = old.next, !.next = None].file_id = None
      BY <1>0, <2>1 DEF Local
    <3> QED
      BY <1>1, <1>2, <2>3, <3>1 DEF TryNext
  <2>4. ASSUME Retrieve(r)
        PROVE  Result(local[r], pc[r])'
    <3> DEFINE f == output[Object(r)]
               l == [old EXCEPT !.output = f]
    <3>1. l.file_id = None /\ l.output = f /\ Obj(l) = Object(r)
      BY <1>0, <2>1 DEF Local, Obj, Object
    <3>2. Goto(r, l, IF f # None THEN "wrap" ELSE "trace") /\ UNCHANGED output
      BY <2>4 DEF Retrieve, upstreams
    <3> HIDE DEF l
    <3>3. pc'[r] = (IF f # None THEN "wrap" ELSE "trace") /\ local'[r] = l
      BY <1>0, <3>2, GotoAlone
    <3> QED
      BY <3>1, <3>2, <3>3 DEF Result, Obj, Object
  <2>5. ASSUME Delete(r)
        PROVE  Result(local[r], pc[r])'
    BY <1>0, <2>1, <2>5 DEF Delete, TypeOK, Result
  <2> QED
    BY <1>5, <2>2, <2>3, <2>4, <2>5 DEF Call, CreateUnanswered, Refuse
<1>6. CASE Store(r)
  <2>1. pc[r] \in {"insert", "wrap", "wrap_insert", "mark"} /\ old.file_id = None
    BY <1>0, <1>6 DEF Store, Insert, Reuse, NotWrapped, WrapInsert, Mark, Result
  <2>2. CASE Insert(r)
    <3>1. PICK i \in Ids :
            Goto(r, [old EXCEPT !.id = i],
                 IF old.op = "create_batch" THEN "trace" ELSE "answer")
      BY <2>2 DEF Insert
    <3>2. [old EXCEPT !.id = i].file_id = None
      BY <1>0, <2>1 DEF Local
    <3> QED
      BY <1>1, <3>1, <3>2
  <2>3. ASSUME NEW i \in Ids, Goto(r, [old EXCEPT !.file_id = i], "trace"),
               pc[r] \in {"wrap", "wrap_insert"}, UNCHANGED output,
               row'[i] # None, OutputFile(r) = <<row'[i].upstream_id, row'[i].original>>
        PROVE  Result(local[r], pc[r])'
    <3> DEFINE l == [old EXCEPT !.file_id = i]
    <3>1. /\ l.op = old.op /\ l.output = old.output /\ l.at = old.at
          /\ l.file_id = i /\ Obj(l) = Obj(old) /\ OutputFile(r) = <<l.at, l.output>>
      BY <1>0 DEF Local, Obj, OutputFile
    <3>2. /\ Obj(old) \in Objects
          /\ old.output \in Originals /\ old.output # None /\ old.output = output[Obj(old)]
      BY <1>0, <2>3, ResourceAssumption DEF Fits, Result, Obj
    <3>3. old.op \notin Creating
      BY <1>0, <2>3 DEF Relies
    <3> HIDE DEF l
    <3>4. pc'[r] = "trace" /\ local'[r] = l
      BY <1>0, <2>3, GotoAlone DEF l
    <3> QED
      BY <2>3, <3>1, <3>2, <3>3, <3>4 DEF Result, Obj, Names
  <2>4. CASE Reuse(r)
    <3>1. PICK i \in Wrapped(OutputFile(r)) : Goto(r, [old EXCEPT !.file_id = i], "trace")
      BY <2>4 DEF Reuse
    <3>2. i \in Ids /\ Names(i, OutputFile(r)) /\ UNCHANGED <<output, row>>
      BY <2>4, <3>1 DEF Wrapped, Reuse, upstreams, tables
    <3> QED
      BY <2>3, <2>4, <3>1, <3>2 DEF Names, Reuse
  <2>5. CASE NotWrapped(r)
    <3>1. pc'[r] = "wrap_insert" /\ local'[r] = old /\ UNCHANGED output
      BY <1>0, <2>5, GotoAlone DEF NotWrapped, upstreams
    <3> QED
      BY <1>0, <2>1, <2>5, <3>1 DEF Result, NotWrapped, Obj
  <2>6. CASE WrapInsert(r)
    <3>1. PICK i \in Ids :
            /\ InsertRow(i, "file_metas", OutputFile(r))
            /\ Goto(r, [old EXCEPT !.file_id = i], "trace")
      BY <2>6 DEF WrapInsert
    <3>2. row'[i] = RowOf("file_metas", OutputFile(r)) /\ UNCHANGED output
      BY <1>0, <2>6, <3>1 DEF InsertRow, TypeOK, WrapInsert, upstreams
    <3>3. OutputFile(r) \in Objects /\ RowOf("file_metas", OutputFile(r)) \in Row
      BY <1>0, <2>6 DEF Fits, WrapInsert, OutputFile, Objects, RowOf, Row, Tables
    <3> QED
      BY <2>3, <2>6, <3>1, <3>2, <3>3, ResourceAssumption
         DEF WrapInsert, RowOf, OutputFile
  <2>7. CASE Mark(r)
    BY <1>2, <2>7 DEF Mark
  <2> QED
    BY <1>6, <2>2, <2>4, <2>5, <2>6, <2>7 DEF Store
<1>7. CASE Finish(r)
  <2>1. ASSUME Trace(r) \/ TraceFails(r)
        PROVE  Result(local[r], pc[r])'
    <3>1. /\ pc[r] = "trace" /\ UNCHANGED <<output, row>>
          /\ Goto(r, old, IF old.op = "create_response" THEN "insert" ELSE "answer")
      BY <2>1 DEF Trace, TraceFails, AfterTrace, upstreams, tables
    <3>2. local'[r] = old
          /\ pc'[r] = IF old.op = "create_response" THEN "insert" ELSE "answer"
      BY <1>0, <3>1, GotoAlone
    <3> QED
      BY <1>0, <3>1, <3>2 DEF Result, Obj, Names, Creating
  <2> QED
    BY <1>2, <1>7, <2>1 DEF Finish, Answer, Fail
<1> QED
  BY <1>3, <1>4, <1>5, <1>6, <1>7

LEMMA ResultStep == ResultInv /\ [Next]_vars => ResultInv'
<1> SUFFICES ASSUME ResultInv, [Next]_vars
             PROVE  ResultInv'
  OBVIOUS
<1>0. MapInv /\ Types /\ TypeOK /\ Grows /\ OutputsGrow
  BY StepGrows DEF ResultInv, MapInv, Types
<1>1. MapInv'
  BY <1>0, MapStep
<1>2. ASSUME NEW s \in Requests, pc'[s] = pc[s], local'[s] = local[s]
      PROVE  Result(local[s], pc[s])'
  <2>1. local[s] \in Local /\ Fits(local[s], pc[s]) /\ Result(local[s], pc[s])
    BY <1>0 DEF ResultInv, Types, TypeOK
  <2> QED
    BY <1>0, <1>2, <2>1, ResultKept DEF Result, Obj, Names
<1>3. ASSUME NEW r \in Requests,
             Arrive(r) \/ LookUp(r) \/ Call(r) \/ Store(r) \/ Finish(r)
      PROVE  \A s \in Requests : Result(local[s], pc[s])'
  <2>1. Alone(r) /\ Result(local[r], pc[r])'
    BY <1>0, <1>3, StepAlone, ResultOwn
  <2> QED
    BY <1>2, <2>1 DEF Alone
<1>4. ASSUME UNCHANGED <<pc, local>>
      PROVE  \A s \in Requests : Result(local[s], pc[s])'
  BY <1>2, <1>4
<1>5. \A s \in Requests : Result(local[s], pc[s])'
  BY <1>3, <1>4 DEF Next, vars, Complete
<1> QED
  BY <1>1, <1>5 DEF ResultInv

LEMMA ResultInit == Init => ResultInv
<1> SUFFICES ASSUME Init PROVE ResultInv
  OBVIOUS
<1>1. \A r \in Requests : Result(local[r], pc[r])
  BY DEF Init, Blank, Result
<1> QED
  BY <1>1, MapInit DEF ResultInv

(***************************************************************************)
(* The id a request found or made for an output file names the output of   *)
(* the batch it asked about, whoever wraps or deletes the file meanwhile.  *)
(***************************************************************************)
THEOREM ResultCorrect == Spec => []ResultIsWrapped
<1>1. ResultInv => ResultIsWrapped
  BY DEF ResultInv, Result, ResultIsWrapped, Object, Obj, OutputFile
<1> QED
  BY ResultInit, ResultStep, <1>1, PTL DEF Spec

-----------------------------------------------------------------------------
(***************************************************************************)
(* The inductive invariant behind NothingIsLost: without faults, an object *)
(* passes from the handler that caused it to the row it inserts.           *)
(***************************************************************************)
Kept(x) ==
  \/ \E i \in Ids : Names(i, x)
  \/ \E r \in Requests : Holds(local[r], pc[r]) /\ Obj(local[r]) = x

KeptInv ==
  /\ MapInv
  /\ faults = 0 => \A x \in exists : kind[x] # "output" => Kept(x)

LEMMA NoFaultYet ==
  ASSUME TypeOK, [Next]_vars, faults' = 0
  PROVE  faults = 0 /\ ~Fault
<1>1. faults \in Nat /\ (Fault => faults' = faults + 1)
  BY ResourceAssumption DEF TypeOK, Fault
<1>2. Fault \/ UNCHANGED faults
  BY DEF Next, vars, Arrive, Upload, UploadFile, CreateMessageBatch, CreateResponse, UseId,
         LookUp, Resolve, ResolveElsewhere, Unserved, NotFound, Call, Create, CreateUnanswered,
         Refuse, Retrieve, Delete, Store, Insert, Reuse, NotWrapped, WrapInsert, Mark, Finish,
         Trace, TraceFails, Answer, Fail, Complete
<1> QED
  BY <1>1, <1>2

\* The handler that holds an object keeps it or inserts its row.
LEMMA HeldKept ==
  ASSUME MapInv, NEW r \in Requests, Holds(local[r], pc[r]), ~Fault,
         NEW x, x = Obj(local[r]),
         Arrive(r) \/ LookUp(r) \/ Call(r) \/ Store(r) \/ Finish(r)
  PROVE  Kept(x)'
<1>0. TypeOK /\ Fits(local[r], pc[r])
  BY DEF MapInv, Types
<1>1. CASE pc[r] = "insert"
  <2>1. Insert(r)
    BY <1>1 DEF Arrive, Upload, UploadFile, CreateMessageBatch, CreateResponse, UseId,
           LookUp, Resolve, ResolveElsewhere, Unserved, NotFound, Call, Create,
           CreateUnanswered, MakesObject, Refuse, Retrieve, Delete, Store, Reuse, NotWrapped,
           WrapInsert, Mark, Finish, Trace, TraceFails, Answer, Fail
  <2>2. PICK i \in Ids : InsertRow(i, Made(local[r].op), Obj(local[r]))
    BY <2>1 DEF Insert, Object, Obj
  <2>3. row'[i] = RowOf(Made(local[r].op), Obj(local[r])) /\ row'[i] # None
    <3>1. RowOf(Made(local[r].op), Obj(local[r])) \in Row
      BY <1>0, <1>1 DEF Fits, RowOf, Row, Made, Tables, Obj, Objects
    <3> QED
      BY <1>0, <2>2, <3>1, ResourceAssumption DEF InsertRow, TypeOK
  <2>4. Obj(local[r]) = <<row'[i].upstream_id, row'[i].original>>
    BY <2>3 DEF RowOf, Obj
  <2> QED
    BY <2>3, <2>4 DEF Kept, Names
<1>2. CASE pc[r] = "trace" /\ local[r].op = "create_response"
  <2>1. Trace(r)
    BY <1>2 DEF Arrive, Upload, UploadFile, CreateMessageBatch, CreateResponse, UseId,
           LookUp, Resolve, ResolveElsewhere, Unserved, NotFound, Call, Create,
           CreateUnanswered, MakesObject, Refuse, Retrieve, Delete, Store, Insert, Reuse,
           NotWrapped, WrapInsert, Mark, Finish, TraceFails, Answer, Fail
  <2>2. pc'[r] = "insert" /\ local'[r] = local[r]
    BY <1>0, <1>2, <2>1, GotoAlone DEF Trace, AfterTrace
  <2>3. Holds(local'[r], pc'[r]) /\ Obj(local'[r]) = Obj(local[r])
    BY <2>2 DEF Holds
  <2> QED
    BY <2>3 DEF Kept, Holds, Obj
<1> QED
  BY <1>1, <1>2 DEF Holds

LEMMA KeptStep == KeptInv /\ [Next]_vars => KeptInv'
<1> SUFFICES ASSUME KeptInv, [Next]_vars
             PROVE  KeptInv'
  OBVIOUS
<1>0. MapInv /\ MapInv' /\ Types /\ TypeOK /\ Types' /\ Grows
  BY MapStep, StepGrows DEF KeptInv, MapInv, Types
<1> SUFFICES ASSUME faults' = 0, NEW x \in exists', kind'[x] # "output"
             PROVE  Kept(x)'
  BY <1>0 DEF KeptInv, Kept
<1>1. faults = 0 /\ ~Fault
  BY <1>0, NoFaultYet
<1>2. x \in Objects
  BY <1>0 DEF Types, TypeOK
<1>3. CASE x \in exists
  <2>1. Kept(x)
    <3>1. kind[x] # "output"
      BY <1>0, <1>2, ResourceAssumption DEF Grows, Kinds
    <3> QED
      BY <1>1, <1>3, <3>1 DEF KeptInv
  <2>2. ASSUME NEW i \in Ids, Names(i, x)
        PROVE  Kept(x)'
    BY <1>0, <2>2 DEF Grows, Kept, Names
  <2>3. ASSUME NEW s \in Requests, Holds(local[s], pc[s]), Obj(local[s]) = x
        PROVE  Kept(x)'
    <3>1. CASE pc'[s] = pc[s] /\ local'[s] = local[s]
      BY <2>3, <3>1 DEF Kept, Holds, Obj
    <3>2. CASE ~(pc'[s] = pc[s] /\ local'[s] = local[s])
      <4>1. ASSUME NEW r \in Requests,
                   Arrive(r) \/ LookUp(r) \/ Call(r) \/ Store(r) \/ Finish(r)
            PROVE  Kept(x)'
        <5>1. r = s
          BY <1>0, <3>2, <4>1, StepAlone DEF Alone
        <5> QED
          BY <1>0, <1>1, <2>3, <4>1, <5>1, HeldKept
      <4> QED
        BY <3>2, <4>1 DEF Next, vars, Complete
    <3> QED
      BY <3>1, <3>2
  <2> QED
    BY <2>1, <2>2, <2>3 DEF Kept
<1>4. CASE x \notin exists
  <2>1. PICK r \in Requests : \E y \in Objects : Create(r, y)
    <3>1. exists' # exists
      BY <1>4
    <3>2. ASSUME NEW b \in Objects, NEW y \in Objects, Complete(b, y)
          PROVE  FALSE
      BY <1>0, <1>4, <3>2 DEF Complete, TypeOK
    <3>3. PICK r \in Requests : Arrive(r) \/ LookUp(r) \/ Call(r) \/ Store(r) \/ Finish(r)
      BY <3>1, <3>2 DEF Next, vars, upstreams
    <3>4. ~Arrive(r)
      BY <3>1 DEF Arrive, Upload, UploadFile, CreateMessageBatch, CreateResponse, UseId,
                  upstreams
    <3>5. ~LookUp(r)
      BY <3>1 DEF LookUp, Resolve, ResolveElsewhere, Unserved, NotFound, upstreams
    <3>6. ~Store(r)
      BY <3>1 DEF Store, Insert, Reuse, NotWrapped, WrapInsert, Mark, upstreams
    <3>7. ~Finish(r)
      BY <3>1 DEF Finish, Trace, TraceFails, Answer, Fail, upstreams
    <3>8. ~Refuse(r) /\ ~Retrieve(r) /\ ~Delete(r)
      BY <1>4, <3>1 DEF Refuse, Retrieve, Delete, upstreams
    <3>9. \A y \in Objects : ~CreateUnanswered(r, y)
      BY <1>1 DEF CreateUnanswered
    <3> QED
      BY <3>3, <3>4, <3>5, <3>6, <3>7, <3>8, <3>9 DEF Call
  <2>2. PICK y \in Objects : Create(r, y)
    BY <2>1
  <2>3. y = x /\ x = <<local[r].at, x[2]>> /\ local[r] \in Local
    BY <1>0, <1>4, <2>2 DEF Create, MakesObject, Objects, TypeOK
  <2> DEFINE l == [local[r] EXCEPT !.original = x[2], !.next = None, !.needs = None]
             where == IF local[r].op = "create_response" THEN "trace" ELSE "insert"
  <2>4. Obj(l) = x /\ l.op = local[r].op
    BY <2>3 DEF Obj, Local
  <2>5. Holds(l, where)
    BY <2>4 DEF Holds
  <2>6. Goto(r, l, where)
    BY <2>2, <2>3 DEF Create
  <2> HIDE DEF l, where
  <2>7. pc'[r] = where /\ local'[r] = l
    BY <1>0, <2>6, GotoAlone
  <2> QED
    BY <2>4, <2>5, <2>7 DEF Kept, Holds, Obj
<1> QED
  BY <1>3, <1>4

(***************************************************************************)
(* As long as nothing fails, every object that clients caused is reachable *)
(* by an id, or its handler is about to insert one, for any interleaving.  *)
(***************************************************************************)
THEOREM NothingLost == Spec => []NothingIsLost
<1>1. Init => KeptInv
  <2>1. Init => exists = {}
    BY DEF Init
  <2> QED
    BY <2>1, MapInit DEF KeptInv
<1>2. KeptInv => NothingIsLost
  BY DEF KeptInv, NothingIsLost, Kept, Holds, Object, Obj
<1> QED
  BY <1>1, <1>2, KeptStep, PTL DEF Spec

-----------------------------------------------------------------------------
(***************************************************************************)
(* The inductive invariant behind BilledBeforeKnown.  Ids that clients     *)
(* know have rows, and the id of a request is one of them or that of the   *)
(* row it inserted itself, which is not an output's.                       *)
(***************************************************************************)
Origin(l, where) ==
  /\ where # "idle" /\ l.op \notin Creating => l.id \in known
  /\ l.op \in Creating /\ where \in {"trace", "answer"} /\ ~Holds(l, where) =>
       l.id \in Ids /\ row[l.id] # None /\ kind[Row2(l.id)] # "output"

Origins ==
  /\ \A i \in known : row[i] # None
  /\ \A r \in Requests : Origin(local[r], pc[r])

\* What a completed output's row says of the batch it belongs to.
OutputBilled(i) == \E b \in billed : b[1] = Row2(i)[1] /\ output[b] = Row2(i)[2]

\* Without faults, a handler bills before it inserts or answers.
Bills(l, where) ==
  /\ where = "insert" /\ l.op = "create_response" => Obj(l) \in billed
  /\ where = "answer" /\ l.file_id # None => Obj(l) \in billed

Billed ==
  /\ \A i \in Ids : row[i] # None /\ kind[Row2(i)] = "response" => Row2(i) \in billed
  /\ \A i \in known : kind[Row2(i)] = "output" => OutputBilled(i)
  /\ \A r \in Requests : Bills(local[r], pc[r])

BillInv == ResultInv /\ Origins /\ (faults = 0 => Billed)

LEMMA KindKept ==
  ASSUME MapInv, Grows, NEW i \in Ids, row[i] # None
  PROVE  row'[i] = row[i] /\ kind'[Row2(i)] = kind[Row2(i)]
<1>1. Row2(i) \in Objects /\ kind[Row2(i)] # None
  BY RowObject, KindFacts DEF MapInv, Types, RowsNameObjects
<1> QED
  BY <1>1 DEF Grows

LEMMA KnownGrows == [Next]_vars => known \subseteq known' /\ billed \subseteq billed'
<1> SUFFICES ASSUME [Next]_vars
             PROVE  known \subseteq known' /\ billed \subseteq billed'
  OBVIOUS
<1>1. ASSUME NEW r \in Requests,
             Arrive(r) \/ LookUp(r) \/ Call(r) \/ Store(r) \/ Finish(r)
      PROVE  known \subseteq known' /\ billed \subseteq billed'
  <2>1. CASE Arrive(r)
    BY <2>1 DEF Arrive, Upload, UploadFile, CreateMessageBatch, CreateResponse, UseId
  <2>2. CASE LookUp(r)
    BY <2>2 DEF LookUp, Resolve, ResolveElsewhere, Unserved, NotFound
  <2>3. CASE Call(r)
    BY <2>3 DEF Call, Create, CreateUnanswered, Refuse, Retrieve, Delete
  <2>4. CASE Store(r)
    BY <2>4 DEF Store, Insert, Reuse, NotWrapped, WrapInsert, Mark
  <2>5. CASE Finish(r)
    BY <2>5 DEF Finish, Trace, TraceFails, Answer, Fail
  <2> QED
    BY <1>1, <2>1, <2>2, <2>3, <2>4, <2>5
<1> QED
  BY <1>1 DEF Next, vars, Complete

LEMMA OriginOwn ==
  ASSUME ResultInv, Origins, NEW r \in Requests, Grows, known \subseteq known',
         Arrive(r) \/ LookUp(r) \/ Call(r) \/ Store(r) \/ Finish(r)
  PROVE  Origin(local[r], pc[r])'
<1> DEFINE old == local[r]
<1>0. /\ TypeOK /\ old \in Local
      /\ Fits(old, pc[r]) /\ Relies(old, pc[r]) /\ Origin(old, pc[r])
  BY DEF Origins, ResultInv, MapInv, Types, TypeOK
<1>1. ASSUME NEW l, NEW where \in {"resolve", "call", "insert", "mark", "wrap", "wrap_insert"},
             Goto(r, l, where), l.op \notin Creating => l.id \in known
      PROVE  Origin(local[r], pc[r])'
  BY <1>0, <1>1, GotoAlone DEF Origin
<1>2. ASSUME NEW l, NEW where \in {"trace", "answer"}, Goto(r, l, where),
             l.op \notin Creating, l.id \in known
      PROVE  Origin(local[r], pc[r])'
  BY <1>0, <1>2, GotoAlone DEF Origin
<1>3. ASSUME End(r)
      PROVE  Origin(local[r], pc[r])'
  <2>1. Blank.op \in Creating
    BY DEF Blank, Creating
  <2> QED
    BY <1>0, <1>3, <2>1, GotoAlone DEF End, Origin
<1>4. CASE Arrive(r)
  <2>1. ASSUME NEW u \in Upstreams, Upload(r, u) \/ CreateMessageBatch(r, u)
        PROVE  Origin(local[r], pc[r])'
    <3>1. /\ [Blank EXCEPT !.at = u].op \in Creating
          /\ [Blank EXCEPT !.op = "create_message_batch", !.at = u].op \in Creating
      BY DEF Blank, Creating
    <3> QED
      BY <1>1, <2>1, <3>1 DEF Upload, CreateMessageBatch
  <2>2. ASSUME NEW i, NEW u, NEW v, CreateResponse(r, i, u, v)
        PROVE  Origin(local[r], pc[r])'
    <3>1. [Blank EXCEPT !.op = "create_response", !.id = i, !.at = u, !.next = v].op \in Creating
      BY DEF Blank, Creating
    <3> QED
      BY <1>1, <2>2, <3>1 DEF CreateResponse
  <2>3. ASSUME NEW o, NEW i \in known, UseId(r, o, i)
        PROVE  Origin(local[r], pc[r])'
    <3>1. [Blank EXCEPT !.op = o, !.id = i].id \in known
      BY DEF Blank
    <3> QED
      BY <1>1, <2>3, <3>1 DEF UseId
  <2> QED
    BY <1>4, <2>1, <2>2, <2>3, ResourceAssumption DEF Arrive, UploadFile
<1>5. CASE LookUp(r)
  <2>1. ASSUME pc[r] = "resolve"
        PROVE  Translated(r).op \notin Creating => Translated(r).id \in known
    BY <1>0, <2>1 DEF Translated, Local, Origin, Creating
  <2>2. CASE Resolve(r)
    BY <1>1, <2>1, <2>2 DEF Resolve
  <2>3. ASSUME NEW u \in Nameless, ResolveElsewhere(r, u)
        PROVE  Origin(local[r], pc[r])'
    <3>1. Translated(r) = [old EXCEPT !.at = row[old.id].upstream_id,
                                      !.original = row[old.id].original]
      BY <2>3 DEF ResolveElsewhere, Translated
    <3>2. [Translated(r) EXCEPT !.at = u].id = old.id /\ old.id \in known
      BY <1>0, <2>3, <3>1 DEF Local, ResolveElsewhere, Origin, Creating
    <3> QED
      BY <1>1, <2>3, <3>2 DEF ResolveElsewhere
  <2> QED
    BY <1>3, <1>5, <2>2, <2>3 DEF LookUp, Unserved, NotFound
<1>6. CASE Call(r)
  <2>1. pc[r] = "call" /\ (old.op \notin Creating => old.id \in known)
    BY <1>0, <1>6 DEF Call, Create, CreateUnanswered, MakesObject, Refuse, Retrieve, Delete, Origin
  <2>2. ASSUME NEW x \in Objects, Create(r, x)
        PROVE  Origin(local[r], pc[r])'
    <3> DEFINE l == [old EXCEPT !.original = x[2], !.next = None, !.needs = None]
    <3>1. l.op = old.op /\ l.op \in Creating
      BY <1>0, <2>2 DEF Local, Create, MakesObject
    <3>2. Goto(r, l, IF l.op = "create_response" THEN "trace" ELSE "insert")
      BY <2>2, <3>1 DEF Create
    <3> HIDE DEF l
    <3>3. /\ local'[r] = l
          /\ pc'[r] = IF l.op = "create_response" THEN "trace" ELSE "insert"
      BY <1>0, <3>2, GotoAlone
    <3> QED
      BY <3>1, <3>3 DEF Origin, Holds
  <2>3. ASSUME TryNext(r)
        PROVE  Origin(local[r], pc[r])'
    <3>1. /\ [old EXCEPT !.at = old.next, !.next = None].op = old.op
          /\ [old EXCEPT !.at = old.next, !.next = None].id = old.id
      BY <1>0 DEF Local
    <3> QED
      BY <1>1, <1>3, <2>1, <2>3, <3>1 DEF TryNext
  <2>4. ASSUME Retrieve(r)
        PROVE  Origin(local[r], pc[r])'
    <3> DEFINE f == output[Object(r)]
    <3>1. /\ [old EXCEPT !.output = f].op = old.op
          /\ [old EXCEPT !.output = f].id = old.id
      BY <1>0 DEF Local
    <3>2. old.op \notin Creating
      BY <2>4 DEF Retrieve, Reading, Creating
    <3>3. Goto(r, [old EXCEPT !.output = f], IF f # None THEN "wrap" ELSE "trace")
      BY <2>4 DEF Retrieve
    <3> HIDE DEF f
    <3> QED
      BY <1>1, <1>2, <2>1, <3>1, <3>2, <3>3
  <2>5. ASSUME Delete(r)
        PROVE  Origin(local[r], pc[r])'
    <3>1. Goto(r, old, "mark")
      BY <1>0, <2>5 DEF Delete, Goto, TypeOK
    <3> QED
      BY <1>1, <2>1, <3>1
  <2> QED
    BY <1>6, <2>2, <2>3, <2>4, <2>5 DEF Call, CreateUnanswered, Refuse
<1>7. CASE Store(r)
  <2>1. CASE Insert(r)
    <3>1. PICK i \in Ids :
            /\ InsertRow(i, Made(old.op), Obj(old))
            /\ Goto(r, [old EXCEPT !.id = i],
                    IF old.op = "create_batch" THEN "trace" ELSE "answer")
      BY <2>1 DEF Insert, Object, Obj
    <3>2. /\ Obj(old) \in Objects /\ UNCHANGED kind
          /\ kind[Obj(old)] # "output"
      BY <1>0, <2>1, KindFacts DEF Insert, Fits, Relies, Holds, Obj, upstreams
    <3>3. RowOf(Made(old.op), Obj(old)) \in Row
      BY <3>2 DEF RowOf, Row, Made, Tables, Obj, Objects
    <3>4. row'[i] = RowOf(Made(old.op), Obj(old)) /\ row'[i] # None
      BY <1>0, <3>1, <3>3, ResourceAssumption DEF InsertRow, TypeOK
    <3>5. (Row2(i))' = Obj(old)
      BY <3>4 DEF Row2, RowOf, Obj
    <3>6. local'[r] = [old EXCEPT !.id = i] /\ pc'[r] \in {"trace", "answer"}
      BY <1>0, <3>1, GotoAlone
    <3>7. local'[r].id = i /\ local'[r].op \in Creating
      BY <1>0, <2>1, <3>6 DEF Local, Insert, Relies, Holds
    <3> QED
      BY <3>2, <3>4, <3>5, <3>6, <3>7 DEF Origin, Row2
  <2>2. ASSUME pc[r] \in {"wrap", "wrap_insert"}, NEW i, Goto(r, [old EXCEPT !.file_id = i], "trace")
        PROVE  Origin(local[r], pc[r])'
    <3>1. old.op \notin Creating /\ old.id \in known
      BY <1>0, <2>2 DEF Relies, Origin
    <3>2. [old EXCEPT !.file_id = i].op = old.op /\ [old EXCEPT !.file_id = i].id = old.id
      BY <1>0 DEF Local
    <3> QED
      BY <1>2, <2>2, <3>1, <3>2
  <2>3. CASE NotWrapped(r)
    BY <1>0, <1>1, <2>3 DEF NotWrapped, Relies, Origin
  <2> QED
    BY <1>3, <1>7, <2>1, <2>2, <2>3 DEF Store, Reuse, WrapInsert, Mark
<1>8. CASE Finish(r)
  <2>1. ASSUME pc[r] = "trace", AfterTrace(r), UNCHANGED <<row, kind>>
        PROVE  Origin(local[r], pc[r])'
    <3>1. /\ local'[r] = old
          /\ pc'[r] = IF old.op = "create_response" THEN "insert" ELSE "answer"
      BY <1>0, <2>1, GotoAlone DEF AfterTrace
    <3> QED
      BY <1>0, <2>1, <3>1 DEF Origin, Holds, Creating, Row2
  <2> QED
    BY <1>3, <1>8, <2>1 DEF Finish, Trace, TraceFails, Answer, Fail, upstreams, tables
<1> QED
  BY <1>4, <1>5, <1>6, <1>7, <1>8

LEMMA OriginKept ==
  ASSUME MapInv, Grows, known \subseteq known', NEW s \in Requests,
         pc'[s] = pc[s], local'[s] = local[s], Origin(local[s], pc[s])
  PROVE  Origin(local[s], pc[s])'
<1> DEFINE l == local[s]
<1>1. CASE l.op \in Creating /\ pc[s] \in {"trace", "answer"} /\ ~Holds(l, pc[s])
  <2>1. l.id \in Ids /\ row[l.id] # None /\ kind[Row2(l.id)] # "output"
    BY <1>1 DEF Origin
  <2>2. row'[l.id] = row[l.id] /\ kind'[Row2(l.id)] = kind[Row2(l.id)]
    BY <2>1, KindKept
  <2> QED
    BY <1>1, <2>1, <2>2 DEF Origin, Row2
<1>2. CASE ~(l.op \in Creating /\ pc[s] \in {"trace", "answer"} /\ ~Holds(l, pc[s]))
  BY <1>2 DEF Origin, Holds
<1> QED
  BY <1>1, <1>2

\* A new id of a client is that of a row an upload or a creation inserted, that of
\* a response another one continues, or that of the output file it asked for.
LEMMA Answered ==
  ASSUME ResultInv, Origins, [Next]_vars, NEW i \in known', i \notin known
  PROVE  \E r \in Requests :
           /\ pc[r] = "answer"
           /\ UNCHANGED <<kind, output, row, billed>>
           /\ row[i] # None
           /\ \/ kind[Row2(i)] # "output"
              \/ local[r].file_id = i /\ i # None
<1>1. known' # known
  OBVIOUS
<1>2. PICK r \in Requests :
        Arrive(r) \/ LookUp(r) \/ Call(r) \/ Store(r) \/ Finish(r)
  BY <1>1 DEF Next, vars, Complete
<1>3. ~Arrive(r)
  BY <1>1 DEF Arrive, Upload, UploadFile, CreateMessageBatch, CreateResponse, UseId
<1>4. ~LookUp(r)
  BY <1>1 DEF LookUp, Resolve, ResolveElsewhere, Unserved, NotFound
<1>5. ~Call(r)
  BY <1>1 DEF Call, Create, CreateUnanswered, Refuse, Retrieve, Delete
<1>6. ~Store(r)
  BY <1>1 DEF Store, Insert, Reuse, NotWrapped, WrapInsert, Mark
<1>7. Answer(r)
  BY <1>1, <1>2, <1>3, <1>4, <1>5, <1>6 DEF Finish, Trace, TraceFails, Fail
<1>8. /\ pc[r] = "answer" /\ UNCHANGED <<kind, output, row, billed>>
      /\ i \in {local[r].id, local[r].file_id} \cup Named(r) /\ i # None
  BY <1>1, <1>7 DEF Answer, upstreams, tables
<1>9. Origin(local[r], pc[r]) /\ Result(local[r], pc[r])
  BY DEF Origins, ResultInv
<1>10. CASE i = local[r].id
  BY <1>8, <1>9, <1>10 DEF Origin, Holds
<1>11. CASE i = local[r].file_id
  BY <1>8, <1>9, <1>11 DEF Result, Names
<1>12. CASE i \in Named(r)
  <2>1. i \in Ids /\ row[i] # None /\ row[i].table = "response_metas"
    BY <1>8, <1>12 DEF Named, Continues, Found
  <2>2. kind[Row2(i)] \in KindsIn("response_metas")
    BY <2>1 DEF ResultInv, MapInv, RowsNameObjects
  <2> QED
    BY <1>8, <2>1, <2>2 DEF KindsIn
<1> QED
  BY <1>8, <1>10, <1>11, <1>12

LEMMA OriginsStep ==
  ASSUME ResultInv, Origins, [Next]_vars
  PROVE  Origins'
<1>0. MapInv /\ TypeOK /\ Grows /\ known \subseteq known'
  BY StepGrows, KnownGrows DEF ResultInv, MapInv, Types
<1>1. ASSUME NEW i \in known'
      PROVE  row'[i] # None
  <2>1. CASE i \in known
    BY <1>0, <2>1 DEF Origins, Grows, TypeOK
  <2>2. CASE i \notin known
    BY <2>2, Answered
  <2> QED
    BY <2>1, <2>2
<1>2. ASSUME NEW s \in Requests
      PROVE  Origin(local[s], pc[s])'
  <2>1. CASE pc'[s] = pc[s] /\ local'[s] = local[s]
    <3>1. Origin(local[s], pc[s])
      BY DEF Origins
    <3> QED
      BY <1>0, <2>1, <3>1, OriginKept
  <2>2. ASSUME NEW r \in Requests,
               Arrive(r) \/ LookUp(r) \/ Call(r) \/ Store(r) \/ Finish(r)
        PROVE  Origin(local[s], pc[s])'
    <3>1. CASE r = s
      BY <1>0, <2>2, <3>1, OriginOwn
    <3>2. CASE r # s
      BY <1>0, <2>1, <2>2, <3>2, StepAlone DEF Alone
    <3> QED
      BY <3>1, <3>2
  <2> QED
    BY <2>1, <2>2 DEF Next, vars, Complete
<1> QED
  BY <1>1, <1>2 DEF Origins

\* A new row is that of an object its handler created, or of an output file.
LEMMA NewRow ==
  ASSUME MapInv, [Next]_vars, NEW i \in Ids, row[i] = None, row'[i] # None
  PROVE  /\ UNCHANGED kind
         /\ \E r \in Requests :
              \/ pc[r] = "insert" /\ Row2(i)' = Obj(local[r])
              \/ kind[Row2(i)'] = "output"
<1>0. TypeOK /\ Types
  BY DEF MapInv, Types
<1>1. row' # row
  OBVIOUS
<1>2. PICK r \in Requests :
        Arrive(r) \/ LookUp(r) \/ Call(r) \/ Store(r) \/ Finish(r)
  BY <1>1 DEF Next, vars, Complete, tables
<1>3. ~Arrive(r)
  BY <1>1 DEF Arrive, Upload, UploadFile, CreateMessageBatch, CreateResponse, UseId, tables
<1>4. ~LookUp(r)
  BY <1>1 DEF LookUp, Resolve, ResolveElsewhere, Unserved, NotFound, tables
<1>5. ~Call(r)
  BY <1>1 DEF Call, Create, CreateUnanswered, Refuse, Retrieve, Delete, tables
<1>6. ~Finish(r)
  BY <1>1 DEF Finish, Trace, TraceFails, Answer, Fail, tables
<1>7. Insert(r) \/ WrapInsert(r)
  BY <1>1, <1>2, <1>3, <1>4, <1>5, <1>6 DEF Store, Reuse, NotWrapped, Mark, tables
<1>8. UNCHANGED kind
  BY <1>7 DEF Insert, WrapInsert, upstreams
<1>9. Fits(local[r], pc[r]) /\ Relies(local[r], pc[r])
  BY DEF MapInv, Types
<1>10. ASSUME NEW j \in Ids, NEW t, NEW x, InsertRow(j, t, x),
              x = <<x[1], x[2]>>
       PROVE  Row2(i)' = x
  <2>1. i = j /\ row'[i] = RowOf(t, x)
    BY <1>0, <1>10 DEF InsertRow, TypeOK
  <2> QED
    BY <1>10, <2>1 DEF Row2, RowOf
<1>11. CASE Insert(r)
  <2>1. Object(r) = Obj(local[r]) /\ Object(r) = <<Object(r)[1], Object(r)[2]>>
    BY DEF Object, Obj
  <2> QED
    BY <1>8, <1>10, <1>11, <2>1 DEF Insert
<1>12. CASE WrapInsert(r)
  <2>1. OutputFile(r) = <<OutputFile(r)[1], OutputFile(r)[2]>>
    BY DEF OutputFile
  <2>2. kind[OutputFile(r)] = "output"
    BY <1>9, <1>12 DEF WrapInsert, Relies, OutputFile
  <2>3. Row2(i)' = OutputFile(r)
    BY <1>10, <1>12, <2>1 DEF WrapInsert
  <2> QED
    BY <1>8, <2>2, <2>3
<1> QED
  BY <1>7, <1>11, <1>12

LEMMA BillsOwn ==
  ASSUME ResultInv, NEW r \in Requests, ~Fault, Bills(local[r], pc[r]),
         Arrive(r) \/ LookUp(r) \/ Call(r) \/ Store(r) \/ Finish(r)
  PROVE  Bills(local[r], pc[r])'
<1> DEFINE old == local[r]
<1>0. /\ TypeOK /\ old \in Local
      /\ Fits(old, pc[r]) /\ Result(old, pc[r])
  BY DEF ResultInv, MapInv, Types, TypeOK
<1>1. ASSUME NEW l, NEW where \in {"idle", "resolve", "call", "mark", "wrap", "wrap_insert", "trace"},
             Goto(r, l, where)
      PROVE  Bills(local[r], pc[r])'
  BY <1>0, <1>1, GotoAlone DEF Bills
<1>2. ASSUME End(r)
      PROVE  Bills(local[r], pc[r])'
  BY <1>1, <1>2 DEF End
<1>3. CASE Arrive(r)
  <2>1. ASSUME NEW u, Upload(r, u) \/ CreateMessageBatch(r, u)
        PROVE  Bills(local[r], pc[r])'
    BY <1>1, <2>1 DEF Upload, CreateMessageBatch
  <2>2. ASSUME NEW i, NEW u, NEW v, CreateResponse(r, i, u, v)
        PROVE  Bills(local[r], pc[r])'
    BY <1>1, <2>2 DEF CreateResponse
  <2>3. ASSUME NEW o, NEW i, UseId(r, o, i)
        PROVE  Bills(local[r], pc[r])'
    BY <1>1, <2>3 DEF UseId
  <2> QED
    BY <1>3, <2>1, <2>2, <2>3 DEF Arrive, UploadFile
<1>4. CASE LookUp(r)
  <2>1. CASE Resolve(r)
    BY <1>1, <2>1 DEF Resolve
  <2>2. ASSUME NEW u, ResolveElsewhere(r, u)
        PROVE  Bills(local[r], pc[r])'
    BY <1>1, <2>2 DEF ResolveElsewhere
  <2> QED
    BY <1>2, <1>4, <2>1, <2>2 DEF LookUp, Unserved, NotFound
<1>5. CASE Call(r)
  <2>1. ASSUME NEW x \in Objects, Create(r, x)
        PROVE  Bills(local[r], pc[r])'
    <3> DEFINE l == [old EXCEPT !.original = x[2], !.next = None, !.needs = None]
    <3>1. l.op = old.op /\ l.file_id = old.file_id /\ pc[r] = "call"
      BY <1>0, <2>1 DEF Local, Create, MakesObject
    <3>2. Goto(r, l, IF l.op = "create_response" THEN "trace" ELSE "insert")
      BY <2>1, <3>1 DEF Create
    <3> HIDE DEF l
    <3>3. /\ local'[r] = l
          /\ pc'[r] = IF l.op = "create_response" THEN "trace" ELSE "insert"
      BY <1>0, <3>2, GotoAlone
    <3> QED
      BY <3>1, <3>3 DEF Bills
  <2>2. ASSUME TryNext(r)
        PROVE  Bills(local[r], pc[r])'
    BY <1>1, <1>2, <2>2 DEF TryNext
  <2>3. CASE Retrieve(r)
    BY <1>1, <2>3 DEF Retrieve
  <2>4. CASE Delete(r)
    <3>1. Goto(r, old, "mark")
      BY <1>0, <2>4 DEF Delete, Goto, TypeOK
    <3> QED
      BY <1>1, <3>1
  <2> QED
    BY <1>5, <2>1, <2>2, <2>3, <2>4 DEF Call, CreateUnanswered, Refuse
<1>6. CASE Store(r)
  <2>1. CASE Insert(r)
    <3>1. PICK i \in Ids :
            Goto(r, [old EXCEPT !.id = i],
                 IF old.op = "create_batch" THEN "trace" ELSE "answer")
      BY <2>1 DEF Insert
    <3>2. local'[r] = [old EXCEPT !.id = i] /\ pc'[r] \in {"trace", "answer"}
      BY <1>0, <3>1, GotoAlone
    <3>3. local'[r].file_id = old.file_id /\ old.file_id = None
      BY <1>0, <2>1, <3>2 DEF Local, Insert, Result
    <3> QED
      BY <3>2, <3>3 DEF Bills
  <2>2. CASE Reuse(r) \/ NotWrapped(r) \/ WrapInsert(r)
    BY <1>1, <2>2 DEF Reuse, NotWrapped, WrapInsert
  <2> QED
    BY <1>2, <1>6, <2>1, <2>2 DEF Store, Mark
<1>7. CASE Finish(r)
  <2>1. CASE Trace(r)
    <3>1. /\ local'[r] = old
          /\ pc'[r] \in {"insert", "answer"} /\ pc[r] = "trace"
      BY <1>0, <2>1, GotoAlone DEF Trace, AfterTrace
    <3>2. old.file_id # None => old.output # None
      BY <1>0 DEF Result
    <3>3. old.op = "create_response" \/ old.file_id # None => Obj(old) \in billed'
      BY <2>1, <3>2 DEF Trace, Object, Obj
    <3> QED
      BY <3>1, <3>3 DEF Bills, Obj
  <2> QED
    BY <1>2, <1>7, <2>1 DEF Finish, TraceFails, Answer, Fail
<1> QED
  BY <1>3, <1>4, <1>5, <1>6, <1>7

LEMMA BilledStep ==
  ASSUME ResultInv, Origins, Billed, [Next]_vars, ~Fault
  PROVE  Billed'
<1>0. /\ MapInv /\ TypeOK /\ Types /\ Grows /\ OutputsGrow
      /\ known \subseteq known' /\ billed \subseteq billed'
  BY StepGrows, KnownGrows DEF ResultInv, MapInv, Types
<1>1. ASSUME NEW i \in Ids, row'[i] # None, kind'[Row2(i)'] = "response"
      PROVE  Row2(i)' \in billed'
  <2>1. CASE row[i] # None
    <3>1. Row2(i)' = Row2(i) /\ kind'[Row2(i)] = kind[Row2(i)]
      BY <1>0, <2>1, KindKept DEF Row2
    <3> QED
      BY <1>0, <1>1, <2>1, <3>1 DEF Billed
  <2>2. CASE row[i] = None
    <3>1. PICK r \in Requests : pc[r] = "insert" /\ Row2(i)' = Obj(local[r])
      BY <1>0, <1>1, <2>2, NewRow
    <3>2. kind[Obj(local[r])] = "response"
      BY <1>0, <1>1, <2>2, <3>1, NewRow
    <3>3. local[r].op \in Creating /\ NewKind(local[r].op) = "response"
      BY <1>0, <3>1, <3>2 DEF MapInv, Relies, Holds
    <3>4. local[r].op = "create_response"
      BY <3>3 DEF Creating, NewKind
    <3> QED
      BY <1>0, <3>1, <3>4 DEF Billed, Bills
  <2> QED
    BY <2>1, <2>2
<1>2. ASSUME NEW i \in known', kind'[Row2(i)'] = "output"
      PROVE  OutputBilled(i)'
  <2>1. CASE i \in known
    <3>1. i \in Ids /\ row[i] # None
      BY <1>0, <2>1 DEF Origins, TypeOK
    <3>2. row'[i] = row[i] /\ Row2(i)' = Row2(i) /\ kind'[Row2(i)] = kind[Row2(i)]
      BY <1>0, <3>1, KindKept DEF Row2
    <3>3. PICK b \in billed : b[1] = Row2(i)[1] /\ output[b] = Row2(i)[2]
      BY <1>2, <2>1, <3>2 DEF Billed, OutputBilled
    <3>4. b \in Objects /\ output[b] # None
      <4>1. b \in Objects /\ row[i] \in Row
        BY <1>0, <3>1 DEF TypeOK
      <4>2. Row2(i)[2] \in Originals
        BY <4>1 DEF Row, Row2
      <4> QED
        BY <3>3, <4>1, <4>2, ResourceAssumption
    <3>5. b \in billed' /\ output'[b] = output[b]
      BY <1>0, <3>4 DEF OutputsGrow
    <3> QED
      BY <3>2, <3>3, <3>5 DEF OutputBilled
  <2>2. CASE i \notin known
    <3>1. PICK r \in Requests :
            /\ pc[r] = "answer"
            /\ UNCHANGED <<kind, output, row, billed>>
            /\ row[i] # None
            /\ \/ kind[Row2(i)] # "output"
               \/ local[r].file_id = i /\ i # None
      BY <2>2, Answered
    <3>2. local[r].file_id = i /\ i # None
      BY <1>2, <3>1 DEF Row2
    <3> DEFINE b == Obj(local[r])
    <3>3. b \in billed
      BY <3>1, <3>2 DEF Billed, Bills
    <3>4. output[b] = local[r].output /\ Names(i, <<local[r].at, local[r].output>>)
      BY <3>2 DEF ResultInv, Result
    <3>5. b[1] = Row2(i)[1] /\ output[b] = Row2(i)[2]
      BY <3>4 DEF Names, Row2, Obj
    <3> HIDE DEF b
    <3> QED
      BY <3>1, <3>3, <3>5 DEF OutputBilled, Row2
  <2> QED
    BY <2>1, <2>2
<1>3. ASSUME NEW s \in Requests
      PROVE  Bills(local[s], pc[s])'
  <2>0. Bills(local[s], pc[s])
    BY DEF Billed
  <2>1. CASE pc'[s] = pc[s] /\ local'[s] = local[s]
    BY <1>0, <2>0, <2>1 DEF Bills, Obj
  <2>2. ASSUME NEW r \in Requests,
               Arrive(r) \/ LookUp(r) \/ Call(r) \/ Store(r) \/ Finish(r)
        PROVE  Bills(local[s], pc[s])'
    <3>1. CASE r = s
      BY <2>0, <2>2, <3>1, BillsOwn
    <3>2. CASE r # s
      BY <1>0, <2>1, <2>2, <3>2, StepAlone DEF Alone
    <3> QED
      BY <3>1, <3>2
  <2> QED
    BY <2>1, <2>2 DEF Next, vars, Complete
<1> QED
  BY <1>1, <1>2, <1>3 DEF Billed

(***************************************************************************)
(* As long as nothing fails, a client learns the id of a response, or of a *)
(* batch's results, only after the usage was queued for billing, whatever  *)
(* the other requests do in between.                                       *)
(***************************************************************************)
THEOREM BilledCorrect == Spec => []BilledBeforeKnown
<1>1. Init => BillInv
  <2>1. ASSUME Init
        PROVE  Origins /\ Billed
    <3>1. /\ known = {} /\ \A i \in Ids : row[i] = None
          /\ \A r \in Requests : pc[r] = "idle" /\ local[r] = Blank
      BY <2>1 DEF Init
    <3>2. Blank.op \in Creating
      BY DEF Blank, Creating
    <3> QED
      BY <3>1, <3>2 DEF Origins, Origin, Billed, Bills
  <2> QED
    BY <2>1, ResultInit DEF BillInv
<1>2. BillInv /\ [Next]_vars => BillInv'
  <2> SUFFICES ASSUME BillInv, [Next]_vars
               PROVE  BillInv'
    OBVIOUS
  <2>1. ResultInv' /\ Origins'
    BY ResultStep, OriginsStep DEF BillInv
  <2>2. ASSUME faults' = 0
        PROVE  Billed'
    <3>1. TypeOK
      BY DEF BillInv, ResultInv, MapInv, Types
    <3>2. faults = 0 /\ ~Fault
      BY <2>2, <3>1, NoFaultYet
    <3> QED
      BY <3>2, BilledStep DEF BillInv
  <2> QED
    BY <2>1, <2>2 DEF BillInv
<1>3. BillInv => BilledBeforeKnown
  <2>1. BillInv => known \subseteq Ids
    BY DEF BillInv, ResultInv, MapInv, Types, TypeOK
  <2> QED
    BY <2>1 DEF BillInv, Origins, Billed, OutputBilled, BilledBeforeKnown
<1> QED
  BY <1>1, <1>2, <1>3, PTL DEF Spec
=============================================================================
