------------------------------- MODULE Catalog -------------------------------
(***************************************************************************)
(* The catalog of upstreams and their models, as the administration API    *)
(* changes it: registering an upstream by its api_base, which lists the    *)
(* upstream's models and saves them one by one; probing a model for the    *)
(* features its upstream's provider routes by; updating an upstream or a   *)
(* model; tagging.  Every request is a sequence of statements without a    *)
(* transaction, and requests interleave between any two of them.           *)
(*                                                                         *)
(* An update reads a row and then writes every column of it back.  Rows    *)
(* are never deleted and never change their api_base, so the read is one   *)
(* step with the lookups just before it.                                   *)
(***************************************************************************)
EXTENDS Integers, FiniteSets

CONSTANTS
  Requests,   \* requests to the administration API
  Rows,       \* ids of upstreams; bounds how many are inserted
  Bases,      \* values of api_base
  Names,      \* fullnames of models, in the order an upstream's are sorted in
  Providers,  \* values of provider, known or not
  Tags,
  Prices,     \* values of the columns of a model that an update can set
  Default,    \* what a new model has there
  Supported,  \* features whose probes may succeed
  None

VARIABLES
  upstreams,  \* llm_upstreams: row -> [base, provider, tags], or None
  models,     \* llm_models: <<row, name>> -> [features, price], or None
  pc,         \* the next step of each request
  base,       \* the api_base it registers
  on,         \* the upstream or the model it has found
  read,       \* the row it has read and will write back, or probe with
  offered,    \* the models the registered upstream listed
  todo,       \* those not saved yet
  answer,     \* those that the answer 201 lists
  rowsAsked,  \* history: upstreams, had every change set only its columns
  modelsAsked,\* history: models, likewise
  lost,       \* history: <<row or model, column>> overwritten by an old value
  defaulted,  \* history: rows whose provider a registration took the default for
  probed,     \* history: <<model, provider, feature>> of the stored reports
  raced       \* history: api_bases found missing by two requests at once

table   == <<upstreams, models>>
handler == <<pc, base, on, read, offered, todo, answer>>
history == <<rowsAsked, modelsAsked, lost, defaulted, probed, raced>>
vars    == <<table, handler, history>>

Models == Rows \X Names

\* What the columns of a row hold, the api_key, proxies and description aside.
Upstream == [base : Bases, provider : Providers, tags : SUBSET Tags]

\* mutant: both providers name a feature alike
FeaturesShared(p) ==
  IF p = "openai" THEN {"chat/completions", "messages"} ELSE {"messages"}

\* What the probes of a provider can report; there are none of an unknown one.
FeaturesOf(p) ==
  CASE p = "openai"    -> {"chat/completions", "images", "embeddings",
                           "audio/speech", "responses"}
    [] p = "anthropic" -> {"messages", "files", "messages/batches"}
    [] OTHER           -> {}

Known == {"openai", "anthropic"}

Features == UNION {FeaturesOf(p) : p \in Known}

Model == [features : SUBSET Features, price : Prices]

ASSUME CatalogAssumption ==
  /\ Names \subseteq Nat
  /\ Default \in Prices
  /\ Known \subseteq Providers
  /\ None \notin Providers
  /\ None \notin Prices
  /\ \A s \in SUBSET Tags : None # s
  /\ None \notin Upstream
  /\ None \notin Model

\* The columns an update can give, None where it does not give one.
Changes ==
  [provider : Providers \cup {None}, tags : {None} \cup SUBSET Tags,
   features : {None}, price : Prices \cup {None}]

RowChanges == {c \in Changes : c.price = None}

ModelChanges == {c \in Changes : c.provider = None /\ c.tags = None}

NoChange ==
  [provider |-> None, tags |-> None, features |-> None, price |-> None]

\* mutant: a new upstream is stored without a provider
NewUpstreamBare(b) == [base |-> b, provider |-> None, tags |-> {}]

NewUpstream(b) == [base |-> b, provider |-> "openai", tags |-> {}]

NewModel == [features |-> {}, price |-> Default]

(***************************************************************************)
(* Some upstreams are there, each with some of its models, as              *)
(* registrations one after the other leave them.                           *)
(***************************************************************************)
Init ==
  /\ upstreams \in [Rows -> {None} \cup {NewUpstream(b) : b \in Bases}]
  /\ \A v, w \in Rows : upstreams[v] = upstreams[w] => v = w \/ upstreams[v] = None
  /\ models \in [Models -> {None, NewModel}]
  /\ \A m \in Models : upstreams[m[1]] = None => models[m] = None
  /\ pc = [r \in Requests |-> "idle"]
  /\ base = [r \in Requests |-> None]
  /\ on = [r \in Requests |-> None]
  /\ read = [r \in Requests |-> None]
  /\ offered = [r \in Requests |-> {}]
  /\ todo = [r \in Requests |-> {}]
  /\ answer = [r \in Requests |-> {}]
  /\ rowsAsked = upstreams
  /\ modelsAsked = models
  /\ lost = {}
  /\ defaulted = {}
  /\ probed = {}
  /\ raced = {}

To(r, step) == pc' = [pc EXCEPT ![r] = step]

\* The handler returns, and what it held is gone.
Leave(r, step) ==
  /\ To(r, step)
  /\ base' = [base EXCEPT ![r] = None]
  /\ on' = [on EXCEPT ![r] = None]
  /\ read' = [read EXCEPT ![r] = None]
  /\ offered' = [offered EXCEPT ![r] = {}]
  /\ todo' = [todo EXCEPT ![r] = {}]
  /\ UNCHANGED answer

Finds(b, w) == upstreams[w] # None /\ upstreams[w].base = b

-----------------------------------------------------------------------------
(***************************************************************************)
(* Reading a row to write it back.  What a request gives is chosen where   *)
(* it is written, as nothing looks at it before.                           *)
(***************************************************************************)
Holds(r, o, row) ==
  /\ on' = [on EXCEPT ![r] = o]
  /\ read' = [read EXCEPT ![r] = row]

Given(new, old) == IF new = None THEN old ELSE new

\* mutant: an update that gives no tags clears them
MergedClearing(c, row) ==
  [base |-> row.base, provider |-> Given(c.provider, row.provider),
   tags |-> Given(c.tags, {})]

Merged(c, row) ==
  [base |-> row.base, provider |-> Given(c.provider, row.provider),
   tags |-> Given(c.tags, row.tags)]

Priced(c, model) == [model EXCEPT !.price = Given(c.price, @)]

\* Of the columns of o, those that c gives are right again, and the others are
\* lost where the row read is no longer what they hold.
Losing(o, c, was, now, columns) ==
  (lost \ {<<o, f>> : f \in {g \in columns : c[g] # None}})
    \cup {<<o, f>> : f \in {g \in columns : c[g] = None /\ was[g] # now[g]}}

\* Writes c to the row of r, which asks for `asked`.  The two differ where the
\* request leaves the provider to the default.
WriteRow(r, asked, c) ==
  LET w == on[r]
  IN  /\ upstreams' = [upstreams EXCEPT ![w] = Merged(c, read[r])]
      /\ rowsAsked' = [rowsAsked EXCEPT
                          ![w].provider = Given(asked.provider, @),
                          ![w].tags = Given(asked.tags, @)]
      /\ lost' = Losing(w, asked, read[r], upstreams[w],
                        {f \in {"provider", "tags"} : c[f] = asked[f]})
      /\ defaulted' = IF asked.provider # None THEN defaulted \ {w}
                      ELSE IF c.provider \in {None, upstreams[w].provider} THEN defaulted
                      ELSE defaulted \cup {w}
      /\ UNCHANGED <<models, modelsAsked, probed, raced>>

-----------------------------------------------------------------------------
(***************************************************************************)
(* POST /upstreams: list the models of the upstream, look its row up,      *)
(* refresh it or insert one, save the models, fetch the row again, amend   *)
(* it, list its models.  The provider defaults to "openai", and what was   *)
(* given cannot be told from the default: the row is amended if the        *)
(* provider is another, or with tags or proxies; then the provider is      *)
(* always written, tags and proxies only if they were given.               *)
(***************************************************************************)
Register(r) ==
  /\ pc[r] = "idle"
  /\ \E b \in Bases, ns \in SUBSET Names :
       /\ base' = [base EXCEPT ![r] = b]
       /\ offered' = [offered EXCEPT ![r] = ns]
       /\ todo' = [todo EXCEPT ![r] = ns]
  /\ To(r, "lookup")
  /\ UNCHANGED <<table, on, read, answer, history>>

FindRow(r) ==
  /\ pc[r] = "lookup"
  /\ \E w \in Rows :
       /\ Finds(base[r], w)
       /\ Holds(r, w, upstreams[w])
  /\ To(r, "refresh")
  /\ UNCHANGED <<table, base, offered, todo, answer, history>>

\* mutant: registering inserts a row whether or not there is one
FindNothing(r) ==
  /\ pc[r] = "lookup"
  /\ To(r, "insertRow")
  /\ UNCHANGED <<table, base, on, read, offered, todo, answer, history>>

\* No unique index backs the lookup: two requests may both find no row.
FindNoRow(r) ==
  /\ pc[r] = "lookup"
  /\ ~\E w \in Rows : Finds(base[r], w)
  /\ raced' = IF \E q \in Requests : pc[q] = "insertRow" /\ base[q] = base[r]
              THEN raced \cup {base[r]} ELSE raced
  /\ To(r, "insertRow")
  /\ UNCHANGED <<table, base, on, read, offered, todo, answer,
                 rowsAsked, modelsAsked, lost, defaulted, probed>>

\* mutant: the loop over the listed models stops one short
SavedButOne(names) ==
  IF \A m, n \in names : m = n THEN "reload" ELSE "findModel"

Saved(names) == IF names = {} THEN "reload" ELSE "findModel"

InsertRow(r) ==
  /\ pc[r] = "insertRow"
  /\ \E w \in Rows :
       /\ upstreams[w] = None
       /\ upstreams' = [upstreams EXCEPT ![w] = NewUpstream(base[r])]
       /\ rowsAsked' = [rowsAsked EXCEPT ![w] = NewUpstream(base[r])]
       /\ on' = [on EXCEPT ![r] = w]
  /\ To(r, Saved(todo[r]))
  /\ UNCHANGED <<models, base, read, offered, todo, answer,
                 modelsAsked, lost, defaulted, probed, raced>>

Refresh(r) ==
  /\ pc[r] = "refresh"
  /\ WriteRow(r, NoChange, NoChange)
  /\ To(r, Saved(todo[r]))
  /\ Holds(r, on[r], None)
  /\ UNCHANGED <<base, offered, todo, answer>>

IsNext(r, n) == n \in todo[r] /\ \A k \in todo[r] : n <= k

Done(r, n) ==
  /\ todo' = [todo EXCEPT ![r] = @ \ {n}]
  /\ To(r, Saved(todo[r] \ {n}))

FindModel(r) ==
  /\ pc[r] = "findModel"
  /\ \E n \in Names :
       /\ IsNext(r, n)
       /\ \/ models[<<on[r], n>>] # None /\ Done(r, n)
          \/ models[<<on[r], n>>] = None /\ To(r, "insertModel") /\ UNCHANGED todo
  /\ UNCHANGED <<table, base, on, read, offered, answer, history>>

\* The index on (upstream_id, fullname) makes the second of two inserts fail.
InsertModel(r) ==
  /\ pc[r] = "insertModel"
  /\ \E n \in Names :
       /\ IsNext(r, n)
       /\ \/ /\ models[<<on[r], n>>] = None
             /\ models' = [models EXCEPT ![<<on[r], n>>] = NewModel]
             /\ modelsAsked' = [modelsAsked EXCEPT ![<<on[r], n>>] = NewModel]
             /\ Done(r, n)
             /\ UNCHANGED <<base, on, read, offered, answer>>
          \/ /\ models[<<on[r], n>>] # None
             /\ Leave(r, "failed")
             /\ UNCHANGED <<models, modelsAsked>>
  /\ UNCHANGED <<upstreams, rowsAsked, lost, defaulted, probed, raced>>

\* What the deserialized request holds: serde fills in the provider.
Filled(c) == [c EXCEPT !.provider = Given(@, "openai")]

\* The lookup by api_base returns any of the rows that have it.
Reload(r) ==
  /\ pc[r] = "reload"
  /\ \E w \in Rows :
       /\ Finds(base[r], w)
       /\ Holds(r, w, upstreams[w])
  /\ To(r, "amend")
  /\ UNCHANGED <<table, base, offered, todo, answer, history>>

Amend(r) ==
  /\ pc[r] = "amend"
  /\ \E c \in RowChanges, proxies \in BOOLEAN :
       /\ c.tags # {}
       /\ Filled(c).provider # "openai" \/ c.tags # None \/ proxies
       /\ WriteRow(r, c, Filled(c))
  /\ To(r, "answer")
  /\ Holds(r, on[r], None)
  /\ UNCHANGED <<base, offered, todo, answer>>

\* There is nothing to amend, or "openai" alone, which passes for the default.
PassOver(r) ==
  /\ pc[r] = "reload"
  /\ \E w \in Rows, p \in {None, "openai"} :
       /\ Finds(base[r], w)
       /\ Holds(r, w, None)
       /\ defaulted' = IF p \in {None, upstreams[w].provider} THEN defaulted
                       ELSE defaulted \cup {w}
  /\ To(r, "answer")
  /\ UNCHANGED <<table, base, offered, todo, answer, rowsAsked, modelsAsked, lost,
                 probed, raced>>

Answer(r) ==
  /\ pc[r] = "answer"
  /\ answer' = [answer EXCEPT ![r] = {n \in Names : models[<<on[r], n>>] # None}]
  /\ To(r, "created")
  /\ UNCHANGED <<table, base, on, read, offered, todo, history>>

-----------------------------------------------------------------------------
(***************************************************************************)
(* POST /models/{id}/tests.  An unknown provider is refused.  The report   *)
(* of the probes, one call after the other, is stored when all are in.     *)
(***************************************************************************)
Test(r) ==
  /\ pc[r] = "idle"
  /\ \E m \in Models :
       /\ models[m] # None
       /\ upstreams[m[1]].provider \in Known
       /\ Holds(r, m, upstreams[m[1]])
  /\ To(r, "probe")
  /\ UNCHANGED <<table, base, offered, todo, answer, history>>

StoreFeatures(r) ==
  LET m == on[r]
      p == read[r].provider
  IN  /\ pc[r] = "probe"
      /\ \E fs \in SUBSET (FeaturesOf(p) \cap Supported) :
           /\ models' = [models EXCEPT ![m].features = fs]
           /\ modelsAsked' = [modelsAsked EXCEPT ![m].features = fs]
           /\ probed' = probed \cup {<<m, p, f>> : f \in fs}
      /\ lost' = lost \ {<<m, "features">>}
      /\ Leave(r, "done")
      /\ UNCHANGED <<upstreams, rowsAsked, defaulted, raced>>

-----------------------------------------------------------------------------
(***************************************************************************)
(* PUT /upstreams/{id} and PUT /models/{id}.                               *)
(***************************************************************************)
ReadUpstream(r) ==
  /\ pc[r] = "idle"
  /\ \E w \in Rows : upstreams[w] # None /\ Holds(r, w, upstreams[w])
  /\ To(r, "writeUpstream")
  /\ UNCHANGED <<table, base, offered, todo, answer, history>>

WriteUpstream(r) ==
  /\ pc[r] = "writeUpstream"
  /\ \E c \in RowChanges : WriteRow(r, c, c)
  /\ Leave(r, "done")

ReadModel(r) ==
  /\ pc[r] = "idle"
  /\ \E m \in Models : models[m] # None /\ Holds(r, m, models[m])
  /\ To(r, "writeModel")
  /\ UNCHANGED <<table, base, offered, todo, answer, history>>

WriteModel(r) ==
  LET m == on[r]
  IN  /\ pc[r] = "writeModel"
      /\ \E c \in ModelChanges :
           /\ models' = [models EXCEPT ![m] = Priced(c, read[r])]
           /\ modelsAsked' = [modelsAsked EXCEPT ![m] = Priced(c, @)]
           /\ lost' = Losing(m, c, read[r], models[m], {"features", "price"})
      /\ Leave(r, "done")
      /\ UNCHANGED <<upstreams, rowsAsked, defaulted, probed, raced>>

(***************************************************************************)
(* POST and DELETE /upstreams/{id}/tags: one statement each.               *)
(***************************************************************************)
Retag(r, w, more, less) ==
  /\ pc[r] = "idle"
  /\ upstreams[w] # None
  /\ upstreams' = [upstreams EXCEPT ![w].tags = (@ \cup more) \ less]
  /\ rowsAsked' = [rowsAsked EXCEPT ![w].tags = (@ \cup more) \ less]
  /\ Leave(r, "done")
  /\ UNCHANGED <<models, modelsAsked, lost, defaulted, probed, raced>>

AddTag(r) == \E w \in Rows, t \in Tags : Retag(r, w, {t}, {})

RemoveTag(r) == \E w \in Rows, t \in Tags : Retag(r, w, {}, {t})

-----------------------------------------------------------------------------
\* A statement fails.  That of a second update is logged and passed over.
Fail(r) ==
  /\ pc[r] \notin {"idle", "created", "done", "failed"}
  /\ \/ /\ pc[r] = "amend"
        /\ To(r, "answer")
        /\ Holds(r, on[r], None)
        /\ UNCHANGED <<base, offered, todo, answer>>
     \/ /\ pc[r] # "amend"
        /\ Leave(r, "failed")
  /\ UNCHANGED <<table, history>>

Step(r) ==
  \/ Register(r) \/ FindRow(r) \/ FindNoRow(r) \/ InsertRow(r) \/ Refresh(r)
  \/ FindModel(r) \/ InsertModel(r) \/ Reload(r) \/ PassOver(r)
  \/ Amend(r) \/ Answer(r)
  \/ Test(r) \/ StoreFeatures(r)
  \/ ReadUpstream(r) \/ WriteUpstream(r) \/ ReadModel(r) \/ WriteModel(r)
  \/ AddTag(r) \/ RemoveTag(r)
  \/ Fail(r)

Next == \E r \in Requests : Step(r)

Spec == Init /\ [][Next]_vars
=============================================================================
