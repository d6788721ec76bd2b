---------------------------- MODULE CatalogProps ----------------------------
(***************************************************************************)
(* What the administration API keeps true of the catalog.                  *)
(***************************************************************************)
EXTENDS Catalog

PCs == {"idle", "lookup", "insertRow", "refresh", "findModel", "insertModel",
        "reload", "amend", "answer", "created", "probe", "writeUpstream",
        "writeModel", "done", "failed"}

OnUpstream == {"refresh", "amend", "writeUpstream"}
OnModel    == {"writeModel"}
Saving     == {"findModel", "insertModel", "reload", "answer", "created"}

\* What a request has found and read is of the kind its next step writes.
Holding(r) ==
  /\ pc[r] \in OnUpstream \cup Saving => on[r] \in Rows
  /\ pc[r] \in OnUpstream => read[r] \in Upstream
  /\ pc[r] = "probe" => on[r] \in Models /\ read[r] \in Upstream
  /\ pc[r] \in OnModel => on[r] \in Models /\ read[r] \in Model

\* The type invariant: among others, no column of a row is ever null.
TypeOK ==
  /\ upstreams \in [Rows -> {None} \cup Upstream]
  /\ models \in [Models -> {None} \cup Model]
  /\ pc \in [Requests -> PCs]
  /\ base \in [Requests -> Bases \cup {None}]
  /\ on \in [Requests -> Rows \cup Models \cup {None}]
  /\ read \in [Requests -> Upstream \cup {None} \cup Model]
  /\ offered \in [Requests -> SUBSET Names]
  /\ todo \in [Requests -> SUBSET Names]
  /\ answer \in [Requests -> SUBSET Names]
  /\ rowsAsked \in [Rows -> {None} \cup Upstream]
  /\ modelsAsked \in [Models -> {None} \cup Model]
  /\ lost \subseteq (Rows \cup Models) \X {"provider", "tags", "features", "price"}
  /\ defaulted \subseteq Rows
  /\ probed \subseteq Models \X Known \X Features
  /\ raced \subseteq Bases
  /\ \A r \in Requests : Holding(r)

(***************************************************************************)
(* Registering is an "upsert [of] the upstream (by api_base)"              *)
(* (openai/features.rs:167): an api_base has one row, unless two           *)
(* registrations of it both found none before either inserted.             *)
(***************************************************************************)
OneRowPerBase ==
  \A v, w \in Rows :
    upstreams[v] # None /\ Finds(upstreams[v].base, w) =>
      v = w \/ upstreams[v].base \in raced

(***************************************************************************)
(* A model that select_first_model finds for a provider and a feature was  *)
(* probed for that feature with that provider's client and reported it,    *)
(* however probes, provider changes and updates that write an older list   *)
(* of features back were interleaved.                                      *)
(***************************************************************************)
RoutedIsProbed ==
  \A m \in Models :
    models[m] # None =>
      LET p == upstreams[m[1]].provider
      IN  \A f \in models[m].features \cap FeaturesOf(p) : <<m, p, f>> \in probed

(***************************************************************************)
(* The answer 201 to a registration lists every model the upstream         *)
(* offered, also when an earlier registration failed half-way or another   *)
(* saved the same models meanwhile, unless the api_base has two rows.      *)
(***************************************************************************)
AnswerIsComplete ==
  \A r \in Requests :
    pc[r] = "created" => offered[r] \subseteq answer[r] \/ base[r] \in raced

(***************************************************************************)
(* Each column holds what was last asked for it - by a registration, a     *)
(* report, an update that gives it, a tag - with two exceptions: an update *)
(* that did not give it wrote an older value back; or the provider was     *)
(* left to its default by a registration that gave only tags or proxies    *)
(* and so reset it, or given as "openai" by one that took it for the       *)
(* default and so passed it over.  Otherwise registering an upstream again *)
(* leaves its provider, its tags and what is known of its models alone.    *)
(***************************************************************************)
AsAsked ==
  /\ \A w \in Rows :
       /\ upstreams[w] = None <=> rowsAsked[w] = None
       /\ upstreams[w] # None =>
            /\ \/ upstreams[w].provider = rowsAsked[w].provider
               \/ <<w, "provider">> \in lost
               \/ w \in defaulted
            /\ \/ upstreams[w].tags = rowsAsked[w].tags
               \/ <<w, "tags">> \in lost
  /\ \A m \in Models :
       /\ models[m] = None <=> modelsAsked[m] = None
       /\ models[m] # None =>
            \A f \in {"features", "price"} :
              models[m][f] = modelsAsked[m][f] \/ <<m, f>> \in lost
=============================================================================
