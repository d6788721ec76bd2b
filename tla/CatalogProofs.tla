---------------------------- MODULE CatalogProofs ----------------------------
(***************************************************************************)
(* The properties of the catalog, proved for any number of requests, rows, *)
(* api_bases and models.                                                   *)
(***************************************************************************)
EXTENDS CatalogProps, TLAPS

Registering == {"lookup", "insertRow", "refresh", "findModel", "insertModel",
                "reload", "amend", "answer", "created"}

(***************************************************************************)
(* What a request will write back is there, and its api_base is still what *)
(* it was read as.                                                         *)
(***************************************************************************)
Alive ==
  /\ \A w \in Rows : upstreams[w] = None <=> rowsAsked[w] = None
  /\ \A m \in Models :
       /\ models[m] = None <=> modelsAsked[m] = None
       /\ models[m] # None => upstreams[m[1]] # None
  /\ \A r \in Requests :
       /\ pc[r] \in Registering => base[r] \in Bases
       /\ pc[r] \in OnUpstream => Finds(read[r].base, on[r])
       /\ pc[r] \in {"refresh", "findModel", "insertModel", "reload", "amend", "answer"} =>
            Finds(base[r], on[r])
       /\ pc[r] \in {"probe", "writeModel"} => models[on[r]] # None

(***************************************************************************)
(* A request about to insert a row is alone in it and there is no row yet. *)
(***************************************************************************)
MissingOnce ==
  \A r \in Requests :
    pc[r] = "insertRow" =>
      \/ base[r] \in raced
      \/ /\ \A w \in Rows : ~Finds(base[r], w)
         /\ \A q \in Requests : pc[q] = "insertRow" /\ base[q] = base[r] => q = r

HasAll(w, names) == \A n \in names : models[<<w, n>>] # None

(***************************************************************************)
(* How far a registration has come with the models it listed.              *)
(***************************************************************************)
SavedAt(r) ==
  /\ pc[r] \in {"lookup", "insertRow", "refresh"} => todo[r] = offered[r]
  /\ pc[r] \in {"findModel", "insertModel"} => HasAll(on[r], offered[r] \ todo[r])
  /\ pc[r] = "reload" => HasAll(on[r], offered[r])
  /\ pc[r] \in {"amend", "answer"} => base[r] \in raced \/ HasAll(on[r], offered[r])
  /\ pc[r] = "created" => base[r] \in raced \/ offered[r] \subseteq answer[r]

SavedSoFar == \A r \in Requests : SavedAt(r)

(***************************************************************************)
(* A feature of a model, and of a model about to be written back, was      *)
(* reported by a probe of the one provider that has a feature of the name. *)
(***************************************************************************)
Reported(m, model) ==
  \A p \in Known : \A f \in model.features \cap FeaturesOf(p) : <<m, p, f>> \in probed

AllReported ==
  /\ \A m \in Models : models[m] # None => Reported(m, models[m])
  /\ \A r \in Requests : pc[r] = "writeModel" => Reported(on[r], read[r])

Inv == TypeOK /\ Alive

LEMMA InitInv == Init => Inv
BY CatalogAssumption DEF Init, Inv, TypeOK, Alive, Holding, PCs,
   NewUpstream, NewModel, Upstream, Model, Models, Known, Finds, OnUpstream, OnModel,
   Saving, Registering

Tables ==
  /\ upstreams \in [Rows -> {None} \cup Upstream]
  /\ models \in [Models -> {None} \cup Model]
  /\ rowsAsked \in [Rows -> {None} \cup Upstream]
  /\ modelsAsked \in [Models -> {None} \cup Model]
  /\ lost \subseteq (Rows \cup Models) \X {"provider", "tags", "features", "price"}
  /\ defaulted \subseteq Rows
  /\ probed \subseteq Models \X Known \X Features
  /\ raced \subseteq Bases

Locals ==
  /\ pc \in [Requests -> PCs]
  /\ base \in [Requests -> Bases \cup {None}]
  /\ on \in [Requests -> Rows \cup Models \cup {None}]
  /\ read \in [Requests -> Upstream \cup {None} \cup Model]
  /\ offered \in [Requests -> SUBSET Names]
  /\ todo \in [Requests -> SUBSET Names]
  /\ answer \in [Requests -> SUBSET Names]

\* Writes to a row it has read what it asks for, or that and the default provider.
Writes(r) ==
  /\ pc[r] \in OnUpstream
  /\ \E asked \in Changes : \E c \in {asked, Filled(asked)} : WriteRow(r, asked, c)

LEMMA Writers ==
  ASSUME NEW r, Refresh(r) \/ Amend(r) \/ WriteUpstream(r)
  PROVE  Writes(r)
<1>1. NoChange \in Changes
  BY DEF NoChange, Changes
<1>2. CASE Refresh(r)
  BY <1>1, <1>2 DEF Refresh, Writes, OnUpstream
<1>3. CASE Amend(r)
  BY <1>3 DEF Amend, RowChanges, Writes, OnUpstream
<1>4. CASE WriteUpstream(r)
  BY <1>4 DEF WriteUpstream, RowChanges, Writes, OnUpstream
<1> QED
  BY <1>2, <1>3, <1>4

LEMMA FilledType ==
  ASSUME NEW asked \in Changes, NEW c \in {asked, Filled(asked)}
  PROVE  /\ c \in Changes
         /\ c.tags = asked.tags
         /\ c.provider = asked.provider \/ (asked.provider = None /\ c.provider = "openai")
<1>1. CASE c = asked
  BY <1>1
<1>2. CASE c = Filled(asked)
  <2>1. "openai" \in Providers
    BY CatalogAssumption DEF Known
  <2>2. /\ c \in Changes /\ c.tags = asked.tags
        /\ c.provider = IF asked.provider = None THEN "openai" ELSE asked.provider
    BY <1>2, <2>1 DEF Changes, Filled, Given
  <2> QED
    BY <2>2
<1> QED
  BY <1>1, <1>2

LEMMA WriteRowTables ==
  ASSUME Tables, Locals, Alive, NEW r \in Requests, Holding(r), Writes(r)
  PROVE  Tables'
<1> USE CatalogAssumption
<1> PICK asked \in Changes : \E c \in {asked, Filled(asked)} : WriteRow(r, asked, c)
  BY DEF Writes
<1> PICK c \in {asked, Filled(asked)} : WriteRow(r, asked, c)
  OBVIOUS
<1> DEFINE w == on[r]
<1>1. /\ w \in Rows
      /\ read[r] \in Upstream
      /\ c \in Changes
      /\ rowsAsked[w] \in Upstream
  BY FilledType DEF Writes, Holding, Locals, Alive, Finds, Tables
<1>2. Merged(c, read[r]) \in Upstream
  BY <1>1 DEF Merged, Given, Upstream, Changes
<1>3. rowsAsked' \in [Rows -> {None} \cup Upstream]
  BY <1>1 DEF WriteRow, Given, Upstream, Changes, Tables
<1>4. lost' \subseteq (Rows \cup Models) \X {"provider", "tags", "features", "price"}
  BY <1>1 DEF WriteRow, Losing, Tables
<1>5. defaulted' \subseteq Rows
  BY <1>1 DEF WriteRow, Tables
<1> QED
  BY <1>1, <1>2, <1>3, <1>4, <1>5 DEF WriteRow, Tables

LEMMA TypeStep == Inv /\ [Next]_vars => TypeOK'
<1> SUFFICES ASSUME Inv, [Next]_vars PROVE TypeOK'
  OBVIOUS
<1> USE CatalogAssumption DEF To, table, handler, history
<1>0. CASE UNCHANGED vars
  BY <1>0 DEF vars, Inv, TypeOK, Holding
<1>1. SUFFICES ASSUME NEW r \in Requests, Step(r) PROVE TypeOK'
  BY <1>0 DEF Next
<1>t. Tables /\ Locals /\ (\A q \in Requests : Holding(q)) /\ Alive
  BY DEF Inv, TypeOK, Tables, Locals
<1>2. CASE Register(r)
  BY <1>2 DEF Inv, Register, TypeOK, Alive, Holding, Holds, Leave, Finds, PCs, Saving, Saved, Done, IsNext, OnUpstream, OnModel, Registering, Models
<1>3. CASE FindRow(r)
  BY <1>3 DEF Inv, FindRow, TypeOK, Alive, Holding, Holds, Leave, Finds, PCs, Saving, Saved, Done, IsNext, OnUpstream, OnModel, Registering, Models
<1>4. CASE FindNoRow(r)
  BY <1>4 DEF Inv, FindNoRow, TypeOK, Alive, Holding, Holds, Leave, Finds, PCs, Saving, Saved, Done, IsNext, OnUpstream, OnModel, Registering, Models
<1>5. CASE InsertRow(r)
  <2>1. Tables'
    <3>1. PICK w \in Rows : upstreams' = [upstreams EXCEPT ![w] = NewUpstream(base[r])]
                          /\ rowsAsked' = [rowsAsked EXCEPT ![w] = NewUpstream(base[r])]
      BY <1>5 DEF InsertRow
    <3>2. NewUpstream(base[r]) \in Upstream
      BY <1>5, <1>t DEF InsertRow, Alive, Registering, NewUpstream, Upstream, Known
    <3>3. UNCHANGED <<models, modelsAsked, lost, defaulted, probed, raced>>
      BY <1>5 DEF InsertRow
    <3> QED
      BY <1>t, <3>1, <3>2, <3>3 DEF Tables
  <2>2. Locals'
    BY <1>5, <1>t DEF InsertRow, Locals, Leave, Holds, Done, Saved, PCs, Tables, Finds
  <2>3. ASSUME NEW q \in Requests PROVE Holding(q)'
    BY <1>5, <1>t DEF InsertRow, Retag, Locals, Tables, Holding, Leave, Holds, Done, Saved, OnUpstream, OnModel, Saving, Finds
  <2> QED
    BY <2>1, <2>2, <2>3 DEF TypeOK, Tables, Locals
<1>6. CASE Refresh(r)
  <2>1. Tables'
    BY <1>6, <1>t, WriteRowTables, Writers
  <2>2. Locals'
    BY <1>6, <1>t DEF Refresh, Locals, Leave, Holds, Done, Saved, PCs, Tables, Finds
  <2>3. ASSUME NEW q \in Requests PROVE Holding(q)'
    BY <1>6, <1>t DEF Refresh, Retag, Locals, Tables, Holding, Leave, Holds, Done, Saved, OnUpstream, OnModel, Saving, Finds
  <2> QED
    BY <2>1, <2>2, <2>3 DEF TypeOK, Tables, Locals
<1>7. CASE FindModel(r)
  <2>1. Tables'
    BY <1>7, <1>t DEF FindModel, Tables
  <2>2. Locals'
    BY <1>7, <1>t DEF FindModel, Locals, Leave, Holds, Done, Saved, PCs, Tables, Finds
  <2>3. ASSUME NEW q \in Requests PROVE Holding(q)'
    BY <1>7, <1>t DEF FindModel, Retag, Locals, Tables, Holding, Leave, Holds, Done, Saved, OnUpstream, OnModel, Saving, Finds
  <2> QED
    BY <2>1, <2>2, <2>3 DEF TypeOK, Tables, Locals
<1>8. CASE InsertModel(r)
  <2>1. Tables'
    <3>1. NewModel \in Model
      BY DEF NewModel, Model
    <3>2. UNCHANGED <<upstreams, rowsAsked, lost, defaulted, probed, raced>>
      BY <1>8 DEF InsertModel
    <3> QED
      BY <1>8, <1>t, <3>1, <3>2 DEF InsertModel, Tables
  <2>2. Locals'
    <3>1. CASE \E p \in PCs : Leave(r, p)
      BY <1>t, <3>1 DEF Locals, Leave
    <3>2. CASE ~\E p \in PCs : Leave(r, p)
      <4>1. /\ pc' \in [Requests -> PCs]
            /\ todo' \in [Requests -> SUBSET Names]
        BY <1>8, <1>t, <3>2 DEF InsertModel, Locals, Done, Saved, PCs
      <4>2. UNCHANGED <<base, offered, answer>>
        BY <1>8, <3>2 DEF InsertModel, PCs
      <4>3. /\ on' \in [Requests -> Rows \cup Models \cup {None}]
            /\ read' \in [Requests -> Upstream \cup {None} \cup Model]
        BY <1>8, <1>t, <3>2 DEF InsertModel, Locals, Holds, PCs
      <4> QED
        BY <1>t, <4>1, <4>2, <4>3 DEF Locals
    <3> QED
      BY <3>1, <3>2
  <2>3. ASSUME NEW q \in Requests PROVE Holding(q)'
    BY <1>8, <1>t DEF InsertModel, Retag, Locals, Tables, Holding, Leave, Holds, Done, Saved, OnUpstream, OnModel, Saving, Finds
  <2> QED
    BY <2>1, <2>2, <2>3 DEF TypeOK, Tables, Locals
<1>9. CASE Reload(r)
  <2>h. PICK o \in Rows \cup Models, row \in Upstream \cup {None} \cup Model :
          Holds(r, o, row)
    BY <1>9, <1>t DEF Reload, Tables, Models
  <2>1. Tables'
    BY <1>9, <1>t DEF Reload, Tables
  <2>2. Locals'
    BY <1>9, <1>t, <2>h DEF Reload, Holds, Locals, PCs
  <2>3. ASSUME NEW q \in Requests PROVE Holding(q)'
    <3>1. CASE q = r
      <4>1. PICK w \in Rows : /\ Finds(base[r], w)
                              /\ on'[r] = w
                              /\ read'[r] = upstreams[w] /\ pc'[r] = "amend"
        BY <1>9, <1>t DEF Reload, Holds, Locals
      <4>2. upstreams[w] \in Upstream
        BY <1>t, <4>1 DEF Tables, Finds
      <4> QED
        BY <3>1, <4>1, <4>2 DEF Holding, OnUpstream, OnModel, Saving
    <3>2. CASE q # r
      BY <1>9, <1>t, <3>2 DEF Reload, Holds, Holding, Locals
    <3> QED
      BY <3>1, <3>2
  <2> QED
    BY <2>1, <2>2, <2>3 DEF TypeOK, Tables, Locals
<1>9p. CASE PassOver(r)
  <2>h. PICK w \in Rows : Holds(r, w, None)
    BY <1>9p DEF PassOver
  <2>1. Tables'
    BY <1>9p, <1>t DEF PassOver, Tables
  <2>2. Locals'
    BY <1>9p, <1>t, <2>h DEF PassOver, Holds, Locals, PCs
  <2>3. ASSUME NEW q \in Requests PROVE Holding(q)'
    BY <1>9p, <1>t, <2>h DEF PassOver, Holds, Holding, Locals, OnUpstream, OnModel, Saving
  <2> QED
    BY <2>1, <2>2, <2>3 DEF TypeOK, Tables, Locals
<1>10. CASE Amend(r)
  <2>1. Tables'
    BY <1>10, <1>t, WriteRowTables, Writers
  <2>2. Locals'
    BY <1>10, <1>t DEF Amend, Locals, Leave, Holds, Done, Saved, PCs, Tables, Finds
  <2>3. ASSUME NEW q \in Requests PROVE Holding(q)'
    BY <1>10, <1>t DEF Amend, Retag, Locals, Tables, Holding, Leave, Holds, Done, Saved, OnUpstream, OnModel, Saving, Finds
  <2> QED
    BY <2>1, <2>2, <2>3 DEF TypeOK, Tables, Locals
<1>11. CASE Answer(r)
  BY <1>11 DEF Inv, Answer, TypeOK, Alive, Holding, Holds, Leave, Finds, PCs, Saving, Saved, Done, IsNext, OnUpstream, OnModel, Registering, Models
<1>12. CASE Test(r)
  <2>h. PICK o \in Rows \cup Models, row \in Upstream \cup {None} \cup Model :
          Holds(r, o, row)
    BY <1>12, <1>t DEF Test, Tables, Models
  <2>1. Tables'
    BY <1>12, <1>t DEF Test, Tables
  <2>2. Locals'
    BY <1>12, <1>t, <2>h DEF Test, Holds, Locals, PCs
  <2>3. ASSUME NEW q \in Requests PROVE Holding(q)'
    <3>1. CASE q = r
      <4>1. on'[r] \in Models /\ read'[r] \in Upstream /\ pc'[r] = "probe"
        <5>1. PICK m \in Models : /\ models[m] # None
                                  /\ Holds(r, m, upstreams[m[1]])
          BY <1>12 DEF Test
        <5>2. m[1] \in Rows /\ upstreams[m[1]] \in Upstream
          BY <1>t, <5>1 DEF Alive, Tables, Models
        <5> QED
          BY <1>12, <1>t, <5>1, <5>2 DEF Test, Holds, Locals
      <4> QED
        BY <3>1, <4>1 DEF Holding, OnUpstream, OnModel, Saving
    <3>2. CASE q # r
      BY <1>12, <1>t, <3>2 DEF Test, Holds, Holding, Locals
    <3> QED
      BY <3>1, <3>2
  <2> QED
    BY <2>1, <2>2, <2>3 DEF TypeOK, Tables, Locals
<1>13. CASE StoreFeatures(r)
  <2>1. Tables'
    <3> DEFINE m == on[r]
               p == read[r].provider
    <3>1. /\ m \in Models
          /\ models[m] \in Model
          /\ modelsAsked[m] \in Model
      BY <1>13, <1>t DEF StoreFeatures, Holding, Alive, Tables
    <3>2. PICK fs \in SUBSET (FeaturesOf(p) \cap Supported) :
             /\ models' = [models EXCEPT ![m].features = fs]
             /\ modelsAsked' = [modelsAsked EXCEPT ![m].features = fs]
             /\ probed' = probed \cup {<<m, p, f>> : f \in fs}
      BY <1>13 DEF StoreFeatures
    <3>3. p \in Known \/ fs = {}
      BY <3>2 DEF FeaturesOf, Known
    <3>4. fs \subseteq Features
      BY <3>2, <3>3 DEF Features
    <3>5. /\ models' \in [Models -> {None} \cup Model]
          /\ modelsAsked' \in [Models -> {None} \cup Model]
      BY <1>t, <3>1, <3>2, <3>4 DEF Tables, Model
    <3>6. probed' \subseteq Models \X Known \X Features
      BY <1>t, <3>1, <3>2, <3>3, <3>4 DEF Tables
    <3>7. lost' \subseteq lost /\ UNCHANGED <<upstreams, rowsAsked, defaulted, raced>>
      BY <1>13 DEF StoreFeatures
    <3> QED
      BY <1>t, <3>5, <3>6, <3>7 DEF Tables
  <2>2. Locals'
    BY <1>13, <1>t DEF StoreFeatures, Locals, Leave, Holds, Done, Saved, PCs, Tables, Finds
  <2>3. ASSUME NEW q \in Requests PROVE Holding(q)'
    BY <1>13, <1>t DEF StoreFeatures, Retag, Locals, Tables, Holding, Leave, Holds, Done, Saved, OnUpstream, OnModel, Saving, Finds
  <2> QED
    BY <2>1, <2>2, <2>3 DEF TypeOK, Tables, Locals
<1>14. CASE ReadUpstream(r)
  <2>h. PICK o \in Rows \cup Models, row \in Upstream \cup {None} \cup Model :
          Holds(r, o, row)
    BY <1>14, <1>t DEF ReadUpstream, Tables, Models
  <2>1. Tables'
    BY <1>14, <1>t DEF ReadUpstream, Tables
  <2>2. Locals'
    BY <1>14, <1>t, <2>h DEF ReadUpstream, Holds, Locals, PCs
  <2>3. ASSUME NEW q \in Requests PROVE Holding(q)'
    BY <1>14, <1>t DEF ReadUpstream, Retag, Locals, Tables, Holding, Leave, Holds, Done, Saved, OnUpstream, OnModel, Saving, Finds
  <2> QED
    BY <2>1, <2>2, <2>3 DEF TypeOK, Tables, Locals
<1>15. CASE WriteUpstream(r)
  <2>1. Tables'
    BY <1>15, <1>t, WriteRowTables, Writers
  <2>2. Locals'
    BY <1>15, <1>t DEF WriteUpstream, Locals, Leave, Holds, Done, Saved, PCs, Tables, Finds
  <2>3. ASSUME NEW q \in Requests PROVE Holding(q)'
    BY <1>15, <1>t DEF WriteUpstream, Retag, Locals, Tables, Holding, Leave, Holds, Done, Saved, OnUpstream, OnModel, Saving, Finds
  <2> QED
    BY <2>1, <2>2, <2>3 DEF TypeOK, Tables, Locals
<1>16. CASE ReadModel(r)
  BY <1>16 DEF Inv, ReadModel, TypeOK, Alive, Holding, Holds, Leave, Finds, PCs, Saving, Saved, Done, IsNext, OnUpstream, OnModel, Registering, Models
<1>17. CASE WriteModel(r)
  <2>1. Tables'
    <3> DEFINE m == on[r]
    <3>1. m \in Models /\ read[r] \in Model
      BY <1>17, <1>t DEF WriteModel, Holding, OnModel
    <3>2. modelsAsked[m] \in Model
      BY <1>17, <1>t, <3>1 DEF WriteModel, Alive, Tables
    <3>3. PICK c \in ModelChanges :
             /\ models' = [models EXCEPT ![m] = Priced(c, read[r])]
             /\ modelsAsked' = [modelsAsked EXCEPT ![m] = Priced(c, @)]
             /\ lost' = Losing(m, c, read[r], models[m], {"features", "price"})
      BY <1>17 DEF WriteModel
    <3>4. Priced(c, read[r]) \in Model /\ Priced(c, modelsAsked[m]) \in Model
      BY <3>1, <3>2 DEF Priced, Given, Model, ModelChanges, Changes
    <3>5. /\ models' \in [Models -> {None} \cup Model]
          /\ modelsAsked' \in [Models -> {None} \cup Model]
      BY <1>t, <3>1, <3>3, <3>4 DEF Tables
    <3>6. lost' \subseteq (Rows \cup Models) \X {"provider", "tags", "features", "price"}
      BY <1>t, <3>1, <3>3 DEF Losing, Tables
    <3>7. UNCHANGED <<upstreams, rowsAsked, defaulted, probed, raced>>
      BY <1>17 DEF WriteModel
    <3> QED
      BY <1>t, <3>5, <3>6, <3>7 DEF Tables
  <2>2. Locals'
    BY <1>17, <1>t DEF WriteModel, Locals, Leave, Holds, Done, Saved, PCs, Tables, Finds
  <2>3. ASSUME NEW q \in Requests PROVE Holding(q)'
    BY <1>17, <1>t DEF WriteModel, Retag, Locals, Tables, Holding, Leave, Holds, Done, Saved, OnUpstream, OnModel, Saving, Finds
  <2> QED
    BY <2>1, <2>2, <2>3 DEF TypeOK, Tables, Locals
<1>18. CASE AddTag(r)
  <2>1. Tables'
    BY <1>18, <1>t DEF AddTag, Retag, Tables, Alive, Upstream
  <2>2. Locals'
    BY <1>18, <1>t DEF AddTag, Retag, Locals, Leave, PCs
  <2>3. ASSUME NEW q \in Requests PROVE Holding(q)'
    BY <1>18, <1>t DEF AddTag, Retag, Locals, Tables, Holding, Leave, Holds, Done, Saved, OnUpstream, OnModel, Saving, Finds
  <2> QED
    BY <2>1, <2>2, <2>3 DEF TypeOK, Tables, Locals
<1>19. CASE RemoveTag(r)
  <2>1. Tables'
    BY <1>19, <1>t DEF RemoveTag, Retag, Tables, Alive, Upstream
  <2>2. Locals'
    BY <1>19, <1>t DEF RemoveTag, Retag, Locals, Leave, PCs
  <2>3. ASSUME NEW q \in Requests PROVE Holding(q)'
    BY <1>19, <1>t DEF RemoveTag, Retag, Locals, Tables, Holding, Leave, Holds, Done, Saved, OnUpstream, OnModel, Saving, Finds
  <2> QED
    BY <2>1, <2>2, <2>3 DEF TypeOK, Tables, Locals
<1>20. CASE Fail(r)
  <2>1. Tables'
    BY <1>20, <1>t DEF Fail, Tables
  <2>2. Locals'
    <3>1. CASE \E p \in PCs : Leave(r, p)
      BY <1>t, <3>1 DEF Locals, Leave
    <3>2. CASE ~\E p \in PCs : Leave(r, p)
      <4>1. /\ pc' \in [Requests -> PCs]
            /\ todo' \in [Requests -> SUBSET Names]
        BY <1>20, <1>t, <3>2 DEF Fail, Locals, Done, Saved, PCs
      <4>2. UNCHANGED <<base, offered, answer>>
        BY <1>20, <3>2 DEF Fail, PCs
      <4>3. /\ on' \in [Requests -> Rows \cup Models \cup {None}]
            /\ read' \in [Requests -> Upstream \cup {None} \cup Model]
        BY <1>20, <1>t, <3>2 DEF Fail, Locals, Holds, PCs
      <4> QED
        BY <1>t, <4>1, <4>2, <4>3 DEF Locals
    <3> QED
      BY <3>1, <3>2
  <2>3. ASSUME NEW q \in Requests PROVE Holding(q)'
    BY <1>20, <1>t DEF Fail, Retag, Locals, Tables, Holding, Leave, Holds, Done, Saved, OnUpstream, OnModel, Saving, Finds
  <2> QED
    BY <2>1, <2>2, <2>3 DEF TypeOK, Tables, Locals
<1> QED
  BY <1>1, <1>2, <1>3, <1>4, <1>5, <1>6, <1>7, <1>8, <1>9, <1>9p, <1>10, <1>11, <1>12, <1>13, <1>14, <1>15, <1>16, <1>17, <1>18, <1>19, <1>20 DEF Step

(***************************************************************************)
(* A step changes what its own request holds, deletes no row, and changes  *)
(* no row's api_base.                                                      *)
(***************************************************************************)
Alone(r) ==
  \A q \in Requests \ {r} :
    /\ pc'[q] = pc[q] /\ base'[q] = base[q] /\ on'[q] = on[q]
    /\ read'[q] = read[q] /\ offered'[q] = offered[q]
    /\ todo'[q] = todo[q] /\ answer'[q] = answer[q]

Kept ==
  /\ \A w \in Rows : \A b : Finds(b, w) => Finds(b, w)'
  /\ \A m \in Models : models[m] # None => models'[m] # None

LEMMA StepAlone ==
  ASSUME Inv, NEW r \in Requests, Step(r)
  PROVE  Alone(r)
<1>1. Locals
  BY DEF Inv, TypeOK, Locals
<1>2. CASE Register(r)
  BY <1>1, <1>2 DEF Register, Locals, Alone, To, Leave, Holds, Done, Retag, table, handler, history
<1>3. CASE FindRow(r)
  BY <1>1, <1>3 DEF FindRow, Locals, Alone, To, Leave, Holds, Done, Retag, table, handler, history
<1>4. CASE FindNoRow(r)
  BY <1>1, <1>4 DEF FindNoRow, Locals, Alone, To, Leave, Holds, Done, Retag, table, handler, history
<1>5. CASE InsertRow(r)
  BY <1>1, <1>5 DEF InsertRow, Locals, Alone, To, Leave, Holds, Done, Retag, table, handler, history
<1>6. CASE Refresh(r)
  BY <1>1, <1>6 DEF Refresh, Locals, Alone, To, Leave, Holds, Done, Retag, table, handler, history
<1>7. CASE FindModel(r)
  BY <1>1, <1>7 DEF FindModel, Locals, Alone, To, Leave, Holds, Done, Retag, table, handler, history
<1>8. CASE InsertModel(r)
  BY <1>1, <1>8 DEF InsertModel, Locals, Alone, To, Leave, Holds, Done, Retag, table, handler, history
<1>9. CASE Reload(r)
  BY <1>1, <1>9 DEF Reload, Locals, Alone, To, Leave, Holds, Done, Retag, table, handler, history
<1>9p. CASE PassOver(r)
  BY <1>1, <1>9p DEF PassOver, Locals, Alone, To, Leave, Holds, Done, Retag, table, handler, history
<1>10. CASE Amend(r)
  BY <1>1, <1>10 DEF Amend, Locals, Alone, To, Leave, Holds, Done, Retag, table, handler, history
<1>11. CASE Answer(r)
  BY <1>1, <1>11 DEF Answer, Locals, Alone, To, Leave, Holds, Done, Retag, table, handler, history
<1>12. CASE Test(r)
  BY <1>1, <1>12 DEF Test, Locals, Alone, To, Leave, Holds, Done, Retag, table, handler, history
<1>13. CASE StoreFeatures(r)
  BY <1>1, <1>13 DEF StoreFeatures, Locals, Alone, To, Leave, Holds, Done, Retag, table, handler, history
<1>14. CASE ReadUpstream(r)
  BY <1>1, <1>14 DEF ReadUpstream, Locals, Alone, To, Leave, Holds, Done, Retag, table, handler, history
<1>15. CASE WriteUpstream(r)
  BY <1>1, <1>15 DEF WriteUpstream, Locals, Alone, To, Leave, Holds, Done, Retag, table, handler, history
<1>16. CASE ReadModel(r)
  BY <1>1, <1>16 DEF ReadModel, Locals, Alone, To, Leave, Holds, Done, Retag, table, handler, history
<1>17. CASE WriteModel(r)
  BY <1>1, <1>17 DEF WriteModel, Locals, Alone, To, Leave, Holds, Done, Retag, table, handler, history
<1>18. CASE AddTag(r)
  BY <1>1, <1>18 DEF AddTag, Locals, Alone, To, Leave, Holds, Done, Retag, table, handler, history
<1>19. CASE RemoveTag(r)
  BY <1>1, <1>19 DEF RemoveTag, Locals, Alone, To, Leave, Holds, Done, Retag, table, handler, history
<1>20. CASE Fail(r)
  BY <1>1, <1>20 DEF Fail, Locals, Alone, To, Leave, Holds, Done, Retag, table, handler, history
<1> QED
  BY <1>2, <1>3, <1>4, <1>5, <1>6, <1>7, <1>8, <1>9, <1>9p, <1>10, <1>11, <1>12, <1>13, <1>14, <1>15, <1>16, <1>17, <1>18, <1>19, <1>20 DEF Step

LEMMA StepKept ==
  ASSUME Inv, NEW r \in Requests, Step(r)
  PROVE  Kept
<1> USE CatalogAssumption
<1>1. Tables /\ Holding(r) /\ Alive
  BY DEF Inv, TypeOK, Tables
<1>2. CASE InsertRow(r)
  BY <1>1, <1>2 DEF InsertRow, Kept, Finds, Tables
<1>3. CASE InsertModel(r)
  <2>1. NewModel \in Model
    BY DEF NewModel, Model
  <2> QED
    BY <1>1, <1>3, <2>1 DEF InsertModel, Kept, Finds, Tables
<1>4. ASSUME Writes(r)
      PROVE  Kept
  <2> PICK asked \in Changes : \E c \in {asked, Filled(asked)} : WriteRow(r, asked, c)
    BY <1>4 DEF Writes
  <2> PICK c \in {asked, Filled(asked)} : WriteRow(r, asked, c)
    OBVIOUS
  <2>1. on[r] \in Rows /\ upstreams[on[r]].base = read[r].base
    BY <1>1, <1>4 DEF Writes, Holding, Alive, Finds
  <2>2. Merged(c, read[r]) # None /\ Merged(c, read[r]).base = read[r].base
    <3>1. Merged(c, read[r]) \in Upstream
      <4>1. read[r] \in Upstream /\ c \in Changes
        BY <1>1, <1>4, FilledType DEF Writes, Holding
      <4> QED
        BY <4>1 DEF Merged, Given, Upstream, Changes
    <3> QED
      BY <3>1 DEF Merged
  <2> QED
    BY <1>1, <2>1, <2>2 DEF WriteRow, Kept, Finds, Tables
<1>5. CASE StoreFeatures(r)
  <2>1. PICK fs \in SUBSET Features :
           models' = [models EXCEPT ![on[r]].features = fs]
    <3>1. PICK fs \in SUBSET FeaturesOf(read[r].provider) :
             models' = [models EXCEPT ![on[r]].features = fs]
      BY <1>5 DEF StoreFeatures
    <3>2. fs \subseteq Features
      BY <3>1 DEF FeaturesOf, Features, Known
    <3> QED
      BY <3>1, <3>2
  <2>2. on[r] \in Models /\ models[on[r]] \in Model
    BY <1>1, <1>5 DEF StoreFeatures, Holding, Alive, Tables
  <2>3. [models[on[r]] EXCEPT !.features = fs] \in Model
    BY <2>2 DEF Model
  <2> QED
    BY <1>1, <1>5, <2>1, <2>2, <2>3 DEF StoreFeatures, Kept, Finds, Tables
<1>6. CASE WriteModel(r)
  <2> PICK c \in ModelChanges : models' = [models EXCEPT ![on[r]] = Priced(c, read[r])]
    BY <1>6 DEF WriteModel
  <2>1. on[r] \in Models /\ read[r] \in Model
    BY <1>1, <1>6 DEF WriteModel, Holding, OnModel
  <2>2. Priced(c, read[r]) \in Model
    BY <2>1 DEF Priced, Given, Model, Changes, ModelChanges
  <2> QED
    BY <1>1, <1>6, <2>1, <2>2 DEF WriteModel, Kept, Finds, Tables
<1>7. CASE AddTag(r) \/ RemoveTag(r)
  BY <1>1, <1>7 DEF AddTag, RemoveTag, Retag, Kept, Finds, Tables, Upstream
<1>8. CASE UNCHANGED table
  BY <1>8 DEF table, Kept, Finds
<1> QED
  BY <1>2, <1>3, <1>4, <1>5, <1>6, <1>7, <1>8, Writers
  DEF Step, Register, FindRow, FindNoRow, FindModel, Reload, PassOver, Answer, Test,
      ReadUpstream, ReadModel, Fail, table

(***************************************************************************)
(* What the step leaves its own request with.                              *)
(***************************************************************************)
AliveAt(r) ==
  /\ pc[r] \in Registering => base[r] \in Bases
  /\ pc[r] \in OnUpstream => Finds(read[r].base, on[r])
  /\ pc[r] \in {"refresh", "findModel", "insertModel", "reload", "amend", "answer"} =>
       Finds(base[r], on[r])
  /\ pc[r] \in {"probe", "writeModel"} => models[on[r]] # None

LEMMA StepAliveAt ==
  ASSUME Inv, NEW r \in Requests, Step(r)
  PROVE  AliveAt(r)'
<1> USE CatalogAssumption DEF To, table, handler, history
<1>1. Locals /\ Tables /\ Holding(r) /\ AliveAt(r)
  BY DEF Inv, TypeOK, Alive, AliveAt, Tables, Locals
<1>k. Kept
  BY StepKept
<1>2. CASE Register(r)
  BY <1>1, <1>k, <1>2 DEF Register, Locals, Tables, AliveAt, Holding, Kept, Leave, Holds, Done, Saved, Retag, Finds, Registering, OnUpstream, OnModel, Saving
<1>3. CASE FindRow(r)
  BY <1>1, <1>k, <1>3 DEF FindRow, Locals, Tables, AliveAt, Holding, Kept, Leave, Holds, Done, Saved, Retag, Finds, Registering, OnUpstream, OnModel, Saving
<1>4. CASE FindNoRow(r)
  BY <1>1, <1>k, <1>4 DEF FindNoRow, Locals, Tables, AliveAt, Holding, Kept, Leave, Holds, Done, Saved, Retag, Finds, Registering, OnUpstream, OnModel, Saving
<1>5. CASE InsertRow(r)
  <2>1. PICK w \in Rows : /\ upstreams' = [upstreams EXCEPT ![w] = NewUpstream(base[r])]
                          /\ on'[r] = w
    BY <1>1, <1>5 DEF InsertRow, Locals
  <2>2. base[r] \in Bases
    BY <1>1, <1>5 DEF InsertRow, AliveAt, Registering
  <2>3. NewUpstream(base[r]) \in Upstream /\ NewUpstream(base[r]).base = base[r]
    BY <2>2 DEF NewUpstream, Upstream, Known
  <2>4. upstreams'[w] # None /\ upstreams'[w].base = base[r]
    <3>1. upstreams'[w] = NewUpstream(base[r])
      BY <1>1, <2>1 DEF Tables
    <3> QED
      BY <2>3, <3>1
  <2>5. base'[r] = base[r] /\ pc'[r] \in {"reload", "findModel"}
    BY <1>1, <1>5 DEF InsertRow, Saved, Locals
  <2> QED
    BY <2>1, <2>2, <2>4, <2>5 DEF AliveAt, OnUpstream, Finds
<1>6. CASE Refresh(r)
  BY <1>1, <1>k, <1>6 DEF Refresh, Locals, Tables, AliveAt, Holding, Kept, Leave, Holds, Done, Saved, Retag, Finds, Registering, OnUpstream, OnModel, Saving
<1>7. CASE FindModel(r)
  BY <1>1, <1>k, <1>7 DEF FindModel, Locals, Tables, AliveAt, Holding, Kept, Leave, Holds, Done, Saved, Retag, Finds, Registering, OnUpstream, OnModel, Saving
<1>8. CASE InsertModel(r)
  BY <1>1, <1>k, <1>8 DEF InsertModel, Locals, Tables, AliveAt, Holding, Kept, Leave, Holds, Done, Saved, Retag, Finds, Registering, OnUpstream, OnModel, Saving
<1>9. CASE Reload(r)
  <2>1. PICK w \in Rows : /\ Finds(base[r], w)
                          /\ on'[r] = w
                          /\ read'[r] = upstreams[w] /\ pc'[r] = "amend"
    BY <1>1, <1>9 DEF Reload, Holds, Locals
  <2>2. UNCHANGED <<upstreams, base>>
    BY <1>9 DEF Reload
  <2>3. base[r] \in Bases
    BY <1>1, <1>9 DEF Reload, AliveAt, Registering
  <2> QED
    BY <2>1, <2>2, <2>3 DEF AliveAt, Finds, OnUpstream
<1>9p. CASE PassOver(r)
  BY <1>1, <1>9p DEF PassOver, Holds, Locals, AliveAt, Finds, OnUpstream, Registering
<1>10. CASE Amend(r)
  BY <1>1, <1>k, <1>10 DEF Amend, Locals, Tables, AliveAt, Holding, Kept, Leave, Holds, Done, Saved, Retag, Finds, Registering, OnUpstream, OnModel, Saving
<1>11. CASE Answer(r)
  BY <1>1, <1>k, <1>11 DEF Answer, Locals, Tables, AliveAt, Holding, Kept, Leave, Holds, Done, Saved, Retag, Finds, Registering, OnUpstream, OnModel, Saving
<1>12. CASE Test(r)
  BY <1>1, <1>k, <1>12 DEF Test, Locals, Tables, AliveAt, Holding, Kept, Leave, Holds, Done, Saved, Retag, Finds, Registering, OnUpstream, OnModel, Saving
<1>13. CASE StoreFeatures(r)
  BY <1>1, <1>k, <1>13 DEF StoreFeatures, Locals, Tables, AliveAt, Holding, Kept, Leave, Holds, Done, Saved, Retag, Finds, Registering, OnUpstream, OnModel, Saving
<1>14. CASE ReadUpstream(r)
  BY <1>1, <1>k, <1>14 DEF ReadUpstream, Locals, Tables, AliveAt, Holding, Kept, Leave, Holds, Done, Saved, Retag, Finds, Registering, OnUpstream, OnModel, Saving
<1>15. CASE WriteUpstream(r)
  BY <1>1, <1>k, <1>15 DEF WriteUpstream, Locals, Tables, AliveAt, Holding, Kept, Leave, Holds, Done, Saved, Retag, Finds, Registering, OnUpstream, OnModel, Saving
<1>16. CASE ReadModel(r)
  BY <1>1, <1>k, <1>16 DEF ReadModel, Locals, Tables, AliveAt, Holding, Kept, Leave, Holds, Done, Saved, Retag, Finds, Registering, OnUpstream, OnModel, Saving
<1>17. CASE WriteModel(r)
  BY <1>1, <1>k, <1>17 DEF WriteModel, Locals, Tables, AliveAt, Holding, Kept, Leave, Holds, Done, Saved, Retag, Finds, Registering, OnUpstream, OnModel, Saving
<1>18. CASE AddTag(r)
  BY <1>1, <1>k, <1>18 DEF AddTag, Locals, Tables, AliveAt, Holding, Kept, Leave, Holds, Done, Saved, Retag, Finds, Registering, OnUpstream, OnModel, Saving
<1>19. CASE RemoveTag(r)
  BY <1>1, <1>k, <1>19 DEF RemoveTag, Locals, Tables, AliveAt, Holding, Kept, Leave, Holds, Done, Saved, Retag, Finds, Registering, OnUpstream, OnModel, Saving
<1>20. CASE Fail(r)
  BY <1>1, <1>k, <1>20 DEF Fail, Locals, Tables, AliveAt, Holding, Kept, Leave, Holds, Done, Saved, Retag, Finds, Registering, OnUpstream, OnModel, Saving
<1> QED
  BY <1>2, <1>3, <1>4, <1>5, <1>6, <1>7, <1>8, <1>9, <1>9p, <1>10, <1>11, <1>12, <1>13, <1>14, <1>15, <1>16, <1>17, <1>18, <1>19, <1>20 DEF Step

\* The histories have the rows and models that there are, and models have rows.
AliveTables ==
  /\ \A w \in Rows : upstreams[w] = None <=> rowsAsked[w] = None
  /\ \A m \in Models :
       /\ models[m] = None <=> modelsAsked[m] = None
       /\ models[m] # None => upstreams[m[1]] # None

LEMMA StepAliveTables ==
  ASSUME Inv, NEW r \in Requests, Step(r)
  PROVE  AliveTables'
<1> USE CatalogAssumption
<1>1. Tables /\ Locals /\ Holding(r) /\ AliveTables /\ AliveAt(r)
  BY DEF Inv, TypeOK, Alive, AliveTables, AliveAt, Tables, Locals
<1>k. Tables' /\ Kept
  BY StepKept, TypeStep DEF TypeOK, Tables, Next
<1>2. CASE InsertRow(r)
  <2>1. NewUpstream(base[r]) # None
    BY <1>1, <1>2 DEF InsertRow, AliveAt, Registering, NewUpstream, Upstream, Known
  <2>2. PICK w \in Rows : /\ upstreams' = [upstreams EXCEPT ![w] = NewUpstream(base[r])]
                          /\ rowsAsked' = [rowsAsked EXCEPT ![w] = NewUpstream(base[r])]
    BY <1>2 DEF InsertRow
  <2>3. UNCHANGED <<models, modelsAsked>>
    BY <1>2 DEF InsertRow
  <2> QED
    BY <1>1, <2>1, <2>2, <2>3 DEF AliveTables, Tables, Models
<1>3. CASE InsertModel(r)
  <2>1. NewModel # None
    BY DEF NewModel, Model
  <2>2. UNCHANGED <<upstreams, rowsAsked>>
    BY <1>3 DEF InsertModel
  <2>3. upstreams[on[r]] # None /\ on[r] \in Rows
    BY <1>1, <1>3 DEF InsertModel, AliveAt, Finds, Holding, Saving
  <2>4. CASE UNCHANGED <<models, modelsAsked>>
    BY <1>1, <2>2, <2>4 DEF AliveTables
  <2>5. CASE \E n \in Names :
               /\ models' = [models EXCEPT ![<<on[r], n>>] = NewModel]
               /\ modelsAsked' = [modelsAsked EXCEPT ![<<on[r], n>>] = NewModel]
    BY <1>1, <2>1, <2>2, <2>3, <2>5 DEF AliveTables, Tables, Models
  <2> QED
    BY <1>3, <2>4, <2>5 DEF InsertModel
<1>4. ASSUME Writes(r)
      PROVE  AliveTables'
  <2> PICK asked \in Changes : \E c \in {asked, Filled(asked)} : WriteRow(r, asked, c)
    BY <1>4 DEF Writes
  <2>1. /\ on[r] \in Rows
        /\ upstreams[on[r]] # None
        /\ rowsAsked[on[r]] \in Upstream
        /\ UNCHANGED <<models, modelsAsked>>
    BY <1>1, <1>4 DEF Writes, Holding, AliveAt, AliveTables, Finds, WriteRow, Tables
  <2>2. /\ upstreams'[on[r]] # None
        /\ \A w \in Rows \ {on[r]} : upstreams'[w] = upstreams[w] /\ rowsAsked'[w] = rowsAsked[w]
    BY <1>1, <1>k, <2>1 DEF WriteRow, Tables, Kept, Finds
  <2>3. rowsAsked'[on[r]] # None
    <3>1. rowsAsked'[on[r]] = [rowsAsked[on[r]] EXCEPT
                                 !.provider = Given(asked.provider, @),
                                 !.tags = Given(asked.tags, @)]
      BY <1>1, <2>1 DEF WriteRow, Tables
    <3>2. rowsAsked'[on[r]] \in Upstream
      BY <2>1, <3>1 DEF Given, Upstream, Changes
    <3> QED
      BY <3>2
  <2> QED
    BY <1>1, <2>1, <2>2, <2>3 DEF AliveTables, Models
<1>5. CASE StoreFeatures(r) \/ WriteModel(r)
  <2>1. /\ on[r] \in Models
        /\ models[on[r]] # None
        /\ modelsAsked[on[r]] \in Model
        /\ UNCHANGED <<upstreams, rowsAsked>>
    BY <1>1, <1>5 DEF StoreFeatures, WriteModel, Holding, OnModel, AliveAt, AliveTables, Tables
  <2>2. /\ models'[on[r]] # None
        /\ \A m \in Models \ {on[r]} : models'[m] = models[m] /\ modelsAsked'[m] = modelsAsked[m]
    BY <1>1, <1>k, <1>5, <2>1 DEF StoreFeatures, WriteModel, Tables, Kept
  <2>3. modelsAsked'[on[r]] # None
    <3>1. CASE StoreFeatures(r)
      <4>1. PICK fs \in SUBSET FeaturesOf(read[r].provider) :
              modelsAsked' = [modelsAsked EXCEPT ![on[r]].features = fs]
        BY <3>1 DEF StoreFeatures
      <4>2. fs \subseteq Features
        BY <4>1 DEF FeaturesOf, Features, Known
      <4> QED
        BY <1>1, <2>1, <4>1, <4>2 DEF Tables, Model
    <3>2. CASE WriteModel(r)
      BY <1>1, <2>1, <3>2 DEF WriteModel, Tables, Priced, Model, ModelChanges, Changes, Given
    <3> QED
      BY <1>5, <3>1, <3>2
  <2> QED
    BY <1>1, <2>1, <2>2, <2>3 DEF AliveTables
<1>6. CASE AddTag(r) \/ RemoveTag(r)
  BY <1>1, <1>6 DEF AddTag, RemoveTag, Retag, AliveTables, Tables, Upstream, Models
<1>7. CASE UNCHANGED <<table, rowsAsked, modelsAsked>>
  BY <1>1, <1>7 DEF table, AliveTables
<1> QED
  BY <1>2, <1>3, <1>4, <1>5, <1>6, <1>7, Writers
  DEF Step, Register, FindRow, FindNoRow, FindModel, Reload, PassOver, Answer, Test,
      ReadUpstream, ReadModel, Fail, table, history

LEMMA StepInv == Inv /\ [Next]_vars => Inv'
<1> SUFFICES ASSUME Inv, [Next]_vars PROVE Alive'
  BY TypeStep DEF Inv
<1>1. CASE UNCHANGED vars
  BY <1>1 DEF vars, table, handler, history, Inv, Alive, Finds
<1>2. SUFFICES ASSUME NEW r \in Requests, Step(r) PROVE Alive'
  BY <1>1 DEF Next
<1>3. Alone(r) /\ Kept /\ AliveTables' /\ AliveAt(r)'
  BY <1>2, StepAlone, StepKept, StepAliveTables, StepAliveAt
<1>4. ASSUME NEW q \in Requests, q # r PROVE AliveAt(q)'
  <2>1. AliveAt(q) /\ Holding(q)
    BY DEF Inv, Alive, AliveAt, TypeOK
  <2> QED
    BY <1>3, <1>4, <2>1 DEF Alone, Kept, AliveAt, Holding, Finds, OnUpstream, OnModel, Saving
<1> QED
  BY <1>3, <1>4 DEF Alive, AliveTables, AliveAt

(***************************************************************************)
(* The tables and what the requests hold are well typed in every state.    *)
(***************************************************************************)
THEOREM TypeCorrect == Spec => []TypeOK
<1>1. Inv => TypeOK
  BY DEF Inv
<1> QED
  BY <1>1, InitInv, StepInv, PTL DEF Spec

-----------------------------------------------------------------------------
(***************************************************************************)
(* Only InsertRow adds a row.                                              *)
(***************************************************************************)
LEMMA NoNewRow ==
  ASSUME Inv, NEW r \in Requests, Step(r), ~InsertRow(r),
         NEW w \in Rows, NEW b, upstreams'[w] # None, upstreams'[w].base = b
  PROVE  Finds(b, w)
<1>1. Tables /\ Holding(r) /\ AliveAt(r) /\ Kept
  BY StepKept DEF Inv, TypeOK, Alive, AliveAt, Tables
<1>2. upstreams[w] # None
  <2>1. CASE upstreams' = upstreams
    BY <2>1
  <2>2. ASSUME Writes(r) PROVE upstreams[w] # None
    BY <1>1, <2>2 DEF Writes, WriteRow, AliveAt, Finds, Tables, Holding
  <2>3. CASE AddTag(r) \/ RemoveTag(r)
    BY <1>1, <2>3 DEF AddTag, RemoveTag, Retag, Tables
  <2> QED
    BY <2>1, <2>2, <2>3, Writers
    DEF Step, Register, FindRow, FindNoRow, FindModel, InsertModel, Reload, PassOver,
        Answer, Test, StoreFeatures, ReadUpstream, ReadModel, WriteModel, Fail, table
<1>3. Finds(upstreams[w].base, w)
  BY <1>2 DEF Finds
<1>4. upstreams'[w].base = upstreams[w].base
  BY <1>1, <1>3 DEF Kept, Finds
<1> QED
  BY <1>3, <1>4

OneRow ==
  \A b : \A v, w \in Rows : Finds(b, v) /\ Finds(b, w) => v = w \/ b \in raced

RowInv == Inv /\ MissingOnce /\ OneRow

LEMMA InitRowInv == Init => RowInv
<1> SUFFICES ASSUME Init PROVE MissingOnce /\ OneRow
  BY InitInv DEF RowInv
<1>1. MissingOnce
  BY DEF Init, MissingOnce
<1>2. ASSUME NEW b, NEW v \in Rows, NEW w \in Rows, Finds(b, v), Finds(b, w)
      PROVE  v = w
  <2>1. upstreams[v] = NewUpstream(b) /\ upstreams[w] = NewUpstream(b)
    BY <1>2 DEF Init, Finds, NewUpstream
  <2> QED
    BY <1>2, <2>1 DEF Init, Finds
<1> QED
  BY <1>1, <1>2 DEF OneRow

LEMMA StepRowInv == RowInv /\ [Next]_vars => RowInv'
<1> SUFFICES ASSUME RowInv, [Next]_vars PROVE MissingOnce' /\ OneRow'
  BY StepInv DEF RowInv
<1>1. CASE UNCHANGED vars
  BY <1>1 DEF vars, table, handler, history, RowInv, MissingOnce, OneRow, Finds
<1>2. SUFFICES ASSUME NEW r \in Requests, Step(r) PROVE MissingOnce' /\ OneRow'
  BY <1>1 DEF Next
<1>3. /\ Inv /\ MissingOnce /\ OneRow /\ Tables /\ Locals
      /\ Kept /\ Alone(r)
  BY <1>2, StepKept, StepAlone DEF RowInv, Inv, TypeOK, Tables, Locals
<1>4. raced \subseteq raced'
  BY <1>2 DEF Step, Register, FindRow, FindNoRow, InsertRow, Refresh, FindModel, InsertModel,
     Reload, PassOver, Amend, Answer, Test, StoreFeatures, ReadUpstream, WriteUpstream,
     ReadModel, WriteModel, AddTag, RemoveTag, Retag, Fail, WriteRow, history
<1>5. CASE InsertRow(r)
  <2>1. PICK u \in Rows : /\ upstreams[u] = None
                          /\ upstreams' = [upstreams EXCEPT ![u] = NewUpstream(base[r])]
    BY <1>5 DEF InsertRow
  <2>2. /\ pc[r] = "insertRow" /\ pc'[r] # "insertRow"
        /\ UNCHANGED <<base, raced>>
    BY <1>3, <1>5 DEF InsertRow, To, Saved, Locals
  <2>3. ASSUME NEW w \in Rows, NEW b, upstreams'[w] # None, upstreams'[w].base = b
        PROVE  Finds(b, w) \/ (w = u /\ b = base[r])
    BY <1>3, <2>1, <2>3 DEF Tables, Finds, NewUpstream
  <2>4. MissingOnce'
    <3> SUFFICES ASSUME NEW q \in Requests, pc'[q] = "insertRow", base[q] \notin raced
                 PROVE  /\ \A w \in Rows : ~(upstreams'[w] # None /\ upstreams'[w].base = base[q])
                        /\ \A p \in Requests : pc'[p] = "insertRow" /\ base[p] = base[q] => p = q
      BY <2>2 DEF MissingOnce, Finds
    <3>1. q # r /\ pc[q] = "insertRow"
      BY <1>3, <2>2 DEF Alone
    <3>2. base[q] # base[r]
      BY <1>3, <2>2, <3>1 DEF MissingOnce
    <3>3. \A w \in Rows : ~Finds(base[q], w)
      BY <1>3, <3>1 DEF MissingOnce
    <3>4. \A p \in Requests : pc'[p] = "insertRow" => pc[p] = "insertRow"
      BY <1>3, <2>2 DEF Alone
    <3> QED
      BY <1>3, <2>3, <3>1, <3>2, <3>3, <3>4 DEF MissingOnce
  <2>5. OneRow'
    <3> SUFFICES ASSUME NEW b, NEW v \in Rows, NEW w \in Rows, b \notin raced,
                        upstreams'[v] # None, upstreams'[v].base = b,
                        upstreams'[w] # None, upstreams'[w].base = b
                 PROVE  v = w
      BY <2>2 DEF OneRow, Finds
    <3>1. (Finds(b, v) \/ (v = u /\ b = base[r])) /\ (Finds(b, w) \/ (w = u /\ b = base[r]))
      BY <2>3
    <3>2. b = base[r] => \A x \in Rows : ~Finds(b, x)
      BY <1>3, <2>2 DEF MissingOnce
    <3> QED
      BY <1>3, <3>1, <3>2 DEF OneRow
  <2> QED
    BY <2>4, <2>5
<1>6. CASE ~InsertRow(r)
  <2>1. ASSUME NEW w \in Rows, NEW b, upstreams'[w] # None, upstreams'[w].base = b
        PROVE  Finds(b, w)
    BY <1>2, <1>3, <1>6, <2>1, NoNewRow
  <2>2. OneRow'
    BY <1>3, <1>4, <2>1 DEF OneRow, Finds
  <2>3. CASE FindNoRow(r)
    <3>1. /\ pc'[r] = "insertRow"
          /\ \A w \in Rows : ~Finds(base[r], w)
          /\ UNCHANGED <<upstreams, base>>
          /\ \A q \in Requests : pc[q] = "insertRow" /\ base[q] = base[r] => base[r] \in raced'
      BY <1>3, <2>3 DEF FindNoRow, To, Locals, table
    <3> SUFFICES ASSUME NEW q \in Requests, pc'[q] = "insertRow", base'[q] \notin raced'
                 PROVE  /\ \A w \in Rows : ~(upstreams'[w] # None /\ upstreams'[w].base = base'[q])
                        /\ \A p \in Requests : pc'[p] = "insertRow" /\ base'[p] = base'[q] => p = q
      BY <2>2 DEF MissingOnce, Finds
    <3>2. CASE q = r
      BY <1>3, <3>1, <3>2 DEF Alone, Finds
    <3>3. CASE q # r
      BY <1>3, <1>4, <3>1, <3>3 DEF Alone, MissingOnce, Finds
    <3> QED
      BY <3>2, <3>3
  <2>4. CASE ~FindNoRow(r)
    <3>1. pc'[r] # "insertRow"
      BY <1>2, <1>3, <1>6, <2>4 DEF Step, Register, FindRow, Refresh, FindModel, InsertModel,
         Reload, PassOver, Amend, Answer, Test, StoreFeatures, ReadUpstream, WriteUpstream,
         ReadModel, WriteModel, AddTag, RemoveTag, Retag, Fail, To, Leave, Done, Saved, Locals
    <3>2. ASSUME NEW q \in Requests, pc'[q] = "insertRow"
          PROVE  q # r /\ pc[q] = "insertRow" /\ base'[q] = base[q]
      BY <1>3, <3>1, <3>2 DEF Alone
    <3> SUFFICES ASSUME NEW q \in Requests, pc'[q] = "insertRow", base'[q] \notin raced'
                 PROVE  /\ \A w \in Rows : ~(upstreams'[w] # None /\ upstreams'[w].base = base'[q])
                        /\ \A p \in Requests : pc'[p] = "insertRow" /\ base'[p] = base'[q] => p = q
      BY <2>2 DEF MissingOnce, Finds
    <3>3. /\ \A w \in Rows : ~Finds(base[q], w)
          /\ \A p \in Requests : pc[p] = "insertRow" /\ base[p] = base[q] => p = q
      BY <1>3, <1>4, <3>2 DEF MissingOnce
    <3> QED
      BY <2>1, <3>2, <3>3
  <2> QED
    BY <2>2, <2>3, <2>4
<1> QED
  BY <1>5, <1>6

(***************************************************************************)
(* An api_base has one row, unless two registrations of it both found none *)
(* before either inserted.                                                 *)
(***************************************************************************)
THEOREM RowsUnique == Spec => []OneRowPerBase
<1>1. RowInv => OneRowPerBase
  BY DEF RowInv, OneRow, OneRowPerBase, Finds
<1> QED
  BY <1>1, InitRowInv, StepRowInv, PTL DEF Spec

-----------------------------------------------------------------------------
\* No two providers share the name of a feature.
LEMMA FeaturesApart ==
  ASSUME NEW p, NEW q, NEW f \in FeaturesOf(p), f \in FeaturesOf(q)
  PROVE  p = q /\ p \in Known
BY DEF FeaturesOf, Known

ProbeInv == Inv /\ AllReported

LEMMA StepProbeInv == ProbeInv /\ [Next]_vars => ProbeInv'
<1> USE CatalogAssumption
<1> SUFFICES ASSUME ProbeInv, [Next]_vars PROVE AllReported'
  BY StepInv DEF ProbeInv
<1>1. CASE UNCHANGED vars
  BY <1>1 DEF vars, table, handler, history, ProbeInv, AllReported, Reported
<1>2. SUFFICES ASSUME NEW r \in Requests, Step(r) PROVE AllReported'
  BY <1>1 DEF Next
<1>3. Inv /\ AllReported /\ Tables /\ Locals /\ Holding(r) /\ AliveAt(r) /\ Alone(r)
  BY <1>2, StepAlone DEF ProbeInv, Inv, TypeOK, Tables, Locals, Alive, AliveAt
<1>4. probed \subseteq probed'
  BY <1>2 DEF Step, Register, FindRow, FindNoRow, InsertRow, Refresh, FindModel, InsertModel,
     Reload, PassOver, Amend, Answer, Test, StoreFeatures, ReadUpstream, WriteUpstream,
     ReadModel, WriteModel, AddTag, RemoveTag, Retag, Fail, WriteRow, history
<1>5. ASSUME NEW m, NEW model, Reported(m, model)
      PROVE  \A p \in Known : \A f \in model.features \cap FeaturesOf(p) : <<m, p, f>> \in probed'
  BY <1>4, <1>5 DEF Reported
<1>6. \/ UNCHANGED models
      \/ InsertModel(r) \/ StoreFeatures(r) \/ WriteModel(r)
  BY <1>2 DEF Step, Register, FindRow, FindNoRow, InsertRow, Refresh, FindModel,
     Reload, PassOver, Amend, Answer, Test, ReadUpstream, WriteUpstream,
     ReadModel, AddTag, RemoveTag, Retag, Fail, WriteRow, table
<1>7. ASSUME NEW m \in Models, models'[m] # None
      PROVE  Reported(m, models[m])'
  <2>1. CASE models'[m] = models[m]
    <3>1. Reported(m, models[m])
      BY <1>3, <1>7, <2>1 DEF AllReported
    <3> QED
      BY <1>5, <2>1, <3>1 DEF Reported
  <2>2. CASE InsertModel(r) /\ models'[m] # models[m]
    <3>1. models'[m] = NewModel
      BY <1>3, <2>2 DEF InsertModel, Tables
    <3> QED
      BY <3>1 DEF NewModel, Reported
  <2>3. CASE StoreFeatures(r) /\ models'[m] # models[m]
    <3>1. PICK fs \in SUBSET FeaturesOf(read[r].provider) :
             /\ models' = [models EXCEPT ![on[r]].features = fs]
             /\ probed' = probed \cup {<<on[r], read[r].provider, f>> : f \in fs}
      BY <2>3 DEF StoreFeatures
    <3>2. on[r] = m /\ models[m] \in Model
      BY <1>3, <2>3, <3>1 DEF StoreFeatures, Holding, AliveAt, Tables
    <3>3. models'[m].features = fs
      BY <1>3, <3>1, <3>2 DEF Tables, Model
    <3>4. ASSUME NEW p \in Known, NEW f \in fs, f \in FeaturesOf(p)
          PROVE  <<m, p, f>> \in probed'
      <4>1. p = read[r].provider
        BY <3>1, <3>4, FeaturesApart
      <4> QED
        BY <3>1, <3>2, <4>1
    <3> QED
      BY <3>3, <3>4 DEF Reported
  <2>4. CASE WriteModel(r) /\ models'[m] # models[m]
    <3> PICK c \in ModelChanges : models' = [models EXCEPT ![on[r]] = Priced(c, read[r])]
      BY <2>4 DEF WriteModel
    <3>1. /\ on[r] \in Models /\ read[r] \in Model
          /\ Reported(on[r], read[r])
      BY <1>3, <2>4 DEF WriteModel, Holding, OnModel, AllReported
    <3>2. on[r] = m /\ models'[m] = Priced(c, read[r])
      BY <1>3, <2>4, <3>1 DEF Tables
    <3>3. models'[m].features = read[r].features
      BY <3>1, <3>2 DEF Priced, Model
    <3> QED
      BY <1>5, <3>1, <3>2, <3>3 DEF Reported
  <2> QED
    BY <1>6, <2>1, <2>2, <2>3, <2>4
<1>8. ASSUME NEW q \in Requests, pc'[q] = "writeModel"
      PROVE  Reported(on[q], read[q])'
  <2>1. CASE q # r
    <3>1. pc[q] = "writeModel" /\ on'[q] = on[q] /\ read'[q] = read[q]
      BY <1>3, <1>8, <2>1 DEF Alone
    <3>2. Reported(on[q], read[q])
      BY <1>3, <3>1 DEF AllReported
    <3> QED
      BY <1>5, <3>1, <3>2 DEF Reported
  <2>2. CASE q = r
    <3>1. ReadModel(r)
      BY <1>2, <1>3, <1>8, <2>2 DEF Step, Register, FindRow, FindNoRow, InsertRow, Refresh,
         FindModel, InsertModel, Reload, PassOver, Amend, Answer, Test, StoreFeatures, ReadUpstream,
         WriteUpstream, WriteModel, AddTag, RemoveTag, Retag, Fail, To, Leave, Done, Saved, Locals
    <3>2. PICK m \in Models : /\ models[m] # None
                              /\ on'[r] = m /\ read'[r] = models[m]
      BY <1>3, <3>1 DEF ReadModel, Holds, Locals
    <3>3. Reported(m, models[m])
      BY <1>3, <3>2 DEF AllReported
    <3> QED
      BY <1>5, <2>2, <3>2, <3>3 DEF Reported
  <2> QED
    BY <2>1, <2>2
<1> QED
  BY <1>7, <1>8 DEF AllReported

(***************************************************************************)
(* A model is routed by a feature only where a probe with the client of    *)
(* its upstream's provider reported it.                                    *)
(***************************************************************************)
THEOREM RoutedAsProbed == Spec => []RoutedIsProbed
<1>1. Init => ProbeInv
  <2> SUFFICES ASSUME Init PROVE AllReported
    BY InitInv DEF ProbeInv
  <2> QED
    BY DEF Init, AllReported, Reported, NewModel
<1>2. ProbeInv => RoutedIsProbed
  <2> SUFFICES ASSUME ProbeInv, NEW m \in Models, models[m] # None,
                      NEW f \in models[m].features, f \in FeaturesOf(upstreams[m[1]].provider)
               PROVE  <<m, upstreams[m[1]].provider, f>> \in probed
    BY DEF RoutedIsProbed
  <2>1. upstreams[m[1]].provider \in Known
    BY FeaturesApart
  <2> QED
    BY <2>1 DEF ProbeInv, AllReported, Reported
<1> QED
  BY <1>1, <1>2, StepProbeInv, PTL DEF Spec

-----------------------------------------------------------------------------
SaveInv == RowInv /\ SavedSoFar

LEMMA StepSavedAt ==
  ASSUME SaveInv, NEW r \in Requests, Step(r)
  PROVE  SavedAt(r)'
<1>1. Locals /\ Tables /\ Holding(r) /\ AliveAt(r) /\ OneRow /\ SavedAt(r)
  BY DEF SaveInv, RowInv, SavedSoFar, Inv, TypeOK, Alive, AliveAt, Tables, Locals
<1>k. Kept
  BY StepKept DEF SaveInv, RowInv
<1>2. CASE Register(r)
  BY <1>1, <1>k, <1>2 DEF Register, Locals, AliveAt, SavedAt, HasAll, Kept, To, Leave, Holds, Done, Saved, IsNext, Models, table, history, Holding, OnUpstream, Saving
<1>3. CASE FindRow(r)
  BY <1>1, <1>k, <1>3 DEF FindRow, Locals, AliveAt, SavedAt, HasAll, Kept, To, Leave, Holds, Done, Saved, IsNext, Models, table, history, Holding, OnUpstream, Saving
<1>4. CASE FindNoRow(r)
  BY <1>1, <1>k, <1>4 DEF FindNoRow, Locals, AliveAt, SavedAt, HasAll, Kept, To, Leave, Holds, Done, Saved, IsNext, Models, table, history, Holding, OnUpstream, Saving
<1>5. CASE InsertRow(r)
  BY <1>1, <1>k, <1>5 DEF InsertRow, Locals, AliveAt, SavedAt, HasAll, Kept, To, Leave, Holds, Done, Saved, IsNext, Models, table, history, Holding, OnUpstream, Saving
<1>6. CASE Refresh(r)
  BY <1>1, <1>k, <1>6 DEF Refresh, Locals, AliveAt, SavedAt, HasAll, Kept, To, Leave, Holds, Done, Saved, IsNext, Models, table, history, Holding, OnUpstream, Saving
<1>7. CASE FindModel(r)
  BY <1>1, <1>k, <1>7 DEF FindModel, Locals, AliveAt, SavedAt, HasAll, Kept, To, Leave, Holds, Done, Saved, IsNext, Models, table, history, Holding, OnUpstream, Saving
<1>8. CASE InsertModel(r)
  <2>1. CASE pc'[r] = "failed"
    BY <2>1 DEF SavedAt
  <2>2. CASE pc'[r] # "failed"
    <3>1. PICK n \in Names :
             /\ models' = [models EXCEPT ![<<on[r], n>>] = NewModel]
             /\ models[<<on[r], n>>] = None
             /\ Done(r, n)
             /\ UNCHANGED <<base, on, read, offered, answer>>
      BY <1>1, <1>8, <2>2 DEF InsertModel, Leave, To, Locals
    <3>2. NewModel # None
      BY CatalogAssumption DEF NewModel, Model
    <3>3. HasAll(on[r], offered[r] \ todo[r]) /\ on[r] \in Rows /\ offered[r] \subseteq Names
      BY <1>1, <1>8 DEF InsertModel, SavedAt, Holding, Saving, Locals
    <3>4. /\ todo'[r] = todo[r] \ {n} /\ on'[r] = on[r] /\ offered'[r] = offered[r]
          /\ \/ pc'[r] = "findModel"
             \/ pc'[r] = "reload" /\ todo[r] \subseteq {n}
      BY <1>1, <3>1 DEF Done, To, Saved, Locals
    <3>5. \A k \in Names : models[<<on[r], k>>] # None \/ k = n => models'[<<on[r], k>>] # None
      BY <1>1, <3>1, <3>2, <3>3 DEF Tables, Models
    <3> QED
      BY <3>3, <3>4, <3>5 DEF SavedAt, HasAll
  <2> QED
    BY <2>1, <2>2
<1>9. CASE Reload(r) \/ PassOver(r)
  <2>1. PICK w \in Rows : /\ Finds(base[r], w)
                          /\ on'[r] = w
                          /\ pc'[r] \in {"amend", "answer"}
    BY <1>1, <1>9 DEF Reload, PassOver, Holds, To, Locals
  <2>2. w = on[r] \/ base[r] \in raced
    BY <1>1, <1>9, <2>1 DEF Reload, PassOver, AliveAt, OneRow, Holding, Saving
  <2>3. UNCHANGED <<models, base, offered, raced>>
    BY <1>9 DEF Reload, PassOver, table, history
  <2>4. HasAll(on[r], offered[r])
    BY <1>1, <1>9 DEF Reload, PassOver, SavedAt
  <2> QED
    BY <2>1, <2>2, <2>3, <2>4 DEF SavedAt, HasAll
<1>10. CASE Amend(r)
  <2>1. UNCHANGED <<models, base, offered, raced>> /\ on'[r] = on[r] /\ pc'[r] = "answer"
    BY <1>1, <1>10 DEF Amend, WriteRow, Holds, To, Locals
  <2> QED
    BY <1>1, <1>10, <2>1 DEF Amend, SavedAt, HasAll
<1>11. CASE Answer(r)
  BY <1>1, <1>k, <1>11 DEF Answer, Locals, AliveAt, SavedAt, HasAll, Kept, To, Leave, Holds, Done, Saved, IsNext, Models, table, history, Holding, OnUpstream, Saving
<1>12. CASE ~(pc'[r] \in Registering)
  BY <1>12 DEF SavedAt, Registering
<1>13. CASE Fail(r)
  BY <1>1, <1>12, <1>13 DEF Fail, Locals, SavedAt, To, Leave, Holds, table, history, Registering, HasAll
<1> QED
  BY <1>1, <1>2, <1>3, <1>4, <1>5, <1>6, <1>7, <1>8, <1>9, <1>10, <1>11, <1>12, <1>13
  DEF Step, Locals, To, Leave, Test, StoreFeatures, ReadUpstream, WriteUpstream, ReadModel,
      WriteModel, AddTag, RemoveTag, Retag, Registering

LEMMA StepSaveInv == SaveInv /\ [Next]_vars => SaveInv'
<1> SUFFICES ASSUME SaveInv, [Next]_vars PROVE SavedSoFar'
  BY StepRowInv DEF SaveInv
<1>1. CASE UNCHANGED vars
  BY <1>1 DEF vars, table, handler, history, SaveInv, SavedSoFar, SavedAt, HasAll
<1>2. SUFFICES ASSUME NEW r \in Requests, Step(r) PROVE SavedSoFar'
  BY <1>1 DEF Next
<1>3. Alone(r) /\ Kept /\ SavedAt(r)'
  BY <1>2, StepAlone, StepKept, StepSavedAt DEF SaveInv, RowInv
<1>4. raced \subseteq raced'
  BY <1>2 DEF Step, Register, FindRow, FindNoRow, InsertRow, Refresh, FindModel, InsertModel,
     Reload, PassOver, Amend, Answer, Test, StoreFeatures, ReadUpstream, WriteUpstream,
     ReadModel, WriteModel, AddTag, RemoveTag, Retag, Fail, WriteRow, history
<1>5. ASSUME NEW q \in Requests, q # r PROVE SavedAt(q)'
  <2>1. SavedAt(q) /\ Holding(q) /\ offered[q] \subseteq Names
    BY DEF SaveInv, SavedSoFar, RowInv, Inv, TypeOK
  <2> QED
    BY <1>3, <1>4, <1>5, <2>1
    DEF Alone, Kept, SavedAt, HasAll, Holding, OnUpstream, Saving, Models
<1> QED
  BY <1>3, <1>5 DEF SavedSoFar

(***************************************************************************)
(* The answer to a registration lists every model the upstream offered.    *)
(***************************************************************************)
THEOREM AnswersComplete == Spec => []AnswerIsComplete
<1>1. Init => SaveInv
  BY InitRowInv DEF Init, SaveInv, SavedSoFar, SavedAt
<1>2. SaveInv => AnswerIsComplete
  BY DEF SaveInv, SavedSoFar, SavedAt, AnswerIsComplete
<1> QED
  BY <1>1, <1>2, StepSaveInv, PTL DEF Spec

-----------------------------------------------------------------------------
(***************************************************************************)
(* A column is as asked, or lost to a write of an older value, or a        *)
(* provider that a registration took the default for.                      *)
(***************************************************************************)
ProviderAsAsked(w) ==
  \/ upstreams[w].provider = rowsAsked[w].provider
  \/ <<w, "provider">> \in lost
  \/ w \in defaulted

TagsAsAsked(w) == upstreams[w].tags = rowsAsked[w].tags \/ <<w, "tags">> \in lost

ModelAsAsked(m, f) == models[m][f] = modelsAsked[m][f] \/ <<m, f>> \in lost

Asked ==
  /\ \A w \in Rows : upstreams[w] # None => ProviderAsAsked(w) /\ TagsAsAsked(w)
  /\ \A m \in Models : models[m] # None =>
       ModelAsAsked(m, "features") /\ ModelAsAsked(m, "price")

AskInv == Inv /\ Asked

LEMMA WriteRowAsked ==
  ASSUME AskInv, NEW r \in Requests, Writes(r)
  PROVE  Asked'
<1> PICK asked \in Changes : \E c \in {asked, Filled(asked)} : WriteRow(r, asked, c)
  BY DEF Writes
<1> PICK c \in {asked, Filled(asked)} : WriteRow(r, asked, c)
  OBVIOUS
<1> SUFFICES ASSUME NEW w, w = on[r],
                    NEW columns, columns = {f \in {"provider", "tags"} : c[f] = asked[f]}
             PROVE  Asked'
  OBVIOUS
<1> USE CatalogAssumption
<1>0. /\ c \in Changes
      /\ c.tags = asked.tags
      /\ c.provider = asked.provider \/ (asked.provider = None /\ c.provider = "openai")
  BY FilledType
<1>1. /\ w \in Rows
      /\ upstreams[w] \in Upstream
      /\ rowsAsked[w] \in Upstream
      /\ read[r] \in Upstream
  BY DEF AskInv, Inv, TypeOK, Alive, Holding, Finds, Writes
<1>2. /\ upstreams' = [upstreams EXCEPT ![w] = Merged(c, read[r])]
      /\ rowsAsked' = [rowsAsked EXCEPT ![w].provider = Given(asked.provider, @),
                                        ![w].tags = Given(asked.tags, @)]
      /\ lost' = Losing(w, asked, read[r], upstreams[w], columns)
      /\ defaulted' = IF asked.provider # None THEN defaulted \ {w}
                      ELSE IF c.provider \in {None, upstreams[w].provider} THEN defaulted
                      ELSE defaulted \cup {w}
      /\ UNCHANGED <<models, modelsAsked>>
  BY DEF WriteRow
<1>3. /\ upstreams'[w].provider = Given(c.provider, read[r].provider)
      /\ upstreams'[w].tags = Given(asked.tags, read[r].tags)
  BY <1>0, <1>1, <1>2 DEF AskInv, Inv, TypeOK, Merged
<1>4. /\ rowsAsked'[w].provider = Given(asked.provider, rowsAsked[w].provider)
      /\ rowsAsked'[w].tags = Given(asked.tags, rowsAsked[w].tags)
  BY <1>1, <1>2 DEF AskInv, Inv, TypeOK, Upstream
<1>5. /\ "tags" \in columns
      /\ "provider" \in columns <=> c.provider = asked.provider
  <2>1. c["tags"] = asked["tags"] /\ c["provider"] = c.provider
    BY <1>0
  <2> QED
    BY <2>1
<1>6. ASSUME NEW f \in columns, asked[f] = None
      PROVE  <<w, f>> \in lost' \/ (<<w, f>> \notin lost /\ read[r][f] = upstreams[w][f])
  BY <1>2, <1>6 DEF Losing
<1>7. ProviderAsAsked(w)' /\ TagsAsAsked(w)'
  <2>1. ProviderAsAsked(w) /\ TagsAsAsked(w)
    BY <1>1 DEF AskInv, Asked, Inv, Alive, Finds
  <2>2. TagsAsAsked(w)'
    <3>1. asked.tags = None =>
            \/ <<w, "tags">> \in lost'
            \/ <<w, "tags">> \notin lost /\ read[r].tags = upstreams[w].tags
      BY <1>5, <1>6
    <3> QED
      BY <1>3, <1>4, <2>1, <3>1 DEF TagsAsAsked, Given
  <2>3. CASE asked.provider # None
    BY <1>0, <2>2, <1>3, <1>4, <2>3 DEF ProviderAsAsked, Given
  <2>4. CASE asked.provider = None /\ c.provider = None
    <3>1. \/ <<w, "provider">> \in lost'
          \/ <<w, "provider">> \notin lost /\ read[r].provider = upstreams[w].provider
      BY <1>5, <1>6, <2>4
    <3> QED
      BY <1>2, <2>2, <1>3, <1>4, <2>1, <2>4, <3>1 DEF ProviderAsAsked, Given
  <2>5. CASE asked.provider = None /\ c.provider # None
    <3>1. <<w, "provider">> \in lost => <<w, "provider">> \in lost'
      BY <1>2, <1>5, <2>5 DEF Losing
    <3>2. CASE c.provider = upstreams[w].provider
      BY <1>2, <2>2, <1>3, <1>4, <2>1, <2>5, <3>1, <3>2 DEF ProviderAsAsked, Given
    <3>3. CASE c.provider # upstreams[w].provider
      BY <1>2, <2>2, <2>5, <3>3 DEF ProviderAsAsked
    <3> QED
      BY <3>2, <3>3
  <2> QED
    BY <2>2, <2>3, <2>4, <2>5
<1>8. ASSUME NEW o, NEW f, <<o, f>> \in lost, o # w \/ f \notin {"provider", "tags"}
      PROVE  <<o, f>> \in lost'
  BY <1>2, <1>8 DEF Losing
<1>9. ASSUME NEW v \in Rows, upstreams'[v] # None
      PROVE  ProviderAsAsked(v)' /\ TagsAsAsked(v)'
  <2>1. CASE v = w
    BY <1>7, <2>1
  <2>2. CASE v # w
    <3>1. upstreams'[v] = upstreams[v] /\ rowsAsked'[v] = rowsAsked[v]
      BY <1>1, <1>2, <2>2 DEF AskInv, Inv, TypeOK
    <3>2. ProviderAsAsked(v) /\ TagsAsAsked(v)
      BY <1>9, <3>1 DEF AskInv, Asked
    <3>3. v \in defaulted => v \in defaulted'
      BY <1>2, <2>2
    <3> QED
      BY <1>8, <2>2, <3>1, <3>2, <3>3 DEF ProviderAsAsked, TagsAsAsked
  <2> QED
    BY <2>1, <2>2
<1>10. ASSUME NEW m \in Models, models'[m] # None
       PROVE  ModelAsAsked(m, "features")' /\ ModelAsAsked(m, "price")'
  <2>1. ModelAsAsked(m, "features") /\ ModelAsAsked(m, "price")
    BY <1>2, <1>10 DEF AskInv, Asked
  <2> QED
    BY <1>2, <1>8, <2>1 DEF ModelAsAsked
<1> QED
  BY <1>9, <1>10 DEF Asked

LEMMA StepAskInv == AskInv /\ [Next]_vars => AskInv'
<1> USE CatalogAssumption
<1> SUFFICES ASSUME AskInv, [Next]_vars PROVE Asked'
  BY StepInv DEF AskInv
<1>1. CASE UNCHANGED vars
  BY <1>1 DEF vars, table, handler, history, AskInv, Asked, ProviderAsAsked, TagsAsAsked, ModelAsAsked
<1>2. SUFFICES ASSUME NEW r \in Requests, Step(r) PROVE Asked'
  BY <1>1 DEF Next
<1>3. Asked /\ Tables /\ Locals /\ Holding(r) /\ AliveAt(r) /\ AliveTables
  BY DEF AskInv, Inv, TypeOK, Tables, Locals, Alive, AliveAt, AliveTables
<1>4. CASE Refresh(r) \/ Amend(r) \/ WriteUpstream(r)
  BY <1>4, WriteRowAsked, Writers
<1>5. CASE InsertRow(r)
  <2>1. PICK w \in Rows : /\ upstreams' = [upstreams EXCEPT ![w] = NewUpstream(base[r])]
                          /\ rowsAsked' = [rowsAsked EXCEPT ![w] = NewUpstream(base[r])]
    BY <1>5 DEF InsertRow
  <2>2. UNCHANGED <<models, modelsAsked, lost, defaulted>>
    BY <1>5 DEF InsertRow
  <2> QED
    BY <1>3, <2>1, <2>2 DEF Asked, ProviderAsAsked, TagsAsAsked, ModelAsAsked, Tables
<1>6. CASE InsertModel(r)
  <2>1. UNCHANGED <<upstreams, rowsAsked, lost, defaulted>>
    BY <1>6 DEF InsertModel
  <2>2. ASSUME NEW m \in Models
        PROVE  \/ models'[m] = models[m] /\ modelsAsked'[m] = modelsAsked[m]
               \/ models'[m] = NewModel /\ modelsAsked'[m] = NewModel
    BY <1>3, <1>6 DEF InsertModel, Tables
  <2> QED
    BY <1>3, <2>1, <2>2 DEF Asked, ProviderAsAsked, TagsAsAsked, ModelAsAsked
<1>7. CASE StoreFeatures(r)
  <2>1. PICK m \in Models : m = on[r]
    BY <1>3, <1>7 DEF StoreFeatures, Holding
  <2>2. PICK fs : /\ models' = [models EXCEPT ![m].features = fs]
                  /\ modelsAsked' = [modelsAsked EXCEPT ![m].features = fs]
    BY <1>7, <2>1 DEF StoreFeatures
  <2>3. /\ lost' = lost \ {<<m, "features">>}
        /\ UNCHANGED <<upstreams, rowsAsked, defaulted>>
    BY <1>7, <2>1 DEF StoreFeatures
  <2>4. models[m] \in Model /\ modelsAsked[m] \in Model
    BY <1>3, <1>7, <2>1 DEF StoreFeatures, AliveAt, AliveTables, Tables
  <2>5. /\ models'[m].features = fs /\ models'[m].price = models[m].price
        /\ modelsAsked'[m].features = fs /\ modelsAsked'[m].price = modelsAsked[m].price
        /\ \A n \in Models \ {m} : models'[n] = models[n] /\ modelsAsked'[n] = modelsAsked[n]
    BY <1>3, <2>2, <2>4 DEF Tables, Model
  <2>6. ASSUME NEW n \in Models, models'[n] # None
        PROVE  ModelAsAsked(n, "features")' /\ ModelAsAsked(n, "price")'
    <3>1. models[n] # None
      BY <2>4, <2>5, <2>6, CatalogAssumption
    <3>2. ModelAsAsked(n, "features") /\ ModelAsAsked(n, "price")
      BY <1>3, <3>1 DEF Asked
    <3> QED
      BY <2>3, <2>5, <3>2 DEF ModelAsAsked
  <2>7. ASSUME NEW w \in Rows, upstreams'[w] # None
        PROVE  ProviderAsAsked(w)' /\ TagsAsAsked(w)'
    BY <1>3, <2>3, <2>7 DEF Asked, ProviderAsAsked, TagsAsAsked
  <2> QED
    BY <2>6, <2>7 DEF Asked
<1>8. CASE WriteModel(r)
  <2>1. PICK m \in Models : m = on[r]
    BY <1>3, <1>8 DEF WriteModel, Holding, OnModel
  <2>2. PICK c \in ModelChanges :
               /\ models' = [models EXCEPT ![m] = Priced(c, read[r])]
               /\ modelsAsked' = [modelsAsked EXCEPT ![m] = Priced(c, @)]
               /\ lost' = Losing(m, c, read[r], models[m], {"features", "price"})
    BY <1>8, <2>1 DEF WriteModel
  <2>3. /\ c \in Changes
        /\ models' = [models EXCEPT ![m] = Priced(c, read[r])]
        /\ modelsAsked' = [modelsAsked EXCEPT ![m] = Priced(c, @)]
        /\ lost' = Losing(m, c, read[r], models[m], {"features", "price"})
        /\ UNCHANGED <<upstreams, rowsAsked, defaulted>>
    BY <1>8, <2>2 DEF WriteModel, ModelChanges
  <2>4. models[m] \in Model /\ modelsAsked[m] \in Model /\ read[r] \in Model
    BY <1>3, <1>8, <2>1 DEF WriteModel, AliveAt, AliveTables, Tables, Holding, OnModel
  <2>5. /\ models'[m].features = read[r].features
        /\ models'[m].price = Given(c.price, read[r].price)
        /\ modelsAsked'[m].features = modelsAsked[m].features
        /\ modelsAsked'[m].price = Given(c.price, modelsAsked[m].price)
        /\ \A n \in Models \ {m} : models'[n] = models[n] /\ modelsAsked'[n] = modelsAsked[n]
    BY <1>3, <2>3, <2>4 DEF Tables, Model, Priced
  <2>6. /\ \/ <<m, "features">> \in lost'
           \/ <<m, "features">> \notin lost /\ read[r].features = models[m].features
        /\ c.price = None => <<m, "price">> \in lost' \/
             (<<m, "price">> \notin lost /\ read[r].price = models[m].price)
    <3>1. /\ c["features"] = None => <<m, "features">> \in lost' \/
             (<<m, "features">> \notin lost /\ read[r]["features"] = models[m]["features"])
          /\ c["price"] = None => <<m, "price">> \in lost' \/
             (<<m, "price">> \notin lost /\ read[r]["price"] = models[m]["price"])
      BY <2>3 DEF Losing
    <3> QED
      BY <2>3, <3>1 DEF Changes
  <2>7. ASSUME NEW o, NEW f, <<o, f>> \in lost, o # m \/ f \notin {"features", "price"}
        PROVE  <<o, f>> \in lost'
    BY <2>3, <2>7 DEF Losing
  <2>8. ModelAsAsked(m, "features") /\ ModelAsAsked(m, "price")
    BY <1>3, <2>4 DEF Asked
  <2>9. ModelAsAsked(m, "features")' /\ ModelAsAsked(m, "price")'
    BY <2>5, <2>6, <2>8 DEF ModelAsAsked, Given
  <2>10. ASSUME NEW n \in Models, models'[n] # None
         PROVE  ModelAsAsked(n, "features")' /\ ModelAsAsked(n, "price")'
    <3>1. CASE n = m
      BY <2>9, <3>1
    <3>2. CASE n # m
      <4>1. ModelAsAsked(n, "features") /\ ModelAsAsked(n, "price")
        BY <1>3, <2>5, <2>10, <3>2 DEF Asked
      <4> QED
        BY <2>5, <2>7, <3>2, <4>1 DEF ModelAsAsked
    <3> QED
      BY <3>1, <3>2
  <2>11. ASSUME NEW w \in Rows, upstreams'[w] # None
         PROVE  ProviderAsAsked(w)' /\ TagsAsAsked(w)'
    <3>1. ProviderAsAsked(w) /\ TagsAsAsked(w)
      BY <1>3, <2>3, <2>11 DEF Asked
    <3> QED
      BY <2>3, <2>7, <3>1 DEF ProviderAsAsked, TagsAsAsked
  <2> QED
    BY <2>10, <2>11 DEF Asked
<1>9. CASE AddTag(r) \/ RemoveTag(r)
  <2>1. PICK w \in Rows : \E more, less :
             /\ upstreams[w] # None
             /\ upstreams' = [upstreams EXCEPT ![w].tags = (@ \cup more) \ less]
             /\ rowsAsked' = [rowsAsked EXCEPT ![w].tags = (@ \cup more) \ less]
             /\ UNCHANGED <<models, modelsAsked, lost, defaulted>>
    BY <1>9 DEF AddTag, RemoveTag, Retag
  <2>2. PICK more, less :
             /\ upstreams' = [upstreams EXCEPT ![w].tags = (@ \cup more) \ less]
             /\ rowsAsked' = [rowsAsked EXCEPT ![w].tags = (@ \cup more) \ less]
    BY <2>1
  <2>3. upstreams[w] \in Upstream /\ rowsAsked[w] \in Upstream
    BY <1>3, <2>1 DEF Tables, AliveTables
  <2>4. /\ upstreams'[w].provider = upstreams[w].provider
        /\ upstreams'[w].tags = (upstreams[w].tags \cup more) \ less
        /\ rowsAsked'[w].provider = rowsAsked[w].provider
        /\ rowsAsked'[w].tags = (rowsAsked[w].tags \cup more) \ less
        /\ \A v \in Rows \ {w} : upstreams'[v] = upstreams[v] /\ rowsAsked'[v] = rowsAsked[v]
    BY <1>3, <2>2, <2>3 DEF Tables, Upstream
  <2>5. ProviderAsAsked(w) /\ TagsAsAsked(w)
    BY <1>3, <2>1 DEF Asked
  <2>6. ASSUME NEW v \in Rows, upstreams'[v] # None
        PROVE  ProviderAsAsked(v)' /\ TagsAsAsked(v)'
    BY <1>3, <2>1, <2>4, <2>5, <2>6 DEF Asked, ProviderAsAsked, TagsAsAsked
  <2>7. ASSUME NEW m \in Models, models'[m] # None
        PROVE  ModelAsAsked(m, "features")' /\ ModelAsAsked(m, "price")'
    BY <1>3, <2>1, <2>7 DEF Asked, ModelAsAsked
  <2> QED
    BY <2>6, <2>7 DEF Asked
<1>p. CASE PassOver(r)
  <2>1. UNCHANGED <<table, rowsAsked, modelsAsked, lost>> /\ defaulted \subseteq defaulted'
    BY <1>p DEF PassOver
  <2> QED
    BY <1>3, <2>1 DEF table, Asked, ProviderAsAsked, TagsAsAsked, ModelAsAsked
<1>10. CASE UNCHANGED <<table, rowsAsked, modelsAsked, lost, defaulted>>
  BY <1>3, <1>10 DEF table, Asked, ProviderAsAsked, TagsAsAsked, ModelAsAsked
<1> QED
  BY <1>2, <1>4, <1>5, <1>6, <1>7, <1>8, <1>9, <1>p, <1>10
  DEF Step, Register, FindRow, FindNoRow, FindModel, Reload, Answer, Test,
      ReadUpstream, ReadModel, Fail, table, history

(***************************************************************************)
(* Every column holds what was last asked for it, unless an update that    *)
(* did not give it wrote an older value back, or a registration took the   *)
(* default for the provider: reset it unasked with new tags or proxies, or *)
(* passed "openai" over.                                                   *)
(***************************************************************************)
THEOREM ColumnsAsAsked == Spec => []AsAsked
<1>1. Init => AskInv
  <2> SUFFICES ASSUME Init PROVE Asked
    BY InitInv DEF AskInv
  <2> QED
    BY DEF Init, Asked, ProviderAsAsked, TagsAsAsked, ModelAsAsked
<1>2. AskInv => AsAsked
  BY DEF AskInv, Inv, Alive, Asked, AsAsked, ProviderAsAsked, TagsAsAsked, ModelAsAsked
<1> QED
  BY <1>1, <1>2, StepAskInv, PTL DEF Spec
=============================================================================
