----------------------------- MODULE V8Projection -----------------------------
(***************************************************************************)
(* The whole of project_v8_state: the passes over the scenes, entities,      *)
(* relations and facts of the store, then the permission loop of module      *)
(* StateProjector.  Every pass folds the rows visible at the checkpoint in   *)
(* the order of their latest cited turn.                                     *)
(*                                                                          *)
(* A scene or entity row keeps the list field that is merged (participants   *)
(* or aliases) as the set "members"; all its other fields are the row they   *)
(* come from.  A fact keeps its key (scene, subject, folded field name) and  *)
(* whether its lifecycle deletes.  A dictionary entry of "current" is        *)
(* represented by the index of the fact that wrote it.                       *)
(***************************************************************************)
EXTENDS StateProjector

CONSTANTS
    SceneIds, EntityIds,
    Names,      \* participants and aliases
    FactKeys,
    Graphs      \* scenes, entities, relations and facts of the store

Spanned(rows) == {row \in rows : row.first <= row.last}

MergedRow(ids) ==
    Spanned([id : ids, members : SUBSET Names, first : Turns, last : Turns])
Relation ==
    Spanned([type : {"participates_in", "other"}, source : Names, target : SceneIds,
             first : Turns, last : Turns])
Fact ==
    Spanned([key : FactKeys, lifecycle : {"assert", "delete", "cancel"},
             first : Turns, last : Turns])

ASSUME GraphsAssumption ==
    \A g \in Graphs :
        /\ g.scenes \in Seq(MergedRow(SceneIds))
        /\ g.entities \in Seq(MergedRow(EntityIds))
        /\ g.relations \in Seq(Relation)
        /\ g.facts \in Seq(Fact)

VARIABLES
    graph,       \* the store without its governance events
    pass,        \* the collection that is being folded
    rest,        \* its rows still to be folded
    scenes, entities,
    current, history, tombstones

foldVars == <<graph, pass, rest, scenes, entities, current, history, tombstones>>
projectVars == <<vars, foldVars>>

Collections == <<"scenes", "entities", "relations", "facts", "events">>
NextOf(c) == CHOOSE d \in 1..5 : d > 1 /\ Collections[d - 1] = c

VisibleRows(rows) == {i \in 1..Len(rows) : Visible(rows[i], prefix)}

NoRows == [x \in {} |-> 0]

StartFolds ==
    /\ pass = "scenes"
    /\ rest = VisibleRows(graph.scenes)
    /\ scenes = NoRows
    /\ entities = NoRows
    /\ current = {}
    /\ history = [key \in FactKeys |-> <<>>]
    /\ tombstones = <<>>

ProjectInit ==
    /\ graph \in Graphs
    /\ Init
    /\ StartFolds

\* i is the next row of the pass.
NextRowOf(c, i) ==
    /\ pass = c
    /\ i \in rest
    /\ \A j \in rest \ {i} : Before(graph[c], i, j)
    /\ rest' = rest \ {i}

\* Variant: the passes start on all rows of the store.
StartPass_AllRows(c) ==
    /\ pass' = c
    /\ rest' = IF c = "events" THEN {} ELSE 1..Len(graph[c])

StartPass(c) ==
    /\ pass' = c
    /\ rest' = IF c = "events" THEN {} ELSE VisibleRows(graph[c])

NextPass ==
    /\ pass # "events"
    /\ rest = {}
    /\ StartPass(Collections[NextOf(pass)])
    /\ UNCHANGED <<vars, graph, scenes, entities, current, history, tombstones>>

Spans(row) == {row.first, row.last}

\* merged = {**old, **row}, with the union of the list fields.
Merged(table, row, i) ==
    LET old == IF row.id \in DOMAIN table THEN table[row.id]
               ELSE [row |-> i, members |-> {}, spans |-> {}]
    IN  [id \in DOMAIN table \cup {row.id} |->
            IF id # row.id THEN table[id]
            ELSE [row |-> i, members |-> old.members \cup row.members,
                  spans |-> old.spans \cup Spans(row)]]

FoldScene(i) ==
    /\ NextRowOf("scenes", i)
    /\ scenes' = Merged(scenes, graph.scenes[i], i)
    /\ UNCHANGED <<vars, graph, pass, entities, current, history, tombstones>>

FoldEntity(i) ==
    /\ NextRowOf("entities", i)
    /\ entities' = Merged(entities, graph.entities[i], i)
    /\ UNCHANGED <<vars, graph, pass, scenes, current, history, tombstones>>

Joins(relation) ==
    /\ relation.type = "participates_in"
    /\ relation.target \in DOMAIN scenes
    /\ relation.source \notin scenes[relation.target].members

\* A participation adds its source to the scene it targets, if there is one.
FoldRelation(i) ==
    /\ NextRowOf("relations", i)
    /\ LET relation == graph.relations[i]
       IN  scenes' = IF Joins(relation)
                     THEN [scenes EXCEPT ![relation.target].members = @ \cup {relation.source},
                                         ![relation.target].spans = @ \cup Spans(relation)]
                     ELSE scenes
    /\ UNCHANGED <<vars, graph, pass, entities, current, history, tombstones>>

Deletes(fact) == fact.lifecycle \in {"delete", "cancel"}
OthersOf(fact) == {j \in current : graph.facts[j].key # fact.key}

\* Variant: a deletion is recorded and the current fact stays.
FoldFact_KeepsCurrent(i) ==
    /\ NextRowOf("facts", i)
    /\ LET fact == graph.facts[i]
       IN  /\ history' = [history EXCEPT ![fact.key] = Append(@, i)]
           /\ current' = IF Deletes(fact) THEN current ELSE OthersOf(fact) \cup {i}
           /\ tombstones' = IF Deletes(fact) THEN Append(tombstones, i) ELSE tombstones
    /\ UNCHANGED <<vars, graph, pass, scenes, entities>>

FoldFact(i) ==
    /\ NextRowOf("facts", i)
    /\ LET fact == graph.facts[i]
       IN  /\ history' = [history EXCEPT ![fact.key] = Append(@, i)]
           /\ current' = IF Deletes(fact) THEN OthersOf(fact) ELSE OthersOf(fact) \cup {i}
           /\ tombstones' = IF Deletes(fact) THEN Append(tombstones, i) ELSE tombstones
    /\ UNCHANGED <<vars, graph, pass, scenes, entities>>

FoldPermission == pass = "events" /\ Next /\ UNCHANGED foldVars

ProjectNext ==
    \/ NextPass
    \/ \E i \in rest : FoldScene(i) \/ FoldEntity(i) \/ FoldRelation(i) \/ FoldFact(i)
    \/ FoldPermission

ProjectSpec == ProjectInit /\ [][ProjectNext]_projectVars

-------------------------------------------------------------------------------
(* The lifecycle events a prompt of the shallow mode shows *)

LifecycleEvents(k) == {i \in Indices(events) : Visible(events[i], k) /\ events[i].kind = "lifecycle"}

\* Variant: a change with an end is folded while it is active.
Advisory_Timed(e, k) == e.effect = "update" /\ WholeChange(e, k)

\* Changes of a resource that a later one restates: unconditional, of the whole
\* resource and without an end.  Deletions are none.
Advisory(e, k) == e.effect = "update" /\ WholeChange(e, k) /\ e.until.form = "none"

\* superseded: the advisory changes that are not the latest of their base.
Folded(k) ==
    {i \in LifecycleEvents(k) :
        /\ Advisory(events[i], k)
        /\ \E j \in LifecycleEvents(k) :
              /\ Advisory(events[j], k)
              /\ events[j].base = events[i].base
              /\ Before(events, i, j)}

LifecycleView(k) == LifecycleEvents(k) \ Folded(k)

-------------------------------------------------------------------------------
(* Properties *)

After(c) == \E m, n \in 1..5 : m < n /\ Collections[m] = c /\ Collections[n] = pass
FactsDone == IF After("facts") THEN VisibleRows(graph.facts)
             ELSE IF pass = "facts" THEN VisibleRows(graph.facts) \ rest ELSE {}

LastOfKey(i) ==
    \A j \in FactsDone : graph.facts[j].key = graph.facts[i].key => ~Before(graph.facts, i, j)

\* At every point of the fact pass the current facts are, of the facts folded so
\* far, those that are the last of their key and do not delete: a deletion leaves
\* no fact of its key behind, a later assertion brings exactly one back, and no
\* fact of another scene, subject or field is touched.
CurrentFactIsLatest == current = {i \in FactsDone : LastOfKey(i) /\ ~Deletes(graph.facts[i])}

\* A merged table holds, of every id with a visible row, the fields of its last
\* visible row and the members of all of them plus those in "extra".
IsUnion(table, rows, extra(_)) ==
    LET of(id) == {i \in VisibleRows(rows) : rows[i].id = id}
    IN  /\ DOMAIN table = {rows[i].id : i \in VisibleRows(rows)}
        /\ \A id \in DOMAIN table :
              /\ table[id].row \in of(id)
              /\ \A i \in of(id) : ~Before(rows, table[id].row, i)
              /\ table[id].members = (UNION {rows[i].members : i \in of(id)}) \cup extra(id)

\* Every participant of a visible participation is in its scene; one that targets
\* a scene not yet visible brings no scene into being; and no member, field or
\* span of a scene or entity comes from a turn after the checkpoint.
ScenesHoldTheVisibleRows ==
    After("relations") =>
        LET joined(id) == {graph.relations[i].source : i \in
                              {j \in VisibleRows(graph.relations) :
                                  /\ graph.relations[j].type = "participates_in"
                                  /\ graph.relations[j].target = id}}
            none(id) == {}
        IN  /\ IsUnion(scenes, graph.scenes, joined)
            /\ IsUnion(entities, graph.entities, none)
            /\ \A id \in DOMAIN scenes : \A turn \in scenes[id].spans : turn <= prefix

\* A permission that had ended at an earlier checkpoint is not active at this
\* one, also when the checkpoint's own time cannot be compared with its end.
ExpiryIsFinal ==
    \A i \in Indices(events) : \A k \in 0..prefix :
        Expired(events[i], k) => Activation(events[i], prefix) # "active"

\* "Project latest unconditional advisory changes": the event that restates one
\* left out of a prompt is in the prompts of this and of every later checkpoint,
\* unless it is restated itself; no end that is reached brings an older change
\* back or leaves its resource without one.
FoldedStaysRestated ==
    \A k \in 0..prefix : \A i \in Folded(k) :
        \E j \in LifecycleView(prefix) :
            /\ i \notin LifecycleView(prefix)
            /\ events[j].base = events[i].base
            /\ Active(events[j], prefix)
            /\ Before(events, i, j)
===============================================================================
