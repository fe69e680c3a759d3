------------------------------ MODULE EntityLists ------------------------------
(***************************************************************************)
(* What the slot graph keeps and hands over: the change lists of entities    *)
(* (entity_lists), extended record by record in                              *)
(* build_memory_governed_slot_graph and retrieved by lexical matching, and    *)
(* the explicit restrictions and deletions that the backbone's observer       *)
(* reports to Stage 2.  Every action is one of module SlotGraph together      *)
(* with its effect on these.                                                 *)
(*                                                                          *)
(* Data abstracted: a name, an effect, a relation type is one word of a       *)
(* question; a slot and its value are one word.  A record lists only those    *)
(* entities, slots and lifecycle types that pass their own checks; policies   *)
(* keep theirs.  Nodes and edges carry no more than the observation of        *)
(* SlotGraph; the dense index of the graph is off.                           *)
(***************************************************************************)
EXTENDS SlotGraph, SequencesExt

CONSTANTS
    Names,         \* of entities, subjects and resources, in finitely many texts
    NoOne,         \* an absent name
    SlotWords,
    Replies,       \* record lists a batch may be answered with
    Questions,     \* a question is the set of its words
    TopK,          \* memory_governed_slot_graph.top_k
    MaxRelations   \* max_relations_per_entity

Effects == {"allow", "deny", "revoke", "require_permission"}

\* subject and resource: NoOne unless the chunk contains the name; grounded: the
\* source span contains the policy span; planned: _is_future_conditional_policy.
Policy ==
    [effect : Effects \cup {"other"}, subject : Names \cup {NoOne},
     resource : Names \cup {NoOne}, grounded : BOOLEAN, planned : BOOLEAN]

Changes == {"assert", "update", "supersede", "cancel", "delete", "none"}

\* spanned: the text of the cited chunk contains the source span.
Record ==
    [chunk : Chunks, spanned : BOOLEAN, entities : Seq(Names), slots : Seq(SlotWords),
     policies : Seq(Policy), lifecycle : Seq(Changes)]

\* What the build reads of a record that cites no new chunk: nothing.
PassedOver ==
    [chunk |-> 0, spanned |-> FALSE, entities |-> <<>>, slots |-> <<>>,
     policies |-> <<>>, lifecycle |-> <<>>]

ASSUME ListsAssumption ==
    /\ IsFiniteSet(Names) /\ NoOne \notin Names
    /\ TopK \in Nat /\ MaxRelations \in Nat \ {0}
    /\ \A rows \in Replies : rows \in Seq(Record)

\* Keys of entity_lists.  The list of a record that names no entity is "record";
\* a permission of such a record that names nobody either is filed under the
\* normalised form of that key, which is another key.
Entities ==
    {<<"entity", n>> : n \in Names} \cup {<<x, c>> : x \in {"record", "alias"}, c \in Chunks}

NoLists == [lists |-> [e \in Entities |-> <<>>], findings |-> {}]

VARIABLES
    replied,   \* raw_records: what the batches of this retrieve were answered
    work,      \* lists and findings of the graph under construction
    kept,      \* those of the cached graph
    question,
    handed,    \* entities, their relations and the findings of the last retrieve
    told       \* history: records of the committed builds, and those with this one

listVars == <<replied, work, kept, question, handed, told>>
graphVars == <<vars, listVars>>

Nothing == [chosen |-> {}, lists |-> NoLists.lists, findings |-> {}]

ListInit ==
    /\ Init
    /\ replied = <<>>
    /\ work = NoLists /\ kept = NoLists
    /\ question = {}
    /\ handed = Nothing
    /\ told = [kept |-> <<>>, work |-> <<>>]

-------------------------------------------------------------------------------
(* One record *)

Relation(r, type, target, effect, change, subject) ==
    [type |-> type, target |-> target, effect |-> effect, change |-> change,
     subject |-> subject, chunk |-> r.chunk]

Slot(r, word) == Relation(r, "has_slot", word, "none", "none", NoOne)
Permission(r, p) == Relation(r, "permission", p.resource, p.effect, "none", p.subject)
Lifecycle(r, change) == Relation(r, "lifecycle", NoOne, "none", change, NoOne)
Anchor(r) == Relation(r, "source_record", r.chunk, "none", "none", NoOne)

\* A planned revocation is not a change that has happened.
Stands(p) ==
    p.effect \in Effects /\ p.grounded /\ ~(p.effect = "revoke" /\ p.planned)

EntityOf(n) == <<"entity", n>>
OwnEntities(r) ==
    IF r.entities = <<>> THEN {<<"record", r.chunk>>}
    ELSE {EntityOf(n) : n \in ToSet(r.entities)}

\* The entities a policy is filed under.
Holders(r, p) ==
    LET named == {p.resource, p.subject} \ {NoOne} IN
    CASE r.entities # <<>> -> OwnEntities(r)
      [] r.entities = <<>> /\ named # {} -> {EntityOf(n) : n \in named}
      [] OTHER -> {<<"alias", r.chunk>>}

\* The elements of s at the positions in S, in order.
Picked(s, S) ==
    FoldLeftDomain(LAMBDA t, i : IF i \in S THEN Append(t, s[i]) ELSE t, <<>>, s)

\* The relations a grounded record adds to the list of e, in order.
Candidates(r, e) ==
    LET own(s) == IF e \in OwnEntities(r) THEN s ELSE <<>>
        slots == own(r.slots)
        filed == Picked(r.policies, {i \in DOMAIN r.policies :
                                        Stands(r.policies[i]) /\ e \in Holders(r, r.policies[i])})
        changes == own(Picked(r.lifecycle, {i \in DOMAIN r.lifecycle : r.lifecycle[i] # "none"})) IN
    [i \in DOMAIN slots |-> Slot(r, slots[i])]
    \o [i \in DOMAIN filed |-> Permission(r, filed[i])]
    \o [i \in DOMAIN changes |-> Lifecycle(r, changes[i])]

\* A record without any of these, or with a paraphrased span, keeps its source
\* addressable.
Additions(r, e) ==
    LET bare == \A f \in Entities : Candidates(r, f) = <<>>
        first == IF r.entities = <<>> THEN <<"record", r.chunk>> ELSE EntityOf(Head(r.entities)) IN
    CASE r = PassedOver -> <<>>
      [] r # PassedOver /\ ~r.spanned -> IF e = <<"record", r.chunk>> THEN <<Anchor(r)>> ELSE <<>>
      [] r.spanned /\ bare -> IF e = first THEN <<Anchor(r)>> ELSE <<>>
      [] OTHER -> Candidates(r, e)

Restate(a, b) ==
    /\ a.type = b.type /\ a.target = b.target
    /\ a.effect = b.effect /\ a.change = b.change /\ a.subject = b.subject

\* Variant: any earlier relation counts as a restatement, not only the last one.
AppendChange_AnyEarlier(list, x) ==
    IF \E i \in 1..Len(list) : Restate(list[i], x) THEN list ELSE Append(list, x)

\* Restating the last change does not make the list grow; its first source stays.
AppendChange(list, x) ==
    IF list # <<>> /\ Restate(Last(list), x) THEN list ELSE Append(list, x)

Reported(r) ==
    IF ~r.spanned THEN {}
    ELSE {<<p.effect, r.chunk>> : p \in {x \in ToSet(r.policies) : Stands(x) /\ x.effect # "allow"}}
         \cup {<<c, r.chunk>> : c \in ToSet(r.lifecycle) \cap {"delete"}}

AddRecord(g, r) ==
    [lists |-> [e \in Entities |-> FoldLeft(AppendChange, g.lists[e], Additions(r, e))],
     findings |-> g.findings \cup Reported(r)]

-------------------------------------------------------------------------------
(* Retrieval of change lists *)

Governing(x) == x.type \in {"permission", "lifecycle"}
\* Ids of chunks are no words of a question.
Words(x) ==
    IF x.type = "source_record" THEN {}
    ELSE {x.type, x.target, x.effect, x.subject} \ {NoOne, "none"}
EntityWords(e) == {"entity"} \cup (IF e[1] = "entity" THEN {e[2]} ELSE {"record"})

Overlap(list, i) == Cardinality(Words(list[i]) \cap question)
Matches(e, list) ==
    {i \in DOMAIN list :
        \/ Overlap(list, i) > 0
        \/ Governing(list[i]) /\ EntityWords(e) \cap question # {}}

\* Variant: the cap is on the relations of an entity, governing ones included.
Selected_CapOnAll(e, list) ==
    LET m == Matches(e, list)
        before(i) == {j \in m : Overlap(list, j) > Overlap(list, i)
                                    \/ (Overlap(list, j) = Overlap(list, i) /\ j < i)} IN
    {i \in m : Cardinality(before(i)) < MaxRelations}

\* All governing relations, and the best of the others.
Selected(e, list) ==
    LET m == Matches(e, list)
        ordinary == {i \in m : ~Governing(list[i])}
        before(i) == {j \in ordinary : Overlap(list, j) > Overlap(list, i)
                                           \/ (Overlap(list, j) = Overlap(list, i) /\ j < i)} IN
    (m \ ordinary) \cup {i \in ordinary : Cardinality(before(i)) < MaxRelations}

RelationsOf(e, list) == Picked(list, Selected(e, list))

Score(e, list) ==
    Cardinality((EntityWords(e) \cap question)
                \cup UNION {Words(list[i]) \cap question : i \in Matches(e, list)})

\* The TopK best lists; which of several equal ones depends on their names.
BestOf(lists) ==
    LET matched == {e \in Entities : Matches(e, lists[e]) # {}}
        size == IF Cardinality(matched) < TopK THEN Cardinality(matched) ELSE TopK IN
    {S \in SUBSET matched :
        /\ Cardinality(S) = size
        /\ \A e \in S, f \in matched \ S : Score(e, lists[e]) >= Score(f, lists[f])}

-------------------------------------------------------------------------------
(* Actions *)

\* Variant: a new graph is begun for every checkpoint.
Base_Fresh(k) == NoLists

\* A copy of the cached lists, unless the cache is of another history.
Base(k) == IF Reset(k) THEN NoLists ELSE kept

ListRetrieve(k, words) ==
    /\ Retrieve(k)
    /\ work' = Base(k)
    /\ told' = [told EXCEPT !.work = IF Reset(k) THEN <<>> ELSE told.kept]
    /\ replied' = <<>>
    /\ question' = words
    /\ handed' = Nothing
    /\ UNCHANGED kept

\* The chunk a record cites is looked up among the new ones.
Resolved(rows) ==
    [i \in DOMAIN rows |-> IF rows[i].chunk \in New THEN rows[i] ELSE PassedOver]

ListBatchExtracted(rows) ==
    /\ BatchExtracted({r.chunk : r \in ToSet(rows)} \cap New)
    /\ replied' = replied \o Resolved(rows)
    /\ UNCHANGED <<work, kept, question, handed, told>>

ListBatchFailed == BatchFailed /\ UNCHANGED listVars

ListBuild ==
    /\ BuildGraph
    /\ work' = FoldLeft(AddRecord, work, replied)
    /\ told' = [told EXCEPT !.work = @ \o replied]
    /\ replied' = <<>>
    /\ UNCHANGED <<kept, question, handed>>

\* What is under construction ends with the call.
Discard == work' = NoLists /\ replied' = <<>>

ListBuildRaises ==
    /\ BuildRaises
    /\ Discard
    /\ told' = [told EXCEPT !.work = <<>>]
    /\ UNCHANGED <<kept, question, handed>>

ListCommit ==
    /\ pc = "deliver"
    /\ \E chosen \in BestOf(work.lists) :
         LET lists == [e \in Entities |->
                          IF e \in chosen THEN RelationsOf(e, work.lists[e]) ELSE <<>>] IN
         /\ Commit({x.chunk : x \in UNION {ToSet(lists[e]) : e \in chosen}} \cap 1..visible)
         /\ handed' = [chosen |-> chosen, lists |-> lists, findings |-> work.findings]
    /\ kept' = work
    /\ told' = [told EXCEPT !.kept = told.work]
    /\ Discard
    /\ UNCHANGED question

\* Variant: a failed build reports the findings of the cached graph.
ListFallback_CachedOnly ==
    /\ Fallback
    /\ handed' = [Nothing EXCEPT !.findings = kept.findings]
    /\ Discard
    /\ UNCHANGED <<kept, question, told>>

\* No list is handed over, but the audit has the graph, and the observer reads it.
ListFallback ==
    /\ Fallback
    /\ handed' = [Nothing EXCEPT !.findings = work.findings]
    /\ Discard
    /\ UNCHANGED <<kept, question, told>>

ListRestart ==
    /\ Restart
    /\ kept' = NoLists
    /\ Discard
    /\ told' = [kept |-> <<>>, work |-> <<>>]
    /\ handed' = Nothing
    /\ UNCHANGED question

ListEdit(c, version) ==
    /\ Edit(c, version)
    /\ handed' = Nothing
    /\ told' = [told EXCEPT !.work = <<>>]
    /\ UNCHANGED <<replied, work, kept, question>>

ListNext ==
    \/ \E c \in Chunks, version \in Versions : ListEdit(c, version)
    \/ \E k \in Chunks, words \in Questions : ListRetrieve(k, words)
    \/ \E rows \in Replies : ListBatchExtracted(rows)
    \/ ListBatchFailed \/ ListBuild \/ ListBuildRaises
    \/ ListCommit \/ ListFallback \/ ListRestart

ListSpec == ListInit /\ [][ListNext]_graphVars

-------------------------------------------------------------------------------
(* Properties *)

\* A governing relation is a transition if it does not restate the one before it.
Turn(past, x) ==
    IF Governing(x) /\ (past = <<>> \/ ~Restate(Last(past), x)) THEN Append(past, x) ELSE past
Turns(past, list) == FoldLeft(Turn, past, list)

\* The transitions of e that the records tell.
Transitions(rows, e) ==
    FoldLeft(LAMBDA past, r : Turns(past, Additions(r, e)), <<>>, rows)

\* "Permission and lifecycle history is always kept for a matched entity because
\* symbolic replay needs every transition": if the question has the entity's own
\* name, what is handed over has every transition that was ever extracted about it
\* from the visible text, in order, also one that returns to an earlier state;
\* unless TopK other entities match at least as well.
NamedHistoryIsWhole ==
    audit.status = "complete" =>
        \A n \in question \cap Names :
            LET stated == Transitions(told.kept, EntityOf(n)) IN
            IF EntityOf(n) \in handed.chosen
            THEN Turns(<<>>, handed.lists[EntityOf(n)]) = stated
            ELSE stated = <<>> \/ Cardinality(handed.chosen) = TopK

\* What the observer reports to Stage 2 is every explicit restriction and deletion
\* extracted so far from the conversation as it is now, and no other: also at a
\* later checkpoint that extracts nothing, and after a build with failed batches.
RestrictionsStayReported ==
    audit.status \in {"complete", "insufficient_evidence"} =>
        handed.findings = UNION {Reported(r) : r \in ToSet(told.work)}

\* The same as NamedHistoryIsWhole of an entity that is matched by what one of its
\* changes is about; the code keeps the changes that match themselves.
MatchedHistoryIsWhole ==
    audit.status = "complete" =>
        \A e \in handed.chosen :
            Turns(<<>>, handed.lists[e]) = Transitions(told.kept, e)
================================================================================
