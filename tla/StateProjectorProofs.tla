------------------------- MODULE StateProjectorProofs -------------------------
(***************************************************************************)
(* Proofs about the passes of project_v8_state, for every conversation      *)
(* length, every clock and every store.                                     *)
(*                                                                          *)
(* The argument: the rows are folded in the order Before, a strict total    *)
(* order on indices, so a folded row is before every row still to be folded *)
(* (InOrder, PassInOrder).  Then writing permission i replaces exactly the  *)
(* entries that i replaces in the closed form, and nothing folded earlier   *)
(* can replace i; a fact or a scene row is the last of its key or id so     *)
(* far.                                                                     *)
(***************************************************************************)
EXTENDS V8Projection, WellFoundedInduction, TLAPS

\* What was folded comes before what is still to be folded.
InOrder == \A i \in Done : \A j \in todo : Before(events, i, j)

IInv == TypeOK /\ InOrder /\ LoopIsClosedForm

-------------------------------------------------------------------------------
(* The order of the rows *)

\* The last turn an event cites is a position of the conversation.
LEMMA LastIsNumber ==
    ASSUME NEW ev \in Seq(Event), NEW i \in Indices(ev)
    PROVE  ev[i].last \in Nat
<1>1. ev[i] \in Event
  BY DEF Indices
<1>2. QED
  BY <1>1, PermissionAssumption DEF Event, Turns

\* sorted() with sequence as key orders the events totally, ties by store position.
LEMMA BeforeIsStrictTotalOrder ==
    ASSUME NEW ev \in Seq(Event), NEW i \in Indices(ev), NEW j \in Indices(ev)
    PROVE  /\ ~Before(ev, i, i)
           /\ ~(Before(ev, i, j) /\ Before(ev, j, i))
           /\ i # j => Before(ev, i, j) \/ Before(ev, j, i)
<1>1. ev[i].last \in Nat /\ ev[j].last \in Nat
  BY LastIsNumber
<1>2. i \in Nat /\ j \in Nat
  BY DEF Indices
<1>3. QED
  BY <1>1, <1>2 DEF Before

\* Replaces is what the code deletes when it folds j: the entry of j's own key
\* and, for a whole-resource change, every entry of j's base.
LEMMA FoldDeletesReplaced ==
    ASSUME NEW ev, NEW i, NEW j, NEW k
    PROVE  ~Replaces(ev, i, j, k) <=>
              /\ Key(ev[j]) # Key(ev[i])
              /\ WholeChange(ev[i], k) => ev[j].base # ev[i].base
BY DEF Replaces

-------------------------------------------------------------------------------
\* Before the loop nothing is folded.
LEMMA InitEstablishes == Init => IInv
BY DEF Init, IInv, TypeOK, InOrder, LoopIsClosedForm, Done, EffectiveIn, Effective, Unreplaced, Indices

\* Taking the next row off the list keeps the folded rows before the others.
LEMMA NextRow ==
    ASSUME IInv, NEW i \in todo, IsNext(i), todo' = todo \ {i}, UNCHANGED <<events, prefix>>
    PROVE  /\ events \in Seq(Event) /\ todo \subseteq Indices(events) /\ Done \subseteq Indices(events)
           /\ Done' = IF Effective(events[i], prefix) THEN Done \cup {i} ELSE Done
           /\ InOrder'
<1>1. events \in Seq(Event) /\ todo \subseteq Indices(events) /\ Done \subseteq Indices(events)
  BY StoresAssumption DEF IInv, TypeOK, Done, EffectiveIn
<1>2. Done' = IF Effective(events[i], prefix) THEN Done \cup {i} ELSE Done
  BY <1>1 DEF Done, EffectiveIn
<1>3. InOrder'
  BY <1>2 DEF IInv, InOrder, IsNext
<1>4. QED
  BY <1>1, <1>2, <1>3

\* An event that is not effective leaves the states alone.
LEMMA SkipKeeps == ASSUME IInv, NEW i \in todo, Skip(i) PROVE IInv'
<1>1. Done' = Done /\ InOrder'
  BY NextRow DEF Skip
<1>2. TypeOK'
  BY <1>1 DEF IInv, TypeOK, Skip
<1>3. LoopIsClosedForm'
  BY <1>1 DEF IInv, LoopIsClosedForm, Skip, Unreplaced
<1>4. QED
  BY <1>1, <1>2, <1>3 DEF IInv

\* Folding one event deletes exactly the states it replaces.
LEMMA FoldKeeps == ASSUME IInv, NEW i \in todo, Fold(i) PROVE IInv'
<1>1. /\ events \in Seq(Event) /\ todo \subseteq Indices(events) /\ Done \subseteq Indices(events)
      /\ Done' = Done \cup {i} /\ InOrder'
  BY NextRow DEF Fold
<1>2. states' = {i} \cup {j \in states : ~Replaces(events, i, j, prefix)}
  BY FoldDeletesReplaced DEF Fold
<1>3. TypeOK'
  BY <1>1, <1>2 DEF IInv, TypeOK, Fold
<1>4. \A j \in Done : Before(events, j, i)
  BY DEF IInv, InOrder
<1>5. Unreplaced(events, Done \cup {i}, prefix) =
         {i} \cup {j \in Unreplaced(events, Done, prefix) : ~Replaces(events, i, j, prefix)}
  <2>1. i \in Unreplaced(events, Done \cup {i}, prefix)
    BY <1>1, <1>4, BeforeIsStrictTotalOrder DEF Unreplaced
  <2>2. ASSUME NEW j \in Done, j # i
        PROVE  j \in Unreplaced(events, Done \cup {i}, prefix) <=>
                  /\ j \in Unreplaced(events, Done, prefix)
                  /\ ~Replaces(events, i, j, prefix)
    BY <1>4 DEF Unreplaced
  <2>3. i \notin Done
    BY DEF Done
  <2>4. QED
    BY <2>1, <2>2, <2>3 DEF Unreplaced
<1>6. LoopIsClosedForm'
  <2>1. Unreplaced(events, Done, prefix)' = Unreplaced(events, Done \cup {i}, prefix)
    BY <1>1 DEF Fold, Unreplaced
  <2>2. QED
    BY <1>2, <1>5, <2>1 DEF IInv, LoopIsClosedForm
<1>7. QED
  BY <1>1, <1>3, <1>6 DEF IInv

\* The states are those of the folded rows that no later folded row replaces.
THEOREM Invariance == Spec => []IInv
<1>1. IInv /\ UNCHANGED vars => IInv'
  BY DEF IInv, TypeOK, InOrder, LoopIsClosedForm, Done, Unreplaced, vars
<1>2. IInv /\ Next => IInv'
  BY SkipKeeps, FoldKeeps DEF Next
<1>3. QED
  BY InitEstablishes, <1>1, <1>2, PTL DEF Spec

-------------------------------------------------------------------------------
(* Theorems *)

\* The loop handles visible events only and writes only effective ones.
THEOREM TypeCorrect == Spec => []TypeOK
<1>1. IInv => TypeOK
  BY DEF IInv
<1>2. QED
  BY <1>1, Invariance, PTL

\* The incremental deletions of the loop compute the closed form.
THEOREM LoopCorrect == Spec => []LoopIsClosedForm
<1>1. IInv => LoopIsClosedForm
  BY DEF IInv
<1>2. QED
  BY <1>1, Invariance, PTL

\* An effective event with the key of a whole-resource change is one itself.
LEMMA SameKeySameChange ==
    ASSUME NEW e, NEW f, NEW k, WholeChange(e, k), Effective(f, k), Key(f) = Key(e)
    PROVE  WholeChange(f, k) /\ f.base = e.base
BY DEF WholeChange, Active, Effective, Key, Expired, Unresolved

\* The last active whole-resource change decides its base, whatever came before.
THEOREM LastChangeWins == Spec => []LastWholeChangeWins
<1>1. ASSUME IInv, todo = {},
             NEW w \in EffectiveIn(events, prefix), WholeChange(events[w], prefix),
             \A j \in EffectiveIn(events, prefix) :
                 WholeChange(events[j], prefix) /\ events[j].base = events[w].base
                    => ~Before(events, w, j)
      PROVE  /\ w \in states
             /\ \A i \in states :
                   i # w /\ events[i].base = events[w].base => Before(events, w, i)
  <2>1. events \in Seq(Event) /\ Done = EffectiveIn(events, prefix)
    BY <1>1, StoresAssumption DEF IInv, TypeOK, Done
  <2>2. w \in states
    <3>1. ASSUME NEW j \in Done, Before(events, w, j), Replaces(events, j, w, prefix)
          PROVE  FALSE
      <4>1. Effective(events[j], prefix)
        BY DEF Done, EffectiveIn
      <4>2. WholeChange(events[j], prefix) /\ events[j].base = events[w].base
        BY <1>1, <3>1, <4>1, SameKeySameChange DEF Replaces
      <4>3. QED
        BY <1>1, <2>1, <3>1, <4>2
    <3>2. QED
      BY <1>1, <2>1, <3>1 DEF IInv, LoopIsClosedForm, Unreplaced
  <2>3. ASSUME NEW i \in states, i # w, events[i].base = events[w].base, ~Before(events, w, i)
        PROVE  FALSE
    <3>1. i \in Indices(events) /\ w \in Indices(events) /\ w \in Done
      BY <1>1, <2>1 DEF IInv, TypeOK, Done, EffectiveIn
    <3>2. Before(events, i, w)
      BY <2>1, <2>3, <3>1, BeforeIsStrictTotalOrder
    <3>3. Replaces(events, w, i, prefix)
      BY <1>1, <2>3 DEF Replaces
    <3>4. QED
      BY <1>1, <3>1, <3>2, <3>3 DEF IInv, LoopIsClosedForm, Unreplaced
  <2>4. QED
    BY <2>2, <2>3
<1>2. IInv => LastWholeChangeWins
  BY <1>1 DEF LastWholeChangeWins
<1>3. QED
  BY <1>2, Invariance, PTL

-------------------------------------------------------------------------------
(* Changes that later ones restate *)

\* A nonempty set of numbers with an upper bound has a greatest one.
LEMMA Greatest ==
    ASSUME NEW b \in Nat, NEW S \in SUBSET (0..b), S # {}
    PROVE  \E m \in S : \A x \in S : x <= m
<1> DEFINE less == {ss \in Nat \X Nat : ss[1] < ss[2]}
           below == {b - x : x \in S}
<1>1. IsWellFoundedOn(less, Nat)
  BY NatLessThanWellFounded DEF OpToRel
<1>2. below \subseteq Nat /\ below # {}
  <2>1. \A x \in S : b - x \in Nat
    OBVIOUS
  <2>2. below # {}
    OBVIOUS
  <2> QED BY <2>1, <2>2
<1>3. \A x, y \in Nat : x < y => <<x, y>> \in less
  OBVIOUS
<1> HIDE DEF less
<1>4. PICK d \in below : \A x \in below : <<x, d>> \notin less
  <2> HIDE DEF below
  <2> QED BY <1>1, <1>2, WFMin
<1>5. PICK m \in S : d = b - m
  OBVIOUS
<1>6. ASSUME NEW x \in S PROVE x <= m
  <2>1. b - x \in below /\ b - x \in Nat /\ d \in Nat
    BY <1>2
  <2>2. ~(b - x < d)
    BY <1>3, <1>4, <2>1
  <2> QED BY <1>5, <2>2
<1> QED BY <1>6

\* Of the events of a nonempty set there is a latest one.
LEMMA LatestExists ==
    ASSUME NEW ev \in Seq(Event), NEW S \in SUBSET Indices(ev), S # {}
    PROVE  \E i \in S : \A j \in S : ~Before(ev, i, j)
<1> DEFINE lasts == {ev[i].last : i \in S}
<1>1. NumTurns \in Nat /\ Len(ev) \in Nat
  BY PermissionAssumption
<1>2. \A i \in S : ev[i].last \in 0..NumTurns /\ i \in 0..Len(ev)
  <2>1. \A i \in S : ev[i] \in Event /\ i \in 0..Len(ev)
    BY DEF Indices
  <2> QED BY <1>1, <2>1 DEF Event, Turns
<1>3. PICK l \in lasts : \A x \in lasts : x <= l
  <2>1. lasts \in SUBSET (0..NumTurns) /\ lasts # {}
    BY <1>2
  <2> HIDE DEF lasts
  <2> QED BY <1>1, <2>1, Greatest
<1> DEFINE top == {i \in S : ev[i].last = l}
<1>4. PICK i \in top : \A j \in top : j <= i
  <2>1. top \in SUBSET (0..Len(ev)) /\ top # {}
    BY <1>2
  <2> HIDE DEF top
  <2> QED BY <1>1, <2>1, Greatest
<1>5. ASSUME NEW j \in S, Before(ev, i, j) PROVE FALSE
  <2>1. ev[i].last = l /\ ev[j].last <= l
    BY <1>3
  <2>2. ev[j].last = l /\ i < j
    BY <1>2, <1>5, <2>1 DEF Before
  <2>3. j <= i
    BY <1>4, <2>2
  <2> QED BY <1>2, <2>2, <2>3
<1> QED BY <1>5

\* An advisory change is one at every later checkpoint: nothing ends it.
LEMMA AdvisoryLasts ==
    ASSUME NEW e \in Event, NEW k \in Prefixes, NEW l \in Prefixes, k <= l, Visible(e, k), Advisory(e, k)
    PROVE  Visible(e, l) /\ Advisory(e, l) /\ Active(e, l)
<1>1. k \in Nat /\ l \in Nat /\ e.last \in Nat /\ e.from \in Nat
  BY PermissionAssumption DEF Prefixes, Event, Turns
<1>2. Visible(e, l) /\ ~Pending(e, l)
  BY <1>1 DEF Visible, Advisory, WholeChange, Active, Pending
<1>3. ~Expired(e, l) /\ ~Unresolved(e, l)
  BY DEF Advisory, Expired, Unresolved
<1> QED BY <1>2, <1>3 DEF Advisory, WholeChange, Active

\* What is left out of a prompt is restated in that of every later checkpoint: by the
\* latest change of its base.
LEMMA FoldedIsRestated ==
    ASSUME events \in Seq(Event), prefix \in Prefixes
    PROVE  FoldedStaysRestated
<1> SUFFICES ASSUME NEW k \in 0..prefix, NEW i \in Folded(k)
             PROVE  \E j \in LifecycleView(prefix) :
                       /\ i \notin LifecycleView(prefix)
                       /\ events[j].base = events[i].base
                       /\ Active(events[j], prefix)
                       /\ Before(events, i, j)
  BY DEF FoldedStaysRestated
<1>1. k \in Prefixes /\ k <= prefix
  BY PermissionAssumption DEF Prefixes
<1> DEFINE rivals == {j \in LifecycleEvents(prefix) :
                         Advisory(events[j], prefix) /\ events[j].base = events[i].base}
<1>2. \A j \in LifecycleEvents(k) : Advisory(events[j], k) =>
          /\ j \in LifecycleEvents(prefix)
          /\ Advisory(events[j], prefix)
  <2> SUFFICES ASSUME NEW j \in LifecycleEvents(k), Advisory(events[j], k)
               PROVE  j \in LifecycleEvents(prefix) /\ Advisory(events[j], prefix)
    OBVIOUS
  <2>1. j \in Indices(events) /\ Visible(events[j], k) /\ events[j].kind = "lifecycle"
    BY DEF LifecycleEvents
  <2>2. events[j] \in Event
    BY <2>1 DEF Indices
  <2> QED BY <1>1, <2>1, <2>2, AdvisoryLasts DEF LifecycleEvents
<1>3. PICK j \in rivals : Before(events, i, j)
  BY <1>2 DEF Folded
<1>4. i \in rivals
  BY <1>2 DEF Folded
<1>5. rivals \subseteq Indices(events)
  BY DEF LifecycleEvents
<1> DEFINE later == {m \in rivals : Before(events, i, m)}
<1>6. PICK m \in later : \A n \in later : ~Before(events, m, n)
  <2>1. later \in SUBSET Indices(events) /\ later # {}
    BY <1>3, <1>5
  <2> HIDE DEF later
  <2> QED BY <2>1, LatestExists
<1>7. m \in LifecycleView(prefix)
  <2>1. ASSUME NEW n \in rivals, Before(events, m, n) PROVE FALSE
    <3>1. i \in Indices(events) /\ m \in Indices(events) /\ n \in Indices(events)
      BY <1>4, <1>5
    <3>2. events[i].last \in Nat /\ events[m].last \in Nat /\ events[n].last \in Nat
      BY <3>1, LastIsNumber
    <3>3. Before(events, i, n)
      <4>1. i \in Nat /\ m \in Nat /\ n \in Nat
        BY <3>1 DEF Indices
      <4>2. Before(events, i, m)
        OBVIOUS
      <4> QED BY <2>1, <3>2, <4>1, <4>2 DEF Before
    <3> QED BY <1>6, <2>1, <3>3
  <2> QED BY <2>1 DEF LifecycleView, Folded
<1>8. i \notin LifecycleView(prefix)
  BY <1>3, <1>4 DEF LifecycleView, Folded
<1>9. Active(events[m], prefix)
  BY DEF Advisory, WholeChange
<1> QED BY <1>7, <1>8, <1>9

\* Time does not run backwards: of two turns with a comparable time the later one is
\* not the earlier one.
TurnsAreChronological == \A k, l \in 0..NumTurns : k <= l /\ Clock[l] # 0 => Clock[k] <= Clock[l]

\* A permission that has ended is not active later: an end that was reached stays so or
\* cannot be compared.
LEMMA EndedStaysEnded ==
    ASSUME TurnsAreChronological, events \in Seq(Event), prefix \in Prefixes
    PROVE  ExpiryIsFinal
<1> SUFFICES ASSUME NEW i \in Indices(events), NEW k \in 0..prefix, Expired(events[i], k)
             PROVE  Activation(events[i], prefix) # "active"
  BY DEF ExpiryIsFinal
<1> DEFINE e == events[i]
<1>1. e \in Event
  BY DEF Indices
<1>2. k \in 0..NumTurns /\ prefix \in 0..NumTurns /\ k <= prefix
  BY PermissionAssumption DEF Prefixes
<1>3. Clock[k] \in Nat /\ Clock[prefix] \in Nat /\ e.until.at \in Nat
  BY <1>1, <1>2, PermissionAssumption DEF Event, Until
<1>4. Expired(e, prefix) \/ Unresolved(e, prefix)
  <2>1. CASE e.until.form = "turn"
    BY <1>2, <2>1 DEF Expired, Unresolved
  <2>2. CASE e.until.form = "date" /\ Clock[prefix] = 0
    BY <2>2 DEF Unresolved
  <2>3. CASE e.until.form = "date" /\ Clock[prefix] # 0
    BY <1>2, <1>3, <2>3 DEF Expired, TurnsAreChronological
  <2> QED BY <2>1, <2>2, <2>3 DEF Expired
<1>5. ~Active(e, prefix)
  BY <1>4 DEF Active
<1> QED BY <1>5 DEF Activation

-------------------------------------------------------------------------------
(* The passes before the permission loop *)

PassNames == {"scenes", "entities", "relations", "facts", "events"}

\* The rows of a collection that were folded.
FoldedOf(c) ==
    IF After(c) THEN VisibleRows(graph[c])
    ELSE IF pass = c THEN VisibleRows(graph[c]) \ rest ELSE {}

\* What was folded in this pass comes before what is still to be folded.
PassInOrder ==
    pass # "events" =>
        /\ rest \subseteq VisibleRows(graph[pass])
        /\ \A i \in VisibleRows(graph[pass]) \ rest : \A j \in rest : Before(graph[pass], i, j)

Entry == [row : Nat, members : SUBSET Names, spans : SUBSET Turns]
Joining(relations, joins, id) ==
    {relations[j].source :
        j \in {m \in joins : relations[m].type = "participates_in" /\ relations[m].target = id}}

\* What a merged table holds at checkpoint k when the rows in "done" and the
\* relations in "joins" were folded.
IsMerged(table, rows, done, relations, joins, k) ==
    LET ids == {rows[i].id : i \in done}
        of(id) == {i \in done : rows[i].id = id}
    IN  /\ table \in [ids -> Entry]
        /\ \A id \in ids :
              /\ table[id].row \in of(id)
              /\ \A i \in of(id) : ~Before(rows, table[id].row, i)
              /\ table[id].members =
                    (UNION {rows[i].members : i \in of(id)}) \cup Joining(relations, joins, id)
              /\ \A turn \in table[id].spans : turn <= k

FoldInv ==
    /\ IInv
    /\ graph \in Graphs
    /\ pass \in PassNames
    /\ PassInOrder
    /\ CurrentFactIsLatest
    /\ IsMerged(scenes, graph.scenes, FoldedOf("scenes"), graph.relations, FoldedOf("relations"), prefix)
    /\ IsMerged(entities, graph.entities, FoldedOf("entities"), graph.relations, {}, prefix)

Precedes(c, d) == \E m, n \in 1..5 : m < n /\ Collections[m] = c /\ Collections[n] = d

\* The order of the passes.
LEMMA CollectionOrder ==
    ASSUME NEW d \in PassNames
    PROVE  /\ Precedes("scenes", d) <=> d # "scenes"
           /\ Precedes("entities", d) <=> d \notin {"scenes", "entities"}
           /\ Precedes("relations", d) <=> d \in {"facts", "events"}
           /\ Precedes("facts", d) <=> d = "events"
<1>1. /\ Collections[1] = "scenes" /\ Collections[2] = "entities" /\ Collections[3] = "relations"
      /\ Collections[4] = "facts" /\ Collections[5] = "events"
  BY DEF Collections
<1>2. \A n \in 1..5 : n = 1 \/ n = 2 \/ n = 3 \/ n = 4 \/ n = 5
  OBVIOUS
<1>3. Precedes("scenes", d) <=> d # "scenes"
  BY <1>1, <1>2 DEF PassNames, Precedes
<1>4. Precedes("entities", d) <=> d \notin {"scenes", "entities"}
  BY <1>1, <1>2 DEF PassNames, Precedes
<1>5. Precedes("relations", d) <=> d \in {"facts", "events"}
  BY <1>1, <1>2 DEF PassNames, Precedes
<1>6. Precedes("facts", d) <=> d = "events"
  BY <1>1, <1>2 DEF PassNames, Precedes
<1> QED BY <1>3, <1>4, <1>5, <1>6

\* Which passes are over.
LEMMA PassOrder ==
    ASSUME pass \in PassNames
    PROVE  /\ After("scenes") <=> pass # "scenes"
           /\ After("entities") <=> pass \notin {"scenes", "entities"}
           /\ After("relations") <=> pass \in {"facts", "events"}
           /\ After("facts") <=> pass = "events"
<1>1. \A c : After(c) <=> Precedes(c, pass)
  BY DEF After, Precedes
<1> QED BY <1>1, CollectionOrder

\* The pass that follows each of the others.
LEMMA Successor ==
    /\ Collections[NextOf("scenes")] = "entities"
    /\ Collections[NextOf("entities")] = "relations"
    /\ Collections[NextOf("relations")] = "facts"
    /\ Collections[NextOf("facts")] = "events"
<1>1. /\ Collections[1] = "scenes" /\ Collections[2] = "entities" /\ Collections[3] = "relations"
      /\ Collections[4] = "facts" /\ Collections[5] = "events"
  BY DEF Collections
<1>2. \A n \in 1..5 : n = 1 \/ n = 2 \/ n = 3 \/ n = 4 \/ n = 5
  OBVIOUS
<1>3. ASSUME NEW c \in 1..4
      PROVE  NextOf(Collections[c]) = c + 1
  <2>1. c + 1 \in 1..5 /\ c + 1 > 1 /\ Collections[(c + 1) - 1] = Collections[c]
    OBVIOUS
  <2>2. \A d \in 1..5 : d > 1 /\ Collections[d - 1] = Collections[c] => d = c + 1
    BY <1>1, <1>2
  <2> QED BY <2>1, <2>2 DEF NextOf
<1> QED BY <1>1, <1>3

\* sorted() orders the rows of every collection.
LEMMA RowOrder ==
    ASSUME NEW rows, NEW i \in Nat, NEW j \in Nat, rows[i].last \in Nat, rows[j].last \in Nat
    PROVE  /\ ~Before(rows, i, i)
           /\ ~(Before(rows, i, j) /\ Before(rows, j, i))
           /\ i # j => Before(rows, i, j) \/ Before(rows, j, i)
BY DEF Before

\* A visible row cites turns of the prefix only.
LEMMA VisibleRow ==
    ASSUME NEW R, NEW rows \in Seq(R), NEW i \in VisibleRows(rows), prefix \in Prefixes,
           R \subseteq Spanned(R), \A r \in R : r.first \in Turns /\ r.last \in Turns
    PROVE  /\ i \in Nat /\ rows[i] \in R /\ rows[i].last \in Nat
           /\ \A turn \in Spans(rows[i]) : turn \in Turns /\ turn <= prefix
<1>1. i \in 1..Len(rows) /\ rows[i] \in R /\ rows[i].last <= prefix
  BY DEF VisibleRows, Visible
<1>2. rows[i].first \in Turns /\ rows[i].last \in Turns /\ rows[i].first <= rows[i].last
  BY <1>1 DEF Spanned
<1>3. \A turn \in Turns : turn \in Nat
  BY PermissionAssumption DEF Turns
<1>4. prefix \in Nat
  BY PermissionAssumption DEF Prefixes
<1>5. rows[i].first <= prefix
  BY <1>1, <1>2, <1>3, <1>4
<1> QED BY <1>1, <1>2, <1>3, <1>5 DEF Spans

\* The rows of a store.
LEMMA GraphRows ==
    ASSUME graph \in Graphs, prefix \in Prefixes
    PROVE  /\ \A i \in VisibleRows(graph.scenes) :
                 /\ i \in Nat /\ graph.scenes[i] \in MergedRow(SceneIds) /\ graph.scenes[i].last \in Nat
                 /\ \A turn \in Spans(graph.scenes[i]) : turn \in Turns /\ turn <= prefix
           /\ \A i \in VisibleRows(graph.entities) :
                 /\ i \in Nat /\ graph.entities[i] \in MergedRow(EntityIds) /\ graph.entities[i].last \in Nat
                 /\ \A turn \in Spans(graph.entities[i]) : turn \in Turns /\ turn <= prefix
           /\ \A i \in VisibleRows(graph.relations) :
                 /\ i \in Nat /\ graph.relations[i] \in Relation /\ graph.relations[i].last \in Nat
                 /\ \A turn \in Spans(graph.relations[i]) : turn \in Turns /\ turn <= prefix
           /\ \A i \in VisibleRows(graph.facts) :
                 i \in Nat /\ graph.facts[i] \in Fact /\ graph.facts[i].last \in Nat
<1>1. /\ graph.scenes \in Seq(MergedRow(SceneIds)) /\ graph.entities \in Seq(MergedRow(EntityIds))
      /\ graph.relations \in Seq(Relation) /\ graph.facts \in Seq(Fact)
  BY GraphsAssumption
<1>2. \A ids : /\ MergedRow(ids) \subseteq Spanned(MergedRow(ids))
               /\ \A r \in MergedRow(ids) : r.first \in Turns /\ r.last \in Turns
  BY DEF MergedRow, Spanned
<1>3. /\ Relation \subseteq Spanned(Relation) /\ \A r \in Relation : r.first \in Turns /\ r.last \in Turns
      /\ Fact \subseteq Spanned(Fact) /\ \A r \in Fact : r.first \in Turns /\ r.last \in Turns
  BY DEF Relation, Fact, Spanned
<1> QED BY <1>1, <1>2, <1>3, VisibleRow

\* The state of the store and the checkpoint, for a step that leaves the loop alone.
LEMMA LoopWaits == ASSUME IInv, UNCHANGED vars PROVE IInv'
BY DEF IInv, TypeOK, InOrder, LoopIsClosedForm, Done, Unreplaced, vars

\* The passes start with nothing folded.
LEMMA FoldsStartEmpty == ProjectInit => FoldInv
<1> SUFFICES ASSUME ProjectInit PROVE FoldInv
  OBVIOUS
<1>1. IInv /\ graph \in Graphs /\ pass = "scenes" /\ rest = VisibleRows(graph.scenes)
  BY InitEstablishes DEF ProjectInit, StartFolds
<1>2. /\ FoldedOf("scenes") = {} /\ FoldedOf("entities") = {} /\ FoldedOf("relations") = {}
      /\ FactsDone = {}
  BY <1>1, PassOrder DEF FoldedOf, FactsDone, PassNames
<1>3. IsMerged(NoRows, graph.scenes, {}, graph.relations, {}, prefix)
  BY DEF IsMerged, NoRows
<1>4. IsMerged(NoRows, graph.entities, {}, graph.relations, {}, prefix)
  BY DEF IsMerged, NoRows
<1>5. PassInOrder
  BY <1>1 DEF PassInOrder
<1>6. CurrentFactIsLatest
  BY <1>2 DEF CurrentFactIsLatest, ProjectInit, StartFolds
<1> QED BY <1>1, <1>2, <1>3, <1>4, <1>5, <1>6 DEF FoldInv, ProjectInit, StartFolds, PassNames

\* The next pass starts when the rows of the last one are folded; nothing counts as
\* folded that was not.
LEMMA NextPassKeeps == ASSUME FoldInv, NextPass PROVE FoldInv'
<1> USE DEF FoldInv
<1>1. /\ pass \in PassNames /\ pass # "events" /\ rest = {} /\ pass' = Collections[NextOf(pass)]
      /\ rest' = IF pass' = "events" THEN {} ELSE VisibleRows(graph[pass'])
  BY DEF NextPass, StartPass
<1>2. UNCHANGED vars /\ UNCHANGED <<graph, prefix, scenes, entities, current>>
  BY DEF NextPass, vars
<1>3. \/ pass = "scenes" /\ pass' = "entities"
      \/ pass = "entities" /\ pass' = "relations"
      \/ pass = "relations" /\ pass' = "facts"
      \/ pass = "facts" /\ pass' = "events"
  BY <1>1, Successor DEF PassNames
<1>4. pass' \in PassNames
  BY <1>3 DEF PassNames
<1>5. /\ After("scenes")' <=> pass' # "scenes"
      /\ After("entities")' <=> pass' \notin {"scenes", "entities"}
      /\ After("relations")' <=> pass' \in {"facts", "events"}
      /\ After("facts")' <=> pass' = "events"
  <2>1. \A c : (After(c))' <=> Precedes(c, pass')
    BY DEF After, Precedes
  <2> QED BY <1>4, <2>1, CollectionOrder
<1>6. \A c : VisibleRows(graph[c])' = VisibleRows(graph[c])
  BY <1>2 DEF VisibleRows
<1>7. /\ FoldedOf("scenes")' = FoldedOf("scenes") /\ FoldedOf("entities")' = FoldedOf("entities")
      /\ FoldedOf("relations")' = FoldedOf("relations") /\ FactsDone' = FactsDone
  BY <1>1, <1>2, <1>3, <1>5, <1>6, PassOrder DEF FoldedOf, FactsDone
<1>8. PassInOrder'
  BY <1>1, <1>6 DEF PassInOrder
<1>9. CurrentFactIsLatest'
  BY <1>2, <1>7 DEF CurrentFactIsLatest, LastOfKey
<1>10. IInv'
  BY <1>2, LoopWaits
<1> QED BY <1>2, <1>4, <1>7, <1>8, <1>9, <1>10

\* Taking the next row of a pass.
LEMMA TakeRow ==
    ASSUME FoldInv, NEW c \in PassNames \ {"events"}, NEW i, NextRowOf(c, i), UNCHANGED <<graph, prefix, pass>>
    PROVE  /\ i \in VisibleRows(graph[c]) /\ i \notin FoldedOf(c)
           /\ FoldedOf(c) \subseteq VisibleRows(graph[c])
           /\ FoldedOf(c)' = FoldedOf(c) \cup {i}
           /\ \A j \in FoldedOf(c) : Before(graph[c], j, i)
           /\ \A d \in PassNames \ {c} : FoldedOf(d)' = FoldedOf(d)
           /\ PassInOrder'
<1> USE DEF FoldInv
<1>1. pass = c /\ i \in rest /\ rest' = rest \ {i} /\ rest \subseteq VisibleRows(graph[c])
  BY DEF NextRowOf, PassInOrder
<1>2. \A d : (After(d))' <=> After(d)
  BY DEF After
<1>3. \A d : VisibleRows(graph[d])' = VisibleRows(graph[d])
  BY DEF VisibleRows
<1>4. ~After(c)
  BY <1>1, PassOrder DEF PassNames
<1>5. FoldedOf(c) = VisibleRows(graph[c]) \ rest /\ FoldedOf(c)' = VisibleRows(graph[c]) \ rest'
  BY <1>1, <1>2, <1>3, <1>4 DEF FoldedOf
<1>6. \A d \in PassNames \ {c} : FoldedOf(d)' = FoldedOf(d)
  BY <1>1, <1>2, <1>3 DEF FoldedOf
<1>7. PassInOrder'
  BY <1>1, <1>3 DEF PassInOrder, NextRowOf
<1>8. \A j \in FoldedOf(c) : Before(graph[c], j, i)
  BY <1>1, <1>5 DEF PassInOrder
<1> QED BY <1>1, <1>5, <1>6, <1>7, <1>8

\* Merging one more row into a table.
LEMMA MergeKeeps ==
    ASSUME NEW ids, NEW table, NEW rows, NEW done, NEW relations, NEW k, NEW i \in Nat, i \notin done,
           IsMerged(table, rows, done, relations, {}, k),
           rows[i] \in MergedRow(ids), rows[i].last \in Nat,
           \A j \in done : j \in Nat /\ rows[j].last \in Nat /\ Before(rows, j, i),
           \A turn \in Spans(rows[i]) : turn \in Turns /\ turn <= k
    PROVE  IsMerged(Merged(table, rows[i], i), rows, done \cup {i}, relations, {}, k)
<1> DEFINE keys == {rows[j].id : j \in done}
           new == rows[i].id
           old == IF new \in keys THEN table[new] ELSE [row |-> i, members |-> {}, spans |-> {}]
           entry == [row |-> i, members |-> old.members \cup rows[i].members,
                     spans |-> old.spans \cup Spans(rows[i])]
           merged == [id \in keys \cup {new} |-> IF id # new THEN table[id] ELSE entry]
<1>1. table \in [keys -> Entry] /\ DOMAIN table = keys
  BY DEF IsMerged
<1>2. Merged(table, rows[i], i) = merged
  BY <1>1 DEF Merged
<1>3. rows[i].members \in SUBSET Names
  BY DEF MergedRow, Spanned
<1>4. old.members \in SUBSET Names /\ old.spans \in SUBSET Turns /\ \A turn \in old.spans : turn <= k
  <2>1. CASE new \in keys
    <3>1. table[new] \in Entry /\ \A turn \in table[new].spans : turn <= k
      BY <1>1, <2>1 DEF IsMerged
    <3> QED BY <2>1, <3>1 DEF Entry
  <2>2. CASE new \notin keys
    BY <2>2
  <2> QED BY <2>1, <2>2
<1>5. old.members = UNION {rows[j].members : j \in {m \in done : rows[m].id = new}}
  <2>1. CASE new \in keys
    BY <2>1 DEF IsMerged, Joining
  <2>2. CASE new \notin keys
    BY <2>2
  <2> QED BY <2>1, <2>2
<1> HIDE DEF old
<1>6. entry \in Entry /\ \A turn \in entry.spans : turn <= k
  BY <1>3, <1>4 DEF Entry
<1>7. {rows[j].id : j \in done \cup {i}} = keys \cup {new}
  OBVIOUS
<1>8. merged \in [keys \cup {new} -> Entry]
  BY <1>1, <1>6
<1>9. ASSUME NEW id \in keys \cup {new}
      PROVE  LET of == {j \in done \cup {i} : rows[j].id = id}
             IN  /\ merged[id].row \in of
                 /\ \A j \in of : ~Before(rows, merged[id].row, j)
                 /\ merged[id].members = (UNION {rows[j].members : j \in of}) \cup Joining(relations, {}, id)
                 /\ \A turn \in merged[id].spans : turn <= k
  <2>1. CASE id # new
    <3>1. merged[id] = table[id] /\ id \in keys
      BY <2>1
    <3>2. {j \in done \cup {i} : rows[j].id = id} = {j \in done : rows[j].id = id}
      BY <2>1
    <3> HIDE DEF merged
    <3> QED BY <3>1, <3>2 DEF IsMerged
  <2>2. CASE id = new
    <3>1. merged[id] = entry
      BY <2>2
    <3>2. {j \in done \cup {i} : rows[j].id = id} = {j \in done : rows[j].id = new} \cup {i}
      BY <2>2
    <3>3. \A j \in done \cup {i} : ~Before(rows, i, j)
      BY RowOrder
    <3>4. entry.members = UNION {rows[j].members : j \in {m \in done : rows[m].id = new} \cup {i}}
      BY <1>5
    <3>5. Joining(relations, {}, id) = {}
      BY DEF Joining
    <3>6. entry.row = i
      OBVIOUS
    <3> HIDE DEF merged, entry
    <3> QED BY <1>6, <2>2, <3>1, <3>2, <3>3, <3>4, <3>5, <3>6
  <2> QED BY <2>1, <2>2
<1> HIDE DEF merged, keys, new
<1> QED BY <1>2, <1>7, <1>8, <1>9 DEF IsMerged

\* A scene or entity row is merged with the earlier rows of its id.
LEMMA FoldMergedKeeps ==
    ASSUME FoldInv, NEW i, FoldScene(i) \/ FoldEntity(i)
    PROVE  FoldInv'
<1> USE DEF FoldInv
<1>1. UNCHANGED vars /\ UNCHANGED <<graph, prefix, pass, current>>
  BY DEF FoldScene, FoldEntity, vars
<1>2. prefix \in Prefixes /\ IInv'
  BY <1>1, LoopWaits DEF IInv, TypeOK
<1>4. CASE FoldScene(i)
  <2>1. NextRowOf("scenes", i) /\ pass = "scenes" /\ UNCHANGED entities
        /\ scenes' = Merged(scenes, graph.scenes[i], i)
    BY <1>4 DEF FoldScene, NextRowOf
  <2>2. /\ i \in VisibleRows(graph.scenes) /\ i \notin FoldedOf("scenes")
        /\ FoldedOf("scenes") \subseteq VisibleRows(graph.scenes)
        /\ FoldedOf("scenes")' = FoldedOf("scenes") \cup {i}
        /\ \A j \in FoldedOf("scenes") : Before(graph.scenes, j, i)
        /\ \A d \in PassNames \ {"scenes"} : FoldedOf(d)' = FoldedOf(d)
        /\ PassInOrder'
    BY <1>1, <2>1, TakeRow DEF PassNames
  <2>3. FoldedOf("relations") = {}
    BY <2>1, PassOrder DEF FoldedOf
  <2>4. IsMerged(scenes', graph.scenes, FoldedOf("scenes") \cup {i}, graph.relations, {}, prefix)
    BY <1>2, <2>1, <2>2, <2>3, GraphRows, MergeKeeps
  <2>5. FactsDone' = FactsDone
    BY <1>1, <2>1 DEF FactsDone, After, VisibleRows
  <2>6. CurrentFactIsLatest'
    BY <1>1, <2>5 DEF CurrentFactIsLatest, LastOfKey
  <2> QED BY <1>1, <1>2, <2>1, <2>2, <2>3, <2>4, <2>6 DEF PassNames
<1>5. CASE FoldEntity(i)
  <2>1. NextRowOf("entities", i) /\ pass = "entities" /\ UNCHANGED scenes
        /\ entities' = Merged(entities, graph.entities[i], i)
    BY <1>5 DEF FoldEntity, NextRowOf
  <2>2. /\ i \in VisibleRows(graph.entities) /\ i \notin FoldedOf("entities")
        /\ FoldedOf("entities") \subseteq VisibleRows(graph.entities)
        /\ FoldedOf("entities")' = FoldedOf("entities") \cup {i}
        /\ \A j \in FoldedOf("entities") : Before(graph.entities, j, i)
        /\ \A d \in PassNames \ {"entities"} : FoldedOf(d)' = FoldedOf(d)
        /\ PassInOrder'
    BY <1>1, <2>1, TakeRow DEF PassNames
  <2>3. IsMerged(entities', graph.entities, FoldedOf("entities") \cup {i}, graph.relations, {}, prefix)
    BY <1>2, <2>1, <2>2, GraphRows, MergeKeeps
  <2>4. FactsDone' = FactsDone
    BY <1>1, <2>1 DEF FactsDone, After, VisibleRows
  <2>5. CurrentFactIsLatest'
    BY <1>1, <2>4 DEF CurrentFactIsLatest, LastOfKey
  <2> QED BY <1>1, <1>2, <2>1, <2>2, <2>3, <2>5 DEF PassNames
<1> QED BY <1>4, <1>5

\* A participation adds its source to its scene, if that is there, and nothing else.
LEMMA FoldRelationKeeps == ASSUME FoldInv, NEW i, FoldRelation(i) PROVE FoldInv'
<1> USE DEF FoldInv
<1> DEFINE r == graph.relations[i]
           joins == FoldedOf("relations")
           done == FoldedOf("scenes")
           ids == {graph.scenes[j].id : j \in done}
<1>1. UNCHANGED vars /\ UNCHANGED <<graph, prefix, pass, current, entities>>
  BY DEF FoldRelation, vars
<1>2. prefix \in Prefixes /\ IInv'
  BY <1>1, LoopWaits DEF IInv, TypeOK
<1>3. NextRowOf("relations", i) /\ pass = "relations"
  BY DEF FoldRelation, NextRowOf
<1>4. /\ i \in VisibleRows(graph.relations)
      /\ FoldedOf("relations")' = joins \cup {i}
      /\ \A d \in PassNames \ {"relations"} : FoldedOf(d)' = FoldedOf(d)
      /\ PassInOrder'
  BY <1>1, <1>3, TakeRow DEF PassNames
<1>5. r \in Relation /\ \A turn \in Spans(r) : turn \in Turns /\ turn <= prefix
  BY <1>2, <1>4, GraphRows
<1>6. scenes \in [ids -> Entry] /\ DOMAIN scenes = ids
  BY DEF IsMerged
<1>7. \A id : Joining(graph.relations, joins \cup {i}, id) =
                 Joining(graph.relations, joins, id) \cup
                 (IF r.type = "participates_in" /\ r.target = id THEN {r.source} ELSE {})
  BY DEF Joining
<1>8. IsMerged(scenes, graph.scenes, done, graph.relations, joins, prefix)
  OBVIOUS
<1> HIDE DEF joins, done
<1>9. IsMerged(scenes', graph.scenes, done, graph.relations, joins \cup {i}, prefix)
  <2>1. CASE ~Joins(r)
    <3>1. scenes' = scenes
      BY <2>1 DEF FoldRelation
    <3>2. \A id \in ids : scenes[id].members =
              scenes[id].members \cup (IF r.type = "participates_in" /\ r.target = id THEN {r.source} ELSE {})
      BY <1>6, <2>1 DEF Joins
    <3>3. \A id \in ids : scenes[id].members =
              (UNION {graph.scenes[j].members : j \in {m \in done : graph.scenes[m].id = id}})
              \cup Joining(graph.relations, joins \cup {i}, id)
      BY <1>7, <1>8, <3>2 DEF IsMerged
    <3> HIDE DEF r
    <3> QED BY <1>8, <3>1, <3>3 DEF IsMerged
  <2>2. CASE Joins(r)
    <3> DEFINE t == r.target
               entry == [scenes[t] EXCEPT !.members = @ \cup {r.source}, !.spans = @ \cup Spans(r)]
    <3>1. t \in ids /\ r.type = "participates_in"
      BY <1>6, <2>2 DEF Joins
    <3>2. scenes[t] \in Entry
      BY <1>6, <3>1
    <3>3. scenes' = [scenes EXCEPT ![t] = entry]
      <4>1. scenes' = [scenes EXCEPT ![t].members = @ \cup {r.source}, ![t].spans = @ \cup Spans(r)]
        BY <2>2 DEF FoldRelation
      <4>2. scenes' = [scenes EXCEPT ![t] = [scenes[t] EXCEPT !.members = @ \cup {r.source},
                                                             !.spans = @ \cup Spans(r)]]
        BY <1>6, <3>1, <4>1
      <4> QED BY <4>2
    <3>4. r.source \in Names
      BY <1>5 DEF Relation, Spanned
    <3>5. \A turn \in scenes[t].spans : turn <= prefix
      BY <1>8, <3>1 DEF IsMerged
    <3>6. entry \in Entry /\ \A turn \in entry.spans : turn <= prefix
      BY <1>5, <3>2, <3>4, <3>5 DEF Entry
    <3>7. entry.row = scenes[t].row /\ entry.members = scenes[t].members \cup {r.source}
      BY <3>2 DEF Entry
    <3>8. Joining(graph.relations, joins \cup {i}, t) = Joining(graph.relations, joins, t) \cup {r.source}
      BY <1>7, <3>1
    <3>9. \A id \in ids \ {t} :
              Joining(graph.relations, joins \cup {i}, id) = Joining(graph.relations, joins, id)
      BY <1>7
    <3> HIDE DEF entry, t
    <3>10. scenes' \in [ids -> Entry]
      BY <1>6, <3>3, <3>6
    <3>11. ASSUME NEW id \in ids
           PROVE  LET of == {j \in done : graph.scenes[j].id = id}
                  IN  /\ scenes'[id].row \in of
                      /\ \A j \in of : ~Before(graph.scenes, scenes'[id].row, j)
                      /\ scenes'[id].members = (UNION {graph.scenes[j].members : j \in of})
                                               \cup Joining(graph.relations, joins \cup {i}, id)
                      /\ \A turn \in scenes'[id].spans : turn <= prefix
      <4>1. CASE id = t
        <5>1. scenes'[id] = entry
          BY <1>6, <3>3, <4>1
        <5>2. scenes[t].members = (UNION {graph.scenes[j].members : j \in {m \in done : graph.scenes[m].id = t}})
                                  \cup Joining(graph.relations, joins, t)
          BY <1>8, <3>1 DEF IsMerged
        <5>3. scenes[t].row \in {j \in done : graph.scenes[j].id = t}
              /\ \A j \in {m \in done : graph.scenes[m].id = t} : ~Before(graph.scenes, scenes[t].row, j)
          BY <1>8, <3>1 DEF IsMerged
        <5>4. entry.members = (UNION {graph.scenes[j].members : j \in {m \in done : graph.scenes[m].id = t}})
                              \cup Joining(graph.relations, joins \cup {i}, t)
          BY <3>7, <3>8, <5>2
        <5> QED BY <3>6, <3>7, <4>1, <5>1, <5>3, <5>4
      <4>2. CASE id # t
        <5>1. scenes'[id] = scenes[id]
          BY <1>6, <3>3, <4>2
        <5> HIDE DEF ids
        <5> QED BY <1>8, <3>9, <4>2, <5>1 DEF IsMerged, ids
      <4> QED BY <4>1, <4>2
    <3> QED BY <3>10, <3>11 DEF IsMerged
  <2> QED BY <2>1, <2>2
<1>10. FactsDone' = FactsDone
  BY <1>1, <1>3 DEF FactsDone, After, VisibleRows
<1>11. CurrentFactIsLatest'
  BY <1>1, <1>10 DEF CurrentFactIsLatest, LastOfKey
<1> QED BY <1>1, <1>2, <1>4, <1>9, <1>11 DEF PassNames, done, joins

\* Folding one fact leaves of its key this fact, or none.
LEMMA FoldFactKeeps == ASSUME FoldInv, NEW i, FoldFact(i) PROVE FoldInv'
<1> USE DEF FoldInv
<1> DEFINE fact(j) == graph.facts[j]
<1>1. UNCHANGED vars /\ UNCHANGED <<graph, prefix, pass, scenes, entities>>
  BY DEF FoldFact, vars
<1>2. prefix \in Prefixes /\ IInv'
  BY <1>1, LoopWaits DEF IInv, TypeOK
<1>3. NextRowOf("facts", i) /\ pass = "facts"
  BY DEF FoldFact, NextRowOf
<1>4. /\ i \in VisibleRows(graph.facts) /\ i \notin FoldedOf("facts")
      /\ FoldedOf("facts") \subseteq VisibleRows(graph.facts)
      /\ FoldedOf("facts")' = FoldedOf("facts") \cup {i}
      /\ \A j \in FoldedOf("facts") : Before(graph.facts, j, i)
      /\ \A d \in PassNames \ {"facts"} : FoldedOf(d)' = FoldedOf(d)
      /\ PassInOrder'
  BY <1>1, <1>3, TakeRow DEF PassNames
<1>5. FactsDone = FoldedOf("facts") /\ FactsDone' = FoldedOf("facts")'
  BY <1>1, <1>3 DEF FactsDone, FoldedOf
<1>6. current' = {j \in current : fact(j).key # fact(i).key} \cup (IF Deletes(fact(i)) THEN {} ELSE {i})
  BY DEF FoldFact, OthersOf
<1>7. \A j \in FactsDone \cup {i} : ~Before(graph.facts, i, j)
  <2>1. \A j \in FactsDone \cup {i} : j \in Nat /\ graph.facts[j].last \in Nat
    BY <1>2, <1>4, <1>5, GraphRows
  <2> QED BY <1>4, <1>5, <2>1, RowOrder
<1>8. \A j \in FactsDone \cup {i} :
         LastOfKey(j)' <=> \A m \in FactsDone \cup {i} : fact(m).key = fact(j).key => ~Before(graph.facts, j, m)
  BY <1>1, <1>4, <1>5 DEF LastOfKey
<1>9. LastOfKey(i)'
  BY <1>7, <1>8
<1>10. \A j \in FactsDone : LastOfKey(j)' <=> LastOfKey(j) /\ fact(j).key # fact(i).key
  BY <1>4, <1>5, <1>8 DEF LastOfKey
<1>11. \A j : Deletes(fact(j))' <=> Deletes(fact(j))
  BY <1>1 DEF Deletes
<1>12. CurrentFactIsLatest'
  <2>1. current = {j \in FactsDone : LastOfKey(j) /\ ~Deletes(fact(j))}
    BY DEF CurrentFactIsLatest
  <2>2. current' = {j \in FactsDone \cup {i} : LastOfKey(j)' /\ ~Deletes(fact(j))}
    BY <1>4, <1>5, <1>6, <1>9, <1>10, <2>1
  <2> QED BY <1>1, <1>4, <1>5, <2>2 DEF CurrentFactIsLatest, Deletes
<1> QED BY <1>1, <1>2, <1>4, <1>12 DEF PassNames

\* The permission loop leaves the other collections alone.
LEMMA LoopKeepsFolds == ASSUME FoldInv, IInv', UNCHANGED prefix, UNCHANGED foldVars PROVE FoldInv'
<1> USE DEF FoldInv
<1>1. UNCHANGED <<graph, pass, rest, scenes, entities, current>>
  BY DEF foldVars
<1>2. \A c : FoldedOf(c)' = FoldedOf(c)
  BY <1>1 DEF FoldedOf, After, VisibleRows
<1>3. FactsDone' = FactsDone
  BY <1>1 DEF FactsDone, After, VisibleRows
<1>4. CurrentFactIsLatest'
  BY <1>1, <1>3 DEF CurrentFactIsLatest, LastOfKey
<1>5. PassInOrder'
  BY <1>1 DEF PassInOrder, VisibleRows
<1> QED BY <1>1, <1>2, <1>4, <1>5

\* project_v8_state folds every collection as the invariant says.
THEOREM FoldInvariance == ProjectSpec => []FoldInv
<1>1. ASSUME FoldInv, ProjectNext PROVE FoldInv'
  <2>1. CASE FoldPermission
    <3>1. IInv'
      <4>1. PICK i \in todo : Skip(i) \/ Fold(i)
        BY <2>1 DEF FoldPermission, Next
      <4>2. IInv
        BY <1>1 DEF FoldInv
      <4> QED BY <4>1, <4>2, SkipKeeps, FoldKeeps
    <3>2. UNCHANGED prefix /\ UNCHANGED foldVars
      BY <2>1 DEF FoldPermission, Next, Skip, Fold
    <3> QED BY <1>1, <3>1, <3>2, LoopKeepsFolds
  <2> QED
    BY <1>1, <2>1, NextPassKeeps, FoldMergedKeeps, FoldRelationKeeps, FoldFactKeeps DEF ProjectNext
<1>2. ASSUME FoldInv, UNCHANGED projectVars PROVE FoldInv'
  <2>1. UNCHANGED vars /\ UNCHANGED foldVars /\ UNCHANGED prefix
    BY <1>2 DEF projectVars, vars
  <2>2. IInv'
    BY <1>2, <2>1, LoopWaits DEF FoldInv
  <2> QED BY <1>2, <2>1, <2>2, LoopKeepsFolds
<1> QED BY <1>1, <1>2, FoldsStartEmpty, PTL DEF ProjectSpec

\* The permission loop of the whole projection is that of module StateProjector.
THEOREM LoopIsLoop == ProjectSpec => Spec
<1>1. ProjectInit => Init
  BY DEF ProjectInit
<1>2. [ProjectNext]_projectVars => [Next]_vars
  BY DEF ProjectNext, projectVars, NextPass, FoldScene, FoldEntity, FoldRelation, FoldFact, FoldPermission
<1> QED BY <1>1, <1>2, PTL DEF ProjectSpec, Spec

-------------------------------------------------------------------------------
\* A deletion removes the current fact of its key and a later assertion brings exactly
\* one back, at every point of the fact pass.
THEOREM CurrentCorrect == ProjectSpec => []CurrentFactIsLatest
<1>1. FoldInv => CurrentFactIsLatest
  BY DEF FoldInv
<1> QED BY <1>1, FoldInvariance, PTL

\* Scenes and entities are the union of their visible rows, scenes with the sources of
\* the visible participations, and nothing in them is of a later turn.
THEOREM ScenesCorrect == ProjectSpec => []ScenesHoldTheVisibleRows
<1>1. ASSUME FoldInv, After("relations") PROVE ScenesHoldTheVisibleRows
  <2> USE DEF FoldInv
  <2>1. After("scenes") /\ After("entities")
    BY <1>1, PassOrder
  <2>2. /\ FoldedOf("scenes") = VisibleRows(graph.scenes)
        /\ FoldedOf("entities") = VisibleRows(graph.entities)
        /\ FoldedOf("relations") = VisibleRows(graph.relations)
    BY <1>1, <2>1 DEF FoldedOf
  <2>3. /\ IsMerged(scenes, graph.scenes, VisibleRows(graph.scenes), graph.relations,
                    VisibleRows(graph.relations), prefix)
        /\ IsMerged(entities, graph.entities, VisibleRows(graph.entities), graph.relations, {}, prefix)
    BY <1>1, <2>2
  <2> HIDE DEF FoldInv
  <2>4. \A id \in DOMAIN scenes : \A turn \in scenes[id].spans : turn <= prefix
    BY <2>3 DEF IsMerged
  <2> QED BY <2>3, <2>4 DEF ScenesHoldTheVisibleRows, IsUnion, IsMerged, Joining
<1>2. FoldInv => ScenesHoldTheVisibleRows
  BY <1>1 DEF ScenesHoldTheVisibleRows
<1> QED BY <1>2, FoldInvariance, PTL

\* No change that a prompt leaves out is missing at a later checkpoint: its latest
\* restatement is shown and active.
THEOREM RestatementsShown == ProjectSpec => []FoldedStaysRestated
<1>1. FoldInv => FoldedStaysRestated
  BY StoresAssumption, FoldedIsRestated DEF FoldInv, IInv, TypeOK
<1> QED BY <1>1, FoldInvariance, PTL

\* In a conversation whose comparable times do not run backwards no permission becomes
\* active again once it has ended.
THEOREM EndsAreFinal == ASSUME TurnsAreChronological PROVE ProjectSpec => []ExpiryIsFinal
<1>1. FoldInv => ExpiryIsFinal
  BY StoresAssumption, EndedStaysEnded DEF FoldInv, IInv, TypeOK
<1> QED BY <1>1, FoldInvariance, PTL
===============================================================================
