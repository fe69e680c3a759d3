---------------------------- MODULE ExtractionProofs ----------------------------
(***************************************************************************)
(* For any replies, turns and rosters, what event extraction stores.  No     *)
(* assumption is made about the records of a reply: they may cite, quote and *)
(* refer to whatever they like.  The invariant says what the passes over a   *)
(* reply have settled so far, and that the new turns follow the processed    *)
(* ones.                                                                     *)
(***************************************************************************)
EXTENDS EventExtraction, FiniteSetTheorems, TLAPS

AfterFilter == {"backstop", "decide"}
AfterEvents == AfterFilter \cup {"filter"}
AfterFacts == AfterEvents \cup {"relations", "events"}
AfterEntities == AfterFacts \cup {"facts"}
Stages == AfterEntities \cup {"idle", "scenes", "entities"}

Statuses == {"none", "complete", "insufficient"}

TypeOK ==
    /\ mode \in {"full", "shallow"}
    /\ route \in {"prefill", "joint"}
    /\ pc \in Stages
    /\ status \in [Turns -> Statuses]
    /\ new \subseteq Turns
    /\ DOMAIN batch = Kinds
    /\ DOMAIN store = Kinds

\* The turns are processed in their order, and the offered ones come next.
TurnsInOrder ==
    /\ \E n \in 0..NumTurns : Processed = 1..n
    /\ new \cap Processed = {}
    /\ pc # "idle" => \E end \in (Watermark + 1)..NumTurns : new = (Watermark + 1)..end

\* A record of a kind that has been passed over is accepted or rejected.
RecordsAreSettled ==
    /\ pc = "scenes" => batch = Empty
    /\ pc \in AfterEntities =>
          \A r \in reply["entities"] : AcceptsEntity(r) /\ IsNew(r) => r \in batch["entities"]
    /\ pc \in AfterFacts =>
          \A r \in reply["facts"] : r \in batch["facts"] \/ Rejection("facts", r) \in rejected
    /\ pc \in AfterEvents =>
          \A r \in reply["events"] : r \in batch["events"] \/ Rejection("events", r) \in rejected

\* Scenes, facts and events are accepted for a new turn only, and the last pass
\* leaves no other record.
BatchIsNew ==
    /\ pc \notin AfterFilter =>
          \A k \in {"scenes", "facts", "events"} : \A r \in batch[k] : IsNew(r)
    /\ pc \in AfterFilter => \A k \in Kinds : \A r \in batch[k] : r.quotes \cap new # {}

\* What is known is of the roster, stored, or about to be stored or lent.
KnownResolves ==
    /\ known \subseteq Principals \cup StoredIds
                       \cup {r.id : r \in batch["scenes"]}
                       \cup {r.id : r \in {e \in reply["entities"] : AcceptsEntity(e)}}
    /\ \A r \in batch["facts"] : r.subject \in known \cup {NoOne}
    /\ \A r \in batch["relations"] : r.source \in known /\ r.target \in known

\* The turns a restriction was told with are processed.
ToldIsProcessed == \A x \in told : x.new \subseteq Processed

IInv ==
    /\ TypeOK
    /\ TurnsInOrder
    /\ RecordsAreSettled
    /\ BatchIsNew
    /\ KnownResolves
    /\ ToldIsProcessed
    /\ RestrictionsAccountedFor
    /\ ContextCreatesNothing
    /\ ReferencesResolve
    /\ DeletionsAreRemembered

\* The conjuncts about what is stored, over a step that stores nothing.
Stored == ToldIsProcessed /\ RestrictionsAccountedFor /\ ContextCreatesNothing /\ ReferencesResolve

-------------------------------------------------------------------------------
\* The watermark is the number of the last processed turn.
LEMMA WatermarkIsLast ==
    ASSUME NEW n \in 0..NumTurns, Processed = 1..n
    PROVE  Watermark = n
  <1>1. Cardinality(1..n) = IF 1 > n THEN 0 ELSE n - 1 + 1
    BY FS_Interval, ExtractionAssumption
  <1> QED BY <1>1, ExtractionAssumption DEF Watermark

\* Processing stays in order as long as the same turns are offered.
LEMMA OrderFrame ==
    ASSUME TurnsInOrder, UNCHANGED <<durable, new>>, pc # "idle"
    PROVE  TurnsInOrder'
  BY DEF TurnsInOrder, Watermark, Processed, durable

\* A step that leaves the durable state alone leaves what is said of it.
LEMMA StoredFrame ==
    ASSUME Stored, UNCHANGED durable
    PROVE  Stored'
  BY DEF Stored, ToldIsProcessed, RestrictionsAccountedFor, ContextCreatesNothing, Processed,
         ReferencesResolve, References, StoredIds, durable

\* The initial states satisfy the invariant.
LEMMA InitInvariant == Init => IInv
  <1> SUFFICES ASSUME Init PROVE IInv
    OBVIOUS
  <1> USE DEF Init
  <1>1. TypeOK
    BY DEF TypeOK, Stages, Statuses, Empty, Kinds
  <1>2. TurnsInOrder
    <2>1. Processed = 1..0
      BY DEF Processed, Turns
    <2> QED BY <2>1, ExtractionAssumption DEF TurnsInOrder
  <1>3. RecordsAreSettled
    BY DEF RecordsAreSettled, AfterEntities, AfterFacts, AfterEvents, AfterFilter
  <1>4. BatchIsNew /\ KnownResolves
    BY DEF BatchIsNew, KnownResolves, AfterFilter, Empty, Kinds
  <1>5. Stored
    BY DEF Stored, ToldIsProcessed, RestrictionsAccountedFor, ContextCreatesNothing,
           ReferencesResolve, Empty, Kinds
  <1>6. DeletionsAreRemembered
    BY DEF DeletionsAreRemembered
  <1> QED BY <1>1, <1>2, <1>3, <1>4, <1>5, <1>6 DEF IInv, Stored

\* The turns offered are the next ones and none of them is processed.
LEMMA ExtractStep == ASSUME IInv, Extract PROVE IInv'
  <1> USE DEF IInv
  <1>1. PICK end \in (Watermark + 1)..NumTurns, r \in FirstReplies \cup LaterReplies : Receive(end, r)
    BY DEF Extract
  <1> USE <1>1 DEF Receive
  <1>2. PICK n \in 0..NumTurns : Processed = 1..n
    BY DEF TurnsInOrder
  <1>3. Watermark = n
    BY <1>2, WatermarkIsLast
  <1>4. Processed' = Processed /\ Watermark' = Watermark
    BY DEF Processed, Watermark, durable
  <1>5. TypeOK'
    <2>1. new' \subseteq Turns
      BY <1>3, ExtractionAssumption DEF Turns
    <2> QED BY <2>1 DEF TypeOK, durable, Stages, AfterEntities, AfterFacts, AfterEvents, AfterFilter, Empty
  <1>6. TurnsInOrder'
    <2>1. new' \cap Processed' = {}
      BY <1>2, <1>3, <1>4, ExtractionAssumption
    <2> QED BY <2>1, <1>2, <1>4 DEF TurnsInOrder
  <1>7. RecordsAreSettled' /\ BatchIsNew'
    BY DEF RecordsAreSettled, BatchIsNew, AfterEntities, AfterFacts, AfterEvents, AfterFilter, Empty, Kinds
  <1>8. KnownResolves'
    BY DEF KnownResolves, StoredIds, durable, Empty, Kinds
  <1>9. Stored'
    BY StoredFrame DEF Stored
  <1>10. DeletionsAreRemembered'
    BY DEF DeletionsAreRemembered
  <1> QED BY <1>5, <1>6, <1>7, <1>8, <1>9, <1>10 DEF Stored

-------------------------------------------------------------------------------
\* How a record reads does not change while the same turns are offered.
LEMMA ReadingFrame ==
    ASSUME UNCHANGED <<new, reply>>
    PROVE  /\ \A r : IsNew(r)' <=> IsNew(r)
           /\ \A r : AcceptsEntity(r)' <=> AcceptsEntity(r)
           /\ \A k, r : Rejection(k, r)' = Rejection(k, r)
  <1>1. Sources' = Sources
    BY DEF Sources
  <1>2. \A r : Spans(r)' = Spans(r)
    BY <1>1 DEF Spans
  <1> QED BY <1>2 DEF IsNew, AcceptsEntity, Rejection, ContextOnly

\* A record grounded in a new turn quotes a new turn.
LEMMA NewQuotesNew == ASSUME NEW r, IsNew(r) PROVE r.quotes \cap new # {}
  BY DEF IsNew, Spans

\* What every pass over a kind leaves as it is.
LEMMA PassFrame ==
    ASSUME IInv, NEW kind \in Kinds, NEW accepted,
           NEW next \in Stages \ {"idle", "scenes", "decide"}, Pass(kind, accepted, next)
    PROVE  TypeOK' /\ TurnsInOrder' /\ Stored' /\ DeletionsAreRemembered'
  <1> USE DEF IInv, Pass
  <1>1. TypeOK'
    BY DEF TypeOK, durable, call
  <1>2. TurnsInOrder'
    <2>1. pc # "idle" /\ UNCHANGED <<durable, new>>
      BY DEF Kinds, call
    <2> QED BY <2>1, OrderFrame
  <1>3. Stored'
    BY StoredFrame DEF Stored
  <1>4. DeletionsAreRemembered'
    BY DEF DeletionsAreRemembered
  <1> QED BY <1>1, <1>2, <1>3, <1>4

\* Scenes are accepted for new turns; their ids become known as they are kept.
LEMMA ReadScenesStep == ASSUME IInv, ReadScenes PROVE IInv'
  <1> DEFINE accepted == {r \in reply["scenes"] : AcceptsScene(r)}
  <1>1. Pass("scenes", accepted, "entities")
    BY DEF ReadScenes
  <1>2. TypeOK' /\ TurnsInOrder' /\ Stored' /\ DeletionsAreRemembered'
    BY <1>1, PassFrame DEF Kinds, Stages
  <1>3. \A r \in accepted : IsNew(r)
    BY DEF AcceptsScene
  <1> HIDE DEF accepted
  <1> USE <1>1 DEF Pass, IInv, call, AfterEntities, AfterFacts, AfterEvents, AfterFilter, Kinds
  <1>4. batch = Empty /\ batch' = [k \in Kinds |-> IF k = "scenes" THEN accepted ELSE {}]
    BY DEF RecordsAreSettled, Empty, TypeOK
  <1>5. RecordsAreSettled'
    BY DEF RecordsAreSettled
  <1>6. BatchIsNew'
    BY <1>3, <1>4, ReadingFrame DEF BatchIsNew
  <1>7. KnownResolves'
    <2>1. StoredIds' = StoredIds
      BY DEF StoredIds, durable
    <2>2. known' = known \cup {r.id : r \in batch'["scenes"]}
      BY <1>4 DEF Named
    <2>3. known \subseteq Principals \cup StoredIds
                          \cup {r.id : r \in {e \in reply["entities"] : AcceptsEntity(e)}}
      BY <1>4 DEF KnownResolves, Empty
    <2>4. {r.id : r \in {e \in reply["entities"] : AcceptsEntity(e)}}
             = {r.id : r \in {e \in reply["entities"] : AcceptsEntity(e)}}'
      BY ReadingFrame
    <2> QED BY <1>4, <2>1, <2>2, <2>3, <2>4 DEF KnownResolves
  <1> QED BY <1>2, <1>5, <1>6, <1>7 DEF Stored

\* Entities are accepted wherever their quotation comes from.
LEMMA ReadEntitiesStep == ASSUME IInv, ReadEntities PROVE IInv'
  <1> DEFINE accepted == {r \in reply["entities"] : AcceptsEntity(r)}
  <1>1. Pass("entities", accepted, "facts")
    BY DEF ReadEntities
  <1>2. TypeOK' /\ TurnsInOrder' /\ Stored' /\ DeletionsAreRemembered'
    BY <1>1, PassFrame DEF Kinds, Stages, AfterEntities
  <1> USE <1>1 DEF Pass, IInv, call, AfterEntities, AfterFacts, AfterEvents, AfterFilter, Kinds
  <1>3. accepted' = accepted
    BY ReadingFrame
  <1>4. /\ batch'["entities"] = accepted
        /\ \A k \in Kinds \ {"entities"} : batch'[k] = batch[k]
    BY DEF TypeOK
  <1>5. RecordsAreSettled'
    BY <1>3, <1>4 DEF RecordsAreSettled
  <1> HIDE DEF accepted
  <1>6. BatchIsNew'
    BY <1>4, ReadingFrame DEF BatchIsNew
  <1>7. KnownResolves'
    <2>1. StoredIds' = StoredIds
      BY DEF StoredIds, durable
    <2>2. known' = known \cup {r.id : r \in accepted}
      BY DEF Named
    <2>3. KnownResolves' = ( /\ known' \subseteq Principals \cup StoredIds'
                                   \cup {r.id : r \in batch'["scenes"]}
                                   \cup {r.id : r \in accepted'}
                             /\ \A r \in batch'["facts"] : r.subject \in known' \cup {NoOne}
                             /\ \A r \in batch'["relations"] :
                                   r.source \in known' /\ r.target \in known')
      BY DEF KnownResolves, accepted
    <2>4. known \subseteq Principals \cup StoredIds
                          \cup {r.id : r \in batch["scenes"]} \cup {r.id : r \in accepted}
      BY DEF KnownResolves, accepted
    <2> QED BY <1>3, <1>4, <2>1, <2>2, <2>3, <2>4 DEF KnownResolves
  <1> QED BY <1>2, <1>5, <1>6, <1>7 DEF Stored

\* A pass over facts, relations or events makes no further id known.
LEMMA LaterPassKnown ==
    ASSUME IInv, NEW kind \in {"facts", "relations", "events"}, NEW accepted, NEW next,
           Pass(kind, accepted, next),
           kind = "facts" => \A r \in accepted : r.subject \in known \cup {NoOne},
           kind = "relations" => \A r \in accepted : r.source \in known /\ r.target \in known
    PROVE  KnownResolves' /\ known' = known
  <1> USE DEF Pass, IInv, call, Kinds
  <1>1. known' = known
    BY DEF Named
  <1>2. StoredIds' = StoredIds
    BY DEF StoredIds, durable
  <1>3. {r.id : r \in {e \in reply["entities"] : AcceptsEntity(e)}}
           = {r.id : r \in {e \in reply["entities"] : AcceptsEntity(e)}}'
    BY ReadingFrame
  <1>4. batch'[kind] = accepted /\ \A k \in Kinds \ {kind} : batch'[k] = batch[k]
    BY DEF TypeOK
  <1>5. known' \subseteq Principals \cup StoredIds' \cup {r.id : r \in batch'["scenes"]}
           \cup {r.id : r \in {e \in reply["entities"] : AcceptsEntity(e)}}
    BY <1>1, <1>2, <1>4 DEF KnownResolves
  <1>6. \A r \in batch'["facts"] : r.subject \in known' \cup {NoOne}
    BY <1>1, <1>4 DEF KnownResolves
  <1>7. \A r \in batch'["relations"] : r.source \in known' /\ r.target \in known'
    BY <1>1, <1>4 DEF KnownResolves
  <1> QED BY <1>1, <1>3, <1>5, <1>6, <1>7 DEF KnownResolves

\* A fact is accepted for a new turn and a known subject.
LEMMA ReadFactsStep == ASSUME IInv, ReadFacts PROVE IInv'
  <1> DEFINE accepted == {r \in reply["facts"] : AcceptsFact(r)}
  <1>1. Pass("facts", accepted, "relations")
    BY DEF ReadFacts
  <1>2. TypeOK' /\ TurnsInOrder' /\ Stored' /\ DeletionsAreRemembered'
    BY <1>1, PassFrame DEF Kinds, Stages, AfterEntities, AfterFacts
  <1>3. \A r \in accepted : IsNew(r) /\ r.subject \in known \cup {NoOne}
    BY DEF AcceptsFact
  <1>4. accepted \subseteq reply["facts"]
    OBVIOUS
  <1> HIDE DEF accepted
  <1>5. KnownResolves'
    BY <1>1, <1>3, LaterPassKnown
  <1> USE <1>1 DEF Pass, IInv, call, AfterEntities, AfterFacts, AfterEvents, AfterFilter, Kinds
  <1>6. /\ batch'["facts"] = accepted
        /\ \A k \in Kinds \ {"facts"} : batch'[k] = batch[k]
    BY DEF TypeOK
  <1>7. RecordsAreSettled'
    <2>1. \A r \in reply["facts"] : r \in batch'["facts"] \/ Rejection("facts", r) \in rejected'
      BY <1>6
    <2> QED BY <1>6, <2>1, ReadingFrame DEF RecordsAreSettled
  <1>8. BatchIsNew'
    BY <1>3, <1>6, ReadingFrame DEF BatchIsNew
  <1> QED BY <1>2, <1>5, <1>7, <1>8 DEF Stored

\* A relation is accepted between known ids.
LEMMA ReadRelationsStep == ASSUME IInv, ReadRelations PROVE IInv'
  <1> DEFINE accepted == {r \in reply["relations"] : AcceptsRelation(r)}
  <1>1. Pass("relations", accepted, "events")
    BY DEF ReadRelations
  <1>2. TypeOK' /\ TurnsInOrder' /\ Stored' /\ DeletionsAreRemembered'
    BY <1>1, PassFrame DEF Kinds, Stages, AfterEntities, AfterFacts
  <1>3. \A r \in accepted : r.source \in known /\ r.target \in known
    BY DEF AcceptsRelation
  <1> HIDE DEF accepted
  <1>5. KnownResolves'
    BY <1>1, <1>3, LaterPassKnown
  <1> USE <1>1 DEF Pass, IInv, call, AfterEntities, AfterFacts, AfterEvents, AfterFilter, Kinds
  <1>6. \A k \in Kinds \ {"relations"} : batch'[k] = batch[k]
    BY DEF TypeOK
  <1>7. RecordsAreSettled'
    BY <1>6, ReadingFrame DEF RecordsAreSettled
  <1>8. BatchIsNew'
    BY <1>6, ReadingFrame DEF BatchIsNew
  <1> QED BY <1>2, <1>5, <1>7, <1>8 DEF Stored

\* A governance event is accepted for a new turn.
LEMMA ReadEventsStep == ASSUME IInv, ReadEvents PROVE IInv'
  <1> DEFINE accepted == {r \in reply["events"] : AcceptsEvent(r)}
  <1>1. Pass("events", accepted, "filter")
    BY DEF ReadEvents
  <1>2. TypeOK' /\ TurnsInOrder' /\ Stored' /\ DeletionsAreRemembered'
    BY <1>1, PassFrame DEF Kinds, Stages, AfterEntities, AfterFacts, AfterEvents
  <1>3. \A r \in accepted : IsNew(r)
    BY DEF AcceptsEvent
  <1> HIDE DEF accepted
  <1>5. KnownResolves'
    BY <1>1, LaterPassKnown
  <1> USE <1>1 DEF Pass, IInv, call, AfterEntities, AfterFacts, AfterEvents, AfterFilter, Kinds
  <1>6. /\ batch'["events"] = accepted
        /\ \A k \in Kinds \ {"events"} : batch'[k] = batch[k]
    BY DEF TypeOK
  <1>7. RecordsAreSettled'
    <2>1. \A r \in reply["events"] : r \in batch'["events"] \/ Rejection("events", r) \in rejected'
      BY <1>6
    <2> QED BY <1>6, <2>1, ReadingFrame DEF RecordsAreSettled
  <1>8. BatchIsNew'
    BY <1>3, <1>6, ReadingFrame DEF BatchIsNew
  <1> QED BY <1>2, <1>5, <1>7, <1>8 DEF Stored

-------------------------------------------------------------------------------
\* The last pass drops what no new turn grounds: entities and relations only.
LEMMA FilterStep == ASSUME IInv, DropContextOnly PROVE IInv'
  <1> USE DEF DropContextOnly, IInv, call, AfterEntities, AfterFacts, AfterEvents, AfterFilter
  <1>1. \A k \in Kinds : batch'[k] = batch[k] \ Stale(k)
    OBVIOUS
  <1>2. \A k \in {"scenes", "facts", "events"} : batch'[k] = batch[k]
    BY DEF Stale, Filtered, Kinds, BatchIsNew
  <1>3. \A k \in {"entities", "relations"} : batch'[k] = {r \in batch[k] : IsNew(r)}
    BY DEF Stale, Filtered, Kinds
  <1>4. TypeOK'
    BY DEF TypeOK, durable, Stages
  <1>5. TurnsInOrder'
    BY OrderFrame
  <1>6. RecordsAreSettled'
    <2>1. \A r \in reply["entities"] : AcceptsEntity(r) /\ IsNew(r) => r \in batch'["entities"]
      BY <1>3 DEF RecordsAreSettled
    <2>2. \A r \in reply["facts"] : r \in batch'["facts"] \/ Rejection("facts", r) \in rejected'
      BY <1>2 DEF RecordsAreSettled
    <2>3. \A r \in reply["events"] : r \in batch'["events"] \/ Rejection("events", r) \in rejected'
      BY <1>2 DEF RecordsAreSettled
    <2> QED BY <2>1, <2>2, <2>3, ReadingFrame DEF RecordsAreSettled
  <1>7. BatchIsNew'
    <2>1. \A k \in Kinds : \A r \in batch'[k] : IsNew(r)
      BY <1>2, <1>3 DEF Kinds, BatchIsNew
    <2> QED BY <2>1, NewQuotesNew DEF BatchIsNew
  <1>8. KnownResolves'
    BY <1>2, <1>3, ReadingFrame DEF KnownResolves, StoredIds, durable
  <1>9. Stored'
    BY StoredFrame DEF Stored
  <1>10. DeletionsAreRemembered'
    BY DEF DeletionsAreRemembered, durable
  <1> QED BY <1>4, <1>5, <1>6, <1>7, <1>8, <1>9, <1>10 DEF Stored

\* A completed deletion that no accepted deletion quotes gets a tombstone.
LEMMA BackstopStep == ASSUME IInv, AppendTombstones PROVE IInv'
  <1> USE DEF AppendTombstones, IInv, call, AfterEntities, AfterFacts, AfterEvents, AfterFilter
  <1> DEFINE missed == {Tombstone(t) : t \in (new \cap Deleted) \ Covered}
  <1>1. /\ batch'["facts"] = batch["facts"] \cup missed
        /\ \A k \in Kinds \ {"facts"} : batch'[k] = batch[k]
    BY DEF TypeOK, Kinds
  <1>2. TypeOK'
    BY DEF TypeOK, durable, Stages
  <1>3. TurnsInOrder'
    BY OrderFrame
  <1>4. RecordsAreSettled'
    BY <1>1, ReadingFrame DEF RecordsAreSettled, Kinds
  <1>5. BatchIsNew'
    <2>1. \A f \in missed : f.quotes \cap new # {}
      BY DEF Tombstone
    <2> QED BY <1>1, <2>1 DEF BatchIsNew, Kinds
  <1>6. KnownResolves'
    <2>1. \A f \in missed : f.subject = NoOne
      BY DEF Tombstone
    <2> QED BY <1>1, <2>1, ReadingFrame DEF KnownResolves, StoredIds, durable, Kinds
  <1>7. Stored'
    BY StoredFrame DEF Stored
  <1>8. DeletionsAreRemembered'
    <2> SUFFICES ASSUME NEW t \in new \cap Deleted
                 PROVE  \E f \in batch'["facts"] : f.lifecycle = "delete" /\ t \in f.quotes
      BY DEF DeletionsAreRemembered
    <2>1. CASE t \in Covered
      BY <1>1, <2>1 DEF Covered, Spans
    <2>2. CASE t \notin Covered
      <3>1. Tombstone(t) \in missed
        BY <2>2
      <3> QED BY <1>1, <3>1 DEF Tombstone
    <2> QED BY <2>1, <2>2
  <1> QED BY <1>2, <1>3, <1>4, <1>5, <1>6, <1>7, <1>8 DEF Stored

\* A prefill batch that is given up leaves nothing behind.
LEMMA PrefillGapStep == ASSUME IInv, PrefillGap PROVE IInv'
  <1> USE DEF PrefillGap, IInv
  <1>1. TypeOK'
    BY DEF TypeOK, durable, Stages, Empty
  <1>2. TurnsInOrder'
    BY DEF TurnsInOrder, Watermark, Processed, durable
  <1>3. RecordsAreSettled' /\ BatchIsNew' /\ KnownResolves'
    BY DEF RecordsAreSettled, BatchIsNew, KnownResolves, Empty, Kinds,
           AfterEntities, AfterFacts, AfterEvents, AfterFilter
  <1>4. Stored'
    BY StoredFrame DEF Stored
  <1>5. DeletionsAreRemembered'
    BY DEF DeletionsAreRemembered
  <1> QED BY <1>1, <1>2, <1>3, <1>4, <1>5 DEF Stored

\* Appending a batch processes its turns, which were not processed before.
LEMMA AppendProcesses ==
    ASSUME IInv, AppendBatch
    PROVE  TypeOK' /\ TurnsInOrder' /\ Processed' = Processed \cup new /\ new # {}
  <1> USE DEF IInv, AppendBatch
  <1>1. PICK n \in 0..NumTurns : Processed = 1..n
    BY DEF TurnsInOrder
  <1>2. Watermark = n
    BY <1>1, WatermarkIsLast
  <1>3. PICK end \in (n + 1)..NumTurns : new = (n + 1)..end
    BY <1>2 DEF TurnsInOrder
  <1>4. Processed' = Processed \cup new
    BY DEF Processed, TypeOK
  <1>5. Processed' = 1..end /\ end \in 0..NumTurns /\ new # {}
    BY <1>1, <1>3, <1>4, ExtractionAssumption
  <1>6. TypeOK'
    BY DEF TypeOK, Stages, Statuses, Empty
  <1>7. TurnsInOrder'
    BY <1>5 DEF TurnsInOrder
  <1> QED BY <1>4, <1>5, <1>6, <1>7

\* What a batch appends: its records are stored, or their turns are on record as
\* insufficiently audited.
LEMMA AppendAccounts == ASSUME IInv, AppendBatch PROVE RestrictionsAccountedFor'
  <1> USE DEF IInv, AppendBatch
  <1> SUFFICES ASSUME NEW x \in told'
               PROVE  \/ x \in store'["events"] \cup store'["facts"]
                      \/ \E t \in x.new : status'[t] = "insufficient"
    BY DEF RestrictionsAccountedFor
  <1>1. \A k \in Kinds : store'[k] = store[k] \cup {[record |-> r, new |-> new] : r \in batch[k]}
    OBVIOUS
  <1>2. CASE x \in told
    <2>1. CASE x \in store["events"] \cup store["facts"]
      BY <1>1, <2>1 DEF Kinds
    <2>2. CASE \E t \in x.new : status[t] = "insufficient"
      <3>1. PICK t \in x.new : status[t] = "insufficient"
        BY <2>2
      <3>2. t \in Processed /\ t \notin new /\ t \in Turns
        BY <1>2, <3>1 DEF ToldIsProcessed, TurnsInOrder, Processed
      <3> QED BY <3>1, <3>2
    <2> QED BY <1>2, <2>1, <2>2 DEF RestrictionsAccountedFor
  <1>3. CASE x \notin told
    <2>1. PICK r \in Restrictions : x = [record |-> r, new |-> new]
      BY <1>3
    <2>2. r.cites \cap new # {} /\ ~ContextOnly(r)
      BY <2>1 DEF Restrictions, ContextOnly
    <2>3. CASE r \in batch["events"] \cup batch["facts"]
      BY <1>1, <2>1, <2>3 DEF Kinds
    <2>4. CASE r \notin batch["events"] \cup batch["facts"]
      <3>1. Critical # {}
        <4>1. CASE r \in reply["events"]
          <5>1. Rejection("events", r) \in rejected
            BY <2>4, <4>1 DEF RecordsAreSettled, AfterEvents, AfterFilter
          <5> QED BY <2>2, <5>1 DEF Critical, Rejection
        <4>2. CASE r \in reply["facts"] /\ r.lifecycle \in Changes
          <5>1. Rejection("facts", r) \in rejected
            BY <2>4, <4>2 DEF RecordsAreSettled, AfterFacts, AfterEvents, AfterFilter
          <5> QED BY <2>2, <4>2, <5>1 DEF Critical, Rejection, Changes
        <4> QED BY <2>1, <4>1, <4>2 DEF Restrictions
      <3>2. PICK t \in new : t \in Turns
        BY AppendProcesses DEF TypeOK
      <3> QED BY <2>1, <3>1, <3>2
    <2> QED BY <2>3, <2>4
  <1> QED BY <1>2, <1>3

\* What a batch appends refers to the roster, to what is stored or to what is lent.
LEMMA AppendResolves == ASSUME IInv, AppendBatch PROVE ReferencesResolve'
  <1> USE DEF IInv, AppendBatch
  <1> DEFINE all == Principals \cup {NoOne} \cup StoredIds \cup lent
  <1>1. \A k \in Kinds : store'[k] = store[k] \cup {[record |-> r, new |-> new] : r \in batch[k]}
    OBVIOUS
  <1>2. StoredIds \subseteq StoredIds'
    BY <1>1 DEF StoredIds, Kinds
  <1>3. \A k \in {"scenes", "entities"} : \A r \in batch[k] : r.id \in StoredIds'
    <2> SUFFICES ASSUME NEW k \in {"scenes", "entities"}, NEW r \in batch[k]
                 PROVE  r.id \in StoredIds'
      OBVIOUS
    <2>1. [record |-> r, new |-> new] \in store'[k]
      BY <1>1 DEF Kinds
    <2>2. [record |-> r, new |-> new].record.id = r.id
      OBVIOUS
    <2> QED BY <2>1, <2>2 DEF StoredIds
  <1>4. \A r \in reply["entities"] : AcceptsEntity(r) => r.id \in StoredIds' \cup lent'
    <2> SUFFICES ASSUME NEW r \in reply["entities"], AcceptsEntity(r)
                 PROVE  r.id \in StoredIds' \cup lent'
      OBVIOUS
    <2>1. CASE IsNew(r)
      BY <1>3, <2>1 DEF RecordsAreSettled, AfterEntities, AfterFacts, AfterEvents, AfterFilter
    <2>2. CASE ~IsNew(r)
      BY <2>2
    <2> QED BY <2>1, <2>2
  <1>5. known \subseteq all'
    BY <1>2, <1>3, <1>4 DEF KnownResolves
  <1>6. all \subseteq all'
    BY <1>2
  <1>7. \A r \in batch["facts"] : r.subject \in all'
    BY <1>5 DEF KnownResolves
  <1>8. \A r \in batch["relations"] : r.source \in all' /\ r.target \in all'
    BY <1>5 DEF KnownResolves
  <1> SUFFICES ASSUME NEW k \in {"facts", "relations"}, NEW s \in store'[k]
               PROVE  References(k, s.record) \subseteq all'
    BY DEF ReferencesResolve
  <1> HIDE DEF all
  <1>9. CASE s \in store[k]
    BY <1>6, <1>9 DEF ReferencesResolve, all
  <1>10. CASE s \notin store[k]
    <2>1. PICK r \in batch[k] : s = [record |-> r, new |-> new]
      BY <1>1, <1>10 DEF Kinds
    <2>2. s.record = r
      BY <2>1
    <2> QED BY <1>7, <1>8, <2>2 DEF References
  <1> QED BY <1>9, <1>10

\* What a batch appends quotes a turn that is new with it.
LEMMA AppendGrounded == ASSUME IInv, AppendBatch PROVE ContextCreatesNothing'
  <1> USE DEF IInv, AppendBatch
  <1> SUFFICES ASSUME NEW k \in Kinds, NEW s \in store'[k]
               PROVE  s.record.quotes \cap s.new # {} /\ s.new \subseteq Processed'
    BY DEF ContextCreatesNothing
  <1>1. CASE s \in store[k]
    BY <1>1, AppendProcesses DEF ContextCreatesNothing
  <1>2. CASE s \notin store[k]
    <2>1. PICK r \in batch[k] : s = [record |-> r, new |-> new]
      BY <1>2
    <2>2. s.record = r /\ s.new = new
      BY <2>1
    <2> QED BY <2>2, AppendProcesses DEF BatchIsNew, AfterFilter
  <1> QED BY <1>1, <1>2

\* Appending preserves the invariant.
LEMMA AppendStep == ASSUME IInv, AppendBatch PROVE IInv'
  <1>1. TypeOK' /\ TurnsInOrder'
    BY AppendProcesses
  <1>2. RestrictionsAccountedFor' /\ ReferencesResolve' /\ ContextCreatesNothing'
    BY AppendAccounts, AppendResolves, AppendGrounded
  <1> USE DEF IInv, AppendBatch
  <1>3. ToldIsProcessed'
    <2>1. \A x \in told' \ told : x.new = new
      OBVIOUS
    <2> QED BY <2>1, AppendProcesses DEF ToldIsProcessed
  <1>4. RecordsAreSettled' /\ BatchIsNew' /\ KnownResolves'
    BY DEF RecordsAreSettled, BatchIsNew, KnownResolves, Empty, Kinds,
           AfterEntities, AfterFacts, AfterEvents, AfterFilter
  <1>5. DeletionsAreRemembered'
    BY DEF DeletionsAreRemembered
  <1> QED BY <1>1, <1>2, <1>3, <1>4, <1>5

-------------------------------------------------------------------------------
\* Every state satisfies the invariant.
THEOREM Invariance == Spec => []IInv
  <1>1. Init => IInv
    BY InitInvariant
  <1>2. IInv /\ [Next]_vars => IInv'
    <2> SUFFICES ASSUME IInv, [Next]_vars PROVE IInv'
      OBVIOUS
    <2>1. CASE Extract
      BY <2>1, ExtractStep
    <2>2. CASE Read
      BY <2>2, ReadScenesStep, ReadEntitiesStep, ReadFactsStep, ReadRelationsStep, ReadEventsStep
         DEF Read
    <2>3. CASE DropContextOnly
      BY <2>3, FilterStep
    <2>4. CASE AppendTombstones
      BY <2>4, BackstopStep
    <2>5. CASE PrefillGap
      BY <2>5, PrefillGapStep
    <2>6. CASE AppendBatch
      BY <2>6, AppendStep
    <2>7. CASE UNCHANGED vars
      <3> USE <2>7 DEF vars, call, work, IInv
      <3>1. TypeOK' /\ RecordsAreSettled' /\ BatchIsNew' /\ KnownResolves'
        BY ReadingFrame DEF TypeOK, RecordsAreSettled, BatchIsNew, KnownResolves, StoredIds, durable
      <3>2. TurnsInOrder' /\ DeletionsAreRemembered'
        BY DEF TurnsInOrder, Watermark, Processed, DeletionsAreRemembered, durable
      <3>3. Stored'
        BY StoredFrame DEF Stored
      <3> QED BY <3>1, <3>2, <3>3 DEF Stored
    <2> QED BY <2>1, <2>2, <2>3, <2>4, <2>5, <2>6, <2>7 DEF Next
  <1> QED BY <1>1, <1>2, PTL DEF Spec

\* For any replies no restriction of a processed turn is lost without a mark.
THEOREM RestrictionsKept == Spec => []RestrictionsAccountedFor
  <1>1. IInv => RestrictionsAccountedFor
    BY DEF IInv
  <1> QED BY <1>1, Invariance, PTL

\* For any context window no stored record rests on context alone.
THEOREM StoreIsGrounded == Spec => []ContextCreatesNothing
  <1>1. IInv => ContextCreatesNothing
    BY DEF IInv
  <1> QED BY <1>1, Invariance, PTL

\* For any replies what is stored refers to the roster, the store or an entity
\* lent by the context.
THEOREM ReferencesCorrect == Spec => []ReferencesResolve
  <1>1. IInv => ReferencesResolve
    BY DEF IInv
  <1> QED BY <1>1, Invariance, PTL

\* Whatever a prefill reply misses, the completed deletions are in its batch.
THEOREM DeletionsKept == Spec => []DeletionsAreRemembered
  <1>1. IInv => DeletionsAreRemembered
    BY DEF IInv
  <1> QED BY <1>1, Invariance, PTL
===============================================================================
