---------------------------- MODULE EventExtraction ----------------------------
(***************************************************************************)
(* From the records a model extracts from new turns to the event store: the  *)
(* passes of validate_v8_extraction, the deletion backstop of the prefill    *)
(* call, and what its two callers do with rejected records.  The joint call  *)
(* (accept_events) appends what is left and writes down that the audit of    *)
(* its turns is insufficient; the prefill loop gives the whole batch up.     *)
(*                                                                          *)
(* A record keeps the turns it cites and those it quotes exactly; "named",   *)
(* "value" and "resource" say how its text relates to these quotations.  A   *)
(* rejection keeps its record and whether its reason is that the record      *)
(* cites context only: no caller tells the other reasons apart.  The entries *)
(* of an array that are no objects are passed over and leave no rejection.   *)
(***************************************************************************)
EXTENDS Integers, FiniteSets

CONSTANTS
    NumTurns,
    ContextTurns,  \* v8_extraction.context_turns
    Deleted,       \* turns that state a completed deletion and plan none
    Principals,    \* the closed roster
    Ids,           \* ids of scenes and entities
    NoOne,         \* an absent id
    Stranger,      \* an id that is neither of the roster nor of Ids
    FirstReplies,  \* what may be extracted while no turn is processed
    LaterReplies   \* what may be extracted afterwards

ASSUME ExtractionAssumption ==
    /\ NumTurns \in Nat \ {0}
    /\ ContextTurns \in Nat
    /\ Deleted \subseteq 1..NumTurns
    /\ Principals \cap Ids = {}
    /\ {NoOne, Stranger} \cap (Principals \cup Ids) = {}

Turns == 1..NumTurns
Kinds == {"scenes", "entities", "facts", "relations", "events"}
Changes == {"update", "delete"}   \* lifecycle values other than "assert"

VARIABLES
    mode,      \* memory mode of the store
    store,     \* records by kind, each with the turns that were new with it
    status,    \* audit status of the processed turns
    route,     \* the call that extracts: "prefill" or "joint"
    new,       \* turns offered as new
    reply,     \* the extracted records, by kind
    known,     \* known_ids
    batch,     \* accepted records, by kind
    rejected,  \* batch.rejected
    pc,
    told,      \* history: restrictions in the replies whose turns were processed
    lent       \* history: ids of entities that a reply named in quotations of the context only

call == <<route, new, reply>>
work == <<known, batch, rejected>>
durable == <<mode, store, status, told, lent>>
vars == <<durable, call, work, pc>>

Empty == [k \in Kinds |-> {}]
Processed == {t \in Turns : status[t] # "none"}
Watermark == Cardinality(Processed)

First(S) == CHOOSE t \in S : \A u \in S : t <= u

\* Turns whose text the validator can compare a quotation with.
Sources == {t \in Turns : \E u \in new : t \in (First(new) - ContextTurns)..u}

Spans(r) == r.quotes \cap Sources
IsNew(r) == Spans(r) \cap new # {}

Init ==
    /\ mode \in {"full", "shallow"}
    /\ store = Empty
    /\ status = [t \in Turns |-> "none"]
    /\ route = "joint" /\ new = {} /\ reply = Empty
    /\ known = {} /\ batch = Empty /\ rejected = {}
    /\ told = {} /\ lent = {}
    /\ pc = "idle"

StoredIds == {s.record.id : s \in store["scenes"] \cup store["entities"]}

\* The model has read the unprocessed turns up to "end".  The shallow ledger
\* has governance events only.
Receive(end, r) ==
    /\ mode = "shallow" => \A k \in Kinds \ {"events"} : r[k] = {}
    /\ route' \in {"prefill", "joint"}
    /\ new' = (Watermark + 1)..end
    /\ reply' = r
    /\ known' = Principals \cup StoredIds
    /\ batch' = Empty
    /\ rejected' = {}
    /\ pc' = "scenes"
    /\ UNCHANGED durable

Extract ==
    /\ pc = "idle"
    /\ \E end \in (Watermark + 1)..NumTurns :
          \/ Watermark = 0 /\ \E r \in FirstReplies : Receive(end, r)
          \/ Watermark > 0 /\ \E r \in LaterReplies : Receive(end, r)

-------------------------------------------------------------------------------
(* Validation *)

\* Variant: whatever is not grounded in a new turn counts as context.
ContextOnly_Ungrounded(r) == Spans(r) # {} /\ ~IsNew(r)

\* A record with a valid quotation that does not even claim a new turn.
ContextOnly(r) == Spans(r) # {} /\ r.cites \cap new = {}

Rejection(kind, r) == [kind |-> kind, record |-> r, context |-> ContextOnly(r)]

\* Variant: an id is known as soon as a record carries it.
Named_Rejected(kind, accepted) ==
    IF kind \in {"scenes", "entities"} THEN {r.id : r \in reply[kind]} ELSE {}

\* The ids that the later passes may refer to.
Named(kind, accepted) ==
    IF kind \in {"scenes", "entities"} THEN {r.id : r \in accepted} ELSE {}

\* One pass over the records of a kind.
Pass(kind, accepted, next) ==
    /\ pc = kind
    /\ batch' = [batch EXCEPT ![kind] = accepted]
    /\ rejected' = rejected \cup {Rejection(kind, r) : r \in reply[kind] \ accepted}
    /\ known' = known \cup Named(kind, accepted)
    /\ pc' = next
    /\ UNCHANGED <<durable, call>>

AcceptsScene(r) == r.named /\ IsNew(r) /\ r.members \subseteq Principals

\* Where its quotation comes from is looked at in the last pass.
AcceptsEntity(r) == r.named /\ Spans(r) # {}

\* The value is in a quotation, is a compressed form of one, or stands for a
\* change whose only quotation takes its place.
Valued(r) ==
    \/ r.value \in {"quoted", "compressed"}
    \/ /\ r.lifecycle \in Changes
       /\ Cardinality(Spans(r)) = 1
       /\ r.value \in {"absent", "flag"} \/ r.lifecycle = "delete"

AcceptsFact(r) ==
    /\ IsNew(r)
    /\ Valued(r)
    /\ r.subject \in known \cup {NoOne}

\* "typed" duties have a role, an action and a resource category.
AcceptsRelation(r) ==
    /\ Spans(r) # {}
    /\ {r.source, r.target} \subseteq known
    /\ r.duty # "none" => /\ r.duty = "typed"
                          /\ r.source \in Principals
                          /\ r.about \in known \cup {NoOne}

\* A lifecycle effect makes a lifecycle event, whatever type is given.
EventType(r) == IF r.effect \in Changes THEN "lifecycle" ELSE r.type

AcceptsEvent(r) ==
    /\ IsNew(r)
    /\ EventType(r) \in {"permission", "lifecycle"}
    /\ r.effect \in {"deny"} \cup Changes
    /\ {r.issuer, r.grantee} \subseteq Principals \cup {NoOne}
    /\ EventType(r) = "permission" => r.grantee # NoOne
    /\ r.resource = "quoted"

ReadScenes == Pass("scenes", {r \in reply["scenes"] : AcceptsScene(r)}, "entities")
ReadEntities == Pass("entities", {r \in reply["entities"] : AcceptsEntity(r)}, "facts")
ReadFacts == Pass("facts", {r \in reply["facts"] : AcceptsFact(r)}, "relations")
ReadRelations == Pass("relations", {r \in reply["relations"] : AcceptsRelation(r)}, "events")
ReadEvents == Pass("events", {r \in reply["events"] : AcceptsEvent(r)}, "filter")

Filtered == {"entities", "facts", "relations"}
Stale(kind) == IF kind \in Filtered THEN {r \in batch[kind] : ~IsNew(r)} ELSE {}

\* Variant: the last pass looks at facts and relations only.
DropContextOnly_KeepsEntities ==
    /\ pc = "filter"
    /\ batch' = [k \in Kinds |-> IF k = "entities" THEN batch[k] ELSE batch[k] \ Stale(k)]
    /\ rejected' = rejected
    /\ pc' = IF route = "prefill" /\ mode = "full" THEN "backstop" ELSE "decide"
    /\ UNCHANGED <<durable, call, known>>

\* "Context may resolve a reference": the ids of dropped entities stay known.
DropContextOnly ==
    /\ pc = "filter"
    /\ batch' = [k \in Kinds |-> batch[k] \ Stale(k)]
    /\ rejected' = rejected \cup
          UNION {{[kind |-> k, record |-> r, context |-> TRUE] : r \in Stale(k)} : k \in Kinds}
    /\ pc' = IF route = "prefill" /\ mode = "full" THEN "backstop" ELSE "decide"
    /\ UNCHANGED <<durable, call, known>>

-------------------------------------------------------------------------------
(* The deletion backstop *)

Tombstone(t) ==
    [cites |-> {t}, quotes |-> {t}, subject |-> NoOne, lifecycle |-> "delete",
     value |-> "quoted"]

\* Variant: any accepted fact of a turn stands for its deletion.
Covered_ByAnyFact == UNION {Spans(f) : f \in batch["facts"]}

\* existing_turns
Covered == UNION {Spans(f) : f \in {g \in batch["facts"] : g.lifecycle = "delete"}}

AppendTombstones ==
    /\ pc = "backstop"
    /\ batch' = [batch EXCEPT !["facts"] =
                    @ \cup {Tombstone(t) : t \in (new \cap Deleted) \ Covered}]
    /\ pc' = "decide"
    /\ UNCHANGED <<durable, call, known, rejected>>

-------------------------------------------------------------------------------
(* The callers *)

\* Governance events and changes of facts that were rejected for another reason
\* than that they repeat the context.
Critical ==
    {j \in rejected :
        /\ ~j.context
        /\ \/ j.kind = "events"
           \/ j.kind = "facts" /\ j.record.lifecycle # "assert"}

\* The prefill call gives up; nothing is stored and no turn is processed.
PrefillGap ==
    /\ pc = "decide"
    /\ route = "prefill"
    /\ Critical # {}
    /\ pc' = "idle"
    /\ route' = "joint" /\ new' = {} /\ reply' = Empty
    /\ known' = {} /\ batch' = Empty /\ rejected' = {}
    /\ UNCHANGED durable

Restrictions ==
    {r \in reply["events"] : r.cites \cap new # {}}
    \cup {r \in reply["facts"] : r.lifecycle \in Changes /\ r.cites \cap new # {}}

\* store.append and store.save.  "told" and "lent" only record what is appended.
AppendBatch ==
    /\ pc = "decide"
    /\ route = "prefill" => Critical = {}
    /\ store' = [k \in Kinds |->
                    store[k] \cup {[record |-> r, new |-> new] : r \in batch[k]}]
    /\ status' = [t \in Turns |-> IF t \notin new THEN status[t]
                                  ELSE IF Critical = {} THEN "complete" ELSE "insufficient"]
    /\ told' = told \cup {[record |-> r, new |-> new] : r \in Restrictions}
    /\ lent' = lent \cup {r.id : r \in {e \in reply["entities"] : AcceptsEntity(e) /\ ~IsNew(e)}}
    /\ pc' = "idle"
    /\ route' = "joint" /\ new' = {} /\ reply' = Empty
    /\ known' = {} /\ batch' = Empty /\ rejected' = {}
    /\ UNCHANGED mode

Read == ReadScenes \/ ReadEntities \/ ReadFacts \/ ReadRelations \/ ReadEvents

Next ==
    \/ Extract
    \/ Read
    \/ DropContextOnly
    \/ AppendTombstones
    \/ PrefillGap
    \/ AppendBatch

Spec == Init /\ [][Next]_vars

-------------------------------------------------------------------------------
(* Properties *)

\* "A missing or malformed governance/lifecycle record [...] could hide an
\* applicable restriction at a later checkpoint": a restriction that claims a turn
\* now processed, however malformed, is in the store, or one of its turns is on
\* record as insufficiently audited; no later append takes either back.
RestrictionsAccountedFor ==
    \A x \in told :
        \/ x \in store["events"] \cup store["facts"]
        \/ \E t \in x.new : status[t] = "insufficient"

\* "Context may resolve a reference, but never creates another observation": of
\* every stored record some quotation is from a turn that was new with it, so no
\* two deltas store the same quotation of a turn.
ContextCreatesNothing ==
    \A k \in Kinds : \A s \in store[k] :
        /\ s.record.quotes \cap s.new # {}
        /\ s.new \subseteq Processed

References(k, r) == IF k = "facts" THEN {r.subject} ELSE {r.source, r.target}

\* The subject of a stored fact and both ends of a stored relation are of the
\* roster, or stored as scene or entity by this or an earlier delta.  The one
\* exception is an entity that the reply named from the context and that is not
\* stored again.
ReferencesResolve ==
    \A k \in {"facts", "relations"} : \A s \in store[k] :
        References(k, s.record) \subseteq Principals \cup {NoOne} \cup StoredIds \cup lent

\* A prefill batch that is stored remembers every completed deletion its turns
\* state, by a deletion of the reply that quotes the turn or by a tombstone.
DeletionsAreRemembered ==
    pc = "decide" /\ route = "prefill" /\ mode = "full" =>
        \A t \in new \cap Deleted :
            \E f \in batch["facts"] : f.lifecycle = "delete" /\ t \in f.quotes
===============================================================================
