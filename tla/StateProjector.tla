---------------------------- MODULE StateProjector ----------------------------
(***************************************************************************)
(* The permission loop of project_v8_state: the visible events of a store   *)
(* are folded, in the order of their latest cited turn, into the dictionary *)
(* "states" keyed by base, scopes, condition and end.  A dictionary entry   *)
(* is represented by the index of the event that wrote it.                  *)
(***************************************************************************)
EXTENDS PermissionState

CONSTANT Stores   \* contents of governance_events the loop is started on

ASSUME StoresAssumption == Stores \subseteq Seq(Event)

VARIABLES
    events,  \* store.governance_events
    prefix,  \* number of visible turns
    todo,    \* rows(store.governance_events) still to be folded
    states   \* the dictionary, as indices of events

vars == <<events, prefix, todo, states>>

Init ==
    /\ events \in Stores
    /\ prefix \in Prefixes
    /\ todo = {i \in Indices(events) : Visible(events[i], prefix)}
    /\ states = {}

\* Variant: the rows are folded in the order in which they were stored.
IsNext_StoreOrder(i) == i \in todo /\ \A j \in todo \ {i} : i < j

\* i is the next row of the sorted list.
IsNext(i) == i \in todo /\ \A j \in todo \ {i} : Before(events, i, j)

\* Lifecycle events and permissions that are not effective yet are passed over.
Skip(i) ==
    /\ IsNext(i)
    /\ ~Effective(events[i], prefix)
    /\ todo' = todo \ {i}
    /\ UNCHANGED <<events, prefix, states>>

\* Variant: any unscoped event, conditional or expired, clears earlier states.
Fold_UnscopedErases(i) ==
    /\ IsNext(i)
    /\ Effective(events[i], prefix)
    /\ todo' = todo \ {i}
    /\ states' = {i} \cup
          {j \in states : /\ Key(events[j]) # Key(events[i])
                          /\ events[i].scope = "whole" => events[j].base # events[i].base}
    /\ UNCHANGED <<events, prefix>>

\* A whole-resource change drops every state of its base, then the entry of the
\* event's own key is written.
Fold(i) ==
    /\ IsNext(i)
    /\ Effective(events[i], prefix)
    /\ todo' = todo \ {i}
    /\ states' = {i} \cup
          {j \in states : /\ Key(events[j]) # Key(events[i])
                          /\ WholeChange(events[i], prefix) => events[j].base # events[i].base}
    /\ UNCHANGED <<events, prefix>>

Next == \E i \in todo : Skip(i) \/ Fold(i)

Spec == Init /\ [][Next]_vars

-------------------------------------------------------------------------------
(* Properties *)

Done == EffectiveIn(events, prefix) \ todo

\* The loop works on visible events only and in sequence order.
TypeOK ==
    /\ events \in Stores
    /\ prefix \in Prefixes
    /\ todo \subseteq {i \in Indices(events) : Visible(events[i], prefix)}
    /\ states \subseteq Done

\* At every point of the loop the dictionary holds exactly the processed events
\* that no later processed event replaced: the deletions made on the way, by
\* key and by whole-resource change, never leave a stale entry and never drop
\* one too many.
LoopIsClosedForm == states = Unreplaced(events, Done, prefix)

\* The last active whole-resource change of a base is in the projection, and
\* every other state of that base is later: nothing conditional, expired,
\* scoped or pending erases it, and nothing older is left beside it.
LastWholeChangeWins ==
    todo = {} =>
        \A w \in EffectiveIn(events, prefix) :
            /\ WholeChange(events[w], prefix)
            /\ \A j \in EffectiveIn(events, prefix) :
                  WholeChange(events[j], prefix) /\ events[j].base = events[w].base
                     => ~Before(events, w, j)
            => /\ w \in states
               /\ \A i \in states :
                     i # w /\ events[i].base = events[w].base => Before(events, w, i)
===============================================================================
