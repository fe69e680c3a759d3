---------------------------- MODULE PermissionState ----------------------------
(***************************************************************************)
(* Which permission events are in force at a checkpoint.  The operators are *)
(* those of v8_state_projector.py on one event (visibility, activation,     *)
(* key) and, as reference for the projection loop, the closed form of its   *)
(* result: the events no later event replaces.                              *)
(*                                                                          *)
(* A checkpoint is the number k of turns it sees.  An event keeps, of the   *)
(* turns its source spans cite, the first and the last: a prefix contains   *)
(* all of them exactly if it contains the last.                             *)
(***************************************************************************)
EXTENDS Integers, Sequences

CONSTANTS
    NumTurns,   \* turns of the conversation
    Clock,      \* Clock[k]: time of turn k, 0 if it cannot be compared to a date
    Bases,      \* (issuer, grantee, resource, action, scene) combinations
    Scopes,     \* included/excluded scopes of an event; "whole" if it has none
    Conditions  \* conditions of an event; "none" if it has none

ASSUME PermissionAssumption ==
    /\ NumTurns \in Nat
    /\ Clock \in [0..NumTurns -> Nat]
    /\ "whole" \in Scopes
    /\ "none" \in Conditions

Turns == 1..NumTurns
Prefixes == 0..NumTurns

\* valid_until is absent, names a turn, is a date, or is other text.
Until == [form : {"none", "turn", "date", "text"}, at : Nat]

\* Of a permission, and of a lifecycle event.
Effects == {"allow", "deny", "revoke", "update", "delete"}

\* NumTurns + 1 stands for a valid_from_turn_id that is no turn.
Event ==
    {e \in [kind : {"permission", "lifecycle"}, effect : Effects,
            base : Bases, scope : Scopes, condition : Conditions,
            from : 1..(NumTurns + 1), until : Until, first : Turns, last : Turns] :
        e.first <= e.last}

-------------------------------------------------------------------------------
(* One event at checkpoint k *)

Visible(e, k) == e.last <= k

\* Variant: one cited turn in the prefix is enough.
Visible_AnySpan(e, k) == e.first <= k

Pending(e, k) == e.from > k

Expired(e, k) ==
    \/ e.until.form = "turn" /\ e.until.at \in 1..k
    \/ e.until.form = "date" /\ Clock[k] # 0 /\ Clock[k] >= e.until.at

\* Variant: a date that cannot be compared is passed over.
Unresolved_ComparableOnly(e, k) ==
    /\ ~Expired(e, k)
    /\ e.until.form \in {"turn", "text"}

\* An end that is neither reached nor comparable with the checkpoint's time.
Unresolved(e, k) ==
    /\ ~Expired(e, k)
    /\ \/ e.until.form \in {"turn", "text"}
       \/ e.until.form = "date" /\ Clock[k] = 0

Active(e, k) ==
    /\ ~Pending(e, k)
    /\ ~Expired(e, k)
    /\ ~Unresolved(e, k)
    /\ e.condition = "none"

\* _activation, in the order in which the code decides.
Activation(e, k) ==
    CASE Pending(e, k) -> "pending_or_unresolved"
      [] ~Pending(e, k) /\ Expired(e, k) -> "expired"
      [] Active(e, k) -> "active"
      [] OTHER -> "conditional"

\* Loop entries that reach states[key] = ...
Effective(e, k) == Visible(e, k) /\ e.kind = "permission" /\ ~Pending(e, k)

\* An unconditional change of the whole resource.
WholeChange(e, k) == Active(e, k) /\ e.scope = "whole"

Key(e) == <<e.base, e.scope, e.condition, e.until>>

-------------------------------------------------------------------------------
(* The events of a store, by their index in governance_events *)

Indices(ev) == 1..Len(ev)

\* sorted(..., key=sequence) is stable: ties keep the order of the store.
Before(ev, i, j) ==
    \/ ev[i].last < ev[j].last
    \/ ev[i].last = ev[j].last /\ i < j

EffectiveIn(ev, k) == {i \in Indices(ev) : Effective(ev[i], k)}

\* Event j, processed after i, takes the place of i.
Replaces(ev, j, i, k) ==
    \/ Key(ev[j]) = Key(ev[i])
    \/ WholeChange(ev[j], k) /\ ev[j].base = ev[i].base

\* Of the events in S those that no later event of S replaces.
Unreplaced(ev, S, k) ==
    {i \in S : \A j \in S : Before(ev, i, j) => ~Replaces(ev, j, i, k)}

Survivors(ev, k) == Unreplaced(ev, EffectiveIn(ev, k), k)
===============================================================================
