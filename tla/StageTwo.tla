-------------------------------- MODULE StageTwo --------------------------------
(***************************************************************************)
(* The Stage-2 call of one conversation, from the model's reply to reviewed  *)
(* claims, in the published form (shallow memory, JSON): the event delta is   *)
(* validated and stored first (accept_events), then the claims are            *)
(* normalised, bound to events, validated and reviewed.  A refused reply is   *)
(* repaired, or ends the checkpoint with an audit gap or an exception, after  *)
(* which the checkpoint can be tried again.                                   *)
(*                                                                          *)
(* Data abstracted: a resource/action/scene triple is one target; a quote is  *)
(* known by the candidates whose text contains it; events have one issuer and *)
(* no scope, condition or end (module StateProjector has those).              *)
(***************************************************************************)
EXTENDS Integers, FiniteSets, SequencesExt

CONSTANTS
    Candidates, EventIds, Targets, Requesters,
    Replies,        \* what the model may answer, a set of Reply records
    Absent,         \* what a field of the reply holds that is not given
    Checkpoints,    \* bound: number of checkpoints of the conversation
    RepairLimit     \* v8_query.max_contract_repairs, clipped to 0..1

\* source: whether the event cites a new turn, context turns only, or nothing
\* that is in the text.  A lifecycle event is for everybody.
Event ==
    {e \in [id : EventIds, target : Targets, grantee : Requesters \cup {"everybody"},
            effect : {"allow", "deny", "delete"}, source : {"new", "context", "none"}] :
        e.effect = "delete" => e.grantee = "everybody"}

\* A claim of the reply.  quote: none, or the candidates that contain it; once:
\* it has one position there; nested: the denial is given as a "block" object;
\* evidence: the restriction's citations, if any, are in the sources.
RawClaim ==
    [slot : BOOLEAN, candidate : Candidates \cup {"unknown", Absent}, keep : BOOLEAN,
     quote : (SUBSET Candidates) \cup {Absent}, once : BOOLEAN,
     delivery : {Absent, "exact", "block"}, nested : BOOLEAN,
     bind : (SUBSET (EventIds \cup {"turn", "ghost"})) \cup {Absent},
     kind : {Absent, "deleted", "restriction"}, evidence : {Absent, "false", "true"},
     deleted : BOOLEAN]

\* events: the delta, or Absent if the reply has no such array.
Reply == [events : Seq(Event) \cup {Absent}, claims : Seq(RawClaim),
          action : {"answer", "no_memory"}]

ASSUME StageTwoAssumption ==
    /\ Checkpoints \in Nat \ {0}
    /\ RepairLimit \in 0..1
    /\ Replies \subseteq Reply
    /\ Absent \notin {"exact", "block"}

VARIABLES
    store,      \* governance_events of the event store
    requester,  \* of the running checkpoint
    round,      \* checkpoints begun
    pending,    \* the delta of this checkpoint is still to be extracted
    attempt,    \* repairs made in this checkpoint
    seen,       \* events of the store that the running request was built with
    reply,
    ledger,     \* claims in their present form, by their place in the reply
    pc

vars == <<store, requester, round, pending, attempt, seen, reply, ledger, pc>>

NoReply == [events |-> Absent, claims |-> <<>>, action |-> "no_memory"]

Init ==
    /\ store = <<>>
    /\ requester \in Requesters
    /\ round = 0
    /\ pending = FALSE
    /\ attempt = 0
    /\ seen = 0
    /\ reply = NoReply
    /\ ledger = <<>>
    /\ pc = "idle"

\* The locals of a request are gone when it ends.
Forgotten ==
    /\ reply' = NoReply
    /\ seen' = 0
    /\ ledger' = <<>>

Begin(r) ==
    /\ pc \in {"idle", "answered", "gap"}
    /\ round < Checkpoints
    /\ round' = round + 1
    /\ requester' = r
    /\ pending' = TRUE
    /\ attempt' = 0
    /\ pc' = "ask"
    /\ Forgotten
    /\ UNCHANGED store

Ask(answer) ==
    /\ pc = "ask"
    /\ reply' = answer
    /\ seen' = Len(store)
    /\ pc' = "delta"
    /\ UNCHANGED <<store, requester, round, pending, attempt, ledger>>

\* A ValueError: one more request, then a gap if the reason is a known defect of
\* replies, else the exception leaves run_instance.
Refused(recoverable) ==
    /\ IF attempt < RepairLimit THEN attempt' = attempt + 1 /\ pc' = "ask"
       ELSE /\ pc' = IF recoverable THEN "gap" ELSE "raised"
            /\ UNCHANGED attempt
    /\ Forgotten
    /\ UNCHANGED <<store, requester, round, pending>>

\* Any other exception is not caught.
Crash ==
    /\ pc' = "raised"
    /\ Forgotten
    /\ UNCHANGED <<store, requester, round, pending, attempt>>

\* The checkpoint is tried again, from the store as it is.
Retry ==
    /\ pc = "raised"
    /\ attempt' = 0
    /\ pc' = "ask"
    /\ UNCHANGED <<store, requester, round, pending, seen, reply, ledger>>

-------------------------------------------------------------------------------
(* The event delta *)

Delta == IF reply.events = Absent THEN <<>> ELSE reply.events

\* _extend_unique, of the events that are valid: those that cite a new turn.
Extended(kept, e) ==
    IF e.source # "new" \/ e \in ToSet(kept) THEN kept ELSE Append(kept, e)

Stored(events) == FoldLeft(Extended, store, events)

\* Events are accepted before any claim is looked at.
AcceptDelta ==
    /\ pc = "delta"
    /\ pending
    /\ reply.events # Absent
    /\ store' = Stored(Delta)
    /\ pending' = FALSE
    /\ pc' = "normalize"
    /\ UNCHANGED <<requester, round, attempt, seen, reply, ledger>>

NoDelta ==
    /\ pc = "delta"
    /\ ~pending
    /\ Delta = <<>>
    /\ pc' = "normalize"
    /\ UNCHANGED <<store, requester, round, pending, attempt, seen, reply, ledger>>

DeltaRefused ==
    /\ pc = "delta"
    /\ IF pending THEN reply.events = Absent ELSE Delta # <<>>
    /\ Refused(TRUE)

-------------------------------------------------------------------------------
(* normalize_shallow_json and expand_kept_candidates *)

Places == 1..Len(reply.claims)
Raw(n) == reply.claims[n]

Supported(c) == c.kind # Absent /\ c.evidence # Absent
Denies(c) == c.nested \/ c.delivery = "block"

\* No slot or no candidate: the claim is listed and ignored.
Unnamed(c) == (~c.slot \/ c.candidate = Absent) /\ ~c.nested

\* Variant: so is a claim without an excerpt.
Ignored_Excerptless(c) == Unnamed(c) \/ (~c.nested /\ ~c.keep /\ c.quote = Absent)

\* Nor is a claim looked at that says nothing: the model omits the candidate.
Ignored(c) ==
    Unnamed(c) \/ (~c.nested /\ ~c.keep /\ c.quote = Absent /\ c.delivery = Absent)

Considered == {n \in Places : ~Ignored(Raw(n))}

\* Only a whole candidate or a supported denial may leave its bindings out.
Unbound(c) == c.bind = Absent /\ ~c.keep /\ ~(Denies(c) /\ Supported(c))

Contradicts(c) == (c.keep /\ Denies(c)) \/ (c.nested /\ c.delivery = "exact")

\* An excerpt needs value and delivery; a supported denial may stand for the
\* whole candidate.
Incomplete(c) ==
    ~c.keep /\ IF c.quote = Absent THEN ~(Denies(c) /\ Supported(c))
               ELSE c.delivery = Absent /\ ~c.nested

Offends(n) ==
    LET c == Raw(n)
    IN  (c.nested /\ ~Supported(c)) \/ Unbound(c) \/ Contradicts(c) \/ Incomplete(c)

\* Contradictory or unsupported decisions are no known defect of replies.
KnownDefect(c) == ~c.nested /\ ~Contradicts(c)

WholeCandidate(c) == c.keep \/ c.quote = Absent
Lacking(n) == WholeCandidate(Raw(n)) /\ Raw(n).candidate \notin Candidates

IsFirst(n, places) == n \in places /\ \A m \in places : n <= m
Offending == {n \in Considered : Offends(n)}
LackingPlaces == {n \in Considered : Lacking(n)}

NormalizeRefused ==
    /\ pc = "normalize"
    /\ \E n \in Places : IsFirst(n, Offending) /\ Refused(KnownDefect(Raw(n)))

\* A whole candidate that is not among those supplied is refused; one that is
\* not named at all is a KeyError.
ExpandRefused ==
    /\ pc = "normalize"
    /\ Offending = {}
    /\ \E n \in Places : IsFirst(n, LackingPlaces) /\
          IF Raw(n).candidate = Absent THEN Crash ELSE Refused(TRUE)

Normalized(n) ==
    LET c == Raw(n) IN
    [candidate |-> c.candidate,
     quote |-> IF WholeCandidate(c) THEN {c.candidate} ELSE c.quote,
     once |-> c.once \/ WholeCandidate(c),
     delivery |-> IF Denies(c) THEN "block" ELSE "exact",
     binds |-> IF c.bind = Absent THEN {} ELSE c.bind,
     target |-> "none",
     kind |-> c.kind, grounded |-> c.evidence = "true", deleted |-> c.deleted]

Normalize ==
    /\ pc = "normalize"
    /\ Offending = {}
    /\ LackingPlaces = {}
    /\ ledger' = [n \in Considered |-> Normalized(n)]
    /\ pc' = "bind"
    /\ UNCHANGED <<store, requester, round, pending, attempt, seen, reply>>

-------------------------------------------------------------------------------
(* bind_claim_events *)

ShownTo(r, e) == e.grantee \in {r, "everybody"}
Shown == {store[k] : k \in {k \in 1..Len(store) : ShownTo(requester, store[k])}}

\* Variant: the prompt holds everybody's events.
Policies_Unfiltered == {store[k] : k \in 1..seen} \cup ToSet(Delta)

\* The events in the prompt and all those of the reply, validated or not.
Policies == {store[k] : k \in {k \in 1..seen : ShownTo(requester, store[k])}} \cup ToSet(Delta)

Ambiguous(events) == \E d, e \in events : d.id = e.id /\ d.target # e.target

Conflict == Ambiguous(Policies)

Selected(c) == {e \in Policies : e.id \in c.binds}
SelectedTargets(c) == {e.target : e \in Selected(c)}

\* A bound id is an event or a visible source turn; the events of a claim that
\* is not denied are about one target.
BindOffends(c) ==
    \/ \E id \in c.binds \ {"turn"} : \A e \in Policies : e.id # id
    \/ c.delivery # "block" /\ Cardinality(SelectedTargets(c)) > 1

Bound(c) ==
    [c EXCEPT !.binds = {e.id : e \in Selected(c)},
              !.target = IF Cardinality(SelectedTargets(c)) = 1
                         THEN CHOOSE t \in SelectedTargets(c) : TRUE ELSE "none"]

Entries == {ledger[n] : n \in DOMAIN ledger}

BindRefused ==
    /\ pc = "bind"
    /\ Conflict \/ \E c \in Entries : BindOffends(c)
    /\ Refused(~Conflict)

Bind ==
    /\ pc = "bind"
    /\ ~Conflict
    /\ \A c \in Entries : ~BindOffends(c)
    /\ ledger' = [n \in DOMAIN ledger |-> Bound(ledger[n])]
    /\ pc' = "validate"
    /\ UNCHANGED <<store, requester, round, pending, attempt, seen, reply>>

-------------------------------------------------------------------------------
(* _validate_claims *)

\* The named candidate if it contains the quote, or else the only one that does.
Sources(c) == IF c.candidate \in c.quote THEN {c.candidate}
              ELSE IF Cardinality(c.quote) = 1 THEN c.quote ELSE {}

Unsupported(c) == c.delivery = "block" /\ ~(c.grounded /\ c.kind # Absent)

\* A deletion the model delivers without support, and a value at several places.
Omits(c) ==
    \/ Sources(c) = {}
    \/ c.deleted /\ c.delivery # "block" /\ ~(c.kind = "deleted" /\ c.grounded)
    \/ ~c.once

Omitted == {c \in Entries : Omits(c)}

\* Variant: what cannot be validated is omitted, whatever it decides.
ValidationFails_IfEmpty ==
    \/ \E c \in Entries : Sources(c) # {} /\ Unsupported(c)
    \/ Entries # {} /\ Omitted = Entries
    \/ Entries = {} /\ reply.action # "no_memory"

\* An ungrounded release is omitted; an ungrounded denial, or nothing but
\* ungrounded releases, fails the reply.
ValidationFails ==
    \/ \E c \in Entries : Sources(c) # {} /\ Unsupported(c)
    \/ \E c \in Omitted : c.delivery = "block"
    \/ Entries # {} /\ Omitted = Entries
    \/ Entries = {} /\ reply.action # "no_memory"

\* The signature of an observation: temporal_state is not part of it.
Signature(c) == <<c.delivery, Sources(c), c.quote, c.binds, c.target, c.kind, c.grounded>>
Repeats(n) ==
    \E m \in DOMAIN ledger :
        m < n /\ ~Omits(ledger[m]) /\ Signature(ledger[m]) = Signature(ledger[n])

Validated(c) == [c EXCEPT !.candidate = CHOOSE s \in Sources(c) : TRUE]

ValidateRefused ==
    /\ pc = "validate"
    /\ ValidationFails
    /\ Refused(TRUE)

Validate ==
    /\ pc = "validate"
    /\ ~ValidationFails
    /\ ledger' = [n \in {n \in DOMAIN ledger : ~Omits(ledger[n]) /\ ~Repeats(n)} |->
                     Validated(ledger[n])]
    /\ pc' = "review"
    /\ UNCHANGED <<store, requester, round, pending, attempt, seen, reply>>

-------------------------------------------------------------------------------
(* criticize_v8_claims, over the projection of the whole store *)

\* Variant: the projection is that of the request, without the new delta.
Projected_BeforeDelta == 1..seen

Projected == 1..Len(store)

\* The last permission event of a target decides it.
Effective ==
    {store[k] : k \in {k \in Projected :
        /\ store[k].grantee = requester
        /\ \A j \in Projected : j > k => store[j].grantee # requester \/ store[j].target # store[k].target}}

Deletions == {store[k] : k \in {k \in Projected : store[k].effect = "delete"}}

Vetoed(c) ==
    \/ \E e \in Effective : e.id \in c.binds /\ e.effect = "deny" /\ e.target = c.target
    \/ \E e \in Deletions : e.id \in c.binds /\ e.target = c.target
    \/ c.deleted /\ c.kind = "deleted" /\ c.grounded

Blocked(c) == [c EXCEPT !.delivery = "block"]
Reviewed(c) == IF Vetoed(c) THEN Blocked(c) ELSE c

Review ==
    /\ pc = "review"
    /\ ledger' = [n \in DOMAIN ledger |-> Reviewed(ledger[n])]
    /\ pc' = "answered"
    /\ UNCHANGED <<store, requester, round, pending, attempt, seen, reply>>

Work ==
    \/ AcceptDelta \/ NoDelta \/ DeltaRefused
    \/ NormalizeRefused \/ ExpandRefused \/ Normalize
    \/ BindRefused \/ Bind
    \/ ValidateRefused \/ Validate
    \/ Review

Next ==
    \/ \E r \in Requesters : Begin(r)
    \/ \E answer \in Replies : Ask(answer)
    \/ Retry
    \/ Work

Spec == Init /\ [][Next]_vars

\* Fairness.  A checkpoint that was begun goes on, and is tried again when it
\* failed.  That the model, asked again and again, sometimes gives a reply that
\* is complete in itself is an assumption about the provider.
Clean == [events |-> <<>>, claims |-> <<>>, action |-> "no_memory"]
Plain == [Clean EXCEPT !.events = Absent]

FairSpec ==
    /\ Spec
    /\ WF_vars(Work \/ Retry)
    /\ SF_vars(Ask(IF pending THEN Clean ELSE Plain))

-------------------------------------------------------------------------------
(* Properties *)

\* What the model denied under a candidate is denied in the reviewed ledger, in
\* that very source: whatever form the denial has, whatever else is in the reply,
\* however the reply was repaired, normalised, bound, deduplicated or reviewed.
DeniedIn(n, s) ==
    \E k \in DOMAIN ledger :
        /\ ledger[k].delivery = "block"
        /\ ledger[k].quote = Normalized(n).quote
        /\ ledger[k].candidate = s

DenialsSurvive ==
    pc = "answered" => \A n \in Places :
        Denies(Raw(n)) /\ ~Unnamed(Raw(n)) =>
            LET named == {Raw(n).candidate} \cap Normalized(n).quote
            IN  \E s \in IF named = {} THEN Normalized(n).quote ELSE named : DeniedIn(n, s)

\* "Never discard a malformed denial: doing so could remove a veto."  Of a reply
\* whose claims are used, no denial is left out.
NoDenialDiscarded ==
    pc = "answered" => \A n \in Places :
        Denies(Raw(n)) => \E s \in Normalized(n).quote : DeniedIn(n, s)

\* A claim that names an event which is, when the checkpoint is answered, the
\* requester's effective denial or a deletion is not released: be the event old
\* or from this very reply, and be the delta accepted in this request or in one
\* whose claims were refused.
BoundDenialsEnforced ==
    pc = "answered" => \A n \in DOMAIN ledger :
        ledger[n].delivery = "exact" /\ Raw(n).bind # Absent =>
            \A k \in 1..Len(store) :
                store[k].id \in Raw(n).bind =>
                    /\ store[k].effect # "delete"
                    /\ store[k].effect = "deny" /\ store[k].grantee = requester =>
                          \E j \in (k + 1)..Len(store) :
                              store[j].grantee = requester /\ store[j].target = store[k].target

\* Once checkpoints are no longer begun, the running one is answered or closed
\* with a gap, unless what is shown to its requester holds one event id for two
\* targets: a reply that says so is refused after its delta was stored, and no
\* later reply can mend it.
CheckpointsGetThrough ==
    []<>(pc \in {"idle", "answered", "gap"} \/ Ambiguous(Shown))
===============================================================================
