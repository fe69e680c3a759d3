------------------------------ MODULE ClaimReview ------------------------------
(***************************************************************************)
(* From a validated claim ledger to the answer: the symbolic critic         *)
(* (criticize_v8_claims), the safe-evidence boundary                        *)
(* (build_v8_safe_evidence) and the answer action                           *)
(* (_answer_from_safe_evidence), claim by claim.                            *)
(*                                                                          *)
(* Data abstracted: a resource/action/scene triple is one target; a claim's *)
(* value is the interval of its source it was validated at; of a permission *)
(* state only what the critic reads is kept.                                *)
(***************************************************************************)
EXTENDS FiniteSetsExt, SpanMask

CONSTANTS
    Length,     \* characters of a source
    Blanks,     \* offsets that hold white space
    Sources,    \* source_memory_id values
    EventIds,
    Targets,    \* (resource_id, action, scene_id) triples
    Inputs      \* projections and claim ledgers to review

\* plain: active, unconditional and unscoped, with source spans.
Permission == [id : EventIds, decision : {"allow", "deny"}, plain : BOOLEAN,
               expired : BOOLEAN, target : Targets]

\* Lifecycle events with effect delete; plain also says that the event is for
\* everybody or for the requester.
Deletion == [id : EventIds, plain : BOOLEAN, target : Targets]

\* deleted: the claim itself is a source-grounded deletion.  Values are
\* stripped and not empty.
Claim ==
    {c \in [requested : BOOLEAN, delivery : {"exact", "block"}, deleted : BOOLEAN,
            source : Sources, from : 0..Length, to : 0..Length,
            binds : SUBSET EventIds, target : Targets \cup {"none"}] :
        c.from < c.to /\ c.from \notin Blanks /\ c.to - 1 \notin Blanks}

Input == [permissions : Seq(Permission), deletions : Seq(Deletion), claims : Seq(Claim),
          action : {"answer", "refuse"}, asksHistory : BOOLEAN]

ASSUME InputsAssumption == Length \in Nat /\ Inputs \subseteq Input

VARIABLES
    input,      \* requester's permissions, deletions, claims and answer_action
    vetoes,     \* reasons of the claims reviewed so far, in order
    safe,       \* released evidence: claim and text
    blocked,    \* blocked entries: claim and reasons
    released,   \* requested_released
    next,       \* claims handled by the loop of the safe-evidence boundary
    pc,
    action      \* of the answer; "none" before, "error" if no prediction

vars == <<input, vetoes, safe, blocked, released, next, pc, action>>

Claims == input.claims
Indices == 1..Len(Claims)

-------------------------------------------------------------------------------
(* The critic *)

HasId(rows, id) == \E n \in 1..Len(rows) : rows[n].id = id

\* {row.event_id: row for row in rows}: the last row of an id wins.
ById(rows, id) == rows[Max({n \in 1..Len(rows) : rows[n].id = id})]

\* permissions.values(): of each id, one row.
Kept(rows) == {ById(rows, rows[n].id) : n \in 1..Len(rows)}

Conflict(target) ==
    \E p \in Kept(input.permissions) :
        p.decision = "allow" /\ ~p.expired /\ p.target = target

PermissionVeto(c) ==
    \E id \in c.binds :
        /\ HasId(input.permissions, id)
        /\ LET p == ById(input.permissions, id) IN
           p.decision = "deny" /\ p.plain /\ p.target = c.target /\ ~Conflict(p.target)

DeletionVeto(c) ==
    \E id \in c.binds :
        /\ HasId(input.deletions, id)
        /\ LET d == ById(input.deletions, id) IN d.plain /\ d.target = c.target

\* Variant: only the first bound event is looked up.
Reasons_FirstBind(c) ==
    LET one == [c EXCEPT !.binds = IF @ = {} THEN {} ELSE {CHOOSE id \in @ : TRUE}] IN
    (IF PermissionVeto(one) THEN {"permission_veto"} ELSE {})
    \cup (IF DeletionVeto(one) THEN {"deletion_veto"} ELSE {})
    \cup (IF c.deleted THEN {"tombstone"} ELSE {})

Reasons(c) ==
    (IF PermissionVeto(c) THEN {"permission_veto"} ELSE {})
    \cup (IF DeletionVeto(c) THEN {"deletion_veto"} ELSE {})
    \cup (IF c.deleted THEN {"tombstone"} ELSE {})

Denied(i) == Claims[i].delivery = "block" \/ vetoes[i] # {}

Init ==
    /\ input \in Inputs
    /\ vetoes = <<>>
    /\ safe = {}
    /\ blocked = {}
    /\ released = 0
    /\ next = 0
    /\ pc = "critic"
    /\ action = "none"

Review ==
    /\ pc = "critic"
    /\ Len(vetoes) < Len(Claims)
    /\ vetoes' = Append(vetoes, Reasons(Claims[Len(vetoes) + 1]))
    /\ UNCHANGED <<input, safe, blocked, released, next, pc, action>>

ReviewDone ==
    /\ pc = "critic"
    /\ Len(vetoes) = Len(Claims)
    /\ pc' = "boundary"
    /\ UNCHANGED <<input, vetoes, safe, blocked, released, next, action>>

-------------------------------------------------------------------------------
(* The safe-evidence boundary *)

Block(i, reasons) == blocked \cup {[claim |-> i, reasons |-> reasons]}
Release(i, text) == safe \cup {[claim |-> i, text |-> text]}
Requested(i) == IF Claims[i].requested THEN 1 ELSE 0

\* Variant: only claims the model blocked are protected, not vetoed ones.
DeniedRanges_ModelOnly(i) ==
    {Overlap(Claims[i].from, Claims[i].to, Claims[j].from, Claims[j].to) :
        j \in {j \in Indices : /\ Claims[j].delivery = "block"
                               /\ Claims[j].source = Claims[i].source
                               /\ Overlaps(Claims[i].from, Claims[i].to, Claims[j].from, Claims[j].to)}}

\* Ranges of claim i that denied claims of the same source cover.
DeniedRanges(i) ==
    {Overlap(Claims[i].from, Claims[i].to, Claims[j].from, Claims[j].to) :
        j \in {j \in Indices : /\ Denied(j)
                               /\ Claims[j].source = Claims[i].source
                               /\ Overlaps(Claims[i].from, Claims[i].to, Claims[j].from, Claims[j].to)}}

Text(i) == Excerpt(Claims[i].from, Claims[i].to)
MaskedText(i) == Masked(Text(i), DeniedRanges(i))

\* Nothing but "[withheld]" and white space is left.
MaskedAway(i) == Remaining(MaskedText(i)) \subseteq Blanks

Handle(i) ==
    /\ pc = "boundary"
    /\ i = next + 1
    /\ i \in Indices
    /\ next' = i
    /\ UNCHANGED <<input, vetoes, pc, action>>

BlockClaim(i) ==
    /\ Handle(i)
    /\ Denied(i)
    /\ blocked' = Block(i, vetoes[i])
    /\ UNCHANGED <<safe, released>>

ReleaseClaim(i) ==
    /\ Handle(i)
    /\ ~Denied(i)
    /\ DeniedRanges(i) = {}
    /\ safe' = Release(i, Text(i))
    /\ released' = released + Requested(i)
    /\ UNCHANGED blocked

\* Variant: a masked claim is not listed as blocked.
MaskClaim_Unlisted(i) ==
    /\ Handle(i)
    /\ ~Denied(i)
    /\ DeniedRanges(i) # {}
    /\ ~MaskedAway(i)
    /\ safe' = Release(i, MaskedText(i))
    /\ released' = released + Requested(i)
    /\ UNCHANGED blocked

\* A masked claim is both blocked in part and released in part.
MaskClaim(i) ==
    /\ Handle(i)
    /\ ~Denied(i)
    /\ DeniedRanges(i) # {}
    /\ ~MaskedAway(i)
    /\ blocked' = Block(i, {"overlap"})
    /\ safe' = Release(i, MaskedText(i))
    /\ released' = released + Requested(i)

DropClaim(i) ==
    /\ Handle(i)
    /\ ~Denied(i)
    /\ DeniedRanges(i) # {}
    /\ MaskedAway(i)
    /\ blocked' = Block(i, {"overlap"})
    /\ UNCHANGED <<safe, released>>

BlockedRequested == {b \in blocked : Claims[b.claim].requested}

\* Background is not a partial answer if every requested field is blocked.
BoundaryDone ==
    /\ pc = "boundary"
    /\ next = Len(Claims)
    /\ safe' = IF BlockedRequested # {} /\ released = 0 THEN {} ELSE safe
    /\ pc' = "answer"
    /\ UNCHANGED <<input, vetoes, blocked, released, next, action>>

-------------------------------------------------------------------------------
(* The answer *)

DeletionBlocked ==
    \E b \in BlockedRequested : b.reasons \cap {"tombstone", "deletion_veto"} # {}

Finish(result) ==
    /\ pc' = "done"
    /\ action' = result
    /\ UNCHANGED <<input, vetoes, safe, blocked, released, next>>

\* Variant: an empty evidence set is reported as missing memory.
Withhold_AsNoMemory ==
    /\ pc = "answer"
    /\ safe = {}
    /\ Finish(IF input.action = "refuse" /\ ~DeletionBlocked THEN "refuse" ELSE "no_memory")

\* Nothing is releasable: no model call.
Withhold ==
    /\ pc = "answer"
    /\ safe = {}
    /\ Finish(IF DeletionBlocked /\ input.asksHistory THEN "no_memory"
              ELSE IF input.action = "refuse" THEN "refuse"
              ELSE IF DeletionBlocked THEN "no_memory"
              ELSE IF BlockedRequested # {} THEN "refuse"
              ELSE "no_memory")

AnswerCall ==
    /\ pc = "answer"
    /\ safe # {}
    /\ \/ Finish(IF BlockedRequested # {} THEN "answer_redacted" ELSE "answer")
       \/ Finish("error")

Next ==
    \/ Review \/ ReviewDone
    \/ \E i \in Indices : BlockClaim(i) \/ ReleaseClaim(i) \/ MaskClaim(i) \/ DropClaim(i)
    \/ BoundaryDone
    \/ Withhold \/ AnswerCall

Spec == Init /\ [][Next]_vars

-------------------------------------------------------------------------------
(* Properties *)

Span(c) == c.from..(c.to - 1)

\* No character of a denied span crosses the boundary, in whichever released
\* excerpt of that source it lies and however the denied spans overlap.
NoDeniedTextReleased ==
    \A s \in safe : \A j \in Indices :
        Denied(j) /\ Claims[j].source = Claims[s.claim].source
            => Remaining(s.text) \cap Span(Claims[j]) = {}

DeniedOffsets(source) ==
    UNION {Span(Claims[j]) : j \in {j \in Indices : Denied(j) /\ Claims[j].source = source}}

\* A marker stands for denied text, one marker for a whole stretch of it.
Marked(text, from, denied) ==
    \A k \in DOMAIN text : text[k] = Withheld =>
        IF k = 1 THEN from \in denied
        ELSE text[k - 1] # Withheld /\ text[k - 1] + 1 \in denied

\* Where there is no marker, offset follows offset from the beginning to the end.
Unbroken(text, from, to) ==
    /\ \A k \in DOMAIN text : text[k] # Withheld =>
          IF k = 1 THEN text[k] = from
          ELSE text[k - 1] = Withheld \/ text[k] = text[k - 1] + 1
    /\ text[Len(text)] \in {Withheld, to - 1}

\* What is left is in the order of the source.
Ordered(text) ==
    \A j, k \in DOMAIN text :
        j < k /\ text[j] # Withheld /\ text[k] # Withheld => text[j] < text[k]

\* Masking removes nothing else: what is left is the excerpt without the denied
\* offsets, in order, with one marker for every stretch that was cut.
OnlyDeniedTextMasked ==
    \A s \in safe :
        LET c == Claims[s.claim]
            denied == DeniedOffsets(c.source)
        IN  /\ Remaining(s.text) = Span(c) \ denied
            /\ Ordered(s.text)
            /\ Marked(s.text, c.from, denied)
            /\ Unbroken(s.text, c.from, c.to)

\* Event bound to claim c is an active whole-resource denial of its target that
\* no unexpired permission of the same target contests.
BoundDenial(c, p) ==
    /\ p.id \in c.binds /\ p.decision = "deny" /\ p.plain /\ p.target = c.target
    /\ \A m \in 1..Len(input.permissions) :
          input.permissions[m].target = c.target
             => input.permissions[m].decision = "deny" \/ input.permissions[m].expired

BoundDeletion(c, d) == d.id \in c.binds /\ d.plain /\ d.target = c.target

VetoesEnforced ==
    \A s \in safe :
        LET c == Claims[s.claim] IN
        /\ \A n \in 1..Len(input.permissions) : ~BoundDenial(c, input.permissions[n])
        /\ \A n \in 1..Len(input.deletions) : ~BoundDeletion(c, input.deletions[n])

DistinctIds ==
    \A rows \in {input.permissions, input.deletions} :
        \A m, n \in 1..Len(rows) : rows[m].id = rows[n].id => m = n

\* If no event id repeats, a claim bound to an uncontested denial or a plain
\* deletion of its target is not released, whatever else it is bound to, in
\* whichever order states were projected, and whatever the model delivered.
BoundVetoEnforced == DistinctIds => VetoesEnforced

\* "answer" promises the whole of every requested claim; "answer_redacted" says
\* that part of what was requested is missing and part of it is there; and what is
\* withheld because of a restriction is not passed off as missing memory.
ActionIsHonest ==
    /\ action = "answer" =>
          \A i \in Indices : Claims[i].requested => [claim |-> i, text |-> Text(i)] \in safe
    /\ action = "answer_redacted" =>
          /\ \E i \in Indices : Claims[i].requested /\ [claim |-> i, text |-> Text(i)] \notin safe
          /\ \E s \in safe : Claims[s.claim].requested
    /\ action = "no_memory" /\ BlockedRequested # {} => DeletionBlocked

\* docs/FRAMEWORK.md, Symbolic Critic: "Apply supported vetoes for explicitly bound
\* active denial and deletion".  The same also when an event id has several states,
\* which V8EventStore.append provides for.
BoundActiveDenialVetoed == VetoesEnforced
===============================================================================
