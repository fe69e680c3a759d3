----------------------------- MODULE MCClaimReview -----------------------------
(* Claim ledgers for ClaimReview: one source of five characters, of which one  *)
(* is a blank, and a second source.                                            *)
EXTENDS ClaimReview

C(requested, delivery, source, from, to, binds, target) ==
    [requested |-> requested, delivery |-> delivery, deleted |-> FALSE, source |-> source,
     from |-> from, to |-> to, binds |-> binds, target |-> target]

P(id, decision, form, target) ==
    [id |-> id, decision |-> decision, plain |-> form = "plain", expired |-> form = "expired",
     target |-> target]

\* Overlapping, nested, touching and separate excerpts, without any binding.
Spans == {<<0, 5>>, <<0, 2>>, <<1, 2>>, <<1, 4>>, <<3, 5>>, <<2, 5>>}
MaskClaims ==
    {C(use[1], use[2], "m1", span[1], span[2], {}, "none") :
        use \in {<<TRUE, "exact">>, <<FALSE, "exact">>, <<TRUE, "block">>},
        span \in {s \in Spans : s[1] \notin Blanks /\ s[2] - 1 \notin Blanks}}
MaskInputs ==
    {[permissions |-> <<>>, deletions |-> <<>>, claims |-> claims, action |-> "answer",
      asksHistory |-> FALSE] : claims \in UNION {[1..n -> MaskClaims] : n \in 0..3}}

\* Up to two permission states, of different events, and one deletion.
Rows(id) == {P(id, decision, form, target) : decision \in {"allow", "deny"},
                form \in {"plain", "conditional", "expired"}, target \in Targets}
Permissions == {<<>>} \cup {<<p>> : p \in Rows("e1")}
                 \cup {<<p, q>> : p \in Rows("e1"), q \in Rows("e2")}
Deletions == {<<>>} \cup {<<[id |-> "e3", plain |-> plain, target |-> "t1"]>> : plain \in BOOLEAN}
BoundClaims ==
    {<<[C(requested, "exact", "m1", 3, 5, binds, target) EXCEPT !.deleted = deleted],
       C(also, "exact", "m1", 0, 5, {}, "none")>> :
        binds \in SUBSET EventIds, target \in {"none", "t1"}, deleted \in BOOLEAN,
        requested \in BOOLEAN, also \in BOOLEAN}
Ledger(permissions, deletions, claims, act, history) ==
    [permissions |-> permissions, deletions |-> deletions, claims |-> claims, action |-> act,
     asksHistory |-> history]
\* All permissions against all bindings, then all ways to answer.
CriticInputs ==
    {Ledger(permissions, deletions, claims, "answer", FALSE) :
        permissions \in Permissions, deletions \in Deletions,
        claims \in {b \in BoundClaims : ~b[1].deleted /\ b[1].requested /\ ~b[2].requested}}
    \cup
    {Ledger(permissions, deletions, claims, act, history) :
        permissions \in {<<>>, <<P("e1", "deny", "plain", "t1")>>}, deletions \in Deletions,
        claims \in BoundClaims, act \in {"answer", "refuse"}, history \in BOOLEAN}

ReviewInputs == MaskInputs \cup CriticInputs

\* Two states of the same event and target (bind_claim_events refuses others).
RepeatedId ==
    {[permissions |-> <<p, q>>, deletions |-> <<>>, action |-> "answer", asksHistory |-> FALSE,
      claims |-> <<C(TRUE, "exact", "m1", 0, 5, {"e1"}, "t1")>>] :
        p \in {r \in Rows("e1") : r.target = "t1"}, q \in {r \in Rows("e1") : r.target = "t1"}}
===============================================================================
