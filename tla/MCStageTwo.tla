------------------------------ MODULE MCStageTwo ------------------------------
(* Replies for StageTwo: every shape of a single claim that the code tells     *)
(* apart, pairs of the claims that matter to each other, and small deltas.     *)
EXTENDS StageTwo

Whole == [slot |-> TRUE, candidate |-> "c1", keep |-> TRUE, quote |-> Absent, once |-> TRUE,
          delivery |-> Absent, nested |-> FALSE, bind |-> {}, kind |-> Absent,
          evidence |-> Absent, deleted |-> FALSE]
Excerpt == [Whole EXCEPT !.keep = FALSE, !.quote = {"c1"}, !.delivery = "exact"]
Denial == [Excerpt EXCEPT !.delivery = "block", !.kind = "restriction", !.evidence = "true"]
NestedDenial == [Denial EXCEPT !.nested = TRUE, !.delivery = Absent, !.bind = Absent]

\* What normalize_shallow_json looks at.
Forms ==
    {[slot |-> TRUE, candidate |-> c, keep |-> k, quote |-> q, once |-> TRUE, delivery |-> d,
      nested |-> nest, bind |-> b, kind |-> e[1], evidence |-> e[2], deleted |-> FALSE] :
        c \in {"c1", Absent}, k \in BOOLEAN, q \in {Absent, {"c1"}},
        d \in {Absent, "exact", "block"}, nest \in BOOLEAN, b \in {Absent, {}},
        e \in {<<Absent, Absent>>, <<"restriction", "true">>}}
    \cup {[c EXCEPT !.slot = FALSE] : c \in {Excerpt, Denial, NestedDenial}}
    \cup {[c EXCEPT !.candidate = "unknown"] : c \in {Whole, Excerpt, NestedDenial}}
    \cup {[NestedDenial EXCEPT !.evidence = Absent]}

\* What _validate_claims looks at.
Groundings ==
    {[Excerpt EXCEPT !.candidate = c, !.quote = q, !.delivery = d, !.kind = e[1],
                     !.evidence = e[2], !.deleted = x] :
        c \in {"c1", "unknown"}, q \in SUBSET Candidates, d \in {"exact", "block"},
        e \in {<<Absent, Absent>>, <<"restriction", "false">>, <<"restriction", "true">>, <<"deleted", "true">>},
        x \in BOOLEAN}
    \cup {[c EXCEPT !.once = FALSE] : c \in {Excerpt, Denial}}

\* What bind_claim_events and the critic look at.
Bindings ==
    {[c EXCEPT !.bind = b] : c \in {Whole, Excerpt, Denial},
        b \in {{"e1"}, {"e2"}, {"e1", "e2"}, {"e1", "turn"}, {"turn"}, {"ghost"}}}

Pairing ==
    {Whole, Excerpt, Denial, NestedDenial, [Excerpt EXCEPT !.quote = {}],
     [Denial EXCEPT !.quote = {"c1", "c2"}, !.candidate = "c2"], [Denial EXCEPT !.slot = FALSE],
     [Denial EXCEPT !.quote = {}], [Denial EXCEPT !.quote = Absent], [Excerpt EXCEPT !.bind = {"e1"}],
     [Excerpt EXCEPT !.bind = {"e1"}, !.quote = {"c1", "c2"}]}

E(id, target, grantee, effect, source) ==
    [id |-> id, target |-> target, grantee |-> grantee, effect |-> effect, source |-> source]

Deltas ==
    {<<>>, <<E("e1", "t1", "r1", "deny", "new")>>, <<E("e1", "t1", "r1", "deny", "none")>>,
     <<E("e1", "t2", "r2", "deny", "new")>>, <<E("e1", "t1", "everybody", "delete", "new")>>,
     <<E("e1", "t1", "r1", "deny", "new"), E("e2", "t1", "r1", "allow", "new")>>,
     <<E("e2", "t2", "r1", "deny", "new")>>}

R(events, claims, act) == [events |-> events, claims |-> claims, action |-> act]

MCReplies ==
    {R(events, <<c>>, "answer") : events \in {Absent, <<>>}, c \in Forms \cup Groundings}
    \cup {R(events, <<>>, "answer") : events \in {Absent, <<>>}}
    \cup {R(events, <<c, d>>, "answer") : events \in {Absent, <<>>}, c \in Pairing, d \in Pairing}
    \cup {R(events, <<c>>, "answer") : events \in Deltas \cup {Absent}, c \in Bindings}
    \cup {Clean, Plain}
===============================================================================
