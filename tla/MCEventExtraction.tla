-------------------------- MODULE MCEventExtraction --------------------------
(* Two turns, one after the other or together, and two deltas.  The second     *)
(* reply has up to two records that refer to each other or to the first.       *)
EXTENDS EventExtraction, TLC

Citations == {[cites |-> c, quotes |-> q] : c \in SUBSET Turns, q \in SUBSET Turns}
Cited == {c \in Citations : c.quotes \subseteq c.cites}
One == {[cites |-> {t}, quotes |-> {t}] : t \in Turns}

With(c, f) == c @@ f

Scenes(S) == {With(c, [id |-> "s", named |-> TRUE, members |-> m]) :
                 c \in S, m \in {{"p"}, {"p", "nobody"}}}
Entities(S) == {With(c, [id |-> "e", named |-> n]) : c \in S, n \in BOOLEAN}
Fact(subject, lifecycle, value) == [subject |-> subject, lifecycle |-> lifecycle, value |-> value]
Facts(S) == {With(c, f) : c \in S,
    f \in {Fact("none", l, v) : l \in {"assert", "update", "delete"},
                                v \in {"quoted", "absent", "flag", "paraphrase"}}}
FactsOn(S, x) == {With(c, f) : c \in S,
    f \in {Fact(x, l, "quoted") : l \in {"assert", "delete"}}}
Relations(S) == {With(c, [source |-> s, target |-> "e", duty |-> d, about |-> a]) :
    c \in S, s \in {"p", "s"}, d \in {"none", "typed", "untyped"}, a \in {"none", "e"}}

Sound == [type |-> "permission", effect |-> "deny", issuer |-> "none", grantee |-> "p",
          resource |-> "quoted"]
Forms == {Sound, [Sound EXCEPT !.effect = "delete", !.grantee = "none"]}
    \cup {[Sound EXCEPT !.type = x] : x \in {"lifecycle", "other"}}
    \cup {[Sound EXCEPT !.effect = "other"], [Sound EXCEPT !.issuer = "nobody"],
          [Sound EXCEPT !.grantee = "none"], [Sound EXCEPT !.resource = "unquoted"]}
Events(S) == {With(c, f) : c \in S, f \in Forms}

Of(kind, S) == {[Empty EXCEPT ![kind] = {r}] : r \in S}
Both(A, B) == {[k \in Kinds |-> a[k] \cup b[k]] : a \in A, b \in B}

MCFirst == UNION {
    {Empty}, Of("entities", Entities(One)), Of("scenes", Scenes(One)),
    Of("events", {e \in Events(Cited) : e.issuer = "none"}),
    Of("facts", {f \in Facts(Cited) : f.lifecycle # "update"})}

MCLater == UNION {
    {Empty}, Of("events", Events(Cited)), Of("facts", Facts(Cited)),
    Both(Of("entities", Entities(Cited)), Of("facts", FactsOn(Cited, "e"))),
    Both(Of("scenes", Scenes(Cited)), Of("facts", FactsOn(One, "s"))),
    Both(Of("entities", Entities(Cited)), Of("relations", Relations(One))),
    Both(Of("scenes", Scenes(One)), Of("relations", Relations(One)))}
===============================================================================
