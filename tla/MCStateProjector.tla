--------------------------- MODULE MCStateProjector ---------------------------
(* Stores over a conversation of three turns: up to three governance events,  *)
(* or up to three facts, or up to three scene rows and relations, or up to     *)
(* two entity rows.  No pass reads a collection of another one of the four.    *)
EXTENDS V8Projection

Times == <<5, 7, 0>>   \* turn 3 has no usable timestamp
MCClock == [k \in 0..3 |-> IF k = 0 THEN 0 ELSE Times[k]]

NoEnd == [form |-> "none", at |-> 0]
Ends == {NoEnd, [form |-> "turn", at |-> 3], [form |-> "date", at |-> 6]}

Permission(b, s, c, u, f, l) ==
    [kind |-> "permission", effect |-> "deny", base |-> b, scope |-> s, condition |-> c,
     from |-> f, until |-> u, first |-> l, last |-> l]

\* Plain, ending, conditional, scoped, late-starting and other-base permissions.
MCEvents ==
    {Permission("b1", "whole", "none", u, 1, l) : u \in Ends, l \in 1..3}
    \cup {Permission("b1", "whole", "cond", NoEnd, 1, l) : l \in 1..2}
    \cup {Permission("b1", "part", "none", NoEnd, 1, l) : l \in 1..2}
    \cup {Permission("b1", "whole", "none", NoEnd, 3, 1),
          Permission("b2", "whole", "none", NoEnd, 1, 2),
          [Permission("b1", "whole", "none", NoEnd, 1, 2) EXCEPT !.kind = "lifecycle"],
          [Permission("b1", "whole", "none", NoEnd, 1, 3) EXCEPT !.first = 1]}

\* Updates of a resource, with an end, a scope or a condition, and a deletion.
Update(s, c, u, l) ==
    [Permission("b1", s, c, u, 1, l) EXCEPT !.kind = "lifecycle", !.effect = "update"]
MCChanges ==
    {Update("whole", "none", u, l) : u \in Ends, l \in 1..2}
    \cup {Update("part", "none", NoEnd, 2), Update("whole", "cond", NoEnd, 2),
          [Update("whole", "none", NoEnd, 1) EXCEPT !.from = 3],
          [Update("whole", "none", NoEnd, 2) EXCEPT !.base = "b2"],
          [Update("whole", "none", NoEnd, 2) EXCEPT !.effect = "delete"]}

UpTo(n, S) == UNION {[1..m -> S] : m \in 0..n}
MCStores == UpTo(3, MCEvents) \cup UpTo(3, MCChanges)

MCRows(ids) ==
    {[id |-> s, members |-> m, first |-> 1, last |-> l] :
        s \in ids, m \in {{}, {"ann"}, {"bob"}}, l \in 1..2}
MCRelations ==
    {[type |-> "participates_in", source |-> "ann", target |-> s, first |-> f, last |-> f] :
        s \in {"s1", "s2"}, f \in {1, 3}}
    \cup {[type |-> "other", source |-> "bob", target |-> "s1", first |-> 1, last |-> 1]}
MCFacts ==
    {[key |-> "k1", lifecycle |-> c, first |-> 1, last |-> l] :
        c \in {"assert", "delete", "cancel"}, l \in 1..2}
    \cup {[key |-> "k2", lifecycle |-> "assert", first |-> l, last |-> l] : l \in 1..2}

Graph(s, e, r, f) == [scenes |-> s, entities |-> e, relations |-> r, facts |-> f]
Empty == Graph(<<>>, <<>>, <<>>, <<>>)
MCGraphs ==
    {Graph(s, <<>>, r, <<>>) : s \in UpTo(2, MCRows({"s1", "s2"})), r \in UpTo(2, MCRelations)}
    \cup {Graph(<<>>, e, <<>>, <<>>) : e \in UpTo(2, MCRows({"e1"}))}
    \cup {Graph(<<>>, <<>>, <<>>, f) : f \in UpTo(3, MCFacts)}

\* ProjectInit on stores in which one of the two halves is empty.
MCInit ==
    /\ \/ events = <<>> /\ graph \in MCGraphs
       \/ events \in MCStores /\ graph = Empty
    /\ prefix \in Prefixes
    /\ todo = {i \in Indices(events) : Visible(events[i], prefix)}
    /\ states = {}
    /\ StartFolds
MCSpec == MCInit /\ [][ProjectNext]_projectVars
===============================================================================
