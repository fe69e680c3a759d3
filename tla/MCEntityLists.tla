----------------------------- MODULE MCEntityLists -----------------------------
(* Records about one entity that is named and one that is only the subject or   *)
(* resource of a policy, and the replies made of them.                          *)
EXTENDS EntityLists

CONSTANTS plan, ann   \* model values: an entity, and a principal

Bare(c) == [chunk |-> c, spanned |-> TRUE, entities |-> <<>>, slots |-> <<>>,
            policies |-> <<>>, lifecycle |-> <<>>]
P(effect, subject) == [effect |-> effect, subject |-> subject, resource |-> NoOne,
                       grounded |-> TRUE, planned |-> FALSE]
On(c, p) == [Bare(c) EXCEPT !.entities = <<plan>>, !.policies = <<p>>]

Nobody(c, p) == [Bare(c) EXCEPT !.policies = <<p>>]

MCReplies ==
    {<<>>, <<On(1, P("allow", ann))>>,
     \* a permission that comes back, alone or after other records
     <<On(2, P("deny", ann)), On(2, P("allow", ann))>>,
     <<On(1, P("deny", ann)), On(2, P("allow", ann)), On(2, P("allow", ann))>>,
     \* what must not become a change: paraphrased, planned, not in the span
     <<[Bare(1) EXCEPT !.spanned = FALSE, !.policies = <<P("deny", ann)>>],
       On(1, [P("revoke", ann) EXCEPT !.planned = TRUE]),
       On(1, [P("deny", ann) EXCEPT !.grounded = FALSE])>>,
     \* records that name no entity
     <<Nobody(2, [P("deny", ann) EXCEPT !.resource = plan])>>,
     <<[Nobody(1, P("deny", NoOne)) EXCEPT !.lifecycle = <<"delete">>]>>,
     \* slots between changes
     <<[On(2, P("require_permission", ann)) EXCEPT !.lifecycle = <<"delete", "none">>],
       [Bare(2) EXCEPT !.entities = <<plan, ann>>, !.slots = <<"room", "date">>]>>}

MCNames == {plan, ann}
MCQuestions == {{plan, "room"}, {ann, "date"}}
================================================================================
