------------------------------ MODULE MCLLMClient ------------------------------
(* Instances of LLMClient for TLC. *)
EXTENDS LLMClient

TwoKeys == <<"k0", "k1">>

\* Repeated texts, one and two batches, overlapping calls.
TextLists == {<<"t1", "t2", "t1", "t3">>, <<"t3", "t3">>, <<"t2">>}
================================================================================
