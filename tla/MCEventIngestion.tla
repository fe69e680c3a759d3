--------------------------- MODULE MCEventIngestion ---------------------------
(* Instances of EventIngestion for TLC. *)
EXTENDS EventIngestion

\* Turns 1 and 2 share a batch, turn 3 fills one alone, turn 5 is larger than
\* the text budget of one call and turn 6 is not.  Up to turn 4 two prefill
\* batches are enough, from turn 5 on they are not.
MixedSizes == <<1, 1, 2, 1, 3, 1>>

\* Two batches are needed and one is allowed.
ThreeTurns == <<1, 2, 1>>
===============================================================================
