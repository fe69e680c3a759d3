------------------------------ MODULE TurnLedger ------------------------------
(***************************************************************************)
(* What the event store promises about one conversation: a ledger that says *)
(* for every turn whether it was extracted and how the audit of that        *)
(* extraction ended.  Turns enter it in conversation order, without holes,  *)
(* and an entry is never rewritten and never lost: the extraction of a turn *)
(* is paid for once.                                                        *)
(***************************************************************************)
EXTENDS Naturals

CONSTANT NumTurns   \* turns of the conversation, numbered from 1

VARIABLE ledger     \* turn -> audit status of its extraction

Turns == 1..NumTurns

\* "none": not extracted.  "insufficient": extracted, but a governance or
\* lifecycle record of the batch was rejected.
Status == {"none", "complete", "insufficient"}

Recorded(status) == {t \in Turns : status[t] # "none"}

\* The extracted turns are an initial segment of the conversation.
NoHole(status) ==
    \A t \in Turns : status[t] # "none" => \A u \in 1..t : status[u] # "none"

LedgerInit == ledger = [t \in Turns |-> "none"]

Record ==
    /\ ledger' \in [Turns -> Status]
    /\ NoHole(ledger')
    /\ \A t \in Recorded(ledger) : ledger'[t] = ledger[t]

LedgerSpec == LedgerInit /\ [][Record]_ledger
===============================================================================
