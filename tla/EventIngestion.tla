---------------------------- MODULE EventIngestion ----------------------------
(***************************************************************************)
(* Ingestion of one conversation into the V8 event store, checkpoint after  *)
(* checkpoint: the cold-prefix prefill loop of _prepare_ingestion, the      *)
(* joint extraction that shares the Stage-2 call (accept_events), the       *)
(* bounded contract-repair loop of run_instance and the final answer call.  *)
(* The process may be killed at any point; the store file survives, the     *)
(* store object does not.                                                   *)
(*                                                                          *)
(* Data abstracted: a turn is its position in the conversation, a batch of  *)
(* extracted records is the audit status it leaves on its turns, and a      *)
(* model reply is one of the outcomes the code distinguishes.               *)
(***************************************************************************)
EXTENDS Integers, FiniteSetsExt

CONSTANTS
    NumTurns,      \* turns of the conversation
    Size,          \* Size[t]: characters of turn t
    BatchTurns,    \* v8_extraction.max_new_turns_per_call
    InlineTurns,   \* v8_extraction.inline_max_new_turns
    InlineChars,   \* v8_extraction.inline_max_chars
    MaxPrefill,    \* v8_extraction.max_prefill_calls
    RepairLimit,   \* v8_query.max_contract_repairs, clipped to 0..1
    Modes          \* values of v8_memory.mode a process may be started with

ASSUME ConfigAssumption ==
    /\ NumTurns \in Nat \ {0}
    /\ Size \in [1..NumTurns -> Nat]
    /\ {BatchTurns, InlineTurns, InlineChars} \subseteq Nat \ {0}
    /\ MaxPrefill \in Nat
    /\ RepairLimit \in 0..1
    /\ Modes \subseteq {"full", "shallow"}

VARIABLES
    disk,       \* the store file v8_event_cache/<dataset>/<conversation>.json
    mem,        \* the V8EventStore kept in self._stores
    mode,       \* memory mode of the running process
    pc,         \* where run_instance stands
    prefix,     \* number of turns the checkpoint can see
    pending,    \* visible turns not processed yet
    ingestion,  \* turns offered to the joint Stage-2 extraction, {} for None
    calls,      \* model calls really made by this run, per stage
    audits,     \* len(audits): prefill batches appended and saved
    failures,   \* len(contract_failures)
    gap,        \* prefill_gap is set
    outcome     \* how the last finished run ended

store == <<disk, mem>>
run == <<calls, audits, failures, gap>>
vars == <<disk, mem, mode, pc, prefix, pending, ingestion, run, outcome>>

Ledger == INSTANCE TurnLedger WITH ledger <- disk.status

Turns == Ledger!Turns
Status == Ledger!Status
Processed(s) == Ledger!Recorded(s.status)

\* No file, or a conversation missing from self._stores.
Absent == [mode |-> "none", status |-> [t \in Turns |-> "none"]]
Empty(m) == [mode |-> m, status |-> [t \in Turns |-> "none"]]
Store == [mode : Modes \cup {"none"}, status : [Turns -> Status]]

NoCalls == [prefill |-> 0, stage2 |-> 0, answer |-> 0]

\* Results that reach the caller as a prediction, and exceptions that leave
\* run_instance.
Predictions == {"answered", "withheld", "audit_gap"}
Errors == {"mode_mismatch", "prefill_budget", "oversized_turn", "io_error",
           "provider_error", "contract_error", "answer_error"}


-------------------------------------------------------------------------------
(* Batches *)

Chars(S) == MapThenSumSet(LAMBDA t : Size[t], S)
UpTo(S, t) == {u \in S : u <= t}

NeedsPrefill == Cardinality(pending) > InlineTurns \/ Chars(pending) > InlineChars

\* The turn fits into the batch together with everything pending before it.
Fits(t) ==
    /\ Cardinality(UpTo(pending, t)) <= BatchTurns
    /\ Chars(UpTo(pending, t)) <= InlineChars

\* Variant: a turn larger than the text budget is skipped instead of ending the batch.
Batch_SkipsLargeTurns ==
    LET small == {t \in pending : Size[t] <= InlineChars} IN
    {t \in small : /\ Cardinality(UpTo(pending, t)) <= BatchTurns
                   /\ Chars(UpTo(small, t)) <= InlineChars}

\* The loop over pending[:batch_size] breaks at the first turn that does not fit.
Batch == {t \in pending : \A u \in UpTo(pending, t) : Fits(u)}

Stamp(s, S, status) ==
    [s EXCEPT !.status = [t \in Turns |-> IF t \in S /\ s.status[t] = "none"
                                          THEN status ELSE s.status[t]]]

-------------------------------------------------------------------------------
(* Process life cycle *)

Init ==
    /\ disk = Absent
    /\ mem = Absent
    /\ mode \in Modes
    /\ pc = "idle"
    /\ prefix = 0
    /\ pending = {}
    /\ ingestion = {}
    /\ calls = NoCalls
    /\ audits = 0
    /\ failures = 0
    /\ gap = FALSE
    /\ outcome = "none"

\* Variant: the file is written in place, so dying during a save destroys it.
Kill_WithoutAtomicReplace ==
    /\ pc # "down"
    /\ disk' = IF pc \in {"prefill_save", "joint_save"} THEN Absent ELSE disk
    /\ mem' = Absent
    /\ pc' = "down"
    /\ prefix' = 0
    /\ pending' = {}
    /\ ingestion' = {}
    /\ calls' = NoCalls
    /\ audits' = 0
    /\ failures' = 0
    /\ gap' = FALSE
    /\ outcome' = "none"
    /\ UNCHANGED mode

\* The process dies between two steps; tmp-write-then-replace leaves the file whole.
Kill ==
    /\ pc # "down"
    /\ mem' = Absent
    /\ pc' = "down"
    /\ prefix' = 0
    /\ pending' = {}
    /\ ingestion' = {}
    /\ calls' = NoCalls
    /\ audits' = 0
    /\ failures' = 0
    /\ gap' = FALSE
    /\ outcome' = "none"
    /\ UNCHANGED <<disk, mode>>

Restart ==
    /\ pc = "down"
    /\ mode' \in Modes
    /\ pc' = "idle"
    /\ UNCHANGED <<store, prefix, pending, ingestion, run, outcome>>

Finish(result) ==
    /\ pc' = "idle"
    /\ outcome' = result

-------------------------------------------------------------------------------
(* _store and _prepare_ingestion *)

Loaded ==
    IF mem # Absent THEN mem
    ELSE IF disk = Absent THEN Empty(mode)
    ELSE disk

\* Variant: load does not compare the memory mode of the file.
StartRun_AnyMode(k) ==
    /\ pc = "idle"
    /\ mem' = Loaded
    /\ prefix' = k
    /\ pending' = (1..k) \ Processed(Loaded)
    /\ ingestion' = {}
    /\ calls' = NoCalls
    /\ audits' = 0
    /\ failures' = 0
    /\ gap' = FALSE
    /\ pc' = "prefill"
    /\ outcome' = "none"
    /\ UNCHANGED <<disk, mode>>

StartRun(k) ==
    /\ pc = "idle"
    /\ mem # Absent \/ disk = Absent \/ disk.mode = mode
    /\ mem' = Loaded
    /\ prefix' = k
    /\ pending' = (1..k) \ Processed(Loaded)
    /\ ingestion' = {}
    /\ calls' = NoCalls
    /\ audits' = 0
    /\ failures' = 0
    /\ gap' = FALSE
    /\ pc' = "prefill"
    /\ outcome' = "none"
    /\ UNCHANGED <<disk, mode>>

\* V8EventStore.load refuses a file written in another memory mode.
StartRunRefused ==
    /\ pc = "idle"
    /\ mem = Absent
    /\ disk # Absent
    /\ disk.mode # mode
    /\ Finish("mode_mismatch")
    /\ UNCHANGED <<store, mode, prefix, pending, ingestion, run>>

\* Variant: an exhausted budget ends the loop instead of the run.
PrefillBudgetExceeded_Truncates ==
    /\ pc = "prefill"
    /\ NeedsPrefill
    /\ audits >= MaxPrefill
    /\ pc' = "reason"
    /\ UNCHANGED <<store, mode, prefix, pending, ingestion, run, outcome>>

PrefillBudgetExceeded ==
    /\ pc = "prefill"
    /\ NeedsPrefill
    /\ audits >= MaxPrefill
    /\ Finish("prefill_budget")
    /\ UNCHANGED <<store, mode, prefix, pending, ingestion, run>>

\* Variant: an empty batch goes round the loop again.
OversizedTurn_Retried ==
    /\ pc = "prefill"
    /\ NeedsPrefill
    /\ audits < MaxPrefill
    /\ Batch = {}
    /\ UNCHANGED vars

OversizedTurn ==
    /\ pc = "prefill"
    /\ NeedsPrefill
    /\ audits < MaxPrefill
    /\ Batch = {}
    /\ Finish("oversized_turn")
    /\ UNCHANGED <<store, mode, prefix, pending, ingestion, run>>

PrefillCall ==
    /\ pc = "prefill"
    /\ NeedsPrefill
    /\ audits < MaxPrefill
    /\ Batch # {}
    /\ calls' = [calls EXCEPT !.prefill = @ + 1]

\* Parse failure, provider failure or a critical rejection: the ledger channel
\* is given up for this checkpoint, nothing is appended.
PrefillGap ==
    /\ PrefillCall
    /\ gap' = TRUE
    /\ pending' = {}
    /\ pc' = "reason"
    /\ UNCHANGED <<store, mode, prefix, ingestion, audits, failures, outcome>>

PrefillAppend ==
    /\ PrefillCall
    /\ mem' = Stamp(mem, Batch, "complete")
    /\ pc' = "prefill_save"
    /\ UNCHANGED <<disk, mode, prefix, pending, ingestion, audits, failures, gap, outcome>>

\* Variant: the batch is appended but not saved.
PrefillSave_InMemoryOnly ==
    /\ pc = "prefill_save"
    /\ audits' = audits + 1
    /\ pending' = pending \ Batch
    /\ pc' = "prefill"
    /\ UNCHANGED <<disk, mem, mode, prefix, ingestion, calls, failures, gap, outcome>>

\* Variant: the audit of the batch is not recorded.
PrefillSave_WithoutAudit ==
    /\ pc = "prefill_save"
    /\ disk' = mem
    /\ pending' = pending \ Batch
    /\ pc' = "prefill"
    /\ UNCHANGED <<mem, mode, prefix, ingestion, calls, audits, failures, gap, outcome>>

PrefillSave ==
    /\ pc = "prefill_save"
    /\ disk' = mem
    /\ audits' = audits + 1
    /\ pending' = pending \ Batch
    /\ pc' = "prefill"
    /\ UNCHANGED <<mem, mode, prefix, ingestion, calls, failures, gap, outcome>>

\* Writing the store file raises OSError: the store object keeps the batch.
SaveFails ==
    /\ pc \in {"prefill_save", "joint_save"}
    /\ Finish("io_error")
    /\ UNCHANGED <<store, mode, prefix, pending, ingestion, run>>

PrefillDone ==
    /\ pc = "prefill"
    /\ ~NeedsPrefill
    /\ ingestion' = pending
    /\ pc' = "reason"
    /\ UNCHANGED <<store, mode, prefix, pending, run, outcome>>

-------------------------------------------------------------------------------
(* The Stage-2 call, accept_events and the contract-repair loop *)

Stage2Call ==
    /\ pc = "reason"
    /\ calls' = [calls EXCEPT !.stage2 = @ + 1]

\* Anything but a ValueError leaves run_instance at once.
Stage2Error ==
    /\ Stage2Call
    /\ Finish("provider_error")
    /\ UNCHANGED <<store, mode, prefix, pending, ingestion, audits, failures, gap>>

\* Variant: one repair too many.
ContractFailure_OffByOne(recoverable) ==
    /\ failures' = failures + 1
    /\ IF failures <= RepairLimit
       THEN pc' = "reason" /\ UNCHANGED outcome
       ELSE IF recoverable THEN Finish("audit_gap") ELSE Finish("contract_error")
    /\ UNCHANGED <<store, mode, prefix, pending, ingestion, audits, gap>>

\* A ValueError of the contract: repair once, else give up.  A recoverable one
\* becomes an empty ledger, any other leaves run_instance.
ContractFailure(recoverable) ==
    /\ failures' = failures + 1
    /\ IF failures < RepairLimit
       THEN pc' = "reason" /\ UNCHANGED outcome
       ELSE IF recoverable THEN Finish("audit_gap") ELSE Finish("contract_error")
    /\ UNCHANGED <<store, mode, prefix, pending, ingestion, audits, gap>>

\* The reply is not usable before its events are accepted.
Stage2Malformed(recoverable) ==
    /\ Stage2Call
    /\ ContractFailure(recoverable)

\* accept_events appends the delta even when a governance record was rejected.
AcceptEvents(status) ==
    /\ Stage2Call
    /\ ingestion # {}
    /\ mem' = Stamp(mem, ingestion, status)
    /\ pc' = "joint_save"
    /\ UNCHANGED <<disk, mode, prefix, pending, ingestion, audits, failures, gap, outcome>>

\* Variant: the accepted delta stays on offer.
JointSave_KeepsIngestion ==
    /\ pc = "joint_save"
    /\ disk' = mem
    /\ pc' = "claims"
    /\ UNCHANGED <<mem, mode, prefix, pending, ingestion, run, outcome>>

JointSave ==
    /\ pc = "joint_save"
    /\ disk' = mem
    /\ ingestion' = {}
    /\ pc' = "claims"
    /\ UNCHANGED <<mem, mode, prefix, pending, run, outcome>>

Stage2WithoutIngestion ==
    /\ Stage2Call
    /\ ingestion = {}
    /\ pc' = "claims"
    /\ UNCHANGED <<store, mode, prefix, pending, ingestion, audits, failures, gap, outcome>>

ClaimsRejected(recoverable) ==
    /\ pc = "claims"
    /\ ContractFailure(recoverable)
    /\ UNCHANGED calls

ClaimsValid ==
    /\ pc = "claims"
    /\ pc' = "answer"
    /\ UNCHANGED <<store, mode, prefix, pending, ingestion, run, outcome>>

-------------------------------------------------------------------------------
(* Critic, safe evidence and the answer call *)

\* Nothing is releasable: the result is composed without a model call.
Withhold ==
    /\ pc = "answer"
    /\ Finish("withheld")
    /\ UNCHANGED <<store, mode, prefix, pending, ingestion, run>>

AnswerCall(result) ==
    /\ pc = "answer"
    /\ calls' = [calls EXCEPT !.answer = @ + 1]
    /\ Finish(result)
    /\ UNCHANGED <<store, mode, prefix, pending, ingestion, audits, failures, gap>>

-------------------------------------------------------------------------------
Ingest ==
    \/ StartRunRefused
    \/ \E k \in Turns : StartRun(k)
    \/ PrefillBudgetExceeded \/ OversizedTurn
    \/ PrefillGap \/ PrefillAppend \/ PrefillSave \/ SaveFails \/ PrefillDone

Reason ==
    \/ Stage2Error \/ Stage2WithoutIngestion
    \/ \E status \in {"complete", "insufficient"} : AcceptEvents(status)
    \/ JointSave
    \/ \E recoverable \in BOOLEAN :
          Stage2Malformed(recoverable) \/ ClaimsRejected(recoverable)
    \/ ClaimsValid

Answer ==
    \/ Withhold
    \/ \E result \in {"answered", "answer_error", "provider_error"} : AnswerCall(result)

Next == Kill \/ Restart \/ Ingest \/ Reason \/ Answer

Spec == Init /\ [][Next]_vars

-------------------------------------------------------------------------------
(* Fairness.  The program is sequential and every model call ends: an answer,  *)
(* an exception or request_timeout.  So a started run keeps stepping.  That    *)
(* the caller keeps coming back with the whole conversation, and that the      *)
(* model and the disk succeed again and again if asked again and again, is an  *)
(* assumption about the environment, used by CatchUp only.                     *)

RunStep ==
    \/ PrefillBudgetExceeded \/ OversizedTurn
    \/ PrefillGap \/ PrefillAppend \/ PrefillSave \/ SaveFails \/ PrefillDone
    \/ Reason \/ Answer

RunFairness == WF_vars(RunStep)

OnWhole(A) == prefix = NumTurns /\ A

CallerFairness ==
    /\ WF_vars(Restart)
    /\ SF_vars(StartRun(NumTurns))
    /\ SF_vars(OnWhole(PrefillAppend))
    /\ SF_vars(OnWhole(PrefillSave))
    /\ SF_vars(OnWhole(PrefillDone))
    /\ SF_vars(OnWhole(AcceptEvents("complete")))

FairSpec == Spec /\ RunFairness
CatchUpSpec == Spec /\ RunFairness /\ CallerFairness

-------------------------------------------------------------------------------
(* Properties *)

PcValues == {"idle", "down", "prefill", "prefill_save", "reason", "joint_save",
             "claims", "answer"}

\* Every variable has its type, and a run in progress has a loaded store.
TypeOK ==
    /\ disk \in Store
    /\ mem \in Store
    /\ pc \notin {"idle", "down"} => mem.mode \in Modes
    /\ mode \in Modes
    /\ pc \in PcValues
    /\ prefix \in 0..NumTurns
    /\ pending \subseteq Turns
    /\ ingestion \subseteq Turns
    /\ calls \in [prefill : Nat, stage2 : Nat, answer : Nat]
    /\ audits \in Nat
    /\ failures \in Nat
    /\ gap \in BOOLEAN
    /\ outcome \in Predictions \cup Errors \cup {"none"}

\* The extracted turns form an initial segment of the conversation, in memory
\* and on disk, whatever prefixes the checkpoints had and wherever runs stopped.
WatermarkIsPrefix ==
    /\ Ledger!NoHole(mem.status)
    /\ Ledger!NoHole(disk.status)

\* The file never knows a turn, or an audit result, that the loaded store
\* object does not: a save cannot lose or alter what was durable before.
DurableIsRemembered ==
    mem # Absent => \A t \in Processed(disk) : mem.status[t] = disk.status[t]

\* No model call offers as new a turn whose extraction is already in the store:
\* neither a repair after the delta was accepted, nor a later checkpoint, nor
\* the inline tail after prefill batches.
NeverOfferedTwice ==
    /\ pc = "prefill" => pending \cap Processed(mem) = {}
    /\ pc = "reason" => ingestion \cap Processed(mem) = {}

\* Stage 2 judges claims with the whole visible prefix in the ledger or in its
\* own ingestion; the exception is a prefix whose prefill was given up, and
\* that one is reported.  A delivered answer rests on an ingested prefix.
NoSilentTruncation ==
    ~gap =>
        /\ pc = "reason" => 1..prefix \subseteq Processed(mem) \cup ingestion
        /\ (pc \in {"claims", "answer"} \/ outcome \in {"answered", "withheld"})
              => 1..prefix \subseteq Processed(mem)

\* A checkpoint pays for at most max_prefill_calls extractions (a failed one
\* included), one Stage-2 call per allowed attempt and one answer call.
CallBudget ==
    /\ calls.prefill <= MaxPrefill
    /\ calls.stage2 <= RepairLimit + 1
    /\ calls.answer <= 1

\* The store object and the file it is written to belong to the memory mode
\* of the process.
ModeIsolated ==
    mem # Absent => mem.mode = mode /\ disk.mode \in {"none", mode}

\* Once a prefill batch was given up, the run changes neither store object nor
\* file: no partial watermark can be mistaken for a complete audit.
GapFreezesStore ==
    [][gap /\ pc # "idle" => disk' = disk /\ (mem' = mem \/ pc' = "down")]_vars

\* v8_cost of a checkpoint that was answered or withheld on checked claims
\* counts the Stage-2 calls really made, and the prefill calls unless prefill
\* was given up.
DeliveredCostIsExact ==
    outcome \in {"answered", "withheld"} =>
        /\ calls.stage2 = 1 + failures
        /\ ~gap => calls.prefill = audits

\* The file implements the append-only ledger of TurnLedger.
ImplementsLedger == Ledger!LedgerSpec

\* A started run ends, with a prediction or an exception.
RunTerminates == pc \notin {"idle", "down"} ~> pc \in {"idle", "down"}

\* The turns that no turn larger than the text budget precedes.
Reachable == {t \in Turns : \A u \in 1..t : Size[u] <= InlineChars}

\* "resume cached progress": however small max_prefill_calls is, however often
\* the process dies or a save fails, coming back with the whole conversation
\* ingests all of it, up to the first turn that is too large for a call, once
\* the process is only restarted in the memory mode of its file.
CatchUp ==
    <>[](disk = Absent \/ disk.mode = mode) => <>(Reachable \subseteq Processed(mem))

\* "Malformed/ungrounded deltas never advance the cache."
OnlyCompleteAdvances == \A t \in Turns : disk.status[t] # "insufficient"

\* "Large cold prefixes are explicitly metered exceptions": every model call of
\* a delivered checkpoint is reported, and every reported one was made.
CallsAreMetered ==
    outcome \in Predictions => failures = calls.stage2 - 1 /\ audits = calls.prefill
===============================================================================
