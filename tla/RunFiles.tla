------------------------------- MODULE RunFiles -------------------------------
(***************************************************************************)
(* What the benchmark runner keeps beside identity and predictions: the      *)
(* telemetry totals in run_metadata.json and the case results of the local   *)
(* metrics, case_results.jsonl.  Every action is one of module Runner        *)
(* together with its effect on these.                                        *)
(*                                                                          *)
(* The process that holds run.lock is the only one that runs, so what is in  *)
(* memory is kept once: "live".  A telemetry total is a number of calls, and *)
(* a checkpoint makes at most one (more would only add up the same way).     *)
(* "paid" and "lost" are history variables: the calls made since the run of  *)
(* the metadata was started afresh, and those of them whose process ended    *)
(* before it saved them.                                                     *)
(***************************************************************************)
EXTENDS Runner

CONSTANT MaxCalls   \* bound on the calls of one run

ASSUME CallsAssumption == MaxCalls \in Nat

VARIABLES
    saved,  \* llm_telemetry of run_metadata.json
    cases,  \* case_results.jsonl: its rows, and whether the last one is cut
    live,   \* the running process: telemetry of _resume_metadata, its own calls,
            \* those of them already saved, and evaluator.case_results
    paid, lost

sideVars == <<saved, cases, live, paid, lost>>
runVars == <<vars, sideVars>>

Case == [id : Checkpoints, identity : Identities]
Idle == [base |-> 0, calls |-> 0, kept |-> 0, results |-> <<>>]

RunInit ==
    /\ Init
    /\ saved = 0
    /\ cases = [rows |-> <<>>, torn |-> FALSE]
    /\ live = Idle
    /\ paid = 0
    /\ lost = 0

\* The process ends: what it has not saved is lost.
Ends ==
    /\ live' = Idle
    /\ lost' = lost + live.calls - live.kept
    /\ UNCHANGED paid

Continues == UNCHANGED <<live, paid, lost>>
EndsOrContinues(p) == IF proc'[p].pc = "down" THEN Ends ELSE Continues

-------------------------------------------------------------------------------
(* The constructor *)

Begin(p, identity, wanted, resume) ==
    /\ Start(p, identity, wanted, resume)
    /\ UNCHANGED sideVars

Refuse(p) == ResumeRefused(p) /\ Ends /\ UNCHANGED <<saved, cases>>

\* _resume_metadata is read once; a fresh run has none.
Identify(p) ==
    /\ Identified(p)
    /\ live' = [live EXCEPT !.base = IF proc[p].resume THEN saved ELSE 0]
    /\ UNCHANGED <<saved, cases, paid, lost>>

\* Variant: the totals on file are taken as the base of every save.
Cumulative_FromFile == saved + live.calls

Cumulative == live.base + live.calls

\* _save_run_metadata.  The first save of a fresh run starts its bill.
SaveTotals(p) ==
    /\ SaveMetadata(p)
    /\ saved' = Cumulative
    /\ live' = IF proc'[p].pc = "down" THEN Idle ELSE [live EXCEPT !.kept = live.calls]
    /\ IF proc[p].then = "load" /\ ~proc[p].resume
       THEN paid' = 0 /\ lost' = 0
       ELSE UNCHANGED <<paid, lost>>
    /\ UNCHANGED cases

-------------------------------------------------------------------------------
(* run() *)

\* Variant: rows of checkpoints that are not completed are taken as well.
Kept_All(row) == TRUE

Kept(row) == row.id \in Ids

\* _load_resume_case_results: the first row of each completed checkpoint.
Loaded ==
    LET First(n) == \A m \in 1..(n - 1) : cases.rows[m].id # cases.rows[n].id
        Takes(n) == Kept(cases.rows[n]) /\ First(n)
        place(n) == Cardinality({m \in 1..n : Takes(m)})
        taken == {n \in 1..Len(cases.rows) : Takes(n)}
    IN  [k \in 1..Cardinality(taken) |->
            cases.rows[CHOOSE n \in taken : place(n) = k]]

StartLoop(p) ==
    /\ \/ PrepareFresh(p) /\ live' = [live EXCEPT !.results = <<>>]
       \/ /\ PrepareResume(p) /\ proc'[p].pc = "loop"
          /\ ~cases.torn
          /\ live' = [live EXCEPT !.results = Loaded]
    /\ UNCHANGED <<saved, cases, paid, lost>>

\* The data set, the predictions or a row of case_results.jsonl cannot be read, or
\* the predictions are not those of the request.
GiveUp(p) ==
    /\ \/ LoadFails(p)
       \/ PrepareResume(p) /\ proc'[p].pc = "down"
    /\ Ends
    /\ UNCHANGED <<saved, cases>>

\* run_instance: a checkpoint makes calls whatever becomes of it.
Attempt(p) ==
    /\ Predict(p) \/ AuditGap(p) \/ Fails(p)
    /\ \E c \in 0..1 :
          /\ paid + c <= MaxCalls
          /\ paid' = paid + c
          /\ LET spent == live.calls + c
             IN  IF proc'[p].pc = "down"
                 THEN live' = Idle /\ lost' = lost + spent - live.kept
                 ELSE live' = [live EXCEPT !.calls = spent] /\ UNCHANGED lost
    /\ UNCHANGED <<saved, cases>>

WriteRows(p) ==
    /\ AppendRow(p) \/ AppendFails(p) \/ AppendRaised(p) \/ RowSaved(p)
    /\ EndsOrContinues(p)
    /\ UNCHANGED <<saved, cases>>

WithCase(p) ==
    [live EXCEPT !.results = Append(@, [id |-> Current(p), identity |-> proc[p].identity])]

\* evaluate_case keeps the result in memory; the debug artifact comes after it.
EvaluateCase(p) ==
    /\ \/ DebugSaved(p) /\ live' = WithCase(p) /\ UNCHANGED <<paid, lost>>
       \/ /\ DebugFails(p)
          /\ IF proc'[p].pc = "down" THEN Ends
             ELSE live' \in {live, WithCase(p)} /\ UNCHANGED <<paid, lost>>
    /\ UNCHANGED <<saved, cases>>

EndLoop(p) ==
    /\ LoopDone(p) \/ Incomplete(p) \/ Complete(p)
    /\ EndsOrContinues(p)
    /\ UNCHANGED <<saved, cases>>

\* What finalize can leave if it does not come to its end: the old file, or a
\* part of the new rows.
CutCases ==
    {cases} \cup
    {[rows |-> SubSeq(live.results, 1, n), torn |-> t] :
        n \in 0..Len(live.results), t \in {FALSE, TornWrites}}

\* evaluator.finalize unlinks the file and writes the results row by row.
Finalize(p) ==
    /\ Score(p)
    /\ cases' = [rows |-> live.results, torn |-> FALSE]
    /\ Continues
    /\ UNCHANGED saved

\* finalize or the official scorer raises.
FinalizeFails(p) ==
    /\ ScoreFails(p)
    /\ cases' \in CutCases
    /\ Ends
    /\ UNCHANGED saved

\* A cut metadata file holds no totals.
KillRun(p) ==
    /\ Kill(p)
    /\ saved' = IF meta' = "torn" THEN 0 ELSE saved
    /\ IF At(p, "score") THEN cases' \in CutCases ELSE UNCHANGED cases
    /\ Ends

RunStep(p) ==
    \/ Refuse(p) \/ Identify(p) \/ SaveTotals(p) \/ StartLoop(p) \/ GiveUp(p)
    \/ Attempt(p) \/ WriteRows(p) \/ EvaluateCase(p) \/ EndLoop(p)
    \/ Finalize(p) \/ FinalizeFails(p)

BeginFresh ==
    \E p \in Procs, identity \in Identities, wanted \in Requests : Begin(p, identity, wanted, FALSE)
BeginResume ==
    \E p \in Procs, identity \in Identities, wanted \in Requests : Begin(p, identity, wanted, TRUE)
KillAny == \E p \in Procs : KillRun(p)

RunNext == BeginFresh \/ BeginResume \/ KillAny \/ \E p \in Procs : RunStep(p)

RunSpec == RunInit /\ [][RunNext]_runVars

(* Fairness.  A process that is not killed goes on.  That somebody resumes    *)
(* the run with its own configuration and all its checkpoints, and that each  *)
(* kind of step that can fail succeeds if such runs try it again and again,   *)
(* are assumptions about the environment, used by ResumeCompletes.            *)
\* The process was started for all checkpoints.
Whole(p) == proc[p].wanted = Checkpoints

FairRunSpec ==
    /\ RunSpec
    /\ WF_runVars(\E p \in Procs : RunStep(p))
    /\ SF_runVars(\E p \in Procs : meta \in Identities /\ Begin(p, meta, Checkpoints, TRUE))
    /\ SF_runVars(\E p \in Procs : Whole(p) /\ StartLoop(p))
    /\ SF_runVars(\E p \in Procs : Whole(p) /\ Attempt(p) /\ Predict(p))
    /\ SF_runVars(\E p \in Procs : Whole(p) /\ WriteRows(p) /\ AppendRow(p))
    /\ SF_runVars(\E p \in Procs : Whole(p) /\ EvaluateCase(p) /\ DebugSaved(p))
    /\ SF_runVars(\E p \in Procs : Whole(p) /\ Finalize(p))

-------------------------------------------------------------------------------
(* Properties *)

\* Over kills, failures, several saves of one process and any number of resumes
\* the totals on file are the calls made in this run, each once, but for those a
\* process had not yet saved when it ended.
EveryCallBilledOnce == lock = "none" /\ meta # "torn" => saved + lost = paid

\* The local metrics count no checkpoint twice and none without a prediction,
\* whatever an earlier or interrupted run left in case_results.jsonl; only a cut
\* prediction line, which makes the run end as unreadable, may be missing.
CasesCountedOnce ==
    /\ \A m, n \in 1..Len(live.results) : live.results[m].id = live.results[n].id => m = n
    /\ Garbage \notin Lines => \A n \in 1..Len(live.results) : live.results[n].id \in Ids

\* "Reject resume when the old output cannot prove execution equivalence.": the
\* local metrics of a run are computed from the results of the predictions that
\* are on file, not from results another run left for the same checkpoints.
MetricsMatchPredictions ==
    \A p \in Procs : proc[p].pc = "score" =>
        \A n \in 1..Len(live.results) : \E line \in Lines :
            line.id = live.results[n].id /\ line.identity = live.results[n].identity

\* Once kills and fresh starts have ceased, resuming completes and scores the
\* run, unless a write that was cut stands in the way: of the metadata, of the
\* predictions, or of the case results, a file of the local metrics only.
ResumeCompletes ==
    (<>(meta # "none") /\ <>[][~(FreshStart \/ AnyKill)]_vars)
        => \/ []<>(Ids = Checkpoints /\ \E p \in Procs : proc[p].outcome = "scored")
           \/ TornWrites /\ <>[](meta = "torn" \/ ~Readable \/ cases.torn)
===============================================================================
