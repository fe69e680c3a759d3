--------------------------------- MODULE Runner ---------------------------------
(***************************************************************************)
(* The benchmark runner (pipeline.GovMemRunner in a V8 mode) and the two     *)
(* files a later run relies on: run_metadata.json, the identity of a run,    *)
(* and predictions.jsonl, one line per checkpoint.  Several processes may be *)
(* started on one output directory; any of them can be killed at any step.   *)
(*                                                                          *)
(* Data abstracted: everything _validate_resume_metadata compares (dataset,  *)
(* mode, fingerprint, configuration, manifest) is one identity.  It does not *)
(* compare max_instances, start_index and data_path: the checkpoints that    *)
(* these select are asked for anew by every process ("wanted").  That a      *)
(* checkpoint id always stands for the same instance is assumed; the code    *)
(* does not check it.  What run_instance does is one of its outcomes (module *)
(* EventIngestion).                                                          *)
(***************************************************************************)
EXTENDS Integers, Sequences, FiniteSets

CONSTANTS
    Procs,
    Identities,
    N,              \* checkpoints, numbered in processing order
    Requests,       \* sets of checkpoints that a process can be started for
    RecordErrors,   \* identities with pipeline.record_execution_errors
    FailFast,       \* identities with pipeline.fail_fast
    ErrorLimit,     \* pipeline.max_consecutive_execution_errors, 0 for none
    TornWrites      \* a kill or an append that raises can leave a part of what it writes

ASSUME RunnerAssumption ==
    /\ N \in Nat \ {0}
    /\ Requests \subseteq SUBSET (1..N)
    /\ ErrorLimit \in Nat
    /\ RecordErrors \subseteq Identities /\ FailFast \subseteq Identities
    /\ TornWrites \in BOOLEAN
    /\ "none" \notin Identities /\ "torn" \notin Identities
    /\ "none" \notin Procs

Checkpoints == 1..N
Kinds == {"prediction", "audit_gap", "error"}

\* Garbage is a line that json.loads refuses.
Garbage == [id |-> 0, identity |-> "none", kind |-> "garbage"]
Row == [id : Checkpoints, identity : Identities, kind : Kinds]

VARIABLES
    lock,   \* process that holds run.lock, or "none"
    meta,   \* run_metadata.json: an identity, "none" if absent, "torn" if cut
    file,   \* predictions.jsonl: lines, and whether the last one is terminated
    proc    \* the processes

vars == <<lock, meta, file, proc>>

NoFile == [exists |-> FALSE, lines |-> <<>>, ended |-> TRUE]
Lines == {file.lines[n] : n \in 1..Len(file.lines)}
Ids == {line.id : line \in Lines}

\* _load_completed_prediction_ids: an empty file, a line that does not parse and
\* a repeated id are refused; a missing file is not.
Readable ==
    file.exists =>
        /\ file.lines # <<>>
        /\ Garbage \notin Lines
        /\ \A m, n \in 1..Len(file.lines) : file.lines[m].id = file.lines[n].id => m = n

\* append_jsonl opens the file at its end, wherever that is.
Appended(row) ==
    [exists |-> TRUE, ended |-> TRUE,
     lines |-> IF file.ended THEN Append(file.lines, row)
               ELSE [file.lines EXCEPT ![Len(file.lines)] = Garbage]]

\* What append_jsonl can leave if it does not come to its end: a new empty file,
\* a part of the line, or the line without its end.
CutAppend(row) ==
    {[file EXCEPT !.exists = TRUE],
     [Appended(Garbage) EXCEPT !.ended = FALSE],
     [Appended(row) EXCEPT !.ended = FALSE]}

Down(outcome) ==
    [pc |-> "down", identity |-> "none", resume |-> FALSE, wanted |-> {}, todo |-> {},
     errors |-> 0, kind |-> "prediction", then |-> "down", outcome |-> outcome]

Init ==
    /\ lock = "none"
    /\ meta = "none"
    /\ file = NoFile
    /\ proc = [p \in Procs |-> Down("none")]

Current(p) == CHOOSE i \in proc[p].todo : \A j \in proc[p].todo : i <= j
NewRow(p) == [id |-> Current(p), identity |-> proc[p].identity, kind |-> proc[p].kind]

At(p, pc) == proc[p].pc = pc
Goto(p, pc) == proc' = [proc EXCEPT ![p].pc = pc]

\* The process exits, which releases the lock.
Stop(p, outcome) ==
    /\ proc' = [proc EXCEPT ![p] = Down(outcome)]
    /\ lock' = "none"

\* _save_run_metadata, then the continuation.
SaveThen(p, then) == proc' = [proc EXCEPT ![p].pc = "save", ![p].then = then]

-------------------------------------------------------------------------------
(* The constructor *)

Started(identity, wanted, resume) ==
    [Down("none") EXCEPT !.pc = "identify", !.identity = identity, !.wanted = wanted,
                         !.resume = resume]

\* Variant: run.lock is opened and not locked.
Start_WithoutLock(p, identity, wanted, resume) ==
    /\ At(p, "down")
    /\ lock' = p
    /\ proc' = [proc EXCEPT ![p] = Started(identity, wanted, resume)]
    /\ UNCHANGED <<meta, file>>

\* A process that finds the lock taken raises and changes nothing.
Start(p, identity, wanted, resume) ==
    /\ At(p, "down")
    /\ lock = "none"
    /\ lock' = p
    /\ proc' = [proc EXCEPT ![p] = Started(identity, wanted, resume)]
    /\ UNCHANGED <<meta, file>>

ResumeRefused(p) ==
    /\ At(p, "identify")
    /\ proc[p].resume
    /\ meta # proc[p].identity
    /\ Stop(p, "refused")
    /\ UNCHANGED <<meta, file>>

Identified(p) ==
    /\ At(p, "identify")
    /\ proc[p].resume => meta = proc[p].identity
    /\ SaveThen(p, "load")
    /\ UNCHANGED <<lock, meta, file>>

SaveMetadata(p) ==
    /\ At(p, "save")
    /\ meta' = proc[p].identity
    /\ IF proc[p].then \in {"aborted", "scored"} THEN Stop(p, proc[p].then)
       ELSE Goto(p, proc[p].then) /\ UNCHANGED lock
    /\ UNCHANGED file

-------------------------------------------------------------------------------
(* run() up to its loop *)

LoadFails(p) ==
    /\ At(p, "load")
    /\ Stop(p, "failed")
    /\ UNCHANGED <<meta, file>>

\* A run that is not a resume removes the old predictions.
PrepareFresh(p) ==
    /\ At(p, "load")
    /\ ~proc[p].resume
    /\ file' = NoFile
    /\ proc' = [proc EXCEPT ![p].pc = "loop", ![p].todo = proc[p].wanted]
    /\ UNCHANGED <<lock, meta>>

\* Variant: a resume starts over as well.
PrepareResume_StartsOver(p) ==
    /\ At(p, "load")
    /\ proc[p].resume
    /\ file' = NoFile
    /\ proc' = [proc EXCEPT ![p].pc = "loop", ![p].todo = proc[p].wanted]
    /\ UNCHANGED <<lock, meta>>

\* Variant: predictions outside the request are not refused.
PrepareResume_AnyRequest(p) ==
    /\ At(p, "load")
    /\ proc[p].resume
    /\ IF Readable
       THEN /\ proc' = [proc EXCEPT ![p].pc = "loop", ![p].todo = proc[p].wanted \ Ids]
            /\ UNCHANGED lock
       ELSE Stop(p, "unreadable")
    /\ UNCHANGED <<meta, file>>

\* A predictions file that is not readable, or holds a checkpoint outside the
\* requested ones, ends a resume.
PrepareResume(p) ==
    /\ At(p, "load")
    /\ proc[p].resume
    /\ IF ~Readable THEN Stop(p, "unreadable")
       ELSE IF ~(Ids \subseteq proc[p].wanted) THEN Stop(p, "outside")
       ELSE /\ proc' = [proc EXCEPT ![p].pc = "loop", ![p].todo = proc[p].wanted \ Ids]
            /\ UNCHANGED lock
    /\ UNCHANGED <<meta, file>>

-------------------------------------------------------------------------------
(* One checkpoint *)

InLoop(p) == At(p, "loop") /\ proc[p].todo # {}
WriteRow(p, kind) == proc' = [proc EXCEPT ![p].pc = "append", ![p].kind = kind]
Finished(p, errors) ==
    proc' = [proc EXCEPT ![p].pc = "loop", ![p].todo = @ \ {Current(p)}, ![p].errors = errors]

Predict(p) ==
    /\ InLoop(p)
    /\ WriteRow(p, "prediction")
    /\ UNCHANGED <<lock, meta, file>>

\* Model contract incompleteness: fail closed for this checkpoint.
AuditGap(p) ==
    /\ InLoop(p)
    /\ WriteRow(p, "audit_gap")
    /\ UNCHANGED <<lock, meta, file>>

\* Variant: the predictions are not read again before an error row is written.
ExecutionError_Unchecked(p) ==
    /\ IF proc[p].identity \in RecordErrors THEN WriteRow(p, "error") /\ UNCHANGED lock
       ELSE IF proc[p].identity \in FailFast THEN SaveThen(p, "aborted") /\ UNCHANGED lock
       ELSE Finished(p, proc[p].errors) /\ UNCHANGED lock
    /\ UNCHANGED <<meta, file>>

\* Any other exception of a checkpoint, before or after its row was written.
\* The code tests every exception for the words of an audit gap first, and for
\* those appends a row without reading the predictions again.  Assumed: an
\* exception of the append, of evaluate_case or of _save_debug_case, an encoding
\* or I/O error whose text names at most a file, has none of these words.
ExecutionError(p) ==
    /\ IF proc[p].identity \in RecordErrors
       THEN IF ~Readable \/ Current(p) \in Ids THEN Stop(p, "failed")
            ELSE WriteRow(p, "error") /\ UNCHANGED lock
       ELSE IF proc[p].identity \in FailFast THEN SaveThen(p, "aborted") /\ UNCHANGED lock
       ELSE Finished(p, proc[p].errors) /\ UNCHANGED lock
    /\ UNCHANGED <<meta, file>>

Fails(p) == InLoop(p) /\ ExecutionError(p)

\* The append of a row raises and may leave a part of it.  For a prediction the
\* exception is handled like any other; in the handler itself it ends the run.
AppendFails(p) ==
    /\ At(p, "append")
    /\ UNCHANGED file \/ (TornWrites /\ file' \in CutAppend(NewRow(p)))
    /\ IF proc[p].kind = "prediction" THEN Goto(p, "raised") /\ UNCHANGED lock
       ELSE Stop(p, "failed")
    /\ UNCHANGED meta

AppendRaised(p) == At(p, "raised") /\ ExecutionError(p)

AppendRow(p) ==
    /\ At(p, "append")
    /\ file' = Appended(NewRow(p))
    /\ Goto(p, IF proc[p].kind = "prediction" THEN "debug" ELSE "row_saved")
    /\ UNCHANGED <<lock, meta>>

\* evaluate_case and _save_debug_case, after the prediction is in the file.
DebugSaved(p) ==
    /\ At(p, "debug")
    /\ Finished(p, 0)
    /\ UNCHANGED <<lock, meta, file>>

DebugFails(p) == At(p, "debug") /\ ExecutionError(p)

\* The side file and the metadata after an audit-gap or error row.
RowSaved(p) ==
    /\ At(p, "row_saved")
    /\ LET errors == IF proc[p].kind = "error" THEN proc[p].errors + 1 ELSE 0
           stop == proc[p].kind = "error" /\ ErrorLimit > 0 /\ errors >= ErrorLimit
       IN  proc' = [proc EXCEPT ![p].pc = "save", ![p].then = IF stop THEN "aborted" ELSE "loop",
                                ![p].todo = @ \ {Current(p)}, ![p].errors = errors]
    /\ UNCHANGED <<lock, meta, file>>

-------------------------------------------------------------------------------
(* The end of run() *)

LoopDone(p) ==
    /\ At(p, "loop")
    /\ proc[p].todo = {}
    /\ SaveThen(p, "check")
    /\ UNCHANGED <<lock, meta, file>>

\* Variant: a file that parses is taken for a complete one.
Accepted_IfReadable(p) == Readable

Accepted(p) == Readable /\ proc[p].wanted \subseteq Ids

Incomplete(p) ==
    /\ At(p, "check")
    /\ ~Accepted(p)
    /\ Stop(p, "incomplete")
    /\ UNCHANGED <<meta, file>>

Complete(p) ==
    /\ At(p, "check")
    /\ Accepted(p)
    /\ Goto(p, "score")
    /\ UNCHANGED <<lock, meta, file>>

Score(p) ==
    /\ At(p, "score")
    /\ SaveThen(p, "scored")
    /\ UNCHANGED <<lock, meta, file>>

ScoreFails(p) ==
    /\ At(p, "score")
    /\ Stop(p, "failed")
    /\ UNCHANGED <<meta, file>>

-------------------------------------------------------------------------------
\* The process dies.  write_json truncates the metadata before it writes them; a
\* save of the metadata that raises ends the process in the same way.
Kill(p) ==
    /\ ~At(p, "down")
    /\ Stop(p, "killed")
    /\ \/ UNCHANGED <<meta, file>>
       \/ TornWrites /\ At(p, "save") /\ meta' = "torn" /\ UNCHANGED file
       \/ TornWrites /\ At(p, "append") /\ file' \in CutAppend(NewRow(p)) /\ UNCHANGED meta

Step(p) ==
    \/ ResumeRefused(p) \/ Identified(p) \/ SaveMetadata(p)
    \/ LoadFails(p) \/ PrepareFresh(p) \/ PrepareResume(p)
    \/ Predict(p) \/ AuditGap(p) \/ Fails(p)
    \/ AppendRow(p) \/ AppendFails(p) \/ AppendRaised(p)
    \/ DebugSaved(p) \/ DebugFails(p) \/ RowSaved(p)
    \/ LoopDone(p) \/ Incomplete(p) \/ Complete(p) \/ Score(p) \/ ScoreFails(p)

FreshStart ==
    \E p \in Procs, identity \in Identities, wanted \in Requests : Start(p, identity, wanted, FALSE)
ResumeStart ==
    \E p \in Procs, identity \in Identities, wanted \in Requests : Start(p, identity, wanted, TRUE)
AnyKill == \E p \in Procs : Kill(p)

Next == FreshStart \/ ResumeStart \/ AnyKill \/ \E p \in Procs : Step(p)

Spec == Init /\ [][Next]_vars

-------------------------------------------------------------------------------
(* Properties *)

\* No checkpoint has two prediction lines, over failing side files, kills,
\* resumes and concurrent starts.
OneRowPerCheckpoint ==
    \A m, n \in 1..Len(file.lines) :
        file.lines[m].id = file.lines[n].id /\ file.lines[m] # Garbage => m = n

\* What is scored is one prediction of each checkpoint that the process was asked
\* for and of no other one, also if an earlier process was asked for others.
OnlyCompleteIsScored ==
    \A p \in Procs : proc[p].pc = "score" => Readable /\ Ids = proc[p].wanted

\* A run whose identity is that of the metadata is never refused because of the
\* predictions file being unreadable, as long as every write is whole or not begun.
\* "The caller can rerun with --resume, which processes only these IDs after
\* validating run identity."
InterruptedRunResumes == \A p \in Procs : proc[p].outcome # "unreadable"

\* "Reject resume when the old output cannot prove execution equivalence.": in a
\* resumed run every prediction on file is one of its own identity.
ResumeProvesEquivalence ==
    \A p \in Procs : proc[p].resume /\ proc[p].pc = "loop" =>
        \A line \in Lines : line = Garbage \/ line.identity = proc[p].identity
================================================================================
