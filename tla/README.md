# Gov-Mem: a TLA+ model of the V8 late-governance system

This project models and checks the part of Gov-Mem that `run_govmem.py` runs with
the published configuration (`configs/govmem.yaml`, mode
`govmem_v8_late_governance`). Paths below are relative to the repository; module
names are files of this directory.

Gov-Mem answers benchmark questions ("checkpoints") about long conversations of
several principals. A checkpoint sees a prefix of a conversation. Model calls
extract permission and lifecycle events from the turns, propose claims and write
the answer; deterministic code keeps the events, decides which are in force,
vetoes claims and cuts denied text out of what the last call may see. All of it
is sequential Python; what makes it hard is that runs are long, paid for, often
interrupted, and resumed from files.

## 1. Inventory

### Parts, state and operations

| Part | State | Operations | Code |
|---|---|---|---|
| Event extraction and validation | none kept; rejected records in the audit | accept or reject each record, drop context-only ones, add deletion tombstones | `extraction/v8_event_extractor.py`, `extraction/v8_event_validator.py` |
| Event store and ingestion | `v8_event_cache/<dataset>/<conversation>.json`; the `V8EventStore` objects in `_stores` | load, prefill batch (call, append, save), joint extraction in the Stage-2 call (`accept_events`), contract repair, answer call | `backbones/govmem_v8_late_governance.py`, `governance_runtime/v8_event_store.py` |
| Permission-state projection | none kept; recomputed at each use | activation of an event, folds over scenes, entities, facts, permissions | `governance_runtime/v8_state_projector.py` |
| Claim reasoner (Stage 2) | none kept | prompt, model call, normalise, bind, validate, repair | `governance_runtime/v8_claim_reasoner.py`, `v8_shallow_memory.py`, `extraction/v8_line_protocol.py` |
| Symbolic critic | none kept | veto of claims | `governance_runtime/v8_symbolic_critic.py` |
| Safe-evidence boundary, answer | none kept | block, mask or release a claim; choose the action | `governance_runtime/v8_safe_evidence.py`, `_answer_from_safe_evidence` |
| Governed slot graph | in-memory cache: graph with its change lists, and processed chunk texts | reset, batched extraction, build, commit or fallback, retrieval, observer | `memory/v8_slot_graph.py`, `memory/governed_slot_graph.py` |
| LLM client | telemetry counters; one file per embedded text | request with retries and key rotation, JSON with parse retries, batched embedding | `llm/client.py` |
| Runner | `run.lock`, `run_metadata.json`, `predictions/<dataset>/predictions.jsonl`, side files | start, resume, checkpoint loop, error policies, completeness check, scoring | `pipeline.py`, `utils/io.py` |
| Dense memory, adapters, evaluation, historical backbones | - | - | not modelled, see section 8 |

### How they interact

The runner takes the lock of an output directory, writes its identity, and calls
`run_instance` once per checkpoint in the order of conversation and prefix
length. `run_instance` asks the slot graph and the dense index for evidence,
brings the event store up to the visible prefix (in prefill calls for a long
prefix, otherwise inside the Stage-2 call), projects the store, runs the Stage-2
call with at most one repair, reviews the claims with the critic, builds the
safe evidence and makes the answer call if anything is left to say. Every model
call goes through the client. The runner appends one line per checkpoint to
`predictions.jsonl`; a later process resumes from that file, the event store and
the embedding files. There are no threads: concurrency is that of processes on
one directory, of kills between and inside writes, and of model replies, which
may be of any kind.

### What makes each part correct, and what is hard about it

- **Extraction.** No restriction a model reports may vanish unnoticed: it is stored,
  or its turns are on record as insufficiently audited. Context resolves references
  but creates nothing. Hard: five passes that share a growing set of ids, filters
  after them, two callers that treat rejections differently.
- **Event store.** Processed turns have no hole; what is on disk is never lost or
  altered; a turn is paid for once; Stage 2 never works on a silently shortened
  prefix; the budget bounds the calls and the reported cost is the real one;
  coming back with the same conversation makes progress. Hard: append and save
  are two steps, a repair comes after the delta was accepted, the budget ends a
  run in the middle, checkpoints have any prefix.
- **Projection.** The dictionary that is edited while events are folded must hold
  what the history says: the last whole-resource change and what came after it.
  Hard: the store is in extraction order, effects are in the order of cited
  turns, conditional, expired and scoped events replace less than plain ones.
- **Stage 2.** What the model denied stays denied whichever form its reply has, and
  what it bound to a denial in force is not released. Hard: the delta is stored
  before the claims are looked at, and stays when they are refused.
- **Critic and boundary.** A bound, uncontested denial or deletion is enforced
  whatever the model delivered; no denied character is released and nothing else
  is cut; the action says what is missing. Hard: several bound events,
  overlapping spans, counts that overlap as well.
- **Slot graph.** A checkpoint learns nothing about text it cannot see, and nothing
  counts as processed that was not extracted; the transitions of an entity and the
  restrictions reported stay whole. Hard: failing batches inside a build, edited and
  shorter prefixes, a graph that is mutable, lists that drop restatements.
- **Client.** Every request is counted, retries rotate keys, every call ends,
  vectors reach the right place and are not paid for twice. Hard: two nested
  loops with three exits, repeated texts, failures between two batches.
- **Runner.** One row per checkpoint, only a complete set is scored, an interrupted
  run can be resumed and the resume is of the same experiment. Hard: failures
  after the row was written, kills inside writes, two processes.

The full list of hazards, each with its line and the properties that cover it, is
in `PROJECT.json`.

## 2. Modules

| Module | Kind | Models |
|---|---|---|
| `TurnLedger` | abstract specification | what the event store promises: an append-only ledger of turns |
| `EventIngestion` | state machine | one conversation, checkpoint after checkpoint, with kills |
| `EventExtraction` | state machine | from extracted records to the event store, two calls that do it |
| `PermissionState` | operators | one permission event at a checkpoint; closed form of the projection |
| `StateProjector` | state machine | the permission loop of `project_v8_state` |
| `V8Projection` | state machine | all of `project_v8_state`, extends `StateProjector`; the lifecycle view of a prompt |
| `StageTwo` | state machine | reply of the Stage-2 call to reviewed claims, with repair and retry |
| `SpanMask` | operators | range arithmetic of the masking |
| `ClaimReview` | state machine | critic, safe evidence, answer action of one ledger |
| `SlotGraph` | state machine | cache transaction of the slot graph |
| `EntityLists` | state machine | change lists, retrieval and observer, composed with `SlotGraph` |
| `LLMClient` | state machine | requests, retries, parsing, embeddings |
| `Runner` | state machine | processes on one output directory |
| `RunFiles` | state machine | telemetry totals and case results, composed with `Runner` |
| `MC*` | instances | inputs and constant values for TLC |
| `*Proofs` | theorems | proofs about the module of that name; `StateProjectorProofs` also about `V8Projection`, `ClaimReviewProofs` about `SpanMask`, `SlotGraphProofs` about `EntityLists`, `RunnerProofs` about `RunFiles`, `ExtractionProofs` about `EventExtraction` |

Definitions called `<Name>_<Something>` and commented "Variant" are not part of
any specification: they are plausible wrong versions of `<Name>`, kept to show
that the properties tell them apart (at least one for each property).

### EventIngestion

`mem` is the `V8EventStore` object, `disk` the file; both are a memory mode and
the audit status of each turn (`"none"`, `"complete"`, `"insufficient"`: a
governance record was rejected). `pc` follows `run_instance`: `prefill` is the
head of the prefill loop, `prefill_save` the gap between `store.append` and
`store.save`, `reason` the head of the repair loop, `joint_save` the same gap
inside `accept_events`, `claims` the validation after it, `answer` the rest.
`StartRun` is `_store` and the beginning of `_prepare_ingestion`;
`PrefillBudgetExceeded`, `OversizedTurn`, `PrefillGap`, `PrefillAppend`,
`PrefillSave` and `PrefillDone` are the ways through the prefill loop;
`Stage2Error`, `Stage2Malformed`, `AcceptEvents`, `JointSave`,
`Stage2WithoutIngestion`, `ClaimsRejected` and `ClaimsValid` those through the
repair loop; `Withhold` and `AnswerCall` end it. `SaveFails` is an `OSError` of a
save in a process that lives on, `Kill` and `Restart` are process death and a new
process, possibly in another memory mode. The counters `calls` are what was
really requested; `audits` and `failures` are what the code derives its report
from.

### EventExtraction

`store` keeps, of each record, also the turns that were new when it was stored.
`Extract` is the model call; `ReadScenes` to `ReadEvents` are the five passes of
`validate_v8_extraction` in its order, each with its own acceptance rule and the ids
known so far; `DropContextOnly` is the filter after them. Then `AppendTombstones`
is the deletion backstop, which only the prefill call in full mode has;
`PrefillGap` gives the batch up if a critical record was rejected, and
`AppendBatch` appends it; the joint call appends in any case and writes down that
the audit is insufficient. Text is abstracted to what the validator finds in it:
cited turns, exactly quoted turns, and whether names and values are in the quotes.

### PermissionState, StateProjector, V8Projection

An event keeps its kind, effect, base (issuer, grantee, resource, action, scene),
scope, condition, start, end and the first and last turn its spans cite.
`Activation` is `_activation`. `Skip` and `Fold` are one pass of the permission
loop; `states` holds the index of the event that wrote each dictionary entry. The
reference is `Unreplaced`, which says without any dictionary which events are
left. `V8Projection` runs the four folds before that loop, one row at a time:
`FoldScene`, `FoldEntity`, `FoldRelation`, `FoldFact`. `LifecycleView` is
`shallow_lifecycle_view`, what a prompt shows of the lifecycle events.

### StageTwo

A reply is a delta and a list of raw claims whose fields may be missing.
`AcceptDelta`, `NoDelta` and `DeltaRefused` are `accept_events`; `Normalize` and
`NormalizeRefused` are `normalize_shallow_json`, `ExpandRefused` is
`expand_kept_candidates`, `Bind` and `BindRefused` are `bind_claim_events`,
`Validate` and `ValidateRefused` are `_validate_claims`, `Review` is the critic.
A refusal leads back to `Ask` as long as the repair limit allows and ends in an
audit gap otherwise; `Crash` is an exception that is no `ClaimContractError`, and
`Retry` another attempt at the checkpoint, which finds the stored delta.

### SpanMask and ClaimReview

A text is the sequence of the source offsets it consists of, so that a released
excerpt shows exactly what of the source is in it. `Review` is one claim of the
critic; `BlockClaim`, `ReleaseClaim`, `MaskClaim` and `DropClaim` are the ways
through the loop of `build_v8_safe_evidence`; `BoundaryDone` is its end;
`Withhold` and `AnswerCall` choose the action. `ById` is the dictionary of the
critic with its last-one-wins rule.

### SlotGraph

What the graph derives from a chunk is abstracted to the observation
`<<chunk, text>>` it is derived from: nodes, edges and slots all carry their
source chunk. `Retrieve` compares and resets; `BatchExtracted` and `BatchFailed`
are one batch; `BuildGraph` and `BuildRaises` consume the records; `Commit` and
`Fallback` end the transaction. `Edit` stands for another version of the
conversation under the same id, `Restart` for a new process, which begins with an
empty cache. `extracted` is a history variable of what was really sent.

### EntityLists

Every action is one of `SlotGraph` with its effect on the change lists. `Resolved`
looks up the chunk a record cites; the build passes over the others. `AddRecord`
is the body of the loop over records: what a record adds to the list of each entity
(`Candidates`), the anchor of a record that adds nothing (`Additions`), the rule
that a list does not repeat its last relation (`AppendChange`), and what the
observer of the backbone reports (`Reported`). `Selected` and `BestOf` are
`retrieve_entity_lists`; they determine the evidence `SlotGraph` leaves open. The
names of entities, subjects and resources are one set because the code normalises
all three to the same keys. `told` is a history variable of the records built in.

### LLMClient

`PostReturns`, `PostRaises` and `PostRetried` are one request of `_post_json`;
`ChatReturns`, `ParseFails` and `AskedAgain` the loop of `chat_json`;
`EmbedCall`, `EmbedReturns`, `EmbedRaises`, `AcceptRow`, `WriteRow`, `WriteRaises`,
`NextBatch` and `EmbedDone` are `embed_texts` with a cache directory. Of each row
`fresh_map` is set first (`AcceptRow`), and the file is written afterwards by a write
that can fail or be cut short (`WriteRaises`, `Restart`); a malformed row ends the
call with the rows behind it unsaved (`EmbedRaises`). The vector of a text is the
text, so that a vector in the wrong place is visible. `posts` and `sent` record what
really went out, `paid` the vectors of the replies received, `broken` the calls that
were broken off with a reply in hand. A request that timed out and that the provider
may have billed all the same is not in `paid`. That the provider returns the rows in
the order of the input is assumed, as the code does.

### Runner

`meta` and `file` are the two files, `lock` is `run.lock`, `proc` the processes.
Everything that `_validate_resume_metadata` compares is one identity. It does not
compare `max_instances`, `start_index` and `data_path`; what the first two select is
the request of a process, `wanted`, which may differ from resume to resume
(`pipeline.py:391`). That a checkpoint id always stands for the same instance,
whatever `data_path` says, is an assumption the code does not check. A process
goes through `identify`, `save` (each `_save_run_metadata`, with its
continuation), `load`, `loop`, `append`, `debug` or `row_saved`, `check` and
`score`; `raised` is an append that raised and is handled like any other exception.
With `TornWrites`, a kill can leave a line or the metadata cut in the middle, and an
append that raises a part of its line. The handler tests each exception for the words
of an audit gap first (`pipeline.py:420`), and for those appends a row without reading
the file again; assumed is that no exception raised by the append or after it, an
encoding or I/O error, has such words (none of that code does, but nothing keeps
them apart). `RunFiles` adds to each action what it does to the telemetry totals in the
metadata and to `case_results.jsonl`: the base that a resume loads, the calls of
the process, what of them is saved, the results the evaluator holds. `paid` and
`lost` are history variables.

## 3. Runs

| Run | Module | Instance | Question |
|---|---|---|---|
| `ingestion` | `MCEventIngestion` | 6 turns of mixed sizes, batch 2, two prefill calls, one repair, both memory modes | the event store, the refinement of `TurnLedger`, and liveness |
| `event_extraction` | `MCEventExtraction` | 2 turns, one or both new; two deltas; both calls and modes | what becomes of restrictions, context, references, deletions |
| `state_projection` | `MCStateProjector` | all stores of up to 3 events, or 3 lifecycle changes, or 3 facts, or 2 scene rows and 2 relations, or 2 entity rows; every prefix of 3 turns | does the projection hold what the history says? |
| `stage_two` | `MCStageTwo` | about 550 shapes of a claim alone, pairs of those that matter to each other, 6 deltas; 2 checkpoints, 1 repair | do denials survive, and do checkpoints get through? |
| `stage_two_discard` | `MCStageTwo` | the same | is no denial discarded? (some are) |
| `claim_review` | `MCClaimReview` | up to 3 claims over 6 spans; 2 permission states, 1 deletion, every binding | critic, masking and action |
| `claim_repeated_id` | `MCClaimReview` | two states of one event id | are bound denials enforced also then? (no) |
| `slot_graph` | `MCEntityLists` | 2 chunks, 2 texts each, batch 1; 9 replies, 2 questions | no foreign history, whole change lists and findings |
| `llm_client` | `MCLLMClient` | pool of two keys, 3 attempts, 2 parse attempts, 3 texts, batch 2 | metering, rotation, embeddings, termination |
| `runner_safety` | `Runner` | 2 processes, 3 checkpoints, 2 requests, 3 error policies | rows, completeness, resume |
| `runner_resume` | `RunFiles` | 1 process, 2 checkpoints, 2 requests, cut writes, 2 calls | totals and case results; does resuming complete the run? |
| `runner_identity` | `Runner` | 1 process, 2 identities | does a resume prove equivalence? (no) |

### What the properties of the passing runs say

- `WatermarkIsPrefix`, `NeverOfferedTwice`: the processed turns are an initial
  segment in memory and on disk; nothing processed is offered to a model call as new.
- `NoSilentTruncation`: claims are judged on the whole prefix, or a gap is set.
- `CallBudget`, `DeliveredCostIsExact`: bounds on calls, and exact counters for
  delivered answers. `ModeIsolated`: memory modes do not mix.
- `ImplementsLedger`: the file implements `TurnLedger`.
- `RunTerminates`, `CatchUp`: a run ends; coming back ingests everything up to the
  first turn that is too large for a call.
- `RestrictionsAccountedFor`: a restriction in a reply is stored, or a turn of that
  reply stays marked as insufficiently audited. `ContextCreatesNothing`,
  `ReferencesResolve`, `DeletionsAreRemembered`: what else the passes, the filter
  and the backstop owe each other.
- `LoopIsClosedForm`: the permission loop against its reference.
  `CurrentFactIsLatest`, `ScenesHoldTheVisibleRows`: the same for facts, scenes and
  entities. `ExpiryIsFinal`: an ended permission does not come back at a checkpoint
  without a comparable time. `FoldedStaysRestated`: an update left out of a prompt
  is restated by a newer one in this and every later prompt.
- `DenialsSurvive`: a denial of a reply that is used is in the reviewed ledger, in
  the source it names. `BoundDenialsEnforced`: a claim bound to a denial in force or
  a deletion is not released, also when that event is from the same reply or from
  one whose claims were refused. `CheckpointsGetThrough`: a checkpoint ends, unless
  its requester's events are ambiguous.
- `NoDeniedTextReleased`, `OnlyDeniedTextMasked`: the masking removes all of the
  denied offsets, and nothing else. `BoundVetoEnforced`: with distinct event ids no
  bound, uncontested denial or deletion is released. `ActionIsHonest`: the action
  says what is missing, and restrictions are not passed off as missing memory.
- `NoForeignHistory`, `ProcessedWasExtracted`: the cache of the slot graph.
  `NamedHistoryIsWhole`: of an entity named in the question every extracted
  transition is handed over, over records, batches, checkpoints and caps.
  `RestrictionsStayReported`: what the observer reports is every restriction
  extracted from the conversation as it is now, also after failed builds.
- `RequestsAreMetered`, `RetriesRotate`, `EmbeddingsInOrder`, `CallEnds`: client.
  `PaidOncePerFailure`: no call that ends, and no earlier batch of one that does not,
  is paid for again; a call that is broken off costs at most the batch in hand.
- `OneRowPerCheckpoint`; `OnlyCompleteIsScored`: what is scored is exactly what the
  process was asked for; `InterruptedRunResumes`: with whole writes the predictions
  are never unreadable for a resume. `EveryCallBilledOnce`: the calls on file and
  those lost unsaved add up to the calls made. `CasesCountedOnce`: a case is counted
  at most once (it may be missing, as the warning at `pipeline.py:600` says), and
  none without a prediction. `ResumeCompletes`: resuming gets the whole run scored.

### Bounds, and why they are enough

- *Ingestion.* The six sizes `<<1, 1, 2, 1, 3, 1>>` with a text budget of 2 make a
  batch that ends at the turn limit, one that ends at the text limit, a turn that
  is too large and turns behind it. Two prefill calls suffice up to turn 4 and do
  not beyond, so budget exhaustion and progress over several runs both happen.
  Call counters are bounded by the limits themselves.
- *Extraction.* Two turns with one turn of context make a record cite a new turn,
  the context, both or neither. The first delta holds up to one record, the second
  up to two that refer to each other or to the first; that is what a rejected,
  forward or context-only reference needs. Turn 2 states a deletion.
- *Projection.* Three events are what an erased, an erasing and a surviving event
  need; they differ in end (none, turn, date), condition, scope, start, base and
  kind, and one turn has no usable time. No fold reads a collection of another one,
  except relations, which join the scenes; so the collections are varied one by
  one. Lengths beyond three are covered by the proofs.
- *Stage 2.* Each pass tells claims apart by few of their fields; the reply set has
  the product of the fields of each pass and pairs over those that interact
  (deduplication, a defect beside a denial). Two checkpoints let an event stored
  by the first bind in the second, under another requester.
- *Review.* Three claims over six spans contain nested, touching, overlapping and
  separate denied ranges inside one excerpt, in every order, with one blank
  character so that an excerpt can be masked away. The critic sees two permission
  states (a denial and a competing one) and one deletion for every set of bound
  events.
- *Slot graph.* Two chunks and batches of one give a prefix that grows, shrinks or
  is edited, and a build of two batches of which either may fail or cite the other
  chunk. The nine replies give and withdraw a permission with other relations in
  between and contain every kind of record that must not become a change.
  `TopK` = 2 of six possible lists and `MaxRelations` = 1 make both caps bite.
- *Runner.* Two processes are enough to contend for the lock; three checkpoints
  with an error limit of two let the run of consecutive errors be reached and be
  interrupted. The three identities are the three error policies of `pipeline.*`.
  The second request leaves out the last checkpoint, so that a resume meets rows
  outside its request. Files are bounded because a row is written per checkpoint at
  most once.
  `MaxCalls` bounds the calls of one run: two are paid by different processes.
- *Client.* `MaxUse` bounds the number of calls: none begins once so many requests
  and cache hits are counted; `Restart` resets the counters. Four allow a second
  call on a cache that a first, failed one has left behind. `MaxBroken` = 2: no
  embedding begins after two were broken off; twice is what it takes to lose a row, ask
  for it again and lose it again. The pool contains the
  primary key at its second place, so that the rotation wraps around.

`CHECK_DEADLOCK FALSE` is used for `state_projection`, `event_extraction`,
`stage_two`, `stage_two_discard`, `claim_review` and `claim_repeated_id`, which
model computations that end.

### Fairness

- A started run, call or process goes on (`RunStep`, `CallStep`, `Step`): the
  program is sequential, every request is bounded by `request_timeout`, and
  nothing else blocks (the lock is taken with `LOCK_NB`). This is weak fairness,
  and `RunTerminates` and `CallEnds` use nothing else. In `StageTwo` it also covers
  `Retry`, the operator's next attempt at a checkpoint that failed.
- `CatchUp` also assumes that the caller restarts the process and comes back with the
  whole conversation, and that each of model call, save and end of prefill succeeds
  infinitely often if it is attempted infinitely often (strong fairness).
  `ResumeCompletes` assumes the same of resuming with all checkpoints, and of loading,
  predicting, appending, writing debug files and scoring in such runs, and has as its
  premise that kills and fresh starts cease. These are assumptions about the
  environment, not about the code (`CheckpointsGetThrough` likewise assumes that a
  reply without defects comes infinitely often if it is asked for infinitely often):
  the code does not promise that a provider ever answers, and what is shown is that it
  never stands in the way itself.

## 4. Where the code and its documents disagree

Three runs end with a counterexample of TLC:

1. `BoundActiveDenialVetoed`: the critic keeps the last state of an event id
   (`v8_symbolic_critic.py:9`), although the store preserves several.
2. `ResumeProvesEquivalence`: metadata are written before the old predictions are
   removed (`pipeline.py:183`, `394`).
3. `NoDenialDiscarded`: a denial without slot or candidate id is dropped and the
   reply used (`v8_shallow_memory.py:239`); a comment says that a malformed denial is
   never discarded.

Further formulas are stated in the modules next to a comment that quotes the
document, and no run checks them because the code does otherwise:

- `OnlyCompleteAdvances` (`EventIngestion`): `accept_events` appends and saves a
  delta whose governance record was rejected, and its turns count as processed
  (`govmem_v8_late_governance.py:551`); a comment says that malformed deltas never
  advance the cache (`v8_claim_reasoner.py:402`).
- `CallsAreMetered` (`EventIngestion`): after a contract gap the report counts one
  call too many (line 607), and a rejected prefill call is counted nowhere (446).
- `GraphIsAuxiliary` (`SlotGraph`): a field of an unexpected type raises out of the
  auxiliary channel (`governed_slot_graph.py:606`).
- `MatchedHistoryIsWhole` (`EntityLists`): "permission and lifecycle history is
  always kept for a matched entity" (`governed_slot_graph.py:329`). The filter is per
  relation, so an entity that is matched by the resource of a permission loses its
  lifecycle relations, which name nothing: the deletion is missing.
- `MetricsMatchPredictions` (`RunFiles`): a fresh run does not remove
  `case_results.jsonl`, and a resume computes its metrics from another run's results.

Also seen while modelling:

- `InterruptedRunResumes` is checked with whole writes. With `TornWrites = TRUE` it
  does not hold: `append_jsonl` (`utils/io.py:52`) can leave an empty file, a part of
  a line, or a line without its end to which the next append is glued, and every
  resume then refuses the file, a part of a line left by an append that raises
  (a full disk) included. `ResumeCompletes` is checked with cut writes and
  names exactly that, a cut `run_metadata.json` and cut case results as the only
  obstacles.
- An event id used again for another resource is stored and then refused at binding;
  no later reply can mend it (`CheckpointsGetThrough` names this case).
- A nested denial without candidate id and excerpt raises a `KeyError` out of
  `expand_kept_candidates`, no contract error, so it is not repaired (`Crash`).
- Extraction: entries of a record array that are no objects are skipped without a
  rejection; an unknown fact lifecycle such as "deleted" becomes "unknown", and the
  fact counts as current; joint extraction has no deletion backstop; an entity named
  in the context only lends its id without being stored (`lent`).
- Repeated event ids make `shallow_lifecycle_view` use the last activation of an id.
- The permissions of a slot-graph record that names nobody are filed under
  `entity::entity record ...`, its other changes under `entity::record::...`
  (`governed_slot_graph.py:675`): one record, two lists. And a change list is in the
  order of the records of a reply, not of the turns, whereas `permission_history`
  promises source order.

## 5. Proofs

TLAPS checks the following for every value of the constants that satisfies the
assumptions named in the modules (`ASSUME`, one per module that declares constants).
These are the types and ranges the code enforces (`max(1, ...)`, a repair limit
clipped to 0..1, a key pool without duplicates), distinctness of the values that
stand for "nothing" from real ones, finitely many names (those of the texts), and one
thing that the code does not check:
`llm.max_retries` is at least 1, since with 0 no request is ever sent. Nothing is
assumed of the replies of the model but their form, and nothing of their number.
TLC evaluates all of the assumptions. Two theorems have a hypothesis of their own; it
is named with them below.

The theorems state the safety properties of all passing runs. Each of them rests on
an inductive invariant that says more than the property; TLC checked these
invariants on the instances of section 3 before they were proved.

- **`EventIngestionProofs`.** Type correctness, the six safety properties of the run,
  `DurableIsRemembered` (memory extends the file) and `GapFreezesStore` (after a gap
  the store does not move), which only the proof covers, and that it implements
  `TurnLedger`. The properties alone are not inductive: that a stored turn is new, or
  that a save loses nothing, depends on what the run is about to offer and on where it
  stands. `IInv` adds `Coverage` (what is pending or offered is exactly what of the
  prefix memory lacks, per `pc`), `Standing` (a finished run is idle, a dead process
  has no store) and `Costs` (the counters as a function of `pc`). A batch is used only
  through one lemma: with a turn it holds every earlier pending turn. That is why the
  watermark has no hole whatever the sizes are. The refinement follows from the
  invariant in both states and from the few steps that write the file.
- **`ExtractionProofs`.** `RestrictionsAccountedFor`, `ContextCreatesNothing`,
  `ReferencesResolve`, `DeletionsAreRemembered`, for any replies, turns, rosters and
  context windows. The invariant follows the passes: a record of a kind that has been
  read is accepted or rejected (`RecordsAreSettled`), what is accepted is about a new
  turn (`BatchIsNew`), what counts as known is of the roster, stored, or about to be
  (`KnownResolves`), and the turns offered come right after the processed ones
  (`TurnsInOrder`): none of them is offered again.
- **`StateProjectorProofs`.** About the permission loop: for stores of any length, any
  clock and any prefix, it computes the closed form, and the last whole-resource
  change wins. The invariant adds `InOrder`: everything folded is before everything
  still to be folded. The key lemma is that the order of the rows is a strict total
  order although several events may cite the same turn. About the whole projection:
  `CurrentFactIsLatest`, `ScenesHoldTheVisibleRows` and `FoldedStaysRestated`, from
  the same argument pass by pass (`PassInOrder`, `IsMerged`); and that it runs exactly
  that permission loop (`LoopIsLoop`), so that the first part holds of it.
  `ExpiryIsFinal` needs the hypothesis `TurnsAreChronological`: of two turns with a
  comparable time the later one is not the earlier one. The code does not check it,
  and without it the property is false: ends are compared with the time of the turn.
- **`StageTwoProofs`.** `DenialsSurvive` and `BoundDenialsEnforced`, for any replies,
  deltas, candidates and requesters, and any order of refusals, repairs and retries.
  The ledger is a function of the reply at each stage (`LedgerFollowsReply`); what
  deduplication leaves is a claim of the reply in one of its sources (`KeptAreClaims`);
  a denial is there, or one with its signature (`DenialsAreKept`). That deduplication
  keeps one claim of each signature, and that a delta is appended whole and in its
  place, are lemmas about finite ledgers of any size.
- **`ClaimReviewProofs`.** The first half is about the range arithmetic of `SpanMask`,
  for texts and ranges of any number: sorting keeps the ranges and orders them,
  merging covers the same offsets with separate ranges, and cutting them from the
  right removes exactly these offsets and puts in one marker for each. The second half
  is the invariant of the review: evidence and blocked entries are what the claims
  handled so far make of them (`BoundaryFollowsLedger`). Then `NoDeniedTextReleased`
  and `OnlyDeniedTextMasked` are facts about texts, `BoundVetoEnforced` one about the
  dictionary of the critic, and `ActionIsHonest` one about the two counts.
- **`SlotGraphProofs`.** Type correctness, `NoForeignHistory`, `ProcessedWasExtracted`
  and `CacheIsConsistent` (failed and abandoned builds leave nothing in the cached
  graph), with
  `BuildIsGrounded`: what a build keeps is visible, unchanged and extracted, its
  graph is about visible texts only, and unless a batch failed everything that is
  neither kept nor waiting has been extracted. The index with its change lists is a
  run of `SlotGraph` (`ListsAreGraph`), so these hold of it too.
  `RestrictionsStayReported`, for any replies: a build adds to the findings what its
  records report, and the cached graph and the one under construction always report
  what the records of their history told. And `NamedHistoryIsWhole`, from
  `HistoryInv`: the transitions of every change list, cached or under construction, are
  those its records tell. A relation that is dropped because it restates the last one
  of its list is no transition (`ChangeTurns`), so neither is one dropped in a list,
  a record or a build of any length (`ChangesTurns`, `RecordHistory`,
  `BuildHistory`); what is picked of a list has its transitions if all governing
  relations are picked (`PickedTurns`), and of a named entity all are
  (`GoverningSelected`). That a list which matches is left out only for `TopK` others
  needs that the lists are finitely many: `Names` is finite.
- **`LLMClientProofs`.** `RequestsAreMetered`, from the invariant that requests are
  recorded calls plus recorded retries plus the attempts of the call that is running;
  `PaidOncePerFailure`, from the invariant that what is paid for is on disk, in the
  batch in hand or in one of the batches lost (`PaidInv`), since the texts of a batch
  are distinct and none of them was on disk; `RetriesRotate`, for any pool and any
  place of the primary key in it: d retries after a key the request is d places on in
  the pool, for fewer retries than keys; `EmbeddingsInOrder`, from the invariant of
  the batches (everything before the running batch is saved, the rows of a reply are
  those of the batch) and from the fact that every text without a vector is among
  those asked for.
- **`RunnerProofs`.** `OneRowPerCheckpoint`, `OnlyCompleteIsScored`,
  `EveryCallBilledOnce` and `CasesCountedOnce`, for any number of processes,
  checkpoints, kills and resumes. The invariant rests on the lock: only its holder is
  not down (`LockIsHeld`), so what it has found out about the files stays true until
  it writes (`ProcessIsSound`: nothing that is still to be done has a line, and every
  line is of its request), and its account balances (`AccountIsExact`). `RunFiles`
  implements `Runner` (`RunIsRun`). `InterruptedRunResumes` has the hypothesis that no
  write leaves a part (`~TornWrites`); section 4 says what happens otherwise.

Several of these proofs are about what a fold over a sequence computes. The library's
induction theorems take an operator as parameter and cannot be used, so each such
lemma says that there is no least prefix on which the fold is wrong; that the recursion
behind a fold has a solution is shown in the same way (in `SlotGraphProofs` once for the
four folds of the change lists, `IterationExists`).

Only model-checked:

- the liveness properties (`RunTerminates`, `CatchUp`, `CallEnds`,
  `CheckpointsGetThrough`, `ResumeCompletes`): liveness under fairness and `ENABLED`
  are beyond the prover;
- the three counterexamples.

## 6. How to read the abstraction

Control is kept: each early return, exception path and order of side effects that
changes state is an action or a conjunct. Data are reduced to what the properties
distinguish: a turn is its position and size, a model reply one of the cases the
code tells apart, a resource/action/scene triple one target, a text its offsets or
a version. Model calls are nondeterministic: they may return anything the code
would accept and anything it would reject.

## 7. Plan

Modelled and checked: everything in section 2; proved: section 5. Left, in this order:

1. Composition of runner and ingestion: a fresh run of another identity meets an
   event cache it did not write (the one hazard without a property).
2. The line protocol and the full memory mode of Stage 2.

## 8. Not modelled

- *Text.* Matching of quotations, the line protocol (`v8_line_protocol.py`, but for the
  binding of claims to events), `json_parser.py`, prompts and wording: string
  processing without state. Their outcomes are nondeterministic choices of the
  models.
- *Retrieval.* The dense index and its ranking: numeric similarity.
- *Evaluation.* Local and official scoring, dataset adapters, configuration, storage
  checks, logging, command line: pure I/O.
- *Historical code.* `docs/CODE_INDEX.md` keeps the other backbones, `legacy/`, the
  planning, policy and reasoning helpers for compatibility; the published
  configuration does not run them. They are most of the repository's lines (some
  45,000 of 70,000), and what they compute is decided by lexical heuristics over
  texts, lists of markers and patterns, with hardly any state: a model would either
  be a transliteration or leave out all that decides. Experience and skills are
  switched off by the configuration.
- *Smaller omissions.* `ExpiryIsFinal` does not tell `>=` from `>` at the exact end of
  a permission. `CasesCountedOnce` is about how often a case is counted, not about
  whose result it is (`MetricsMatchPredictions`, section 4). The outcome `scored` is
  also reached if the official scorer failed: that error is only logged. A
  `Retry-After` header is slept for without a cap (`client.py:149`), taken as finite;
  `time.sleep` raising on an infinite one is not modelled.
- Per component, `PROJECT.json` names what is left out.
