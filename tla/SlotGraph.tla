------------------------------- MODULE SlotGraph -------------------------------
(***************************************************************************)
(* The cached slot graph of one conversation: V8SlotGraphIndex.retrieve, the *)
(* batched extraction of build_memory_governed_slot_graph it wraps into a    *)
(* transaction, and the audit and evidence it hands to the backbone.         *)
(*                                                                          *)
(* Data abstracted: a chunk is its position and the version of its text, and *)
(* everything the graph derives from a chunk is the one observation          *)
(* <<chunk, text>> it is derived from.                                       *)
(***************************************************************************)
EXTENDS Integers, FiniteSets

CONSTANTS
    NumChunks,
    Versions,     \* texts a chunk can have
    BatchSize     \* memory_governed_slot_graph.batch_size

ASSUME GraphAssumption ==
    /\ NumChunks \in Nat \ {0}
    /\ BatchSize \in Nat \ {0}
    /\ Versions # {} /\ "unseen" \notin Versions

Chunks == 1..NumChunks
Observation == Chunks \X Versions
Unseen == [c \in Chunks |-> "unseen"]
Marks == [Chunks -> Versions \cup {"unseen"}]

VARIABLES
    text,        \* the conversation, as the next checkpoint will find it
    cache,       \* self.cache: the graph and the texts it has processed
    pc,          \* "idle", or where retrieve stands
    visible,     \* number of chunks the checkpoint can see
    previous,    \* the processed texts that were kept
    graph,       \* the graph under construction, a deep copy
    todo,        \* new chunks not sent yet
    records,     \* chunks the replies hold records about
    errors,      \* a batch failed
    audit,       \* what the last retrieve handed over
    extracted    \* observations this process has sent in a batch that did not fail

build == <<visible, previous, graph, todo, records, errors>>
vars == <<text, cache, pc, build, audit, extracted>>

Empty == [graph |-> {}, processed |-> Unseen]
NoAudit == [status |-> "none", graph |-> {}, evidence |-> {}]

Init ==
    /\ text \in [Chunks -> Versions]
    /\ cache = Empty
    /\ pc = "idle"
    /\ visible = 0 /\ previous = Unseen /\ graph = {} /\ todo = {} /\ records = {}
    /\ errors = FALSE
    /\ audit = NoAudit
    /\ extracted = {}

\* Another version of the conversation is evaluated under the same id.
Edit(c, version) ==
    /\ pc = "idle"
    /\ text' = [text EXCEPT ![c] = version]
    /\ audit' = NoAudit
    /\ UNCHANGED <<cache, pc, build, extracted>>

\* The cache is memory of the process.
Restart ==
    /\ cache' = Empty
    /\ pc' = "idle"
    /\ audit' = NoAudit
    /\ extracted' = {}
    /\ UNCHANGED <<text, build>>

\* Variant: the ids are compared, the texts are not.
Reset_ByIdOnly(k) == \E c \in Chunks : cache.processed[c] # "unseen" /\ c > k

\* A processed chunk is not visible any more, or not with the same text.
Reset(k) ==
    \E c \in Chunks : cache.processed[c] # "unseen" /\ (c > k \/ text[c] # cache.processed[c])

Retrieve(k) ==
    /\ pc = "idle"
    /\ LET kept == IF Reset(k) THEN Empty ELSE cache IN
       /\ previous' = kept.processed
       /\ graph' = kept.graph
       /\ todo' = {c \in 1..k : kept.processed[c] = "unseen"}
    /\ visible' = k
    /\ records' = {} /\ errors' = FALSE
    /\ audit' = NoAudit
    /\ pc' = "extract"
    /\ UNCHANGED <<text, cache, extracted>>

New == {c \in 1..visible : previous[c] = "unseen"}
Batch == {c \in todo : Cardinality({d \in todo : d <= c}) <= BatchSize}
Observed(S) == {<<c, text[c]>> : c \in S}

SendBatch ==
    /\ pc = "extract"
    /\ todo # {}
    /\ todo' = todo \ Batch

\* A record may cite any new chunk, in this batch or not; others are dropped.
BatchExtracted(cited) ==
    /\ SendBatch
    /\ cited \subseteq New
    /\ records' = records \cup cited
    /\ extracted' = extracted \cup Observed(Batch)
    /\ UNCHANGED <<text, cache, pc, visible, previous, graph, errors, audit>>

\* chat_json raises, or returns something without a list of records.
BatchFailed ==
    /\ SendBatch
    /\ errors' = TRUE
    /\ UNCHANGED <<text, cache, pc, visible, previous, graph, records, audit, extracted>>

\* Variant: the build works on the cached graph itself.
BuildGraph_InPlace ==
    /\ pc = "extract"
    /\ todo = {}
    /\ graph' = graph \cup Observed(records)
    /\ cache' = [cache EXCEPT !.graph = graph \cup Observed(records)]
    /\ pc' = "deliver"
    /\ UNCHANGED <<text, visible, previous, todo, records, errors, audit, extracted>>

\* If every batch failed there are no records, and the graph stays as it was.
BuildGraph ==
    /\ pc = "extract"
    /\ todo = {}
    /\ graph' = graph \cup Observed(records)
    /\ pc' = "deliver"
    /\ UNCHANGED <<text, cache, visible, previous, todo, records, errors, audit,
                   extracted>>

\* A record of a reply has a field of an unexpected type (a confidence that is
\* not a number, slots that are no list): the exception leaves retrieve.
BuildRaises ==
    /\ pc = "extract"
    /\ todo = {}
    /\ records # {}
    /\ audit' = [NoAudit EXCEPT !.status = "raised"]
    /\ pc' = "idle"
    /\ UNCHANGED <<text, cache, build, extracted>>

Hand(status, evidence) ==
    audit' = [status |-> status, graph |-> graph, evidence |-> evidence]

\* The evidence is fetched by id from the visible chunks.
Commit_Always(evidence) ==
    /\ pc = "deliver"
    /\ evidence \subseteq {o[1] : o \in graph}
    /\ cache' = [graph |-> graph,
                 processed |-> [c \in Chunks |-> IF c <= visible THEN text[c] ELSE "unseen"]]
    /\ Hand("complete", evidence)
    /\ pc' = "idle"
    /\ UNCHANGED <<text, build, extracted>>

\* The graph and the whole visible prefix are committed together.
Commit(evidence) ==
    /\ pc = "deliver"
    /\ ~errors
    /\ evidence \subseteq {o[1] : o \in graph}
    /\ cache' = [graph |-> graph,
                 processed |-> [c \in Chunks |-> IF c <= visible THEN text[c] ELSE "unseen"]]
    /\ Hand("complete", evidence)
    /\ pc' = "idle"
    /\ UNCHANGED <<text, build, extracted>>

\* parse_failure or batch_failures: dense retrieval only, nothing is committed.
Fallback ==
    /\ pc = "deliver"
    /\ errors
    /\ Hand("insufficient_evidence", {})
    /\ pc' = "idle"
    /\ UNCHANGED <<text, cache, build, extracted>>

Step ==
    \/ \E cited \in SUBSET Chunks : BatchExtracted(cited)
    \/ BatchFailed \/ BuildGraph \/ BuildRaises
    \/ \E evidence \in SUBSET Chunks : Commit(evidence)
    \/ Fallback

Next ==
    \/ \E c \in Chunks, version \in Versions : Edit(c, version)
    \/ \E k \in Chunks : Retrieve(k)
    \/ Step
    \/ Restart

Spec == Init /\ [][Next]_vars

-------------------------------------------------------------------------------
(* Properties *)

TypeOK ==
    /\ text \in [Chunks -> Versions]
    /\ cache.graph \subseteq Observation /\ cache.processed \in Marks
    /\ pc \in {"idle", "extract", "deliver"}
    /\ visible \in 0..NumChunks
    /\ previous \in Marks
    /\ graph \subseteq Observation
    /\ todo \subseteq New
    /\ records \subseteq New
    /\ errors \in BOOLEAN
    /\ audit.status \in {"none", "complete", "insufficient_evidence", "raised"}
    /\ audit.graph \subseteq Observation /\ audit.evidence \subseteq Chunks
    /\ extracted \subseteq Observation

\* "a changed/shorter prefix must not inherit slots extracted from a different or
\* future history": whatever the checkpoint is told, by the graph, by its audit
\* (also that of a failed build) or by evidence, is about its own visible texts.
NoForeignHistory ==
    /\ \A o \in audit.graph : o[1] <= visible /\ o[2] = text[o[1]]
    /\ \A c \in audit.evidence : <<c, text[c]>> \in audit.graph

\* A chunk marked as processed is never sent again; so it was in a batch that
\* did not fail, with the text it is marked with.
ProcessedWasExtracted ==
    \A c \in Chunks : cache.processed[c] # "unseen" => <<c, cache.processed[c]>> \in extracted

\* The cached graph holds observations of the cached texts only: the pair is
\* committed together, and a failed or abandoned build leaves no part of it.
CacheIsConsistent ==
    \A o \in cache.graph : cache.processed[o[1]] = o[2]

\* "If its provider response is malformed [...] dense retrieval and symbolic
\* governance can still complete the checkpoint."
GraphIsAuxiliary == audit.status # "raised"
================================================================================
