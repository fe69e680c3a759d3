------------------------------- MODULE LLMClient -------------------------------
(***************************************************************************)
(* The HTTP client all model calls go through (llm/client.py): the retry     *)
(* loop of _post_json with its key rotation and its telemetry, the parse     *)
(* loop of chat_json around it, chat_text, and embed_texts with its batches  *)
(* and the embedding cache on disk.                                          *)
(*                                                                          *)
(* Data abstracted: a reply is one of the cases the code distinguishes, the  *)
(* embedding of a text is the text itself, and delays are left out.          *)
(***************************************************************************)
EXTENDS Integers, FiniteSets, SequencesExt

CONSTANTS
    Primary,        \* the key in the environment variable of the provider
    Pool,           \* the key pool, a sequence without duplicates
    MaxRetries,     \* llm.max_retries
    JsonAttempts,   \* llm.json_max_attempts, 0 for None
    Texts,          \* texts that can be embedded
    EmbedRequests,  \* the lists of texts embed_texts is called with
    BatchSize,      \* EMBEDDING_BATCH_SIZE
    MaxUse,         \* bound: no call begins after so many requests and cache hits
    MaxBroken       \* bound: no embed_texts begins after so many that were broken off

ASSUME ClientAssumption ==
    /\ Pool \in Seq(STRING) /\ Primary \in STRING
    /\ \A m, n \in 1..Len(Pool) : Pool[m] = Pool[n] => m = n
    /\ MaxRetries \in Nat \ {0}
    /\ JsonAttempts \in Nat
    /\ EmbedRequests \subseteq Seq(Texts)
    /\ "none" \notin Texts
    /\ BatchSize \in Nat \ {0}
    /\ MaxUse \in Nat /\ MaxBroken \in Nat

Chat == "chat/completions"
Embeddings == "embeddings"
ParseFailure == "chat_json_parse_failure"
Hit == "embedding_cache_hit"
Miss == "embedding_cache_miss"
Operations == {Chat, Embeddings, ParseFailure, Hit, Miss}

VARIABLES
    pc,         \* "idle", or where the running call stands
    kind,       \* chat_json, chat_text or embed_texts
    attempt,    \* attempt of _post_json, from 1
    key,        \* current_key
    round,      \* attempt of chat_json, from 1
    texts,      \* the argument of embed_texts
    ordered,    \* ordered_embeddings
    unique,     \* unique_texts
    start,      \* first text of the batch, from 1
    rows,       \* rows of the reply not saved yet: <<text, vector>>
    fresh,      \* fresh_map
    cache,      \* the embedding files, by text: "none" is no file or one that does not parse
    telemetry,  \* the counters, by operation
    posts,      \* requests really sent by this process, by operation
    sent,       \* keys of the requests of the present _post_json
    outcome,    \* how the last call ended
    paid,       \* history: texts in the embedding requests that were answered
    broken      \* history: calls of embed_texts broken off between a reply and its last file

embedding == <<texts, ordered, unique, start, rows, fresh>>
meters == <<telemetry, posts>>
history == <<paid, broken>>
vars == <<pc, kind, attempt, key, round, embedding, cache, meters, sent, outcome, history>>

Kinds == {"json", "text", "embed"}
Endpoint == IF kind = "embed" THEN Embeddings ELSE Chat

Init ==
    /\ pc = "idle" /\ kind = "json" /\ outcome = "none"
    /\ attempt = 1 /\ key = Primary /\ round = 1 /\ sent = <<>>
    /\ texts = <<>> /\ ordered = <<>> /\ unique = <<>> /\ start = 1 /\ rows = <<>>
    /\ fresh = [t \in Texts |-> "none"]
    /\ cache = [t \in Texts |-> "none"]
    /\ telemetry = [o \in Operations |-> [calls |-> 0, failures |-> 0, retries |-> 0]]
    /\ posts = [o \in Operations |-> 0]
    /\ paid = 0 /\ broken = 0

\* _record_telemetry
Recorded(o, times, failed, retries) ==
    [telemetry EXCEPT ![o] = [calls |-> @.calls + times, failures |-> @.failures + failed,
                              retries |-> @.retries + retries]]

Finish(result) == pc' = "idle" /\ outcome' = result

-------------------------------------------------------------------------------
(* _post_json *)

\* Each _post_json starts with the key of the environment.
BeginPost ==
    /\ pc' = "post"
    /\ attempt' = 1
    /\ key' = Primary
    /\ sent' = <<>>

\* Variant: the pool index is not advanced.
RetryKey_SameIndex(current) ==
    IF \E n \in 1..Len(Pool) : Pool[n] = current THEN current ELSE Pool[1]

\* The next key of the pool; a key outside the pool is followed by the first.
RetryKey(current) ==
    IF Len(Pool) < 2 THEN current
    ELSE IF \E n \in 1..Len(Pool) : Pool[n] = current /\ n < Len(Pool)
         THEN Pool[(CHOOSE n \in 1..Len(Pool) : Pool[n] = current) + 1]
         ELSE Pool[1]

\* The texts of one embedding request.
BatchEnd == IF start + BatchSize - 1 < Len(unique) THEN start + BatchSize - 1 ELSE Len(unique)
Batch == SubSeq(unique, start, BatchEnd)

Send ==
    /\ pc = "post"
    /\ posts' = [posts EXCEPT ![Endpoint] = @ + 1]
    /\ sent' = Append(sent, key)

PostReturns ==
    /\ Send
    /\ telemetry' = Recorded(Endpoint, 1, 0, attempt - 1)
    /\ pc' = "reply"
    /\ paid' = IF kind = "embed" THEN paid + Len(Batch) ELSE paid
    /\ UNCHANGED <<kind, attempt, key, round, embedding, cache, outcome, broken>>

\* A reply that is not an object, an HTTP error that is not retried, or any
\* transport error at the last attempt.
PostRaises ==
    /\ Send
    /\ telemetry' = Recorded(Endpoint, 1, 1, attempt - 1)
    /\ Finish("raised")
    /\ UNCHANGED <<kind, attempt, key, round, embedding, cache, history>>

\* A timeout, a connection error, a body that is not JSON, or HTTP 408, 409,
\* 425, 429, 500, 502, 503, 504.
PostRetried ==
    /\ Send
    /\ attempt < MaxRetries
    /\ attempt' = attempt + 1
    /\ key' = RetryKey(key)
    /\ UNCHANGED <<pc, kind, round, embedding, cache, telemetry, outcome, history>>

-------------------------------------------------------------------------------
(* chat_text and chat_json *)

Idle == pc = "idle" /\ posts[Chat] + posts[Embeddings] + telemetry[Hit].calls < MaxUse

ChatCall(k) ==
    /\ Idle
    /\ BeginPost
    /\ kind' = k
    /\ round' = 1
    /\ outcome' = "none"
    /\ UNCHANGED <<embedding, cache, meters, history>>

\* The content is a text or parses; or it is missing, empty or truncated.
ChatReturns(result) ==
    /\ pc = "reply"
    /\ kind \in {"text", "json"}
    /\ Finish(result)
    /\ UNCHANGED <<kind, attempt, key, round, embedding, cache, meters, sent, history>>

Rounds == IF JsonAttempts = 0 THEN MaxRetries ELSE JsonAttempts

Unparsed ==
    /\ pc = "reply"
    /\ kind = "json"
    /\ telemetry' = Recorded(ParseFailure, 1, 1, 0)
    /\ UNCHANGED <<kind, embedding, cache, posts, history>>

\* Variant: the parse failure is recorded on the endpoint.
ParseFails_OnEndpoint ==
    /\ pc = "reply"
    /\ kind = "json"
    /\ telemetry' = Recorded(Chat, 1, 1, 0)
    /\ UNCHANGED <<kind, embedding, cache, posts, history>>
    /\ round >= Rounds
    /\ Finish("raised")
    /\ UNCHANGED <<attempt, key, round, sent>>

ParseFails ==
    /\ Unparsed
    /\ round >= Rounds
    /\ Finish("raised")
    /\ UNCHANGED <<attempt, key, round, sent>>

AskedAgain ==
    /\ Unparsed
    /\ round < Rounds
    /\ BeginPost
    /\ round' = round + 1
    /\ UNCHANGED outcome

-------------------------------------------------------------------------------
(* embed_texts *)

\* The texts without a cached vector, each once, in the order they are met.
Wanted(list, text) ==
    IF cache[text] # "none" \/ text \in ToSet(list) THEN list ELSE Append(list, text)

Missing(asked) == FoldLeft(Wanted, <<>>, asked)

Metered(asked) ==
    LET hits == Cardinality({n \in 1..Len(asked) : cache[asked[n]] # "none"}) IN
    [telemetry EXCEPT ![Hit].calls = @ + hits, ![Miss].calls = @ + Len(asked) - hits]

EmbedCall(asked) ==
    /\ Idle
    /\ broken < MaxBroken
    /\ kind' = "embed"
    /\ texts' = asked
    /\ ordered' = [n \in 1..Len(asked) |-> cache[asked[n]]]
    /\ unique' = Missing(asked)
    /\ start' = 1
    /\ rows' = <<>>
    /\ fresh' = [t \in Texts |-> "none"]
    /\ telemetry' = Metered(asked)
    /\ UNCHANGED <<round, cache, posts, history>>
    /\ IF Missing(asked) = <<>>
       THEN Finish("ok") /\ UNCHANGED <<attempt, key, sent>>
       ELSE BeginPost /\ outcome' = "none"

\* Variant: the rows are paired with the texts from the first one on.
Zipped_FromTheFirst == [n \in 1..Len(Batch) |-> <<unique[n], Batch[n]>>]

Zipped == [n \in 1..Len(Batch) |-> <<Batch[n], Batch[n]>>]

EmbedReturns ==
    /\ pc = "reply"
    /\ kind = "embed"
    /\ rows' = Zipped
    /\ pc' = "accept"
    /\ UNCHANGED <<kind, attempt, key, round, texts, ordered, unique, start, fresh, cache,
                   meters, sent, outcome, history>>

\* The number of rows is wrong, or the next row has no vector.
EmbedRaises ==
    /\ (pc = "reply" /\ kind = "embed") \/ (pc = "accept" /\ rows # <<>>)
    /\ Finish("raised")
    /\ broken' = broken + 1
    /\ UNCHANGED <<kind, attempt, key, round, embedding, cache, meters, sent, paid>>

\* fresh_map has the vector before the file has it.
AcceptRow ==
    /\ pc = "accept"
    /\ rows # <<>>
    /\ fresh' = [fresh EXCEPT ![Head(rows)[1]] = Head(rows)[2]]
    /\ pc' = "write"
    /\ UNCHANGED <<kind, attempt, key, round, texts, ordered, unique, start, rows, cache,
                   meters, sent, outcome, history>>

WriteRow ==
    /\ pc = "write"
    /\ cache' = [cache EXCEPT ![Head(rows)[1]] = Head(rows)[2]]
    /\ rows' = Tail(rows)
    /\ pc' = "accept"
    /\ UNCHANGED <<kind, attempt, key, round, texts, ordered, unique, start, fresh,
                   meters, sent, outcome, history>>

\* A write that is not finished has not touched the file, or has cut it short.
CutShort == cache' \in {cache, [cache EXCEPT ![Head(rows)[1]] = "none"]}

WriteRaises ==
    /\ pc = "write"
    /\ CutShort
    /\ Finish("raised")
    /\ broken' = broken + 1
    /\ UNCHANGED <<kind, attempt, key, round, embedding, meters, sent, paid>>

\* Variant: the next batch begins with the last text of this one.
NextBatch_Overlapping ==
    /\ pc = "accept"
    /\ rows = <<>>
    /\ BatchEnd < Len(unique)
    /\ start' = BatchEnd
    /\ BeginPost
    /\ UNCHANGED <<kind, round, texts, ordered, unique, rows, fresh, cache, meters, outcome,
                   history>>

NextBatch ==
    /\ pc = "accept"
    /\ rows = <<>>
    /\ BatchEnd < Len(unique)
    /\ start' = BatchEnd + 1
    /\ BeginPost
    /\ UNCHANGED <<kind, round, texts, ordered, unique, rows, fresh, cache, meters, outcome,
                   history>>

\* Variant: a last batch that is not full never ends the call.
EmbedDone_FullBatch ==
    /\ pc = "accept"
    /\ rows = <<>>
    /\ BatchEnd = Len(unique)
    /\ Len(Batch) = BatchSize
    /\ ordered' = [n \in 1..Len(texts) |->
                     IF ordered[n] = "none" THEN fresh[texts[n]] ELSE ordered[n]]
    /\ Finish("ok")
    /\ UNCHANGED <<kind, attempt, key, round, texts, unique, start, rows, fresh, cache, meters,
                   sent, history>>

EmbedDone ==
    /\ pc = "accept"
    /\ rows = <<>>
    /\ BatchEnd = Len(unique)
    /\ ordered' = [n \in 1..Len(texts) |->
                     IF ordered[n] = "none" THEN fresh[texts[n]] ELSE ordered[n]]
    /\ Finish("ok")
    /\ UNCHANGED <<kind, attempt, key, round, texts, unique, start, rows, fresh, cache, meters,
                   sent, history>>

-------------------------------------------------------------------------------
\* A call that has a reply and not yet all its files.
Unsaved == kind = "embed" /\ (pc \in {"reply", "write"} \/ (pc = "accept" /\ rows # <<>>))

\* The process dies and another one starts.  The cache files stay.
Restart ==
    /\ IF pc = "write" THEN CutShort ELSE UNCHANGED cache
    /\ broken' = IF Unsaved THEN broken + 1 ELSE broken
    /\ pc' = "idle" /\ kind' = "json" /\ outcome' = "none"
    /\ attempt' = 1 /\ key' = Primary /\ round' = 1 /\ sent' = <<>>
    /\ texts' = <<>> /\ ordered' = <<>> /\ unique' = <<>> /\ start' = 1 /\ rows' = <<>>
    /\ fresh' = [t \in Texts |-> "none"]
    /\ telemetry' = [o \in Operations |-> [calls |-> 0, failures |-> 0, retries |-> 0]]
    /\ posts' = [o \in Operations |-> 0]
    /\ UNCHANGED paid

CallStep ==
    \/ PostReturns \/ PostRaises \/ PostRetried
    \/ \E result \in {"ok", "raised"} : ChatReturns(result)
    \/ ParseFails \/ AskedAgain
    \/ EmbedReturns \/ EmbedRaises \/ AcceptRow \/ WriteRow \/ WriteRaises
    \/ NextBatch \/ EmbedDone

Next ==
    \/ \E k \in {"json", "text"} : ChatCall(k)
    \/ \E asked \in EmbedRequests : EmbedCall(asked)
    \/ CallStep
    \/ Restart

Spec == Init /\ [][Next]_vars

\* Every attempt ends: request_timeout bounds it, and nothing else blocks.
FairSpec == Spec /\ WF_vars(CallStep)

-------------------------------------------------------------------------------
(* Properties *)

Outcomes == {"none", "ok", "raised"}
Vectors == Texts \cup {"none"}
Keys == {Primary} \cup {Pool[n] : n \in 1..Len(Pool)}
Counters == [calls : Nat, failures : Nat, retries : Nat]

TypeOK ==
    /\ pc \in {"idle", "post", "reply", "accept", "write"}
    /\ kind \in Kinds
    /\ attempt \in 1..MaxRetries
    /\ key \in Keys
    /\ round \in 1..Rounds
    /\ texts \in Seq(Texts) /\ unique \in Seq(Texts)
    /\ ordered \in Seq(Vectors) /\ Len(ordered) = Len(texts)
    /\ start \in Nat \ {0} /\ (pc # "idle" /\ kind = "embed" => start <= Len(unique))
    /\ rows \in Seq(Texts \X Texts)
    /\ fresh \in [Texts -> Vectors] /\ cache \in [Texts -> Vectors]
    /\ telemetry \in [Operations -> Counters]
    /\ posts \in [Operations -> Nat]
    /\ sent \in Seq(Keys)
    /\ outcome \in Outcomes
    /\ paid \in Nat /\ broken \in Nat

\* provider_requests = calls + retries: when no call is running, the telemetry
\* accounts for every request sent, over retries, parse failures and raised
\* errors.
RequestsAreMetered ==
    pc = "idle" => \A o \in {Chat, Embeddings} :
                       posts[o] = telemetry[o].calls + telemetry[o].retries

\* "Rotate only retry traffic": every _post_json starts with the primary key, and
\* its retries go through the whole pool before they use a key again.
RetriesRotate ==
    /\ sent # <<>> => sent[1] = Primary
    /\ Len(Pool) >= 2 =>
          \A m, n \in 1..Len(sent) :
              sent[m] = sent[n] /\ m < n => n - m >= Len(Pool)

\* embed_texts returns the vector of each text at its place, with repeated texts,
\* cached ones and several batches, and after earlier calls that failed.
EmbeddingsInOrder ==
    outcome = "ok" /\ kind = "embed" => ordered = texts

Saved == {t \in Texts : cache[t] # "none"}

\* "Bound each provider request while retaining exact per-text caching": when no
\* reply is being worked on, every text an answered request held has its file,
\* but for at most one batch for each call that was broken off by a reply with
\* too few or malformed rows, a failed write or a kill.  No text is paid for twice
\* in one call, none that has its file is paid for again, and no failure costs the
\* batches and the rows before it.
PaidOncePerFailure ==
    pc \in {"idle", "post"} => paid <= Cardinality(Saved) + BatchSize * broken

\* Every call ends, whatever the provider does.
CallEnds == pc # "idle" ~> pc = "idle"
================================================================================
