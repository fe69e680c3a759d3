---------------------------- MODULE LLMClientProofs ----------------------------
(***************************************************************************)
(* For any key pool, retry limit and requests, every request is metered,       *)
(* retries rotate through the pool, embeddings come back in order, and a        *)
(* failure costs at most one batch of vectors that are paid for again.          *)
(***************************************************************************)
EXTENDS LLMClient, FiniteSetTheorems, WellFoundedInduction, TLAPS

Metering == {Chat, Embeddings}

\* Attempts of the running _post_json that are sent and not recorded yet.
Unrecorded(o) == IF pc = "post" /\ o = Endpoint THEN attempt - 1 ELSE 0

\* What the arithmetic needs of the types: the other operations of the telemetry
\* do not matter.
MeterType ==
    /\ pc \in {"idle", "post", "reply", "accept", "write"}
    /\ attempt \in Nat \ {0}
    /\ telemetry = [o \in Operations |-> telemetry[o]]
    /\ posts = [o \in Operations |-> posts[o]]
    /\ \A o \in Metering : telemetry[o] \in Counters /\ posts[o] \in Nat

\* Requests are recorded when their _post_json ends, and counted as its retries
\* until then.
MeterInv ==
    /\ MeterType
    /\ \A o \in Metering :
          posts[o] = telemetry[o].calls + telemetry[o].retries + Unrecorded(o)

\* A new process has sent and recorded nothing.
LEMMA MeterInit == Init => MeterInv
  <1> SUFFICES ASSUME Init PROVE MeterInv
    OBVIOUS
  <1>1. MeterType
    BY DEF Init, MeterType, Metering, Operations, Counters
  <1>2. \A o \in Metering : posts[o] = telemetry[o].calls + telemetry[o].retries + Unrecorded(o)
    BY DEF Init, Metering, Operations, Unrecorded
  <1> QED BY <1>1, <1>2 DEF MeterInv

\* Sending counts the request at the endpoint of the call, and only there.
LEMMA SendCounts ==
    ASSUME MeterInv, Send
    PROVE  /\ pc = "post"
           /\ Endpoint \in Metering
           /\ posts' = [o \in Operations |-> posts'[o]]
           /\ \A o \in Metering : posts'[o] = IF o = Endpoint THEN posts[o] + 1 ELSE posts[o]
  <1>1. Endpoint \in Metering /\ Metering \subseteq Operations
    BY DEF Endpoint, Metering, Operations
  <1> QED BY <1>1 DEF Send, MeterInv, MeterType

\* Recording changes the counters of one operation.
LEMMA RecordCounts ==
    ASSUME MeterInv, NEW p \in Operations, NEW failed \in Nat, NEW retries \in Nat,
           telemetry' = Recorded(p, 1, failed, retries)
    PROVE  /\ telemetry' = [o \in Operations |-> telemetry'[o]]
           /\ \A o \in Metering :
                 telemetry'[o] = IF o = p
                                 THEN [calls |-> telemetry[o].calls + 1,
                                       failures |-> telemetry[o].failures + failed,
                                       retries |-> telemetry[o].retries + retries]
                                 ELSE telemetry[o]
  <1>1. Metering \subseteq Operations
    BY DEF Metering, Operations
  <1> QED BY <1>1 DEF Recorded, MeterInv, MeterType

\* The end of a _post_json, with a reply or an exception.
LEMMA PostEnds ==
    ASSUME MeterInv, Send, NEW failed \in {0, 1}, pc' \in {"reply", "idle"}, attempt' = attempt,
           telemetry' = Recorded(Endpoint, 1, failed, attempt - 1)
    PROVE  MeterInv'
  <1>1. attempt - 1 \in Nat /\ failed \in Nat /\ Endpoint \in Operations
    BY DEF MeterInv, MeterType, Endpoint, Operations
  <1>2. /\ telemetry' = [o \in Operations |-> telemetry'[o]]
        /\ \A o \in Metering :
              telemetry'[o] = IF o = Endpoint
                              THEN [calls |-> telemetry[o].calls + 1,
                                    failures |-> telemetry[o].failures + failed,
                                    retries |-> telemetry[o].retries + (attempt - 1)]
                              ELSE telemetry[o]
    BY <1>1, RecordCounts
  <1>3. MeterType'
    <2>1. ASSUME NEW o \in Metering PROVE telemetry'[o] \in Counters /\ posts'[o] \in Nat
      <3>1. telemetry[o] \in Counters /\ posts[o] \in Nat
        BY DEF MeterInv, MeterType
      <3>2. CASE o = Endpoint
        <4>1. telemetry'[o] = [calls |-> telemetry[o].calls + 1,
                               failures |-> telemetry[o].failures + failed,
                               retries |-> telemetry[o].retries + (attempt - 1)]
          BY <1>2, <3>2
        <4>2. posts'[o] = posts[o] + 1
          BY SendCounts, <3>2
        <4> QED BY <1>1, <3>1, <4>1, <4>2 DEF Counters
      <3>3. CASE o # Endpoint
        BY <1>2, <3>1, <3>3, SendCounts
      <3> QED BY <3>2, <3>3
    <2> QED BY <1>2, <2>1, SendCounts DEF MeterInv, MeterType
  <1>4. ASSUME NEW o \in Metering
        PROVE  posts'[o] = telemetry'[o].calls + telemetry'[o].retries + Unrecorded(o)'
    <2>1. Unrecorded(o)' = 0
      BY DEF Unrecorded
    <2>2. telemetry[o] \in Counters /\ posts[o] \in Nat
      BY DEF MeterInv, MeterType
    <2>3. posts[o] = telemetry[o].calls + telemetry[o].retries
                     + (IF o = Endpoint THEN attempt - 1 ELSE 0)
      BY SendCounts DEF MeterInv, Unrecorded
    <2>4. CASE o = Endpoint
      <3>1. /\ telemetry'[o].calls = telemetry[o].calls + 1
            /\ telemetry'[o].retries = telemetry[o].retries + (attempt - 1)
        <4>1. telemetry'[o] = [calls |-> telemetry[o].calls + 1,
                               failures |-> telemetry[o].failures + failed,
                               retries |-> telemetry[o].retries + (attempt - 1)]
          BY <1>2, <2>4
        <4> QED BY <4>1
      <3>2. posts'[o] = posts[o] + 1
        BY SendCounts, <2>4
      <3> QED BY <1>1, <2>1, <2>2, <2>3, <2>4, <3>1, <3>2 DEF Counters
    <2>5. CASE o # Endpoint
      <3>1. telemetry'[o] = telemetry[o] /\ posts'[o] = posts[o]
        BY <1>2, <2>5, SendCounts
      <3> QED BY <2>1, <2>2, <2>3, <2>5, <3>1 DEF Counters
    <2> QED BY <2>4, <2>5
  <1> QED BY <1>3, <1>4 DEF MeterInv

\* A retry is sent and waits for its record.
LEMMA RetryWaits == ASSUME MeterInv, PostRetried PROVE MeterInv'
  <1>1. Send /\ attempt' = attempt + 1 /\ UNCHANGED <<pc, kind, telemetry>>
    BY DEF PostRetried
  <1>2. MeterType'
    BY <1>1, SendCounts DEF MeterInv, MeterType
  <1>3. ASSUME NEW o \in Metering
        PROVE  posts'[o] = telemetry'[o].calls + telemetry'[o].retries + Unrecorded(o)'
    <2>1. Unrecorded(o) = (IF o = Endpoint THEN attempt - 1 ELSE 0)
      BY <1>1, SendCounts DEF Unrecorded
    <2>2. Unrecorded(o)' = (IF o = Endpoint THEN attempt ELSE 0)
      <3>1. pc' = "post" /\ Endpoint' = Endpoint
        BY <1>1, SendCounts DEF Endpoint
      <3>2. attempt' - 1 = attempt
        BY <1>1 DEF MeterInv, MeterType
      <3> QED BY <3>1, <3>2 DEF Unrecorded
    <2>3. telemetry[o] \in Counters /\ posts[o] \in Nat /\ attempt \in Nat
      BY DEF MeterInv, MeterType
    <2> QED BY <1>1, <2>1, <2>2, <2>3, SendCounts DEF MeterInv, Counters
  <1> QED BY <1>2, <1>3 DEF MeterInv

\* A step that sends nothing, and records at most what is not an endpoint, leaves
\* the meters as they are; a _post_json it begins has sent nothing yet.
LEMMA OtherSteps ==
    ASSUME MeterInv, pc # "post",
           pc' \in {"idle", "post", "reply", "accept", "write"}, pc' = "post" => attempt' = 1,
           attempt' \in {1, attempt}, posts' = posts,
           telemetry' = [o \in Operations |-> telemetry'[o]],
           \A o \in Metering : telemetry'[o] = telemetry[o]
    PROVE  MeterInv'
  <1>1. MeterType'
    BY DEF MeterInv, MeterType
  <1>2. \A o \in Metering : Unrecorded(o) = 0 /\ Unrecorded(o)' = 0
    BY DEF Unrecorded
  <1> QED BY <1>1, <1>2 DEF MeterInv

\* Every step of the specification preserves the invariant.
LEMMA MeterNext == MeterInv /\ [Next]_vars => MeterInv'
  <1> SUFFICES ASSUME MeterInv, [Next]_vars PROVE MeterInv'
    OBVIOUS
  <1>1. ASSUME NEW k \in {"json", "text"}, ChatCall(k) PROVE MeterInv'
    BY <1>1, OtherSteps DEF ChatCall, Idle, BeginPost, meters, MeterInv, MeterType
  <1>2. ASSUME NEW asked \in EmbedRequests, EmbedCall(asked) PROVE MeterInv'
    <2>1. /\ pc # "post" /\ posts' = posts /\ telemetry' = Metered(asked)
          /\ pc' \in {"idle", "post"} /\ attempt' \in {1, attempt}
          /\ pc' = "post" => attempt' = 1
      BY <1>2 DEF EmbedCall, Idle, BeginPost, Finish
    <2>2. /\ telemetry' = [o \in Operations |-> telemetry'[o]]
          /\ \A o \in Metering : telemetry'[o] = telemetry[o]
      BY <2>1 DEF Metered, MeterInv, MeterType, Metering, Operations, Chat, Embeddings, Hit, Miss
    <2> QED BY <2>1, <2>2, OtherSteps
  <1>3. CASE PostReturns
    BY <1>3, PostEnds DEF PostReturns
  <1>4. CASE PostRaises
    BY <1>4, PostEnds DEF PostRaises, Finish
  <1>5. CASE PostRetried
    BY <1>5, RetryWaits
  <1>6. ASSUME NEW result \in {"ok", "raised"}, ChatReturns(result) PROVE MeterInv'
    BY <1>6, OtherSteps DEF ChatReturns, Finish, meters, MeterInv, MeterType
  <1>7. CASE ParseFails \/ AskedAgain
    <2>1. /\ pc = "reply" /\ posts' = posts /\ telemetry' = Recorded(ParseFailure, 1, 1, 0)
          /\ pc' \in {"idle", "post"} /\ attempt' \in {1, attempt}
          /\ pc' = "post" => attempt' = 1
      BY <1>7 DEF ParseFails, AskedAgain, Unparsed, BeginPost, Finish
    <2>2. ParseFailure \in Operations /\ ParseFailure \notin Metering
      BY DEF Operations, Metering, ParseFailure, Chat, Embeddings
    <2>3. /\ telemetry' = [o \in Operations |-> telemetry'[o]]
          /\ \A o \in Metering : telemetry'[o] = telemetry[o]
      BY <2>1, <2>2, RecordCounts
    <2> QED BY <2>1, <2>3, OtherSteps
  <1>8. CASE EmbedReturns \/ EmbedRaises \/ AcceptRow \/ WriteRow \/ WriteRaises \/ NextBatch \/ EmbedDone
    <2>1. /\ pc \in {"reply", "accept", "write"} /\ UNCHANGED meters
          /\ pc' \in {"idle", "post", "accept", "write"} /\ attempt' \in {1, attempt}
          /\ pc' = "post" => attempt' = 1
      BY <1>8 DEF EmbedReturns, EmbedRaises, AcceptRow, WriteRow, WriteRaises, NextBatch, EmbedDone,
         BeginPost, Finish
    <2> QED BY <2>1, OtherSteps DEF meters, MeterInv, MeterType
  <1>9. CASE Restart
    <2>1. MeterType'
      BY <1>9 DEF Restart, MeterType, Metering, Operations, Counters
    <2>2. \A o \in Metering :
             posts'[o] = telemetry'[o].calls + telemetry'[o].retries + Unrecorded(o)'
      BY <1>9 DEF Restart, Metering, Operations, Unrecorded
    <2> QED BY <2>1, <2>2 DEF MeterInv
  <1>10. CASE UNCHANGED vars
    BY <1>10 DEF vars, meters, MeterInv, MeterType, Unrecorded, Endpoint
  <1> QED BY <1>1, <1>2, <1>3, <1>4, <1>5, <1>6, <1>7, <1>8, <1>9, <1>10 DEF Next, CallStep

\* Between two calls the telemetry accounts for every request that was sent.
THEOREM EveryRequestMetered == Spec => []RequestsAreMetered
  <1>1. MeterInv => RequestsAreMetered
    <2> SUFFICES ASSUME MeterInv, pc = "idle", NEW o \in Metering
                 PROVE  posts[o] = telemetry[o].calls + telemetry[o].retries
      BY DEF RequestsAreMetered, Metering
    <2> QED BY DEF MeterInv, MeterType, Unrecorded, Counters
  <1> QED BY <1>1, MeterInit, MeterNext, PTL DEF Spec

-------------------------------------------------------------------------------
(* Rotation of the keys *)

\* The place of a key in the pool, 0 for a key that is not in it.
Position(k) ==
    IF \E n \in 1..Len(Pool) : Pool[n] = k THEN CHOOSE n \in 1..Len(Pool) : Pool[n] = k ELSE 0

\* The place d retries later, for fewer retries than keys.
Later(p, d) == IF p + d <= Len(Pool) THEN p + d ELSE p + d - Len(Pool)

\* The keys of the running _post_json begin with the primary one and go round the
\* pool, and the next one goes on from the last.
RotationInv ==
    /\ sent \in Seq(Keys) /\ key \in Keys
    /\ sent # <<>> => sent[1] = Primary
    /\ pc = "post" => key = IF sent = <<>> THEN Primary ELSE RetryKey(sent[Len(sent)])
    /\ Len(Pool) >= 2 =>
          \A m, n \in 1..Len(sent) : m <= n /\ n - m < Len(Pool) =>
              Position(sent[n]) = Later(Position(sent[m]), n - m)

\* Each key of the pool has its own place.
LEMMA PositionFacts ==
    /\ \A k : Position(k) \in 0..Len(Pool)
    /\ \A n \in 1..Len(Pool) : Position(Pool[n]) = n
<1>1. Len(Pool) \in Nat
    BY ClientAssumption
<1>2. \A m, n \in 1..Len(Pool) : Pool[m] = Pool[n] => m = n
    BY ClientAssumption
<1>3. ASSUME NEW k
      PROVE  Position(k) \in 0..Len(Pool)
    BY <1>1 DEF Position
<1>4. ASSUME NEW n \in 1..Len(Pool)
      PROVE  Position(Pool[n]) = n
    BY <1>2 DEF Position
<1> QED
    BY <1>3, <1>4

\* A retry takes the next place, the first one after the last.
LEMMA RetryPosition ==
    ASSUME Len(Pool) >= 2, NEW k
    PROVE  /\ Position(RetryKey(k)) = IF Position(k) = Len(Pool) THEN 1 ELSE Position(k) + 1
           /\ k \in Keys => RetryKey(k) \in Keys
<1>1. Len(Pool) \in Nat /\ 1 \in 1..Len(Pool)
    BY ClientAssumption
<1>2. CASE \E n \in 1..Len(Pool) : Pool[n] = k
  <2>1. PICK n \in 1..Len(Pool) : Pool[n] = k
    BY <1>2
  <2>2. Position(k) = n
    BY <2>1, PositionFacts
  <2>3. \A m \in 1..Len(Pool) : Pool[m] = k => m = n
    BY <2>1, ClientAssumption
  <2>4. RetryKey(k) = IF n < Len(Pool) THEN Pool[n + 1] ELSE Pool[1]
    <3>1. (CHOOSE m \in 1..Len(Pool) : Pool[m] = k) = n
      BY <2>1, <2>3
    <3>2. (\E m \in 1..Len(Pool) : Pool[m] = k /\ m < Len(Pool)) <=> n < Len(Pool)
      BY <2>1, <2>3
    <3>3. ~(Len(Pool) < 2)
      BY <1>1
    <3> QED
      BY <3>1, <3>2, <3>3 DEF RetryKey
  <2>5. n < Len(Pool) => n + 1 \in 1..Len(Pool)
    BY <1>1
  <2> QED
    BY <1>1, <2>2, <2>4, <2>5, PositionFacts DEF Keys
<1>3. CASE ~\E n \in 1..Len(Pool) : Pool[n] = k
  <2>1. Position(k) = 0 /\ RetryKey(k) = Pool[1]
    BY <1>1, <1>3 DEF Position, RetryKey
  <2> QED
    BY <1>1, <2>1, PositionFacts DEF Keys
<1> QED
    BY <1>2, <1>3

\* One more request keeps the order of the keys.
LEMMA SendRotates ==
    ASSUME RotationInv, pc = "post", sent' = Append(sent, key)
    PROVE  /\ sent' \in Seq(Keys) /\ sent' # <<>> /\ sent'[1] = Primary
           /\ sent'[Len(sent')] = key
           /\ Len(Pool) >= 2 =>
                 \A m, n \in 1..Len(sent') : m <= n /\ n - m < Len(Pool) =>
                     Position(sent'[n]) = Later(Position(sent'[m]), n - m)
<1> DEFINE N == Len(sent)
           L == Len(Pool)
<1>1. sent \in Seq(Keys) /\ key \in Keys /\ N \in Nat /\ L \in Nat
    BY ClientAssumption DEF RotationInv
<1>2. /\ sent' \in Seq(Keys) /\ sent' # <<>> /\ Len(sent') = N + 1
      /\ sent'[N + 1] = key
      /\ \A i \in 1..N : sent'[i] = sent[i]
    BY <1>1
<1>3. sent'[1] = Primary
  <2>1. CASE sent = <<>>
    BY <2>1, <1>2 DEF RotationInv
  <2>2. CASE sent # <<>>
    <3>1. 1 \in 1..N
      BY <1>1, <2>2
    <3> QED
      BY <2>2, <3>1, <1>2 DEF RotationInv
  <2> QED
    BY <2>1, <2>2
<1>4. ASSUME L >= 2, NEW m \in 1..(N + 1), NEW n \in 1..(N + 1), m <= n, n - m < L
      PROVE  Position(sent'[n]) = Later(Position(sent'[m]), n - m)
  <2>1. \A i \in 1..(N + 1) : Position(sent'[i]) \in 0..L
    BY PositionFacts
  <2>2. CASE n \in 1..N
    <3>1. m \in 1..N
      BY <1>1, <1>4, <2>2
    <3> QED
      BY <1>2, <1>4, <2>2, <3>1 DEF RotationInv
  <2>3. CASE n = N + 1 /\ m = n
    BY <1>1, <2>1, <2>3 DEF Later
  <2>4. CASE n = N + 1 /\ m \in 1..N
    <3>1. N \in 1..N /\ sent # <<>>
      BY <1>1, <2>4
    <3>2. key = RetryKey(sent[N])
      BY <3>1 DEF RotationInv
    <3>3. Position(sent[N]) = Later(Position(sent[m]), N - m)
      BY <1>1, <1>4, <2>4, <3>1 DEF RotationInv
    <3>4. Position(key) = IF Position(sent[N]) = L THEN 1 ELSE Position(sent[N]) + 1
      BY <1>4, <3>2, RetryPosition
    <3>5. Position(sent[m]) \in 0..L
      BY PositionFacts
    <3>6. Position(key) = Later(Position(sent[m]), n - m)
      <4> DEFINE p == Position(sent[m])
                 q == Position(sent[N])
                 r == Position(key)
      <4> HIDE DEF p, q, r, N, L
      <4>1. p \in 0..L /\ q = (IF p + (N - m) <= L THEN p + (N - m) ELSE p + (N - m) - L)
            /\ r = IF q = L THEN 1 ELSE q + 1
        BY <3>3, <3>4, <3>5 DEF p, q, r, Later, L, N
      <4>2. r = IF p + (n - m) <= L THEN p + (n - m) ELSE p + (n - m) - L
        BY <1>1, <1>4, <2>4, <4>1
      <4> QED
        BY <4>2 DEF p, r, Later, L
    <3> QED
      BY <1>2, <2>4, <3>6
  <2> QED
    BY <1>1, <1>4, <2>2, <2>3, <2>4
<1> QED
    BY <1>1, <1>2, <1>3, <1>4

\* Every step goes on with the rotation or begins a new one.
LEMMA RotationNext == RotationInv /\ [Next]_vars => RotationInv'
<1> SUFFICES ASSUME RotationInv, [Next]_vars
             PROVE  RotationInv'
    OBVIOUS
<1>1. CASE BeginPost
    BY <1>1 DEF BeginPost, RotationInv, Keys
<1>2. CASE PostRetried
  <2>1. pc = "post" /\ pc' = "post" /\ sent' = Append(sent, key) /\ key' = RetryKey(key)
    BY <1>2 DEF PostRetried, Send
  <2>2. key \in Keys
    BY DEF RotationInv
  <2>3. key' \in Keys
    <3>1. Len(Pool) \in Nat
      BY ClientAssumption
    <3>2. CASE Len(Pool) >= 2
      BY <2>1, <2>2, <3>2, RetryPosition
    <3>3. CASE Len(Pool) < 2
      BY <2>1, <2>2, <3>3 DEF RetryKey
    <3> QED
      BY <3>1, <3>2, <3>3
  <2>4. key' = RetryKey(sent'[Len(sent')]) /\ sent' # <<>>
    BY <2>1, SendRotates
  <2> QED
    BY <2>1, <2>3, <2>4, SendRotates DEF RotationInv
<1>3. CASE PostReturns \/ PostRaises
  <2>1. pc = "post" /\ pc' # "post" /\ sent' = Append(sent, key) /\ key' = key
    BY <1>3 DEF PostReturns, PostRaises, Send, Finish
  <2> QED
    BY <2>1, SendRotates DEF RotationInv
<1>4. CASE UNCHANGED <<sent, key>> /\ (pc' = pc \/ pc' # "post")
    BY <1>4 DEF RotationInv
<1>5. CASE Restart
    BY <1>5 DEF Restart, RotationInv, Keys
<1> QED
    BY <1>1, <1>2, <1>3, <1>4, <1>5 DEF Next, CallStep, ChatCall, EmbedCall, ChatReturns,
       ParseFails, AskedAgain, Unparsed, EmbedReturns, EmbedRaises, AcceptRow, WriteRow, WriteRaises,
       NextBatch, EmbedDone, Finish, vars

\* Whatever the pool and wherever the primary key is in it, the retries of one
\* request use every key of the pool before they use one again.
THEOREM KeysRotate == Spec => []RetriesRotate
<1>1. Init => RotationInv
    BY DEF Init, RotationInv, Keys
<1>2. RotationInv => RetriesRotate
  <2> SUFFICES ASSUME RotationInv, Len(Pool) >= 2,
                      NEW m \in 1..Len(sent), NEW n \in 1..Len(sent), m < n, sent[m] = sent[n]
               PROVE  n - m >= Len(Pool)
    BY DEF RetriesRotate, RotationInv
  <2>1. Len(Pool) \in Nat /\ Position(sent[m]) \in 0..Len(Pool) /\ Len(sent) \in Nat
    BY ClientAssumption, PositionFacts DEF RotationInv
  <2>2. n - m < Len(Pool) => Position(sent[m]) = Later(Position(sent[m]), n - m)
    BY <2>1 DEF RotationInv
  <2> QED
    BY <2>1, <2>2 DEF Later
<1> QED
    BY <1>1, <1>2, RotationNext, PTL DEF Spec

-------------------------------------------------------------------------------
(* The texts to embed, a fold over the texts asked for *)

\* Every nonempty set of natural numbers has a least one.
LEMMA LeastExists ==
    ASSUME NEW S \in SUBSET Nat, S # {}
    PROVE  \E n \in S : \A m \in S : ~(m < n)
<1>1. IsWellFoundedOn(OpToRel(<, Nat), Nat)
    BY NatLessThanWellFounded
<1>2. PICK n \in S : \A m \in S : ~(<<m, n>> \in OpToRel(<, Nat))
    BY <1>1, WFMin
<1> QED
    BY <1>2 DEF OpToRel

\* Every set of positions up to n + 1 that has n + 1 in it has it as its greatest.
LEMMA MaxIsLast ==
    ASSUME NEW n \in Nat, NEW s \in SUBSET (1..(n + 1)), n + 1 \in s
    PROVE  /\ Max(s) = n + 1
           /\ s \ {n + 1} \in SUBSET (1..n)
<1>1. \A y \in s : n + 1 >= y
    OBVIOUS
<1>2. \A x \in s : (\A y \in s : x >= y) => x = n + 1
    OBVIOUS
<1>3. Max(s) = n + 1
    BY <1>1, <1>2 DEF Max
<1> QED
    BY <1>3

\* The recursion by which FoldLeft collects the texts without a vector.
IsFold(list, n, f) ==
    f = [s \in SUBSET (1..n) |->
            IF s = {} THEN <<>> ELSE Wanted(f[s \ {Max(s)}], list[Max(s)])]

\* The recursion has a solution, for a list of any length.
LEMMA FoldExists ==
    ASSUME NEW list, NEW m \in Nat
    PROVE  \E f : IsFold(list, m, f)
<1> DEFINE Bad == {n \in Nat : ~\E f : IsFold(list, n, f)}
<1> SUFFICES ASSUME m \in Bad
             PROVE  FALSE
    OBVIOUS
<1>1. PICK n \in Bad : \A j \in Bad : ~(j < n)
  <2>1. Bad \in SUBSET Nat /\ Bad # {}
    OBVIOUS
  <2> HIDE DEF Bad
  <2> QED
    BY <2>1, LeastExists
<1>2. CASE n = 0
  <2> DEFINE f == [s \in SUBSET (1..n) |-> <<>>]
  <2>1. \A s \in SUBSET (1..n) : s = {}
    BY <1>2
  <2>2. IsFold(list, n, f)
    BY <2>1 DEF IsFold
  <2> QED
    BY <1>1, <2>2
<1>3. CASE n # 0
  <2>1. PICK p \in Nat : n = p + 1
    BY <1>3
  <2>2. PICK g : IsFold(list, p, g)
    BY <1>1, <2>1
  <2> DEFINE G(s) == IF s \in SUBSET (1..p) THEN g[s]
                     ELSE Wanted(g[s \ {n}], list[n])
             f == [s \in SUBSET (1..n) |-> G(s)]
  <2>3. ASSUME NEW s \in SUBSET (1..n)
        PROVE  G(s) = IF s = {} THEN <<>> ELSE Wanted(f[s \ {Max(s)}], list[Max(s)])
    <3>1. CASE s \in SUBSET (1..p)
      <4>1. s \ {Max(s)} \in SUBSET (1..p) /\ s \ {Max(s)} \in SUBSET (1..n)
        BY <3>1, <2>1
      <4>2. f[s \ {Max(s)}] = g[s \ {Max(s)}]
        BY <4>1
      <4>3. g[s] = IF s = {} THEN <<>> ELSE Wanted(g[s \ {Max(s)}], list[Max(s)])
        BY <3>1, <2>2 DEF IsFold
      <4> QED
        BY <3>1, <4>2, <4>3
    <3>2. CASE s \notin SUBSET (1..p)
      <4>1. n \in s
        BY <3>2, <2>1
      <4>2. Max(s) = n /\ s \ {n} \in SUBSET (1..p) /\ s # {}
        BY <4>1, <2>1, MaxIsLast
      <4>3. f[s \ {n}] = g[s \ {n}]
        BY <4>2, <2>1
      <4> QED
        BY <3>2, <4>2, <4>3
    <3> QED
      BY <3>1, <3>2
  <2>4. f = [s \in SUBSET (1..n) |->
                IF s = {} THEN <<>> ELSE Wanted(f[s \ {Max(s)}], list[Max(s)])]
    BY <2>3
  <2>5. IsFold(list, n, f)
    BY <2>4 DEF IsFold
  <2> QED
    BY <1>1, <2>5
<1> QED
    BY <1>2, <1>3

\* A fold over 1..n takes the texts one after the other.
LEMMA FoldSteps ==
    ASSUME NEW list, NEW n \in Nat, NEW f, IsFold(list, n, f)
    PROVE  /\ f[1..0] = <<>>
           /\ \A k \in 1..n : f[1..k] = Wanted(f[1..(k - 1)], list[k])
<1>1. f[1..0] = <<>>
  <2>1. (1..0) \in SUBSET (1..n) /\ (1..0) = {}
    OBVIOUS
  <2> QED
    BY <2>1 DEF IsFold
<1>2. ASSUME NEW k \in 1..n
      PROVE  f[1..k] = Wanted(f[1..(k - 1)], list[k])
  <2>1. k - 1 \in Nat /\ (k - 1) + 1 = k
    OBVIOUS
  <2>2. (1..k) \in SUBSET (1..n) /\ k \in 1..k /\ (1..k) # {}
    OBVIOUS
  <2>3. Max(1..k) = k
    <3>1. (1..k) \in SUBSET (1..((k - 1) + 1)) /\ (k - 1) + 1 \in 1..k
      BY <2>1, <2>2
    <3> QED
      BY <3>1, <2>1, MaxIsLast
  <2>4. (1..k) \ {k} = 1..(k - 1)
    OBVIOUS
  <2>5. f[1..k] = Wanted(f[(1..k) \ {Max(1..k)}], list[Max(1..k)])
    BY <2>2 DEF IsFold
  <2> QED
    BY <2>3, <2>4, <2>5
<1> QED
    BY <1>1, <1>2

\* What Missing has after the first k texts: those without a vector, no other, and
\* each once.
Collected(list, asked, k) ==
    /\ list \in Seq(Texts)
    /\ \A p \in 1..Len(list) : cache[list[p]] = "none"
    /\ \A p, q \in 1..Len(list) : list[p] = list[q] => p = q
    /\ \A n \in 1..k : cache[asked[n]] = "none" => \E p \in 1..Len(list) : list[p] = asked[n]

\* Missing has every text without a vector, once.
LEMMA MissingFacts ==
    ASSUME NEW asked \in Seq(Texts)
    PROVE  Collected(Missing(asked), asked, Len(asked))
<1> DEFINE N == Len(asked)
           Runs(f) == f = [s \in SUBSET (1..N) |->
                              IF s = {} THEN <<>> ELSE Wanted(f[s \ {Max(s)}], asked[Max(s)])]
           g == CHOOSE f : Runs(f)
<1>1. N \in Nat /\ DOMAIN asked = 1..N
    OBVIOUS
<1>2. \E f : Runs(f)
    BY <1>1, FoldExists DEF IsFold
<1>3. Runs(g)
    BY <1>2
<1>4. Missing(asked) = g[1..N]
    BY <1>1 DEF Missing, FoldLeft, MapThenFoldSet
<1>5. /\ g[1..0] = <<>>
      /\ \A k \in 1..N : g[1..k] = Wanted(g[1..(k - 1)], asked[k])
  <2>1. IsFold(asked, N, g)
    BY <1>3 DEF IsFold
  <2> HIDE DEF g, N
  <2> QED
    BY <1>1, <2>1, FoldSteps
<1> HIDE DEF g, N
<1> DEFINE Bad == {k \in 0..N : ~Collected(g[1..k], asked, k)}
<1>6. Bad = {}
  <2> SUFFICES ASSUME Bad # {}
               PROVE  FALSE
    OBVIOUS
  <2>1. PICK k \in Bad : \A j \in Bad : ~(j < k)
    <3>1. Bad \in SUBSET Nat
      BY <1>1
    <3> HIDE DEF Bad
    <3> QED
      BY <3>1, LeastExists
  <2>2. k \in 0..N /\ ~Collected(g[1..k], asked, k)
    OBVIOUS
  <2>3. CASE k = 0
    <3>1. Collected(<<>>, asked, 0)
      BY DEF Collected
    <3> QED
      BY <1>5, <2>2, <2>3, <3>1
  <2>4. CASE k # 0
    <3>1. k \in 1..N /\ k - 1 \in 0..N /\ k - 1 < k
      BY <1>1, <2>2, <2>4
    <3> DEFINE list == g[1..(k - 1)]
               text == asked[k]
    <3>2. Collected(list, asked, k - 1)
      BY <2>1, <3>1
    <3>3. g[1..k] = Wanted(list, text) /\ text \in Texts
      BY <1>1, <1>5, <3>1 DEF N
    <3>4. \A n \in 1..k : n = k \/ n \in 1..(k - 1)
      BY <3>1
    <3> HIDE DEF list
    <3>5. list \in Seq(Texts) /\ Len(list) \in Nat /\ ToSet(list) = {list[p] : p \in 1..Len(list)}
      BY <3>2 DEF Collected, ToSet
    <3>6. CASE cache[text] # "none" \/ text \in ToSet(list)
      <4>1. Wanted(list, text) = list
        BY <3>6 DEF Wanted
      <4>2. cache[text] = "none" => \E p \in 1..Len(list) : list[p] = text
        BY <3>5, <3>6
      <4>3. Collected(list, asked, k)
        BY <3>2, <3>4, <4>2 DEF Collected
      <4> QED
        BY <2>2, <3>3, <4>1, <4>3
    <3>7. CASE cache[text] = "none" /\ text \notin ToSet(list)
      <4> DEFINE more == Append(list, text)
      <4>1. Wanted(list, text) = more
        BY <3>7 DEF Wanted
      <4>2. /\ more \in Seq(Texts) /\ Len(more) = Len(list) + 1
            /\ more[Len(list) + 1] = text
            /\ \A p \in 1..Len(list) : more[p] = list[p]
        BY <3>3, <3>5
      <4> HIDE DEF more
      <4>3. Len(list) + 1 \in 1..Len(more) /\ \A p \in 1..Len(list) : p \in 1..Len(more)
        BY <3>5, <4>2
      <4>4. \A p \in 1..Len(list) : list[p] # text
        BY <3>5, <3>7
      <4>5. \A p \in 1..Len(more) : p = Len(list) + 1 \/ p \in 1..Len(list)
        BY <3>5, <4>2
      <4>6. ASSUME NEW p \in 1..Len(more)
            PROVE  cache[more[p]] = "none"
        <5>1. CASE p = Len(list) + 1
          BY <3>7, <4>2, <5>1
        <5>2. CASE p \in 1..Len(list)
          BY <3>2, <4>2, <5>2 DEF Collected
        <5> QED
          BY <4>5, <5>1, <5>2
      <4>7. ASSUME NEW p \in 1..Len(more), NEW q \in 1..Len(more), more[p] = more[q]
            PROVE  p = q
        <5>1. CASE p \in 1..Len(list) /\ q \in 1..Len(list)
          BY <3>2, <4>2, <4>7, <5>1 DEF Collected
        <5>2. CASE p = Len(list) + 1 \/ q = Len(list) + 1
          BY <4>2, <4>4, <4>5, <4>7, <5>2
        <5> QED
          BY <4>5, <5>1, <5>2
      <4>8. Collected(more, asked, k)
        <5>1. ASSUME NEW n \in 1..k, cache[asked[n]] = "none"
              PROVE  \E p \in 1..Len(more) : more[p] = asked[n]
          <6>1. CASE n = k
            BY <4>2, <4>3, <6>1
          <6>2. CASE n \in 1..(k - 1)
            <7>1. PICK p \in 1..Len(list) : list[p] = asked[n]
              BY <3>2, <5>1, <6>2 DEF Collected
            <7> QED
              BY <4>2, <4>3, <7>1
          <6> QED
            BY <3>4, <6>1, <6>2
        <5> QED
          BY <4>2, <4>6, <4>7, <5>1 DEF Collected
      <4> QED
        BY <2>2, <3>3, <4>1, <4>8
    <3> QED
      BY <3>6, <3>7
  <2> QED
    BY <2>3, <2>4
<1>7. Collected(g[1..N], asked, N)
    BY <1>1, <1>6
<1> QED
    BY <1>4, <1>7 DEF N

-------------------------------------------------------------------------------
(* Order of the embeddings *)

\* The texts up to place p have their vectors in fresh_map.
SavedUpTo(p) == \A i \in 1..p : fresh[unique[i]] = unique[i]

\* A vector is that of its text.  While embed_texts runs, what is not from the
\* cache is asked for, the batches before the running one are in fresh_map, and the
\* rows left are what the running one still lacks.
EmbedInv ==
    /\ texts \in Seq(Texts) /\ unique \in Seq(Texts)
    /\ ordered \in [1..Len(texts) -> Vectors]
    /\ fresh \in [Texts -> Vectors] /\ cache \in [Texts -> Vectors]
    /\ \A t \in Texts : fresh[t] \in {t, "none"} /\ cache[t] \in {t, "none"}
    /\ start \in Nat \ {0}
    /\ rows \in Seq(Texts \X Texts)
    /\ \A k \in 1..Len(rows) : rows[k][1] = rows[k][2]
    /\ pc # "idle" => outcome = "none"
    /\ pc \in {"accept", "write"} => kind = "embed"
    /\ pc = "write" => rows # <<>> /\ fresh[rows[1][1]] = rows[1][1]
    /\ outcome = "ok" /\ kind = "embed" => ordered = texts
    /\ pc # "idle" /\ kind = "embed" =>
         /\ start <= Len(unique)
         /\ SavedUpTo(start - 1)
         /\ \A n \in 1..Len(texts) :
               \/ ordered[n] = texts[n]
               \/ ordered[n] = "none" /\ \E p \in 1..Len(unique) : unique[p] = texts[n]
         /\ pc \in {"accept", "write"} =>
               \A p \in start..BatchEnd :
                   \/ fresh[unique[p]] = unique[p]
                   \/ \E k \in 1..Len(rows) : rows[k][1] = unique[p]

\* A new process has embedded nothing.
LEMMA EmbedInit ==
    ASSUME "none" \notin Texts
    PROVE  Init => EmbedInv
BY DEF Init, EmbedInv, Vectors

\* A call begins with the vectors of the cache; it ends at once if they are all
\* that is asked for.
LEMMA EmbedBegins ==
    ASSUME EmbedInv, NEW asked \in EmbedRequests, EmbedCall(asked)
    PROVE  EmbedInv'
<1> DEFINE missing == Missing(asked)
           N == Len(asked)
<1>1. asked \in Seq(Texts) /\ "none" \notin Texts
    BY ClientAssumption
<1>2. /\ kind' = "embed" /\ texts' = asked /\ unique' = missing /\ start' = 1 /\ rows' = <<>>
      /\ ordered' = [n \in 1..N |-> cache[asked[n]]]
      /\ fresh' = [t \in Texts |-> "none"]
      /\ cache' = cache
      /\ IF missing = <<>> THEN pc' = "idle" /\ outcome' = "ok" ELSE pc' = "post" /\ outcome' = "none"
    BY DEF EmbedCall, BeginPost, Finish
<1>3. /\ missing \in Seq(Texts)
      /\ \A n \in 1..N : cache[asked[n]] = "none" => \E p \in 1..Len(missing) : missing[p] = asked[n]
    BY <1>1, MissingFacts DEF Collected
<1> HIDE DEF missing
<1>4. /\ N \in Nat
      /\ \A n \in 1..N : asked[n] \in Texts /\ cache[asked[n]] \in {asked[n], "none"}
    BY <1>1 DEF EmbedInv
<1>5. ordered' \in [1..Len(texts') -> Vectors]
    BY <1>2, <1>4 DEF Vectors
<1>6. cache \in [Texts -> Vectors] /\ \A t \in Texts : cache[t] \in {t, "none"}
    BY DEF EmbedInv
<1>7. fresh' \in [Texts -> Vectors] /\ \A t \in Texts : fresh'[t] = "none"
    BY <1>2 DEF Vectors
<1>8. missing = <<>> => ordered' = asked
  <2> SUFFICES ASSUME missing = <<>>
               PROVE  ordered' = asked
    OBVIOUS
  <2>1. \A n \in 1..N : cache[asked[n]] = asked[n]
    BY <1>3, <1>4
  <2>2. asked = [n \in 1..N |-> asked[n]]
    BY <1>1
  <2> QED
    BY <1>2, <2>1, <2>2
<1>9. ASSUME missing # <<>>
      PROVE  /\ 1 <= Len(missing)
             /\ \A n \in 1..N : \/ ordered'[n] = asked[n]
                                \/ ordered'[n] = "none" /\ \E p \in 1..Len(missing) : missing[p] = asked[n]
  <2>1. 1 <= Len(missing)
    BY <1>3, <1>9
  <2> QED
    BY <1>2, <1>3, <1>4, <2>1
<1> QED
    BY <1>1, <1>2, <1>3, <1>5, <1>6, <1>7, <1>8, <1>9, SMTT(30) DEF EmbedInv, SavedUpTo

\* The rows of a reply are those of the batch.
LEMMA EmbedReceives == ASSUME EmbedInv, EmbedReturns PROVE EmbedInv'
<1>1. /\ pc = "reply" /\ kind = "embed" /\ pc' = "accept" /\ rows' = Zipped
      /\ UNCHANGED <<kind, texts, ordered, unique, start, fresh, cache, outcome>>
    BY DEF EmbedReturns
<1>2. /\ unique \in Seq(Texts) /\ start \in 1..Len(unique) /\ Len(unique) \in Nat
      /\ BatchSize \in Nat \ {0}
    BY <1>1, ClientAssumption DEF EmbedInv
<1>3. BatchEnd \in start..Len(unique) /\ BatchEnd' = BatchEnd
    BY <1>1, <1>2 DEF BatchEnd
<1>4. /\ Len(Batch) = BatchEnd - start + 1
      /\ \A k \in 1..(BatchEnd - start + 1) : Batch[k] = unique[start + k - 1]
  <2> DEFINE e == BatchEnd
  <2>1. e \in start..Len(unique)
    BY <1>3
  <2> HIDE DEF e
  <2>2. /\ Len(SubSeq(unique, start, e)) = e - start + 1
        /\ \A k \in 1..(e - start + 1) : SubSeq(unique, start, e)[k] = unique[start + k - 1]
    BY <1>2, <2>1
  <2> QED
    BY <2>2 DEF Batch, e
<1>5. /\ Len(rows') = BatchEnd - start + 1
      /\ rows' \in Seq(Texts \X Texts)
      /\ \A k \in 1..Len(rows') : rows'[k] = <<unique[start + k - 1], unique[start + k - 1]>>
  <2> DEFINE b == Batch
             n == BatchEnd - start + 1
  <2>1. n \in Nat /\ Len(b) = n /\ \A k \in 1..n : b[k] \in Texts /\ b[k] = unique[start + k - 1]
    BY <1>2, <1>3, <1>4
  <2> HIDE DEF b, n
  <2>2. rows' = [k \in 1..n |-> <<b[k], b[k]>>]
    BY <1>1, <2>1 DEF Zipped, b
  <2>3. rows' \in Seq(Texts \X Texts) /\ Len(rows') = n
    BY <2>1, <2>2
  <2> QED
    BY <2>1, <2>2, <2>3 DEF n
<1>6. \A k \in 1..Len(rows') : rows'[k][1] = rows'[k][2]
    BY <1>5
<1>7. \A p \in start..BatchEnd : \E k \in 1..Len(rows') : rows'[k][1] = unique[p]
  <2> SUFFICES ASSUME NEW p \in start..BatchEnd
               PROVE  \E k \in 1..Len(rows') : rows'[k][1] = unique[p]
    OBVIOUS
  <2>1. p - start + 1 \in 1..Len(rows') /\ start + (p - start + 1) - 1 = p
    BY <1>2, <1>3, <1>5
  <2> QED
    BY <1>5, <2>1
<1>8. /\ texts' \in Seq(Texts) /\ unique' \in Seq(Texts) /\ start' \in Nat \ {0}
      /\ ordered' \in [1..Len(texts') -> Vectors]
      /\ fresh' \in [Texts -> Vectors] /\ cache' \in [Texts -> Vectors]
      /\ \A t \in Texts : fresh'[t] \in {t, "none"} /\ cache'[t] \in {t, "none"}
      /\ outcome' = "none" /\ start' <= Len(unique')
    BY <1>1 DEF EmbedInv
<1>9. SavedUpTo(start - 1)'
    BY <1>1 DEF EmbedInv, SavedUpTo
<1>10. \A n \in 1..Len(texts') :
          \/ ordered'[n] = texts'[n]
          \/ ordered'[n] = "none" /\ \E p \in 1..Len(unique') : unique'[p] = texts'[n]
    BY <1>1 DEF EmbedInv
<1>11. \A p \in start'..BatchEnd' : \E k \in 1..Len(rows') : rows'[k][1] = unique'[p]
    BY <1>1, <1>3, <1>7
<1> QED
    BY <1>1, <1>5, <1>6, <1>8, <1>9, <1>10, <1>11, SMTT(30) DEF EmbedInv

\* A row that is accepted adds its vector and takes nothing away.
LEMMA EmbedAccepts == ASSUME EmbedInv, AcceptRow PROVE EmbedInv'
<1> DEFINE t == Head(rows)[1]
           v == Head(rows)[2]
<1>1. /\ pc = "accept" /\ rows # <<>> /\ kind = "embed" /\ pc' = "write"
      /\ fresh' = [fresh EXCEPT ![t] = v]
      /\ UNCHANGED <<kind, texts, ordered, unique, start, rows, cache, outcome>>
    BY DEF AcceptRow, EmbedInv
<1>2. rows \in Seq(Texts \X Texts) /\ 1 \in 1..Len(rows) /\ Len(rows) \in Nat /\ Head(rows) = rows[1]
    BY <1>1 DEF EmbedInv
<1>3. t \in Texts /\ v = t /\ rows[1][1] = t
    BY <1>2 DEF EmbedInv
<1> HIDE DEF t, v
<1>4. fresh \in [Texts -> Vectors] /\ \A x \in Texts : fresh[x] \in {x, "none"}
    BY DEF EmbedInv
<1>5. fresh' \in [Texts -> Vectors] /\ \A x \in Texts : fresh'[x] = IF x = t THEN t ELSE fresh[x]
    BY <1>1, <1>3, <1>4 DEF Vectors
<1>6. \A x \in Texts : fresh'[x] \in {x, "none"} /\ (fresh[x] = x => fresh'[x] = x)
    BY <1>4, <1>5
<1>7. unique \in Seq(Texts) /\ start \in 1..Len(unique) /\ Len(unique) \in Nat /\ BatchSize \in Nat \ {0}
    BY <1>1, ClientAssumption DEF EmbedInv
<1>8. BatchEnd \in start..Len(unique) /\ BatchEnd' = BatchEnd
    BY <1>1, <1>7 DEF BatchEnd
<1>9. SavedUpTo(start - 1)'
  <2>1. \A p \in 1..(start - 1) : unique[p] \in Texts /\ fresh[unique[p]] = unique[p]
    BY <1>1, <1>7 DEF EmbedInv, SavedUpTo
  <2> QED
    BY <1>1, <1>6, <2>1 DEF SavedUpTo
<1>10. ASSUME NEW p \in start..BatchEnd
       PROVE  fresh'[unique[p]] = unique[p] \/ \E k \in 1..Len(rows) : rows[k][1] = unique[p]
  <2>1. unique[p] \in Texts
    BY <1>7, <1>8
  <2> QED
    BY <1>1, <1>6, <2>1 DEF EmbedInv
<1>11. fresh'[rows[1][1]] = rows[1][1]
    BY <1>3, <1>5
<1> QED
    BY <1>1, <1>5, <1>6, <1>8, <1>9, <1>10, <1>11 DEF EmbedInv

\* The row that leaves the queue has its vector in fresh_map.
LEMMA EmbedWrites == ASSUME EmbedInv, WriteRow PROVE EmbedInv'
<1> DEFINE t == Head(rows)[1]
           v == Head(rows)[2]
<1>1. /\ pc = "write" /\ rows # <<>> /\ kind = "embed" /\ pc' = "accept"
      /\ cache' = [cache EXCEPT ![t] = v]
      /\ rows' = Tail(rows)
      /\ UNCHANGED <<kind, texts, ordered, unique, start, fresh, outcome>>
    BY DEF WriteRow, EmbedInv
<1>2. rows \in Seq(Texts \X Texts) /\ 1 \in 1..Len(rows) /\ Len(rows) \in Nat /\ Head(rows) = rows[1]
    BY <1>1 DEF EmbedInv
<1>3. t \in Texts /\ v = t /\ rows[1][1] = t /\ fresh[t] = t
    BY <1>1, <1>2 DEF EmbedInv
<1> HIDE DEF t, v
<1>4. /\ Tail(rows) \in Seq(Texts \X Texts) /\ Len(Tail(rows)) = Len(rows) - 1
      /\ \A k \in 1..(Len(rows) - 1) : Tail(rows)[k] = rows[k + 1]
    BY <1>1, <1>2
<1>5. cache \in [Texts -> Vectors] /\ \A x \in Texts : cache[x] \in {x, "none"}
    BY DEF EmbedInv
<1>6. cache' \in [Texts -> Vectors] /\ \A x \in Texts : cache'[x] \in {x, "none"}
    BY <1>1, <1>3, <1>5 DEF Vectors
<1>7. BatchEnd' = BatchEnd
    BY <1>1 DEF BatchEnd
<1>8. \A k \in 1..Len(rows') : rows'[k][1] = rows'[k][2]
  <2> SUFFICES ASSUME NEW k \in 1..(Len(rows) - 1)
               PROVE  rows[k + 1][1] = rows[k + 1][2]
    BY <1>1, <1>4
  <2>1. k + 1 \in 1..Len(rows)
    BY <1>2
  <2> QED
    BY <2>1 DEF EmbedInv
<1>9. ASSUME NEW p \in start..BatchEnd
      PROVE  fresh[unique[p]] = unique[p] \/ \E k \in 1..Len(rows') : rows'[k][1] = unique[p]
  <2>1. CASE fresh[unique[p]] = unique[p]
    BY <2>1
  <2>2. CASE \E k \in 1..Len(rows) : rows[k][1] = unique[p]
    <3>1. PICK k \in 1..Len(rows) : rows[k][1] = unique[p]
      BY <2>2
    <3>2. CASE k = 1
      BY <1>3, <3>1, <3>2
    <3>3. CASE k # 1
      <4>1. k - 1 \in 1..(Len(rows) - 1) /\ (k - 1) + 1 = k
        BY <1>2, <3>3
      <4> QED
        BY <1>1, <1>4, <3>1, <4>1
    <3> QED
      BY <3>2, <3>3
  <2> QED
    BY <1>1, <2>1, <2>2 DEF EmbedInv
<1> QED
    BY <1>1, <1>4, <1>6, <1>7, <1>8, <1>9 DEF EmbedInv, SavedUpTo

\* A file that is cut short has no vector, and holds no other one.
LEMMA CutFiles ==
    ASSUME EmbedInv, CutShort
    PROVE  cache' \in [Texts -> Vectors] /\ \A x \in Texts : cache'[x] \in {x, "none"}
<1> DEFINE t == Head(rows)[1]
<1>1. cache' \in {cache, [cache EXCEPT ![t] = "none"]}
    BY DEF CutShort
<1> HIDE DEF t
<1>2. cache \in [Texts -> Vectors] /\ \A x \in Texts : cache[x] \in {x, "none"}
    BY DEF EmbedInv
<1> QED
    BY <1>1, <1>2 DEF Vectors

\* At the end of a batch all its texts have their vectors.
LEMMA BatchIsSaved ==
    ASSUME EmbedInv, pc = "accept", rows = <<>>
    PROVE  SavedUpTo(BatchEnd) /\ BatchEnd \in start..Len(unique)
<1>1. unique \in Seq(Texts) /\ start \in 1..Len(unique) /\ Len(unique) \in Nat /\ BatchSize \in Nat \ {0}
    BY ClientAssumption DEF EmbedInv
<1>2. BatchEnd \in start..Len(unique)
    BY <1>1 DEF BatchEnd
<1>3. SavedUpTo(start - 1) /\ \A p \in start..BatchEnd : fresh[unique[p]] = unique[p]
    BY DEF EmbedInv
<1>4. \A p \in 1..BatchEnd : p \in 1..(start - 1) \/ p \in start..BatchEnd
    BY <1>1, <1>2
<1> QED
    BY <1>2, <1>3, <1>4 DEF SavedUpTo

\* The next batch begins where this one ends.
LEMMA EmbedGoesOn == ASSUME EmbedInv, NextBatch PROVE EmbedInv'
<1>1. /\ pc = "accept" /\ rows = <<>> /\ BatchEnd < Len(unique) /\ start' = BatchEnd + 1
      /\ pc' = "post" /\ kind = "embed"
      /\ UNCHANGED <<kind, texts, ordered, unique, rows, fresh, cache, outcome>>
    BY DEF NextBatch, BeginPost, EmbedInv
<1>2. SavedUpTo(BatchEnd) /\ BatchEnd \in start..Len(unique) /\ start \in Nat \ {0} /\ Len(unique) \in Nat
    BY <1>1, BatchIsSaved DEF EmbedInv
<1>3. start' \in Nat \ {0} /\ start' <= Len(unique) /\ start' - 1 = BatchEnd
    BY <1>1, <1>2
<1>4. SavedUpTo(start - 1)'
    BY <1>1, <1>2, <1>3 DEF SavedUpTo
<1> QED
    BY <1>1, <1>3, <1>4 DEF EmbedInv

\* After the last batch every text has its vector.
LEMMA EmbedEnds == ASSUME EmbedInv, EmbedDone PROVE EmbedInv'
<1>1. /\ pc = "accept" /\ rows = <<>> /\ BatchEnd = Len(unique) /\ kind = "embed"
      /\ ordered' = [n \in 1..Len(texts) |->
                        IF ordered[n] = "none" THEN fresh[texts[n]] ELSE ordered[n]]
      /\ pc' = "idle" /\ outcome' = "ok"
      /\ UNCHANGED <<kind, texts, unique, start, rows, fresh, cache>>
    BY DEF EmbedDone, Finish, EmbedInv
<1>2. SavedUpTo(Len(unique))
    BY <1>1, BatchIsSaved
<1>3. \A n \in 1..Len(texts) : ordered'[n] = texts[n]
  <2> SUFFICES ASSUME NEW n \in 1..Len(texts)
               PROVE  (IF ordered[n] = "none" THEN fresh[texts[n]] ELSE ordered[n]) = texts[n]
    BY <1>1
  <2>1. texts[n] \in Texts /\ "none" \notin Texts
    BY ClientAssumption DEF EmbedInv
  <2>2. CASE ordered[n] = texts[n]
    BY <2>1, <2>2
  <2>3. CASE ordered[n] = "none" /\ \E p \in 1..Len(unique) : unique[p] = texts[n]
    BY <1>2, <2>3 DEF SavedUpTo
  <2> QED
    BY <1>1, <2>2, <2>3 DEF EmbedInv
<1>4. ordered' = texts
  <2>1. texts = [n \in 1..Len(texts) |-> texts[n]]
    BY DEF EmbedInv
  <2>2. ordered' = [n \in 1..Len(texts) |-> ordered'[n]]
    BY <1>1
  <2> QED
    BY <1>3, <2>1, <2>2
<1>5. ordered' \in [1..Len(texts) -> Vectors]
  <2>1. \A n \in 1..Len(texts) : texts[n] \in Vectors
    BY DEF EmbedInv, Vectors
  <2>2. ordered' = [n \in 1..Len(texts) |-> texts[n]]
    BY <1>1, <1>3
  <2> QED
    BY <2>1, <2>2
<1> QED
    BY <1>1, <1>4, <1>5 DEF EmbedInv

\* Every step of the specification preserves the invariant.
LEMMA EmbedNext == EmbedInv /\ [Next]_vars => EmbedInv'
<1> SUFFICES ASSUME EmbedInv, [Next]_vars
             PROVE  EmbedInv'
    OBVIOUS
<1>1. CASE /\ UNCHANGED <<embedding, cache>>
           /\ pc' # "idle" => outcome' = "none"
           /\ pc' \notin {"accept", "write"} \/ (pc' = pc /\ kind' = kind)
           /\ outcome' = "ok" => kind' # "embed" \/ (kind' = kind /\ outcome' = outcome)
           /\ pc' # "idle" /\ kind' = "embed" => pc # "idle" /\ kind = "embed"
  <2>1. UNCHANGED <<texts, ordered, unique, start, rows, fresh, cache>> /\ BatchEnd' = BatchEnd
    BY <1>1 DEF embedding, BatchEnd
  <2> QED
    BY <1>1, <2>1 DEF EmbedInv, SavedUpTo
<1>2. ASSUME NEW k \in {"json", "text"}, ChatCall(k)
      PROVE  EmbedInv'
  <2>1. UNCHANGED <<embedding, cache>>
    BY <1>2 DEF ChatCall
  <2>2. pc' = "post" /\ kind' = k /\ outcome' = "none"
    BY <1>2 DEF ChatCall, BeginPost
  <2> QED
    BY <1>1, <1>2, <2>1, <2>2
<1>3. CASE PostReturns \/ PostRaises \/ PostRetried
    BY <1>1, <1>3 DEF PostReturns, PostRaises, PostRetried, Send, Finish, EmbedInv
<1>4. ASSUME NEW result \in {"ok", "raised"}, ChatReturns(result)
      PROVE  EmbedInv'
    BY <1>1, <1>4 DEF ChatReturns, Finish
<1>5. CASE ParseFails \/ AskedAgain
    BY <1>1, <1>5 DEF ParseFails, AskedAgain, Unparsed, BeginPost, Finish, EmbedInv
<1>6. CASE EmbedRaises
    BY <1>1, <1>6 DEF EmbedRaises, Finish
<1>7. CASE UNCHANGED vars
    BY <1>1, <1>7 DEF vars, EmbedInv
<1>8. CASE Restart
  <2>1. cache' \in [Texts -> Vectors] /\ \A t \in Texts : cache'[t] \in {t, "none"}
    BY <1>8, CutFiles DEF Restart, EmbedInv
  <2> QED
    BY <1>8, <2>1 DEF Restart, EmbedInv, Vectors
<1>9. ASSUME NEW asked \in EmbedRequests, EmbedCall(asked)
      PROVE  EmbedInv'
    BY <1>9, EmbedBegins
<1>10. CASE EmbedReturns \/ AcceptRow \/ WriteRow \/ NextBatch \/ EmbedDone
    BY <1>10, EmbedReceives, EmbedAccepts, EmbedWrites, EmbedGoesOn, EmbedEnds
<1>11. CASE WriteRaises
  <2>1. cache' \in [Texts -> Vectors] /\ \A t \in Texts : cache'[t] \in {t, "none"}
    BY <1>11, CutFiles DEF WriteRaises
  <2>2. UNCHANGED <<kind, texts, ordered, unique, start, rows, fresh>> /\ pc' = "idle" /\ outcome' = "raised"
    BY <1>11 DEF WriteRaises, Finish, embedding
  <2> QED
    BY <2>1, <2>2 DEF EmbedInv
<1> QED
    BY <1>2, <1>3, <1>4, <1>5, <1>6, <1>7, <1>8, <1>9, <1>10, <1>11 DEF Next, CallStep

\* embed_texts returns the vector of each text at its place, for any list of texts,
\* any batch size and any cache.
THEOREM VectorsInOrder == Spec => []EmbeddingsInOrder
<1>1. "none" \notin Texts
    BY ClientAssumption
<1>2. EmbedInv => EmbeddingsInOrder
    BY DEF EmbedInv, EmbeddingsInOrder
<1> QED
    BY <1>1, <1>2, EmbedInit, EmbedNext, PTL DEF Spec

-------------------------------------------------------------------------------
(* What is paid for *)

\* The place in unique_texts of the first text without a file.
Place == IF pc \in {"accept", "write"} THEN BatchEnd + 1 - Len(rows) ELSE start

\* How many vectors of the reply have no file yet.
Waiting ==
    IF kind = "embed" /\ pc = "reply" THEN BatchEnd + 1 - start
    ELSE IF kind = "embed" /\ pc \in {"accept", "write"} THEN Len(rows) ELSE 0

\* From its place on no text of the running call has a file, and the rows left are
\* those of the texts up to the end of the batch.
QueueInv ==
    /\ \A p, q \in 1..Len(unique) : unique[p] = unique[q] => p = q
    /\ pc # "idle" /\ kind = "embed" =>
          /\ Place \in start..(BatchEnd + 1)
          /\ \A p \in Place..Len(unique) : cache[unique[p]] = "none"
          /\ pc \in {"accept", "write"} =>
                \A k \in 1..Len(rows) : rows[k][1] = unique[Place + k - 1]

\* What is paid for has its file, waits for it, or was lost with a batch.
PaidInv ==
    /\ IsFiniteSet(Saved)
    /\ paid \in Nat /\ broken \in Nat
    /\ paid <= Cardinality(Saved) + BatchSize * broken + Waiting

LedgerInv == EmbedInv /\ QueueInv /\ PaidInv

\* The bounds of the running batch.
LEMMA BatchBounds ==
    ASSUME EmbedInv, pc # "idle", kind = "embed"
    PROVE  /\ unique \in Seq(Texts) /\ Len(unique) \in Nat /\ start \in 1..Len(unique)
           /\ BatchEnd \in start..Len(unique)
           /\ BatchEnd + 1 - start <= BatchSize
           /\ Len(rows) \in Nat
           /\ Len(Batch) = BatchEnd + 1 - start
<1>1. /\ unique \in Seq(Texts) /\ start \in 1..Len(unique) /\ Len(unique) \in Nat
      /\ BatchSize \in Nat \ {0} /\ Len(rows) \in Nat
    BY ClientAssumption DEF EmbedInv
<1>2. BatchEnd \in start..Len(unique) /\ BatchEnd + 1 - start <= BatchSize
    BY <1>1 DEF BatchEnd
<1>3. Len(Batch) = BatchEnd + 1 - start
  <2> DEFINE e == BatchEnd
  <2>1. e \in start..Len(unique)
    BY <1>2
  <2> HIDE DEF e
  <2>2. Len(SubSeq(unique, start, e)) = e - start + 1
    BY <1>1, <2>1
  <2> QED
    BY <1>1, <2>1, <2>2 DEF Batch, e
<1> QED
    BY <1>1, <1>2, <1>3

\* At most one batch waits for its files.
LEMMA WaitingIsABatch ==
    ASSUME EmbedInv, QueueInv
    PROVE  Waiting \in 0..BatchSize
<1>1. BatchSize \in Nat \ {0}
    BY ClientAssumption
<1>2. CASE Waiting = 0
    BY <1>1, <1>2
<1>3. CASE pc = "reply" /\ kind = "embed"
    BY <1>1, <1>3, BatchBounds DEF Waiting
<1>4. CASE pc \in {"accept", "write"} /\ kind = "embed"
  <2>1. Place \in start..(BatchEnd + 1) /\ Place = BatchEnd + 1 - Len(rows) /\ Waiting = Len(rows)
    BY <1>4 DEF QueueInv, Place, Waiting
  <2> QED
    BY <1>1, <1>4, <2>1, BatchBounds
<1> QED
    BY <1>2, <1>3, <1>4 DEF Waiting

\* A call broken off is charged with what waited.
LEMMA BrokenOff ==
    ASSUME EmbedInv, QueueInv, PaidInv, Waiting' = 0, paid' = paid, Saved' = Saved,
           broken' = broken + 1 \/ (broken' = broken /\ Waiting = 0)
    PROVE  PaidInv'
<1> DEFINE c == Cardinality(Saved)
           w == Waiting
<1>1. /\ BatchSize \in Nat /\ w \in 0..BatchSize /\ paid \in Nat /\ broken \in Nat /\ c \in Nat
      /\ paid <= c + BatchSize * broken + w
    BY WaitingIsABatch, ClientAssumption, FS_CardinalityType DEF PaidInv
<1> HIDE DEF c, w
<1>2. BatchSize * (broken + 1) = BatchSize * broken + BatchSize /\ BatchSize * broken \in Nat
    BY <1>1
<1>3. paid <= c + BatchSize * broken'
  <2>1. CASE broken' = broken + 1
    BY <1>1, <1>2, <2>1
  <2>2. CASE broken' = broken /\ Waiting = 0
    BY <1>1, <1>2, <2>2 DEF w
  <2> QED
    BY <2>1, <2>2
<1> DEFINE d == BatchSize * broken'
<1>4. IsFiniteSet(Saved') /\ Cardinality(Saved') = c
    BY DEF PaidInv, c
<1>5. broken' \in Nat /\ d \in Nat
    BY <1>1
<1> HIDE DEF d
<1>6. paid' <= Cardinality(Saved') + d + Waiting'
  <2>1. paid' <= c + d
    BY <1>3 DEF d
  <2> QED
    BY <1>1, <1>4, <1>5, <2>1
<1> QED
    BY <1>1, <1>4, <1>5, <1>6 DEF PaidInv, d

\* A write that is not finished changes no file that has a vector.
LEMMA CutSavesNothing ==
    ASSUME EmbedInv, QueueInv, pc = "write", CutShort
    PROVE  cache' = cache
<1> DEFINE t == Head(rows)[1]
<1>1. kind = "embed" /\ rows # <<>> /\ rows \in Seq(Texts \X Texts)
    BY DEF EmbedInv
<1>2. Head(rows) = rows[1] /\ 1 \in 1..Len(rows) /\ rows[1] \in Texts \X Texts
    BY <1>1
<1>3. rows[1][1] = unique[Place + 1 - 1] /\ Place \in start..(BatchEnd + 1) /\ Place = BatchEnd + 1 - Len(rows)
    BY <1>1, <1>2 DEF QueueInv, Place
<1>4. Place \in Place..Len(unique) /\ Place + 1 - 1 = Place
  <2>1. BatchEnd \in Nat /\ BatchEnd <= Len(unique) /\ Len(unique) \in Nat
    BY <1>1, BatchBounds
  <2>2. Len(rows) \in Nat /\ Len(rows) # 0
    BY <1>1
  <2>3. Place \in Int /\ Place <= Len(unique)
    BY <1>3, <2>1, <2>2
  <2> QED
    BY <2>1, <2>3
<1>5. cache[t] = "none"
  <2>1. \A p \in Place..Len(unique) : cache[unique[p]] = "none"
    BY <1>1 DEF QueueInv
  <2>2. t = unique[Place]
    BY <1>2, <1>3, <1>4
  <2> QED
    BY <1>4, <2>1, <2>2
<1>6. cache \in [Texts -> Vectors]
    BY DEF EmbedInv
<1>7. cache' \in {cache, [cache EXCEPT ![t] = "none"]}
    BY DEF CutShort
<1> HIDE DEF t
<1>8. [cache EXCEPT ![t] = "none"] = cache
    BY <1>5, <1>6
<1> QED
    BY <1>7, <1>8

\* A call asks for each text without a file once.
LEMMA LedgerBegins ==
    ASSUME LedgerInv, NEW asked \in EmbedRequests, EmbedCall(asked)
    PROVE  QueueInv' /\ PaidInv'
<1> DEFINE missing == Missing(asked)
<1>1. asked \in Seq(Texts)
    BY ClientAssumption
<1>2. /\ kind' = "embed" /\ unique' = missing /\ start' = 1 /\ rows' = <<>> /\ cache' = cache
      /\ UNCHANGED <<paid, broken>>
      /\ pc = "idle"
      /\ IF missing = <<>> THEN pc' = "idle" ELSE pc' = "post"
    BY DEF EmbedCall, BeginPost, Finish, Idle, history
<1>3. /\ missing \in Seq(Texts)
      /\ \A p \in 1..Len(missing) : cache[missing[p]] = "none"
      /\ \A p, q \in 1..Len(missing) : missing[p] = missing[q] => p = q
    BY <1>1, MissingFacts DEF Collected
<1> HIDE DEF missing
<1>4. EmbedInv' /\ BatchSize \in Nat \ {0}
    BY EmbedBegins, ClientAssumption DEF LedgerInv
<1>5. QueueInv'
  <2>1. CASE missing = <<>>
    BY <1>2, <1>3, <2>1 DEF QueueInv
  <2>2. CASE missing # <<>>
    <3>1. Place' = 1 /\ pc' = "post"
      BY <1>2, <2>2 DEF Place
    <3>2. BatchEnd' \in Int /\ BatchEnd' >= 1
      <4>1. Len(missing) \in Nat \ {0}
        BY <1>3, <2>2
      <4> QED
        BY <1>2, <1>4, <4>1 DEF BatchEnd
    <3>3. Place' \in start'..(BatchEnd' + 1)
      <4>1. start' = 1 /\ Place' = 1
        BY <1>2, <3>1
      <4>2. ASSUME NEW e \in Int, e >= 1
            PROVE  1 \in 1..(e + 1)
        BY <4>2
      <4>3. 1 \in 1..(BatchEnd' + 1)
        BY <3>2, <4>2
      <4> QED
        BY <4>1, <4>3
    <3> QED
      BY <1>2, <1>3, <3>1, <3>3 DEF QueueInv
  <2> QED
    BY <2>1, <2>2
<1>6. PaidInv'
  <2>1. Waiting = 0 /\ Waiting' = 0 /\ Saved' = Saved
    BY <1>2 DEF Waiting, Saved
  <2> QED
    BY <1>2, <2>1, BrokenOff DEF LedgerInv
<1> QED
    BY <1>5, <1>6

\* The answer to an embedding request is paid for.
LEMMA LedgerPays == ASSUME LedgerInv, PostReturns PROVE QueueInv' /\ PaidInv'
<1>1. /\ pc = "post" /\ pc' = "reply" /\ paid' = IF kind = "embed" THEN paid + Len(Batch) ELSE paid
      /\ UNCHANGED <<kind, unique, start, rows, cache, broken>>
    BY DEF PostReturns, Send, embedding
<1>2. BatchEnd' = BatchEnd /\ Place' = Place /\ Place = start /\ Saved' = Saved
    BY <1>1 DEF BatchEnd, Place, Saved
<1>3. QueueInv'
    BY <1>1, <1>2 DEF LedgerInv, QueueInv
<1>4. CASE kind # "embed"
  <2>1. Waiting = 0 /\ Waiting' = 0
    BY <1>1, <1>4 DEF Waiting
  <2> QED
    BY <1>1, <1>2, <1>3, <1>4, <2>1, BrokenOff DEF LedgerInv
<1>5. CASE kind = "embed"
  <2> DEFINE c == Cardinality(Saved)
             d == BatchSize * broken
             n == BatchEnd + 1 - start
  <2>1. Waiting = 0 /\ Waiting' = n /\ Len(Batch) = n /\ n \in Nat
    BY <1>1, <1>2, <1>5, BatchBounds DEF Waiting, LedgerInv
  <2>2. c \in Nat /\ d \in Nat /\ paid \in Nat /\ broken \in Nat /\ paid <= c + d + 0
    BY <2>1, FS_CardinalityType, ClientAssumption DEF LedgerInv, PaidInv
  <2>3. c' = c /\ d' = d /\ IsFiniteSet(Saved')
    BY <1>1, <1>2 DEF LedgerInv, PaidInv
  <2> HIDE DEF c, d, n
  <2>4. paid' = paid + n /\ paid' \in Nat /\ paid' <= c' + d' + n
    BY <1>1, <1>5, <2>1, <2>2, <2>3
  <2> QED
    BY <1>1, <1>3, <2>1, <2>2, <2>3, <2>4 DEF PaidInv, c, d
<1> QED
    BY <1>4, <1>5, <1>3

\* The rows of a reply wait for their files.
LEMMA LedgerReceives == ASSUME LedgerInv, EmbedReturns PROVE QueueInv' /\ PaidInv'
<1>1. /\ pc = "reply" /\ kind = "embed" /\ pc' = "accept" /\ rows' = Zipped
      /\ UNCHANGED <<kind, unique, start, cache, paid, broken>>
    BY DEF EmbedReturns, history
<1> DEFINE e == BatchEnd
           n == e + 1 - start
           b == Batch
<1>2. /\ unique \in Seq(Texts) /\ Len(unique) \in Nat /\ start \in 1..Len(unique)
      /\ e \in start..Len(unique)
    BY <1>1, BatchBounds DEF LedgerInv
<1>3. BatchEnd' = e /\ Saved' = Saved
    BY <1>1 DEF BatchEnd, Saved
<1> HIDE DEF e
<1>4. Len(b) = n /\ n \in Nat /\ \A k \in 1..n : b[k] = unique[start + k - 1]
  <2>1. /\ Len(SubSeq(unique, start, e)) = e - start + 1
        /\ \A k \in 1..(e - start + 1) : SubSeq(unique, start, e)[k] = unique[start + k - 1]
    BY <1>2
  <2>2. b = SubSeq(unique, start, e)
    BY DEF Batch, e
  <2> QED
    BY <1>2, <2>1, <2>2
<1> HIDE DEF b, n
<1>5. rows' = [k \in 1..n |-> <<b[k], b[k]>>]
    BY <1>1, <1>4 DEF Zipped, b
<1>6. Len(rows') = n /\ \A k \in 1..n : rows'[k][1] = unique[start + k - 1]
    BY <1>4, <1>5
<1>7. Place = start /\ Place' = start
  <2>1. Place' = e + 1 - n
    BY <1>1, <1>3, <1>6 DEF Place
  <2> QED
    BY <1>1, <1>2, <2>1 DEF Place, n
<1>8. QueueInv'
  <2>1. Place' \in start..(e + 1)
    BY <1>2, <1>7
  <2>2. \A p \in start..Len(unique) : cache[unique[p]] = "none"
    BY <1>1, <1>7 DEF LedgerInv, QueueInv
  <2> QED
    BY <1>1, <1>3, <1>6, <1>7, <2>1, <2>2 DEF LedgerInv, QueueInv
<1>9. Waiting = n /\ Waiting' = n
    BY <1>1, <1>6 DEF Waiting, n, e
<1> QED
    BY <1>1, <1>3, <1>8, <1>9 DEF LedgerInv, PaidInv

\* A file that is written takes one vector from those that wait.
LEMMA LedgerWrites == ASSUME LedgerInv, WriteRow PROVE QueueInv' /\ PaidInv'
<1> DEFINE t == Head(rows)[1]
           v == Head(rows)[2]
           m == Len(rows)
<1>1. /\ pc = "write" /\ pc' = "accept" /\ kind = "embed" /\ rows # <<>>
      /\ cache' = [cache EXCEPT ![t] = v] /\ rows' = Tail(rows)
      /\ UNCHANGED <<kind, unique, start, paid, broken>>
    BY DEF WriteRow, LedgerInv, EmbedInv, history
<1>2. /\ rows \in Seq(Texts \X Texts) /\ 1 \in 1..m /\ m \in Nat \ {0} /\ Head(rows) = rows[1]
    BY <1>1 DEF LedgerInv, EmbedInv
<1>3. t \in Texts /\ v = t /\ rows[1][1] = t /\ t # "none"
    BY <1>2, ClientAssumption DEF LedgerInv, EmbedInv
<1>4. /\ Len(Tail(rows)) = m - 1
      /\ \A k \in 1..(m - 1) : Tail(rows)[k] = rows[k + 1]
    BY <1>1, <1>2
<1>5. /\ unique \in Seq(Texts) /\ Len(unique) \in Nat /\ start \in 1..Len(unique)
      /\ BatchEnd \in start..Len(unique) /\ BatchEnd' = BatchEnd
    BY <1>1, BatchBounds DEF LedgerInv, BatchEnd
<1>6. /\ Place \in start..(BatchEnd + 1) /\ Place = BatchEnd + 1 - m
      /\ Place' = BatchEnd + 1 - (m - 1)
    BY <1>1, <1>4, <1>5 DEF LedgerInv, QueueInv, Place
<1>7. /\ \A p \in Place..Len(unique) : cache[unique[p]] = "none"
      /\ \A k \in 1..m : rows[k][1] = unique[Place + k - 1]
      /\ \A p, q \in 1..Len(unique) : unique[p] = unique[q] => p = q
    BY <1>1 DEF LedgerInv, QueueInv
<1>8. cache \in [Texts -> Vectors]
    BY DEF LedgerInv, EmbedInv
<1> HIDE DEF t, v, m
<1>9. Place' = Place + 1 /\ Place' \in start..(BatchEnd + 1) /\ Place \in 1..Len(unique)
    BY <1>2, <1>5, <1>6
<1>10. t = unique[Place] /\ cache[t] = "none"
  <2>1. Place + 1 - 1 = Place /\ Place \in Place..Len(unique)
    BY <1>9
  <2> QED
    BY <1>2, <1>3, <1>7, <2>1
<1>11. \A x \in Texts : cache'[x] = IF x = t THEN t ELSE cache[x]
    BY <1>1, <1>3, <1>8
<1>12. QueueInv'
  <2>1. ASSUME NEW p \in (Place + 1)..Len(unique)
        PROVE  cache'[unique[p]] = "none"
    <3>1. p \in Place..Len(unique) /\ p \in 1..Len(unique) /\ p # Place /\ unique[p] \in Texts
      BY <1>5, <1>9, <2>1
    <3>2. unique[p] # t
      BY <1>7, <1>9, <1>10, <3>1
    <3> QED
      BY <1>7, <1>11, <3>1, <3>2
  <2>2. ASSUME NEW k \in 1..(m - 1)
        PROVE  rows'[k][1] = unique[(Place + 1) + k - 1]
    <3>1. k + 1 \in 1..m /\ Place + (k + 1) - 1 = (Place + 1) + k - 1
      BY <1>2, <1>9
    <3> QED
      BY <1>1, <1>4, <1>7, <3>1
  <2>3. Len(rows') = m - 1
    BY <1>1, <1>4
  <2>4. \A p \in Place'..Len(unique') : cache'[unique'[p]] = "none"
    BY <1>1, <1>9, <2>1
  <2>5. \A k \in 1..Len(rows') : rows'[k][1] = unique'[Place' + k - 1]
    BY <1>1, <1>9, <2>2, <2>3
  <2>6. Place' \in start'..(BatchEnd' + 1)
    BY <1>1, <1>5, <1>9
  <2> QED
    BY <1>1, <1>7, <2>4, <2>5, <2>6 DEF QueueInv
<1>13. PaidInv'
  <2> DEFINE c == Cardinality(Saved)
             d == BatchSize * broken
  <2>1. Waiting = m /\ Waiting' = m - 1
    BY <1>1, <1>4 DEF Waiting, m
  <2>2. IsFiniteSet(Saved) /\ paid \in Nat /\ broken \in Nat /\ paid <= c + d + m
    BY <2>1 DEF LedgerInv, PaidInv
  <2>3. c \in Nat /\ d \in Nat
    BY <2>2, FS_CardinalityType, ClientAssumption
  <2>4. Saved' = Saved \cup {t} /\ t \notin Saved
    BY <1>3, <1>10, <1>11 DEF Saved
  <2>5. IsFiniteSet(Saved') /\ Cardinality(Saved') = c + 1
    BY <2>2, <2>4, FS_AddElement
  <2>6. d' = d /\ paid' = paid /\ broken' = broken
    BY <1>1
  <2> HIDE DEF c, d
  <2>7. paid' <= Cardinality(Saved') + d' + (m - 1)
    BY <1>2, <2>2, <2>3, <2>5, <2>6
  <2> QED
    BY <2>1, <2>2, <2>5, <2>6, <2>7 DEF PaidInv, d
<1> QED
    BY <1>12, <1>13

\* The next batch begins where this one ends.
LEMMA LedgerGoesOn == ASSUME LedgerInv, NextBatch PROVE QueueInv' /\ PaidInv'
<1>1. /\ pc = "accept" /\ rows = <<>> /\ BatchEnd < Len(unique) /\ start' = BatchEnd + 1
      /\ pc' = "post" /\ kind = "embed"
      /\ UNCHANGED <<kind, unique, cache, paid, broken>>
    BY DEF NextBatch, BeginPost, LedgerInv, EmbedInv, history
<1>2. /\ unique \in Seq(Texts) /\ Len(unique) \in Nat /\ start \in 1..Len(unique)
      /\ BatchEnd \in start..Len(unique)
    BY <1>1, BatchBounds DEF LedgerInv
<1>3. Place = BatchEnd + 1 /\ Place' = BatchEnd + 1
    BY <1>1, <1>2 DEF Place
<1>4. start' \in 1..Len(unique) /\ BatchSize \in Nat \ {0}
    BY <1>1, <1>2, ClientAssumption
<1>5. BatchEnd' \in start'..Len(unique)
    BY <1>1, <1>2, <1>4 DEF BatchEnd
<1>6. Place' \in start'..(BatchEnd' + 1)
  <2> DEFINE s == start'
             e == BatchEnd'
  <2>1. Place' = s
    BY <1>1, <1>3
  <2>2. s \in Int /\ e \in Int /\ s <= e
    BY <1>4, <1>5
  <2> HIDE DEF s, e
  <2>3. s \in s..(e + 1)
    BY <2>2
  <2> QED
    BY <2>1, <2>3 DEF s, e
<1>7. QueueInv'
    BY <1>1, <1>3, <1>6 DEF LedgerInv, QueueInv
<1>8. Waiting = 0 /\ Waiting' = 0 /\ Saved' = Saved
    BY <1>1 DEF Waiting, Saved
<1> QED
    BY <1>1, <1>7, <1>8, BrokenOff DEF LedgerInv

\* Every step of the specification keeps the account.
LEMMA LedgerNext == LedgerInv /\ [Next]_vars => LedgerInv'
<1> SUFFICES ASSUME LedgerInv, [Next]_vars
             PROVE  QueueInv' /\ PaidInv'
    BY EmbedNext DEF LedgerInv
<1>1. EmbedInv /\ QueueInv /\ PaidInv
    BY DEF LedgerInv
<1>2. CASE /\ UNCHANGED <<kind, unique, start, rows, cache, paid, broken>>
           /\ pc' = pc
  <2>1. BatchEnd' = BatchEnd /\ Place' = Place /\ Waiting' = Waiting /\ Saved' = Saved
    BY <1>2 DEF BatchEnd, Place, Waiting, Saved
  <2> QED
    BY <1>1, <1>2, <2>1 DEF QueueInv, PaidInv
<1>3. CASE /\ UNCHANGED <<unique, start, rows, cache, paid, broken>>
           /\ Waiting = 0 /\ (pc' = "idle" \/ kind' # "embed")
  <2>1. Waiting' = 0 /\ Saved' = Saved
    BY <1>3 DEF Waiting, Saved
  <2>2. PaidInv'
    BY <1>1, <1>3, <2>1, BrokenOff
  <2>3. QueueInv'
    BY <1>1, <1>3 DEF QueueInv
  <2> QED
    BY <2>2, <2>3
<1>4. ASSUME NEW k \in {"json", "text"}, ChatCall(k)
      PROVE  QueueInv' /\ PaidInv'
  <2>1. Waiting = 0 /\ kind' # "embed" /\ UNCHANGED <<unique, start, rows, cache, paid, broken>>
    BY <1>4 DEF ChatCall, Idle, Waiting, embedding, history
  <2> QED
    BY <1>3, <2>1
<1>5. CASE PostRaises \/ EmbedDone
  <2>1. Waiting = 0 /\ pc' = "idle" /\ UNCHANGED <<unique, start, rows, cache, paid, broken>>
    <3>1. CASE PostRaises
      BY <3>1 DEF PostRaises, Send, Finish, Waiting, embedding, history
    <3>2. CASE EmbedDone
      BY <3>2 DEF EmbedDone, Finish, Waiting, history
    <3> QED
      BY <1>5, <3>1, <3>2
  <2> QED
    BY <1>3, <2>1
<1>6. CASE PostRetried \/ UNCHANGED vars
    BY <1>2, <1>6 DEF PostRetried, Send, vars, embedding, history
<1>7. CASE ParseFails \/ AskedAgain \/ \E result \in {"ok", "raised"} : ChatReturns(result)
  <2>1. kind # "embed" /\ kind' = kind /\ UNCHANGED <<unique, start, rows, cache, paid, broken>>
    BY <1>7 DEF ParseFails, AskedAgain, Unparsed, ChatReturns, embedding, history
  <2>2. Waiting = 0
    BY <2>1 DEF Waiting
  <2> QED
    BY <1>3, <2>1, <2>2
<1>8. CASE AcceptRow
  <2>1. /\ pc = "accept" /\ pc' = "write"
        /\ UNCHANGED <<kind, unique, start, rows, cache, paid, broken>>
    BY <1>8 DEF AcceptRow, history
  <2>2. BatchEnd' = BatchEnd /\ Place' = Place /\ Waiting' = Waiting /\ Saved' = Saved
    BY <2>1 DEF BatchEnd, Place, Waiting, Saved
  <2> QED
    BY <1>1, <2>1, <2>2 DEF QueueInv, PaidInv
<1>9. CASE EmbedRaises \/ WriteRaises
  <2>1. /\ pc' = "idle" /\ broken' = broken + 1 /\ UNCHANGED <<unique, paid>>
    BY <1>9 DEF EmbedRaises, WriteRaises, Finish, embedding
  <2>2. cache' = cache
    <3>1. CASE EmbedRaises
      BY <3>1 DEF EmbedRaises
    <3>2. CASE WriteRaises
      BY <1>1, <3>2, CutSavesNothing DEF WriteRaises
    <3> QED
      BY <1>9, <3>1, <3>2
  <2>3. Waiting' = 0 /\ Saved' = Saved
    BY <2>1, <2>2 DEF Waiting, Saved
  <2> QED
    BY <1>1, <2>1, <2>3, BrokenOff DEF QueueInv
<1>10. CASE Restart
  <2>1. pc' = "idle" /\ unique' = <<>> /\ paid' = paid /\ broken' = IF Unsaved THEN broken + 1 ELSE broken
    BY <1>10 DEF Restart
  <2>2. cache' = cache
    BY <1>1, <1>10, CutSavesNothing DEF Restart
  <2>3. Waiting' = 0 /\ Saved' = Saved
    BY <2>1, <2>2 DEF Waiting, Saved
  <2>4. ~Unsaved => Waiting = 0
    <3>1. Len(<<>>) = 0
      OBVIOUS
    <3> QED
      BY <3>1 DEF Unsaved, Waiting
  <2> QED
    BY <1>1, <2>1, <2>3, <2>4, BrokenOff DEF QueueInv
<1>11. CASE PostReturns \/ EmbedReturns \/ WriteRow \/ NextBatch
    BY <1>11, LedgerPays, LedgerReceives, LedgerWrites, LedgerGoesOn
<1>12. ASSUME NEW asked \in EmbedRequests, EmbedCall(asked)
       PROVE  QueueInv' /\ PaidInv'
    BY <1>12, LedgerBegins
<1> QED
    BY <1>4, <1>5, <1>6, <1>7, <1>8, <1>9, <1>10, <1>11, <1>12 DEF Next, CallStep

\* Over any calls, failures and kills, the vectors paid for are those on disk and
\* at most one batch for each call that was broken off.
THEOREM OneBatchPerFailure == Spec => []PaidOncePerFailure
<1>1. Init => LedgerInv
  <2> SUFFICES ASSUME Init
               PROVE  LedgerInv
    OBVIOUS
  <2>1. EmbedInv
    BY EmbedInit, ClientAssumption
  <2>2. Saved = {} /\ Waiting = 0 /\ paid = 0 /\ broken = 0 /\ BatchSize \in Nat
    BY ClientAssumption DEF Init, Saved, Waiting
  <2>3. IsFiniteSet(Saved) /\ Cardinality(Saved) = 0
    BY <2>2, FS_EmptySet
  <2>4. PaidInv
    BY <2>2, <2>3 DEF PaidInv
  <2>5. QueueInv
    BY DEF Init, QueueInv
  <2> QED
    BY <2>1, <2>4, <2>5 DEF LedgerInv
<1>2. LedgerInv => PaidOncePerFailure
  <2> SUFFICES ASSUME LedgerInv, pc \in {"idle", "post"}
               PROVE  paid <= Cardinality(Saved) + BatchSize * broken
    BY DEF PaidOncePerFailure
  <2>1. Waiting = 0 /\ PaidInv
    BY DEF Waiting, LedgerInv
  <2>2. Cardinality(Saved) \in Nat /\ BatchSize * broken \in Nat /\ paid \in Nat
    BY <2>1, FS_CardinalityType, ClientAssumption DEF PaidInv
  <2> QED
    BY <2>1, <2>2 DEF PaidInv
<1> QED
    BY <1>1, <1>2, LedgerNext, PTL DEF Spec
===============================================================================
