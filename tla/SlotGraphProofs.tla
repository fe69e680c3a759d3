---------------------------- MODULE SlotGraphProofs ----------------------------
(***************************************************************************)
(* For any number of chunks, texts and batch size, the cached slot graph     *)
(* never mixes histories.  The properties speak of the cache and of what was *)
(* handed over; the invariant adds what a build in progress may hold.  With  *)
(* the change lists the graph is still that of SlotGraph; what it reports to *)
(* Stage 2 is what the records told, whatever the records are, and what it   *)
(* hands over of a named entity is every transition that they told.          *)
(***************************************************************************)
EXTENDS EntityLists, WellFoundedInduction, FiniteSetTheorems, TLAPS

\* What is kept of the cache is visible, unchanged and extracted; the graph is
\* about visible texts; and what is neither kept nor waiting was extracted,
\* unless a batch has failed.
BuildIsGrounded ==
    /\ pc = "deliver" => todo = {}
    /\ pc # "idle" =>
         /\ \A c \in Chunks : previous[c] # "unseen" =>
               c <= visible /\ text[c] = previous[c] /\ <<c, text[c]>> \in extracted
         /\ \A o \in graph : o[1] <= visible /\ o[2] = text[o[1]]
         /\ ~errors => \A c \in New \ todo : <<c, text[c]>> \in extracted

IInv ==
    /\ TypeOK
    /\ BuildIsGrounded
    /\ NoForeignHistory
    /\ ProcessedWasExtracted
    /\ CacheIsConsistent

\* The initial states satisfy the invariant.
LEMMA InitInvariant == Init => IInv
  <1> SUFFICES ASSUME Init PROVE IInv
    OBVIOUS
  <1> USE GraphAssumption DEF Init, Empty, NoAudit, Unseen
  <1>1. TypeOK
    <2>1. previous \in Marks /\ cache.processed \in Marks /\ cache.graph \subseteq Observation
      BY DEF Marks
    <2>2. audit.graph \subseteq Observation /\ audit.evidence \subseteq Chunks
      OBVIOUS
    <2>3. visible \in 0..NumChunks
      OBVIOUS
    <2>4. errors \in BOOLEAN
      BY Zenon
    <2> QED BY <2>1, <2>2, <2>3, <2>4 DEF TypeOK
  <1>2. BuildIsGrounded /\ NoForeignHistory /\ ProcessedWasExtracted /\ CacheIsConsistent
    BY DEF BuildIsGrounded, NoForeignHistory, ProcessedWasExtracted, CacheIsConsistent
  <1> QED BY <1>1, <1>2 DEF IInv

\* Editing the conversation between two checkpoints preserves the invariant.
LEMMA EditStep ==
    ASSUME IInv, NEW c \in Chunks, NEW version \in Versions, Edit(c, version)
    PROVE  IInv'
  <1> USE DEF IInv, Edit, build, NoAudit
  <1>1. TypeOK'
    BY DEF TypeOK, Observation, Marks, New
  <1>2. BuildIsGrounded' /\ NoForeignHistory'
    BY DEF BuildIsGrounded, NoForeignHistory
  <1>3. ProcessedWasExtracted' /\ CacheIsConsistent'
    BY DEF ProcessedWasExtracted, CacheIsConsistent
  <1> QED BY <1>1, <1>2, <1>3

\* A new process starts with an empty cache.
LEMMA RestartStep == ASSUME IInv, Restart PROVE IInv'
  <1> USE DEF IInv, Restart, build, NoAudit, Empty, Unseen
  <1>1. TypeOK'
    BY DEF TypeOK, Observation, Marks, New
  <1>2. BuildIsGrounded' /\ NoForeignHistory'
    BY DEF BuildIsGrounded, NoForeignHistory
  <1>3. ProcessedWasExtracted' /\ CacheIsConsistent'
    BY DEF ProcessedWasExtracted, CacheIsConsistent
  <1> QED BY <1>1, <1>2, <1>3

\* retrieve keeps the cache only if every processed chunk is still visible with
\* its text; otherwise it starts from nothing.
LEMMA RetrieveStep == ASSUME IInv, NEW k \in Chunks, Retrieve(k) PROVE IInv'
  <1> USE DEF IInv, NoAudit
  <1> DEFINE held == IF Reset(k) THEN Empty ELSE cache
  <1>1. /\ previous' = held.processed /\ graph' = held.graph
        /\ todo' = {c \in 1..k : held.processed[c] = "unseen"}
        /\ visible' = k /\ records' = {} /\ errors' = FALSE
        /\ audit' = NoAudit /\ pc' = "extract"
        /\ UNCHANGED <<text, cache, extracted>>
    BY DEF Retrieve
  <1>2. held.processed \in Marks /\ held.graph \subseteq Observation
    BY DEF TypeOK, Empty, Unseen, Marks, Observation
  <1>3. \A c \in Chunks : held.processed[c] # "unseen" =>
           c <= k /\ text[c] = held.processed[c] /\ <<c, text[c]>> \in extracted
    <2>1. CASE Reset(k)
      BY <2>1 DEF Empty, Unseen
    <2>2. CASE ~Reset(k)
      <3>1. held = cache
        BY <2>2
      <3>2. ASSUME NEW c \in Chunks, cache.processed[c] # "unseen"
            PROVE  c <= k /\ text[c] = cache.processed[c] /\ <<c, text[c]>> \in extracted
        <4>1. ~(c > k) /\ text[c] = cache.processed[c]
          BY <2>2, <3>2 DEF Reset
        <4>2. <<c, text[c]>> \in extracted
          BY <3>2, <4>1 DEF ProcessedWasExtracted
        <4> QED BY <4>1, <4>2 DEF Chunks
      <3> QED BY <3>1, <3>2
    <2> QED BY <2>1, <2>2
  <1>4. \A o \in held.graph : o[1] \in Chunks /\ o[2] = held.processed[o[1]] /\ o[2] # "unseen"
    BY GraphAssumption DEF CacheIsConsistent, TypeOK, Observation, Empty
  <1> HIDE DEF held
  <1>5. TypeOK'
    <2>1. New' = {c \in 1..k : held.processed[c] = "unseen"}
      BY <1>1 DEF New
    <2>2. todo' \subseteq New' /\ records' \subseteq New'
      BY <1>1, <2>1
    <2>3. visible' \in 0..NumChunks
      BY <1>1, GraphAssumption DEF Chunks
    <2> QED BY <1>1, <1>2, <2>2, <2>3 DEF TypeOK
  <1>6. BuildIsGrounded'
    <2>1. New' = todo'
      BY <1>1 DEF New
    <2>2. \A o \in graph' : o[1] <= visible' /\ o[2] = text'[o[1]]
      BY <1>1, <1>3, <1>4
    <2>3. \A c \in Chunks : previous'[c] # "unseen" =>
               c <= visible' /\ text'[c] = previous'[c] /\ <<c, text'[c]>> \in extracted'
      BY <1>1, <1>3
    <2> QED BY <1>1, <2>1, <2>2, <2>3 DEF BuildIsGrounded
  <1>7. NoForeignHistory' /\ ProcessedWasExtracted' /\ CacheIsConsistent'
    BY <1>1 DEF NoForeignHistory, ProcessedWasExtracted, CacheIsConsistent
  <1> QED BY <1>5, <1>6, <1>7

\* The batches of a build, extracted or failed.
LEMMA BatchStep ==
    ASSUME IInv, (\E cited \in SUBSET Chunks : BatchExtracted(cited)) \/ BatchFailed
    PROVE  IInv'
  <1> USE DEF IInv
  <1>1. /\ pc = "extract" /\ todo' = todo \ Batch
        /\ UNCHANGED <<text, cache, pc, visible, previous, graph, audit>>
        /\ records' \subseteq New
        /\ \/ errors' = errors /\ extracted' = extracted \cup Observed(Batch)
           \/ errors' = TRUE /\ extracted' = extracted
    BY DEF BatchExtracted, BatchFailed, SendBatch, TypeOK
  <1>2. Batch \subseteq todo /\ New' = New /\ New \subseteq Chunks
    BY <1>1, GraphAssumption DEF Batch, New, TypeOK, Chunks
  <1>3. Observed(Batch) \subseteq Observation
    BY <1>2 DEF Observed, Observation, TypeOK
  <1>4. TypeOK'
    BY <1>1, <1>2, <1>3 DEF TypeOK
  <1>5. BuildIsGrounded'
    <2>1. extracted \subseteq extracted'
      BY <1>1
    <2>2. ~errors' => \A c \in New' \ todo' : <<c, text'[c]>> \in extracted'
      <3> SUFFICES ASSUME ~errors', NEW c \in New' \ todo'
                   PROVE  <<c, text'[c]>> \in extracted'
        OBVIOUS
      <3>1. ~errors /\ extracted' = extracted \cup Observed(Batch)
        BY <1>1
      <3>2. CASE c \in Batch
        BY <1>1, <3>1, <3>2 DEF Observed
      <3>3. CASE c \notin Batch
        BY <1>1, <1>2, <3>1, <3>3 DEF BuildIsGrounded
      <3> QED BY <3>2, <3>3
    <2> QED BY <1>1, <2>1, <2>2 DEF BuildIsGrounded
  <1>6. NoForeignHistory' /\ ProcessedWasExtracted' /\ CacheIsConsistent'
    BY <1>1 DEF NoForeignHistory, ProcessedWasExtracted, CacheIsConsistent
  <1> QED BY <1>4, <1>5, <1>6

\* Adding the records to the copy of the graph, or raising on them.
LEMMA BuildStep == ASSUME IInv, BuildGraph \/ BuildRaises PROVE IInv'
  <1> USE DEF IInv
  <1>1. New \subseteq Chunks /\ \A c \in New : c <= visible
    BY GraphAssumption DEF New, TypeOK, Chunks
  <1>2. CASE BuildGraph
    <2> USE <1>2 DEF BuildGraph
    <2>1. New' = New
      BY DEF New
    <2>2. \A o \in Observed(records) : o \in Observation /\ o[1] <= visible /\ o[2] = text[o[1]]
      BY <1>1 DEF Observed, Observation, TypeOK
    <2>3. TypeOK'
      BY <2>1, <2>2 DEF TypeOK
    <2>4. BuildIsGrounded'
      BY <2>1, <2>2 DEF BuildIsGrounded
    <2>5. NoForeignHistory' /\ ProcessedWasExtracted' /\ CacheIsConsistent'
      BY DEF NoForeignHistory, ProcessedWasExtracted, CacheIsConsistent
    <2> QED BY <2>3, <2>4, <2>5
  <1>3. CASE BuildRaises
    <2> USE <1>3 DEF BuildRaises, NoAudit, build
    <2>1. TypeOK'
      BY DEF TypeOK, New
    <2>2. BuildIsGrounded' /\ NoForeignHistory'
      BY DEF BuildIsGrounded, NoForeignHistory
    <2>3. ProcessedWasExtracted' /\ CacheIsConsistent'
      BY DEF ProcessedWasExtracted, CacheIsConsistent
    <2> QED BY <2>1, <2>2, <2>3
  <1> QED BY <1>2, <1>3

\* The graph and the visible prefix are committed together.
LEMMA CommitStep ==
    ASSUME IInv, NEW evidence \in SUBSET Chunks, Commit(evidence)
    PROVE  IInv'
  <1> USE DEF IInv
  <1> DEFINE marks == [c \in Chunks |-> IF c <= visible THEN text[c] ELSE "unseen"]
  <1>1. /\ pc = "deliver" /\ ~errors /\ evidence \subseteq {o[1] : o \in graph}
        /\ cache' = [graph |-> graph, processed |-> marks]
        /\ audit' = [status |-> "complete", graph |-> graph, evidence |-> evidence]
        /\ pc' = "idle"
        /\ UNCHANGED <<text, visible, previous, graph, todo, records, errors, extracted>>
    BY DEF Commit, Hand, build
  <1>2. marks \in Marks /\ New' = New
    BY <1>1 DEF Marks, TypeOK, New
  <1>3. \A o \in graph : /\ o[1] \in Chunks /\ o = <<o[1], o[2]>>
                         /\ o[1] <= visible /\ o[2] = text[o[1]]
    BY <1>1 DEF BuildIsGrounded, TypeOK, Observation
  <1>4. ASSUME NEW c \in Chunks, c <= visible PROVE <<c, text[c]>> \in extracted
    <2>1. CASE previous[c] # "unseen"
      BY <1>1, <2>1 DEF BuildIsGrounded
    <2>2. CASE previous[c] = "unseen"
      <3>1. c \in New \ todo
        BY <1>1, <1>4, <2>2 DEF New, BuildIsGrounded, TypeOK, Chunks
      <3> QED BY <1>1, <3>1 DEF BuildIsGrounded
    <2> QED BY <2>1, <2>2
  <1>5. TypeOK'
    BY <1>1, <1>2 DEF TypeOK
  <1>6. BuildIsGrounded'
    BY <1>1 DEF BuildIsGrounded
  <1>7. NoForeignHistory'
    BY <1>1, <1>3 DEF NoForeignHistory
  <1>8. ProcessedWasExtracted'
    BY <1>1, <1>4 DEF ProcessedWasExtracted
  <1>9. CacheIsConsistent'
    BY <1>1, <1>3 DEF CacheIsConsistent
  <1> QED BY <1>5, <1>6, <1>7, <1>8, <1>9

\* A failed build hands over its graph and commits nothing.
LEMMA FallbackStep == ASSUME IInv, Fallback PROVE IInv'
  <1> USE DEF IInv
  <1>1. /\ pc = "deliver" /\ pc' = "idle"
        /\ audit' = [status |-> "insufficient_evidence", graph |-> graph, evidence |-> {}]
        /\ UNCHANGED <<text, cache, visible, previous, graph, todo, records, errors, extracted>>
    BY DEF Fallback, Hand, build
  <1>2. TypeOK'
    BY <1>1 DEF TypeOK, New
  <1>3. BuildIsGrounded'
    BY <1>1 DEF BuildIsGrounded
  <1>4. NoForeignHistory'
    BY <1>1 DEF NoForeignHistory, BuildIsGrounded
  <1>5. ProcessedWasExtracted' /\ CacheIsConsistent'
    BY <1>1 DEF ProcessedWasExtracted, CacheIsConsistent
  <1> QED BY <1>2, <1>3, <1>4, <1>5

\* Every step of the specification preserves the invariant.
LEMMA NextInvariant == IInv /\ [Next]_vars => IInv'
  <1> SUFFICES ASSUME IInv, [Next]_vars PROVE IInv'
    OBVIOUS
  <1>1. CASE \E c \in Chunks, version \in Versions : Edit(c, version)
    BY <1>1, EditStep
  <1>2. CASE \E k \in Chunks : Retrieve(k)
    BY <1>2, RetrieveStep
  <1>3. CASE Step
    BY <1>3, BatchStep, BuildStep, CommitStep, FallbackStep DEF Step
  <1>4. CASE Restart
    BY <1>4, RestartStep
  <1>5. CASE UNCHANGED vars
    BY <1>5 DEF vars, build, IInv, TypeOK, New, BuildIsGrounded, NoForeignHistory,
                ProcessedWasExtracted, CacheIsConsistent
  <1> QED BY <1>1, <1>2, <1>3, <1>4, <1>5 DEF Next

\* The invariant of the slot graph index.
THEOREM Invariance == Spec => []IInv
  BY InitInvariant, NextInvariant, PTL DEF Spec

\* Type correctness of the slot graph index.
THEOREM TypeCorrect == Spec => []TypeOK
  BY Invariance, PTL DEF IInv

\* A checkpoint is never told anything about a text it cannot see.
THEOREM HistoriesSeparated == Spec => []NoForeignHistory
  BY Invariance, PTL DEF IInv

\* A chunk is only marked as processed after a batch with its text went through.
THEOREM NothingSkipped == Spec => []ProcessedWasExtracted
  BY Invariance, PTL DEF IInv

\* Failed and abandoned builds leave no trace in the cache.
THEOREM CacheCorrect == Spec => []CacheIsConsistent
  BY Invariance, PTL DEF IInv

-------------------------------------------------------------------------------
(* Adding the records of a build, a fold over the replies *)

\* Every nonempty set of natural numbers has a least one.
LEMMA LeastExists ==
    ASSUME NEW S \in SUBSET Nat, S # {}
    PROVE  \E n \in S : \A m \in S : ~(m < n)
<1>1. IsWellFoundedOn(OpToRel(<, Nat), Nat)
    BY NatLessThanWellFounded
<1>2. PICK n \in S : \A m \in S : ~(<<m, n>> \in OpToRel(<, Nat))
    BY <1>1, WFMin
<1> QED
    BY <1>2 DEF OpToRel

\* Every set of positions up to n + 1 that has n + 1 in it has it as its greatest.
LEMMA MaxIsLast ==
    ASSUME NEW n \in Nat, NEW s \in SUBSET (1..(n + 1)), n + 1 \in s
    PROVE  /\ Max(s) = n + 1
           /\ s \ {n + 1} \in SUBSET (1..n)
<1>1. \A y \in s : n + 1 >= y
    OBVIOUS
<1>2. \A x \in s : (\A y \in s : x >= y) => x = n + 1
    OBVIOUS
<1>3. Max(s) = n + 1
    BY <1>1, <1>2 DEF Max
<1> QED
    BY <1>3

\* What is true of zero and passed on by every step up to n is true up to n.
LEMMA UpTo ==
    ASSUME NEW n \in Nat, NEW Good, 0 \in Good,
           \A k \in 1..n : k - 1 \in Good => k \in Good
    PROVE  \A k \in 0..n : k \in Good
<1> DEFINE Bad == {k \in 0..n : k \notin Good}
<1> SUFFICES ASSUME Bad # {}
             PROVE  FALSE
    OBVIOUS
<1>1. PICK k \in Bad : \A j \in Bad : ~(j < k)
  <2>1. Bad \in SUBSET Nat
    OBVIOUS
  <2> HIDE DEF Bad
  <2> QED
    BY <2>1, LeastExists
<1>2. k \in 1..n /\ k - 1 \in 0..n /\ k - 1 < k
    OBVIOUS
<1>3. k - 1 \in Good
    BY <1>1, <1>2
<1> QED
    BY <1>2, <1>3

\* A nonempty set of positions has a greatest one.
LEMMA MaxIsIn ==
    ASSUME NEW n \in Nat, NEW s \in SUBSET (1..n), s # {}
    PROVE  Max(s) \in s
<1> DEFINE Above == {k \in Nat : \A q \in s : q <= k}
<1>1. PICK k \in Above : \A j \in Above : ~(j < k)
  <2>1. Above \in SUBSET Nat /\ n \in Above
    OBVIOUS
  <2> HIDE DEF Above
  <2> QED
    BY <2>1, LeastExists
<1>2. k \in Nat /\ (\A q \in s : q <= k) /\ \E q \in s : q \in 1..n
    OBVIOUS
<1>3. k \in s
  <2> SUFFICES ASSUME k \notin s
               PROVE  FALSE
    OBVIOUS
  <2>1. k - 1 \in Nat /\ k - 1 < k
    BY <1>2
  <2>2. ASSUME NEW q \in s
        PROVE  q <= k - 1
    <3>1. q \in Int /\ q <= k /\ q # k
      BY <1>2
    <3> QED
      BY <1>2, <3>1
  <2> QED
    BY <1>1, <2>1, <2>2
<1> QED
    BY <1>2, <1>3 DEF Max

\* The positions up to k, and the greatest of them.
LEMMA PrefixMax ==
    ASSUME NEW n \in Nat, NEW k \in 1..n
    PROVE  /\ (1..k) \in SUBSET (1..n) /\ (1..k) # {}
           /\ Max(1..k) = k
           /\ (1..k) \ {k} = 1..(k - 1)
<1>1. k - 1 \in Nat /\ (k - 1) + 1 = k
    OBVIOUS
<1>2. (1..k) \in SUBSET (1..n) /\ k \in 1..k /\ (1..k) # {}
    OBVIOUS
<1>3. Max(1..k) = k
  <2>1. (1..k) \in SUBSET (1..((k - 1) + 1)) /\ (k - 1) + 1 \in 1..k
    BY <1>1, <1>2
  <2> QED
    BY <2>1, <1>1, MaxIsLast
<1>4. (1..k) \ {k} = 1..(k - 1)
    OBVIOUS
<1> QED
    BY <1>2, <1>3, <1>4

\* The recursion of a fold of s whose steps are those of a function F.
IsIteration(F, s, base, n, f) ==
    f = [S \in SUBSET (1..n) |->
            IF S = {} THEN base ELSE F[<<f[S \ {Max(S)}], s[Max(S)]>>]]

\* It has a solution with values in States.
Iterates(States, F, s, base, n) ==
    \E f \in [SUBSET (1..n) -> States] : IsIteration(F, s, base, n, f)

\* It has one for a list of any length.
LEMMA IterationExists ==
    ASSUME NEW States, NEW F, NEW s, NEW base \in States, NEW m \in Nat,
           \A a \in States, k \in 1..m : F[<<a, s[k]>>] \in States
    PROVE  Iterates(States, F, s, base, m)
<1> DEFINE Good == {n \in 0..m : Iterates(States, F, s, base, n)}
<1>1. 0 \in Good
  <2> DEFINE f == [S \in SUBSET (1..0) |-> base]
  <2>1. \A S \in SUBSET (1..0) : S = {}
    OBVIOUS
  <2>2. f \in [SUBSET (1..0) -> States] /\ IsIteration(F, s, base, 0, f)
    BY <2>1 DEF IsIteration
  <2> QED
    BY <2>2 DEF Iterates
<1>2. ASSUME NEW n \in 1..m, n - 1 \in Good
      PROVE  n \in Good
  <2>1. PICK p \in Nat : n = p + 1
    OBVIOUS
  <2>2. PICK g \in [SUBSET (1..p) -> States] : IsIteration(F, s, base, p, g)
    <3>1. Iterates(States, F, s, base, p)
      BY <1>2, <2>1
    <3> QED
      BY <3>1 DEF Iterates
  <2> DEFINE G(S) == IF S \in SUBSET (1..p) THEN g[S] ELSE F[<<g[S \ {n}], s[n]>>]
             f == [S \in SUBSET (1..n) |-> G(S)]
  <2>3. ASSUME NEW S \in SUBSET (1..n)
        PROVE  /\ G(S) \in States
               /\ G(S) = IF S = {} THEN base ELSE F[<<f[S \ {Max(S)}], s[Max(S)]>>]
    <3>1. CASE S \in SUBSET (1..p)
      <4>1. S \ {Max(S)} \in SUBSET (1..p) /\ S \ {Max(S)} \in SUBSET (1..n)
        BY <3>1, <2>1
      <4>2. f[S \ {Max(S)}] = g[S \ {Max(S)}]
        BY <4>1
      <4>3. g[S] = IF S = {} THEN base ELSE F[<<g[S \ {Max(S)}], s[Max(S)]>>]
        BY <3>1, <2>2 DEF IsIteration
      <4> QED
        BY <3>1, <4>2, <4>3
    <3>2. CASE S \notin SUBSET (1..p)
      <4>1. n \in S
        BY <3>2, <2>1
      <4>2. Max(S) = n /\ S \ {n} \in SUBSET (1..p) /\ S # {}
        BY <4>1, <2>1, MaxIsLast
      <4>3. f[S \ {n}] = g[S \ {n}]
        BY <4>2, <2>1
      <4>4. G(S) = F[<<g[S \ {n}], s[n]>>] /\ g[S \ {n}] \in States
        BY <3>2, <4>2
      <4> QED
        BY <4>2, <4>3, <4>4
    <3> QED
      BY <3>1, <3>2
  <2>4. f \in [SUBSET (1..n) -> States]
    BY <2>3
  <2>5. IsIteration(F, s, base, n, f)
    BY <2>3 DEF IsIteration
  <2> HIDE DEF f
  <2> QED
    BY <2>4, <2>5 DEF Iterates
<1>3. m \in Good
  <2>1. m \in 0..m
    OBVIOUS
  <2> HIDE DEF Good
  <2> QED
    BY <1>1, <1>2, <2>1, UpTo
<1> QED
    BY <1>3

\* The states that a fold of s goes through.
IsChain(States, F, s, base, n, g) ==
    /\ g \in [0..n -> States]
    /\ g[0] = base
    /\ \A k \in 1..n : g[k] = F[<<g[k - 1], s[k]>>]

\* The recursion, where it is about states.
Recurs(States, F, s, base, n, f) ==
    /\ f[{}] = base
    /\ \A S \in SUBSET (1..n) : S # {} /\ f[S \ {Max(S)}] \in States =>
           f[S] = F[<<f[S \ {Max(S)}], s[Max(S)]>>]

\* The fold ends in last.
Chains(States, F, s, base, n, last) ==
    \E g : IsChain(States, F, s, base, n, g) /\ g[n] = last

\* A recursion over the positions of s takes them one after the other.
LEMMA IterationChain ==
    ASSUME NEW States, NEW F, NEW s, NEW base \in States, NEW n \in Nat,
           \A a \in States, k \in 1..n : F[<<a, s[k]>>] \in States,
           NEW f, Recurs(States, F, s, base, n, f)
    PROVE  Chains(States, F, s, base, n, f[1..n])
<1> DEFINE Good == {k \in 0..n : f[1..k] \in States}
           g == [k \in 0..n |-> f[1..k]]
<1>1. f[1..0] = base
  <2>1. (1..0) = {}
    OBVIOUS
  <2> QED
    BY <2>1 DEF Recurs
<1>2. ASSUME NEW k \in 1..n, f[1..(k - 1)] \in States
      PROVE  f[1..k] = F[<<f[1..(k - 1)], s[k]>>]
  <2>1. /\ (1..k) \in SUBSET (1..n) /\ (1..k) # {}
        /\ Max(1..k) = k /\ (1..k) \ {k} = 1..(k - 1)
    BY PrefixMax
  <2> QED
    BY <1>2, <2>1 DEF Recurs
<1>3. \A k \in 0..n : k \in Good
  <2>1. 0 \in Good
    BY <1>1
  <2>2. ASSUME NEW k \in 1..n, k - 1 \in Good
        PROVE  k \in Good
    <3>1. k \in 0..n /\ k - 1 \in 0..n /\ f[1..(k - 1)] \in States
      BY <2>2
    <3>2. f[1..k] = F[<<f[1..(k - 1)], s[k]>>]
      BY <1>2, <3>1
    <3>3. f[1..k] \in States
      BY <3>1, <3>2
    <3> QED
      BY <3>1, <3>3
  <2> HIDE DEF Good
  <2> QED
    BY <2>1, <2>2, UpTo
<1>4. g \in [0..n -> States] /\ g[0] = base /\ g[n] = f[1..n]
    BY <1>1, <1>3
<1>5. ASSUME NEW k \in 1..n
      PROVE  g[k] = F[<<g[k - 1], s[k]>>]
  <2>1. k - 1 \in 0..n /\ g[k - 1] = f[1..(k - 1)] /\ g[k] = f[1..k]
    OBVIOUS
  <2>2. f[1..(k - 1)] \in States
    BY <1>3, <2>1
  <2> QED
    BY <1>2, <2>1, <2>2
<1> HIDE DEF g
<1>6. IsChain(States, F, s, base, n, g)
    BY <1>4, <1>5 DEF IsChain
<1> QED
    BY <1>4, <1>6 DEF Chains

\* The recursion by which FoldLeft adds the records to a graph.
IsFold(rows, base, n, f) ==
    f = [s \in SUBSET (1..n) |->
            IF s = {} THEN base ELSE AddRecord(f[s \ {Max(s)}], rows[Max(s)])]

\* The recursion has a solution, for a list of any length.
LEMMA FoldExists ==
    ASSUME NEW rows, NEW base, NEW m \in Nat
    PROVE  \E f : IsFold(rows, base, m, f)
<1> DEFINE Bad == {n \in Nat : ~\E f : IsFold(rows, base, n, f)}
<1> SUFFICES ASSUME m \in Bad
             PROVE  FALSE
    OBVIOUS
<1>1. PICK n \in Bad : \A j \in Bad : ~(j < n)
  <2>1. Bad \in SUBSET Nat /\ Bad # {}
    OBVIOUS
  <2> HIDE DEF Bad
  <2> QED
    BY <2>1, LeastExists
<1>2. CASE n = 0
  <2> DEFINE f == [s \in SUBSET (1..n) |-> base]
  <2>1. \A s \in SUBSET (1..n) : s = {}
    BY <1>2
  <2>2. IsFold(rows, base, n, f)
    BY <2>1 DEF IsFold
  <2> QED
    BY <1>1, <2>2
<1>3. CASE n # 0
  <2>1. PICK p \in Nat : n = p + 1
    BY <1>3
  <2>2. PICK g : IsFold(rows, base, p, g)
    BY <1>1, <2>1
  <2> DEFINE G(s) == IF s \in SUBSET (1..p) THEN g[s]
                     ELSE AddRecord(g[s \ {n}], rows[n])
             f == [s \in SUBSET (1..n) |-> G(s)]
  <2>3. ASSUME NEW s \in SUBSET (1..n)
        PROVE  G(s) = IF s = {} THEN base ELSE AddRecord(f[s \ {Max(s)}], rows[Max(s)])
    <3>1. CASE s \in SUBSET (1..p)
      <4>1. s \ {Max(s)} \in SUBSET (1..p) /\ s \ {Max(s)} \in SUBSET (1..n)
        BY <3>1, <2>1
      <4>2. f[s \ {Max(s)}] = g[s \ {Max(s)}]
        BY <4>1
      <4>3. g[s] = IF s = {} THEN base ELSE AddRecord(g[s \ {Max(s)}], rows[Max(s)])
        BY <3>1, <2>2 DEF IsFold
      <4> QED
        BY <3>1, <4>2, <4>3
    <3>2. CASE s \notin SUBSET (1..p)
      <4>1. n \in s
        BY <3>2, <2>1
      <4>2. Max(s) = n /\ s \ {n} \in SUBSET (1..p) /\ s # {}
        BY <4>1, <2>1, MaxIsLast
      <4>3. f[s \ {n}] = g[s \ {n}]
        BY <4>2, <2>1
      <4> QED
        BY <3>2, <4>2, <4>3
    <3> QED
      BY <3>1, <3>2
  <2>4. f = [s \in SUBSET (1..n) |->
                IF s = {} THEN base ELSE AddRecord(f[s \ {Max(s)}], rows[Max(s)])]
    BY <2>3
  <2>5. IsFold(rows, base, n, f)
    BY <2>4 DEF IsFold
  <2> QED
    BY <1>1, <2>5
<1> QED
    BY <1>2, <1>3

\* What the solution has for a prefix of the list.
Steps(rows, base, n, f) ==
    /\ f[1..0] = base
    /\ \A k \in 1..n : f[1..k] = AddRecord(f[1..(k - 1)], rows[k])

\* A fold over 1..n takes the records one after the other.
LEMMA FoldSteps ==
    ASSUME NEW rows, NEW base, NEW n \in Nat, NEW f, IsFold(rows, base, n, f)
    PROVE  Steps(rows, base, n, f)
<1>1. f[1..0] = base
  <2>1. (1..0) \in SUBSET (1..n) /\ (1..0) = {}
    OBVIOUS
  <2> QED
    BY <2>1 DEF IsFold
<1>2. ASSUME NEW k \in 1..n
      PROVE  f[1..k] = AddRecord(f[1..(k - 1)], rows[k])
  <2>1. f[1..k] = AddRecord(f[(1..k) \ {Max(1..k)}], rows[Max(1..k)])
    BY PrefixMax DEF IsFold
  <2> QED
    BY <2>1, PrefixMax
<1> QED
    BY <1>1, <1>2 DEF Steps

\* So does the fold that a build is.
LEMMA RecordsFold ==
    ASSUME NEW rows \in Seq(Record \cup {PassedOver}), NEW base
    PROVE  \E g : Steps(rows, base, Len(rows), g) /\ FoldLeft(AddRecord, base, rows) = g[1..Len(rows)]
<1> DEFINE N == Len(rows)
           Runs(f) == f = [s \in SUBSET (1..N) |->
                              IF s = {} THEN base ELSE AddRecord(f[s \ {Max(s)}], rows[Max(s)])]
           g == CHOOSE f : Runs(f)
<1>1. N \in Nat /\ DOMAIN rows = 1..N
    OBVIOUS
<1>2. \E f : Runs(f)
  <2>1. \E f : IsFold(rows, base, N, f)
    <3> HIDE DEF N
    <3> QED
      BY <1>1, FoldExists
  <2> QED
    BY <2>1 DEF IsFold
<1>3. Runs(g)
    BY <1>2
<1>4. FoldLeft(AddRecord, base, rows) = g[1..N]
    BY <1>1 DEF FoldLeft, MapThenFoldSet
<1>5. IsFold(rows, base, N, g)
    BY <1>3 DEF IsFold
<1> HIDE DEF g, N
<1>6. Steps(rows, base, N, g)
    BY <1>1, <1>5, FoldSteps
<1> QED
    BY <1>4, <1>6 DEF N

\* What the observer reports of the records.
FindingsOf(rows) == UNION {Reported(r) : r \in ToSet(rows)}

\* The findings of a graph to which the first k records were added.
FindingsUpTo(rows, base, k) ==
    base.findings \cup UNION {Reported(rows[n]) : n \in 1..k}

\* A build adds the findings of its records, for any number of records, and no other.
LEMMA FindingsFold ==
    ASSUME NEW rows \in Seq(Record \cup {PassedOver}), NEW base
    PROVE  FoldLeft(AddRecord, base, rows).findings = base.findings \cup FindingsOf(rows)
<1> DEFINE N == Len(rows)
<1>1. N \in Nat /\ DOMAIN rows = 1..N
    OBVIOUS
<1>2. PICK g : Steps(rows, base, N, g) /\ FoldLeft(AddRecord, base, rows) = g[1..N]
    BY RecordsFold
<1>3. /\ g[1..0] = base
      /\ \A k \in 1..N : g[1..k] = AddRecord(g[1..(k - 1)], rows[k])
    BY <1>2 DEF Steps
<1> DEFINE Good == {k \in 0..N : g[1..k].findings = FindingsUpTo(rows, base, k)}
<1>4. \A k \in 0..N : k \in Good
  <2>1. 0 \in Good
    <3>1. (1..0) = {} /\ FindingsUpTo(rows, base, 0) = base.findings
      BY DEF FindingsUpTo
    <3> QED
      BY <1>1, <1>3, <3>1
  <2> HIDE DEF N
  <2>2. ASSUME NEW k \in 1..N, k - 1 \in Good
        PROVE  k \in Good
    <3>1. k \in 0..N /\ g[1..(k - 1)].findings = FindingsUpTo(rows, base, k - 1)
      BY <1>1, <2>2
    <3>2. g[1..k].findings = g[1..(k - 1)].findings \cup Reported(rows[k])
      <4> DEFINE h == g[1..(k - 1)]
      <4>1. g[1..k] = AddRecord(h, rows[k])
        BY <1>3
      <4> HIDE DEF h
      <4>2. AddRecord(h, rows[k]).findings = h.findings \cup Reported(rows[k])
        BY DEF AddRecord
      <4> QED
        BY <4>1, <4>2 DEF h
    <3>3. 1..k = (1..(k - 1)) \cup {k}
      BY <1>1
    <3>4. FindingsUpTo(rows, base, k) = FindingsUpTo(rows, base, k - 1) \cup Reported(rows[k])
      BY <3>3 DEF FindingsUpTo
    <3> QED
      BY <3>1, <3>2, <3>4
  <2> HIDE DEF Good
  <2> QED
    BY <1>1, <2>1, <2>2, UpTo
<1>5. g[1..N].findings = FindingsUpTo(rows, base, N)
  <2>1. N \in 0..N
    BY <1>1
  <2> QED
    BY <1>4, <2>1
<1>6. UNION {Reported(rows[n]) : n \in 1..N} = FindingsOf(rows)
    BY <1>1 DEF FindingsOf, ToSet
<1> QED
    BY <1>2, <1>5, <1>6 DEF FindingsUpTo

\* Records of two builds report what each of them reports.
LEMMA FindingsAdd ==
    ASSUME NEW a \in Seq(Record \cup {PassedOver}), NEW b \in Seq(Record \cup {PassedOver})
    PROVE  FindingsOf(a \o b) = FindingsOf(a) \cup FindingsOf(b)
<1>1. ToSet(a \o b) = ToSet(a) \cup ToSet(b)
  <2>1. \A n \in 1..Len(a) : n \in 1..Len(a \o b) /\ (a \o b)[n] = a[n]
    OBVIOUS
  <2>2. \A n \in 1..Len(b) : Len(a) + n \in 1..Len(a \o b) /\ (a \o b)[Len(a) + n] = b[n]
    OBVIOUS
  <2>3. DOMAIN b = 1..Len(b) /\ DOMAIN (a \o b) = 1..Len(a \o b)
    OBVIOUS
  <2>4. ASSUME NEW n \in 1..Len(a \o b)
        PROVE  (a \o b)[n] \in ToSet(a) \cup ToSet(b)
    <3>1. CASE n \in 1..Len(a)
      BY <3>1, <2>1 DEF ToSet
    <3>2. CASE n \notin 1..Len(a)
      <4>1. n - Len(a) \in 1..Len(b) /\ n = Len(a) + (n - Len(a))
        BY <3>2
      <4>2. (a \o b)[n] = b[n - Len(a)]
        BY <4>1, <2>2
      <4> QED
        BY <4>1, <4>2 DEF ToSet
    <3> QED
      BY <3>1, <3>2
  <2>5. ToSet(a \o b) \subseteq ToSet(a) \cup ToSet(b)
    BY <2>4 DEF ToSet
  <2>6. ToSet(a) \subseteq ToSet(a \o b)
    BY <2>1 DEF ToSet
  <2>7. ToSet(b) \subseteq ToSet(a \o b)
    <3> SUFFICES ASSUME NEW n \in 1..Len(b)
                 PROVE  b[n] \in ToSet(a \o b)
      BY <2>3 DEF ToSet
    <3> DEFINE both == a \o b
               i == Len(a) + n
    <3>1. i \in DOMAIN both /\ both[i] = b[n]
      BY <2>2, <2>3
    <3> HIDE DEF both, i
    <3>2. b[n] \in ToSet(both)
      BY <3>1 DEF ToSet
    <3> QED
      BY <3>2 DEF both
  <2> QED
    BY <2>5, <2>6, <2>7
<1> QED
    BY <1>1 DEF FindingsOf

-------------------------------------------------------------------------------
(* The folds that change lists, and their transitions, are made by *)

\* What a list can have in it.
Relations ==
    [type : {"has_slot", "permission", "lifecycle", "source_record"},
     target : Names \cup {NoOne} \cup SlotWords \cup Chunks,
     effect : Effects \cup {"other", "none"}, change : Changes,
     subject : Names \cup {NoOne}, chunk : Chunks]
Lists == Seq(Relations)
Records == Seq(Record \cup {PassedOver})

\* Appending a relation to a list makes a list, and so does what leaves it out.
LEMMA StepTyped ==
    ASSUME NEW list \in Lists, NEW x \in Relations
    PROVE  AppendChange(list, x) \in Lists /\ Turn(list, x) \in Lists
<1>1. Append(list, x) \in Lists
    BY DEF Lists
<1> QED
    BY <1>1 DEF AppendChange, Turn

\* The lists on the way from a list to the one with the changes appended.
IsChanges(list, adds, g) ==
    /\ g \in [0..Len(adds) -> Lists]
    /\ g[0] = list
    /\ \A k \in 1..Len(adds) : g[k] = AppendChange(g[k - 1], adds[k])
    /\ g[Len(adds)] = FoldLeft(AppendChange, list, adds)

\* There are such lists.
LEMMA ChangesSteps ==
    ASSUME NEW list \in Lists, NEW adds \in Lists
    PROVE  \E g : IsChanges(list, adds, g)
<1> DEFINE N == Len(adds)
           Runs(f) == f = [S \in SUBSET (1..N) |->
               IF S = {} THEN list ELSE AppendChange(f[S \ {Max(S)}], adds[Max(S)])]
           h == CHOOSE f : Runs(f)
           F == [p \in Lists \X Relations |-> AppendChange(p[1], p[2])]
<1>1. N \in Nat /\ DOMAIN adds = 1..N /\ \A k \in 1..N : adds[k] \in Relations
    BY DEF Lists
<1>2. \A a \in Lists, x \in Relations :
         F[<<a, x>>] = AppendChange(a, x) /\ F[<<a, x>>] \in Lists
    BY StepTyped
<1>3. ASSUME NEW f, NEW S \in SUBSET (1..N), S # {}, f[S \ {Max(S)}] \in Lists
      PROVE  F[<<f[S \ {Max(S)}], adds[Max(S)]>>]
               = AppendChange(f[S \ {Max(S)}], adds[Max(S)])
  <2>1. Max(S) \in 1..N
    BY <1>1, <1>3, MaxIsIn
  <2>2. adds[Max(S)] \in Relations
    BY <1>1, <2>1
  <2> HIDE DEF F
  <2> QED
    BY <1>2, <1>3, <2>2
<1> HIDE DEF F
<1>4. \A a \in Lists, k \in 1..N : F[<<a, adds[k]>>] \in Lists
    BY <1>1, <1>2
<1>5. list \in Lists
    BY DEF Lists
<1>6. \E f : Runs(f)
  <2>1. Iterates(Lists, F, adds, list, N)
    <3> HIDE DEF N
    <3> QED
      BY <1>1, <1>4, <1>5, IterationExists
  <2>2. PICK f \in [SUBSET (1..N) -> Lists] : IsIteration(F, adds, list, N, f)
    BY <2>1 DEF Iterates
  <2>3. \A S \in SUBSET (1..N) : f[S \ {Max(S)}] \in Lists
    BY <2>2
  <2> HIDE DEF N
  <2>4. f = [S \in SUBSET (1..N) |->
              IF S = {} THEN list ELSE AppendChange(f[S \ {Max(S)}], adds[Max(S)])]
    BY <1>3, <2>2, <2>3 DEF IsIteration
  <2> QED
    BY <2>4
<1>7. Runs(h)
    BY <1>6
<1>8. FoldLeft(AppendChange, list, adds) = h[1..N]
    BY <1>1 DEF FoldLeft, MapThenFoldSet
<1> HIDE DEF h
<1>9. Chains(Lists, F, adds, list, N, h[1..N])
  <2> HIDE DEF N
  <2>1. h[{}] = list
    BY <1>7
  <2>2. ASSUME NEW S \in SUBSET (1..N), S # {}, h[S \ {Max(S)}] \in Lists
        PROVE  h[S] = F[<<h[S \ {Max(S)}], adds[Max(S)]>>]
    <3>1. h[S] = AppendChange(h[S \ {Max(S)}], adds[Max(S)])
      BY <1>7, <2>2
    <3> QED
      BY <1>3, <2>2, <3>1
  <2>3. Recurs(Lists, F, adds, list, N, h)
    BY <2>1, <2>2 DEF Recurs
  <2> QED
    BY <1>1, <1>4, <1>5, <2>3, IterationChain
<1>10. PICK g : IsChain(Lists, F, adds, list, N, g) /\ g[N] = h[1..N]
    BY <1>9 DEF Chains
<1>11. ASSUME NEW k \in 1..N
       PROVE  g[k] = AppendChange(g[k - 1], adds[k])
  <2> HIDE DEF N
  <2>1. k \in Int /\ k - 1 \in 0..N
    BY <1>1
  <2>2. g[k - 1] \in Lists /\ adds[k] \in Relations
    BY <1>1, <1>10, <2>1 DEF IsChain
  <2>3. g[k] = F[<<g[k - 1], adds[k]>>]
    BY <1>10 DEF IsChain
  <2> QED
    BY <1>2, <2>2, <2>3
<1> QED
    BY <1>8, <1>10, <1>11 DEF IsChanges, IsChain

\* The transitions after so much of a list.
IsTurning(past, list, g) ==
    /\ g \in [0..Len(list) -> Lists]
    /\ g[0] = past
    /\ \A k \in 1..Len(list) : g[k] = Turn(g[k - 1], list[k])
    /\ g[Len(list)] = Turns(past, list)

\* There are such transitions.
LEMMA TurnsSteps ==
    ASSUME NEW past \in Lists, NEW list \in Lists
    PROVE  \E g : IsTurning(past, list, g)
<1> DEFINE N == Len(list)
           Runs(f) == f = [S \in SUBSET (1..N) |->
               IF S = {} THEN past ELSE Turn(f[S \ {Max(S)}], list[Max(S)])]
           h == CHOOSE f : Runs(f)
           F == [p \in Lists \X Relations |-> Turn(p[1], p[2])]
<1>1. N \in Nat /\ DOMAIN list = 1..N /\ \A k \in 1..N : list[k] \in Relations
    BY DEF Lists
<1>2. \A a \in Lists, x \in Relations :
         F[<<a, x>>] = Turn(a, x) /\ F[<<a, x>>] \in Lists
    BY StepTyped
<1>3. ASSUME NEW f, NEW S \in SUBSET (1..N), S # {}, f[S \ {Max(S)}] \in Lists
      PROVE  F[<<f[S \ {Max(S)}], list[Max(S)]>>]
               = Turn(f[S \ {Max(S)}], list[Max(S)])
  <2>1. Max(S) \in 1..N
    BY <1>1, <1>3, MaxIsIn
  <2>2. list[Max(S)] \in Relations
    BY <1>1, <2>1
  <2> HIDE DEF F
  <2> QED
    BY <1>2, <1>3, <2>2
<1> HIDE DEF F
<1>4. \A a \in Lists, k \in 1..N : F[<<a, list[k]>>] \in Lists
    BY <1>1, <1>2
<1>5. past \in Lists
    BY DEF Lists
<1>6. \E f : Runs(f)
  <2>1. Iterates(Lists, F, list, past, N)
    <3> HIDE DEF N
    <3> QED
      BY <1>1, <1>4, <1>5, IterationExists
  <2>2. PICK f \in [SUBSET (1..N) -> Lists] : IsIteration(F, list, past, N, f)
    BY <2>1 DEF Iterates
  <2>3. \A S \in SUBSET (1..N) : f[S \ {Max(S)}] \in Lists
    BY <2>2
  <2> HIDE DEF N
  <2>4. f = [S \in SUBSET (1..N) |->
              IF S = {} THEN past ELSE Turn(f[S \ {Max(S)}], list[Max(S)])]
    BY <1>3, <2>2, <2>3 DEF IsIteration
  <2> QED
    BY <2>4
<1>7. Runs(h)
    BY <1>6
<1>8. Turns(past, list) = h[1..N]
    BY <1>1 DEF FoldLeft, MapThenFoldSet, Turns
<1> HIDE DEF h
<1>9. Chains(Lists, F, list, past, N, h[1..N])
  <2> HIDE DEF N
  <2>1. h[{}] = past
    BY <1>7
  <2>2. ASSUME NEW S \in SUBSET (1..N), S # {}, h[S \ {Max(S)}] \in Lists
        PROVE  h[S] = F[<<h[S \ {Max(S)}], list[Max(S)]>>]
    <3>1. h[S] = Turn(h[S \ {Max(S)}], list[Max(S)])
      BY <1>7, <2>2
    <3> QED
      BY <1>3, <2>2, <3>1
  <2>3. Recurs(Lists, F, list, past, N, h)
    BY <2>1, <2>2 DEF Recurs
  <2> QED
    BY <1>1, <1>4, <1>5, <2>3, IterationChain
<1>10. PICK g : IsChain(Lists, F, list, past, N, g) /\ g[N] = h[1..N]
    BY <1>9 DEF Chains
<1>11. ASSUME NEW k \in 1..N
       PROVE  g[k] = Turn(g[k - 1], list[k])
  <2> HIDE DEF N
  <2>1. k \in Int /\ k - 1 \in 0..N
    BY <1>1
  <2>2. g[k - 1] \in Lists /\ list[k] \in Relations
    BY <1>1, <1>10, <2>1 DEF IsChain
  <2>3. g[k] = F[<<g[k - 1], list[k]>>]
    BY <1>10 DEF IsChain
  <2> QED
    BY <1>2, <2>2, <2>3
<1> QED
    BY <1>8, <1>10, <1>11 DEF IsTurning, IsChain

\* One step of Picked.
Taken(s, where, past, i) == IF i \in where THEN Append(past, s[i]) ELSE past

\* It makes a list of the same elements.
LEMMA TakenTyped ==
    ASSUME NEW T, NEW where, NEW s \in Seq(T), NEW past \in Seq(T), NEW i \in 1..Len(s)
    PROVE  Taken(s, where, past, i) \in Seq(T)
  BY DEF Taken

\* What is picked of so much of a list.
IsPicking(T, where, s, g) ==
    /\ g \in [0..Len(s) -> Seq(T)]
    /\ g[0] = <<>>
    /\ \A k \in 1..Len(s) : g[k] = Taken(s, where, g[k - 1], k)
    /\ g[Len(s)] = Picked(s, where)

\* There are such lists.
LEMMA PickedSteps ==
    ASSUME NEW T, NEW where, NEW s \in Seq(T)
    PROVE  \E g : IsPicking(T, where, s, g)
<1> DEFINE N == Len(s)
           idx == [i \in DOMAIN s |-> i]
           Runs(f) == f = [S \in SUBSET (1..N) |->
               IF S = {} THEN <<>> ELSE Taken(s, where, f[S \ {Max(S)}], idx[Max(S)])]
           h == CHOOSE f : Runs(f)
           F == [p \in Seq(T) \X (1..N) |-> Taken(s, where, p[1], p[2])]
<1>1. N \in Nat /\ DOMAIN idx = 1..N /\ (\A k \in 1..N : idx[k] = k) /\ \A k \in 1..N : idx[k] \in 1..N
    OBVIOUS
<1>2. \A a \in Seq(T), x \in 1..N :
         F[<<a, x>>] = Taken(s, where, a, x) /\ F[<<a, x>>] \in Seq(T)
    BY TakenTyped
<1>3. ASSUME NEW f, NEW S \in SUBSET (1..N), S # {}, f[S \ {Max(S)}] \in Seq(T)
      PROVE  F[<<f[S \ {Max(S)}], idx[Max(S)]>>]
               = Taken(s, where, f[S \ {Max(S)}], idx[Max(S)])
  <2>1. Max(S) \in 1..N
    BY <1>1, <1>3, MaxIsIn
  <2>2. idx[Max(S)] \in 1..N
    BY <1>1, <2>1
  <2> HIDE DEF F
  <2> QED
    BY <1>2, <1>3, <2>2
<1> HIDE DEF F
<1>4. \A a \in Seq(T), k \in 1..N : F[<<a, idx[k]>>] \in Seq(T)
    BY <1>1, <1>2
<1>5. <<>> \in Seq(T)
    OBVIOUS
<1>6. \E f : Runs(f)
  <2>1. Iterates(Seq(T), F, idx, <<>>, N)
    <3> HIDE DEF N
    <3> QED
      BY <1>1, <1>4, <1>5, IterationExists
  <2>2. PICK f \in [SUBSET (1..N) -> Seq(T)] : IsIteration(F, idx, <<>>, N, f)
    BY <2>1 DEF Iterates
  <2>3. \A S \in SUBSET (1..N) : f[S \ {Max(S)}] \in Seq(T)
    BY <2>2
  <2> HIDE DEF N
  <2>4. f = [S \in SUBSET (1..N) |->
              IF S = {} THEN <<>> ELSE Taken(s, where, f[S \ {Max(S)}], idx[Max(S)])]
    BY <1>3, <2>2, <2>3 DEF IsIteration
  <2> QED
    BY <2>4
<1>7. Runs(h)
    BY <1>6
<1>8. Picked(s, where) = h[1..N]
    BY <1>1 DEF FoldLeft, MapThenFoldSet, Picked, FoldLeftDomain, Taken
<1> HIDE DEF h
<1>9. Chains(Seq(T), F, idx, <<>>, N, h[1..N])
  <2> HIDE DEF N
  <2>1. h[{}] = <<>>
    BY <1>7
  <2>2. ASSUME NEW S \in SUBSET (1..N), S # {}, h[S \ {Max(S)}] \in Seq(T)
        PROVE  h[S] = F[<<h[S \ {Max(S)}], idx[Max(S)]>>]
    <3>1. h[S] = Taken(s, where, h[S \ {Max(S)}], idx[Max(S)])
      BY <1>7, <2>2
    <3> QED
      BY <1>3, <2>2, <3>1
  <2>3. Recurs(Seq(T), F, idx, <<>>, N, h)
    BY <2>1, <2>2 DEF Recurs
  <2> QED
    BY <1>1, <1>4, <1>5, <2>3, IterationChain
<1>10. PICK g : IsChain(Seq(T), F, idx, <<>>, N, g) /\ g[N] = h[1..N]
    BY <1>9 DEF Chains
<1>11. ASSUME NEW k \in 1..N
       PROVE  g[k] = Taken(s, where, g[k - 1], idx[k])
  <2> HIDE DEF N, idx
  <2>1. k \in Int /\ k - 1 \in 0..N
    BY <1>1
  <2>2. g[k - 1] \in Seq(T) /\ idx[k] \in 1..N
    <3>1. idx[k] \in 1..N
      BY <1>1
    <3>2. g[k - 1] \in Seq(T)
      BY <1>10, <2>1 DEF IsChain
    <3> QED
      BY <3>1, <3>2
  <2>3. g[k] = F[<<g[k - 1], idx[k]>>]
    BY <1>10 DEF IsChain
  <2> QED
    BY <1>2, <2>2, <2>3
<1> QED
    BY <1>1, <1>8, <1>10, <1>11 DEF IsPicking, IsChain

\* What is picked of a list is of the same elements.
LEMMA PickedTyped ==
    ASSUME NEW T, NEW where, NEW s \in Seq(T)
    PROVE  Picked(s, where) \in Seq(T)
<1>1. PICK g : IsPicking(T, where, s, g)
    BY PickedSteps
<1>2. Len(s) \in 0..Len(s)
    OBVIOUS
<1> QED
    BY <1>1, <1>2 DEF IsPicking

\* The transitions of a list are a list.
LEMMA TurnsTyped ==
    ASSUME NEW past \in Lists, NEW list \in Lists
    PROVE  Turns(past, list) \in Lists
<1>1. PICK g : IsTurning(past, list, g)
    BY TurnsSteps
<1>2. Len(list) \in 0..Len(list)
    BY DEF Lists
<1> QED
    BY <1>1, <1>2 DEF IsTurning

\* Nothing is no transition.
LEMMA TurnsOfNone ==
    ASSUME NEW past \in Lists
    PROVE  Turns(past, <<>>) = past
<1>1. <<>> \in Lists /\ Len(<<>>) = 0
    BY DEF Lists
<1>2. PICK g : IsTurning(past, <<>>, g)
    BY <1>1, TurnsSteps
<1> QED
    BY <1>1, <1>2 DEF IsTurning

\* What a record adds to the list of an entity is a list.
LEMMA AdditionsTyped ==
    ASSUME NEW r \in Record \cup {PassedOver}, NEW e
    PROVE  Additions(r, e) \in Lists
<1>1. CASE r = PassedOver
  <2>1. Additions(r, e) = <<>>
    BY <1>1 DEF Additions, PassedOver
  <2> QED
    BY <2>1 DEF Lists
<1>2. CASE r \in Record /\ r # PassedOver
  <2>1. /\ r.chunk \in Chunks /\ r.spanned \in BOOLEAN /\ r.slots \in Seq(SlotWords)
        /\ r.policies \in Seq(Policy) /\ r.lifecycle \in Seq(Changes)
    BY <1>2 DEF Record
  <2>2. <<Anchor(r)>> \in Lists
    <3>1. Anchor(r) \in Relations
      BY <2>1 DEF Anchor, Relation, Relations, Changes
    <3> QED
      BY <3>1 DEF Lists
  <2>3. \A word \in SlotWords : Slot(r, word) \in Relations
    BY <2>1 DEF Slot, Relation, Relations, Changes
  <2>4. \A p \in Policy : Permission(r, p) \in Relations
    BY <2>1 DEF Permission, Relation, Relations, Policy, Changes
  <2>5. \A c \in Changes : Lifecycle(r, c) \in Relations
    BY <2>1 DEF Lifecycle, Relation, Relations
  <2>6. Candidates(r, e) \in Lists
    <3> DEFINE own(s) == IF e \in OwnEntities(r) THEN s ELSE <<>>
               where == {i \in DOMAIN r.policies :
                            Stands(r.policies[i]) /\ e \in Holders(r, r.policies[i])}
               real == {i \in DOMAIN r.lifecycle : r.lifecycle[i] # "none"}
               slots == own(r.slots)
               filed == Picked(r.policies, where)
               changes == own(Picked(r.lifecycle, real))
               a == [i \in DOMAIN slots |-> Slot(r, slots[i])]
               b == [i \in DOMAIN filed |-> Permission(r, filed[i])]
               c == [i \in DOMAIN changes |-> Lifecycle(r, changes[i])]
    <3>1. Candidates(r, e) = a \o b \o c
      BY DEF Candidates
    <3>2. slots \in Seq(SlotWords)
      BY <2>1
    <3>3. filed \in Seq(Policy)
      <4> HIDE DEF where
      <4> QED
        BY <2>1, PickedTyped
    <3>4. changes \in Seq(Changes)
      <4> HIDE DEF real
      <4>1. Picked(r.lifecycle, real) \in Seq(Changes)
        BY <2>1, PickedTyped
      <4> QED
        BY <4>1
    <3> HIDE DEF slots, filed, changes
    <3>5. a \in Seq(Relations)
      BY <2>3, <3>2
    <3>6. b \in Seq(Relations)
      BY <2>4, <3>3
    <3>7. c \in Seq(Relations)
      BY <2>5, <3>4
    <3> HIDE DEF a, b, c
    <3> QED
      BY <3>1, <3>5, <3>6, <3>7 DEF Lists
  <2>7. <<>> \in Lists
    BY DEF Lists
  <2>8. Additions(r, e) \in {<<>>, <<Anchor(r)>>, Candidates(r, e)}
    BY <1>2, <2>1 DEF Additions
  <2> QED
    BY <2>2, <2>6, <2>7, <2>8
<1> QED
    BY <1>1, <1>2

\* The transitions after so many records.
IsTelling(e, rows, g) ==
    /\ g \in [0..Len(rows) -> Lists]
    /\ g[0] = <<>>
    /\ \A k \in 1..Len(rows) : g[k] = Turns(g[k - 1], Additions(rows[k], e))
    /\ g[Len(rows)] = Transitions(rows, e)

\* There are such transitions.
LEMMA TransitionsSteps ==
    ASSUME NEW e, NEW rows \in Records
    PROVE  \E g : IsTelling(e, rows, g)
<1> DEFINE N == Len(rows)
           Runs(f) == f = [S \in SUBSET (1..N) |->
               IF S = {} THEN <<>> ELSE Turns(f[S \ {Max(S)}], Additions(rows[Max(S)], e))]
           h == CHOOSE f : Runs(f)
           F == [p \in Lists \X (Record \cup {PassedOver}) |-> Turns(p[1], Additions(p[2], e))]
<1>1. N \in Nat /\ DOMAIN rows = 1..N /\ \A k \in 1..N : rows[k] \in (Record \cup {PassedOver})
    BY DEF Records
<1>2. \A a \in Lists, x \in (Record \cup {PassedOver}) :
         F[<<a, x>>] = Turns(a, Additions(x, e)) /\ F[<<a, x>>] \in Lists
    BY TurnsTyped, AdditionsTyped
<1>3. ASSUME NEW f, NEW S \in SUBSET (1..N), S # {}, f[S \ {Max(S)}] \in Lists
      PROVE  F[<<f[S \ {Max(S)}], rows[Max(S)]>>]
               = Turns(f[S \ {Max(S)}], Additions(rows[Max(S)], e))
  <2>1. Max(S) \in 1..N
    BY <1>1, <1>3, MaxIsIn
  <2>2. rows[Max(S)] \in (Record \cup {PassedOver})
    BY <1>1, <2>1
  <2> HIDE DEF F
  <2> QED
    BY <1>2, <1>3, <2>2
<1> HIDE DEF F
<1>4. \A a \in Lists, k \in 1..N : F[<<a, rows[k]>>] \in Lists
    BY <1>1, <1>2
<1>5. <<>> \in Lists
    BY DEF Lists
<1>6. \E f : Runs(f)
  <2>1. Iterates(Lists, F, rows, <<>>, N)
    <3> HIDE DEF N
    <3> QED
      BY <1>1, <1>4, <1>5, IterationExists
  <2>2. PICK f \in [SUBSET (1..N) -> Lists] : IsIteration(F, rows, <<>>, N, f)
    BY <2>1 DEF Iterates
  <2>3. \A S \in SUBSET (1..N) : f[S \ {Max(S)}] \in Lists
    BY <2>2
  <2> HIDE DEF N
  <2>4. f = [S \in SUBSET (1..N) |->
              IF S = {} THEN <<>> ELSE Turns(f[S \ {Max(S)}], Additions(rows[Max(S)], e))]
    BY <1>3, <2>2, <2>3 DEF IsIteration
  <2> QED
    BY <2>4
<1>7. Runs(h)
    BY <1>6
<1>8. Transitions(rows, e) = h[1..N]
    BY <1>1 DEF FoldLeft, MapThenFoldSet, Transitions
<1> HIDE DEF h
<1>9. Chains(Lists, F, rows, <<>>, N, h[1..N])
  <2> HIDE DEF N
  <2>1. h[{}] = <<>>
    BY <1>7
  <2>2. ASSUME NEW S \in SUBSET (1..N), S # {}, h[S \ {Max(S)}] \in Lists
        PROVE  h[S] = F[<<h[S \ {Max(S)}], rows[Max(S)]>>]
    <3>1. h[S] = Turns(h[S \ {Max(S)}], Additions(rows[Max(S)], e))
      BY <1>7, <2>2
    <3> QED
      BY <1>3, <2>2, <3>1
  <2>3. Recurs(Lists, F, rows, <<>>, N, h)
    BY <2>1, <2>2 DEF Recurs
  <2> QED
    BY <1>1, <1>4, <1>5, <2>3, IterationChain
<1>10. PICK g : IsChain(Lists, F, rows, <<>>, N, g) /\ g[N] = h[1..N]
    BY <1>9 DEF Chains
<1>11. ASSUME NEW k \in 1..N
       PROVE  g[k] = Turns(g[k - 1], Additions(rows[k], e))
  <2> HIDE DEF N
  <2>1. k \in Int /\ k - 1 \in 0..N
    BY <1>1
  <2>2. g[k - 1] \in Lists /\ rows[k] \in (Record \cup {PassedOver})
    BY <1>1, <1>10, <2>1 DEF IsChain
  <2>3. g[k] = F[<<g[k - 1], rows[k]>>]
    BY <1>10 DEF IsChain
  <2> QED
    BY <1>2, <2>2, <2>3
<1> QED
    BY <1>8, <1>10, <1>11 DEF IsTelling, IsChain

-------------------------------------------------------------------------------
(* The history of an entity *)

\* One more relation is at most one more transition.
LEMMA TurnsAppend ==
    ASSUME NEW past \in Lists, NEW list \in Lists, NEW x \in Relations
    PROVE  Turns(past, Append(list, x)) = Turn(Turns(past, list), x)
<1> DEFINE longer == Append(list, x)
           N == Len(list)
<1>1. /\ N \in Nat /\ longer \in Lists /\ Len(longer) = N + 1 /\ longer[N + 1] = x
      /\ \A k \in 1..N : longer[k] = list[k]
    BY DEF Lists
<1> HIDE DEF longer, N
<1>2. PICK g : IsTurning(past, list, g)
    BY TurnsSteps
<1>3. PICK h : IsTurning(past, longer, h)
    BY <1>1, TurnsSteps
<1>4. /\ g[0] = past /\ g[N] = Turns(past, list)
      /\ \A k \in 1..N : g[k] = Turn(g[k - 1], list[k])
    BY <1>2 DEF IsTurning, N
<1>5. /\ h[0] = past /\ h[N + 1] = Turns(past, longer)
      /\ \A k \in 1..(N + 1) : h[k] = Turn(h[k - 1], longer[k])
    BY <1>1, <1>3 DEF IsTurning
<1> DEFINE Good == {k \in 0..N : h[k] = g[k]}
<1>6. \A k \in 0..N : k \in Good
  <2>1. 0 \in Good
    BY <1>1, <1>4, <1>5
  <2>2. ASSUME NEW k \in 1..N, k - 1 \in Good
        PROVE  k \in Good
    <3>1. k \in 0..N /\ k \in 1..(N + 1) /\ h[k - 1] = g[k - 1]
      BY <1>1, <2>2
    <3>2. h[k] = Turn(h[k - 1], longer[k]) /\ g[k] = Turn(g[k - 1], list[k])
      BY <1>4, <1>5, <3>1
    <3> QED
      BY <1>1, <3>1, <3>2
  <2> HIDE DEF Good
  <2> QED
    BY <1>1, <2>1, <2>2, UpTo
<1>7. h[N] = g[N] /\ h[N + 1] = Turn(h[N], longer[N + 1])
  <2>1. N \in 0..N /\ N + 1 \in 1..(N + 1) /\ (N + 1) - 1 = N
    BY <1>1
  <2>2. h[N] = g[N]
    BY <1>6, <2>1
  <2>3. h[N + 1] = Turn(h[(N + 1) - 1], longer[N + 1])
    BY <1>5, <2>1
  <2> QED
    BY <2>1, <2>2, <2>3
<1> QED
    BY <1>1, <1>4, <1>5, <1>7 DEF longer

\* One more record tells what it adds.
LEMMA TransitionsAppend ==
    ASSUME NEW rows \in Records, NEW r \in Record \cup {PassedOver}, NEW e
    PROVE  Transitions(Append(rows, r), e) = Turns(Transitions(rows, e), Additions(r, e))
<1> DEFINE longer == Append(rows, r)
           N == Len(rows)
<1>1. /\ N \in Nat /\ longer \in Records /\ Len(longer) = N + 1 /\ longer[N + 1] = r
      /\ \A k \in 1..N : longer[k] = rows[k]
    BY DEF Records
<1> HIDE DEF longer, N
<1>2. PICK g : IsTelling(e, rows, g)
    BY TransitionsSteps
<1>3. PICK h : IsTelling(e, longer, h)
    BY <1>1, TransitionsSteps
<1>4. /\ g[0] = <<>> /\ g[N] = Transitions(rows, e)
      /\ \A k \in 1..N : g[k] = Turns(g[k - 1], Additions(rows[k], e))
    BY <1>2 DEF IsTelling, N
<1>5. /\ h[0] = <<>> /\ h[N + 1] = Transitions(longer, e)
      /\ \A k \in 1..(N + 1) : h[k] = Turns(h[k - 1], Additions(longer[k], e))
    BY <1>1, <1>3 DEF IsTelling
<1> DEFINE Good == {k \in 0..N : h[k] = g[k]}
<1>6. \A k \in 0..N : k \in Good
  <2>1. 0 \in Good
    BY <1>1, <1>4, <1>5
  <2>2. ASSUME NEW k \in 1..N, k - 1 \in Good
        PROVE  k \in Good
    <3>1. k \in 0..N /\ k \in 1..(N + 1) /\ h[k - 1] = g[k - 1]
      BY <1>1, <2>2
    <3>2. /\ h[k] = Turns(h[k - 1], Additions(longer[k], e))
          /\ g[k] = Turns(g[k - 1], Additions(rows[k], e))
      BY <1>4, <1>5, <3>1
    <3> QED
      BY <1>1, <3>1, <3>2
  <2> HIDE DEF Good
  <2> QED
    BY <1>1, <2>1, <2>2, UpTo
<1>7. h[N] = g[N] /\ h[N + 1] = Turns(h[N], Additions(longer[N + 1], e))
  <2>1. N \in 0..N /\ N + 1 \in 1..(N + 1) /\ (N + 1) - 1 = N
    BY <1>1
  <2>2. h[N] = g[N]
    BY <1>6, <2>1
  <2>3. h[N + 1] = Turns(h[(N + 1) - 1], Additions(longer[N + 1], e))
    BY <1>5, <2>1
  <2> QED
    BY <2>1, <2>2, <2>3
<1> QED
    BY <1>1, <1>4, <1>5, <1>7 DEF longer

\* Without records there are no transitions.
LEMMA TransitionsOfNone == \A e : Transitions(<<>>, e) = <<>>
<1> SUFFICES ASSUME NEW e
             PROVE  Transitions(<<>>, e) = <<>>
    OBVIOUS
<1>1. <<>> \in Records /\ Len(<<>>) = 0
    BY DEF Records
<1>2. PICK g : IsTelling(e, <<>>, g)
    BY <1>1, TransitionsSteps
<1> QED
    BY <1>1, <1>2 DEF IsTelling

\* What restates a relation is no transition after it.
LEMMA TurnTwice ==
    ASSUME NEW past \in Lists, NEW x \in Relations, NEW y \in Relations, Restate(x, y)
    PROVE  Turn(Turn(past, x), y) = Turn(past, x)
<1>1. Governing(x) <=> Governing(y)
    BY DEF Governing, Restate
<1>2. CASE ~Governing(x)
    BY <1>1, <1>2 DEF Turn
<1>3. CASE Governing(x) /\ (past = <<>> \/ ~Restate(Last(past), x))
  <2>1. Turn(past, x) = Append(past, x)
    BY <1>3 DEF Turn
  <2>2. Append(past, x) # <<>> /\ Last(Append(past, x)) = x
    BY DEF Lists, Last
  <2> QED
    BY <2>1, <2>2 DEF Turn
<1>4. CASE Governing(x) /\ past # <<>> /\ Restate(Last(past), x)
  <2>1. Restate(Last(past), y)
    BY <1>4 DEF Restate
  <2> QED
    BY <1>4, <2>1 DEF Turn
<1> QED
    BY <1>2, <1>3, <1>4

\* A list loses no transition by leaving out what restates its last relation.
LEMMA ChangeTurns ==
    ASSUME NEW list \in Lists, NEW x \in Relations
    PROVE  Turns(<<>>, AppendChange(list, x)) = Turn(Turns(<<>>, list), x)
<1>0. <<>> \in Lists
    BY DEF Lists
<1>1. CASE list # <<>> /\ Restate(Last(list), x)
  <2> DEFINE N == Len(list)
             front == SubSeq(list, 1, N - 1)
             last == list[N]
  <2>1. N \in Nat \ {0} /\ front \in Lists /\ last \in Relations
    BY <1>1 DEF Lists
  <2>2. list = Append(front, last)
    BY <1>1, <2>1 DEF Lists
  <2>3. Restate(last, x) /\ AppendChange(list, x) = list
    BY <1>1 DEF Last, AppendChange
  <2> HIDE DEF N, front, last
  <2>4. Turns(<<>>, list) = Turn(Turns(<<>>, front), last)
    BY <1>0, <2>1, <2>2, TurnsAppend
  <2>5. Turns(<<>>, front) \in Lists
    BY <1>0, <2>1, TurnsTyped
  <2> QED
    BY <2>1, <2>3, <2>4, <2>5, TurnTwice
<1>2. CASE ~(list # <<>> /\ Restate(Last(list), x))
  <2>1. AppendChange(list, x) = Append(list, x)
    BY <1>2 DEF AppendChange
  <2> QED
    BY <1>0, <2>1, TurnsAppend
<1> QED
    BY <1>1, <1>2

\* Nor does it for a list of any length, of relations of any kind between them.
LEMMA ChangesTurns ==
    ASSUME NEW list \in Lists, NEW adds \in Lists
    PROVE  /\ FoldLeft(AppendChange, list, adds) \in Lists
           /\ Turns(<<>>, FoldLeft(AppendChange, list, adds)) = Turns(Turns(<<>>, list), adds)
<1> DEFINE N == Len(adds)
           start == Turns(<<>>, list)
<1>1. N \in Nat /\ (\A k \in 1..N : adds[k] \in Relations) /\ <<>> \in Lists
    BY DEF Lists
<1>2. start \in Lists
    BY <1>1, TurnsTyped
<1>3. PICK g : IsChanges(list, adds, g)
    BY ChangesSteps
<1>4. PICK h : IsTurning(start, adds, h)
  <2> HIDE DEF start
  <2> QED
    BY <1>2, TurnsSteps
<1>5. /\ (\A k \in 0..N : g[k] \in Lists) /\ g[0] = list
      /\ g[N] = FoldLeft(AppendChange, list, adds)
      /\ \A k \in 1..N : g[k] = AppendChange(g[k - 1], adds[k])
    BY <1>3 DEF IsChanges
<1>6. /\ h[0] = start /\ h[N] = Turns(start, adds)
      /\ \A k \in 1..N : h[k] = Turn(h[k - 1], adds[k])
    BY <1>4 DEF IsTurning
<1> DEFINE Good == {k \in 0..N : Turns(<<>>, g[k]) = h[k]}
<1>7. \A k \in 0..N : k \in Good
  <2>1. 0 \in Good
    BY <1>1, <1>5, <1>6
  <2> HIDE DEF N
  <2>2. ASSUME NEW k \in 1..N, k - 1 \in Good
        PROVE  k \in Good
    <3>1. k \in 0..N /\ k - 1 \in 0..N /\ Turns(<<>>, g[k - 1]) = h[k - 1]
      BY <1>1, <2>2
    <3>2. Turns(<<>>, AppendChange(g[k - 1], adds[k])) = Turn(Turns(<<>>, g[k - 1]), adds[k])
      BY <1>1, <1>5, <3>1, ChangeTurns
    <3> QED
      BY <1>5, <1>6, <3>1, <3>2
  <2> HIDE DEF Good
  <2> QED
    BY <1>1, <2>1, <2>2, UpTo
<1>8. N \in 0..N
    BY <1>1
<1> QED
    BY <1>5, <1>6, <1>7, <1>8

\* The change lists of a graph are those of the records it was built of.
IsHistoryOf(lists, rows) ==
    /\ lists \in [Entities -> Lists]
    /\ \A e \in Entities : Turns(<<>>, lists[e]) = Transitions(rows, e)

\* Adding a record adds what it tells.
LEMMA RecordHistory ==
    ASSUME NEW g, NEW rows \in Records, IsHistoryOf(g.lists, rows),
           NEW r \in Record \cup {PassedOver}
    PROVE  IsHistoryOf(AddRecord(g, r).lists, Append(rows, r))
<1> DEFINE lists == [e \in Entities |-> FoldLeft(AppendChange, g.lists[e], Additions(r, e))]
<1>1. AddRecord(g, r).lists = lists
    BY DEF AddRecord
<1>2. ASSUME NEW e \in Entities
      PROVE  lists[e] \in Lists /\ Turns(<<>>, lists[e]) = Transitions(Append(rows, r), e)
  <2> DEFINE adds == Additions(r, e)
             list == g.lists[e]
  <2>1. list \in Lists /\ Turns(<<>>, list) = Transitions(rows, e)
    BY DEF IsHistoryOf
  <2>2. adds \in Lists
    BY AdditionsTyped
  <2>3. Transitions(Append(rows, r), e) = Turns(Transitions(rows, e), adds)
    BY TransitionsAppend
  <2>4. lists[e] = FoldLeft(AppendChange, list, adds)
    OBVIOUS
  <2> HIDE DEF adds, list, lists
  <2>5. /\ FoldLeft(AppendChange, list, adds) \in Lists
        /\ Turns(<<>>, FoldLeft(AppendChange, list, adds)) = Turns(Turns(<<>>, list), adds)
    BY <2>1, <2>2, ChangesTurns
  <2> QED
    BY <2>1, <2>3, <2>4, <2>5
<1> QED
    BY <1>1, <1>2 DEF IsHistoryOf

\* A build adds what its records tell, in their order.
LEMMA BuildHistory ==
    ASSUME NEW base, NEW past \in Records, IsHistoryOf(base.lists, past), NEW rows \in Records
    PROVE  IsHistoryOf(FoldLeft(AddRecord, base, rows).lists, past \o rows)
<1> DEFINE N == Len(rows)
           upTo(k) == past \o SubSeq(rows, 1, k)
<1>1. N \in Nat /\ \A k \in 1..N : rows[k] \in Record \cup {PassedOver}
    BY DEF Records
<1>2. PICK g : /\ Steps(rows, base, N, g)
               /\ FoldLeft(AddRecord, base, rows) = g[1..N]
    BY RecordsFold DEF Records
<1>3. g[1..0] = base /\ \A k \in 1..N : g[1..k] = AddRecord(g[1..(k - 1)], rows[k])
    BY <1>2 DEF Steps
<1>4. upTo(0) = past /\ upTo(N) = past \o rows
  <2>1. SubSeq(rows, 1, 0) = <<>> /\ SubSeq(rows, 1, N) = rows
    BY DEF Records
  <2> QED
    BY <2>1 DEF Records
<1>5. ASSUME NEW k \in 1..N
      PROVE  upTo(k - 1) \in Records /\ upTo(k) = Append(upTo(k - 1), rows[k])
  <2> DEFINE some == SubSeq(rows, 1, k - 1)
  <2>1. k \in 1..Len(rows) /\ rows[k] \in Record \cup {PassedOver}
    BY <1>1
  <2>2. some \in Records /\ SubSeq(rows, 1, k) = Append(some, rows[k])
    BY <2>1 DEF Records
  <2> HIDE DEF some
  <2>3. past \o some \in Records /\ past \o Append(some, rows[k]) = Append(past \o some, rows[k])
    BY <2>1, <2>2 DEF Records
  <2> QED
    BY <2>2, <2>3 DEF some
<1> HIDE DEF upTo
<1> DEFINE Good == {k \in 0..N : IsHistoryOf(g[1..k].lists, upTo(k))}
<1>6. \A k \in 0..N : k \in Good
  <2>1. 0 \in Good
    BY <1>1, <1>3, <1>4
  <2> HIDE DEF N
  <2>2. ASSUME NEW k \in 1..N, k - 1 \in Good
        PROVE  k \in Good
    <3> DEFINE h == g[1..(k - 1)]
    <3>1. k \in 0..N /\ IsHistoryOf(h.lists, upTo(k - 1))
      BY <1>1, <2>2
    <3>2. g[1..k] = AddRecord(h, rows[k])
      BY <1>3
    <3> HIDE DEF h
    <3>3. IsHistoryOf(AddRecord(h, rows[k]).lists, Append(upTo(k - 1), rows[k]))
      BY <1>1, <1>5, <3>1, RecordHistory
    <3> QED
      BY <1>5, <3>1, <3>2, <3>3
  <2> HIDE DEF Good
  <2> QED
    BY <1>1, <2>1, <2>2, UpTo
<1>7. N \in 0..N
    BY <1>1
<1> QED
    BY <1>2, <1>4, <1>6, <1>7

\* What is picked of a list has all of its transitions if every governing relation is
\* picked.
LEMMA PickedTurns ==
    ASSUME NEW list \in Lists, NEW where,
           \A i \in 1..Len(list) : Governing(list[i]) => i \in where
    PROVE  Turns(<<>>, Picked(list, where)) = Turns(<<>>, list)
<1> DEFINE N == Len(list)
<1>1. N \in Nat /\ (\A k \in 1..N : list[k] \in Relations) /\ <<>> \in Lists
    BY DEF Lists
<1>2. PICK c : IsPicking(Relations, where, list, c)
    BY PickedSteps DEF Lists
<1>3. PICK h : IsTurning(<<>>, list, h)
    BY <1>1, TurnsSteps
<1>4. /\ (\A k \in 0..N : c[k] \in Lists) /\ c[0] = <<>> /\ c[N] = Picked(list, where)
      /\ \A k \in 1..N : c[k] = Taken(list, where, c[k - 1], k)
    BY <1>2 DEF IsPicking, Lists
<1>5. /\ h[0] = <<>> /\ h[N] = Turns(<<>>, list)
      /\ \A k \in 1..N : h[k] = Turn(h[k - 1], list[k])
    BY <1>3 DEF IsTurning
<1> DEFINE Good == {k \in 0..N : Turns(<<>>, c[k]) = h[k]}
<1>6. \A k \in 0..N : k \in Good
  <2>1. 0 \in Good
    BY <1>1, <1>4, <1>5, TurnsOfNone
  <2>2. ASSUME NEW k \in 1..N, k - 1 \in Good
        PROVE  k \in Good
    <3>1. k \in 0..N /\ k - 1 \in 0..N /\ Turns(<<>>, c[k - 1]) = h[k - 1]
      BY <1>1, <2>2
    <3>2. c[k - 1] \in Lists /\ list[k] \in Relations /\ h[k] = Turn(h[k - 1], list[k])
      BY <1>1, <1>4, <1>5, <3>1
    <3>3. CASE k \in where
      <4>1. c[k] = Append(c[k - 1], list[k])
        BY <1>4, <3>3 DEF Taken
      <4>2. Turns(<<>>, Append(c[k - 1], list[k])) = Turn(Turns(<<>>, c[k - 1]), list[k])
        BY <1>1, <3>2, TurnsAppend
      <4> QED
        BY <3>1, <3>2, <4>1, <4>2
    <3>4. CASE k \notin where
      <4>1. c[k] = c[k - 1]
        BY <1>4, <3>4 DEF Taken
      <4>2. ~Governing(list[k])
        BY <3>4
      <4>3. h[k] = h[k - 1]
        BY <3>2, <4>2 DEF Turn
      <4> QED
        BY <3>1, <4>1, <4>3
    <3> QED
      BY <3>3, <3>4
  <2> HIDE DEF Good, N
  <2> QED
    BY <1>1, <2>1, <2>2, UpTo
<1>7. N \in 0..N
    BY <1>1
<1> QED
    BY <1>4, <1>5, <1>6, <1>7

\* A list without a governing relation has no transition.
LEMMA NoTurns ==
    ASSUME NEW list \in Lists, \A i \in 1..Len(list) : ~Governing(list[i])
    PROVE  Turns(<<>>, list) = <<>>
<1> DEFINE N == Len(list)
<1>1. N \in Nat /\ <<>> \in Lists
    BY DEF Lists
<1>2. PICK h : IsTurning(<<>>, list, h)
    BY <1>1, TurnsSteps
<1>3. /\ h[0] = <<>> /\ h[N] = Turns(<<>>, list)
      /\ \A k \in 1..N : h[k] = Turn(h[k - 1], list[k])
    BY <1>2 DEF IsTurning
<1> DEFINE Good == {k \in 0..N : h[k] = <<>>}
<1>4. \A k \in 0..N : k \in Good
  <2>1. 0 \in Good
    BY <1>1, <1>3
  <2>2. ASSUME NEW k \in 1..N, k - 1 \in Good
        PROVE  k \in Good
    BY <1>1, <1>3, <2>2 DEF Turn
  <2> HIDE DEF Good, N
  <2> QED
    BY <1>1, <2>1, <2>2, UpTo
<1>5. N \in 0..N
    BY <1>1
<1> QED
    BY <1>3, <1>4, <1>5

-------------------------------------------------------------------------------
(* Change lists and findings *)

\* The cached graph and the one under construction report what the records told,
\* and so does what was handed over, until the next retrieve.
ListInv ==
    /\ replied \in Records
    /\ told \in [kept : Records, work : Records]
    /\ kept.findings = FindingsOf(told.kept)
    /\ pc # "idle" => work.findings = FindingsOf(told.work) /\ audit.status = "none"
    /\ pc = "idle" => RestrictionsStayReported

\* Without records there is nothing to report.
LEMMA NoRecords == <<>> \in Records /\ FindingsOf(<<>>) = {}
  BY DEF Records, FindingsOf, ToSet

\* A step of the index with its lists is one of the index.
LEMMA ListsStep == TypeOK /\ [ListNext]_graphVars => [Next]_vars
  <1> SUFFICES ASSUME TypeOK, [ListNext]_graphVars
               PROVE  [Next]_vars
    OBVIOUS
  <1>1. visible \in 0..NumChunks /\ New \subseteq Chunks /\ 1..visible \subseteq Chunks
    BY GraphAssumption DEF TypeOK, New, Chunks
  <1>2. ASSUME NEW c \in Chunks, NEW version \in Versions, ListEdit(c, version)
        PROVE  Next
    BY <1>2 DEF ListEdit, Next
  <1>3. ASSUME NEW k \in Chunks, NEW words \in Questions, ListRetrieve(k, words)
        PROVE  Next
    BY <1>3 DEF ListRetrieve, Next
  <1>4. ASSUME NEW rows \in Replies, ListBatchExtracted(rows)
        PROVE  Next
    <2> DEFINE cited == {r.chunk : r \in ToSet(rows)} \cap New
    <2>1. cited \in SUBSET Chunks
      BY <1>1
    <2>2. BatchExtracted(cited)
      BY <1>4 DEF ListBatchExtracted
    <2> QED
      BY <2>1, <2>2 DEF Next, Step
  <1>5. CASE ListCommit
    <2>1. PICK sources : Commit(sources \cap 1..visible)
      BY <1>5 DEF ListCommit
    <2> DEFINE evidence == sources \cap 1..visible
    <2>2. evidence \in SUBSET Chunks
      BY <1>1
    <2> QED
      BY <2>1, <2>2 DEF Next, Step
  <1>6. CASE ListBatchFailed \/ ListBuild \/ ListBuildRaises \/ ListFallback \/ ListRestart
    BY <1>6 DEF ListBatchFailed, ListBuild, ListBuildRaises, ListFallback, ListRestart, Next, Step
  <1>7. CASE UNCHANGED graphVars
    BY <1>7 DEF graphVars
  <1> QED
    BY <1>2, <1>3, <1>4, <1>5, <1>6, <1>7 DEF ListNext

\* A retrieve goes on from the records of the cached graph, or from none.
LEMMA ListRetrieveStep ==
    ASSUME ListInv, NEW k \in Chunks, NEW words \in Questions, ListRetrieve(k, words)
    PROVE  ListInv'
  <1>1. pc' = "extract" /\ audit' = NoAudit
    BY DEF ListRetrieve, Retrieve
  <1>2. /\ work' = Base(k) /\ replied' = <<>> /\ UNCHANGED kept
        /\ told' = [told EXCEPT !.work = IF Reset(k) THEN <<>> ELSE told.kept]
    BY DEF ListRetrieve
  <1>3. /\ told' \in [kept : Records, work : Records] /\ told'.kept = told.kept
        /\ told'.work = IF Reset(k) THEN <<>> ELSE told.kept
    BY <1>2, NoRecords DEF ListInv
  <1>4. Base(k).findings = FindingsOf(told'.work)
    BY <1>3, NoRecords DEF Base, NoLists, ListInv
  <1> QED
    BY <1>1, <1>2, <1>3, <1>4, NoRecords DEF ListInv, NoAudit

\* A reply is kept with the citations resolved.
LEMMA ListBatchStep ==
    ASSUME ListInv, NEW rows \in Replies, ListBatchExtracted(rows)
    PROVE  ListInv'
  <1>1. /\ pc = "extract" /\ pc' = pc /\ UNCHANGED audit
    BY DEF ListBatchExtracted, BatchExtracted, SendBatch
  <1>2. replied' = replied \o Resolved(rows) /\ UNCHANGED <<work, kept, handed, told>>
    BY DEF ListBatchExtracted
  <1>3. Resolved(rows) \in Records
    <2>1. rows \in Seq(Record)
      BY ListsAssumption
    <2>2. /\ Len(rows) \in Nat /\ DOMAIN rows = 1..Len(rows)
          /\ \A i \in 1..Len(rows) : rows[i] \in Record
      BY <2>1
    <2>3. \A i \in 1..Len(rows) :
             (IF rows[i].chunk \in New THEN rows[i] ELSE PassedOver) \in Record \cup {PassedOver}
      BY <2>2
    <2> QED
      BY <2>2, <2>3 DEF Resolved, Records
  <1>4. replied' \in Records
    BY <1>2, <1>3 DEF ListInv, Records
  <1> QED
    BY <1>1, <1>2, <1>4 DEF ListInv

\* A build adds what its records report.
LEMMA ListBuildStep == ASSUME ListInv, ListBuild PROVE ListInv'
  <1>1. pc = "extract" /\ pc' = "deliver" /\ UNCHANGED audit
    BY DEF ListBuild, BuildGraph
  <1>2. /\ work' = FoldLeft(AddRecord, work, replied) /\ replied' = <<>> /\ UNCHANGED kept
        /\ told' = [told EXCEPT !.work = @ \o replied]
    BY DEF ListBuild
  <1>3. /\ told' \in [kept : Records, work : Records] /\ told'.kept = told.kept
        /\ told'.work = told.work \o replied
    <2> DEFINE longer == told.work \o replied
    <2>1. told.work \in Records /\ longer \in Records
      BY DEF ListInv, Records
    <2>2. told' = [told EXCEPT !.work = longer]
      BY <1>2
    <2> HIDE DEF longer
    <2>3. told'.work = longer /\ told'.kept = told.kept /\ told' \in [kept : Records, work : Records]
      BY <2>1, <2>2 DEF ListInv
    <2> QED
      BY <2>3 DEF longer
  <1>4. work'.findings = work.findings \cup FindingsOf(replied)
    BY <1>2, FindingsFold DEF ListInv, Records
  <1>5. FindingsOf(told.work \o replied) = FindingsOf(told.work) \cup FindingsOf(replied)
    BY FindingsAdd DEF ListInv, Records
  <1> QED
    BY <1>1, <1>2, <1>3, <1>4, <1>5, NoRecords DEF ListInv

\* What is handed over reports what the graph does; a complete one is cached.
LEMMA ListDeliverStep == ASSUME ListInv, ListCommit \/ ListFallback PROVE ListInv'
  <1>1. pc = "deliver" /\ pc' = "idle"
    BY DEF ListCommit, ListFallback, Commit, Fallback
  <1>2. replied' = <<>> /\ handed'.findings = work.findings
    <2>1. CASE ListCommit
      <3>1. PICK chosen, lists :
               handed' = [chosen |-> chosen, lists |-> lists, findings |-> work.findings]
        BY <2>1 DEF ListCommit
      <3> QED
        BY <2>1, <3>1 DEF ListCommit, Discard
    <2>2. CASE ListFallback
      <3>1. handed' = [Nothing EXCEPT !.findings = work.findings] /\ replied' = <<>>
        BY <2>2 DEF ListFallback, Discard
      <3> QED
        BY <3>1 DEF Nothing
    <2> QED
      BY <2>1, <2>2
  <1>3. \/ kept' = work /\ told' = [told EXCEPT !.kept = told.work]
        \/ UNCHANGED <<kept, told>>
    BY DEF ListCommit, ListFallback
  <1>4. /\ told' \in [kept : Records, work : Records] /\ told'.work = told.work
        /\ kept'.findings = FindingsOf(told'.kept)
    BY <1>1, <1>3 DEF ListInv
  <1>5. RestrictionsStayReported'
    BY <1>1, <1>2, <1>4 DEF ListInv, RestrictionsStayReported, FindingsOf
  <1> QED
    BY <1>1, <1>2, <1>4, <1>5, NoRecords DEF ListInv

\* It holds at the start.
LEMMA ListsStart == ListInit => ListInv
  BY NoRecords DEF ListInit, Init, ListInv, NoLists, NoAudit, RestrictionsStayReported

\* Every step preserves the invariant of the lists.
LEMMA ListNextInvariant == ListInv /\ [ListNext]_graphVars => ListInv'
  <1> SUFFICES ASSUME ListInv, [ListNext]_graphVars PROVE ListInv'
    OBVIOUS
  <1>1. ASSUME NEW c \in Chunks, NEW version \in Versions, ListEdit(c, version)
        PROVE  ListInv'
    <2>1. pc' = "idle" /\ audit' = NoAudit /\ UNCHANGED <<replied, kept>>
      BY <1>1 DEF ListEdit, Edit
    <2>2. told' = [told EXCEPT !.work = <<>>]
      BY <1>1 DEF ListEdit
    <2>3. told' \in [kept : Records, work : Records] /\ told'.kept = told.kept
      BY <2>2, NoRecords DEF ListInv
    <2> QED
      BY <2>1, <2>3 DEF ListInv, NoAudit, RestrictionsStayReported
  <1>2. CASE ListBuildRaises
    <2>1. pc' = "idle" /\ audit'.status = "raised" /\ replied' = <<>> /\ UNCHANGED kept
      BY <1>2 DEF ListBuildRaises, BuildRaises, Discard, NoAudit
    <2>2. told' = [told EXCEPT !.work = <<>>]
      BY <1>2 DEF ListBuildRaises
    <2>3. told' \in [kept : Records, work : Records] /\ told'.kept = told.kept
      BY <2>2, NoRecords DEF ListInv
    <2> QED
      BY <2>1, <2>3, NoRecords DEF ListInv, RestrictionsStayReported
  <1>3. CASE ListRestart
    <2>1. /\ pc' = "idle" /\ audit' = NoAudit /\ replied' = <<>>
          /\ kept' = NoLists /\ told' = [kept |-> <<>>, work |-> <<>>]
      BY <1>3 DEF ListRestart, Restart, Discard
    <2> QED
      BY <2>1, NoRecords DEF ListInv, NoAudit, NoLists, RestrictionsStayReported
  <1>4. CASE ListBatchFailed
    <2>1. pc' = pc /\ pc = "extract" /\ UNCHANGED <<audit, replied, work, kept, handed, told>>
      BY <1>4 DEF ListBatchFailed, BatchFailed, SendBatch, listVars
    <2> QED
      BY <2>1 DEF ListInv
  <1>5. CASE UNCHANGED graphVars
    BY <1>5 DEF graphVars, vars, listVars, ListInv, RestrictionsStayReported
  <1> QED
    BY <1>1, <1>2, <1>3, <1>4, <1>5, ListRetrieveStep, ListBatchStep, ListBuildStep,
       ListDeliverStep DEF ListNext

\* Names of finitely many texts are keys of finitely many lists.
LEMMA EntitiesFinite == IsFiniteSet(Entities)
<1> DEFINE named == {"entity"} \X Names
           unnamed == {"record", "alias"} \X Chunks
<1>1. IsFiniteSet({"entity"}) /\ IsFiniteSet({"record", "alias"})
  <2>1. IsFiniteSet({"record"})
    BY FS_Singleton
  <2>2. IsFiniteSet({"record"} \cup {"alias"})
    BY <2>1, FS_AddElement
  <2>3. {"record"} \cup {"alias"} = {"record", "alias"}
    OBVIOUS
  <2> QED
    BY <2>2, <2>3, FS_Singleton
<1>2. IsFiniteSet(Chunks)
  <2>1. 1 \in Int /\ NumChunks \in Int
    BY GraphAssumption
  <2> QED
    BY <2>1, FS_Interval DEF Chunks
<1>3. IsFiniteSet(named) /\ IsFiniteSet(unnamed)
    BY <1>1, <1>2, ListsAssumption, FS_Product
<1>4. Entities \subseteq named \cup unnamed
    BY DEF Entities
<1>5. IsFiniteSet(named \cup unnamed)
    BY <1>3, FS_Union
<1> QED
    BY <1>4, <1>5, FS_Subset

\* All governing relations of an entity that the question names are selected.
LEMMA GoverningSelected ==
    ASSUME NEW n \in question, NEW list \in Lists, NEW i \in 1..Len(list), Governing(list[i])
    PROVE  i \in Matches(EntityOf(n), list) /\ i \in Selected(EntityOf(n), list)
<1>1. n \in EntityWords(EntityOf(n))
    BY DEF EntityWords, EntityOf
<1>2. i \in DOMAIN list
    BY DEF Lists
<1>3. i \in Matches(EntityOf(n), list)
    BY <1>1, <1>2 DEF Matches
<1> QED
    BY <1>3 DEF Selected

\* A list that matches is left out only if TopK others are chosen.
LEMMA LeftOut ==
    ASSUME NEW lists, NEW chosen \in BestOf(lists), NEW e \in Entities \ chosen,
           Matches(e, lists[e]) # {}
    PROVE  Cardinality(chosen) = TopK
<1> DEFINE matched == {f \in Entities : Matches(f, lists[f]) # {}}
           size == IF Cardinality(matched) < TopK THEN Cardinality(matched) ELSE TopK
<1>1. chosen \in SUBSET matched /\ Cardinality(chosen) = size
    BY DEF BestOf
<1>2. e \in matched \ chosen
    OBVIOUS
<1>3. IsFiniteSet(matched)
  <2>1. matched \in SUBSET Entities
    OBVIOUS
  <2> HIDE DEF matched
  <2> QED
    BY <2>1, EntitiesFinite, FS_Subset
<1> HIDE DEF matched
<1>4. Cardinality(chosen) # Cardinality(matched)
    BY <1>1, <1>2, <1>3, FS_Subset
<1> QED
    BY <1>1, <1>4

\* The lists are, at every checkpoint, those of the records they were built of.
HistoryInv ==
    /\ IsHistoryOf(kept.lists, told.kept)
    /\ pc # "idle" => IsHistoryOf(work.lists, told.work)
    /\ NamedHistoryIsWhole

\* A graph without records has no history.
LEMMA NoHistory == IsHistoryOf(NoLists.lists, <<>>)
<1>1. <<>> \in Lists
    BY DEF Lists
<1>2. Turns(<<>>, <<>>) = <<>>
    BY <1>1, TurnsOfNone
<1> QED
    BY <1>1, <1>2, TransitionsOfNone DEF IsHistoryOf, NoLists

\* What is handed over of a complete graph is the whole history of a named entity.
LEMMA CommitHistory ==
    ASSUME IsHistoryOf(work.lists, told.work), ListCommit
    PROVE  NamedHistoryIsWhole'
<1> DEFINE all == work.lists
<1>1. PICK chosen \in BestOf(all) :
         handed' = [chosen |-> chosen,
                    lists |-> [e \in Entities |->
                                  IF e \in chosen THEN RelationsOf(e, all[e]) ELSE <<>>],
                    findings |-> work.findings]
    BY DEF ListCommit
<1>2. UNCHANGED question /\ told'.kept = told.work
  <2>1. UNCHANGED question /\ told' = [told EXCEPT !.kept = told.work]
    BY DEF ListCommit
  <2> QED
    BY <2>1
<1>3. handed'.chosen = chosen
    BY <1>1
<1>4. ASSUME NEW n \in question \cap Names
      PROVE  IF EntityOf(n) \in chosen
             THEN Turns(<<>>, handed'.lists[EntityOf(n)]) = Transitions(told.work, EntityOf(n))
             ELSE Transitions(told.work, EntityOf(n)) = <<>> \/ Cardinality(chosen) = TopK
  <2> DEFINE e == EntityOf(n)
             list == all[e]
  <2>1. e \in Entities
    BY DEF EntityOf, Entities
  <2>2. list \in Lists /\ Turns(<<>>, list) = Transitions(told.work, e)
    BY <2>1 DEF IsHistoryOf
  <2>3. \A i \in 1..Len(list) :
           Governing(list[i]) => i \in Matches(e, list) /\ i \in Selected(e, list)
    <3> HIDE DEF list
    <3> QED
      BY <2>2, GoverningSelected
  <2>4. CASE e \in chosen
    <3>1. handed'.lists[e] = RelationsOf(e, list)
      BY <1>1, <2>1, <2>4
    <3> HIDE DEF list, e
    <3>2. Turns(<<>>, Picked(list, Selected(e, list))) = Turns(<<>>, list)
      BY <2>2, <2>3, PickedTurns
    <3>3. Turns(<<>>, handed'.lists[e]) = Transitions(told.work, e)
      BY <2>2, <3>1, <3>2 DEF RelationsOf
    <3> QED
      BY <2>4, <3>3 DEF e
  <2>5. CASE e \notin chosen /\ Matches(e, list) = {}
    <3> HIDE DEF list, e
    <3>1. Turns(<<>>, list) = <<>>
      BY <2>2, <2>3, <2>5, NoTurns
    <3> QED
      BY <2>2, <2>5, <3>1 DEF e
  <2>6. CASE e \notin chosen /\ Matches(e, list) # {}
    <3>1. e \in Entities \ chosen
      BY <2>1, <2>6
    <3> HIDE DEF e
    <3>2. Cardinality(chosen) = TopK
      BY <1>1, <2>6, <3>1, LeftOut
    <3> QED
      BY <2>6, <3>2 DEF e
  <2> QED
    BY <2>4, <2>5, <2>6
<1> QED
    BY <1>2, <1>3, <1>4 DEF NamedHistoryIsWhole

\* Every step keeps the lists to the records that were told.
LEMMA HistoryStep == ListInv /\ HistoryInv /\ [ListNext]_graphVars => HistoryInv'
  <1> SUFFICES ASSUME ListInv, HistoryInv, [ListNext]_graphVars PROVE HistoryInv'
    OBVIOUS
  <1> USE DEF HistoryInv
  <1>1. ASSUME NEW c \in Chunks, NEW version \in Versions, ListEdit(c, version)
        PROVE  HistoryInv'
    <2>1. pc' = "idle" /\ audit' = NoAudit /\ UNCHANGED kept
      BY <1>1 DEF ListEdit, Edit
    <2>2. told'.kept = told.kept
      <3>1. told' = [told EXCEPT !.work = <<>>]
        BY <1>1 DEF ListEdit
      <3> QED
        BY <3>1
    <2> QED
      BY <2>1, <2>2 DEF NoAudit, NamedHistoryIsWhole
  <1>2. ASSUME NEW k \in Chunks, NEW words \in Questions, ListRetrieve(k, words)
        PROVE  HistoryInv'
    <2>1. audit' = NoAudit /\ UNCHANGED kept /\ work' = Base(k)
      BY <1>2 DEF ListRetrieve, Retrieve
    <2>2. told'.kept = told.kept /\ told'.work = IF Reset(k) THEN <<>> ELSE told.kept
      <3>1. told' = [told EXCEPT !.work = IF Reset(k) THEN <<>> ELSE told.kept]
        BY <1>2 DEF ListRetrieve
      <3> QED
        BY <3>1 DEF ListInv
    <2>3. IsHistoryOf(Base(k).lists, told'.work)
      BY <2>2, NoHistory DEF Base
    <2> QED
      BY <2>1, <2>2, <2>3 DEF NoAudit, NamedHistoryIsWhole
  <1>3. ASSUME NEW rows \in Replies, ListBatchExtracted(rows)
        PROVE  HistoryInv'
    <2>1. UNCHANGED <<pc, audit, work, kept, handed, told, question>>
      BY <1>3 DEF ListBatchExtracted, BatchExtracted, SendBatch
    <2> QED
      BY <2>1 DEF NamedHistoryIsWhole
  <1>4. CASE ListBatchFailed
    <2>1. UNCHANGED <<pc, audit, work, kept, handed, told, question>>
      BY <1>4 DEF ListBatchFailed, BatchFailed, SendBatch, listVars
    <2> QED
      BY <2>1 DEF NamedHistoryIsWhole
  <1>5. CASE ListBuild
    <2>1. pc # "idle" /\ UNCHANGED <<audit, kept, handed, question>>
      BY <1>5 DEF ListBuild, BuildGraph
    <2>2. work' = FoldLeft(AddRecord, work, replied)
      BY <1>5 DEF ListBuild
    <2>3. told'.kept = told.kept /\ told'.work = told.work \o replied
      <3> DEFINE longer == told.work \o replied
      <3>1. told' = [told EXCEPT !.work = longer]
        BY <1>5 DEF ListBuild
      <3> HIDE DEF longer
      <3>2. told'.kept = told.kept /\ told'.work = longer
        BY <3>1 DEF ListInv
      <3> QED
        BY <3>2 DEF longer
    <2>4. IsHistoryOf(FoldLeft(AddRecord, work, replied).lists, told.work \o replied)
      BY <2>1, BuildHistory DEF ListInv
    <2> QED
      BY <2>1, <2>2, <2>3, <2>4 DEF NamedHistoryIsWhole
  <1>6. CASE ListBuildRaises
    <2>1. pc' = "idle" /\ audit'.status = "raised" /\ UNCHANGED kept
      BY <1>6 DEF ListBuildRaises, BuildRaises, NoAudit
    <2>2. told'.kept = told.kept
      <3>1. told' = [told EXCEPT !.work = <<>>]
        BY <1>6 DEF ListBuildRaises
      <3> QED
        BY <3>1
    <2> QED
      BY <2>1, <2>2 DEF NamedHistoryIsWhole
  <1>7. CASE ListCommit
    <2>1. pc # "idle" /\ pc' = "idle" /\ kept' = work
      BY <1>7 DEF ListCommit, Commit
    <2>2. told'.kept = told.work
      <3>1. told' = [told EXCEPT !.kept = told.work]
        BY <1>7 DEF ListCommit
      <3> QED
        BY <3>1 DEF ListInv
    <2> QED
      BY <1>7, <2>1, <2>2, CommitHistory
  <1>8. CASE ListFallback
    <2>1. pc' = "idle" /\ audit'.status = "insufficient_evidence" /\ UNCHANGED <<kept, told>>
      BY <1>8 DEF ListFallback, Fallback, Hand
    <2> QED
      BY <2>1 DEF NamedHistoryIsWhole
  <1>9. CASE ListRestart
    <2>1. pc' = "idle" /\ audit' = NoAudit /\ kept' = NoLists /\ told'.kept = <<>>
      BY <1>9 DEF ListRestart, Restart
    <2> QED
      BY <2>1, NoHistory DEF NoAudit, NamedHistoryIsWhole
  <1>10. CASE UNCHANGED graphVars
    BY <1>10 DEF graphVars, vars, listVars, NamedHistoryIsWhole
  <1> QED
    BY <1>1, <1>2, <1>3, <1>4, <1>5, <1>6, <1>7, <1>8, <1>9, <1>10 DEF ListNext

\* With the change lists the graph is still that of SlotGraph, so that what is proved
\* of it holds of the index that the backbone uses.
THEOREM ListsAreGraph == ListSpec => Spec
  <1>1. ListInit => Init /\ IInv
    BY InitInvariant DEF ListInit
  <1>2. IInv /\ [ListNext]_graphVars => [Next]_vars /\ IInv'
    BY ListsStep, NextInvariant DEF IInv
  <1> QED
    BY <1>1, <1>2, PTL DEF ListSpec, Spec

\* Whatever records the batches are answered with, every explicit restriction and
\* deletion among them, and no other, is reported to Stage 2 at this and at every
\* later checkpoint of the same conversation.
THEOREM FindingsReported == ListSpec => []RestrictionsStayReported
  <1>2. ListInv => RestrictionsStayReported
    BY DEF ListInv, RestrictionsStayReported
  <1> QED
    BY <1>2, ListsStart, ListNextInvariant, PTL DEF ListSpec

\* Whatever the records are and however the cache is extended, kept or dropped: a
\* complete checkpoint is handed every transition that was ever extracted of an entity
\* its question names, in order, unless TopK other entities match at least as well.
THEOREM HistoryIsWhole == ListSpec => []NamedHistoryIsWhole
  <1>1. ListInit => ListInv /\ HistoryInv
    <2> SUFFICES ASSUME ListInit PROVE ListInv /\ HistoryInv
      OBVIOUS
    <2>1. pc = "idle" /\ audit = NoAudit /\ kept = NoLists /\ told.kept = <<>>
      BY DEF ListInit, Init
    <2> QED
      BY <2>1, ListsStart, NoHistory DEF NoAudit, HistoryInv, NamedHistoryIsWhole
  <1>2. HistoryInv => NamedHistoryIsWhole
    BY DEF HistoryInv
  <1> QED
    BY <1>1, <1>2, ListNextInvariant, HistoryStep, PTL DEF ListSpec
================================================================================
