----------------------------- MODULE StageTwoProofs -----------------------------
(***************************************************************************)
(* Proofs about module StageTwo, for any candidates, events, requesters and   *)
(* replies, any number of checkpoints and claims, and any order of refusals,  *)
(* repairs and retries: a denial of the reply reaches the reviewed ledger in   *)
(* the source it was stated for, and a claim bound to an effective denial or   *)
(* to a deletion is not released.                                            *)
(***************************************************************************)
EXTENDS StageTwo, FiniteSetTheorems, WellFoundedInduction, TLAPS

(***************************************************************************)
(* Extending the store by a delta                                            *)
(***************************************************************************)

\* What a fold over the first n events computes: the recursion of FoldLeft, over
\* the sets 1..k of positions and all others.
Fold(events, n, f) ==
    f = [s \in SUBSET (1..n) |->
            IF s = {} THEN store ELSE Extended(f[s \ {Max(s)}], events[Max(s)])]

\* Every set of positions up to n + 1 that has n + 1 in it has it as its greatest.
LEMMA MaxIsLast ==
    ASSUME NEW n \in Nat, NEW s \in SUBSET (1..(n + 1)), n + 1 \in s
    PROVE  /\ Max(s) = n + 1
           /\ s \ {n + 1} \in SUBSET (1..n)
<1>1. \A y \in s : n + 1 >= y
    OBVIOUS
<1>2. \A x \in s : (\A y \in s : x >= y) => x = n + 1
    OBVIOUS
<1>3. Max(s) = n + 1
    BY <1>1, <1>2 DEF Max
<1> QED
    BY <1>3

\* A nonempty set of positions has a greatest one.
LEMMA MaxExists ==
    ASSUME NEW n \in Nat, NEW s \in SUBSET (1..n), s # {}
    PROVE  /\ Max(s) \in s
           /\ \A y \in s : Max(s) >= y
<1> DEFINE Above == {k \in Nat : \A y \in s : k >= y}
<1>1. n \in Above
    OBVIOUS
<1>2. PICK k \in Above : \A j \in Above : ~(j < k)
  <2>1. IsWellFoundedOn(OpToRel(<, Nat), Nat)
    BY NatLessThanWellFounded
  <2>2. PICK k \in Above : \A j \in Above : ~(<<j, k>> \in OpToRel(<, Nat))
    BY <2>1, <1>1, WFMin
  <2> QED
    BY <2>2 DEF OpToRel
<1>3. k \in s
  <2> SUFFICES ASSUME k \notin s
               PROVE  FALSE
    OBVIOUS
  <2>1. PICK y0 \in s : TRUE
    OBVIOUS
  <2>2. k - 1 \in Above
    BY <1>2, <2>1
  <2> QED
    BY <1>2, <2>2
<1>4. \A y \in s : k >= y
    BY <1>2
<1> QED
    BY <1>3, <1>4 DEF Max

\* The fold over n events is defined, for every n.
LEMMA FoldExists ==
    ASSUME NEW events, NEW m \in Nat
    PROVE  \E f : Fold(events, m, f)
<1> DEFINE Bad == {n \in Nat : ~\E f : Fold(events, n, f)}
<1> SUFFICES ASSUME m \in Bad
             PROVE  FALSE
    OBVIOUS
<1>1. PICK n \in Bad : \A j \in Bad : ~(j < n)
  <2>1. IsWellFoundedOn(OpToRel(<, Nat), Nat)
    BY NatLessThanWellFounded
  <2>2. PICK n \in Bad : \A j \in Bad : ~(<<j, n>> \in OpToRel(<, Nat))
    BY <2>1, WFMin
  <2> QED
    BY <2>2 DEF OpToRel
<1>2. CASE n = 0
  <2> DEFINE f == [s \in SUBSET (1..n) |-> store]
  <2>1. \A s \in SUBSET (1..n) : s = {}
    BY <1>2
  <2>2. Fold(events, n, f)
    BY <2>1 DEF Fold
  <2> QED
    BY <1>1, <2>2
<1>3. CASE n # 0
  <2>1. PICK p \in Nat : n = p + 1
    BY <1>3
  <2>2. PICK g : Fold(events, p, g)
    BY <1>1, <2>1
  <2> DEFINE G(s) == IF s \in SUBSET (1..p) THEN g[s]
                     ELSE Extended(g[s \ {n}], events[n])
             f == [s \in SUBSET (1..n) |-> G(s)]
  <2>3. \A s \in SUBSET (1..p) : s \ {Max(s)} \in SUBSET (1..p)
    OBVIOUS
  <2>4. ASSUME NEW s \in SUBSET (1..n)
        PROVE  G(s) = IF s = {} THEN store ELSE Extended(f[s \ {Max(s)}], events[Max(s)])
    <3>1. CASE s \in SUBSET (1..p)
      <4>1. s \ {Max(s)} \in SUBSET (1..p) /\ s \ {Max(s)} \in SUBSET (1..n)
        BY <3>1, <2>1
      <4>2. f[s \ {Max(s)}] = g[s \ {Max(s)}]
        BY <4>1
      <4>3. g[s] = IF s = {} THEN store ELSE Extended(g[s \ {Max(s)}], events[Max(s)])
        BY <3>1, <2>2 DEF Fold
      <4> QED
        BY <3>1, <4>2, <4>3
    <3>2. CASE s \notin SUBSET (1..p)
      <4>1. n \in s
        BY <3>2, <2>1
      <4>2. Max(s) = n /\ s \ {n} \in SUBSET (1..p) /\ s # {}
        BY <4>1, <2>1, MaxIsLast
      <4>3. f[s \ {n}] = g[s \ {n}]
        BY <4>2, <2>1
      <4> QED
        BY <3>2, <4>2, <4>3
    <3> QED
      BY <3>1, <3>2
  <2>5. f = [s \in SUBSET (1..n) |-> IF s = {} THEN store ELSE Extended(f[s \ {Max(s)}], events[Max(s)])]
    BY <2>4
  <2>6. Fold(events, n, f)
    BY <2>5 DEF Fold
  <2> QED
    BY <1>1, <2>6
<1> QED
    BY <1>2, <1>3

\* The store after a delta is what the fold over all its events computes.
LEMMA StoredIsFold ==
    ASSUME NEW events \in Seq(Event)
    PROVE  \E f : Fold(events, Len(events), f) /\ Stored(events) = f[1..Len(events)]
<1>1. Len(events) \in Nat /\ DOMAIN events = 1..Len(events)
    OBVIOUS
<1>2. \E f : Fold(events, Len(events), f)
    BY <1>1, FoldExists
<1> DEFINE g == CHOOSE f : Fold(events, Len(events), f)
<1>3. Fold(events, Len(events), g)
    BY <1>2
<1>4. Stored(events) = g[1..Len(events)]
    BY <1>1 DEF Stored, FoldLeft, MapThenFoldSet, Fold
<1> QED
    BY <1>3, <1>4

\* What the store is after a delta: what it was, and then events of the delta.
Extends(kept, events) ==
    /\ kept \in Seq(Event)
    /\ Len(store) <= Len(kept)
    /\ \A k \in 1..Len(store) : kept[k] = store[k]
    /\ \A k \in 1..Len(kept) : k > Len(store) => kept[k] \in ToSet(events)

\* One event of the delta is stored at the end, or not at all.
LEMMA ExtendedKeeps ==
    ASSUME store \in Seq(Event), NEW events \in Seq(Event), NEW kept, Extends(kept, events),
           NEW k \in 1..Len(events)
    PROVE  Extends(Extended(kept, events[k]), events)
<1> DEFINE e == events[k]
<1>1. e \in Event /\ e \in ToSet(events)
    BY DEF ToSet
<1> HIDE DEF e
<1>2. CASE Extended(kept, e) = kept
    BY <1>2 DEF e
<1>3. CASE Extended(kept, e) = Append(kept, e)
  <2>1. /\ Append(kept, e) \in Seq(Event)
        /\ Len(Append(kept, e)) = Len(kept) + 1
        /\ \A j \in 1..Len(kept) : Append(kept, e)[j] = kept[j]
        /\ Append(kept, e)[Len(kept) + 1] = e
    BY <1>1 DEF Extends
  <2>2. Len(store) \in Nat /\ Len(kept) \in Nat
    BY DEF Extends
  <2>3. \A j \in 1..(Len(kept) + 1) : j > Len(store) => Append(kept, e)[j] \in ToSet(events)
    <3> SUFFICES ASSUME NEW j \in 1..(Len(kept) + 1), j > Len(store)
                 PROVE  Append(kept, e)[j] \in ToSet(events)
      OBVIOUS
    <3>1. CASE j = Len(kept) + 1
      BY <3>1, <2>1, <1>1
    <3>2. CASE j \in 1..Len(kept)
      BY <3>2, <2>1 DEF Extends
    <3> QED
      BY <3>1, <3>2, <2>2
  <2>4. Extends(Append(kept, e), events)
    BY <2>1, <2>2, <2>3 DEF Extends
  <2> QED
    BY <2>4, <1>3 DEF e
<1> QED
    BY <1>2, <1>3 DEF Extended, e

\* The store keeps what it had, in its place, and gains events of the delta only.
LEMMA StoredKeeps ==
    ASSUME store \in Seq(Event), NEW events \in Seq(Event)
    PROVE  Extends(Stored(events), events)
<1> DEFINE N == Len(events)
<1>1. N \in Nat
    OBVIOUS
<1>2. PICK f : Fold(events, N, f) /\ Stored(events) = f[1..N]
    BY StoredIsFold
<1> HIDE DEF N
<1>3. f[{}] = store
  <2>1. {} \in SUBSET (1..N)
    OBVIOUS
  <2> QED
    BY <2>1, <1>2 DEF Fold
<1>4. ASSUME NEW k \in 0..N, k # 0
      PROVE  f[1..k] = Extended(f[1..(k - 1)], events[k])
  <2>1. k - 1 \in Nat /\ k \in 1..N
    BY <1>4, <1>1
  <2>2. (1..k) \in SUBSET (1..N) /\ k \in 1..k /\ (1..k) # {}
    BY <2>1, <1>1
  <2>3. Max(1..k) = k
    <3>1. (1..k) \in SUBSET (1..((k - 1) + 1)) /\ (k - 1) + 1 \in 1..k /\ (k - 1) + 1 = k
      BY <2>1
    <3> QED
      BY <3>1, <2>1, MaxIsLast
  <2>4. (1..k) \ {k} = 1..(k - 1)
    BY <2>1
  <2>5. f[1..k] = Extended(f[(1..k) \ {Max(1..k)}], events[Max(1..k)])
    BY <2>2, <1>2 DEF Fold
  <2> QED
    BY <2>3, <2>4, <2>5
<1> DEFINE Bad == {k \in 0..N : ~Extends(f[1..k], events)}
<1>5. Bad = {}
  <2> SUFFICES ASSUME NEW b \in Bad
               PROVE  FALSE
    OBVIOUS
  <2>1. PICK k \in Bad : \A j \in Bad : ~(j < k)
    <3>1. IsWellFoundedOn(OpToRel(<, Nat), Nat)
      BY NatLessThanWellFounded
    <3>2. Bad \subseteq Nat
      BY <1>1
    <3>3. PICK k \in Bad : \A j \in Bad : ~(<<j, k>> \in OpToRel(<, Nat))
      BY <3>1, <3>2, WFMin
    <3> QED
      BY <3>2, <3>3 DEF OpToRel
  <2>2. k \in 0..N /\ ~Extends(f[1..k], events)
    OBVIOUS
  <2>3. CASE k = 0
    <3>1. (1..k) = {}
      BY <2>3
    <3>2. Extends(store, events)
      BY DEF Extends
    <3> QED
      BY <3>1, <3>2, <1>3, <2>2
  <2>4. CASE k # 0
    <3>1. k - 1 \in 0..N /\ k - 1 < k /\ k \in 1..N
      BY <2>2, <2>4, <1>1
    <3>2. Extends(f[1..(k - 1)], events)
      BY <3>1, <2>1
    <3>3. Extends(Extended(f[1..(k - 1)], events[k]), events)
      BY <3>1, <3>2, ExtendedKeeps DEF N
    <3> QED
      BY <3>3, <1>4, <2>2, <2>4
  <2> QED
    BY <2>3, <2>4
<1>6. Extends(f[1..N], events)
    BY <1>5, <1>1
<1> QED
    BY <1>6, <1>2

(***************************************************************************)
(* The inductive invariant                                                   *)
(***************************************************************************)

TypeOK ==
    /\ store \in Seq(Event)
    /\ requester \in Requesters
    /\ pending \in BOOLEAN
    /\ seen \in 0..Len(store)
    /\ reply \in Reply
    /\ pc \in {"idle", "ask", "delta", "normalize", "bind", "validate", "review",
               "answered", "gap", "raised"}

\* The request was built with the store up to seen; what follows there is from
\* the reply itself.
NewIsFromReply ==
    /\ pc = "delta" => seen = Len(store)
    /\ pc \in {"normalize", "bind", "validate", "review", "answered"} =>
          \A k \in 1..Len(store) : k > seen => store[k] \in ToSet(Delta)

\* A claim of the reply as it comes to be validated.
Prepared(n) == Bound(Normalized(n))

\* The ledger is a function of reply, store and requester: until it is validated
\* it has every considered claim, and each bound claim is about one target.
LedgerFollowsReply ==
    /\ pc = "bind" => ledger = [n \in Considered |-> Normalized(n)]
    /\ pc = "validate" => ledger = [n \in Considered |-> Prepared(n)]
    /\ pc \in {"validate", "review", "answered"} =>
          \A n \in Considered : ~BindOffends(Normalized(n))

\* A claim in one of its sources.
Located(n, s) == [Prepared(n) EXCEPT !.candidate = s]

\* What is left of a claim is what it was, in one of its sources; the review
\* denies it or leaves it alone.
KeptAreClaims ==
    pc \in {"review", "answered"} =>
        /\ DOMAIN ledger \subseteq Considered
        /\ \A n \in DOMAIN ledger : \E s \in Sources(Prepared(n)) :
              \/ ledger[n] = Located(n, s)
              \/ pc = "answered" /\ ledger[n] = Blocked(Located(n, s))

\* A denial of the reply is in the ledger, or one with the same signature is.
DenialsAreKept ==
    pc \in {"review", "answered"} =>
        \A n \in Considered : Prepared(n).delivery = "block" =>
            \E m \in DOMAIN ledger : Signature(Prepared(m)) = Signature(Prepared(n))

ReleasedIsNotVetoed ==
    pc = "answered" => \A n \in DOMAIN ledger : ledger[n].delivery # "block" => ~Vetoed(ledger[n])

IInv ==
    /\ TypeOK
    /\ NewIsFromReply
    /\ LedgerFollowsReply
    /\ KeptAreClaims
    /\ DenialsAreKept
    /\ ReleasedIsNotVetoed

\* The fields of a normalised claim, and of a bound one.
LEMMA NormalizedFields ==
    ASSUME NEW n
    PROVE  /\ Normalized(n).candidate = Raw(n).candidate
           /\ Normalized(n).quote = IF WholeCandidate(Raw(n)) THEN {Raw(n).candidate} ELSE Raw(n).quote
           /\ Normalized(n).delivery = IF Denies(Raw(n)) THEN "block" ELSE "exact"
           /\ Normalized(n).binds = IF Raw(n).bind = Absent THEN {} ELSE Raw(n).bind
BY DEF Normalized

\* Binding changes the bound events and the target, and nothing else.
LEMMA PreparedFields ==
    ASSUME NEW n
    PROVE  /\ Prepared(n).candidate = Normalized(n).candidate
           /\ Prepared(n).quote = Normalized(n).quote
           /\ Prepared(n).delivery = Normalized(n).delivery
           /\ Prepared(n).binds = {e.id : e \in Selected(Normalized(n))}
           /\ Prepared(n).target = IF Cardinality(SelectedTargets(Normalized(n))) = 1
                                   THEN CHOOSE t \in SelectedTargets(Normalized(n)) : TRUE ELSE "none"
BY DEF Prepared, Bound, Normalized

\* Neither finding the source of a claim nor denying it changes what else it says.
LEMMA LocatedFields ==
    ASSUME NEW n, NEW s
    PROVE  \A c \in {Located(n, s), Blocked(Located(n, s))} :
              /\ c.candidate = s
              /\ c.quote = Prepared(n).quote
              /\ c.binds = Prepared(n).binds
              /\ c.target = Prepared(n).target
              /\ c.delivery = Prepared(n).delivery \/ c.delivery = "block"
<1> DEFINE c == Located(n, s)
           d == Blocked(c)
<1>1. /\ c.candidate = s
      /\ c.quote = Prepared(n).quote
      /\ c.binds = Prepared(n).binds
      /\ c.target = Prepared(n).target
      /\ c.delivery = Prepared(n).delivery
    BY DEF Blocked, Located, Prepared, Bound, Normalized
<1>2. /\ d.candidate = c.candidate
      /\ d.quote = c.quote
      /\ d.binds = c.binds
      /\ d.target = c.target
      /\ d.delivery = "block"
    BY DEF Blocked, Located, Prepared, Bound, Normalized
<1> HIDE DEF c, d
<1>3. \A e \in {c, d} :
         /\ e.candidate = s
         /\ e.quote = Prepared(n).quote
         /\ e.binds = Prepared(n).binds
         /\ e.target = Prepared(n).target
         /\ e.delivery = Prepared(n).delivery \/ e.delivery = "block"
    BY <1>1, <1>2
<1> QED
    BY <1>3, Zenon DEF c, d

\* What is denied is blocked.
LEMMA DeniedIsBlocked ==
    ASSUME NEW n, NEW s
    PROVE  Blocked(Located(n, s)).delivery = "block"
BY DEF Blocked, Located, Prepared, Bound, Normalized

\* Claims are made of the reply, the store as the request saw it and the requester.
LEMMA ClaimsUnchanged ==
    ASSUME UNCHANGED <<store, requester, seen, reply>>
    PROVE  /\ Delta' = Delta
           /\ Considered' = Considered
           /\ Policies' = Policies
           /\ \A n : Normalized(n)' = Normalized(n)
           /\ \A n : Prepared(n)' = Prepared(n)
           /\ \A n, s : Located(n, s)' = Located(n, s)
           /\ \A n, s : Blocked(Located(n, s))' = Blocked(Located(n, s))
           /\ \A n : BindOffends(Normalized(n))' = BindOffends(Normalized(n))
           /\ \A c : Vetoed(c)' = Vetoed(c)
<1>1. Delta' = Delta
    BY DEF Delta
<1>2. Considered' = Considered
    BY DEF Considered, Places, Raw
<1>3. Policies' = Policies
    BY <1>1 DEF Policies
<1>4. \A n : Normalized(n)' = Normalized(n)
    BY DEF Normalized, Raw
<1>5. \A n : Prepared(n)' = Prepared(n)
  <2> SUFFICES ASSUME NEW n
               PROVE  Prepared(n)' = Prepared(n)
    OBVIOUS
  <2> DEFINE c == Normalized(n)
  <2>1. c' = c
    BY <1>4
  <2> HIDE DEF c
  <2>2. Selected(c)' = Selected(c)
    BY <1>3, <2>1 DEF Selected
  <2>3. SelectedTargets(c)' = SelectedTargets(c)
    BY <2>2 DEF SelectedTargets
  <2> DEFINE ids == {e.id : e \in Selected(c)}
             one == IF Cardinality(SelectedTargets(c)) = 1
                    THEN CHOOSE t \in SelectedTargets(c) : TRUE ELSE "none"
  <2>4. ids' = ids
    BY <2>2
  <2>5. one' = one
    BY <2>3
  <2>6. Bound(c) = [c EXCEPT !.binds = ids, !.target = one]
    BY DEF Bound
  <2>7. Bound(c)' = [c EXCEPT !.binds = ids, !.target = one]'
    BY DEF Bound
  <2> HIDE DEF ids, one
  <2>8. Bound(c)' = Bound(c)
    BY <2>1, <2>4, <2>5, <2>6, <2>7, Zenon
  <2> QED
    BY <2>8 DEF Prepared, c
<1>6. \A n : BindOffends(Normalized(n))' = BindOffends(Normalized(n))
    BY <1>3, <1>4 DEF BindOffends, Selected, SelectedTargets
<1>7. \A c : Vetoed(c)' = Vetoed(c)
    BY DEF Vetoed, Effective, Deletions, Projected
<1>8. \A n, s : Located(n, s)' = Located(n, s)
    BY <1>5 DEF Located
<1>9. \A n, s : Blocked(Located(n, s))' = Blocked(Located(n, s))
    BY <1>8 DEF Blocked
<1> QED
    BY <1>1, <1>2, <1>3, <1>4, <1>5, <1>6, <1>7, <1>8, <1>9

\* The initial states satisfy the invariant.
LEMMA InitInvariant == Init => IInv
<1> SUFFICES ASSUME Init
             PROVE  IInv
    OBVIOUS
<1>1. NoReply \in Reply
    BY DEF NoReply, Reply
<1>2. store \in Seq(Event) /\ Len(store) = 0
    BY DEF Init
<1>3. seen \in 0..Len(store)
    BY <1>2 DEF Init
<1>4. TypeOK
    BY <1>1, <1>2, <1>3, Zenon DEF Init, TypeOK
<1> QED
    BY <1>4 DEF Init, IInv, NewIsFromReply, LedgerFollowsReply, KeptAreClaims, DenialsAreKept,
                ReleasedIsNotVetoed

\* A step that leaves the store as it is and ends before a delta is accepted.
LEMMA EarlyStep ==
    ASSUME IInv, store' = store, requester' \in Requesters, pending' \in BOOLEAN,
           seen' \in 0..Len(store), reply' \in Reply,
           pc' \in {"idle", "ask", "gap", "raised"}
    PROVE  IInv'
<1>1. TypeOK'
    BY DEF IInv, TypeOK
<1> QED
    BY <1>1 DEF IInv, NewIsFromReply, LedgerFollowsReply, KeptAreClaims, DenialsAreKept,
                ReleasedIsNotVetoed

\* A request that ends leaves nothing behind but the store.
LEMMA ForgottenInvariant ==
    ASSUME IInv, Forgotten, store' = store, requester' \in Requesters, pending' \in BOOLEAN,
           pc' \in {"ask", "gap", "raised"}
    PROVE  IInv'
<1>1. NoReply \in Reply
    BY DEF NoReply, Reply
<1>2. Len(store) \in Nat
    BY DEF IInv, TypeOK
<1> QED
    BY <1>1, <1>2, EarlyStep DEF Forgotten

\* A checkpoint begins.
LEMMA BeginInvariant ==
    ASSUME IInv, NEW r \in Requesters, Begin(r)
    PROVE  IInv'
BY ForgottenInvariant DEF Begin

\* A reply without usable delta.
LEMMA RefusedInvariant ==
    ASSUME IInv, NEW recoverable, Refused(recoverable)
    PROVE  IInv'
<1>1. requester' \in Requesters /\ pending' \in BOOLEAN /\ store' = store
    BY DEF Refused, IInv, TypeOK
<1>2. pc' \in {"ask", "gap", "raised"}
    BY DEF Refused
<1> QED
    BY <1>1, <1>2, ForgottenInvariant DEF Refused

\* The process dies.
LEMMA CrashInvariant ==
    ASSUME IInv, Crash
    PROVE  IInv'
BY ForgottenInvariant DEF Crash, IInv, TypeOK

\* The checkpoint is run again.
LEMMA RetryInvariant ==
    ASSUME IInv, Retry
    PROVE  IInv'
BY EarlyStep DEF Retry, IInv, TypeOK

\* The reasoner is asked.
LEMMA AskInvariant ==
    ASSUME IInv, NEW answer \in Replies, Ask(answer)
    PROVE  IInv'
<1>1. answer \in Reply
    BY StageTwoAssumption
<1>2. TypeOK'
    BY <1>1 DEF Ask, IInv, TypeOK
<1> QED
    BY <1>2 DEF Ask, IInv, NewIsFromReply, LedgerFollowsReply, KeptAreClaims, DenialsAreKept,
                ReleasedIsNotVetoed

\* The delta is stored behind what the request saw.
LEMMA AcceptDeltaInvariant ==
    ASSUME IInv, AcceptDelta
    PROVE  IInv'
<1>1. store \in Seq(Event) /\ seen = Len(store) /\ reply.events # Absent
    BY DEF IInv, TypeOK, NewIsFromReply, AcceptDelta
<1>2. Delta \in Seq(Event)
    BY <1>1 DEF Delta, IInv, TypeOK, Reply
<1>3. Extends(Stored(Delta), Delta)
    BY <1>1, <1>2, StoredKeeps
<1>4. Delta' = Delta
    BY DEF Delta, AcceptDelta
<1>5. TypeOK'
  <2>1. store' \in Seq(Event)
    BY <1>3 DEF AcceptDelta, Extends
  <2>2. seen' \in 0..Len(store')
    BY <1>1, <1>3, <2>1 DEF AcceptDelta, Extends
  <2> QED
    BY <2>1, <2>2 DEF AcceptDelta, IInv, TypeOK
<1>6. NewIsFromReply'
    BY <1>1, <1>3, <1>4 DEF AcceptDelta, NewIsFromReply, Extends
<1> QED
    BY <1>5, <1>6 DEF AcceptDelta, IInv, LedgerFollowsReply, KeptAreClaims, DenialsAreKept,
                      ReleasedIsNotVetoed

\* The projection goes on without a delta.
LEMMA NoDeltaInvariant ==
    ASSUME IInv, NoDelta
    PROVE  IInv'
<1>1. TypeOK'
    BY DEF NoDelta, IInv, TypeOK
<1>2. NewIsFromReply'
    BY DEF NoDelta, IInv, TypeOK, NewIsFromReply
<1> QED
    BY <1>1, <1>2 DEF NoDelta, IInv, LedgerFollowsReply, KeptAreClaims, DenialsAreKept,
                      ReleasedIsNotVetoed

\* The ledger is normalized.
LEMMA NormalizeInvariant ==
    ASSUME IInv, Normalize
    PROVE  IInv'
<1>1. UNCHANGED <<store, requester, seen, reply>>
    BY DEF Normalize
<1>2. TypeOK'
    BY DEF Normalize, IInv, TypeOK
<1>3. NewIsFromReply'
    BY <1>1, ClaimsUnchanged DEF Normalize, IInv, NewIsFromReply
<1>4. LedgerFollowsReply'
    BY <1>1, ClaimsUnchanged DEF Normalize, LedgerFollowsReply
<1> QED
    BY <1>2, <1>3, <1>4 DEF Normalize, IInv, KeptAreClaims, DenialsAreKept, ReleasedIsNotVetoed

\* A claim is bound to its events.
LEMMA BindInvariant ==
    ASSUME IInv, Bind
    PROVE  IInv'
<1>1. UNCHANGED <<store, requester, seen, reply>>
    BY DEF Bind
<1>2. TypeOK'
    BY DEF Bind, IInv, TypeOK
<1>3. NewIsFromReply'
    BY <1>1, ClaimsUnchanged DEF Bind, IInv, NewIsFromReply
<1>4. ledger = [n \in Considered |-> Normalized(n)]
    BY DEF Bind, IInv, LedgerFollowsReply
<1>5. ledger' = [n \in Considered |-> Prepared(n)]
    BY <1>4 DEF Bind, Prepared
<1>6. \A n \in Considered : ~BindOffends(Normalized(n))
    BY <1>4 DEF Bind, Entries
<1>7. LedgerFollowsReply'
    BY <1>1, <1>5, <1>6, ClaimsUnchanged DEF Bind, LedgerFollowsReply
<1> QED
    BY <1>2, <1>3, <1>7 DEF Bind, IInv, KeptAreClaims, DenialsAreKept, ReleasedIsNotVetoed

\* Of a denial that was validated, the first with its signature is kept.
LEMMA ValidateInvariant ==
    ASSUME IInv, Validate
    PROVE  IInv'
<1>1. UNCHANGED <<store, requester, seen, reply>> /\ pc = "validate" /\ pc' = "review"
    BY DEF Validate
<1> DEFINE Keep == {n \in DOMAIN ledger : ~Omits(ledger[n]) /\ ~Repeats(n)}
<1>2. ledger = [n \in Considered |-> Prepared(n)]
    BY <1>1 DEF IInv, LedgerFollowsReply
<1>3. /\ DOMAIN ledger' = Keep
      /\ \A n \in Keep : ledger'[n] = Validated(ledger[n])
    BY DEF Validate
<1>4. Keep \subseteq Considered /\ \A n \in Keep : ~Omits(Prepared(n)) /\ ledger'[n] = Validated(Prepared(n))
    BY <1>2, <1>3
<1>5. TypeOK'
    BY <1>1 DEF Validate, IInv, TypeOK
<1>6. NewIsFromReply'
    BY <1>1, ClaimsUnchanged DEF IInv, NewIsFromReply
<1>7. LedgerFollowsReply'
    BY <1>1, ClaimsUnchanged DEF IInv, LedgerFollowsReply
<1>8. KeptAreClaims'
  <2>1. \A n \in Keep : \E s \in Sources(Prepared(n)) : ledger'[n] = Located(n, s)
    <3> SUFFICES ASSUME NEW n \in Keep
                 PROVE  \E s \in Sources(Prepared(n)) : ledger'[n] = Located(n, s)
      OBVIOUS
    <3>1. Sources(Prepared(n)) # {}
      BY <1>4 DEF Omits
    <3> DEFINE s == CHOOSE s \in Sources(Prepared(n)) : TRUE
    <3>2. s \in Sources(Prepared(n))
      BY <3>1
    <3>3. ledger'[n] = Located(n, s)
      BY <1>4 DEF Validated, Located
    <3> QED
      BY <3>2, <3>3
  <2>2. \A n : Sources(Prepared(n))' = Sources(Prepared(n))
    BY <1>1, ClaimsUnchanged DEF Sources
  <2> QED
    BY <1>1, <1>3, <1>4, <2>1, <2>2, ClaimsUnchanged DEF KeptAreClaims
<1>9. DenialsAreKept'
  <2>1. ASSUME NEW n \in Considered, Prepared(n).delivery = "block"
        PROVE  \E m \in Keep : Signature(Prepared(m)) = Signature(Prepared(n))
    <3>1. ledger[n] \in Entries /\ ledger[n] = Prepared(n)
      BY <1>2, <2>1 DEF Entries
    <3>2. ~Omits(Prepared(n))
      BY <3>1, <2>1 DEF Validate, ValidationFails, Omitted
    <3> DEFINE Same == {m \in Considered : /\ ~Omits(Prepared(m))
                                           /\ Signature(Prepared(m)) = Signature(Prepared(n))}
    <3>3. Same \subseteq Nat
      BY DEF Considered, Places
    <3>4. PICK m \in Same : \A j \in Same : ~(j < m)
      <4>1. IsWellFoundedOn(OpToRel(<, Nat), Nat)
        BY NatLessThanWellFounded
      <4>2. n \in Same
        BY <3>2, <2>1
      <4>3. PICK m \in Same : \A j \in Same : ~(<<j, m>> \in OpToRel(<, Nat))
        BY <4>1, <4>2, <3>3, WFMin
      <4> QED
        BY <3>3, <4>3 DEF OpToRel
    <3>5. ~Repeats(m)
      BY <1>2, <3>4 DEF Repeats
    <3>6. m \in Keep
      BY <1>2, <3>4, <3>5
    <3> QED
      BY <3>4, <3>6
  <2>2. \A n : Signature(Prepared(n))' = Signature(Prepared(n))
    BY <1>1, ClaimsUnchanged DEF Signature, Sources
  <2> QED
    BY <1>1, <1>3, <2>1, <2>2, ClaimsUnchanged DEF DenialsAreKept
<1>10. ReleasedIsNotVetoed'
    BY <1>1 DEF ReleasedIsNotVetoed
<1> QED
    BY <1>5, <1>6, <1>7, <1>8, <1>9, <1>10 DEF IInv

\* The critic denies what is vetoed and changes nothing else.
LEMMA ReviewInvariant ==
    ASSUME IInv, Review
    PROVE  IInv'
<1>1. UNCHANGED <<store, requester, seen, reply>> /\ pc = "review" /\ pc' = "answered"
    BY DEF Review
<1>2. /\ DOMAIN ledger' = DOMAIN ledger
      /\ \A n \in DOMAIN ledger : ledger'[n] = Reviewed(ledger[n])
    BY DEF Review
<1>3. TypeOK'
    BY <1>1 DEF Review, IInv, TypeOK
<1>4. NewIsFromReply'
    BY <1>1, ClaimsUnchanged DEF IInv, NewIsFromReply
<1>5. LedgerFollowsReply'
    BY <1>1, ClaimsUnchanged DEF IInv, LedgerFollowsReply
<1>6. KeptAreClaims'
  <2>1. \A n : Sources(Prepared(n))' = Sources(Prepared(n))
    BY <1>1, ClaimsUnchanged DEF Sources
  <2>2. \A n \in DOMAIN ledger : \E s \in Sources(Prepared(n)) :
           \/ ledger'[n] = Located(n, s)
           \/ ledger'[n] = Blocked(Located(n, s))
    BY <1>1, <1>2 DEF IInv, KeptAreClaims, Reviewed
  <2>3. DOMAIN ledger \subseteq Considered
    BY <1>1 DEF IInv, KeptAreClaims
  <2> QED
    BY <1>1, <1>2, <2>1, <2>2, <2>3, ClaimsUnchanged DEF KeptAreClaims
<1>7. DenialsAreKept'
  <2>1. \A n : Signature(Prepared(n))' = Signature(Prepared(n))
    BY <1>1, ClaimsUnchanged DEF Signature, Sources
  <2> QED
    BY <1>1, <1>2, <2>1, ClaimsUnchanged DEF IInv, DenialsAreKept
<1>8. ReleasedIsNotVetoed'
  <2> SUFFICES ASSUME NEW n \in DOMAIN ledger, ledger'[n].delivery # "block"
               PROVE  ~Vetoed(ledger'[n])
    BY <1>1, <1>2, ClaimsUnchanged DEF ReleasedIsNotVetoed
  <2>1. PICK s : ledger[n] = Located(n, s)
    BY <1>1 DEF IInv, KeptAreClaims
  <2>2. CASE Vetoed(ledger[n])
    <3>1. ledger'[n] = Blocked(Located(n, s))
      BY <1>2, <2>1, <2>2 DEF Reviewed
    <3>2. ledger'[n].delivery = "block"
      BY <3>1, DeniedIsBlocked
    <3> QED
      BY <3>2
  <2>3. CASE ~Vetoed(ledger[n])
    BY <1>2, <2>3 DEF Reviewed
  <2> QED
    BY <2>2, <2>3
<1> QED
    BY <1>3, <1>4, <1>5, <1>6, <1>7, <1>8 DEF IInv

\* A step that changes nothing.
LEMMA StutterInvariant ==
    ASSUME IInv, UNCHANGED vars
    PROVE  IInv'
<1>1. UNCHANGED <<store, requester, seen, reply>> /\ ledger' = ledger /\ pc' = pc /\ pending' = pending
    BY DEF vars
<1>2. TypeOK'
    BY <1>1 DEF IInv, TypeOK
<1>3. \A n : Sources(Prepared(n))' = Sources(Prepared(n))
    BY <1>1, ClaimsUnchanged DEF Sources
<1>4. \A n : Signature(Prepared(n))' = Signature(Prepared(n))
    BY <1>1, ClaimsUnchanged DEF Signature, Sources
<1>5. NewIsFromReply' /\ LedgerFollowsReply'
    BY <1>1, ClaimsUnchanged DEF IInv, NewIsFromReply, LedgerFollowsReply
<1>6. KeptAreClaims' /\ DenialsAreKept' /\ ReleasedIsNotVetoed'
    BY <1>1, <1>3, <1>4, ClaimsUnchanged DEF IInv, KeptAreClaims, DenialsAreKept, ReleasedIsNotVetoed
<1> QED
    BY <1>2, <1>5, <1>6 DEF IInv

\* Every step of the specification preserves the invariant.
LEMMA NextInvariant ==
    ASSUME IInv, [Next]_vars
    PROVE  IInv'
<1>1. CASE \E r \in Requesters : Begin(r)
    BY <1>1, BeginInvariant
<1>2. CASE \E answer \in Replies : Ask(answer)
    BY <1>2, AskInvariant
<1>3. CASE Retry
    BY <1>3, RetryInvariant
<1>4. CASE AcceptDelta
    BY <1>4, AcceptDeltaInvariant
<1>5. CASE NoDelta
    BY <1>5, NoDeltaInvariant
<1>6. CASE DeltaRefused \/ NormalizeRefused \/ BindRefused \/ ValidateRefused
    BY <1>6, RefusedInvariant DEF DeltaRefused, NormalizeRefused, BindRefused, ValidateRefused
<1>7. CASE ExpandRefused
    BY <1>7, RefusedInvariant, CrashInvariant DEF ExpandRefused
<1>8. CASE Normalize
    BY <1>8, NormalizeInvariant
<1>9. CASE Bind
    BY <1>9, BindInvariant
<1>10. CASE Validate
    BY <1>10, ValidateInvariant
<1>11. CASE Review
    BY <1>11, ReviewInvariant
<1>12. CASE UNCHANGED vars
    BY <1>12, StutterInvariant
<1> QED
    BY <1>1, <1>2, <1>3, <1>4, <1>5, <1>6, <1>7, <1>8, <1>9, <1>10, <1>11, <1>12 DEF Next, Work

\* The invariant holds of every behaviour of the Stage-2 call.
THEOREM Invariance == Spec => []IInv
<1>1. Init => IInv
    BY InitInvariant
<1>2. IInv /\ [Next]_vars => IInv'
    BY NextInvariant
<1> QED
    BY <1>1, <1>2, PTL DEF Spec

(***************************************************************************)
(* What the invariant shows                                                  *)
(***************************************************************************)

\* A named denial is looked at, is kept, and stands in a source it was stated for.
LEMMA InvariantKeepsDenials == IInv => DenialsSurvive
<1> SUFFICES ASSUME IInv, pc = "answered", NEW n \in Places, Denies(Raw(n)), ~Unnamed(Raw(n))
             PROVE  LET named == {Raw(n).candidate} \cap Normalized(n).quote
                    IN  \E s \in IF named = {} THEN Normalized(n).quote ELSE named : DeniedIn(n, s)
    BY DEF DenialsSurvive
<1> DEFINE named == {Raw(n).candidate} \cap Normalized(n).quote
<1>1. n \in Considered
  <2>1. Absent # "block"
    BY StageTwoAssumption
  <2>2. ~Ignored(Raw(n))
    BY <2>1 DEF Ignored, Denies
  <2> QED
    BY <2>2 DEF Considered
<1>2. Prepared(n).delivery = "block"
    BY NormalizedFields, PreparedFields
<1>3. PICK m \in DOMAIN ledger : Signature(Prepared(m)) = Signature(Prepared(n))
    BY <1>1, <1>2 DEF IInv, DenialsAreKept
<1>4. /\ Prepared(m).delivery = "block"
      /\ Prepared(m).quote = Prepared(n).quote
      /\ Sources(Prepared(m)) = Sources(Prepared(n))
    BY <1>2, <1>3 DEF Signature
<1>5. PICK s \in Sources(Prepared(m)) :
         \/ ledger[m] = Located(m, s)
         \/ ledger[m] = Blocked(Located(m, s))
    BY DEF IInv, KeptAreClaims
<1>6. /\ ledger[m].delivery = "block"
      /\ ledger[m].quote = Normalized(n).quote
      /\ ledger[m].candidate = s
  <2>1. ledger[m] \in {Located(m, s), Blocked(Located(m, s))}
    BY <1>5
  <2>2. /\ ledger[m].candidate = s
        /\ ledger[m].quote = Prepared(m).quote
        /\ ledger[m].delivery = Prepared(m).delivery \/ ledger[m].delivery = "block"
    BY <2>1, LocatedFields
  <2> QED
    BY <2>2, <1>4, PreparedFields
<1>7. DeniedIn(n, s)
    BY <1>6 DEF DeniedIn
<1>8. s \in IF named = {} THEN Normalized(n).quote ELSE named
  <2> DEFINE quote == Normalized(n).quote
             candidate == Raw(n).candidate
  <2>1. Prepared(n).quote = quote /\ Prepared(n).candidate = candidate
    BY NormalizedFields, PreparedFields
  <2>2. Sources(Prepared(n)) = IF candidate \in quote THEN {candidate}
                               ELSE IF Cardinality(quote) = 1 THEN quote ELSE {}
    BY <2>1, Zenon DEF Sources
  <2>3. s \in Sources(Prepared(n))
    BY <1>4, <1>5
  <2> HIDE DEF quote, candidate
  <2>4. s \in IF {candidate} \cap quote = {} THEN quote ELSE {candidate} \cap quote
    BY <2>2, <2>3
  <2> QED
    BY <2>4 DEF quote, candidate
<1> QED
    BY <1>7, <1>8

\* The image of a finite set is finite.
LEMMA ImageIsFinite ==
    ASSUME NEW S, IsFiniteSet(S), NEW f, S \subseteq DOMAIN f
    PROVE  IsFiniteSet({f[x] : x \in S})
<1> DEFINE T == {f[x] : x \in S}
           g == [x \in S |-> f[x]]
<1>1. g \in Surjection(S, T)
    BY DEF Surjection
<1> QED
    BY <1>1, FS_Surjection

\* The events a claim can be bound to are finitely many, and so are their targets.
LEMMA TargetsAreFinite ==
    ASSUME IInv, NEW c
    PROVE  IsFiniteSet(SelectedTargets(c))
<1>1. seen \in Nat /\ Len(store) \in Nat
    BY DEF IInv, TypeOK
<1>2. IsFiniteSet({store[k] : k \in {k \in 1..seen : ShownTo(requester, store[k])}})
  <2> DEFINE K == {k \in 1..seen : ShownTo(requester, store[k])}
             f == [k \in K |-> store[k]]
  <2>1. IsFiniteSet(1..seen)
    BY <1>1, FS_Interval
  <2>2. IsFiniteSet(K)
    BY <2>1, FS_Subset
  <2>3. IsFiniteSet({f[k] : k \in K})
    BY <2>2, ImageIsFinite
  <2>4. {f[k] : k \in K} = {store[k] : k \in K}
    OBVIOUS
  <2> QED
    BY <2>3, <2>4
<1>3. IsFiniteSet(ToSet(Delta))
  <2>1. Delta \in Seq(Event) \/ Delta = <<>>
    BY DEF Delta, IInv, TypeOK, Reply
  <2>2. Len(Delta) \in Nat /\ DOMAIN Delta = 1..Len(Delta)
    BY <2>1
  <2>3. IsFiniteSet(DOMAIN Delta)
    BY <2>2, FS_Interval
  <2>4. IsFiniteSet({Delta[k] : k \in DOMAIN Delta})
    BY <2>3, ImageIsFinite
  <2> QED
    BY <2>4 DEF ToSet
<1>4. IsFiniteSet(Policies)
    BY <1>2, <1>3, FS_Union DEF Policies
<1>5. IsFiniteSet(Selected(c))
    BY <1>4, FS_Subset DEF Selected
<1> DEFINE f == [e \in Selected(c) |-> e.target]
<1>6. IsFiniteSet({f[e] : e \in Selected(c)})
    BY <1>5, ImageIsFinite
<1>7. {f[e] : e \in Selected(c)} = SelectedTargets(c)
    BY DEF SelectedTargets
<1> QED
    BY <1>6, <1>7

\* An event that concerns the requester was in the prompt or in the reply, so a
\* claim that names it is bound to it and to its target, and the critic sees it.
LEMMA InvariantEnforcesDenials == IInv => BoundDenialsEnforced
<1> SUFFICES ASSUME IInv, pc = "answered", NEW n \in DOMAIN ledger,
                    ledger[n].delivery = "exact", Raw(n).bind # Absent,
                    NEW k \in 1..Len(store), store[k].id \in Raw(n).bind
             PROVE  /\ store[k].effect # "delete"
                    /\ store[k].effect = "deny" /\ store[k].grantee = requester =>
                          \E j \in (k + 1)..Len(store) :
                              store[j].grantee = requester /\ store[j].target = store[k].target
    BY DEF BoundDenialsEnforced
<1> DEFINE e == store[k]
           c == Normalized(n)
<1>1. n \in Considered
    BY DEF IInv, KeptAreClaims
<1>2. PICK s : \/ ledger[n] = Located(n, s)
               \/ ledger[n] = Blocked(Located(n, s))
    BY DEF IInv, KeptAreClaims
<1>3. /\ c.delivery # "block"
      /\ ledger[n].binds = Prepared(n).binds
      /\ ledger[n].target = Prepared(n).target
  <2>1. ledger[n] \in {Located(n, s), Blocked(Located(n, s))}
    BY <1>2
  <2>2. /\ ledger[n].binds = Prepared(n).binds
        /\ ledger[n].target = Prepared(n).target
        /\ ledger[n].delivery = Prepared(n).delivery \/ ledger[n].delivery = "block"
    BY <2>1, LocatedFields
  <2> QED
    BY <2>2, PreparedFields
<1>4. ~Vetoed(ledger[n])
    BY DEF IInv, ReleasedIsNotVetoed
<1>5. ~BindOffends(c)
    BY <1>1 DEF IInv, LedgerFollowsReply
<1>6. e \in Event /\ seen \in Nat /\ Len(store) \in Nat
    BY DEF IInv, TypeOK
<1>7. ASSUME ShownTo(requester, e)
      PROVE  e.id \in ledger[n].binds /\ ledger[n].target = e.target
  <2>1. e \in Policies
    <3>1. CASE k <= seen
      BY <3>1, <1>6, <1>7 DEF Policies
    <3>2. CASE k > seen
      BY <3>2 DEF Policies, IInv, NewIsFromReply
    <3> QED
      BY <3>1, <3>2, <1>6
  <2>2. e \in Selected(c)
    BY <2>1, NormalizedFields DEF Selected
  <2>3. e.target \in SelectedTargets(c)
    BY <2>2 DEF SelectedTargets
  <2>4. Cardinality(SelectedTargets(c)) = 1 /\ SelectedTargets(c) = {e.target}
    <3>1. IsFiniteSet(SelectedTargets(c))
      BY TargetsAreFinite
    <3>2. Cardinality(SelectedTargets(c)) \in Nat /\ Cardinality(SelectedTargets(c)) <= 1
      BY <3>1, <1>3, <1>5, FS_CardinalityType DEF BindOffends
    <3>3. Cardinality(SelectedTargets(c)) # 0
      BY <2>3, <3>1, FS_EmptySet
    <3>4. Cardinality(SelectedTargets(c)) = 1
      BY <3>2, <3>3
    <3>5. \E x : SelectedTargets(c) = {x}
      BY <3>1, <3>4, FS_Singleton
    <3> QED
      BY <2>3, <3>4, <3>5
  <2>5. Prepared(n).target = e.target
    BY <2>4, PreparedFields
  <2>6. e.id \in Prepared(n).binds
    BY <2>2, PreparedFields
  <2> QED
    BY <1>3, <2>5, <2>6
<1>8. e.effect # "delete"
  <2> SUFFICES ASSUME e.effect = "delete"
               PROVE  FALSE
    OBVIOUS
  <2>1. ShownTo(requester, e)
    BY <1>6 DEF Event, ShownTo
  <2>2. e \in Deletions
    BY DEF Deletions, Projected
  <2> QED
    BY <1>4, <1>7, <2>1, <2>2 DEF Vetoed
<1>9. ASSUME e.effect = "deny", e.grantee = requester
      PROVE  \E j \in (k + 1)..Len(store) :
                store[j].grantee = requester /\ store[j].target = e.target
  <2> SUFFICES ASSUME \A j \in (k + 1)..Len(store) :
                         store[j].grantee # requester \/ store[j].target # e.target
               PROVE  FALSE
    OBVIOUS
  <2>1. ShownTo(requester, e)
    BY <1>9 DEF ShownTo
  <2>2. e \in Effective
    BY <1>6, <1>9 DEF Effective, Projected
  <2> QED
    BY <1>4, <1>7, <1>9, <2>1, <2>2 DEF Vetoed
<1> QED
    BY <1>8, <1>9

\* DenialsSurvive: whatever form a named denial has and however the reply was
\* repaired, normalised, bound, deduplicated and reviewed, it is in the ledger.
THEOREM DenialsReachTheLedger == Spec => []DenialsSurvive
BY Invariance, InvariantKeepsDenials, PTL

\* BoundDenialsEnforced: no claim that names an effective denial of the requester,
\* or a deletion, is released, be the event old or from this very reply.
THEOREM DenialsEnforced == Spec => []BoundDenialsEnforced
BY Invariance, InvariantEnforcesDenials, PTL
===============================================================================
