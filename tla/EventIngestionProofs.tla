------------------------- MODULE EventIngestionProofs -------------------------
(***************************************************************************)
(* Proofs about EventIngestion, for every conversation, every budget and    *)
(* every set of memory modes.                                               *)
(*                                                                          *)
(* The argument: at each point of a run, what is offered to the next model  *)
(* call is exactly the part of the visible prefix the store object lacks    *)
(* (Coverage), the store object extends the file (DurableIsRemembered), and *)
(* the counters of a run are tied to where it stands (Costs).  Batch enters *)
(* only through BatchIsDownwardClosed, so the size arithmetic is never      *)
(* unfolded.                                                                *)
(***************************************************************************)
EXTENDS EventIngestion, TLAPS

Missing == (1..prefix) \ Processed(mem)

\* What each phase of a run has on offer, and what it has covered.
Coverage ==
    /\ pc = "prefill" => pending = Missing
    /\ pc = "prefill_save" => pending \ Batch = Missing
    /\ pc = "reason" => ingestion = IF gap THEN {} ELSE Missing
    /\ pc \in {"prefill", "prefill_save", "joint_save"} => ~gap
    /\ pc \in {"prefill", "prefill_save", "claims", "answer"} => ingestion = {}
    /\ (pc \in {"joint_save", "claims", "answer"} \/ outcome \in {"answered", "withheld"})
          => gap \/ Missing = {}

\* A finished run is idle, a dead process remembers nothing.
Standing ==
    /\ outcome # "none" => pc = "idle"
    /\ pc = "down" => mem = Absent

\* The counters of a run, by phase.
Costs ==
    /\ pc = "prefill" => calls.prefill = audits
    /\ pc = "prefill_save" => calls.prefill = audits + 1
    /\ pc \in {"reason", "joint_save", "claims", "answer"} =>
          IF gap THEN calls.prefill = audits + 1 ELSE calls.prefill = audits
    /\ pc \in {"prefill", "prefill_save"} => calls.stage2 = 0 /\ failures = 0
    /\ pc = "reason" => calls.stage2 = failures /\ failures <= RepairLimit
    /\ pc \in {"joint_save", "claims", "answer"} =>
          calls.stage2 = failures + 1 /\ failures <= RepairLimit
    /\ pc # "idle" => calls.answer = 0

IInv ==
    /\ TypeOK
    /\ Standing
    /\ WatermarkIsPrefix
    /\ DurableIsRemembered
    /\ ModeIsolated
    /\ Coverage
    /\ Costs
    /\ CallBudget
    /\ DeliveredCostIsExact

-------------------------------------------------------------------------------
(* The operators on stores and batches *)

\* Stamping changes the status of the given turns only where it was "none".
LEMMA StampProcessed ==
    ASSUME NEW s \in Store, NEW S \in SUBSET Turns, NEW status \in Status \ {"none"}
    PROVE  /\ Stamp(s, S, status) \in Store
           /\ Stamp(s, S, status).mode = s.mode
           /\ Processed(Stamp(s, S, status)) = Processed(s) \cup S
           /\ \A t \in Processed(s) : Stamp(s, S, status).status[t] = s.status[t]
BY DEF Stamp, Store, Processed, Ledger!Recorded, Turns, Status

\* The break out of the batch loop: with a turn, everything pending before it.
LEMMA BatchIsDownwardClosed ==
    ASSUME pending \subseteq Turns
    PROVE  /\ Batch \subseteq pending
           /\ \A t \in Batch : \A u \in pending : u <= t => u \in Batch
BY DEF Batch, UpTo, Turns, Ledger!Turns

\* NoHole, said of the processed turns.
LEMMA NoHoleIsDownwardClosed ==
    ASSUME NEW s \in Store
    PROVE  Ledger!NoHole(s.status) <=>
              \A t \in Processed(s) : 1..t \subseteq Processed(s)
BY ConfigAssumption, SMTT(30) DEF Ledger!NoHole, Processed, Ledger!Recorded, Turns, Ledger!Turns, Store

\* What a started run works on.
LEMMA LoadedStore ==
    ASSUME IInv, mem # Absent \/ disk = Absent \/ disk.mode = mode
    PROVE  /\ Loaded \in Store
           /\ Loaded.mode = mode
           /\ Ledger!NoHole(Loaded.status)
           /\ \A t \in Processed(disk) : Loaded.status[t] = disk.status[t]
           /\ disk.mode \in {"none", mode}
<1>1. mode \in Modes /\ mode # "none" /\ mem \in Store /\ disk \in Store
  BY ConfigAssumption DEF IInv, TypeOK
<1>2. /\ Empty(mode) \in Store /\ Empty(mode).mode = mode /\ Processed(Empty(mode)) = {}
      /\ Ledger!NoHole(Empty(mode).status)
  BY <1>1 DEF Empty, Store, Processed, Ledger!Recorded, Ledger!NoHole, Turns, Status, Ledger!Status
<1>3. disk = Absent => disk.mode = "none" /\ Processed(disk) = {}
  BY DEF Absent, Processed, Ledger!Recorded, Turns
<1>4. CASE mem # Absent
  BY <1>1, <1>4 DEF IInv, ModeIsolated, DurableIsRemembered, WatermarkIsPrefix, Loaded
<1>5. CASE mem = Absent /\ disk = Absent
  BY <1>1, <1>2, <1>3, <1>5 DEF Loaded
<1>6. CASE mem = Absent /\ disk # Absent /\ disk.mode = mode
  BY <1>1, <1>6 DEF IInv, WatermarkIsPrefix, Loaded
<1>7. QED
  BY <1>4, <1>5, <1>6

-------------------------------------------------------------------------------
(* Steps that leave the store alone, and steps that extend or save it *)

StoreInv == WatermarkIsPrefix /\ DurableIsRemembered /\ ModeIsolated
RunInv == TypeOK /\ Standing /\ Coverage
CostInv == Costs /\ CallBudget /\ DeliveredCostIsExact

\* What the invariant says of the stores survives a step that changes neither of them.
LEMMA StoreUntouched ==
    ASSUME IInv, UNCHANGED <<store, mode>>
    PROVE  StoreInv' /\ Processed(mem)' = Processed(mem)
BY DEF IInv, StoreInv, store, WatermarkIsPrefix, DurableIsRemembered, ModeIsolated,
       Processed, Ledger!Recorded, Ledger!NoHole

\* Appending a part of what is missing that leaves no hole behind.
LEMMA AppendKeepsStoreInv ==
    ASSUME IInv, pc \notin {"idle", "down"},
           NEW S \in SUBSET Missing, \A t \in S : \A u \in Missing : u <= t => u \in S,
           NEW status \in Status \ {"none"},
           mem' = Stamp(mem, S, status), UNCHANGED <<disk, mode>>
    PROVE  /\ StoreInv'
           /\ mem' \in Store /\ mem'.mode = mem.mode
           /\ Processed(mem)' = Processed(mem) \cup S
<1>1. /\ mem \in Store /\ disk \in Store /\ mem # Absent
      /\ prefix \in 0..NumTurns /\ S \subseteq 1..prefix /\ S \subseteq Turns
  BY ConfigAssumption DEF IInv, TypeOK, Absent, Missing, Turns, Ledger!Turns
<1>2. /\ mem' \in Store
      /\ mem'.mode = mem.mode
      /\ Processed(mem') = Processed(mem) \cup S
      /\ \A t \in Processed(mem) : mem'.status[t] = mem.status[t]
  <2>1. S \in SUBSET Turns
    BY <1>1
  <2> DEFINE stamped == Stamp(mem, S, status)
  <2>2. /\ stamped \in Store /\ stamped.mode = mem.mode
        /\ Processed(stamped) = Processed(mem) \cup S
        /\ \A t \in Processed(mem) : stamped.status[t] = mem.status[t]
    BY <1>1, <2>1, StampProcessed
  <2>3. mem' = stamped
    OBVIOUS
  <2> HIDE DEF stamped
  <2>4. QED
    BY <2>2, <2>3
<1>3. Ledger!NoHole(mem'.status)
  <2>1. \A t \in Processed(mem) : 1..t \subseteq Processed(mem)
    BY <1>1, NoHoleIsDownwardClosed DEF IInv, WatermarkIsPrefix
  <2>2. ASSUME NEW t \in S, NEW u \in 1..t
        PROVE  u \in Processed(mem) \cup S
    BY <1>1, <2>2, ConfigAssumption DEF Missing
  <2>3. \A t \in Processed(mem') : 1..t \subseteq Processed(mem')
    BY <1>2, <2>1, <2>2
  <2>4. QED
    BY <1>2, <2>3, NoHoleIsDownwardClosed
<1>4. WatermarkIsPrefix'
  BY <1>3 DEF IInv, WatermarkIsPrefix, Ledger!NoHole
<1>5. DurableIsRemembered'
  <2>1. \A t \in Processed(disk) : t \in Processed(mem) /\ mem.status[t] = disk.status[t]
    BY <1>1 DEF IInv, DurableIsRemembered, Processed, Ledger!Recorded
  <2>2. Processed(disk)' = Processed(disk)
    BY DEF Processed, Ledger!Recorded
  <2>3. QED
    BY <1>2, <2>1, <2>2 DEF DurableIsRemembered
<1>6. ModeIsolated'
  BY <1>1, <1>2 DEF IInv, ModeIsolated
<1>7. QED
  BY <1>2, <1>4, <1>5, <1>6 DEF StoreInv, Processed

\* Writing the store object to its file.
LEMMA SaveKeepsStoreInv ==
    ASSUME IInv, pc \notin {"idle", "down"}, disk' = mem, UNCHANGED <<mem, mode>>
    PROVE  StoreInv' /\ Processed(mem)' = Processed(mem)
<1>1. mem # Absent
  BY ConfigAssumption DEF IInv, TypeOK, Absent
<1>2. QED
  BY <1>1 DEF IInv, StoreInv, WatermarkIsPrefix, DurableIsRemembered, ModeIsolated,
              Processed, Ledger!Recorded, Ledger!NoHole

-------------------------------------------------------------------------------
(* One lemma per action: the inductive invariant is kept *)

\* A process that has loaded nothing satisfies the invariant.
LEMMA InitEstablishes == Init => IInv
<1>1. SUFFICES ASSUME Init PROVE IInv
  OBVIOUS
<1> USE <1>1
<1>2. /\ Absent \in Store /\ Processed(Absent) = {} /\ Ledger!NoHole(Absent.status)
  BY DEF Absent, Store, Processed, Ledger!Recorded, Ledger!NoHole, Turns, Status, Ledger!Status
<1>3. RunInv
  <2>1. TypeOK
    <3>1. gap \in BOOLEAN
      BY DEF Init
    <3>2. QED
      BY <1>2, <3>1, ConfigAssumption DEF Init, TypeOK, NoCalls, PcValues
  <2>2. QED
    BY <2>1 DEF Init, RunInv, Standing, Coverage
<1>4. StoreInv
  BY <1>2 DEF Init, StoreInv, WatermarkIsPrefix, DurableIsRemembered, ModeIsolated
<1>5. CostInv
  BY ConfigAssumption DEF Init, CostInv, Costs, CallBudget, DeliveredCostIsExact, NoCalls
<1>6. QED
  BY <1>3, <1>4, <1>5 DEF IInv, RunInv, StoreInv, CostInv

\* A kill keeps the file and forgets the process: the file alone is enough.
LEMMA KillKeeps == ASSUME IInv, Kill PROVE IInv'
<1>1. Absent \in Store /\ Processed(Absent) = {} /\ Ledger!NoHole(Absent.status)
  BY DEF Absent, Store, Processed, Ledger!Recorded, Ledger!NoHole, Turns, Status, Ledger!Status
<1>2. RunInv'
  <2>1. TypeOK'
    <3>1. (gap \in BOOLEAN)'
      BY DEF Kill
    <3>2. QED
      BY <1>1, <3>1, ConfigAssumption, SMTT(30)
         DEF IInv, Kill, TypeOK, NoCalls, Store, Turns, Ledger!Turns, Status, Ledger!Status, PcValues
  <2>2. QED
    BY <2>1 DEF Kill, RunInv, Standing, Coverage
<1>3. StoreInv'
  BY <1>1 DEF IInv, Kill, StoreInv, WatermarkIsPrefix, DurableIsRemembered, ModeIsolated, Ledger!NoHole
<1>4. CostInv'
  BY ConfigAssumption DEF Kill, CostInv, Costs, CallBudget, DeliveredCostIsExact, NoCalls
<1>5. QED
  BY <1>2, <1>3, <1>4 DEF IInv, RunInv, StoreInv, CostInv

\* A process started in either memory mode satisfies the invariant.
LEMMA RestartKeeps == ASSUME IInv, Restart PROVE IInv'
<1>1. RunInv'
  BY DEF IInv, Restart, RunInv, TypeOK, Standing, Coverage, run, store, PcValues
<1>2. StoreInv'
  BY DEF IInv, Restart, StoreInv, Standing, WatermarkIsPrefix, DurableIsRemembered, ModeIsolated,
         store, Processed, Ledger!Recorded, Ledger!NoHole
<1>3. CostInv'
  BY DEF IInv, Restart, CostInv, Standing, Costs, CallBudget, DeliveredCostIsExact, run
<1>4. QED
  BY <1>1, <1>2, <1>3 DEF IInv, RunInv, StoreInv, CostInv

\* A run that starts with the memory store or the loaded file keeps the invariant.
LEMMA StartRunKeeps == ASSUME IInv, NEW k \in Turns, StartRun(k) PROVE IInv'
<1>1. /\ Loaded \in Store
      /\ Loaded.mode = mode
      /\ Ledger!NoHole(Loaded.status)
      /\ \A t \in Processed(disk) : Loaded.status[t] = disk.status[t]
      /\ disk.mode \in {"none", mode}
  BY LoadedStore DEF StartRun
<1>2. Processed(mem)' = Processed(Loaded) /\ Processed(disk)' = Processed(disk)
  BY DEF StartRun, Processed, Ledger!Recorded
<1>3. RunInv'
  <2>1. TypeOK'
    <3>1. (gap \in BOOLEAN)'
      BY DEF StartRun
    <3>2. QED
      BY <1>1, <3>1, ConfigAssumption
         DEF IInv, StartRun, TypeOK, NoCalls, Store, Turns, Ledger!Turns, Status, Ledger!Status, PcValues
  <2>2. Coverage'
    BY <1>2 DEF StartRun, Coverage, Missing
  <2>3. QED
    BY <2>1, <2>2 DEF StartRun, RunInv, Standing
<1>4. StoreInv'
  <2>1. WatermarkIsPrefix'
    BY <1>1 DEF IInv, StartRun, WatermarkIsPrefix, Ledger!NoHole
  <2>2. DurableIsRemembered'
    BY <1>1, <1>2 DEF StartRun, DurableIsRemembered
  <2>3. ModeIsolated'
    BY <1>1 DEF StartRun, ModeIsolated
  <2>4. QED
    BY <2>1, <2>2, <2>3 DEF StoreInv
<1>5. CostInv'
  BY ConfigAssumption DEF StartRun, CostInv, Costs, CallBudget, DeliveredCostIsExact, NoCalls
<1>6. QED
  BY <1>3, <1>4, <1>5 DEF IInv, RunInv, StoreInv, CostInv

\* A store file of the other memory mode is refused and left as it is.
LEMMA StartRunRefusedKeeps == ASSUME IInv, StartRunRefused PROVE IInv'
<1>1. StoreInv' /\ Processed(mem)' = Processed(mem)
  BY StoreUntouched DEF StartRunRefused, Finish, run, store
<1>2. RunInv'
  <2>1. TypeOK'
    BY DEF IInv, TypeOK, StartRunRefused, Finish, run, store, Predictions, Errors, Store, Turns, Ledger!Turns,
           Status, Ledger!Status, PcValues
  <2>2. QED
    BY <1>1, <2>1 DEF IInv, RunInv, Standing, Coverage, Missing, StartRunRefused, Finish, run, store
<1>3. CostInv'
  BY ConfigAssumption DEF IInv, TypeOK, Standing, Coverage, CostInv, Costs, CallBudget, DeliveredCostIsExact, StartRunRefused, Finish, run
<1>4. QED
  BY <1>1, <1>2, <1>3 DEF IInv, RunInv, StoreInv, CostInv

\* Giving up at the prefill budget leaves the stores alone.
LEMMA PrefillBudgetExceededKeeps == ASSUME IInv, PrefillBudgetExceeded PROVE IInv'
<1>1. StoreInv' /\ Processed(mem)' = Processed(mem)
  BY StoreUntouched DEF PrefillBudgetExceeded, Finish, run, store
<1>2. RunInv'
  <2>1. TypeOK'
    BY DEF IInv, TypeOK, PrefillBudgetExceeded, Finish, run, store, Predictions, Errors, Store, Turns, Ledger!Turns,
           Status, Ledger!Status, PcValues
  <2>2. QED
    BY <1>1, <2>1 DEF IInv, RunInv, Standing, Coverage, Missing, PrefillBudgetExceeded, Finish, run, store
<1>3. CostInv'
  BY ConfigAssumption DEF IInv, TypeOK, Standing, Coverage, CostInv, Costs, CallBudget, DeliveredCostIsExact, PrefillBudgetExceeded, Finish, run
<1>4. QED
  BY <1>1, <1>2, <1>3 DEF IInv, RunInv, StoreInv, CostInv

\* Giving up at a turn that fits no call leaves the stores alone.
LEMMA OversizedTurnKeeps == ASSUME IInv, OversizedTurn PROVE IInv'
<1>1. StoreInv' /\ Processed(mem)' = Processed(mem)
  BY StoreUntouched DEF OversizedTurn, Finish, run, store
<1>2. RunInv'
  <2>1. TypeOK'
    BY DEF IInv, TypeOK, OversizedTurn, Finish, run, store, Predictions, Errors, Store, Turns, Ledger!Turns,
           Status, Ledger!Status, PcValues
  <2>2. QED
    BY <1>1, <2>1 DEF IInv, RunInv, Standing, Coverage, Missing, OversizedTurn, Finish, run, store
<1>3. CostInv'
  BY ConfigAssumption DEF IInv, TypeOK, Standing, Coverage, CostInv, Costs, CallBudget, DeliveredCostIsExact, OversizedTurn, Finish, run
<1>4. QED
  BY <1>1, <1>2, <1>3 DEF IInv, RunInv, StoreInv, CostInv

\* A failing save leaves the memory store ahead of the file, which stays a part of it.
LEMMA SaveFailsKeeps == ASSUME IInv, SaveFails PROVE IInv'
<1>1. StoreInv' /\ Processed(mem)' = Processed(mem)
  BY StoreUntouched DEF SaveFails, Finish, run, store
<1>2. RunInv'
  <2>1. TypeOK'
    BY DEF IInv, TypeOK, SaveFails, Finish, run, store, Predictions, Errors, Store, Turns, Ledger!Turns,
           Status, Ledger!Status, PcValues
  <2>2. QED
    BY <1>1, <2>1 DEF IInv, RunInv, Standing, Coverage, Missing, SaveFails, Finish, run, store
<1>3. CostInv'
  BY ConfigAssumption DEF IInv, TypeOK, Standing, Coverage, CostInv, Costs, CallBudget, DeliveredCostIsExact, SaveFails, Finish, run
<1>4. QED
  BY <1>1, <1>2, <1>3 DEF IInv, RunInv, StoreInv, CostInv

\* When the rest fits the joint call, everything before it is processed.
LEMMA PrefillDoneKeeps == ASSUME IInv, PrefillDone PROVE IInv'
<1>1. StoreInv' /\ Processed(mem)' = Processed(mem)
  BY StoreUntouched DEF PrefillDone, run, store
<1>2. RunInv'
  <2>1. TypeOK'
    BY DEF IInv, TypeOK, PrefillDone, run, store, Predictions, Errors, Store, Turns, Ledger!Turns,
           Status, Ledger!Status, PcValues
  <2>2. QED
    BY <1>1, <2>1 DEF IInv, RunInv, Standing, Coverage, Missing, PrefillDone, run, store
<1>3. CostInv'
  BY ConfigAssumption DEF IInv, TypeOK, Standing, Coverage, CostInv, Costs, CallBudget, DeliveredCostIsExact, PrefillDone, run
<1>4. QED
  BY <1>1, <1>2, <1>3 DEF IInv, RunInv, StoreInv, CostInv

\* A failing Stage-2 call leaves the stores alone.
LEMMA Stage2ErrorKeeps == ASSUME IInv, Stage2Error PROVE IInv'
<1>1. StoreInv' /\ Processed(mem)' = Processed(mem)
  BY StoreUntouched DEF Stage2Error, Stage2Call, Finish, store
<1>2. RunInv'
  <2>1. TypeOK'
    BY DEF IInv, TypeOK, Stage2Error, Stage2Call, Finish, store, Predictions, Errors, Store, Turns, Ledger!Turns,
           Status, Ledger!Status, PcValues
  <2>2. QED
    BY <1>1, <2>1 DEF IInv, RunInv, Standing, Coverage, Missing, Stage2Error, Stage2Call, Finish, store
<1>3. CostInv'
  BY ConfigAssumption DEF IInv, TypeOK, Standing, Coverage, CostInv, Costs, CallBudget, DeliveredCostIsExact, Stage2Error, Stage2Call, Finish
<1>4. QED
  BY <1>1, <1>2, <1>3 DEF IInv, RunInv, StoreInv, CostInv

\* A Stage-2 reply without an ingestion delta leaves the stores alone.
LEMMA Stage2WithoutIngestionKeeps == ASSUME IInv, Stage2WithoutIngestion PROVE IInv'
<1>1. StoreInv' /\ Processed(mem)' = Processed(mem)
  BY StoreUntouched DEF Stage2WithoutIngestion, Stage2Call, store
<1>2. RunInv'
  <2>1. TypeOK'
    BY DEF IInv, TypeOK, Stage2WithoutIngestion, Stage2Call, store, Predictions, Errors, Store, Turns, Ledger!Turns,
           Status, Ledger!Status, PcValues
  <2>2. QED
    BY <1>1, <2>1 DEF IInv, RunInv, Standing, Coverage, Missing, Stage2WithoutIngestion, Stage2Call, store
<1>3. CostInv'
  BY ConfigAssumption DEF IInv, TypeOK, Standing, Coverage, CostInv, Costs, CallBudget, DeliveredCostIsExact, Stage2WithoutIngestion, Stage2Call
<1>4. QED
  BY <1>1, <1>2, <1>3 DEF IInv, RunInv, StoreInv, CostInv

\* Accepting the claims leaves the stores alone.
LEMMA ClaimsValidKeeps == ASSUME IInv, ClaimsValid PROVE IInv'
<1>1. StoreInv' /\ Processed(mem)' = Processed(mem)
  BY StoreUntouched DEF ClaimsValid, run, store
<1>2. RunInv'
  <2>1. TypeOK'
    BY DEF IInv, TypeOK, ClaimsValid, run, store, Predictions, Errors, Store, Turns, Ledger!Turns,
           Status, Ledger!Status, PcValues
  <2>2. QED
    BY <1>1, <2>1 DEF IInv, RunInv, Standing, Coverage, Missing, ClaimsValid, run, store
<1>3. CostInv'
  BY ConfigAssumption DEF IInv, TypeOK, Standing, Coverage, CostInv, Costs, CallBudget, DeliveredCostIsExact, ClaimsValid, run
<1>4. QED
  BY <1>1, <1>2, <1>3 DEF IInv, RunInv, StoreInv, CostInv

\* An answer without a model call costs nothing further.
LEMMA WithholdKeeps == ASSUME IInv, Withhold PROVE IInv'
<1>1. StoreInv' /\ Processed(mem)' = Processed(mem)
  BY StoreUntouched DEF Withhold, Finish, run, store
<1>2. RunInv'
  <2>1. TypeOK'
    BY DEF IInv, TypeOK, Withhold, Finish, run, store, Predictions, Errors, Store, Turns, Ledger!Turns,
           Status, Ledger!Status, PcValues
  <2>2. QED
    BY <1>1, <2>1 DEF IInv, RunInv, Standing, Coverage, Missing, Withhold, Finish, run, store
<1>3. CostInv'
  BY ConfigAssumption DEF IInv, TypeOK, Standing, Coverage, CostInv, Costs, CallBudget, DeliveredCostIsExact, Withhold, Finish, run
<1>4. QED
  BY <1>1, <1>2, <1>3 DEF IInv, RunInv, StoreInv, CostInv

\* An answer call is counted, whether or not it succeeds.
LEMMA AnswerCallKeeps == ASSUME IInv, NEW result \in {"answered", "answer_error", "provider_error"}, AnswerCall(result) PROVE IInv'
<1>1. StoreInv' /\ Processed(mem)' = Processed(mem)
  BY StoreUntouched DEF AnswerCall, Finish, store
<1>2. RunInv'
  <2>1. TypeOK'
    BY DEF IInv, TypeOK, AnswerCall, Finish, store, Predictions, Errors, Store, Turns, Ledger!Turns,
           Status, Ledger!Status, PcValues
  <2>2. QED
    BY <1>1, <2>1 DEF IInv, RunInv, Standing, Coverage, Missing, AnswerCall, Finish, store
<1>3. CostInv'
  BY ConfigAssumption, SMTT(30) DEF IInv, TypeOK, Standing, Coverage, CostInv, Costs, CallBudget, DeliveredCostIsExact, AnswerCall, Finish
<1>4. QED
  BY <1>1, <1>2, <1>3 DEF IInv, RunInv, StoreInv, CostInv

\* A malformed reply before the delta is accepted leaves the stores alone.
LEMMA Stage2MalformedKeeps == ASSUME IInv, NEW recoverable \in BOOLEAN, Stage2Malformed(recoverable) PROVE IInv'
<1>1. StoreInv' /\ Processed(mem)' = Processed(mem)
  BY StoreUntouched DEF Stage2Malformed, ContractFailure, Stage2Call, Finish, store
<1>2. RunInv'
  <2>1. TypeOK'
    BY DEF IInv, TypeOK, Stage2Malformed, ContractFailure, Stage2Call, Finish, store, Predictions, Errors, Store, Turns, Ledger!Turns,
           Status, Ledger!Status, PcValues
  <2>2. QED
    BY <1>1, <2>1 DEF IInv, RunInv, Standing, Coverage, Missing, Stage2Malformed, ContractFailure, Stage2Call, Finish, store
<1>3. CostInv'
  BY ConfigAssumption, SMTT(30) DEF IInv, TypeOK, Standing, Coverage, CostInv, Costs, CallBudget, DeliveredCostIsExact, Stage2Malformed, ContractFailure, Stage2Call, Finish
<1>4. QED
  BY <1>1, <1>2, <1>3 DEF IInv, RunInv, StoreInv, CostInv

\* Rejected claims after an accepted delta leave the stores alone.
LEMMA ClaimsRejectedKeeps == ASSUME IInv, NEW recoverable \in BOOLEAN, ClaimsRejected(recoverable) PROVE IInv'
<1>1. StoreInv' /\ Processed(mem)' = Processed(mem)
  BY StoreUntouched DEF ClaimsRejected, ContractFailure, Finish, store
<1>2. RunInv'
  <2>1. TypeOK'
    BY DEF IInv, TypeOK, ClaimsRejected, ContractFailure, Finish, store, Predictions, Errors, Store, Turns, Ledger!Turns,
           Status, Ledger!Status, PcValues
  <2>2. QED
    BY <1>1, <2>1 DEF IInv, RunInv, Standing, Coverage, Missing, ClaimsRejected, ContractFailure, Finish, store
<1>3. CostInv'
  BY ConfigAssumption, SMTT(30) DEF IInv, TypeOK, Standing, Coverage, CostInv, Costs, CallBudget, DeliveredCostIsExact, ClaimsRejected, ContractFailure, Finish
<1>4. QED
  BY <1>1, <1>2, <1>3 DEF IInv, RunInv, StoreInv, CostInv

\* A batch given up leaves the stores alone and freezes the run.
LEMMA PrefillGapKeeps == ASSUME IInv, PrefillGap PROVE IInv'
<1>1. StoreInv' /\ Processed(mem)' = Processed(mem)
  BY StoreUntouched DEF PrefillGap, PrefillCall, store
<1>2. RunInv'
  <2>1. TypeOK'
    BY DEF IInv, TypeOK, PrefillGap, PrefillCall, store, Predictions, Errors, Store, Turns, Ledger!Turns,
           Status, Ledger!Status, PcValues
  <2>2. QED
    BY <1>1, <2>1 DEF IInv, RunInv, Standing, Coverage, Missing, PrefillGap, PrefillCall, store
<1>3. CostInv'
  BY ConfigAssumption DEF IInv, TypeOK, Standing, Coverage, CostInv, Costs, CallBudget, DeliveredCostIsExact, PrefillGap, PrefillCall
<1>4. QED
  BY <1>1, <1>2, <1>3 DEF IInv, RunInv, StoreInv, CostInv

\* A prefill batch is appended to the store without leaving a hole.
LEMMA PrefillAppendKeeps == ASSUME IInv, PrefillAppend PROVE IInv'
<1>1. /\ pc = "prefill" /\ pending = Missing /\ pending \subseteq Turns
      /\ mem' = Stamp(mem, Batch, "complete") /\ UNCHANGED <<disk, mode, prefix, pending>>
  BY DEF IInv, TypeOK, Coverage, PrefillAppend, PrefillCall
<1>2. /\ Batch \in SUBSET Missing
      /\ \A t \in Batch : \A u \in Missing : u <= t => u \in Batch
  BY <1>1, BatchIsDownwardClosed
<1>3. /\ StoreInv'
      /\ mem' \in Store /\ mem'.mode = mem.mode
      /\ Processed(mem)' = Processed(mem) \cup Batch
  <2>1. "complete" \in Status \ {"none"}
    BY DEF Status, Ledger!Status
  <2>2. QED
    BY <1>1, <1>2, <2>1, AppendKeepsStoreInv
<1>4. Batch' = Batch
  BY <1>1 DEF Batch, UpTo, Fits
<1>5. RunInv'
  <2>1. TypeOK'
    BY <1>1, <1>3 DEF IInv, TypeOK, PrefillAppend, PrefillCall, Store, Turns, Ledger!Turns, Status, Ledger!Status, PcValues
  <2>2. (pending \ Batch)' = Missing'
    BY <1>1, <1>3, <1>4 DEF Missing
  <2>3. QED
    BY <2>1, <2>2 DEF IInv, RunInv, Standing, Coverage, PrefillAppend, PrefillCall
<1>6. CostInv'
  BY ConfigAssumption DEF IInv, TypeOK, Standing, Coverage, CostInv, Costs, CallBudget, DeliveredCostIsExact,
                          PrefillAppend, PrefillCall
<1>7. QED
  BY <1>3, <1>5, <1>6 DEF IInv, RunInv, StoreInv, CostInv

\* Saving a prefill batch makes file and memory equal.
LEMMA PrefillSaveKeeps == ASSUME IInv, PrefillSave PROVE IInv'
<1>1. /\ pc = "prefill_save" /\ pending \ Batch = Missing
      /\ disk' = mem /\ pending' = pending \ Batch /\ UNCHANGED <<mem, mode, prefix>>
  BY DEF IInv, Coverage, PrefillSave
<1>2. StoreInv' /\ Processed(mem)' = Processed(mem)
  BY <1>1, SaveKeepsStoreInv
<1>3. RunInv'
  <2>1. TypeOK'
    <3>1. pending' \subseteq Turns /\ mem' \in Store /\ disk' \in Store
      BY <1>1 DEF IInv, TypeOK
    <3>2. audits' \in Nat
      BY DEF IInv, TypeOK, PrefillSave
    <3>3. QED
      BY <3>1, <3>2 DEF IInv, TypeOK, PrefillSave, Store, Turns, Ledger!Turns, Status, Ledger!Status, PcValues
  <2>2. pending' = Missing'
    BY <1>1, <1>2 DEF Missing
  <2>3. QED
    BY <2>1, <2>2 DEF IInv, RunInv, Standing, Coverage, PrefillSave
<1>4. CostInv'
  BY ConfigAssumption DEF IInv, TypeOK, Standing, Coverage, CostInv, Costs, CallBudget, DeliveredCostIsExact, PrefillSave
<1>5. QED
  BY <1>2, <1>3, <1>4 DEF IInv, RunInv, StoreInv, CostInv

\* The joint delta is appended to the store without leaving a hole.
LEMMA AcceptEventsKeeps ==
    ASSUME IInv, NEW status \in {"complete", "insufficient"}, AcceptEvents(status)
    PROVE  IInv'
<1>1. /\ pc = "reason" /\ ~gap /\ ingestion = Missing
      /\ mem' = Stamp(mem, ingestion, status) /\ UNCHANGED <<disk, mode, prefix, gap>>
  BY DEF IInv, Coverage, AcceptEvents, Stage2Call
<1>2. /\ StoreInv'
      /\ mem' \in Store /\ mem'.mode = mem.mode
      /\ Processed(mem)' = Processed(mem) \cup Missing
  <2>1. status \in Status \ {"none"}
    BY DEF Status, Ledger!Status
  <2>2. QED
    BY <1>1, <2>1, AppendKeepsStoreInv
<1>3. RunInv'
  <2>1. TypeOK'
    BY <1>1, <1>2 DEF IInv, TypeOK, AcceptEvents, Stage2Call, Store, Turns, Ledger!Turns, Status, Ledger!Status, PcValues
  <2>2. Missing' = {}
    BY <1>1, <1>2 DEF Missing
  <2>3. QED
    BY <1>1, <2>1, <2>2 DEF IInv, RunInv, Standing, Coverage, AcceptEvents, Stage2Call
<1>4. CostInv'
  BY ConfigAssumption DEF IInv, TypeOK, Standing, Coverage, CostInv, Costs, CallBudget, DeliveredCostIsExact,
                          AcceptEvents, Stage2Call
<1>5. QED
  BY <1>2, <1>3, <1>4 DEF IInv, RunInv, StoreInv, CostInv

\* Saving the joint delta makes file and memory equal.
LEMMA JointSaveKeeps == ASSUME IInv, JointSave PROVE IInv'
<1>1. StoreInv' /\ Processed(mem)' = Processed(mem)
  BY SaveKeepsStoreInv DEF JointSave
<1>2. RunInv'
  <2>1. TypeOK'
    BY DEF IInv, TypeOK, JointSave, run, Store, Turns, Ledger!Turns, Status, Ledger!Status, PcValues
  <2>2. QED
    BY <1>1, <2>1 DEF IInv, RunInv, Standing, Coverage, Missing, JointSave, run
<1>3. CostInv'
  BY ConfigAssumption DEF IInv, TypeOK, Standing, Coverage, CostInv, Costs, CallBudget, DeliveredCostIsExact, JointSave, run
<1>4. QED
  BY <1>1, <1>2, <1>3 DEF IInv, RunInv, StoreInv, CostInv

\* The invariant does not depend on anything but the variables.
LEMMA StutterKeeps == ASSUME IInv, UNCHANGED vars PROVE IInv'
<1>1. StoreInv' /\ Processed(mem)' = Processed(mem)
  BY StoreUntouched DEF vars, store
<1>2. RunInv'
  <2>1. TypeOK'
    BY DEF IInv, TypeOK, vars, run, Store, Turns, Ledger!Turns, Status, Ledger!Status, PcValues
  <2>2. QED
    BY <1>1, <2>1 DEF IInv, RunInv, Standing, Coverage, Missing, Batch, UpTo, Fits, vars, run
<1>3. CostInv'
  BY DEF IInv, CostInv, Costs, CallBudget, DeliveredCostIsExact, vars, run
<1>4. QED
  BY <1>1, <1>2, <1>3 DEF IInv, RunInv, StoreInv, CostInv

\* The invariant is inductive: one case per action.
LEMMA StepKeeps == IInv /\ [Next]_vars => IInv'
<1>1. SUFFICES ASSUME IInv, [Next]_vars PROVE IInv'
  OBVIOUS
<1>2. CASE Kill
  BY <1>1, <1>2, KillKeeps
<1>3. CASE Restart
  BY <1>1, <1>3, RestartKeeps
<1>4. CASE Ingest
  BY <1>1, <1>4, StartRunRefusedKeeps, StartRunKeeps, PrefillBudgetExceededKeeps, OversizedTurnKeeps,
     PrefillGapKeeps, PrefillAppendKeeps, PrefillSaveKeeps, SaveFailsKeeps, PrefillDoneKeeps DEF Ingest
<1>5. CASE Reason
  BY <1>1, <1>5, Stage2ErrorKeeps, Stage2WithoutIngestionKeeps, AcceptEventsKeeps, JointSaveKeeps,
     Stage2MalformedKeeps, ClaimsRejectedKeeps, ClaimsValidKeeps DEF Reason
<1>6. CASE Answer
  BY <1>1, <1>6, WithholdKeeps, AnswerCallKeeps DEF Answer
<1>7. CASE UNCHANGED vars
  BY <1>1, <1>7, StutterKeeps
<1>8. QED
  BY <1>1, <1>2, <1>3, <1>4, <1>5, <1>6, <1>7 DEF Next

-------------------------------------------------------------------------------
(* Theorems *)

\* The inductive invariant of the ingestion machine holds in every reachable state.
THEOREM Invariance == Spec => []IInv
BY InitEstablishes, StepKeeps, PTL DEF Spec

\* Type correctness of the ingestion machine.
THEOREM TypeCorrect == Spec => []TypeOK
<1>1. IInv => TypeOK
  BY DEF IInv
<1>2. QED
  BY <1>1, Invariance, PTL

\* The watermark of the event store has no hole, in memory and on disk.
THEOREM WatermarkCorrect == Spec => []WatermarkIsPrefix
<1>1. IInv => WatermarkIsPrefix
  BY DEF IInv
<1>2. QED
  BY <1>1, Invariance, PTL

\* A save can neither lose nor alter what the store file held before.
THEOREM DurabilityCorrect == Spec => []DurableIsRemembered
<1>1. IInv => DurableIsRemembered
  BY DEF IInv
<1>2. QED
  BY <1>1, Invariance, PTL

\* No extraction is paid for twice: what is offered to a call is not in the store.
THEOREM OfferedOnce == Spec => []NeverOfferedTwice
<1>1. IInv => NeverOfferedTwice
  BY DEF IInv, Coverage, NeverOfferedTwice, Missing
<1>2. QED
  BY <1>1, Invariance, PTL

\* Claims are judged, and answers given, on an ingested prefix or a reported gap.
THEOREM NoTruncation == Spec => []NoSilentTruncation
<1>1. IInv => NoSilentTruncation
  BY DEF IInv, Coverage, NoSilentTruncation, Missing
<1>2. QED
  BY <1>1, Invariance, PTL

\* The model calls of a checkpoint stay within the configured budget.
THEOREM BudgetKept == Spec => []CallBudget
<1>1. IInv => CallBudget
  BY DEF IInv
<1>2. QED
  BY <1>1, Invariance, PTL

\* Stores of different memory modes are never mixed.
THEOREM ModesKept == Spec => []ModeIsolated
<1>1. IInv => ModeIsolated
  BY DEF IInv
<1>2. QED
  BY <1>1, Invariance, PTL

\* The reported cost of an answered or withheld checkpoint is the real one.
THEOREM CostReported == Spec => []DeliveredCostIsExact
<1>1. IInv => DeliveredCostIsExact
  BY DEF IInv
<1>2. QED
  BY <1>1, Invariance, PTL
\* Once a prefill batch was given up, the run leaves store object and file alone.
THEOREM GapFreezes == Spec => GapFreezesStore
<1>1. ASSUME IInv, [Next]_vars
      PROVE  [gap /\ pc # "idle" => disk' = disk /\ (mem' = mem \/ pc' = "down")]_vars
  <2>1. SUFFICES ASSUME Next, gap, pc # "idle"
                 PROVE  disk' = disk /\ (mem' = mem \/ pc' = "down")
    BY <1>1
  <2>2. /\ pc \notin {"prefill", "prefill_save", "joint_save"}
        /\ pc = "reason" => ingestion = {}
    BY <1>1, <2>1 DEF IInv, Coverage
  <2>3. CASE Kill
    BY <2>3 DEF Kill
  <2>4. CASE Restart
    BY <2>4 DEF Restart, store
  <2>5. CASE Ingest
    BY <2>1, <2>2, <2>5
       DEF Ingest, StartRunRefused, StartRun, PrefillBudgetExceeded, OversizedTurn, PrefillGap,
           PrefillAppend, PrefillCall, PrefillSave, SaveFails, PrefillDone, store
  <2>6. CASE Reason
    BY <2>1, <2>2, <2>6
       DEF Reason, Stage2Error, Stage2WithoutIngestion, AcceptEvents, JointSave, Stage2Malformed,
           ClaimsRejected, ContractFailure, ClaimsValid, Stage2Call, store
  <2>7. CASE Answer
    BY <2>7 DEF Answer, Withhold, AnswerCall, store
  <2>8. QED
    BY <2>1, <2>3, <2>4, <2>5, <2>6, <2>7 DEF Next
<1>2. QED
  BY <1>1, Invariance, PTL DEF Spec, GapFreezesStore

\* The store file implements the append-only ledger of TurnLedger: a step of the
\* machine either leaves the file alone or is a step of the ledger.
THEOREM LedgerImplemented == Spec => ImplementsLedger
<1>1. Init => Ledger!LedgerInit
  BY DEF Init, Absent, Ledger!LedgerInit, Turns
<1>2. ASSUME IInv, [Next]_vars PROVE [Ledger!Record]_(disk.status)
  <2>1. CASE disk' = disk
    BY <2>1
  <2>2. CASE disk' = mem /\ pc \in {"prefill_save", "joint_save"}
    <3>1. mem # Absent /\ mem.status \in [Turns -> Status]
      BY <2>2, <1>2, ConfigAssumption DEF IInv, TypeOK, Absent, Store
    <3>2. Ledger!NoHole(mem.status)
      BY <1>2 DEF IInv, WatermarkIsPrefix
    <3>3. \A t \in Ledger!Recorded(disk.status) : mem.status[t] = disk.status[t]
      BY <1>2, <3>1 DEF IInv, DurableIsRemembered, Processed
    <3>4. QED
      BY <2>2, <3>1, <3>2, <3>3 DEF Ledger!Record, Ledger!NoHole, Turns, Status
  <2>3. disk' = disk \/ (disk' = mem /\ pc \in {"prefill_save", "joint_save"})
    BY <1>2
       DEF Next, Kill, Restart, Ingest, Reason, Answer, StartRunRefused, StartRun, PrefillBudgetExceeded,
           OversizedTurn, PrefillGap, PrefillAppend, PrefillCall, PrefillSave, SaveFails, PrefillDone,
           Stage2Error, Stage2WithoutIngestion, AcceptEvents, JointSave, Stage2Malformed,
           ClaimsRejected, ContractFailure, ClaimsValid, Stage2Call, Withhold, AnswerCall, store, vars
  <2>4. QED
    BY <2>1, <2>2, <2>3
<1>3. QED
  BY <1>1, <1>2, Invariance, PTL DEF Spec, ImplementsLedger, Ledger!LedgerSpec
===============================================================================
