------------------------------ MODULE RunnerProofs ------------------------------
(***************************************************************************)
(* For any number of processes, identities and checkpoints: what the runner  *)
(* keeps on file.  The invariant rests on the lock.  The one process that is *)
(* not down owns the files, so what it has found out about them stays true   *)
(* until it writes; every other process has nothing to lose.                 *)
(***************************************************************************)
EXTENDS RunFiles, FiniteSetTheorems, WellFoundedInduction, TLAPS

Stages == {"down", "identify", "save", "load", "loop", "append", "raised", "debug",
           "row_saved", "check", "score"}
Outcomes ==
    {"none", "refused", "failed", "unreadable", "outside", "incomplete", "killed", "aborted", "scored"}
Process ==
    [pc : Stages, identity : Identities \cup {"none"}, resume : BOOLEAN,
     wanted : SUBSET Checkpoints, todo : SUBSET Checkpoints, errors : Nat, kind : Kinds,
     then : {"down", "load", "loop", "check", "aborted", "scored"}, outcome : Outcomes]
Line == Row \cup {Garbage}
File == [exists : BOOLEAN, lines : Seq(Line), ended : BOOLEAN]

TypeOK ==
    /\ lock \in Procs \cup {"none"}
    /\ meta \in Identities \cup {"none", "torn"}
    /\ file \in File
    /\ proc \in [Procs -> Process]

LockIsHeld == \A p \in Procs : proc[p].pc # "down" <=> lock = p

\* A file without its last line end has a line; so has a file that exists, if every
\* write is whole or not begun, and then every line is a row.
FileIsSound ==
    /\ ~file.ended => file.lines # <<>>
    /\ ~file.exists => file.lines = <<>>
    /\ ~TornWrites => /\ file.ended
                      /\ Garbage \notin Lines
                      /\ file.exists => file.lines # <<>>

First(S) == CHOOSE i \in S : \A j \in S : i <= j

Looping(p) == At(p, "loop") \/ At(p, "append") \/ (At(p, "save") /\ proc[p].then = "loop")
Written(p) == At(p, "debug") \/ At(p, "row_saved")
Attempted(p) == At(p, "raised") \/ Written(p)

\* The process knows which predictions are on file.
Prepared(p) ==
    \/ Looping(p) \/ Attempted(p) \/ At(p, "check") \/ At(p, "score")
    \/ At(p, "save") /\ proc[p].then = "check"

\* Every line that parses is one of the request, and so is what is still to be done.
RequestIsKept(p) == Ids \subseteq proc[p].wanted \cup {Garbage.id} /\ proc[p].todo \subseteq proc[p].wanted

\* What is still to be done has no line, the checkpoint in hand aside once its row
\* was attempted; if that row was appended it has its line, unless it ran into a cut
\* one.
ProcessIsSound(p) ==
    /\ ~At(p, "down") => proc[p].identity \in Identities
    /\ At(p, "save") => proc[p].then # "down"
    /\ Prepared(p) => RequestIsKept(p)
    /\ Looping(p) => proc[p].todo \cap Ids = {}
    /\ At(p, "append") \/ Attempted(p) => proc[p].todo # {}
    /\ Attempted(p) => (proc[p].todo \ {First(proc[p].todo)}) \cap Ids = {}
    /\ Written(p) => file.exists /\ (First(proc[p].todo) \in Ids \/ Garbage \in Lines)
    /\ At(p, "score") => Accepted(p)

IInv ==
    /\ TypeOK
    /\ LockIsHeld
    /\ FileIsSound
    /\ \A p \in Procs : ProcessIsSound(p)
    /\ OneRowPerCheckpoint
    /\ ~TornWrites => InterruptedRunResumes

-------------------------------------------------------------------------------
\* The next checkpoint is one of those still to be done.
LEMMA FirstIsIn == ASSUME NEW S \in SUBSET Nat, S # {} PROVE First(S) \in S /\ \A j \in S : First(S) <= j
  <1> DEFINE less == {ss \in Nat \X Nat : ss[1] < ss[2]}
  <1>1. IsWellFoundedOn(less, Nat)
    BY NatLessThanWellFounded DEF OpToRel
  <1>2. \A i, j \in Nat : j < i => <<j, i>> \in less
    OBVIOUS
  <1> HIDE DEF less
  <1>3. PICK i \in S : \A j \in S : <<j, i>> \notin less
    BY <1>1, WFMin
  <1>4. ASSUME NEW j \in S PROVE i <= j
    <2>1. i \in Nat /\ j \in Nat
      OBVIOUS
    <2>2. ~(j < i)
      BY <1>2, <1>3, <2>1
    <2> QED BY <2>1, <2>2
  <1> QED BY <1>4 DEF First

\* No row is the unreadable line.
LEMMA RowsParse == Garbage \notin Row /\ \A row \in Row : row.id \in Checkpoints /\ row.id # Garbage.id
  BY DEF Garbage, Row, Kinds, Checkpoints

\* The lines of a file after an append that found the last line complete.
LEMMA AppendToEnded ==
    ASSUME file \in File, file.ended, NEW row \in Line
    PROVE  /\ Appended(row) \in File
           /\ Appended(row).lines = Append(file.lines, row)
           /\ Len(Appended(row).lines) = Len(file.lines) + 1
           /\ \A n \in 1..Len(file.lines) : Appended(row).lines[n] = file.lines[n]
           /\ Appended(row).lines[Len(file.lines) + 1] = row
  BY DEF Appended, File

\* The lines of a file after an append that found the last line cut.
LEMMA AppendToCut ==
    ASSUME file \in File, ~file.ended, file.lines # <<>>, NEW row \in Line
    PROVE  /\ Appended(row) \in File
           /\ Len(Appended(row).lines) = Len(file.lines)
           /\ \A n \in 1..(Len(file.lines) - 1) : Appended(row).lines[n] = file.lines[n]
           /\ Appended(row).lines[Len(file.lines)] = Garbage
  <1> DEFINE lines == [file.lines EXCEPT ![Len(file.lines)] = Garbage]
  <1>1. file.lines \in Seq(Line) /\ Garbage \in Line
    BY DEF File, Line
  <1>2. Len(file.lines) \in 1..Len(file.lines)
    BY <1>1
  <1>3. lines \in Seq(Line) /\ Len(lines) = Len(file.lines)
    BY <1>1, <1>2
  <1>4. Appended(row) = [exists |-> TRUE, ended |-> TRUE, lines |-> lines]
    BY DEF Appended
  <1>5. \A n \in 1..(Len(file.lines) - 1) : lines[n] = file.lines[n]
    BY <1>1, <1>2
  <1>6. lines[Len(file.lines)] = Garbage
    BY <1>1, <1>2
  <1> HIDE DEF lines
  <1> QED BY <1>2, <1>3, <1>4, <1>5, <1>6 DEF File

\* What an append does to the set of lines.
LEMMA AppendLines ==
    ASSUME file \in File, FileIsSound, NEW row \in Line, file'.lines = Appended(row).lines
    PROVE  /\ Appended(row) \in File
           /\ file'.lines # <<>>
           /\ Lines' \subseteq Lines \cup {row, Garbage}
           /\ row \in Lines' \/ Garbage \in Lines'
           /\ Garbage \in Lines => Garbage \in Lines'
           /\ file.ended => Lines' = Lines \cup {row}
           /\ ~file.ended => Garbage \in Lines'
  <1> DEFINE len == Len(file.lines)
  <1>1. len \in Nat /\ file.lines \in Seq(Line)
    BY DEF File
  <1>2. CASE file.ended
    <2> USE <1>2
    <2>1. Len(file'.lines) = len + 1 /\ file'.lines \in Seq(Line)
      BY AppendToEnded DEF File
    <2>2. \A n \in 1..len : file'.lines[n] = file.lines[n]
      BY AppendToEnded
    <2>3. file'.lines[len + 1] = row
      BY AppendToEnded
    <2>4. 1..Len(file'.lines) = 1..len \cup {len + 1}
      BY <1>1, <2>1
    <2> HIDE DEF len
    <2>5. Lines' = {file.lines[n] : n \in 1..len} \cup {row}
      <3> DEFINE lines == file'.lines
      <3>1. Lines' = {lines[n] : n \in 1..len \cup {len + 1}}
        BY <2>4 DEF Lines
      <3>2. (\A n \in 1..len : lines[n] = file.lines[n]) /\ lines[len + 1] = row
        BY <2>2, <2>3
      <3> HIDE DEF lines
      <3> QED
        BY <3>1, <3>2
    <2>6. Lines' = Lines \cup {row}
      BY <2>5 DEF Lines, len
    <2> QED BY <1>1, <2>1, <2>6, AppendToEnded
  <1>3. CASE ~file.ended
    <2> USE <1>3
    <2>1. file.lines # <<>>
      BY DEF FileIsSound
    <2>2. Len(file'.lines) = len /\ file'.lines \in Seq(Line)
      BY <2>1, AppendToCut DEF File
    <2>3. \A n \in 1..(len - 1) : file'.lines[n] = file.lines[n]
      BY <2>1, AppendToCut
    <2>4. file'.lines[len] = Garbage
      BY <2>1, AppendToCut
    <2>5. len >= 1 /\ 1..len = 1..(len - 1) \cup {len}
      BY <1>1, <2>1
    <2> HIDE DEF len
    <2>6. Garbage \in Lines'
      BY <2>2, <2>4, <2>5 DEF Lines
    <2>7. Lines' \subseteq {file.lines[n] : n \in 1..(len - 1)} \cup {Garbage}
      BY <2>2, <2>3, <2>4, <2>5 DEF Lines
    <2>8. {file.lines[n] : n \in 1..(len - 1)} \subseteq Lines
      BY <2>5 DEF Lines, len
    <2>9. file'.lines # <<>>
      BY <1>1, <2>2, <2>5
    <2> QED BY <2>1, <2>6, <2>7, <2>8, <2>9, AppendToCut
  <1> QED BY <1>2, <1>3

\* An append repeats no id, if its own has no line yet.
LEMMA AppendDistinct ==
    ASSUME file \in File, FileIsSound, OneRowPerCheckpoint,
           NEW row \in Line, file'.lines = Appended(row).lines,
           row = Garbage \/ row.id \notin Ids
    PROVE  OneRowPerCheckpoint'
  <1> SUFFICES ASSUME NEW m \in 1..Len(file'.lines), NEW n \in 1..Len(file'.lines),
                      file'.lines[m].id = file'.lines[n].id, file'.lines[m] # Garbage
               PROVE  m = n
    BY DEF OneRowPerCheckpoint
  <1> DEFINE len == Len(file.lines)
  <1>1. len \in Nat /\ file.lines \in Seq(Line)
    BY DEF File
  <1>2. \A k \in 1..len : file.lines[k].id \in Ids
    BY DEF Ids, Lines
  <1>3. \A l \in Line : l.id = Garbage.id => l = Garbage
    BY RowsParse DEF Line
  <1>4. \A k \in 1..len : file.lines[k] \in Line
    BY <1>1
  <1>5. CASE file.ended
    <2>1. Len(file'.lines) = len + 1
      BY <1>5, AppendToEnded
    <2>2. \A k \in 1..len : file'.lines[k] = file.lines[k]
      BY <1>5, AppendToEnded
    <2>3. file'.lines[len + 1] = row
      BY <1>5, AppendToEnded
    <2> HIDE DEF len
    <2>4. m \in 1..len \/ m = len + 1
      BY <1>1, <2>1
    <2>5. n \in 1..len \/ n = len + 1
      BY <1>1, <2>1
    <2>6. CASE m \in 1..len /\ n \in 1..len
      BY <2>2, <2>6 DEF OneRowPerCheckpoint, len
    <2>7. CASE m \in 1..len /\ n = len + 1
      BY <1>2, <1>3, <1>4, <2>2, <2>3, <2>7
    <2>8. CASE m = len + 1 /\ n \in 1..len
      BY <1>2, <2>2, <2>3, <2>8
    <2> QED BY <2>4, <2>5, <2>6, <2>7, <2>8
  <1>6. CASE ~file.ended
    <2>1. file.lines # <<>>
      BY <1>6 DEF FileIsSound
    <2>2. Len(file'.lines) = len
      BY <1>6, <2>1, AppendToCut
    <2>3. \A k \in 1..(len - 1) : file'.lines[k] = file.lines[k]
      BY <1>6, <2>1, AppendToCut
    <2>4. file'.lines[len] = Garbage
      BY <1>6, <2>1, AppendToCut
    <2> HIDE DEF len
    <2>5. m \in 1..(len - 1)
      BY <1>1, <2>2, <2>4
    <2>6. n \in 1..len /\ m \in 1..len
      BY <1>1, <2>2, <2>5
    <2>7. CASE n \in 1..(len - 1)
      BY <2>3, <2>5, <2>6, <2>7 DEF OneRowPerCheckpoint, len
    <2>8. CASE n = len
      BY <1>3, <1>4, <2>3, <2>4, <2>5, <2>6, <2>8
    <2> QED BY <1>1, <2>6, <2>7, <2>8
  <1> QED BY <1>5, <1>6

-------------------------------------------------------------------------------
\* The process that is not down holds the lock, and no other one runs.
LEMMA OthersAreDown ==
    ASSUME LockIsHeld, NEW p \in Procs, ~At(p, "down")
    PROVE  lock = p /\ \A q \in Procs \ {p} : At(q, "down")
  BY DEF LockIsHeld, At

\* Nothing is asked of a process that is down.
LEMMA DownIsSound == ASSUME NEW p, At(p, "down") PROVE ProcessIsSound(p)
  BY DEF ProcessIsSound, Prepared, RequestIsKept, Looping, Written, Attempted, At

\* The step of the running process: the lock stays its own until it stops.
LEMMA ProcessStep ==
    ASSUME IInv, NEW p \in Procs, ~At(p, "down"),
           proc' \in [Procs -> Process], \A q \in Procs \ {p} : proc'[q] = proc[q],
           lock' = IF At(p, "down")' THEN "none" ELSE lock
    PROVE  /\ lock' \in Procs \cup {"none"}
           /\ LockIsHeld'
           /\ \A q \in Procs \ {p} : ProcessIsSound(q)'
  <1> USE DEF IInv
  <1>1. lock = p /\ \A q \in Procs \ {p} : At(q, "down")
    BY OthersAreDown
  <1>2. \A q \in Procs \ {p} : At(q, "down")'
    BY <1>1 DEF At
  <1>3. \A q \in Procs \ {p} : ProcessIsSound(q)'
    BY <1>2 DEF ProcessIsSound, Prepared, RequestIsKept, Looping, Written, Attempted, At
  <1>4. LockIsHeld'
    BY <1>1, <1>2, RunnerAssumption DEF LockIsHeld, At
  <1> QED BY <1>1, <1>3, <1>4

\* A step of the running process that writes no predictions.
LEMMA QuietStep ==
    ASSUME IInv, NEW p \in Procs, ~At(p, "down"), UNCHANGED file,
           proc' \in [Procs -> Process], \A q \in Procs \ {p} : proc'[q] = proc[q],
           lock' = IF At(p, "down")' THEN "none" ELSE lock,
           meta' \in Identities \cup {"none", "torn"},
           ProcessIsSound(p)',
           ~TornWrites => proc'[p].outcome # "unreadable"
    PROVE  IInv'
  <1> USE DEF IInv
  <1>1. /\ lock' \in Procs \cup {"none"}
        /\ LockIsHeld'
        /\ \A q \in Procs \ {p} : ProcessIsSound(q)'
    BY ProcessStep
  <1>2. TypeOK'
    BY <1>1 DEF TypeOK
  <1>3. FileIsSound' /\ OneRowPerCheckpoint'
    BY DEF FileIsSound, OneRowPerCheckpoint, Lines
  <1>4. ~TornWrites => InterruptedRunResumes'
    BY DEF InterruptedRunResumes
  <1> QED BY <1>1, <1>2, <1>3, <1>4

\* A process that exits or dies without writing predictions.
LEMMA StopStep ==
    ASSUME IInv, NEW p \in Procs, ~At(p, "down"), UNCHANGED file,
           NEW outcome \in Outcomes, Stop(p, outcome),
           meta' \in Identities \cup {"none", "torn"},
           ~TornWrites => outcome # "unreadable"
    PROVE  IInv'
  <1>1. Down(outcome) \in Process
    BY DEF Down, Process, Stages, Kinds
  <1>2. proc' \in [Procs -> Process] /\ \A q \in Procs \ {p} : proc'[q] = proc[q]
    BY <1>1 DEF Stop, IInv, TypeOK
  <1>3. proc'[p] = Down(outcome) /\ lock' = "none"
    BY DEF Stop, IInv, TypeOK
  <1>4. At(p, "down")' /\ proc'[p].outcome = outcome
    BY <1>3 DEF At, Down
  <1>5. ProcessIsSound(p)'
    BY <1>4 DEF ProcessIsSound, Prepared, RequestIsKept, Looping, Written, Attempted, At
  <1> QED BY <1>2, <1>3, <1>4, <1>5, QuietStep

\* A step that changes where the running process is, and what it is about to write
\* or to go on with, but neither its identity nor what is to be done.
LEMMA GoStep ==
    ASSUME IInv, NEW p \in Procs, ~At(p, "down"), UNCHANGED <<lock, file>>,
           NEW r \in Process, proc' = [proc EXCEPT ![p] = r],
           r.pc \notin {"down", "raised", "debug", "row_saved"}, r.pc = "save" => r.then # "down",
           r.todo = proc[p].todo, r.identity = proc[p].identity, r.outcome = proc[p].outcome,
           r.wanted = proc[p].wanted,
           meta' \in Identities \cup {"none", "torn"},
           r.pc \in {"loop", "append", "check", "score"} \/ (r.pc = "save" /\ r.then \in {"loop", "check"}) =>
               Prepared(p),
           r.pc \in {"loop", "append"} \/ (r.pc = "save" /\ r.then = "loop") =>
               proc[p].todo \cap Ids = {},
           r.pc = "append" => proc[p].todo # {},
           r.pc = "score" => Accepted(p)
    PROVE  IInv'
  <1>1. proc' \in [Procs -> Process] /\ \A q \in Procs \ {p} : proc'[q] = proc[q]
    BY DEF IInv, TypeOK
  <1>2. proc'[p] = r
    BY DEF IInv, TypeOK
  <1>3. Ids' = Ids /\ (Readable <=> Readable')
    BY DEF Ids, Lines, Readable
  <1>4. ProcessIsSound(p)'
    <2>1. At(p, "score")' => Accepted(p)'
      BY <1>2, <1>3 DEF At, Accepted
    <2>2. Prepared(p)' => RequestIsKept(p)'
      <3>1. Prepared(p)' => Prepared(p)
        BY <1>2 DEF Prepared, Looping, Attempted, Written, At
      <3> QED BY <1>2, <1>3, <3>1 DEF IInv, ProcessIsSound, RequestIsKept
    <2> QED BY <1>2, <1>3, <2>1, <2>2 DEF ProcessIsSound, Looping, Written, Attempted, At, IInv
  <1>5. ~At(p, "down")'
    BY <1>2 DEF At
  <1>6. ~TornWrites => proc'[p].outcome # "unreadable"
    BY <1>2 DEF IInv, InterruptedRunResumes
  <1> QED BY <1>1, <1>4, <1>5, <1>6, QuietStep

\* A checkpoint is over: it leaves the list of those still to be done.
LEMMA FinishStep ==
    ASSUME IInv, NEW p \in Procs, ~At(p, "down"), UNCHANGED <<lock, meta, file>>,
           NEW r \in Process, proc' = [proc EXCEPT ![p] = r],
           r.pc \in {"loop", "save"}, r.pc = "save" => r.then # "down",
           r.todo = proc[p].todo \ {Current(p)},
           r.identity = proc[p].identity, r.outcome = proc[p].outcome,
           r.wanted = proc[p].wanted, RequestIsKept(p),
           (proc[p].todo \ {Current(p)}) \cap Ids = {}
    PROVE  IInv'
  <1>1. proc' \in [Procs -> Process] /\ \A q \in Procs \ {p} : proc'[q] = proc[q]
    BY DEF IInv, TypeOK
  <1>2. proc'[p] = r
    BY DEF IInv, TypeOK
  <1>3. Ids' = Ids
    BY DEF Ids, Lines
  <1>4. ProcessIsSound(p)'
    BY <1>2, <1>3 DEF ProcessIsSound, Prepared, RequestIsKept, Looping, Written, Attempted, At, IInv
  <1>5. ~At(p, "down")'
    BY <1>2 DEF At
  <1>6. meta' \in Identities \cup {"none", "torn"}
    BY DEF IInv, TypeOK
  <1>7. ~TornWrites => proc'[p].outcome # "unreadable"
    BY <1>2 DEF IInv, InterruptedRunResumes
  <1> QED BY <1>1, <1>4, <1>5, <1>6, <1>7, QuietStep

\* What stays of every process while one of them runs.
LEMMA ProcessFacts ==
    ASSUME IInv, NEW p \in Procs
    PROVE  /\ proc[p] \in Process /\ proc \in [Procs -> Process]
           /\ Current(p) = First(proc[p].todo)
           /\ ~TornWrites => proc[p].outcome # "unreadable"
           /\ meta \in Identities \cup {"none", "torn"}
           /\ ProcessIsSound(p)
  BY DEF IInv, TypeOK, Current, First, InterruptedRunResumes

-------------------------------------------------------------------------------
\* The constructor preserves the invariant.
LEMMA StartStep ==
    ASSUME IInv, NEW p \in Procs, NEW identity \in Identities, NEW wanted \in Requests,
           NEW resume \in BOOLEAN, Start(p, identity, wanted, resume)
    PROVE  IInv'
  <1> USE DEF IInv
  <1> DEFINE r == Started(identity, wanted, resume)
  <1>1. r \in Process /\ r.pc = "identify" /\ r.identity = identity /\ r.outcome = "none"
    BY RunnerAssumption DEF Started, Down, Process, Stages, Kinds, Outcomes, Checkpoints
  <1>2. proc' = [proc EXCEPT ![p] = r] /\ lock' = p /\ lock = "none" /\ UNCHANGED <<meta, file>>
    BY DEF Start
  <1> HIDE DEF r
  <1>3. proc' \in [Procs -> Process] /\ proc'[p] = r /\ \A q \in Procs \ {p} : proc'[q] = proc[q]
    BY <1>1, <1>2 DEF TypeOK
  <1>4. TypeOK'
    BY <1>2, <1>3 DEF TypeOK
  <1>5. \A q \in Procs : At(q, "down")
    BY <1>2, RunnerAssumption DEF LockIsHeld, At
  <1>6. LockIsHeld'
    BY <1>1, <1>2, <1>3, <1>5 DEF LockIsHeld, At
  <1>7. FileIsSound' /\ OneRowPerCheckpoint'
    BY <1>2 DEF FileIsSound, OneRowPerCheckpoint, Lines
  <1>8. ASSUME NEW q \in Procs PROVE ProcessIsSound(q)'
    BY <1>1, <1>3, <1>5 DEF ProcessIsSound, Prepared, RequestIsKept, Looping, Written, Attempted, At
  <1>9. ~TornWrites => InterruptedRunResumes'
    BY <1>1, <1>3 DEF InterruptedRunResumes
  <1> QED BY <1>4, <1>6, <1>7, <1>8, <1>9

\* Refusals, failures and the checks that end a run.
LEMMA StopSteps ==
    ASSUME IInv, NEW p \in Procs,
           ResumeRefused(p) \/ LoadFails(p) \/ Incomplete(p) \/ ScoreFails(p)
    PROVE  IInv'
  <1>1. ~At(p, "down") /\ UNCHANGED <<meta, file>>
    BY DEF ResumeRefused, LoadFails, Incomplete, ScoreFails, At
  <1>2. PICK outcome \in {"refused", "failed", "incomplete"} : Stop(p, outcome)
    BY DEF ResumeRefused, LoadFails, Incomplete, ScoreFails
  <1> QED BY <1>1, <1>2, StopStep, ProcessFacts DEF Outcomes

\* The steps that only go on to the next stage.
LEMMA GoSteps ==
    ASSUME IInv, NEW p \in Procs,
           \/ Identified(p) \/ Predict(p) \/ AuditGap(p)
           \/ LoopDone(p) \/ Complete(p) \/ Score(p)
    PROVE  IInv'
  <1>1. ~At(p, "down") /\ UNCHANGED <<lock, meta, file>>
    BY DEF Identified, Predict, AuditGap, InLoop, LoopDone, Complete, Score, At
  <1>2. proc[p] \in Process /\ proc \in [Procs -> Process] /\ ProcessIsSound(p)
    BY ProcessFacts
  <1>3. meta' \in Identities \cup {"none", "torn"}
    BY <1>1, ProcessFacts
  <1>4. CASE Identified(p) \/ LoopDone(p) \/ Score(p)
    <2>1. PICK then \in {"load", "check", "scored"} : SaveThen(p, then)
      BY <1>4 DEF Identified, LoopDone, Score
    <2> DEFINE r == [proc[p] EXCEPT !.pc = "save", !.then = then]
    <2>2. r \in Process /\ proc' = [proc EXCEPT ![p] = r]
      BY <1>2, <2>1 DEF SaveThen, Process, Stages
    <2>3. /\ r.pc = "save" /\ r.then \notin {"loop", "down"} /\ r.todo = proc[p].todo
          /\ r.identity = proc[p].identity /\ r.outcome = proc[p].outcome /\ r.wanted = proc[p].wanted
      BY <1>2 DEF Process
    <2>4. then = "check" => Prepared(p)
      <3>1. then = "check" => LoopDone(p)
        <4>1. proc'[p].then = then
          BY <1>2, <2>2 DEF Process
        <4>2. Identified(p) => proc'[p].then = "load"
          BY <1>2 DEF Identified, SaveThen, Process
        <4>3. Score(p) => proc'[p].then = "scored"
          BY <1>2 DEF Score, SaveThen, Process
        <4> QED BY <1>4, <4>1, <4>2, <4>3
      <3>2. LoopDone(p) => Prepared(p)
        BY DEF LoopDone, Prepared, Looping
      <3> QED BY <3>1, <3>2
    <2>5. r.then = then
      BY <1>2 DEF Process
    <2> HIDE DEF r
    <2> QED BY <1>1, <1>3, <2>2, <2>3, <2>4, <2>5, GoStep
  <1>5. CASE Predict(p) \/ AuditGap(p)
    <2>1. PICK kind \in {"prediction", "audit_gap"} : WriteRow(p, kind)
      BY <1>5 DEF Predict, AuditGap
    <2> DEFINE r == [proc[p] EXCEPT !.pc = "append", !.kind = kind]
    <2>2. r \in Process /\ proc' = [proc EXCEPT ![p] = r]
      BY <1>2, <2>1 DEF WriteRow, Process, Stages, Kinds
    <2>3. /\ r.pc = "append" /\ r.todo = proc[p].todo
          /\ r.identity = proc[p].identity /\ r.outcome = proc[p].outcome /\ r.wanted = proc[p].wanted
      BY <1>2 DEF Process
    <2>4. proc[p].todo # {} /\ proc[p].todo \cap Ids = {} /\ Prepared(p)
      BY <1>2, <1>5 DEF Predict, AuditGap, InLoop, ProcessIsSound, Prepared, Looping
    <2> HIDE DEF r
    <2> QED BY <1>1, <1>3, <2>2, <2>3, <2>4, GoStep
  <1>6. CASE Complete(p)
    <2> DEFINE r == [proc[p] EXCEPT !.pc = "score"]
    <2>1. r \in Process /\ proc' = [proc EXCEPT ![p] = r]
      BY <1>2, <1>6 DEF Complete, Goto, Process, Stages
    <2>2. /\ r.pc = "score" /\ r.todo = proc[p].todo
          /\ r.identity = proc[p].identity /\ r.outcome = proc[p].outcome /\ r.wanted = proc[p].wanted
      BY <1>2 DEF Process
    <2>3. Accepted(p) /\ Prepared(p)
      BY <1>6 DEF Complete, Prepared
    <2> HIDE DEF r
    <2> QED BY <1>1, <1>3, <2>1, <2>2, <2>3, GoStep
  <1> QED BY <1>4, <1>5, <1>6

\* Saving the metadata leaves the predictions alone.
LEMMA SaveStep == ASSUME IInv, NEW p \in Procs, SaveMetadata(p) PROVE IInv'
  <1>1. ~At(p, "down") /\ UNCHANGED file
    BY DEF SaveMetadata, At
  <1>2. proc[p] \in Process /\ proc \in [Procs -> Process] /\ ProcessIsSound(p)
    BY ProcessFacts
  <1>3. meta' \in Identities \cup {"none", "torn"}
    BY <1>1, <1>2 DEF SaveMetadata, ProcessIsSound
  <1>4. CASE proc[p].then \in {"aborted", "scored"}
    <2>1. PICK outcome \in {"aborted", "scored"} : Stop(p, outcome)
      BY <1>4 DEF SaveMetadata
    <2> QED BY <1>1, <1>3, <2>1, StopStep DEF Outcomes
  <1>5. CASE proc[p].then \notin {"aborted", "scored"}
    <2>1. proc' = [proc EXCEPT ![p].pc = proc[p].then] /\ UNCHANGED lock
      BY <1>5 DEF SaveMetadata, Goto
    <2> DEFINE r == [proc[p] EXCEPT !.pc = proc[p].then]
    <2>2. r \in Process /\ proc' = [proc EXCEPT ![p] = r]
      BY <1>2, <1>5, <2>1 DEF Process, Stages
    <2>3. /\ r.pc = proc[p].then /\ r.todo = proc[p].todo
          /\ r.identity = proc[p].identity /\ r.outcome = proc[p].outcome /\ r.wanted = proc[p].wanted
      BY <1>2 DEF Process
    <2> HIDE DEF r
    <2>4. proc[p].then # "down"
      BY <1>2 DEF SaveMetadata, ProcessIsSound
    <2>5. CASE proc[p].then = "loop"
      <3>1. proc[p].todo \cap Ids = {} /\ Prepared(p)
        BY <1>2, <2>5 DEF SaveMetadata, ProcessIsSound, Prepared, Looping
      <3> QED BY <1>1, <1>3, <2>1, <2>2, <2>3, <2>5, <3>1, GoStep
    <2>6. CASE proc[p].then \in {"load", "check"}
      <3>1. proc[p].then = "check" => Prepared(p)
        BY DEF SaveMetadata, Prepared
      <3> QED BY <1>1, <1>3, <2>1, <2>2, <2>3, <2>6, <3>1, GoStep
    <2> QED BY <1>2, <1>5, <2>4, <2>5, <2>6 DEF Process
  <1> QED BY <1>4, <1>5

\* A fresh run owns an empty file.
LEMMA FreshStep == ASSUME IInv, NEW p \in Procs, PrepareFresh(p) PROVE IInv'
  <1> USE DEF PrepareFresh
  <1>1. ~At(p, "down")
    BY DEF At
  <1>2. proc[p] \in Process /\ proc \in [Procs -> Process] /\ ProcessIsSound(p)
    BY ProcessFacts
  <1> DEFINE r == [proc[p] EXCEPT !.pc = "loop", !.todo = proc[p].wanted]
  <1>3. r \in Process /\ proc' = [proc EXCEPT ![p] = r]
    BY <1>2 DEF Process, Stages
  <1>4. /\ r.pc = "loop" /\ r.todo = proc[p].wanted
        /\ r.identity = proc[p].identity /\ r.outcome = proc[p].outcome /\ r.wanted = proc[p].wanted
    BY <1>2 DEF Process
  <1> HIDE DEF r
  <1>5. file' = NoFile /\ NoFile \in File /\ Lines' = {} /\ Ids' = {}
    BY DEF NoFile, File, Lines, Ids
  <1>6. proc' \in [Procs -> Process] /\ proc'[p] = r /\ \A q \in Procs \ {p} : proc'[q] = proc[q]
    BY <1>2, <1>3
  <1>7. /\ lock' \in Procs \cup {"none"}
        /\ LockIsHeld'
        /\ \A q \in Procs \ {p} : ProcessIsSound(q)'
    BY <1>1, <1>4, <1>6, ProcessStep DEF At
  <1>8. TypeOK'
    BY <1>5, <1>6, <1>7 DEF TypeOK, IInv
  <1>9. FileIsSound' /\ OneRowPerCheckpoint'
    BY <1>5 DEF FileIsSound, OneRowPerCheckpoint, NoFile
  <1>10. ProcessIsSound(p)'
    BY <1>1, <1>2, <1>4, <1>5, <1>6 DEF ProcessIsSound, Prepared, RequestIsKept, Looping, Written, Attempted, At
  <1>11. ~TornWrites => InterruptedRunResumes'
    BY <1>4, <1>6 DEF InterruptedRunResumes, IInv
  <1> QED BY <1>7, <1>8, <1>9, <1>10, <1>11 DEF IInv

\* A resume does the checkpoints that have no line, or ends if the file is not
\* readable, which only a part of a write can make it, or goes beyond the request.
LEMMA ResumeStep == ASSUME IInv, NEW p \in Procs, PrepareResume(p) PROVE IInv'
  <1>1. ~At(p, "down") /\ UNCHANGED <<meta, file>>
    BY DEF PrepareResume, At
  <1>2. proc[p] \in Process /\ proc \in [Procs -> Process] /\ ProcessIsSound(p)
    BY ProcessFacts
  <1>3. meta' \in Identities \cup {"none", "torn"}
    BY <1>1, ProcessFacts
  <1>4. ~TornWrites => Readable
    BY DEF IInv, FileIsSound, Readable, OneRowPerCheckpoint, Lines
  <1>5. CASE ~Readable
    <2>1. Stop(p, "unreadable")
      BY <1>5 DEF PrepareResume
    <2> QED BY <1>1, <1>3, <1>4, <1>5, <2>1, StopStep DEF Outcomes
  <1>6. CASE Readable /\ ~(Ids \subseteq proc[p].wanted)
    <2>1. Stop(p, "outside")
      BY <1>6 DEF PrepareResume
    <2> QED BY <1>1, <1>3, <2>1, StopStep DEF Outcomes
  <1>7. CASE Readable /\ Ids \subseteq proc[p].wanted
    <2> DEFINE r == [proc[p] EXCEPT !.pc = "loop", !.todo = proc[p].wanted \ Ids]
    <2>1. /\ proc' = [proc EXCEPT ![p].pc = "loop", ![p].todo = proc[p].wanted \ Ids]
          /\ UNCHANGED lock
      BY <1>7 DEF PrepareResume
    <2>2. r \in Process /\ proc' = [proc EXCEPT ![p] = r]
      BY <1>2, <2>1 DEF Process, Stages
    <2>3. /\ r.pc = "loop" /\ r.todo = proc[p].wanted \ Ids
          /\ r.identity = proc[p].identity /\ r.outcome = proc[p].outcome /\ r.wanted = proc[p].wanted
      BY <1>2 DEF Process
    <2> HIDE DEF r
    <2>4. proc' \in [Procs -> Process] /\ proc'[p] = r /\ \A q \in Procs \ {p} : proc'[q] = proc[q]
      BY <1>2, <2>2
    <2>5. Ids' = Ids
      BY <1>1 DEF Ids, Lines
    <2>6. RequestIsKept(p)'
      BY <1>7, <2>3, <2>4, <2>5 DEF RequestIsKept
    <2>7. ProcessIsSound(p)'
      BY <1>1, <1>2, <2>3, <2>4, <2>5, <2>6 DEF ProcessIsSound, Looping, Written, Attempted, At
    <2>8. ~At(p, "down")' /\ (~TornWrites => proc'[p].outcome # "unreadable")
      BY <2>3, <2>4, ProcessFacts DEF At
    <2> QED BY <1>1, <1>3, <2>1, <2>4, <2>7, <2>8, QuietStep
  <1> QED BY <1>5, <1>6, <1>7

-------------------------------------------------------------------------------
\* The checkpoint in hand is one of those to be done, and no other one of them
\* has a line.
LEMMA InHand ==
    ASSUME IInv, NEW p \in Procs, InLoop(p) \/ At(p, "append") \/ Attempted(p)
    PROVE  /\ ~At(p, "down")
           /\ proc[p].todo # {}
           /\ Current(p) \in proc[p].todo /\ Current(p) \in Checkpoints
           /\ (proc[p].todo \ {Current(p)}) \cap Ids = {}
           /\ proc[p].identity \in Identities
           /\ Prepared(p) /\ RequestIsKept(p)
  <1>1. ProcessIsSound(p) /\ proc[p] \in Process /\ Current(p) = First(proc[p].todo)
    BY ProcessFacts
  <1>2. proc[p].todo # {} /\ ~At(p, "down") /\ proc[p].identity \in Identities
    BY <1>1 DEF InLoop, Written, Attempted, ProcessIsSound, At
  <1>3. proc[p].todo \in SUBSET Nat /\ proc[p].todo \subseteq Checkpoints
    BY <1>1, RunnerAssumption DEF Process, Checkpoints
  <1>4. First(proc[p].todo) \in proc[p].todo
    BY <1>2, <1>3, FirstIsIn
  <1>5. (proc[p].todo \ {Current(p)}) \cap Ids = {}
    BY <1>1 DEF InLoop, Attempted, Written, Looping, ProcessIsSound
  <1>6. Prepared(p) /\ RequestIsKept(p)
    BY <1>1 DEF InLoop, Prepared, Looping, ProcessIsSound
  <1> QED BY <1>1, <1>2, <1>3, <1>4, <1>5, <1>6

\* A checkpoint that is over without a further row.
LEMMA FinishedStep ==
    ASSUME IInv, NEW p \in Procs, InLoop(p) \/ At(p, "append") \/ Attempted(p),
           NEW errors \in Nat, Finished(p, errors), UNCHANGED <<lock, meta, file>>
    PROVE  IInv'
  <1>1. proc[p] \in Process /\ proc \in [Procs -> Process]
    BY ProcessFacts
  <1> DEFINE r == [proc[p] EXCEPT !.pc = "loop", !.todo = @ \ {Current(p)}, !.errors = errors]
  <1>2. r \in Process /\ proc' = [proc EXCEPT ![p] = r]
    BY <1>1 DEF Finished, Process, Stages
  <1>3. /\ r.pc = "loop" /\ r.todo = proc[p].todo \ {Current(p)}
        /\ r.identity = proc[p].identity /\ r.outcome = proc[p].outcome /\ r.wanted = proc[p].wanted
    BY <1>1 DEF Process
  <1> HIDE DEF r
  <1> QED BY <1>2, <1>3, InHand, FinishStep

\* An exception of a checkpoint writes an error row only if it has no line yet.
LEMMA ErrorStep ==
    ASSUME IInv, NEW p \in Procs, InLoop(p) \/ At(p, "append") \/ Attempted(p), ExecutionError(p)
    PROVE  IInv'
  <1>1. proc[p] \in Process /\ proc \in [Procs -> Process] /\ proc[p].errors \in Nat
    BY ProcessFacts DEF Process
  <1>2. UNCHANGED <<meta, file>> /\ meta' \in Identities \cup {"none", "torn"}
    BY ProcessFacts DEF ExecutionError
  <1>3. CASE Stop(p, "failed")
    BY <1>2, <1>3, InHand, StopStep DEF Outcomes
  <1>4. CASE WriteRow(p, "error") /\ UNCHANGED lock /\ Current(p) \notin Ids
    <2> DEFINE r == [proc[p] EXCEPT !.pc = "append", !.kind = "error"]
    <2>1. r \in Process /\ proc' = [proc EXCEPT ![p] = r]
      BY <1>1, <1>4 DEF WriteRow, Process, Stages, Kinds
    <2>2. /\ r.pc = "append" /\ r.todo = proc[p].todo
          /\ r.identity = proc[p].identity /\ r.outcome = proc[p].outcome /\ r.wanted = proc[p].wanted
      BY <1>1 DEF Process
    <2>3. proc[p].todo # {} /\ proc[p].todo \cap Ids = {}
      BY <1>4, InHand
    <2> HIDE DEF r
    <2> QED BY <1>2, <1>4, <2>1, <2>2, <2>3, InHand, GoStep
  <1>5. CASE SaveThen(p, "aborted") /\ UNCHANGED lock
    <2> DEFINE r == [proc[p] EXCEPT !.pc = "save", !.then = "aborted"]
    <2>1. r \in Process /\ proc' = [proc EXCEPT ![p] = r]
      BY <1>1, <1>5 DEF SaveThen, Process, Stages
    <2>2. /\ r.pc = "save" /\ r.then \notin {"loop", "down"} /\ r.todo = proc[p].todo
          /\ r.identity = proc[p].identity /\ r.outcome = proc[p].outcome /\ r.wanted = proc[p].wanted
      BY <1>1 DEF Process
    <2> HIDE DEF r
    <2> QED BY <1>2, <1>5, <2>1, <2>2, InHand, GoStep
  <1>6. CASE Finished(p, proc[p].errors) /\ UNCHANGED lock
    BY <1>1, <1>2, <1>6, FinishedStep
  <1> QED BY <1>3, <1>4, <1>5, <1>6 DEF ExecutionError

\* The steps of a checkpoint that write no predictions.
LEMMA CheckpointSteps ==
    ASSUME IInv, NEW p \in Procs,
           Fails(p) \/ AppendRaised(p) \/ DebugSaved(p) \/ DebugFails(p) \/ RowSaved(p)
    PROVE  IInv'
  <1>1. proc[p] \in Process /\ proc \in [Procs -> Process] /\ proc[p].errors \in Nat
    BY ProcessFacts DEF Process
  <1>2. CASE Fails(p) \/ DebugFails(p)
    BY <1>2, ErrorStep DEF Fails, DebugFails, Written, Attempted
  <1>3. CASE AppendRaised(p)
    BY <1>3, ErrorStep DEF AppendRaised, Attempted
  <1>4. CASE DebugSaved(p)
    BY <1>4, FinishedStep DEF DebugSaved, Written, Attempted
  <1>5. CASE RowSaved(p)
    <2>1. PICK errors \in Nat, then \in {"aborted", "loop"} :
             proc' = [proc EXCEPT ![p].pc = "save", ![p].then = then,
                                  ![p].todo = @ \ {Current(p)}, ![p].errors = errors]
      <3> DEFINE errors == IF proc[p].kind = "error" THEN proc[p].errors + 1 ELSE 0
                 stop == proc[p].kind = "error" /\ ErrorLimit > 0 /\ errors >= ErrorLimit
                 then == IF stop THEN "aborted" ELSE "loop"
      <3>1. errors \in Nat /\ then \in {"aborted", "loop"}
        BY <1>1
      <3>2. proc' = [proc EXCEPT ![p].pc = "save", ![p].then = then,
                                 ![p].todo = @ \ {Current(p)}, ![p].errors = errors]
        BY <1>5 DEF RowSaved
      <3> HIDE DEF errors, then
      <3> QED BY <3>1, <3>2
    <2> DEFINE r == [proc[p] EXCEPT !.pc = "save", !.then = then, !.todo = @ \ {Current(p)},
                                    !.errors = errors]
    <2>2. r \in Process /\ proc' = [proc EXCEPT ![p] = r]
      BY <1>1, <2>1 DEF Process, Stages
    <2>3. /\ r.pc = "save" /\ r.then # "down" /\ r.todo = proc[p].todo \ {Current(p)}
          /\ r.identity = proc[p].identity /\ r.outcome = proc[p].outcome /\ r.wanted = proc[p].wanted
      BY <1>1 DEF Process
    <2> HIDE DEF r
    <2>4. Attempted(p) /\ UNCHANGED <<lock, meta, file>>
      BY <1>5 DEF RowSaved, Written, Attempted
    <2> QED BY <2>2, <2>3, <2>4, InHand, FinishStep
  <1> QED BY <1>2, <1>3, <1>4, <1>5

\* The row that is appended is one of a checkpoint without a line.
LEMMA RowInHand ==
    ASSUME IInv, NEW p \in Procs, At(p, "append")
    PROVE  NewRow(p) \in Row /\ NewRow(p).id = Current(p) /\ NewRow(p).id \notin Ids
  <1>1. proc[p] \in Process /\ ProcessIsSound(p)
    BY ProcessFacts
  <1>2. NewRow(p) \in Row /\ NewRow(p).id = Current(p)
    BY <1>1, InHand DEF NewRow, Row, Process
  <1>3. Current(p) \notin Ids
    BY <1>1, InHand DEF ProcessIsSound, Looping
  <1> QED BY <1>2, <1>3

\* After a row was appended its checkpoint has a line, or ran into a cut one.
LEMMA AppendStep == ASSUME IInv, NEW p \in Procs, AppendRow(p) PROVE IInv'
  <1>1. At(p, "append") /\ ~At(p, "down") /\ UNCHANGED <<lock, meta>>
    BY DEF AppendRow, At
  <1>2. /\ proc[p] \in Process /\ proc \in [Procs -> Process] /\ ProcessIsSound(p)
        /\ Current(p) = First(proc[p].todo)
    BY ProcessFacts
  <1> DEFINE row == NewRow(p)
  <1>3. row \in Row /\ row.id = Current(p) /\ row.id \notin Ids
    BY <1>1, RowInHand
  <1>4. file' = Appended(row)
    BY DEF AppendRow
  <1> HIDE DEF row
  <1>5. file \in File /\ FileIsSound /\ OneRowPerCheckpoint /\ row \in Line
    BY <1>3 DEF IInv, TypeOK, Line
  <1>6. /\ file' \in File /\ file'.lines # <<>>
        /\ Lines' \subseteq Lines \cup {row, Garbage}
        /\ row \in Lines' \/ Garbage \in Lines'
        /\ file.ended => Lines' = Lines \cup {row}
    BY <1>4, <1>5, AppendLines
  <1>7. OneRowPerCheckpoint'
    BY <1>3, <1>4, <1>5, AppendDistinct
  <1>8. file'.exists /\ file'.ended
    BY <1>4 DEF Appended
  <1>9. FileIsSound'
    <2>1. ~TornWrites => Garbage \notin Lines'
      BY <1>3, <1>5, <1>6, RowsParse DEF FileIsSound
    <2> QED BY <1>6, <1>8, <2>1 DEF FileIsSound
  <1>10. PICK pc \in {"debug", "row_saved"} : proc' = [proc EXCEPT ![p].pc = pc]
    BY DEF AppendRow, Goto
  <1> DEFINE r == [proc[p] EXCEPT !.pc = pc]
  <1>11. r \in Process /\ proc' = [proc EXCEPT ![p] = r]
    BY <1>2, <1>10 DEF Process, Stages
  <1>12. /\ r.pc = pc /\ r.todo = proc[p].todo
         /\ r.identity = proc[p].identity /\ r.outcome = proc[p].outcome /\ r.wanted = proc[p].wanted
    BY <1>2 DEF Process
  <1> HIDE DEF r
  <1>13. proc' \in [Procs -> Process] /\ proc'[p] = r /\ \A q \in Procs \ {p} : proc'[q] = proc[q]
    BY <1>2, <1>11
  <1>14. /\ lock' \in Procs \cup {"none"}
         /\ LockIsHeld'
         /\ \A q \in Procs \ {p} : ProcessIsSound(q)'
    BY <1>1, <1>12, <1>13, ProcessStep DEF At
  <1>15. ProcessIsSound(p)'
    <2>1. Ids' \subseteq Ids \cup {row.id, Garbage.id}
      BY <1>6 DEF Ids
    <2>2. First(proc[p].todo) \in Ids' \/ Garbage \in Lines'
      BY <1>2, <1>3, <1>6 DEF Ids
    <2>3. (proc[p].todo \ {First(proc[p].todo)}) \cap Ids' = {}
      <3>1. Garbage.id \notin Checkpoints
        BY DEF Garbage, Checkpoints
      <3>2. proc[p].todo \subseteq Checkpoints
        BY <1>2 DEF Process
      <3> QED BY <1>1, <1>2, <1>3, <2>1, <3>1, <3>2, InHand
    <2>4. proc[p].todo # {} /\ proc[p].identity \in Identities
      BY <1>1, InHand
    <2>5. RequestIsKept(p)'
      <3>1. RequestIsKept(p) /\ row.id \in proc[p].wanted
        BY <1>1, <1>3, InHand DEF RequestIsKept
      <3> QED BY <1>12, <1>13, <2>1, <3>1 DEF RequestIsKept
    <2> QED BY <1>8, <1>12, <1>13, <2>2, <2>3, <2>4, <2>5 DEF ProcessIsSound, Looping, Written, Attempted, At
  <1>16. TypeOK'
    BY <1>1, <1>6, <1>13, <1>14 DEF TypeOK, IInv
  <1>17. ~TornWrites => InterruptedRunResumes'
    BY <1>12, <1>13 DEF InterruptedRunResumes, IInv
  <1> QED BY <1>7, <1>9, <1>14, <1>15, <1>16, <1>17 DEF IInv

\* A part of a row leaves no second line of a checkpoint, and no line of another one.
LEMMA CutRow ==
    ASSUME IInv, NEW p \in Procs, At(p, "append"), file' \in CutAppend(NewRow(p))
    PROVE  /\ file' \in File /\ file'.exists
           /\ ~file'.ended => file'.lines # <<>>
           /\ OneRowPerCheckpoint'
           /\ Lines' \subseteq Lines \cup {NewRow(p), Garbage}
           /\ Lines' = Lines \/ Lines \cup {NewRow(p)} \subseteq Lines' \/ Garbage \in Lines'
  <1>1. file \in File /\ FileIsSound /\ OneRowPerCheckpoint
    BY DEF IInv, TypeOK
  <1>2. CASE file' = [file EXCEPT !.exists = TRUE]
    <2>1. file' \in File /\ file'.exists /\ file'.lines = file.lines /\ file'.ended = file.ended
      BY <1>1, <1>2 DEF File
    <2> QED BY <1>1, <2>1 DEF OneRowPerCheckpoint, FileIsSound, Lines
  <1>3. ASSUME NEW row \in {NewRow(p), Garbage}, row \in Line, row = Garbage \/ row.id \notin Ids,
               file' = [Appended(row) EXCEPT !.ended = FALSE]
        PROVE  /\ file' \in File /\ file'.lines # <<>> /\ file'.exists
               /\ OneRowPerCheckpoint'
               /\ Lines' \subseteq Lines \cup {NewRow(p), Garbage}
               /\ Lines \cup {row} \subseteq Lines' \/ Garbage \in Lines'
    <2>1. file'.lines = Appended(row).lines /\ file'.exists
      BY <1>3 DEF Appended
    <2>2. /\ Appended(row) \in File /\ file'.lines # <<>>
          /\ Lines' \subseteq Lines \cup {row, Garbage}
          /\ file.ended => Lines' = Lines \cup {row}
          /\ ~file.ended => Garbage \in Lines'
      BY <1>1, <1>3, <2>1, AppendLines
    <2>3. file' \in File
      BY <1>3, <2>2 DEF File
    <2>4. Lines \cup {row} \subseteq Lines' \/ Garbage \in Lines'
      BY <2>2
    <2>5. OneRowPerCheckpoint'
      BY <1>1, <1>3, <2>1, AppendDistinct
    <2> QED BY <2>1, <2>2, <2>3, <2>4, <2>5
  <1>4. Garbage \in Line /\ NewRow(p) \in Line /\ NewRow(p).id \notin Ids
    BY RowInHand DEF Line
  <1>5. CASE file' = [Appended(Garbage) EXCEPT !.ended = FALSE]
    BY <1>3, <1>4, <1>5
  <1>6. CASE file' = [Appended(NewRow(p)) EXCEPT !.ended = FALSE]
    BY <1>3, <1>4, <1>6
  <1> QED BY <1>2, <1>5, <1>6 DEF CutAppend

\* A process that ends and leaves a part of its row.
LEMMA CutStep ==
    ASSUME IInv, NEW p \in Procs, At(p, "append"), TornWrites,
           NEW outcome \in Outcomes, Stop(p, outcome),
           file' \in CutAppend(NewRow(p)), UNCHANGED meta
    PROVE  IInv'
  <1>1. Down(outcome) \in Process /\ Down(outcome).pc = "down"
    BY DEF Down, Process, Stages, Kinds
  <1>2. /\ proc' \in [Procs -> Process] /\ proc'[p] = Down(outcome)
        /\ \A q \in Procs \ {p} : proc'[q] = proc[q]
    BY <1>1, ProcessFacts DEF Stop
  <1>3. ~At(p, "down") /\ At(p, "down")' /\ lock' = "none"
    BY <1>1, <1>2 DEF At, Stop
  <1>4. LockIsHeld' /\ \A q \in Procs : ProcessIsSound(q)'
    <2>1. LockIsHeld' /\ \A q \in Procs \ {p} : ProcessIsSound(q)'
      BY <1>2, <1>3, ProcessStep
    <2>2. ProcessIsSound(p)'
      BY <1>3 DEF ProcessIsSound, Prepared, Looping, Written, Attempted, At
    <2> QED BY <2>1, <2>2
  <1>5. file' \in File /\ (~file'.ended => file'.lines # <<>>) /\ file'.exists /\ OneRowPerCheckpoint'
    BY CutRow
  <1>6. FileIsSound'
    BY <1>5 DEF FileIsSound
  <1>7. TypeOK'
    BY <1>2, <1>3, <1>5 DEF TypeOK, IInv
  <1> QED BY <1>4, <1>5, <1>6, <1>7 DEF IInv

\* An append that raises leaves its checkpoint in hand, with or without a line.
LEMMA RaisedStep ==
    ASSUME IInv, NEW p \in Procs, At(p, "append"), Goto(p, "raised"), UNCHANGED <<lock, meta>>,
           UNCHANGED file \/ (TornWrites /\ file' \in CutAppend(NewRow(p)))
    PROVE  IInv'
  <1>1. proc[p] \in Process /\ proc \in [Procs -> Process] /\ Current(p) = First(proc[p].todo)
    BY ProcessFacts
  <1> DEFINE r == [proc[p] EXCEPT !.pc = "raised"]
  <1>2. r \in Process /\ proc' = [proc EXCEPT ![p] = r]
    BY <1>1 DEF Goto, Process, Stages
  <1>3. /\ r.pc = "raised" /\ r.todo = proc[p].todo
        /\ r.identity = proc[p].identity /\ r.outcome = proc[p].outcome /\ r.wanted = proc[p].wanted
    BY <1>1 DEF Process
  <1> HIDE DEF r
  <1>4. proc' \in [Procs -> Process] /\ proc'[p] = r /\ \A q \in Procs \ {p} : proc'[q] = proc[q]
    BY <1>1, <1>2
  <1>5. ~At(p, "down") /\ ~At(p, "down")'
    BY <1>3, <1>4 DEF At
  <1>6. LockIsHeld' /\ \A q \in Procs \ {p} : ProcessIsSound(q)'
    BY <1>4, <1>5, ProcessStep
  <1>7. file' \in File /\ FileIsSound' /\ OneRowPerCheckpoint' /\ Lines' \subseteq Lines \cup {NewRow(p), Garbage}
    <2>1. CASE UNCHANGED file
      BY <2>1 DEF IInv, TypeOK, FileIsSound, OneRowPerCheckpoint, Lines
    <2>2. CASE TornWrites /\ file' \in CutAppend(NewRow(p))
      BY <2>2, CutRow DEF FileIsSound
    <2> QED BY <2>1, <2>2
  <1>8. ProcessIsSound(p)'
    <2>1. NewRow(p).id = Current(p) /\ Current(p) \in proc[p].todo /\ RequestIsKept(p)
      BY RowInHand, InHand
    <2>2. Ids' \subseteq Ids \cup {Current(p), Garbage.id}
      BY <1>7, <2>1 DEF Ids
    <2>3. Garbage.id \notin proc[p].todo
      BY <1>1 DEF Garbage, Checkpoints, Process
    <2>4. (proc[p].todo \ {Current(p)}) \cap Ids' = {}
      BY <2>2, <2>3, InHand
    <2>5. RequestIsKept(p)'
      BY <1>3, <1>4, <2>1, <2>2 DEF RequestIsKept
    <2> QED BY <1>1, <1>3, <1>4, <2>4, <2>5, InHand DEF ProcessIsSound, Looping, Written, Attempted, At
  <1>9. TypeOK'
    BY <1>4, <1>7, ProcessFacts DEF TypeOK, IInv
  <1>10. ~TornWrites => InterruptedRunResumes'
    BY <1>3, <1>4 DEF InterruptedRunResumes, IInv
  <1> QED BY <1>6, <1>7, <1>8, <1>9, <1>10 DEF IInv

\* An append that raises.
LEMMA AppendFailsStep == ASSUME IInv, NEW p \in Procs, AppendFails(p) PROVE IInv'
  <1>1. At(p, "append") /\ ~At(p, "down") /\ UNCHANGED meta
    BY DEF AppendFails, At
  <1>2. CASE proc[p].kind = "prediction"
    BY <1>1, <1>2, RaisedStep DEF AppendFails
  <1>3. CASE proc[p].kind # "prediction"
    <2>1. Stop(p, "failed") /\ meta' \in Identities \cup {"none", "torn"}
      BY <1>1, <1>3, ProcessFacts DEF AppendFails
    <2>2. CASE UNCHANGED file
      BY <1>1, <2>1, <2>2, StopStep DEF Outcomes
    <2>3. CASE TornWrites /\ file' \in CutAppend(NewRow(p))
      BY <1>1, <2>1, <2>3, CutStep DEF Outcomes
    <2> QED BY <2>2, <2>3 DEF AppendFails
  <1> QED BY <1>2, <1>3

\* A process may die anywhere.
LEMMA KillStep == ASSUME IInv, NEW p \in Procs, Kill(p) PROVE IInv'
  <1>1. ~At(p, "down") /\ Stop(p, "killed")
    BY DEF Kill
  <1>2. CASE UNCHANGED <<meta, file>> \/ (meta' = "torn" /\ UNCHANGED file)
    BY <1>1, <1>2, StopStep, ProcessFacts DEF Outcomes
  <1>3. CASE TornWrites /\ At(p, "append") /\ file' \in CutAppend(NewRow(p)) /\ UNCHANGED meta
    BY <1>1, <1>3, CutStep DEF Outcomes
  <1> QED BY <1>2, <1>3 DEF Kill

\* The initial states satisfy the invariant.
LEMMA InitInvariant == Init => IInv
  <1> SUFFICES ASSUME Init PROVE IInv
    OBVIOUS
  <1> USE DEF Init
  <1>1. Down("none") \in Process /\ Down("none").pc = "down" /\ Down("none").outcome = "none"
    BY DEF Down, Process, Stages, Kinds, Outcomes
  <1>2. NoFile \in File /\ Lines = {} /\ Ids = {}
    BY DEF NoFile, File, Lines, Ids
  <1>3. TypeOK
    BY <1>1, <1>2 DEF TypeOK
  <1>4. LockIsHeld /\ \A p \in Procs : ProcessIsSound(p)
    BY <1>1, RunnerAssumption DEF LockIsHeld, ProcessIsSound, Prepared, Looping, Written, Attempted, At
  <1>5. FileIsSound /\ OneRowPerCheckpoint /\ InterruptedRunResumes
    BY <1>1, <1>2 DEF FileIsSound, OneRowPerCheckpoint, InterruptedRunResumes, NoFile
  <1> QED BY <1>3, <1>4, <1>5 DEF IInv

\* Every step preserves the invariant.
LEMMA NextInvariant == IInv /\ [Next]_vars => IInv'
  <1> SUFFICES ASSUME IInv, [Next]_vars PROVE IInv'
    OBVIOUS
  <1>1. CASE FreshStart \/ ResumeStart
    BY <1>1, StartStep DEF FreshStart, ResumeStart
  <1>2. CASE AnyKill
    BY <1>2, KillStep DEF AnyKill
  <1>3. ASSUME NEW p \in Procs, Step(p) PROVE IInv'
    BY <1>3, StopSteps, GoSteps, SaveStep, FreshStep, ResumeStep, CheckpointSteps, AppendStep,
       AppendFailsStep DEF Step
  <1>4. CASE UNCHANGED vars
    <2>1. UNCHANGED lock /\ UNCHANGED meta /\ UNCHANGED file /\ UNCHANGED proc
      BY <1>4 DEF vars
    <2>2. TypeOK' /\ LockIsHeld' /\ FileIsSound' /\ OneRowPerCheckpoint'
      BY <2>1 DEF IInv, TypeOK, LockIsHeld, FileIsSound, OneRowPerCheckpoint, Lines
    <2>3. \A p \in Procs : ProcessIsSound(p)'
      BY <2>1 DEF IInv, ProcessIsSound, Prepared, RequestIsKept, Looping, Written,
                      Attempted, At, Accepted, Readable, Ids, Lines
    <2>4. ~TornWrites => InterruptedRunResumes'
      BY <2>1 DEF IInv, InterruptedRunResumes
    <2> QED BY <2>2, <2>3, <2>4 DEF IInv
  <1> QED BY <1>1, <1>2, <1>3, <1>4 DEF Next

-------------------------------------------------------------------------------
\* Over any processes, kills, cut writes and resumes, of any requests: the lock, the
\* metadata, the predictions file and the processes satisfy the invariant.
THEOREM Invariance == Spec => []IInv
  <1>1. Init => IInv
    BY InitInvariant
  <1>2. IInv /\ [Next]_vars => IInv'
    BY NextInvariant
  <1> QED BY <1>1, <1>2, PTL DEF Spec

\* No checkpoint gets two prediction lines, whatever is killed, cut or resumed.
THEOREM RowsAreUnique == Spec => []OneRowPerCheckpoint
  <1>1. IInv => OneRowPerCheckpoint
    BY DEF IInv
  <1> QED BY <1>1, Invariance, PTL

\* Only a readable file with a line of each checkpoint of the request, and of no
\* other one, is scored.
THEOREM ScoredIsComplete == Spec => []OnlyCompleteIsScored
  <1>1. IInv => OnlyCompleteIsScored
    <2> SUFFICES ASSUME IInv, NEW p \in Procs, proc[p].pc = "score"
                 PROVE  Readable /\ Ids = proc[p].wanted
      BY DEF OnlyCompleteIsScored
    <2>1. Readable /\ proc[p].wanted \subseteq Ids
      BY DEF IInv, ProcessIsSound, At, Accepted
    <2>2. Ids \subseteq proc[p].wanted \cup {Garbage.id}
      BY DEF IInv, ProcessIsSound, Prepared, RequestIsKept, At
    <2>3. Garbage.id \notin Ids
      <3>1. Lines \subseteq Line
        BY DEF IInv, TypeOK, File, Lines
      <3>2. Garbage \notin Lines
        BY <2>1 DEF IInv, FileIsSound, Readable, Lines
      <3> QED BY <3>1, <3>2, RowsParse DEF Line, Ids
    <2> QED BY <2>1, <2>2, <2>3
  <1> QED BY <1>1, Invariance, PTL

\* As long as every write is whole or not begun, the predictions of an interrupted run
\* are readable for the resume.
THEOREM ResumeIsReadable == ASSUME ~TornWrites PROVE Spec => []InterruptedRunResumes
  <1>1. IInv => InterruptedRunResumes
    BY DEF IInv
  <1> QED BY <1>1, Invariance, PTL

-------------------------------------------------------------------------------
(* The totals and the case results *)

CaseFile == [rows : Seq(Case), torn : BOOLEAN]
Memory == [base : Nat, calls : Nat, kept : Nat, results : Seq(Case)]

SideTypeOK ==
    /\ saved \in Nat /\ paid \in Nat /\ lost \in Nat
    /\ live \in Memory
    /\ live.kept <= live.calls
    /\ cases \in CaseFile

\* The process has not yet saved its metadata for the first time.
Opening(p) == At(p, "identify") \/ (At(p, "save") /\ proc[p].then = "load")

\* The account of the running process.  Until its first save the bill is that of
\* the run on file; from then on what was paid is on file, unsaved or lost.
AccountIsExact(p) ==
    /\ Opening(p) => /\ live.calls = 0 /\ live.kept = 0
                     /\ meta # "torn" => saved + lost = paid
    /\ At(p, "save") /\ Opening(p) =>
          /\ live.base = IF proc[p].resume THEN saved ELSE 0
          /\ proc[p].resume => meta = proc[p].identity
    /\ ~At(p, "down") /\ ~Opening(p) =>
          /\ meta # "torn"
          /\ saved = live.base + live.kept
          /\ paid = live.base + live.calls + lost

ResultIds == {live.results[n].id : n \in 1..Len(live.results)}

\* No result is of a checkpoint that is still to be done.
ResultsAreDone(p) ==
    /\ Opening(p) \/ At(p, "load") => live.results = <<>>
    /\ Looping(p) \/ Attempted(p) => ResultIds \cap proc[p].todo = {}

SideInv ==
    /\ SideTypeOK
    /\ lock = "none" => live = Idle
    /\ \A p \in Procs : AccountIsExact(p) /\ ResultsAreDone(p)
    /\ EveryCallBilledOnce
    /\ CasesCountedOnce

\* The rows that are taken over are numbered without a gap, so each is taken once:
\* the results loaded are of distinct checkpoints, and these have a line.
LEMMA LoadedOnce ==
    ASSUME cases \in CaseFile
    PROVE  /\ Loaded \in Seq(Case)
           /\ \A k \in 1..Len(Loaded) : Loaded[k].id \in Ids
           /\ \A k, l \in 1..Len(Loaded) : Loaded[k].id = Loaded[l].id => k = l
  <1> DEFINE rows == cases.rows
             IsFirst(n) == \A m \in 1..(n - 1) : cases.rows[m].id # cases.rows[n].id
             Takes(n) == Kept(cases.rows[n]) /\ IsFirst(n)
             upto(n) == {m \in 1..n : Takes(m)}
             place(n) == Cardinality(upto(n))
             taken == {n \in 1..Len(cases.rows) : Takes(n)}
             total == Cardinality(taken)
             row(k) == CHOOSE n \in taken : place(n) = k
  <1>1. Loaded = [k \in 1..total |-> cases.rows[row(k)]]
    BY DEF Loaded
  <1>2. cases.rows \in Seq(Case) /\ Len(cases.rows) \in Nat
    BY DEF CaseFile
  <1>3. IsFiniteSet(taken) /\ total \in Nat
    <2>1. IsFiniteSet(1..Len(cases.rows))
      BY <1>2, FS_Interval
    <2>2. IsFiniteSet(taken)
      BY <2>1, FS_Subset
    <2> HIDE DEF taken
    <2> QED BY <2>2, FS_CardinalityType
  <1>4. ASSUME NEW n \in taken
        PROVE  upto(n) \subseteq taken /\ n \in upto(n) /\ IsFiniteSet(upto(n)) /\ place(n) \in 1..total
    <2>1. n \in 1..Len(cases.rows) /\ Takes(n)
      OBVIOUS
    <2>2. n \in upto(n)
      BY <1>2, <2>1
    <2>3. upto(n) \subseteq taken
      BY <1>2, <2>1
    <2> HIDE DEF upto, taken, Takes
    <2>4. IsFiniteSet(upto(n)) /\ place(n) <= total
      BY <1>3, <2>3, FS_Subset
    <2>5. place(n) \in Nat /\ place(n) # 0
      BY <2>2, <2>4, FS_CardinalityType, FS_EmptySet
    <2> HIDE DEF place, total
    <2> QED BY <1>3, <2>2, <2>3, <2>4, <2>5
  <1>5. ASSUME NEW m \in taken, NEW n \in taken, m < n
        PROVE  place(m) # place(n)
    <2>1. m \in 1..Len(cases.rows) /\ n \in 1..Len(cases.rows)
      OBVIOUS
    <2>2. upto(m) \subseteq upto(n) /\ n \notin upto(m)
      BY <1>2, <1>5, <2>1
    <2>3. n \in upto(n) /\ IsFiniteSet(upto(n))
      BY <1>4
    <2> HIDE DEF upto, taken
    <2> QED BY <2>2, <2>3, FS_Subset
  <1>6. \A n \in taken : n \in Nat
    BY <1>2
  <1>7. \A k \in 1..total : row(k) \in taken /\ place(row(k)) = k
    <2> DEFINE f == [n \in taken |-> place(n)]
    <2>1. f \in [taken -> 1..total]
      BY <1>4
    <2>2. \A m, n \in taken : f[m] = f[n] => m = n
      <3> SUFFICES ASSUME NEW m \in taken, NEW n \in taken, place(m) = place(n)
                   PROVE  m = n
        OBVIOUS
      <3>1. m \in Nat /\ n \in Nat
        BY <1>6
      <3>2. ~(m < n) /\ ~(n < m)
        BY <1>5
      <3> HIDE DEF taken, place
      <3> QED BY <3>1, <3>2
    <2>3. f \in Injection(taken, 1..total)
      <3> HIDE DEF f, taken
      <3> QED BY <2>1, <2>2 DEF Injection, IsInjective
    <2>4. IsFiniteSet(1..total) /\ Cardinality(1..total) = total
      <3> HIDE DEF total
      <3> QED BY <1>3, FS_Interval
    <2>5. f \in Surjection(taken, 1..total)
      <3> HIDE DEF f, taken
      <3> QED BY <2>3, <2>4, FS_Injection
    <2>6. \A k \in 1..total : \E n \in taken : f[n] = k
      <3> HIDE DEF f, taken
      <3> QED BY <2>5 DEF Surjection
    <2> HIDE DEF taken, place, total
    <2> QED BY <2>6
  <1> HIDE DEF row, place, total
  <1>8. \A k \in 1..total : row(k) \in 1..Len(cases.rows) /\ Takes(row(k))
    BY <1>7
  <1>9. Loaded \in Seq(Case) /\ Len(Loaded) = total
    <2>1. \A k \in 1..total : cases.rows[row(k)] \in Case
      BY <1>2, <1>8
    <2> HIDE DEF taken, Takes
    <2> QED BY <1>1, <1>3, <2>1
  <1>10. \A k \in 1..Len(Loaded) : Loaded[k].id \in Ids
    BY <1>1, <1>8, <1>9 DEF Kept
  <1>11. ASSUME NEW k \in 1..total, NEW l \in 1..total, row(k) < row(l)
         PROVE  cases.rows[row(k)].id # cases.rows[row(l)].id
    <2>1. IsFirst(row(l))
      BY <1>8
    <2>2. row(k) \in 1..(row(l) - 1)
      BY <1>2, <1>8, <1>11
    <2> QED BY <2>1, <2>2
  <1>12. ASSUME NEW k \in 1..total, NEW l \in 1..total, Loaded[k].id = Loaded[l].id
         PROVE  k = l
    <2>1. cases.rows[row(k)].id = cases.rows[row(l)].id
      BY <1>1, <1>12
    <2>2. row(k) \in Nat /\ row(l) \in Nat
      BY <1>6, <1>7
    <2>3. ~(row(k) < row(l)) /\ ~(row(l) < row(k))
      BY <1>11, <2>1
    <2>4. row(k) = row(l)
      BY <2>2, <2>3
    <2> HIDE DEF taken
    <2> QED BY <1>7, <2>4
  <1> QED BY <1>9, <1>10, <1>12

\* Every step of the run with its side files is a step of the run.
LEMMA RunNextIsNext == RunNext => Next
  <1>1. ASSUME NEW p \in Procs, RunStep(p) PROVE Step(p)
    <2>1. CASE Refuse(p) \/ Identify(p) \/ SaveTotals(p) \/ StartLoop(p) \/ GiveUp(p)
      BY <2>1 DEF Step, Refuse, Identify, SaveTotals, StartLoop, GiveUp
    <2>2. CASE Attempt(p) \/ WriteRows(p) \/ EvaluateCase(p)
      BY <2>2 DEF Step, Attempt, WriteRows, EvaluateCase
    <2>3. CASE EndLoop(p) \/ Finalize(p) \/ FinalizeFails(p)
      BY <2>3 DEF Step, EndLoop, Finalize, FinalizeFails
    <2> QED BY <1>1, <2>1, <2>2, <2>3 DEF RunStep
  <1>2. BeginFresh => FreshStart
    BY DEF BeginFresh, FreshStart, Begin
  <1>3. BeginResume => ResumeStart
    BY DEF BeginResume, ResumeStart, Begin
  <1>4. KillAny => AnyKill
    BY DEF KillAny, AnyKill, KillRun
  <1> QED BY <1>1, <1>2, <1>3, <1>4 DEF RunNext, Next

\* Nothing is asked of the account of a process that is down.
LEMMA DownHasNoAccount ==
    ASSUME NEW p \in Procs, At(p, "down")
    PROVE  AccountIsExact(p) /\ ResultsAreDone(p)
  BY DEF AccountIsExact, ResultsAreDone, Opening, Looping, Written, Attempted, At

\* While one process goes on, it is enough to look at its own account.
LEMMA GoesOn ==
    ASSUME IInv', SideTypeOK', NEW p \in Procs, ~At(p, "down")',
           AccountIsExact(p)', ResultsAreDone(p)', CasesCountedOnce'
    PROVE  SideInv'
  <1>1. lock' = p /\ \A q \in Procs \ {p} : At(q, "down")'
    BY OthersAreDown DEF IInv, LockIsHeld, At
  <1>2. lock' # "none"
    BY <1>1, RunnerAssumption
  <1>3. \A q \in Procs \ {p} : AccountIsExact(q)' /\ ResultsAreDone(q)'
    BY <1>1 DEF AccountIsExact, ResultsAreDone, Opening, Looping, Written, Attempted, At
  <1> QED BY <1>2, <1>3 DEF SideInv, EveryCallBilledOnce

\* A process that ends leaves what it has saved; the rest of its calls are lost,
\* those of the step that ends it included.
LEMMA EndsStep ==
    ASSUME IInv, IInv', SideInv, NEW p \in Procs, ~At(p, "down"), lock' = "none",
           NEW c \in Nat, c = 0 \/ ~Opening(p),
           live' = Idle, paid' = paid + c, lost' = lost + live.calls + c - live.kept,
           saved' \in Nat, meta' = "torn" \/ UNCHANGED <<meta, saved>>,
           cases' \in CaseFile
    PROVE  SideInv'
  <1>1. \A q \in Procs : At(q, "down")'
    BY RunnerAssumption DEF IInv, LockIsHeld, At
  <1>2. \A q \in Procs : AccountIsExact(q)' /\ ResultsAreDone(q)'
    BY <1>1 DEF AccountIsExact, ResultsAreDone, Opening, Looping, Written, Attempted, At
  <1>3. Idle \in Memory /\ Idle.kept <= Idle.calls
    BY DEF Idle, Memory
  <1>4. /\ live.calls \in Nat /\ live.kept \in Nat /\ live.base \in Nat /\ live.kept <= live.calls
        /\ saved \in Nat /\ paid \in Nat /\ lost \in Nat
    BY DEF SideInv, SideTypeOK, Memory
  <1>5. lost' \in Nat /\ paid' \in Nat
    BY <1>4
  <1>6. SideTypeOK'
    BY <1>3, <1>4, <1>5 DEF SideTypeOK
  <1>7. meta' # "torn" => saved' + lost' = paid'
    <2> SUFFICES ASSUME meta' # "torn" PROVE saved' + lost' = paid'
      OBVIOUS
    <2>1. AccountIsExact(p) /\ saved' = saved /\ meta # "torn"
      BY DEF SideInv
    <2>2. CASE Opening(p)
      BY <1>4, <2>1, <2>2 DEF AccountIsExact
    <2>3. CASE ~Opening(p)
      <3>1. saved = live.base + live.kept /\ paid = live.base + live.calls + lost
        BY <2>1, <2>3 DEF AccountIsExact
      <3> QED BY <1>4, <2>1, <3>1
    <2> QED BY <2>2, <2>3
  <1>8. EveryCallBilledOnce'
    BY <1>7 DEF EveryCallBilledOnce
  <1>9. CasesCountedOnce'
    BY DEF CasesCountedOnce, Idle
  <1> QED BY <1>2, <1>6, <1>8, <1>9 DEF SideInv

\* A process that goes on with the same totals keeps its account, once it is open.
LEMMA AccountFrame ==
    ASSUME IInv', SideInv, NEW p \in Procs, ~At(p, "down"), ~Opening(p),
           ~At(p, "down")', ~Opening(p)', UNCHANGED <<meta, saved, lost>>,
           NEW c \in Nat, paid' = paid + c,
           live' \in Memory,
           live'.calls = live.calls + c, live'.base = live.base, live'.kept = live.kept,
           cases' \in CaseFile,
           ResultsAreDone(p)', CasesCountedOnce'
    PROVE  SideInv'
  <1>1. /\ live.calls \in Nat /\ live.kept \in Nat /\ live.base \in Nat /\ live.kept <= live.calls
        /\ saved \in Nat /\ paid \in Nat /\ lost \in Nat
    BY DEF SideInv, SideTypeOK, Memory
  <1>2. SideTypeOK'
    BY <1>1 DEF SideTypeOK
  <1>3. AccountIsExact(p)'
    <2>1. AccountIsExact(p)
      BY DEF SideInv
    <2>2. meta' # "torn" /\ saved' = live'.base + live'.kept /\ paid' = live'.base + live'.calls + lost'
      BY <1>1, <2>1 DEF AccountIsExact
    <2> QED BY <2>2 DEF AccountIsExact
  <1> QED BY <1>2, <1>3, GoesOn

\* A step that ends the process and makes no call.
LEMMA QuietEnd ==
    ASSUME IInv, IInv', SideInv, NEW p \in Procs, ~At(p, "down"), lock' = "none", Ends,
           saved' \in Nat, meta' = "torn" \/ UNCHANGED <<meta, saved>>,
           cases' \in CaseFile
    PROVE  SideInv'
  <1>1. live.calls \in Nat /\ live.kept \in Nat /\ lost \in Nat /\ paid \in Nat
    BY DEF SideInv, SideTypeOK, Memory
  <1>2. live' = Idle /\ paid' = paid + 0 /\ lost' = lost + live.calls + 0 - live.kept
    BY <1>1 DEF Ends
  <1> QED BY <1>2, EndsStep

\* What the side files and the memory are made of.
LEMMA SideFacts ==
    ASSUME SideInv
    PROVE  /\ live \in Memory
           /\ cases \in CaseFile
           /\ saved \in Nat /\ paid \in Nat /\ lost \in Nat
           /\ \A p \in Procs : AccountIsExact(p) /\ ResultsAreDone(p)
           /\ CasesCountedOnce
  BY DEF SideInv, SideTypeOK

\* Without results there is none to count twice.
LEMMA NoResults == ASSUME live.results = <<>> PROVE CasesCountedOnce /\ ResultIds = {}
  BY DEF CasesCountedOnce, ResultIds

\* What finalize can leave are case rows.
LEMMA CutCasesAreRows == ASSUME SideInv, cases' \in CutCases PROVE cases' \in CaseFile
  <1>1. live.results \in Seq(Case) /\ cases \in CaseFile
    BY SideFacts DEF Memory
  <1>2. \A n \in 0..Len(live.results) : SubSeq(live.results, 1, n) \in Seq(Case)
    BY <1>1
  <1>3. TornWrites \in BOOLEAN
    BY RunnerAssumption
  <1>4. ASSUME NEW n \in 0..Len(live.results), NEW t \in {FALSE, TornWrites},
               cases' = [rows |-> SubSeq(live.results, 1, n), torn |-> t]
        PROVE  cases' \in CaseFile
    <2>1. t \in BOOLEAN
      BY <1>3, Zenon
    <2> QED BY <1>2, <1>4, <2>1 DEF CaseFile
  <1> QED BY <1>1, <1>4 DEF CutCases

\* A start, by a process that has spent nothing.
LEMMA BeginStep ==
    ASSUME IInv, IInv', SideInv, NEW p \in Procs, NEW identity \in Identities, NEW wanted \in Requests,
           NEW resume \in BOOLEAN, Begin(p, identity, wanted, resume)
    PROVE  SideInv'
  <1>1. UNCHANGED <<saved, cases, live, paid, lost, meta, file>> /\ live = Idle /\ lock = "none"
    BY DEF Begin, Start, sideVars, SideInv
  <1>2. proc'[p] = Started(identity, wanted, resume)
    BY ProcessFacts DEF Begin, Start
  <1>3. proc'[p].pc = "identify"
    <2>1. Started(identity, wanted, resume).pc = "identify"
      BY DEF Started, Down
    <2> QED BY <1>2, <2>1
  <1>4. live'.calls = 0 /\ live'.kept = 0 /\ live'.results = <<>>
    BY <1>1 DEF Idle
  <1>5. meta' # "torn" => saved' + lost' = paid'
    BY <1>1 DEF SideInv, EveryCallBilledOnce
  <1>6. AccountIsExact(p)'
    BY <1>3, <1>4, <1>5 DEF AccountIsExact, Opening, At
  <1>7. CasesCountedOnce' /\ ResultsAreDone(p)'
    BY <1>3, <1>4 DEF CasesCountedOnce, ResultsAreDone, Looping, Written, Attempted, At
  <1>8. SideTypeOK' /\ ~At(p, "down")'
    BY <1>1, <1>3 DEF SideInv, SideTypeOK, At
  <1> QED BY <1>6, <1>7, <1>8, GoesOn

\* The ends of a process that make no call.
LEMMA EndSteps ==
    ASSUME IInv, IInv', SideInv, NEW p \in Procs,
           Refuse(p) \/ GiveUp(p) \/ FinalizeFails(p) \/ KillRun(p)
    PROVE  SideInv'
  <1>1. cases' \in CaseFile
    BY SideFacts, CutCasesAreRows DEF Refuse, GiveUp, FinalizeFails, KillRun
  <1>2. ~At(p, "down")
    BY DEF Refuse, ResumeRefused, GiveUp, LoadFails, PrepareResume, FinalizeFails, ScoreFails,
           KillRun, Kill, At
  <1>3. Ends
    BY DEF Refuse, GiveUp, FinalizeFails, KillRun
  <1>4. saved' \in Nat /\ (meta' = "torn" \/ UNCHANGED <<meta, saved>>)
    <2>1. CASE KillRun(p)
      BY <2>1, SideFacts DEF KillRun, Kill
    <2>2. CASE Refuse(p) \/ GiveUp(p) \/ FinalizeFails(p)
      BY <2>2, SideFacts
         DEF Refuse, ResumeRefused, GiveUp, LoadFails, PrepareResume, FinalizeFails, ScoreFails
    <2> QED BY <2>1, <2>2
  <1>5. lock' = "none"
    <2>1. CASE PrepareResume(p) /\ proc'[p].pc = "down"
      <3>1. CASE Readable /\ Ids \subseteq proc[p].wanted
        <4>1. proc'[p].pc = "loop"
          BY <2>1, <3>1, ProcessFacts DEF PrepareResume, Process
        <4> QED BY <2>1, <4>1
      <3>2. CASE ~Readable \/ ~(Ids \subseteq proc[p].wanted)
        BY <2>1, <3>2 DEF PrepareResume, Stop
      <3> QED BY <3>1, <3>2
    <2> QED BY <2>1 DEF Refuse, ResumeRefused, GiveUp, LoadFails, FinalizeFails, ScoreFails, KillRun, Kill, Stop
  <1> QED BY <1>1, <1>2, <1>3, <1>4, <1>5, QuietEnd

\* The totals a process starts from: those on file, if it resumes their run.
LEMMA IdentifyStep ==
    ASSUME IInv, IInv', SideInv, NEW p \in Procs, Identify(p)
    PROVE  SideInv'
  <1>1. /\ UNCHANGED <<meta, file, saved, cases, paid, lost>>
        /\ At(p, "identify") /\ (proc[p].resume => meta = proc[p].identity)
        /\ live' = [live EXCEPT !.base = IF proc[p].resume THEN saved ELSE 0]
    BY DEF Identify, Identified
  <1>2. proc'[p].pc = "save" /\ proc'[p].then = "load" /\ proc'[p].resume = proc[p].resume
        /\ proc'[p].identity = proc[p].identity
    <2>1. proc' = [proc EXCEPT ![p].pc = "save", ![p].then = "load"]
      BY DEF Identify, Identified, SaveThen
    <2>2. proc[p] \in Process /\ proc \in [Procs -> Process]
      BY ProcessFacts
    <2> QED BY <2>1, <2>2 DEF Process
  <1>3. live \in Memory /\ saved \in Nat /\ Opening(p) /\ AccountIsExact(p) /\ ResultsAreDone(p)
    BY <1>1, SideFacts DEF Opening
  <1>4. live.calls = 0 /\ live.kept = 0 /\ live.results = <<>> /\ (meta # "torn" => saved + lost = paid)
    BY <1>3 DEF AccountIsExact, ResultsAreDone
  <1>5. /\ live' \in Memory
        /\ live'.base = IF proc[p].resume THEN saved ELSE 0
        /\ live'.calls = 0 /\ live'.kept = 0 /\ live'.results = <<>>
    BY <1>1, <1>3, <1>4 DEF Memory
  <1>6. SideTypeOK'
    BY <1>1, <1>5 DEF SideInv, SideTypeOK
  <1>7. AccountIsExact(p)'
    BY <1>1, <1>2, <1>4, <1>5 DEF AccountIsExact, Opening, At
  <1>8. CasesCountedOnce' /\ ResultsAreDone(p)'
    BY <1>2, <1>5 DEF CasesCountedOnce, ResultsAreDone, Looping, Written, Attempted, At
  <1>9. ~At(p, "down")'
    BY <1>2 DEF At
  <1> QED BY <1>6, <1>7, <1>8, <1>9, GoesOn

\* The same results stay counted once while the lines stay as they are.
LEMMA SameResults ==
    ASSUME CasesCountedOnce, UNCHANGED file, live'.results = live.results
    PROVE  CasesCountedOnce' /\ ResultIds' = ResultIds
  BY DEF CasesCountedOnce, ResultIds, Lines, Ids

\* Saving puts every call made so far on file; the first save of a fresh run starts
\* its bill.
LEMMA SaveTotalsStep ==
    ASSUME IInv, IInv', SideInv, NEW p \in Procs, SaveTotals(p)
    PROVE  SideInv'
  <1>1. /\ At(p, "save") /\ ~At(p, "down") /\ proc[p].then # "down"
        /\ proc[p].identity \in Identities
    BY ProcessFacts DEF SaveTotals, SaveMetadata, At, ProcessIsSound
  <1>2. UNCHANGED <<file, cases>> /\ meta' = proc[p].identity /\ saved' = live.base + live.calls
    BY DEF SaveTotals, SaveMetadata, Cumulative
  <1>3. meta' # "torn"
    BY <1>1, <1>2, RunnerAssumption
  <1>4. live \in Memory /\ AccountIsExact(p) /\ ResultsAreDone(p) /\ CasesCountedOnce
    BY SideFacts
  <1>5. /\ saved \in Nat /\ paid \in Nat /\ lost \in Nat
        /\ live.base \in Nat /\ live.calls \in Nat /\ live.kept \in Nat
    BY SideFacts DEF Memory
  <1>6. saved' \in Nat
    BY <1>2, <1>5
  <1>7. proc[p] \in Process /\ proc \in [Procs -> Process]
    BY ProcessFacts
  <1>8. CASE proc[p].then \in {"aborted", "scored"}
    <2>1. PICK outcome : Stop(p, outcome)
      BY <1>8 DEF SaveTotals, SaveMetadata
    <2>2. proc'[p].pc = "down" /\ lock' = "none"
      BY <1>7, <2>1 DEF Stop, Down
    <2>3. live' = Idle /\ UNCHANGED <<paid, lost>>
      BY <1>8, <2>2 DEF SaveTotals
    <2>4. ~Opening(p)
      BY <1>8 DEF Opening, SaveTotals, SaveMetadata, At
    <2>5. saved' + lost' = paid'
      <3>1. paid = live.base + live.calls + lost
        BY <1>1, <1>4, <2>4 DEF AccountIsExact
      <3> QED BY <1>2, <1>5, <2>3, <3>1
    <2>6. SideTypeOK'
      <3>1. Idle \in Memory /\ Idle.kept <= Idle.calls
        BY DEF Idle, Memory
      <3> QED BY <1>2, <1>6, <2>3, <3>1 DEF SideInv, SideTypeOK
    <2>7. EveryCallBilledOnce' /\ CasesCountedOnce'
      BY <2>3, <2>5 DEF EveryCallBilledOnce, CasesCountedOnce, Idle
    <2>8. \A q \in Procs : At(q, "down")'
      BY <2>2, RunnerAssumption DEF IInv, LockIsHeld, At
    <2>9. \A q \in Procs : AccountIsExact(q)' /\ ResultsAreDone(q)'
      BY <2>8 DEF AccountIsExact, ResultsAreDone, Opening, Looping, Written, Attempted, At
    <2> QED BY <2>3, <2>6, <2>7, <2>9 DEF SideInv
  <1>9. CASE proc[p].then \notin {"aborted", "scored"}
    <2>1. proc'[p] = [proc[p] EXCEPT !.pc = proc[p].then]
      BY <1>7, <1>9 DEF SaveTotals, SaveMetadata, Goto
    <2>2. proc'[p].pc = proc[p].then /\ proc'[p].todo = proc[p].todo /\ proc'[p].then = proc[p].then
      BY <1>7, <2>1 DEF Process
    <2>3. proc[p].then \in {"load", "loop", "check"}
      BY <1>1, <1>7, <1>9 DEF Process
    <2>4. ~At(p, "down")' /\ ~Opening(p)' /\ ~Attempted(p)'
      BY <2>2, <2>3 DEF At, Opening, Attempted, Written
    <2>5. live' = [live EXCEPT !.kept = live.calls]
      BY <2>2, <2>3 DEF SaveTotals
    <2>6. /\ live' \in Memory /\ live'.base = live.base /\ live'.calls = live.calls
          /\ live'.kept = live.calls /\ live'.results = live.results
      BY <1>4, <2>5 DEF Memory
    <2>7. paid' \in Nat /\ lost' \in Nat /\ paid' = live'.base + live'.calls + lost'
      <3>1. CASE proc[p].then = "load" /\ ~proc[p].resume
        <4>1. Opening(p) /\ live.calls = 0 /\ live.base = 0
          BY <1>1, <1>4, <3>1 DEF Opening, AccountIsExact
        <4>2. paid' = 0 /\ lost' = 0
          BY <3>1 DEF SaveTotals
        <4> QED BY <2>6, <4>1, <4>2
      <3>2. CASE proc[p].then = "load" /\ proc[p].resume
        <4>1. /\ Opening(p) /\ live.calls = 0 /\ live.base = saved
              /\ meta = proc[p].identity /\ (meta # "torn" => saved + lost = paid)
          BY <1>1, <1>4, <3>2 DEF Opening, AccountIsExact
        <4>2. UNCHANGED <<paid, lost>>
          BY <3>2 DEF SaveTotals
        <4>3. saved + lost = paid
          BY <1>2, <1>3, <4>1
        <4> QED BY <1>5, <2>6, <4>1, <4>2, <4>3
      <3>3. CASE proc[p].then # "load"
        <4>1. ~Opening(p)
          BY <3>3, <1>1 DEF Opening, At
        <4>2. paid = live.base + live.calls + lost
          BY <1>1, <1>4, <4>1 DEF AccountIsExact
        <4>3. UNCHANGED <<paid, lost>>
          BY <3>3 DEF SaveTotals
        <4> QED BY <1>5, <2>6, <4>2, <4>3
      <3> QED BY <3>1, <3>2, <3>3
    <2>8. SideTypeOK'
      BY <1>2, <1>5, <1>6, <2>6, <2>7 DEF SideInv, SideTypeOK
    <2>9. AccountIsExact(p)'
      BY <1>2, <1>3, <2>4, <2>6, <2>7 DEF AccountIsExact
    <2>10. CasesCountedOnce'
      BY <1>2, <1>4, <2>6, SameResults
    <2>11. ResultsAreDone(p)'
      <3>1. ResultIds' = ResultIds
        BY <2>6 DEF ResultIds
      <3>2. CASE proc[p].then = "load"
        <4>1. live.results = <<>>
          BY <1>1, <1>4, <3>2 DEF ResultsAreDone, Opening
        <4> QED BY <2>2, <2>4, <2>6, <3>2, <4>1 DEF ResultsAreDone, Looping, At
      <3>3. CASE proc[p].then = "loop"
        <4>1. ResultIds \cap proc[p].todo = {}
          BY <1>1, <1>4, <3>3 DEF ResultsAreDone, Looping
        <4> QED BY <2>2, <2>4, <3>1, <3>3, <4>1 DEF ResultsAreDone, At
      <3>4. CASE proc[p].then = "check"
        BY <2>2, <2>4, <3>4 DEF ResultsAreDone, Looping, At
      <3> QED BY <2>3, <3>2, <3>3, <3>4
    <2> QED BY <2>4, <2>8, <2>9, <2>10, <2>11, GoesOn
  <1> QED BY <1>8, <1>9

\* Where an exception of a checkpoint leads.
LEMMA ErrorGoes ==
    ASSUME NEW p \in Procs, proc \in [Procs -> Process], proc[p] \in Process, ExecutionError(p)
    PROVE  /\ UNCHANGED <<meta, file>>
           /\ \/ proc'[p].pc = "down" /\ lock' = "none"
              \/ /\ proc'[p].pc = "append" /\ proc'[p].todo = proc[p].todo
                 /\ Readable /\ Current(p) \notin Ids
              \/ /\ proc'[p].pc = "save" /\ proc'[p].then = "aborted"
                 /\ proc'[p].todo = proc[p].todo
              \/ proc'[p].pc = "loop" /\ proc'[p].todo = proc[p].todo \ {Current(p)}
  <1>1. UNCHANGED <<meta, file>>
    BY DEF ExecutionError
  <1>2. CASE Stop(p, "failed")
    BY <1>1, <1>2 DEF Stop, Down
  <1>3. CASE WriteRow(p, "error") /\ Readable /\ Current(p) \notin Ids
    BY <1>1, <1>3 DEF WriteRow, Process
  <1>4. CASE SaveThen(p, "aborted")
    BY <1>1, <1>4 DEF SaveThen, Process
  <1>5. CASE Finished(p, proc[p].errors)
    BY <1>1, <1>5 DEF Finished, Process
  <1> QED BY <1>2, <1>3, <1>4, <1>5 DEF ExecutionError

\* One more result, of a checkpoint that had none.
LEMMA OneMoreResult ==
    ASSUME live.results \in Seq(Case), NEW c \in Case, c.id \notin ResultIds,
           live'.results = Append(live.results, c),
           \A m, n \in 1..Len(live.results) : live.results[m].id = live.results[n].id => m = n
    PROVE  /\ ResultIds' = ResultIds \cup {c.id}
           /\ \A m, n \in 1..Len(live'.results) : live'.results[m].id = live'.results[n].id => m = n
  <1> DEFINE len == Len(live.results)
  <1>1. len \in Nat /\ Len(live'.results) = len + 1
    OBVIOUS
  <1>2. (\A n \in 1..len : live'.results[n] = live.results[n]) /\ live'.results[len + 1] = c
    OBVIOUS
  <1>3. \A n \in 1..len : live.results[n].id \in ResultIds
    BY DEF ResultIds
  <1>4. 1..Len(live'.results) = 1..len \cup {len + 1}
    BY <1>1
  <1> HIDE DEF len
  <1>5. ResultIds' = {live.results[n].id : n \in 1..len} \cup {c.id}
    <2> DEFINE results == live'.results
    <2>1. ResultIds' = {results[n].id : n \in 1..len \cup {len + 1}}
      BY <1>4 DEF ResultIds
    <2>2. (\A n \in 1..len : results[n] = live.results[n]) /\ results[len + 1] = c
      BY <1>2
    <2> HIDE DEF results
    <2>3. {results[n].id : n \in 1..len \cup {len + 1}}
            = {results[n].id : n \in 1..len} \cup {results[len + 1].id}
      OBVIOUS
    <2>4. {results[n].id : n \in 1..len} = {live.results[n].id : n \in 1..len}
      BY <2>2
    <2> QED
      BY <2>1, <2>2, <2>3, <2>4
  <1>6. ResultIds' = ResultIds \cup {c.id}
    BY <1>5 DEF ResultIds, len
  <1>7. ASSUME NEW m \in 1..Len(live'.results), NEW n \in 1..Len(live'.results),
               live'.results[m].id = live'.results[n].id
        PROVE  m = n
    <2>1. CASE m \in 1..len /\ n \in 1..len
      BY <1>2, <1>7, <2>1 DEF len
    <2>2. CASE m \in 1..len /\ n = len + 1
      BY <1>2, <1>3, <1>7, <2>2
    <2>3. CASE m = len + 1 /\ n \in 1..len
      BY <1>2, <1>3, <1>7, <2>3
    <2>4. CASE m = len + 1 /\ n = len + 1
      BY <2>4
    <2> QED BY <1>4, <2>1, <2>2, <2>3, <2>4
  <1> QED BY <1>6, <1>7

\* The loop starts with the results of checkpoints that are not done again.
LEMMA StartLoopStep ==
    ASSUME IInv, IInv', SideInv, NEW p \in Procs, StartLoop(p)
    PROVE  SideInv'
  <1>1. At(p, "load") /\ ~At(p, "down") /\ ~Opening(p)
    BY DEF StartLoop, PrepareFresh, PrepareResume, At, Opening
  <1>2. live \in Memory /\ cases \in CaseFile /\ paid \in Nat
    BY SideFacts
  <1>3. proc[p] \in Process /\ proc \in [Procs -> Process]
    BY ProcessFacts
  <1>4. UNCHANGED <<meta, saved, cases, paid, lost>>
    BY DEF StartLoop, PrepareFresh, PrepareResume
  <1>5. CASE PrepareFresh(p) /\ live' = [live EXCEPT !.results = <<>>]
    <2>1. proc'[p].pc = "loop"
      BY <1>3, <1>5 DEF PrepareFresh, Process
    <2>2. /\ live' \in Memory /\ live'.base = live.base /\ live'.calls = live.calls
          /\ live'.kept = live.kept /\ live'.results = <<>>
      <3>1. live' = [live EXCEPT !.results = <<>>]
        BY <1>5
      <3>2. <<>> \in Seq(Case)
        OBVIOUS
      <3> QED BY <1>2, <3>1, <3>2 DEF Memory
    <2>3. live'.calls = live.calls + 0 /\ paid' = paid + 0
      BY <1>2, <1>4, <2>2 DEF Memory
    <2>4. CasesCountedOnce' /\ ResultIds' = {}
      BY <2>2 DEF CasesCountedOnce, ResultIds
    <2>5. ResultsAreDone(p)' /\ ~At(p, "down")' /\ ~Opening(p)'
      BY <2>1, <2>2, <2>4 DEF ResultsAreDone, Opening, At
    <2> QED BY <1>1, <1>2, <1>4, <2>2, <2>3, <2>4, <2>5, AccountFrame
  <1>6. CASE PrepareResume(p) /\ proc'[p].pc = "loop" /\ live' = [live EXCEPT !.results = Loaded]
    <2>1. Readable /\ proc'[p].todo = proc[p].wanted \ Ids /\ UNCHANGED file
      <3>1. CASE ~Readable \/ ~(Ids \subseteq proc[p].wanted)
        <4>1. PICK outcome : Stop(p, outcome)
          BY <1>6, <3>1 DEF PrepareResume
        <4>2. proc'[p].pc = "down"
          BY <1>3, <4>1 DEF Stop, Down
        <4> QED BY <1>6, <4>2
      <3>2. CASE Readable /\ Ids \subseteq proc[p].wanted
        BY <1>3, <1>6, <3>2 DEF PrepareResume, Process
      <3> QED BY <3>1, <3>2
    <2>2. /\ Loaded \in Seq(Case)
          /\ \A k \in 1..Len(Loaded) : Loaded[k].id \in Ids
          /\ \A k, l \in 1..Len(Loaded) : Loaded[k].id = Loaded[l].id => k = l
      BY <1>2, LoadedOnce
    <2>3. /\ live' \in Memory /\ live'.base = live.base /\ live'.calls = live.calls
          /\ live'.kept = live.kept /\ live'.results = Loaded
      BY <1>2, <1>6, <2>2 DEF Memory
    <2>4. live'.calls = live.calls + 0 /\ paid' = paid + 0
      BY <1>2, <1>4, <2>3 DEF Memory
    <2>5. Ids' = Ids
      BY <2>1 DEF Ids, Lines
    <2>6. CasesCountedOnce' /\ ResultIds' \subseteq Ids
      BY <2>2, <2>3, <2>5 DEF CasesCountedOnce, ResultIds
    <2>7. ResultsAreDone(p)' /\ ~At(p, "down")' /\ ~Opening(p)'
      BY <1>6, <2>1, <2>6 DEF ResultsAreDone, Opening, At
    <2> QED BY <1>1, <1>2, <1>4, <2>3, <2>4, <2>6, <2>7, AccountFrame
  <1> QED BY <1>5, <1>6 DEF StartLoop

\* While the results stay as they are and nothing comes back to the list, they are of
\* checkpoints that are done.
LEMMA DoneStays ==
    ASSUME NEW p \in Procs, ResultsAreDone(p), Looping(p) \/ Attempted(p),
           live'.results = live.results, proc'[p].todo \subseteq proc[p].todo,
           ~Opening(p)', ~At(p, "load")'
    PROVE  ResultsAreDone(p)'
  <1>1. ResultIds' = ResultIds /\ ResultIds \cap proc[p].todo = {}
    BY DEF ResultIds, ResultsAreDone
  <1> QED BY <1>1 DEF ResultsAreDone

\* A step of a checkpoint that goes on, with c more calls and the same results.
LEMMA SameResultsStep ==
    ASSUME IInv', SideInv, NEW p \in Procs, Looping(p) \/ Attempted(p), ~Opening(p),
           UNCHANGED <<meta, file, saved, cases, lost>>,
           proc'[p].pc \notin {"down", "identify", "load"},
           proc'[p].pc = "save" => proc'[p].then # "load",
           proc'[p].todo \subseteq proc[p].todo,
           NEW c \in Nat, paid' = paid + c, live' = [live EXCEPT !.calls = live.calls + c]
    PROVE  SideInv'
  <1>1. live \in Memory /\ cases \in CaseFile /\ ResultsAreDone(p) /\ CasesCountedOnce
    BY SideFacts
  <1>2. live.calls \in Nat
    BY <1>1 DEF Memory
  <1>3. /\ live' \in Memory /\ live'.base = live.base /\ live'.calls = live.calls + c
        /\ live'.kept = live.kept /\ live'.results = live.results
    BY <1>1, <1>2 DEF Memory
  <1>4. ~At(p, "down") /\ ~At(p, "down")' /\ ~Opening(p)' /\ ~At(p, "load")'
    BY DEF At, Opening, Looping, Attempted, Written
  <1>5. ResultsAreDone(p)'
    BY <1>1, <1>3, <1>4, DoneStays
  <1>6. CasesCountedOnce'
    BY <1>1, <1>3, SameResults
  <1> QED BY <1>1, <1>3, <1>4, <1>5, <1>6, AccountFrame

\* run_instance, with the calls it makes, ends the process or leads to its row, to the
\* last save or to the next checkpoint.
LEMMA AttemptStep ==
    ASSUME IInv, IInv', SideInv, NEW p \in Procs, Attempt(p)
    PROVE  SideInv'
  <1>1. InLoop(p) /\ At(p, "loop") /\ ~At(p, "down") /\ Looping(p) /\ ~Opening(p)
    BY DEF Attempt, Predict, AuditGap, Fails, InLoop, At, Looping, Opening
  <1>2. proc[p] \in Process /\ proc \in [Procs -> Process]
    BY ProcessFacts
  <1>3. /\ UNCHANGED <<meta, file>>
        /\ \/ proc'[p].pc = "down" /\ lock' = "none"
           \/ /\ proc'[p].pc \in {"append", "loop"} \/ (proc'[p].pc = "save" /\ proc'[p].then = "aborted")
              /\ proc'[p].todo \subseteq proc[p].todo
    <2>1. CASE Predict(p)
      BY <1>2, <2>1 DEF Predict, WriteRow, Process
    <2>2. CASE AuditGap(p)
      BY <1>2, <2>2 DEF AuditGap, WriteRow, Process
    <2>3. CASE Fails(p)
      <3>1. ExecutionError(p)
        BY <2>3 DEF Fails
      <3> QED BY <1>2, <3>1, ErrorGoes
    <2> QED BY <2>1, <2>2, <2>3 DEF Attempt
  <1>4. PICK c \in 0..1 :
          /\ paid' = paid + c
          /\ IF proc'[p].pc = "down"
             THEN live' = Idle /\ lost' = lost + (live.calls + c) - live.kept
             ELSE live' = [live EXCEPT !.calls = live.calls + c] /\ UNCHANGED lost
    BY DEF Attempt
  <1>5. UNCHANGED <<saved, cases>>
    BY DEF Attempt
  <1>6. /\ live \in Memory /\ cases \in CaseFile /\ saved \in Nat /\ lost \in Nat /\ c \in Nat
        /\ live.calls \in Nat /\ live.kept \in Nat
    BY SideFacts DEF Memory
  <1>7. CASE proc'[p].pc = "down"
    <2>1. lost' = lost + live.calls + c - live.kept
      BY <1>4, <1>6, <1>7
    <2> QED BY <1>1, <1>3, <1>4, <1>5, <1>6, <1>7, <2>1, EndsStep
  <1>8. CASE proc'[p].pc # "down"
    BY <1>1, <1>3, <1>4, <1>5, <1>6, <1>8, SameResultsStep
  <1> QED BY <1>7, <1>8

\* A step that makes no call and leaves memory alone is one with no more calls.
LEMMA NoCall ==
    ASSUME SideInv, Continues
    PROVE  paid' = paid + 0 /\ live' = [live EXCEPT !.calls = live.calls + 0] /\ UNCHANGED lost
  <1>1. live \in Memory /\ paid \in Nat /\ live.calls \in Nat
    BY SideFacts DEF Memory
  <1>2. live = [live EXCEPT !.calls = live.calls + 0]
    BY <1>1 DEF Memory
  <1> QED BY <1>1, <1>2 DEF Continues

\* The row of a checkpoint: appended, failed to be appended with the exception then
\* handled, or followed by its side file.
LEMMA WriteRowsStep ==
    ASSUME IInv, IInv', SideInv, NEW p \in Procs, WriteRows(p)
    PROVE  SideInv'
  <1>1. proc[p] \in Process /\ proc \in [Procs -> Process]
    BY ProcessFacts
  <1>2. UNCHANGED <<saved, cases>> /\ EndsOrContinues(p)
    BY DEF WriteRows
  <1>3. live \in Memory /\ cases \in CaseFile /\ saved \in Nat /\ ResultsAreDone(p) /\ CasesCountedOnce
    BY SideFacts
  <1>4. CASE AppendRow(p)
    <2>1. /\ ~At(p, "down") /\ ~Opening(p) /\ Looping(p)
          /\ UNCHANGED meta /\ file' = Appended(NewRow(p))
          /\ proc' = [proc EXCEPT ![p].pc = IF proc[p].kind = "prediction" THEN "debug" ELSE "row_saved"]
      BY <1>4 DEF AppendRow, Goto, At, Opening, Looping
    <2>2. proc'[p].pc \in {"debug", "row_saved"} /\ proc'[p].todo = proc[p].todo
      BY <1>1, <2>1 DEF Process
    <2>3. UNCHANGED <<live, paid, lost>>
      BY <1>2, <2>2 DEF EndsOrContinues, Continues
    <2>4. ~At(p, "down")' /\ ~Opening(p)' /\ ~At(p, "load")'
      BY <2>2 DEF At, Opening
    <2>5. NewRow(p) \in Row
      <3>1. Current(p) \in Checkpoints /\ proc[p].identity \in Identities
        BY <1>4, InHand DEF AppendRow
      <3> QED BY <1>1, <3>1 DEF NewRow, Row, Process
    <2>6. Garbage \notin Lines' => Garbage \notin Lines /\ Ids \subseteq Ids'
      <3>1. file \in File /\ FileIsSound /\ NewRow(p) \in Line
        BY <2>5 DEF IInv, TypeOK, Line
      <3>2. Garbage \notin Lines' => Garbage \notin Lines /\ Lines' = Lines \cup {NewRow(p)}
        BY <2>1, <3>1, AppendLines
      <3> QED BY <3>2 DEF Ids
    <2>7. CasesCountedOnce'
      BY <1>3, <2>3, <2>6 DEF CasesCountedOnce
    <2>8. ResultsAreDone(p)'
      BY <1>3, <2>1, <2>2, <2>3, <2>4, DoneStays
    <2>9. paid' = paid + 0 /\ live'.calls = live.calls + 0
      BY <1>3, <2>3, SideFacts DEF Memory
    <2> QED BY <1>2, <1>3, <2>1, <2>3, <2>4, <2>7, <2>8, <2>9, AccountFrame
  <1>5. CASE AppendFails(p)
    <2>1. At(p, "append") /\ ~At(p, "down") /\ ~Opening(p) /\ Looping(p) /\ UNCHANGED meta
      BY <1>5 DEF AppendFails, At, Opening, Looping
    <2>2. CASE Stop(p, "failed")
      <3>1. proc'[p].pc = "down" /\ lock' = "none"
        BY <1>1, <2>2 DEF Stop, Down
      <3>2. Ends
        BY <1>2, <3>1 DEF EndsOrContinues
      <3> QED BY <1>2, <1>3, <2>1, <3>1, <3>2, QuietEnd
    <2>3. CASE Goto(p, "raised")
      <3>1. proc'[p].pc = "raised" /\ proc'[p].todo = proc[p].todo
        BY <1>1, <2>3 DEF Goto, Process
      <3>2. UNCHANGED <<live, paid, lost>>
        BY <1>2, <3>1 DEF EndsOrContinues, Continues
      <3>3. ~At(p, "down")' /\ ~Opening(p)' /\ ~At(p, "load")'
        BY <3>1 DEF At, Opening
      <3>4. Garbage \notin Lines' => Garbage \notin Lines /\ Ids \subseteq Ids'
        <4>1. Lines' = Lines \/ Lines \cup {NewRow(p)} \subseteq Lines' \/ Garbage \in Lines'
          <5>1. CASE UNCHANGED file
            BY <5>1 DEF Lines
          <5>2. CASE file' \in CutAppend(NewRow(p))
            BY <2>1, <5>2, CutRow
          <5> QED BY <1>5, <5>1, <5>2 DEF AppendFails
        <4> QED BY <4>1 DEF Ids
      <3>5. CasesCountedOnce'
        BY <1>3, <3>2, <3>4 DEF CasesCountedOnce
      <3>6. ResultsAreDone(p)'
        BY <1>3, <2>1, <3>1, <3>2, <3>3, DoneStays
      <3>7. paid' = paid + 0 /\ live'.calls = live.calls + 0
        BY <1>3, <3>2, SideFacts DEF Memory
      <3> QED BY <1>2, <1>3, <2>1, <3>2, <3>3, <3>5, <3>6, <3>7, AccountFrame
    <2> QED BY <1>5, <2>2, <2>3 DEF AppendFails
  <1>6. CASE AppendRaised(p) \/ RowSaved(p)
    <2>1. /\ UNCHANGED <<meta, file>>
          /\ \/ proc'[p].pc = "down" /\ lock' = "none"
             \/ /\ \/ proc'[p].pc \in {"append", "loop"}
                   \/ proc'[p].pc = "save" /\ proc'[p].then \in {"aborted", "loop"}
                /\ proc'[p].todo \subseteq proc[p].todo
      <3>1. CASE AppendRaised(p)
        <4>1. ExecutionError(p)
          BY <3>1 DEF AppendRaised
        <4> QED BY <1>1, <4>1, ErrorGoes
      <3>2. CASE RowSaved(p)
        <4> DEFINE errors == IF proc[p].kind = "error" THEN proc[p].errors + 1 ELSE 0
                   stop == proc[p].kind = "error" /\ ErrorLimit > 0 /\ errors >= ErrorLimit
                   then == IF stop THEN "aborted" ELSE "loop"
        <4>1. proc' = [proc EXCEPT ![p].pc = "save", ![p].then = then,
                                   ![p].todo = @ \ {Current(p)}, ![p].errors = errors]
          BY <3>2 DEF RowSaved
        <4>2. then \in {"aborted", "loop"} /\ UNCHANGED <<meta, file>>
          BY <3>2 DEF RowSaved
        <4> HIDE DEF then, errors
        <4> QED BY <1>1, <4>1, <4>2 DEF Process
      <3> QED BY <1>6, <3>1, <3>2
    <2>2. ~At(p, "down") /\ ~Opening(p) /\ (Looping(p) \/ Attempted(p))
      BY <1>6 DEF AppendRaised, RowSaved, At, Opening, Attempted, Written
    <2>3. CASE proc'[p].pc = "down"
      <3>1. Ends
        BY <1>2, <2>3 DEF EndsOrContinues
      <3> QED BY <1>2, <1>3, <2>1, <2>2, <2>3, <3>1, QuietEnd
    <2>4. CASE proc'[p].pc # "down"
      <3>1. Continues
        BY <1>2, <2>4 DEF EndsOrContinues
      <3> QED BY <1>2, <2>1, <2>2, <2>4, <3>1, NoCall, SameResultsStep
    <2> QED BY <2>3, <2>4
  <1> QED BY <1>4, <1>5, <1>6 DEF WriteRows

\* The result of the checkpoint whose prediction was written is the first of it.
LEMMA OneMoreCase ==
    ASSUME IInv, IInv', SideInv, NEW p \in Procs, At(p, "debug"),
           UNCHANGED <<meta, file, saved, cases, paid, lost>>, live' = WithCase(p),
           \/ proc'[p].pc = "loop" /\ proc'[p].todo = proc[p].todo \ {Current(p)}
           \/ proc'[p].pc = "save" /\ proc'[p].then = "aborted"
    PROVE  SideInv'
  <1> DEFINE c == [id |-> Current(p), identity |-> proc[p].identity]
  <1>1. Written(p) /\ Attempted(p) /\ ~At(p, "down") /\ ~Opening(p)
    BY DEF Written, Attempted, At, Opening
  <1>2. live \in Memory /\ cases \in CaseFile /\ paid \in Nat /\ ResultsAreDone(p) /\ CasesCountedOnce
    BY SideFacts
  <1>3. Current(p) \in proc[p].todo /\ Current(p) \in Checkpoints /\ proc[p].identity \in Identities
    BY <1>1, InHand
  <1>4. c \in Case /\ c.id = Current(p)
    BY <1>3 DEF Case
  <1>5. c.id \notin ResultIds /\ ResultIds \cap proc[p].todo = {}
    BY <1>1, <1>2, <1>3, <1>4 DEF ResultsAreDone
  <1>6. live.results \in Seq(Case) /\ live.calls \in Nat
    BY <1>2 DEF Memory
  <1>7. /\ live' \in Memory /\ live'.base = live.base /\ live'.calls = live.calls
        /\ live'.kept = live.kept /\ live'.results = Append(live.results, c)
    <2>1. live' = [live EXCEPT !.results = Append(live.results, c)]
      BY DEF WithCase
    <2>2. Append(live.results, c) \in Seq(Case)
      BY <1>4, <1>6
    <2> HIDE DEF c
    <2> QED BY <1>2, <2>1, <2>2 DEF Memory
  <1> HIDE DEF c
  <1>8. /\ ResultIds' = ResultIds \cup {c.id}
        /\ \A m, n \in 1..Len(live'.results) : live'.results[m].id = live'.results[n].id => m = n
    BY <1>2, <1>4, <1>5, <1>6, <1>7, OneMoreResult DEF CasesCountedOnce
  <1>9. Garbage \notin Lines' => ResultIds' \subseteq Ids'
    <2>1. Lines' = Lines /\ Ids' = Ids
      BY DEF Lines, Ids
    <2>2. Garbage \notin Lines => ResultIds \subseteq Ids
      BY <1>2 DEF CasesCountedOnce, ResultIds
    <2>3. Garbage \notin Lines => Current(p) \in Ids
      BY <1>1, ProcessFacts DEF ProcessIsSound
    <2> QED BY <1>4, <1>8, <2>1, <2>2, <2>3
  <1>10. CasesCountedOnce'
    BY <1>8, <1>9 DEF CasesCountedOnce, ResultIds
  <1>11. ResultsAreDone(p)'
    <2>1. ~Opening(p)' /\ ~At(p, "load")'
      BY DEF Opening, At
    <2>2. CASE proc'[p].pc = "loop" /\ proc'[p].todo = proc[p].todo \ {Current(p)}
      BY <1>4, <1>5, <1>8, <2>1, <2>2 DEF ResultsAreDone
    <2>3. CASE proc'[p].pc = "save" /\ proc'[p].then = "aborted"
      BY <2>1, <2>3 DEF ResultsAreDone, Looping, Written, Attempted, At
    <2> QED BY <2>2, <2>3
  <1>12. ~At(p, "down")' /\ ~Opening(p)'
    BY DEF Opening, At
  <1>13. paid' = paid + 0 /\ live'.calls = live.calls + 0
    BY <1>2, <1>6, <1>7
  <1> QED BY <1>1, <1>2, <1>7, <1>10, <1>11, <1>12, <1>13, AccountFrame

\* The evaluation of a checkpoint and its debug artifact.  The exception handler does
\* not write an error row here: the prediction is on file.
LEMMA EvaluateCaseStep ==
    ASSUME IInv, IInv', SideInv, NEW p \in Procs, EvaluateCase(p)
    PROVE  SideInv'
  <1>1. At(p, "debug") /\ Written(p) /\ Attempted(p) /\ ~At(p, "down") /\ ~Opening(p)
    BY DEF EvaluateCase, DebugSaved, DebugFails, At, Written, Attempted, Opening
  <1>2. proc[p] \in Process /\ proc \in [Procs -> Process]
    BY ProcessFacts
  <1>3. UNCHANGED <<saved, cases>>
    BY DEF EvaluateCase
  <1>4. cases \in CaseFile /\ saved \in Nat
    BY SideFacts
  <1>5. CASE DebugSaved(p) /\ live' = WithCase(p) /\ UNCHANGED <<paid, lost>>
    <2>1. proc'[p].pc = "loop" /\ proc'[p].todo = proc[p].todo \ {Current(p)} /\ UNCHANGED <<meta, file>>
      BY <1>2, <1>5 DEF DebugSaved, Finished, Process
    <2> QED BY <1>1, <1>3, <1>5, <2>1, OneMoreCase
  <1>6. CASE /\ DebugFails(p)
             /\ IF proc'[p].pc = "down" THEN Ends
                ELSE live' \in {live, WithCase(p)} /\ UNCHANGED <<paid, lost>>
    <2>1. ~(Readable /\ Current(p) \notin Ids)
      <3>1. /\ file.exists /\ (Current(p) \in Ids \/ Garbage \in Lines)
        BY <1>1, ProcessFacts DEF ProcessIsSound
      <3> QED BY <3>1 DEF Readable
    <2>2. ExecutionError(p)
      BY <1>6 DEF DebugFails
    <2>3. /\ UNCHANGED <<meta, file>>
          /\ \/ proc'[p].pc = "down" /\ lock' = "none"
             \/ /\ proc'[p].pc = "save" /\ proc'[p].then = "aborted"
                /\ proc'[p].todo = proc[p].todo
             \/ proc'[p].pc = "loop" /\ proc'[p].todo = proc[p].todo \ {Current(p)}
      BY <1>2, <2>1, <2>2, ErrorGoes
    <2>4. CASE proc'[p].pc = "down"
      <3>1. Ends
        BY <1>6, <2>4
      <3> QED BY <1>1, <1>3, <1>4, <2>3, <2>4, <3>1, QuietEnd
    <2>5. CASE proc'[p].pc # "down" /\ live' = WithCase(p) /\ UNCHANGED <<paid, lost>>
      BY <1>1, <1>3, <2>3, <2>5, OneMoreCase
    <2>6. CASE proc'[p].pc # "down" /\ live' = live /\ UNCHANGED <<paid, lost>>
      <3>1. Continues
        BY <2>6 DEF Continues
      <3>2. proc'[p].todo \subseteq proc[p].todo
        BY <2>3, <2>6
      <3> QED BY <1>1, <1>3, <2>3, <2>6, <3>1, <3>2, NoCall, SameResultsStep
    <2> QED BY <1>6, <2>4, <2>5, <2>6
  <1> QED BY <1>5, <1>6 DEF EvaluateCase

\* A step after the loop that goes on: nothing is to be done any more.
LEMMA PastLoopStep ==
    ASSUME IInv', SideInv, NEW p \in Procs, ~At(p, "down"), ~Opening(p),
           UNCHANGED <<meta, file, saved>>, Continues, cases' \in CaseFile,
           \/ proc'[p].pc = "score"
           \/ proc'[p].pc = "save" /\ proc'[p].then \in {"check", "scored"}
    PROVE  SideInv'
  <1>1. live \in Memory /\ CasesCountedOnce
    BY SideFacts
  <1>2. /\ paid' = paid + 0 /\ UNCHANGED <<live, lost>> /\ live'.calls = live.calls + 0
    BY <1>1, SideFacts DEF Continues, Memory
  <1>3. CasesCountedOnce'
    BY <1>1, <1>2, SameResults
  <1>4. ~At(p, "down")' /\ ~Opening(p)' /\ ResultsAreDone(p)'
    BY DEF At, Opening, ResultsAreDone, Looping, Attempted, Written
  <1> QED BY <1>1, <1>2, <1>3, <1>4, AccountFrame

\* The end of the loop, the completeness check and the metrics.
LEMMA EndLoopStep ==
    ASSUME IInv, IInv', SideInv, NEW p \in Procs, EndLoop(p) \/ Finalize(p)
    PROVE  SideInv'
  <1>1. ~At(p, "down") /\ ~Opening(p)
    BY DEF EndLoop, LoopDone, Incomplete, Complete, Finalize, Score, At, Opening
  <1>2. proc[p] \in Process /\ proc \in [Procs -> Process]
    BY ProcessFacts
  <1>3. UNCHANGED <<meta, file, saved>>
    BY DEF EndLoop, LoopDone, Incomplete, Complete, Finalize, Score
  <1>4. live \in Memory /\ cases \in CaseFile /\ saved \in Nat
    BY SideFacts
  <1>5. CASE EndLoop(p) /\ Incomplete(p)
    <2>1. proc'[p].pc = "down" /\ lock' = "none"
      BY <1>2, <1>5 DEF Incomplete, Stop, Down
    <2>2. Ends /\ UNCHANGED cases
      BY <1>5, <2>1 DEF EndLoop, EndsOrContinues
    <2> QED BY <1>1, <1>3, <1>4, <2>1, <2>2, QuietEnd
  <1>6. CASE EndLoop(p) /\ (LoopDone(p) \/ Complete(p))
    <2>1. proc'[p].pc = "score" \/ (proc'[p].pc = "save" /\ proc'[p].then = "check")
      BY <1>2, <1>6 DEF LoopDone, Complete, SaveThen, Goto, Process
    <2>2. Continues /\ UNCHANGED cases
      BY <1>6, <2>1 DEF EndLoop, EndsOrContinues
    <2> QED BY <1>1, <1>3, <1>4, <2>1, <2>2, PastLoopStep
  <1>7. CASE Finalize(p)
    <2>1. proc'[p].pc = "save" /\ proc'[p].then = "scored"
      BY <1>2, <1>7 DEF Finalize, Score, SaveThen, Process
    <2>2. cases' \in CaseFile
      <3>1. live.results \in Seq(Case)
        BY <1>4 DEF Memory
      <3>2. cases' = [rows |-> live.results, torn |-> FALSE]
        BY <1>7 DEF Finalize
      <3> QED BY <3>1, <3>2 DEF CaseFile
    <2>3. Continues
      BY <1>7 DEF Finalize
    <2> QED BY <1>1, <1>3, <2>1, <2>2, <2>3, PastLoopStep
  <1> QED BY <1>5, <1>6, <1>7 DEF EndLoop

-------------------------------------------------------------------------------
\* Nothing is on file and nobody runs.
LEMMA InitSide == RunInit => IInv /\ SideInv
  <1> SUFFICES ASSUME RunInit PROVE IInv /\ SideInv
    OBVIOUS
  <1>1. IInv
    BY InitInvariant DEF RunInit
  <1>2. SideTypeOK
    <2>1. Idle \in Memory /\ Idle.kept <= Idle.calls
      BY DEF Idle, Memory
    <2>2. cases \in CaseFile
      BY DEF RunInit, CaseFile
    <2> QED BY <2>1, <2>2 DEF RunInit, SideTypeOK
  <1>3. \A p \in Procs : AccountIsExact(p) /\ ResultsAreDone(p)
    <2>1. \A p \in Procs : At(p, "down")
      BY DEF RunInit, Init, At, Down
    <2> QED BY <2>1, DownHasNoAccount
  <1>4. EveryCallBilledOnce /\ CasesCountedOnce
    BY DEF RunInit, EveryCallBilledOnce, CasesCountedOnce, Idle
  <1> QED BY <1>1, <1>2, <1>3, <1>4 DEF RunInit, SideInv

\* A step of the run changes what is kept beside it by one of the actions above.
LEMMA RunNextInvariant == IInv /\ SideInv /\ [RunNext]_runVars => IInv' /\ SideInv'
  <1> SUFFICES ASSUME IInv, SideInv, [RunNext]_runVars PROVE IInv' /\ SideInv'
    OBVIOUS
  <1>1. [Next]_vars
    BY RunNextIsNext DEF runVars
  <1>2. IInv'
    BY <1>1, NextInvariant
  <1>3. CASE BeginFresh \/ BeginResume
    BY <1>2, <1>3, BeginStep DEF BeginFresh, BeginResume
  <1>4. CASE KillAny
    BY <1>2, <1>4, EndSteps DEF KillAny
  <1>5. ASSUME NEW p \in Procs, RunStep(p) PROVE SideInv'
    BY <1>2, <1>5, EndSteps, IdentifyStep, SaveTotalsStep, StartLoopStep, AttemptStep, WriteRowsStep,
       EvaluateCaseStep, EndLoopStep DEF RunStep
  <1>6. CASE UNCHANGED runVars
    <2>1. UNCHANGED lock /\ UNCHANGED meta /\ UNCHANGED file /\ UNCHANGED proc
      BY <1>6 DEF runVars, vars
    <2>2. UNCHANGED saved /\ UNCHANGED cases /\ UNCHANGED live /\ UNCHANGED paid /\ UNCHANGED lost
      BY <1>6 DEF runVars, sideVars
    <2>3. SideTypeOK' /\ EveryCallBilledOnce' /\ CasesCountedOnce'
      BY <2>1, <2>2 DEF SideInv, SideTypeOK, EveryCallBilledOnce, CasesCountedOnce, Lines, Ids
    <2>4. \A p \in Procs : AccountIsExact(p)' /\ ResultsAreDone(p)'
      BY <2>1, <2>2 DEF SideInv, AccountIsExact, ResultsAreDone, ResultIds, Opening, Looping, Written, Attempted, At
    <2> QED BY <1>2, <2>1, <2>2, <2>3, <2>4 DEF SideInv
  <1> QED BY <1>2, <1>3, <1>4, <1>5, <1>6 DEF RunNext

\* The run with its totals and case results keeps both invariants.
THEOREM RunInvariance == RunSpec => [](IInv /\ SideInv)
  <1>1. RunInit => IInv /\ SideInv
    BY InitSide
  <1>2. (IInv /\ SideInv) /\ [RunNext]_runVars => (IInv /\ SideInv)'
    BY RunNextInvariant
  <1> QED BY <1>1, <1>2, PTL DEF RunSpec

\* Between runs the calls in the bill on file and those that were lost, because a
\* process ended before it saved them, add up to the calls made, over every history
\* of kills, failures, saves and resumes.
THEOREM BillIsExact == RunSpec => []EveryCallBilledOnce
  <1>1. IInv /\ SideInv => EveryCallBilledOnce
    BY DEF SideInv
  <1> QED BY <1>1, RunInvariance, PTL

\* The local metrics count each checkpoint at most once and only with a prediction,
\* whatever rows an earlier run left.  They may omit one that an earlier process did.
THEOREM MetricsCountOnce == RunSpec => []CasesCountedOnce
  <1>1. IInv /\ SideInv => CasesCountedOnce
    BY DEF SideInv
  <1> QED BY <1>1, RunInvariance, PTL

\* What a run keeps beside identity and predictions does not change how it treats them.
THEOREM RunIsRun == RunSpec => Spec
  <1>1. RunInit => Init
    BY DEF RunInit
  <1>2. [RunNext]_runVars => [Next]_vars
    BY RunNextIsNext DEF runVars
  <1> QED BY <1>1, <1>2, PTL DEF RunSpec, Spec
===============================================================================
