-------------------------- MODULE ModelComposeProofs --------------------------
(***************************************************************************)
(* Proofs about the compose transaction of a model, for any number of       *)
(* stages, processes and faults, with and without a base and with every     *)
(* crash window open or closed.                                             *)
(***************************************************************************)
EXTENDS ModelCompose, FiniteSetTheorems, SequenceTheorems, WellFoundedInduction, TLAPS

USE StagesAssumption, ProcsAssumption, ChoiceAssumption, BoundsAssumption DEF Stages

-----------------------------------------------------------------------------
(* The inductive invariant.                                                 *)

\* Whoever is past planning holds the lock.
HolderOnly == \A p \in Procs : proc[p].pc \notin {"idle", "planned"} => lock = p

\* What the newest run is while its process works on it.
RunOfProcess ==
    \A p \in Procs :
        /\ At(p, "stages") => ~LastIs("running")
        /\ At(p, "starting") => LastIs("planned")
        /\ At(p, "training") => LastIs("running")

\* A stage that is trained is one of the request.
StageInRequest ==
    \A p \in Procs : proc[p].pc \in {"starting", "training"} => proc[p].idx <= Cardinality(proc[p].req)

\* Only the newest run may be running.
NewestRuns == \A i \in DOMAIN runs : i < Len(runs) => runs[i].state # "running"

IInv == TypeOK /\ HolderOnly /\ RunOfProcess /\ StageInRequest /\ NewestRuns /\ LineageIntact

-----------------------------------------------------------------------------
(* The operators on numbers and stages.                                     *)

Less == {p \in Nat \X Nat : p[1] < p[2]}

\* Every nonempty set of naturals has a least element.
LEMMA LeastExists ==
    ASSUME NEW T \in SUBSET Nat, T # {}
    PROVE  \E x \in T : \A y \in T : x <= y
<1>1. IsWellFoundedOn(Less, Nat)
  BY NatLessThanWellFounded DEF OpToRel, Less
<1>2. PICK x \in T : \A y \in T : ~(<<y, x>> \in Less)
  BY <1>1, WFMin
<1>3. \A y \in T : ~(y < x)
  BY <1>2 DEF Less
<1>4. QED
  BY <1>3

\* Every nonempty set of naturals with an upper bound has a greatest one.
LEMMA GreatestExists ==
    ASSUME NEW n \in Nat, NEW T \in SUBSET (0..n), T # {}
    PROVE  \E x \in T : \A y \in T : y <= x
<1> DEFINE D == {n - t : t \in T}
<1>1. D \in SUBSET Nat /\ D # {}
  <2>1. \A t \in T : n - t \in Nat
    OBVIOUS
  <2>2. QED
    BY <2>1
<1>2. PICK d \in D : \A e \in D : d <= e
  BY <1>1, LeastExists
<1>3. PICK x \in T : d = n - x
  BY <1>2
<1>4. \A y \in T : n - x <= n - y
  BY <1>2, <1>3
<1>5. QED
  BY <1>4

LEMMA MinIsLeast ==
    ASSUME NEW T \in SUBSET Nat, T # {}
    PROVE  Min(T) \in T /\ \A y \in T : Min(T) <= y
  BY LeastExists DEF Min

LEMMA MaxIsGreatest ==
    ASSUME NEW n \in Nat, NEW T \in SUBSET (0..n), T # {}
    PROVE  Max(T) \in T /\ \A y \in T : y <= Max(T)
<1>1. \E x \in T : \A y \in T : x >= y
  BY GreatestExists
<1>2. QED
  BY <1>1 DEF Max

\* The stages of a selection are numbered through: the i-th one exists.
LEMMA StageAtExists ==
    ASSUME NEW S \in SUBSET Stages, NEW i \in 1..Cardinality(S)
    PROVE  StageAt(S, i) \in S /\ Cardinality({t \in S : t <= StageAt(S, i)}) = i
<1> DEFINE Upto(s) == {t \in S : t <= s}
           T == {s \in Nat : Cardinality(Upto(s)) >= i}
<1>0. NumStages \in Nat /\ \A t \in S : t \in Nat /\ 1 <= t /\ t <= NumStages
  OBVIOUS
<1>1. IsFiniteSet(S) /\ Cardinality(S) \in Nat /\ i \in Nat /\ 1 <= i /\ i <= Cardinality(S)
  <2>1. IsFiniteSet(1..NumStages)
    BY <1>0, FS_Interval
  <2>2. IsFiniteSet(S)
    BY <2>1, FS_Subset
  <2>3. QED
    BY <2>2, FS_CardinalityType
<1>2. \A s \in Nat : IsFiniteSet(Upto(s)) /\ Cardinality(Upto(s)) \in Nat
  <2> TAKE s \in Nat
  <2>1. Upto(s) \in SUBSET S
    OBVIOUS
  <2>2. IsFiniteSet(Upto(s))
    BY <1>1, <2>1, FS_Subset
  <2>3. QED
    BY <2>2, FS_CardinalityType
<1>3. NumStages \in T
  <2>1. Upto(NumStages) = S
    BY <1>0
  <2>2. QED
    BY <1>0, <1>1, <2>1
<1>4. PICK s \in T : \A u \in T : s <= u
  <2>1. T \in SUBSET Nat /\ T # {}
    BY <1>3
  <2> HIDE DEF T
  <2>2. QED
    BY <2>1, LeastExists
<1>5. s \in Nat /\ Cardinality(Upto(s)) >= i
  BY <1>4
<1>6. s # 0
  <2>1. Upto(0) = {}
    <3>1. \A t \in S : ~(t <= 0)
      BY <1>0
    <3>2. QED
      BY <3>1
  <2>2. Cardinality(Upto(0)) = 0
    BY <2>1, FS_EmptySet
  <2>3. QED
    BY <1>1, <1>5, <2>2
<1>7. s - 1 \in Nat /\ s - 1 \notin T
  <2>1. s - 1 \in Nat /\ ~(s <= s - 1)
    BY <1>5, <1>6
  <2> HIDE DEF T
  <2>2. QED
    BY <1>4, <2>1
<1>8. Cardinality(Upto(s - 1)) < i
  <2>1. ~(Cardinality(Upto(s - 1)) >= i)
    BY <1>7
  <2> HIDE DEF Upto
  <2>2. QED
    BY <1>1, <1>2, <1>7, <2>1
<1>9. s \in S
  <2> SUFFICES ASSUME s \notin S PROVE FALSE
    OBVIOUS
  <2>1. \A t \in S : t <= s <=> t <= s - 1
    <3> TAKE t \in S
    <3>1. t \in Nat /\ t # s
      BY <1>0
    <3>2. QED
      BY <1>5, <3>1
  <2>2. Upto(s) = Upto(s - 1)
    BY <2>1
  <2> HIDE DEF Upto
  <2>3. QED
    BY <1>1, <1>2, <1>5, <1>7, <1>8, <2>2
<1>10. Upto(s) = Upto(s - 1) \cup {s} /\ s \notin Upto(s - 1)
  <2>1. \A t \in S : t <= s <=> (t <= s - 1 \/ t = s)
    <3> TAKE t \in S
    <3>1. t \in Nat
      BY <1>0
    <3>2. QED
      BY <1>5, <3>1
  <2>2. ~(s <= s - 1)
    BY <1>5
  <2>3. QED
    BY <1>9, <2>1, <2>2
<1> HIDE DEF Upto
<1>11. Cardinality(Upto(s)) = Cardinality(Upto(s - 1)) + 1
  BY <1>2, <1>7, <1>10, FS_AddElement
<1>12. Cardinality(Upto(s)) = i
  BY <1>1, <1>2, <1>5, <1>7, <1>8, <1>11
<1>13. QED
  BY <1>9, <1>12 DEF StageAt, Upto

-----------------------------------------------------------------------------
(* What the steps do to the history of the model.                           *)

RunStates == {"planned", "running", "complete", "failed", "interrupted"}

\* Only the newest run changes, and only in its state and checkpoint.
NewestBecomes(from, to) ==
    /\ runs # <<>> /\ runs[Len(runs)].state = from
    /\ runs' \in Seq(Run) /\ Len(runs') = Len(runs)
    /\ runs'[Len(runs)].state = to
    /\ runs'[Len(runs)].stage = runs[Len(runs)].stage
    /\ runs'[Len(runs)].init = runs[Len(runs)].init
    /\ runs'[Len(runs)].audited = runs[Len(runs)].audited
    /\ \A i \in DOMAIN runs : i < Len(runs) => runs'[i] = runs[i]

NewestChanges ==
    \/ NewestBecomes("running", "interrupted") \/ NewestBecomes("running", "running")
    \/ NewestBecomes("running", "complete") \/ NewestBecomes("running", "failed")
    \/ NewestBecomes("planned", "running") \/ NewestBecomes("interrupted", "running")

\* A run is planned on top of a history in which nothing is running.
RunAdded ==
    /\ ~LastIs("running")
    /\ runs' \in Seq(Run) /\ Len(runs') = Len(runs) + 1 /\ Len(runs) < MaxRuns
    /\ \A i \in DOMAIN runs : runs'[i] = runs[i]
    /\ runs'[Len(runs) + 1].state = "planned"
    /\ runs'[Len(runs) + 1].init = NewestComplete

\* The history is a sequence of typed runs.
LEMMA RunsTyped ==
    ASSUME TypeOK
    PROVE  /\ runs \in Seq(Run) /\ Len(runs) \in Nat /\ Len(runs) <= MaxRuns
           /\ DOMAIN runs = 1 .. Len(runs)
           /\ \A i \in DOMAIN runs : runs[i] \in Run /\ runs[i].state \in RunStates
                                     /\ runs[i].init \in 0..MaxRuns
           /\ runs # <<>> => Len(runs) \in DOMAIN runs
<1>1. runs \in Seq(Run) /\ Len(runs) <= MaxRuns
  BY DEF TypeOK
<1>2. Len(runs) \in Nat /\ DOMAIN runs = 1 .. Len(runs) /\ \A i \in DOMAIN runs : runs[i] \in Run
  BY <1>1
<1>3. \A r \in Run : r.state \in RunStates /\ r.init \in 0..MaxRuns
  BY DEF Run, RunStates
<1>4. runs # <<>> => Len(runs) \in DOMAIN runs
  BY <1>1, <1>2
<1>5. QED
  BY <1>1, <1>2, <1>3, <1>4

LEMMA UpdateNewest ==
    ASSUME TypeOK, runs # <<>>, NEW from \in RunStates, NEW to \in RunStates,
           runs[Len(runs)].state = from,
           \/ runs' = [runs EXCEPT ![Len(runs)].state = to]
           \/ to = from /\ runs' = [runs EXCEPT ![Len(runs)].ckpt = TRUE]
    PROVE  NewestBecomes(from, to)
<1> DEFINE n == Len(runs)
<1>1. n \in DOMAIN runs /\ DOMAIN runs = 1..n /\ n \in Nat /\ runs[n] \in Run /\ runs \in [1..n -> Run]
  BY RunsTyped
<1>2. PICK r \in Run : /\ runs' = [runs EXCEPT ![n] = r] /\ r.state = to
                       /\ r.stage = runs[n].stage /\ r.init = runs[n].init
                       /\ r.audited = runs[n].audited
  <2>1. [runs[n] EXCEPT !.state = to] \in Run /\ [runs[n] EXCEPT !.ckpt = TRUE] \in Run
    BY <1>1 DEF Run, RunStates
  <2>2. [runs[n] EXCEPT !.state = to].state = to
        /\ [runs[n] EXCEPT !.state = to].stage = runs[n].stage
        /\ [runs[n] EXCEPT !.state = to].init = runs[n].init
        /\ [runs[n] EXCEPT !.state = to].audited = runs[n].audited
    BY <1>1 DEF Run
  <2>3. [runs[n] EXCEPT !.ckpt = TRUE].state = runs[n].state
        /\ [runs[n] EXCEPT !.ckpt = TRUE].stage = runs[n].stage
        /\ [runs[n] EXCEPT !.ckpt = TRUE].init = runs[n].init
        /\ [runs[n] EXCEPT !.ckpt = TRUE].audited = runs[n].audited
    BY <1>1 DEF Run
  <2>4. QED
    BY <2>1, <2>2, <2>3
<1> HIDE DEF n
<1>3. runs' \in [1..n -> Run] /\ runs'[n] = r /\ \A i \in 1..n : i # n => runs'[i] = runs[i]
  BY <1>1, <1>2
<1>4. runs' \in Seq(Run) /\ Len(runs') = n
  <2>1. \E k \in Nat : runs' \in [1..k -> Run]
    BY <1>1, <1>3
  <2>2. runs' \in Seq(Run)
    BY <1>1, <1>3, SeqDef
  <2>3. QED
    BY <1>1, <1>3, <2>2
<1>5. QED
  BY <1>1, <1>2, <1>3, <1>4 DEF NewestBecomes, n

\* The newest complete run, 0 if there is none.
LEMMA NewestCompleteIs ==
    ASSUME TypeOK
    PROVE  /\ NewestComplete \in 0 .. Len(runs)
           /\ NewestComplete # 0 => runs[NewestComplete].state = "complete"
           /\ \A i \in DOMAIN runs : i > NewestComplete => runs[i].state # "complete"
<1> DEFINE done == {i \in DOMAIN runs : runs[i].state = "complete"}
<1>1. Len(runs) \in Nat /\ DOMAIN runs = 1 .. Len(runs) /\ done \in SUBSET (0 .. Len(runs))
  BY RunsTyped
<1>2. CASE done = {}
  BY <1>1, <1>2 DEF NewestComplete
<1>3. CASE done # {}
  <2>1. NewestComplete = Max(done)
    BY <1>3 DEF NewestComplete
  <2>2. Max(done) \in done /\ \A y \in done : y <= Max(done)
    BY <1>1, <1>3, MaxIsGreatest
  <2>3. \A i \in DOMAIN runs : i > NewestComplete => i \notin done
    <3>1. NewestComplete \in Int /\ \A y \in done : y <= NewestComplete
      BY <1>1, <2>1, <2>2
    <3>2. \A i \in DOMAIN runs : i \in Int
      BY <1>1
    <3> HIDE DEF done
    <3>3. QED
      BY <3>1, <3>2
  <2>4. QED
    BY <1>1, <2>1, <2>2, <2>3
<1>4. QED
  BY <1>2, <1>3

\* Recovery interrupts an abandoned run, and then nothing is running.
LEMMA RecoveredRuns ==
    ASSUME TypeOK, runs' = Recovered
    PROVE  (runs' = runs \/ NewestBecomes("running", "interrupted")) /\ ~LastIs("running")'
<1>1. CASE LastIs("running")
  <2>1. runs # <<>> /\ runs[Len(runs)].state = "running"
        /\ runs' = [runs EXCEPT ![Len(runs)].state = "interrupted"]
    BY <1>1 DEF Recovered, LastIs
  <2>2. NewestBecomes("running", "interrupted")
    BY <2>1, UpdateNewest DEF RunStates
  <2>3. QED
    BY <2>2 DEF NewestBecomes, LastIs
<1>2. CASE ~LastIs("running")
  BY <1>2 DEF Recovered, LastIs
<1>3. QED
  BY <1>1, <1>2

-----------------------------------------------------------------------------
(* What the steps do to the processes.                                      *)

Counters == {"idle", "planned", "locked", "made", "ready", "copying", "archive",
             "archiving", "archived", "stages", "starting", "training"}

LEMMA IdleTyped == Idle \in Process /\ Idle.pc = "idle"
  BY DEF Idle, Process

\* A process is a record whose request has as many stages as it says.
LEMMA ProcessTyped ==
    ASSUME TypeOK, NEW p \in Procs
    PROVE  /\ proc \in [Procs -> Process] /\ proc[p] \in Process
           /\ proc[p].req \in SUBSET Stages /\ proc[p].start \in 0..MaxRuns
           /\ proc[p].idx \in 1..(NumStages + 1) /\ proc[p].pc \in Counters
           /\ Cardinality(proc[p].req) \in 0..NumStages
<1>1. proc \in [Procs -> Process] /\ proc[p] \in Process
  BY DEF TypeOK
<1>2. proc[p].req \in SUBSET Stages /\ proc[p].start \in 0..MaxRuns
      /\ proc[p].idx \in 1..(NumStages + 1) /\ proc[p].pc \in Counters
  BY <1>1 DEF Process, Counters
<1>3. IsFiniteSet(1..NumStages) /\ Cardinality(1..NumStages) = NumStages
  BY FS_Interval
<1>4. Cardinality(proc[p].req) \in Nat /\ Cardinality(proc[p].req) <= NumStages
  BY <1>2, <1>3, FS_Subset, FS_CardinalityType
<1>5. QED
  BY <1>1, <1>2, <1>4

\* The stage of a loop iteration is one of the request's.
LEMMA CurrentStageTyped ==
    ASSUME TypeOK, NEW p \in Procs, InLoop(p)
    PROVE  CurrentStage(p) \in Stages /\ CurrentStage(p) \in proc[p].req
<1>1. proc[p].req \in SUBSET Stages /\ proc[p].idx \in 1..Cardinality(proc[p].req)
  BY ProcessTyped DEF InLoop
<1>2. QED
  BY <1>1, StageAtExists DEF CurrentStage

\* p becomes r.
Becomes(p, r) == proc' = [proc EXCEPT ![p] = r]

Outside(r) == r.pc \in {"idle", "planned"}

\* A process that does not hold the lock changes nothing but itself.
Waits(p, r) ==
    /\ Becomes(p, r) /\ Outside(proc[p]) /\ Outside(r)
    /\ UNCHANGED <<lock, durable>>

Locks(p, r) ==
    /\ Becomes(p, r) /\ Outside(proc[p]) /\ r.pc = "locked"
    /\ lock = NoProc /\ lock' = p /\ UNCHANGED durable

RunsStep == runs' = runs \/ NewestChanges \/ RunAdded

\* The holder goes on: from "stages" nothing runs, and so forth.
Works(p, r) ==
    /\ Becomes(p, r) /\ ~Outside(proc[p]) /\ ~Outside(r)
    /\ lock' = lock /\ RunsStep
    /\ r.pc = "stages" => ~LastIs("running")'
    /\ r.pc = "starting" => LastIs("planned")' /\ r.idx <= Cardinality(r.req)
    /\ r.pc = "training" => LastIs("running")' /\ r.idx <= Cardinality(r.req)

\* The holder is done or dead.
Leaves(p, r) ==
    /\ Becomes(p, r) /\ ~Outside(proc[p]) /\ r = Idle
    /\ lock' = NoProc /\ RunsStep

Moves(p) == \E r \in Process : Waits(p, r) \/ Locks(p, r) \/ Works(p, r) \/ Leaves(p, r)

LEMMA PlanMoves ==
    ASSUME TypeOK, NEW p \in Procs, NEW audit \in AuditChoices, Plan(p, audit)
    PROVE  Moves(p)
<1> DEFINE req == IF model = "absent" THEN Stages ELSE Remaining
           r == [Idle EXCEPT !.pc = "planned", !.req = req, !.audit = audit]
<1>1. proc' = [proc EXCEPT ![p] = r] /\ proc[p].pc = "idle" /\ UNCHANGED <<lock, durable>>
  BY DEF Plan, At
<1>2. r \in Process /\ r.pc = "planned"
  <2>1. req \in SUBSET Stages /\ audit \in BOOLEAN
    BY DEF Remaining
  <2> HIDE DEF req
  <2>2. Idle \in Process
    BY IdleTyped
  <2>3. \A q \in Process, R \in SUBSET Stages, b \in BOOLEAN :
           /\ [q EXCEPT !.pc = "planned", !.req = R, !.audit = b] \in Process
           /\ [q EXCEPT !.pc = "planned", !.req = R, !.audit = b].pc = "planned"
    BY DEF Process
  <2>4. QED
    BY <2>1, <2>2, <2>3
<1> HIDE DEF r
<1>3. Waits(p, r)
  BY <1>1, <1>2 DEF Waits, Becomes, Outside
<1>4. QED
  BY <1>2, <1>3 DEF Moves

LEMMA LockMoves ==
    ASSUME TypeOK, NEW p \in Procs, Lock(p) \/ LockBusy(p)
    PROVE  Moves(p)
<1>1. proc[p] \in Process
  BY ProcessTyped
<1>2. CASE Lock(p)
  <2> DEFINE r == [proc[p] EXCEPT !.pc = "locked"]
  <2>1. r \in Process /\ r.pc = "locked"
    BY <1>1 DEF Process
  <2>2. proc' = [proc EXCEPT ![p] = r]
    BY <1>2, ProcessTyped DEF Lock, Goto
  <2> HIDE DEF r
  <2>3. Locks(p, r)
    BY <1>2, <2>1, <2>2 DEF Lock, Locks, Becomes, Outside, At
  <2>4. QED
    BY <2>1, <2>3 DEF Moves
<1>3. CASE LockBusy(p)
  <2>1. Waits(p, Idle)
    BY <1>3, IdleTyped DEF LockBusy, Waits, Becomes, Outside, At
  <2>2. QED
    BY <2>1, IdleTyped DEF Moves
<1>4. QED
  BY <1>2, <1>3

\* Where a transaction starts is within the history.
LEMMA StartTyped ==
    ASSUME TypeOK, NEW p \in Procs
    PROVE  StartOf(Recovered, proc[p].req) \in 0..MaxRuns
<1> DEFINE h == Recovered
           starts == RecoverableStarts(h, proc[p].req)
<1>1. Len(h) = Len(runs) /\ Len(h) \in Nat /\ Len(h) <= MaxRuns
  <2>1. Len(runs) \in Nat /\ Len(runs) <= MaxRuns /\ runs \in Seq(Run)
    BY RunsTyped
  <2>2. Len([runs EXCEPT ![Len(runs)].state = "interrupted"]) = Len(runs)
    BY <2>1
  <2>3. QED
    BY <2>1, <2>2 DEF Recovered
<1> HIDE DEF h
<1>2. starts \in SUBSET (0..Len(h))
  <2>1. \A k \in 1..Cardinality(proc[p].req) : k <= Len(h) => Len(h) - k \in 0..Len(h)
    BY <1>1, ProcessTyped
  <2>2. QED
    BY <2>1 DEF RecoverableStarts
<1>3. starts # {} => Min(starts) \in starts
  <2>1. starts \in SUBSET Nat
    BY <1>1, <1>2
  <2> HIDE DEF starts
  <2>2. QED
    BY <2>1, MinIsLeast
<1>4. QED
  BY <1>1, <1>2, <1>3 DEF StartOf, h

\* Whoever changes the program counter of p only.
LEMMA GotoMoves ==
    ASSUME TypeOK, NEW p \in Procs, NEW c \in Counters, Goto(p, c), ~Outside(proc[p]),
           c \notin {"idle", "planned"}, lock' = lock, RunsStep,
           c = "stages" => ~LastIs("running")',
           c = "starting" => LastIs("planned")' /\ proc[p].idx <= Cardinality(proc[p].req),
           c = "training" => LastIs("running")' /\ proc[p].idx <= Cardinality(proc[p].req)
    PROVE  Moves(p)
<1> DEFINE r == [proc[p] EXCEPT !.pc = c]
<1>1. proc[p] \in Process
  BY ProcessTyped
<1>2. r \in Process /\ r.pc = c /\ r.req = proc[p].req /\ r.idx = proc[p].idx
  BY <1>1 DEF Process, Counters
<1>3. proc' = [proc EXCEPT ![p] = r]
  BY ProcessTyped DEF Goto
<1> HIDE DEF r
<1>4. Works(p, r)
  BY <1>2, <1>3 DEF Works, Becomes, Outside
<1>5. QED
  BY <1>2, <1>4 DEF Moves

\* Whoever returns was at work, and leaves the history as RunsStep allows.
LEMMA ReturnMoves ==
    ASSUME TypeOK, NEW p \in Procs, Returns(p), ~Outside(proc[p]), RunsStep
    PROVE  Moves(p)
<1>1. Leaves(p, Idle)
  BY DEF Returns, Leaves, Becomes
<1>2. QED
  BY <1>1, IdleTyped DEF Moves

LEMMA OpenMoves ==
    ASSUME TypeOK, NEW p \in Procs, OpenTransaction(p)
    PROVE  Moves(p)
<1>1. proc[p] \in Process /\ proc[p].start \in 0..MaxRuns
  BY ProcessTyped
<1>2. \A c \in {"ready", "made"}, n \in 0..MaxRuns :
         proc' = [proc EXCEPT ![p].pc = c, ![p].start = n] /\ ~Outside(proc[p]) /\ lock' = lock /\ RunsStep
         => Moves(p)
  <2> TAKE c \in {"ready", "made"}, n \in 0..MaxRuns
  <2> HAVE proc' = [proc EXCEPT ![p].pc = c, ![p].start = n] /\ ~Outside(proc[p]) /\ lock' = lock /\ RunsStep
  <2> DEFINE r == [proc[p] EXCEPT !.pc = c, !.start = n]
  <2>1. r \in Process /\ r.pc = c
    BY <1>1 DEF Process
  <2>2. proc' = [proc EXCEPT ![p] = r]
    BY ProcessTyped
  <2> HIDE DEF r
  <2>3. Works(p, r)
    BY <2>1, <2>2 DEF Works, Becomes, Outside
  <2>4. QED
    BY <2>1, <2>3 DEF Moves
<1>3. CASE TakeUp(p)
  <2>1. txn.start \in 0..MaxRuns
    BY DEF TypeOK, Transaction
  <2>2. proc' = [proc EXCEPT ![p].pc = "ready", ![p].start = txn.start] /\ ~Outside(proc[p])
        /\ lock' = lock /\ RunsStep
    BY <1>3 DEF TakeUp, At, Outside, durable, RunsStep
  <2>3. QED
    BY <1>2, <2>1, <2>2
<1>4. CASE OpenWorkspace(p)
  <2> DEFINE n == StartOf(Recovered, proc[p].req)
  <2>1. proc' = [proc EXCEPT ![p].pc = "made", ![p].start = n]
        /\ ~Outside(proc[p]) /\ lock' = lock /\ runs' = Recovered
    BY <1>4 DEF OpenWorkspace, At, Outside
  <2>2. RunsStep /\ n \in 0..MaxRuns
    BY <2>1, RecoveredRuns, StartTyped DEF RunsStep, NewestChanges
  <2> HIDE DEF n
  <2>3. QED
    BY <1>2, <2>1, <2>2
<1>5. CASE Refuse(p)
  <2>1. runs' = runs \/ runs' = Recovered
    BY <1>5 DEF Refuse
  <2>2. RunsStep
    BY <2>1, RecoveredRuns DEF RunsStep, NewestChanges
  <2>3. QED
    BY <1>5, <2>2, ReturnMoves DEF Refuse, At, Outside
<1>6. CASE WriteTransaction(p)
  BY <1>6, GotoMoves DEF WriteTransaction, At, Outside, Counters, RunsStep
<1>7. QED
  BY <1>3, <1>4, <1>5, <1>6 DEF OpenTransaction

LEMMA PrepareMoves ==
    ASSUME TypeOK, NEW p \in Procs, PrepareModel(p) \/ CopyFails(p) \/ Kill(p)
    PROVE  Moves(p)
<1>1. CASE Initialize(p) \/ CopyBase(p)
  <2>1. PICK c \in {"archive", "copying"} : Goto(p, c)
    BY <1>1 DEF Initialize, CopyBase
  <2>2. c \in Counters /\ ~Outside(proc[p]) /\ lock' = lock /\ RunsStep
    BY <1>1 DEF Initialize, CopyBase, At, Outside, Counters, RunsStep
  <2>3. QED
    BY <2>1, <2>2, GotoMoves
<1>2. CASE Archive(p) \/ ArchiveWritten(p)
  <2>1. PICK c \in {"archived", "archiving"} : Goto(p, c)
    BY <1>2 DEF Archive, ArchiveWritten
  <2>2. c \in Counters /\ ~Outside(proc[p]) /\ lock' = lock /\ RunsStep
    BY <1>2 DEF Archive, ArchiveWritten, At, Outside, Counters, RunsStep, durable
  <2>3. QED
    BY <2>1, <2>2, GotoMoves
<1>3. CASE Enter(p)
  <2>1. Goto(p, "stages") /\ ~Outside(proc[p]) /\ lock' = lock /\ runs' = Recovered /\ "stages" \in Counters
    BY <1>3 DEF Enter, At, Outside, Counters
  <2>2. RunsStep /\ ~LastIs("running")'
    BY <2>1, RecoveredRuns DEF RunsStep, NewestChanges
  <2>3. QED
    BY <2>1, <2>2, GotoMoves
<1>4. CASE Stuck(p) \/ CopyFails(p) \/ Kill(p)
  <2>1. Returns(p) /\ ~Outside(proc[p]) /\ runs' = runs
    BY <1>4 DEF Stuck, CopyFails, Kill, At, Outside, durable
  <2>2. QED
    BY <2>1, ReturnMoves DEF RunsStep
<1>5. QED
  BY <1>1, <1>2, <1>3, <1>4 DEF PrepareModel

LEMMA LoopMoves ==
    ASSUME TypeOK, RunOfProcess, NEW p \in Procs,
           SkipStage(p) \/ WrongRun(p) \/ DeadRun(p) \/ Finish(p)
    PROVE  Moves(p)
<1>1. At(p, "stages") /\ ~Outside(proc[p]) /\ ~LastIs("running") /\ runs' = runs
  BY DEF SkipStage, WrongRun, DeadRun, Finish, InLoop, At, Outside, RunOfProcess, durable
<1>2. CASE SkipStage(p)
  <2> DEFINE r == [proc[p] EXCEPT !.idx = proc[p].idx + 1]
  <2>1. proc[p] \in Process /\ proc[p].idx + 1 \in 1..(NumStages + 1)
    BY <1>2, ProcessTyped DEF SkipStage, InLoop
  <2>2. r \in Process /\ r.pc = proc[p].pc
    BY <2>1 DEF Process
  <2>3. proc' = [proc EXCEPT ![p] = r] /\ lock' = lock
    BY <1>2, ProcessTyped DEF SkipStage
  <2> HIDE DEF r
  <2>4. Works(p, r)
    BY <1>1, <2>2, <2>3 DEF Works, Becomes, Outside, RunsStep, At, LastIs
  <2>5. QED
    BY <2>2, <2>4 DEF Moves
<1>3. CASE WrongRun(p) \/ DeadRun(p) \/ Finish(p)
  <2>1. Returns(p) /\ RunsStep
    BY <1>1, <1>3 DEF WrongRun, DeadRun, Finish, RunsStep
  <2>2. QED
    BY <1>1, <2>1, ReturnMoves
<1>4. QED
  BY <1>2, <1>3

\* PlanRun adds a run of the current stage to a history in which nothing runs.
LEMMA PlanRunAdds ==
    ASSUME TypeOK, RunOfProcess, NEW p \in Procs, PlanRun(p)
    PROVE  /\ RunAdded /\ LastIs("planned")'
           /\ runs'[Len(runs) + 1].stage = CurrentStage(p)
           /\ runs'[Len(runs) + 1].audited = proc[p].audit
<1> DEFINE r == [stage |-> CurrentStage(p), state |-> "planned", ckpt |-> FALSE,
                 audited |-> proc[p].audit, init |-> NewestComplete]
<1>1. InLoop(p) /\ ~LastIs("running")
  BY DEF PlanRun, Trains, InLoop, RunOfProcess
<1>2. r \in Run
  <2>1. CurrentStage(p) \in Stages
    BY <1>1, CurrentStageTyped
  <2>2. NewestComplete \in 0..MaxRuns
    BY NewestCompleteIs, RunsTyped
  <2>3. proc[p].audit \in BOOLEAN
    BY ProcessTyped DEF Process
  <2>4. QED
    BY <2>1, <2>2, <2>3 DEF Run
<1>3. r.state = "planned" /\ r.init = NewestComplete /\ r.stage = CurrentStage(p) /\ r.audited = proc[p].audit
  OBVIOUS
<1> HIDE DEF r
<1>4. runs \in Seq(Run) /\ Len(runs) \in Nat /\ DOMAIN runs = 1 .. Len(runs) /\ Len(runs) < MaxRuns
      /\ runs' = Append(runs, r)
  BY RunsTyped DEF PlanRun, r
<1>5. runs' \in Seq(Run) /\ Len(runs') = Len(runs) + 1 /\ runs'[Len(runs) + 1] = r
      /\ \A i \in DOMAIN runs : runs'[i] = runs[i]
  BY <1>2, <1>4
<1>6. RunAdded
  BY <1>1, <1>3, <1>4, <1>5 DEF RunAdded
<1>7. LastIs("planned")'
  BY <1>3, <1>4, <1>5 DEF LastIs
<1>8. QED
  BY <1>3, <1>5, <1>6, <1>7

LEMMA PlanRunMoves ==
    ASSUME TypeOK, RunOfProcess, NEW p \in Procs, PlanRun(p)
    PROVE  Moves(p)
<1>1. InLoop(p) /\ ~Outside(proc[p]) /\ lock' = lock
  BY DEF PlanRun, Trains, InLoop, At, Outside
<1>2. Goto(p, "starting") /\ "starting" \in Counters /\ proc[p].idx <= Cardinality(proc[p].req)
  BY <1>1 DEF PlanRun, InLoop, Counters
<1>3. RunAdded /\ LastIs("planned")'
  BY PlanRunAdds
<1>4. QED
  BY <1>1, <1>2, <1>3, GotoMoves DEF RunsStep

\* A run is taken up, started, checkpointed or ended by the process training it.
LEMMA TrainMoves ==
    ASSUME TypeOK, RunOfProcess, StageInRequest, NEW p \in Procs,
           \/ ResumeRun(p) \/ StartRun(p) \/ Checkpoint(p) \/ CompleteRun(p)
           \/ \E b \in BOOLEAN : Interrupted(p, b) \/ Failed(p, b)
    PROVE  Moves(p)
<1>1. CASE ResumeRun(p)
  <2>1. runs # <<>> /\ runs[Len(runs)].state = "interrupted" /\ InLoop(p) /\ ~Outside(proc[p])
    BY <1>1 DEF ResumeRun, ResumableRun, LastIs, Trains, InLoop, At, Outside
  <2>2. NewestBecomes("interrupted", "running")
    BY <1>1, <2>1, UpdateNewest DEF ResumeRun, RunStates
  <2>3. RunsStep /\ LastIs("running")'
    BY <2>2 DEF RunsStep, NewestChanges, NewestBecomes, LastIs
  <2>4. QED
    BY <1>1, <2>1, <2>3, GotoMoves DEF ResumeRun, InLoop, Counters
<1>2. CASE StartRun(p)
  <2>1. runs # <<>> /\ runs[Len(runs)].state = "planned" /\ ~Outside(proc[p])
        /\ proc[p].idx <= Cardinality(proc[p].req)
    BY <1>2 DEF StartRun, RunOfProcess, StageInRequest, LastIs, At, Outside
  <2>2. NewestBecomes("planned", "running")
    BY <1>2, <2>1, UpdateNewest DEF StartRun, RunStates
  <2>3. RunsStep /\ LastIs("running")'
    BY <2>2 DEF RunsStep, NewestChanges, NewestBecomes, LastIs
  <2>4. QED
    BY <1>2, <2>1, <2>3, GotoMoves DEF StartRun, Counters
<1>3. CASE At(p, "training")
  <2>1. runs # <<>> /\ runs[Len(runs)].state = "running" /\ ~Outside(proc[p])
        /\ proc[p].idx <= Cardinality(proc[p].req)
    BY <1>3 DEF RunOfProcess, StageInRequest, LastIs, At, Outside
  <2>2. CASE Checkpoint(p)
    <3>1. NewestBecomes("running", "running")
      BY <2>1, <2>2, UpdateNewest DEF Checkpoint, RunStates
    <3>2. RunsStep /\ LastIs("running")'
      BY <3>1 DEF RunsStep, NewestChanges, NewestBecomes, LastIs
    <3>3. proc[p] \in Process /\ proc' = [proc EXCEPT ![p] = proc[p]] /\ lock' = lock
      BY <2>2, ProcessTyped DEF Checkpoint
    <3>4. Works(p, proc[p])
      BY <2>1, <3>2, <3>3, <1>3 DEF Works, Becomes, Outside, At
    <3>5. QED
      BY <3>3, <3>4 DEF Moves
  <2>3. CASE CompleteRun(p)
    <3> DEFINE r == [proc[p] EXCEPT !.pc = "stages", !.idx = proc[p].idx + 1]
    <3>1. NewestBecomes("running", "complete")
      BY <2>1, <2>3, UpdateNewest DEF CompleteRun, RunStates
    <3>2. RunsStep /\ ~LastIs("running")'
      BY <3>1 DEF RunsStep, NewestChanges, NewestBecomes, LastIs
    <3>3. proc[p] \in Process /\ proc[p].idx + 1 \in 1..(NumStages + 1)
      BY <2>1, ProcessTyped
    <3>4. r \in Process /\ r.pc = "stages"
      BY <3>3 DEF Process
    <3>5. proc' = [proc EXCEPT ![p] = r] /\ lock' = lock
      BY <2>3, ProcessTyped DEF CompleteRun
    <3> HIDE DEF r
    <3>6. Works(p, r)
      BY <2>1, <3>2, <3>4, <3>5 DEF Works, Becomes, Outside
    <3>7. QED
      BY <3>4, <3>6 DEF Moves
  <2>4. CASE \E b \in BOOLEAN : Interrupted(p, b) \/ Failed(p, b)
    <3>1. PICK s \in {"interrupted", "failed"} : runs' = [runs EXCEPT ![Len(runs)].state = s]
      BY <2>4 DEF Interrupted, Failed
    <3>2. NewestBecomes("running", s)
      BY <2>1, <3>1, UpdateNewest DEF RunStates
    <3>3. RunsStep
      BY <3>1, <3>2 DEF RunsStep, NewestChanges
    <3>4. Returns(p)
      BY <2>4 DEF Interrupted, Failed
    <3>5. QED
      BY <2>1, <3>3, <3>4, ReturnMoves
  <2>5. QED
    BY <2>2, <2>3, <2>4, <1>3 DEF ResumeRun, StartRun, Trains, InLoop, At
<1>4. QED
  BY <1>1, <1>2, <1>3 DEF Checkpoint, CompleteRun, Interrupted, Failed

\* Every step is the move of one process.
LEMMA StepMoves ==
    ASSUME TypeOK, RunOfProcess, StageInRequest, [Next]_vars
    PROVE  UNCHANGED vars \/ \E p \in Procs : Moves(p)
<1> SUFFICES ASSUME NEW p \in Procs,
                    \/ \E audit \in AuditChoices : Plan(p, audit)
                    \/ Lock(p) \/ LockBusy(p) \/ Compose(p) \/ Checkpoint(p)
                    \/ \E b \in BOOLEAN : Interrupted(p, b) \/ Failed(p, b)
                    \/ CopyFails(p) \/ Kill(p)
             PROVE  Moves(p)
  BY DEF Next
<1>1. CASE \E audit \in AuditChoices : Plan(p, audit)
  BY <1>1, PlanMoves
<1>2. CASE Lock(p) \/ LockBusy(p)
  BY <1>2, LockMoves
<1>3. CASE OpenTransaction(p)
  BY <1>3, OpenMoves
<1>4. CASE PrepareModel(p) \/ CopyFails(p) \/ Kill(p)
  BY <1>4, PrepareMoves
<1>5. CASE StageStep(p)
  BY <1>5, LoopMoves, PlanRunMoves, TrainMoves DEF StageStep
<1>6. CASE Checkpoint(p) \/ \E b \in BOOLEAN : Interrupted(p, b) \/ Failed(p, b)
  BY <1>6, TrainMoves
<1>7. QED
  BY <1>1, <1>2, <1>3, <1>4, <1>5, <1>6 DEF Compose

-----------------------------------------------------------------------------
(* Each conjunct of the invariant is kept by every step.                    *)

\* The rest of the processes stays as it is.
LEMMA OthersStay ==
    ASSUME TypeOK, NEW p \in Procs, NEW r \in Process, Becomes(p, r)
    PROVE  /\ proc' \in [Procs -> Process] /\ proc'[p] = r
           /\ \A q \in Procs : q # p => proc'[q] = proc[q]
  BY DEF TypeOK, Becomes

\* Only the holder changes the history.
LEMMA MoveKinds ==
    ASSUME TypeOK, HolderOnly, NEW p \in Procs, Moves(p)
    PROVE  \E r \in Process :
             /\ Waits(p, r) \/ Locks(p, r) \/ Works(p, r) \/ Leaves(p, r)
             /\ proc' \in [Procs -> Process] /\ proc'[p] = r
             /\ \A q \in Procs : q # p => proc'[q] = proc[q]
             /\ runs' # runs => \A q \in Procs : q # p => Outside(proc[q])
<1>1. PICK r \in Process : Waits(p, r) \/ Locks(p, r) \/ Works(p, r) \/ Leaves(p, r)
  BY DEF Moves
<1>2. Becomes(p, r)
  BY <1>1 DEF Waits, Locks, Works, Leaves
<1>3. runs' # runs => ~Outside(proc[p])
  BY <1>1 DEF Waits, Locks, Works, Leaves, durable
<1>4. runs' # runs => \A q \in Procs : q # p => Outside(proc[q])
  BY <1>3 DEF HolderOnly, Outside
<1>5. QED
  BY <1>1, <1>2, <1>4, OthersStay

LEMMA HolderStep == IInv /\ [Next]_vars => HolderOnly'
<1> SUFFICES ASSUME IInv, [Next]_vars PROVE HolderOnly'
  OBVIOUS
<1>0. TypeOK /\ HolderOnly /\ RunOfProcess /\ StageInRequest
  BY DEF IInv
<1>1. CASE UNCHANGED vars
  BY <1>0, <1>1 DEF HolderOnly, vars
<1>2. ASSUME NEW p \in Procs, Moves(p) PROVE HolderOnly'
  <2>1. PICK r \in Process :
             /\ Waits(p, r) \/ Locks(p, r) \/ Works(p, r) \/ Leaves(p, r)
             /\ proc'[p] = r /\ \A q \in Procs : q # p => proc'[q] = proc[q]
    BY <1>0, <1>2, MoveKinds
  <2> SUFFICES ASSUME NEW q \in Procs, proc'[q].pc \notin {"idle", "planned"} PROVE lock' = q
    BY DEF HolderOnly
  <2>2. CASE Waits(p, r)
    BY <1>0, <2>1, <2>2 DEF Waits, HolderOnly, Outside
  <2>3. CASE Locks(p, r)
    BY <1>0, <2>1, <2>3 DEF Locks, HolderOnly
  <2>4. CASE Works(p, r)
    BY <1>0, <2>1, <2>4 DEF Works, HolderOnly, Outside
  <2>5. CASE Leaves(p, r)
    BY <1>0, <2>1, <2>5, IdleTyped DEF Leaves, HolderOnly, Outside
  <2>6. QED
    BY <2>1, <2>2, <2>3, <2>4, <2>5
<1>3. QED
  BY <1>0, <1>1, <1>2, StepMoves

LEMMA RunOfProcessStep == IInv /\ [Next]_vars => RunOfProcess' /\ StageInRequest'
<1> SUFFICES ASSUME IInv, [Next]_vars PROVE RunOfProcess' /\ StageInRequest'
  OBVIOUS
<1>0. TypeOK /\ HolderOnly /\ RunOfProcess /\ StageInRequest
  BY DEF IInv
<1> DEFINE Fits(r) == /\ r.pc = "stages" => ~LastIs("running")'
                      /\ r.pc = "starting" => LastIs("planned")' /\ r.idx <= Cardinality(r.req)
                      /\ r.pc = "training" => LastIs("running")' /\ r.idx <= Cardinality(r.req)
<1> SUFFICES \A q \in Procs : Fits(proc'[q])
  BY DEF RunOfProcess, StageInRequest, At
<1>1. CASE UNCHANGED vars
  BY <1>0, <1>1 DEF RunOfProcess, StageInRequest, LastIs, At, vars, durable
<1>2. ASSUME NEW p \in Procs, Moves(p) PROVE \A q \in Procs : Fits(proc'[q])
  <2>1. PICK r \in Process :
             /\ Waits(p, r) \/ Locks(p, r) \/ Works(p, r) \/ Leaves(p, r)
             /\ proc'[p] = r /\ \A q \in Procs : q # p => proc'[q] = proc[q]
             /\ runs' # runs => \A q \in Procs : q # p => Outside(proc[q])
    BY <1>0, <1>2, MoveKinds
  <2>2. Fits(r)
    BY <2>1, IdleTyped DEF Waits, Locks, Works, Leaves, Outside
  <2>3. \A q \in Procs : q # p => Fits(proc'[q])
    <3> TAKE q \in Procs
    <3> HAVE q # p
    <3>1. proc'[q] = proc[q]
      BY <2>1
    <3>2. CASE runs' = runs
      BY <1>0, <3>1, <3>2 DEF RunOfProcess, StageInRequest, LastIs, At
    <3>3. CASE runs' # runs
      BY <2>1, <3>1, <3>3 DEF Outside
    <3>4. QED
      BY <3>2, <3>3
  <2>4. QED
    BY <2>1, <2>2, <2>3
<1>3. QED
  BY <1>0, <1>1, <1>2, StepMoves

\* What a step may do to the history, whoever takes it.
LEMMA RunsChange == IInv /\ [Next]_vars => RunsStep
<1> SUFFICES ASSUME IInv, [Next]_vars PROVE RunsStep
  OBVIOUS
<1>0. TypeOK /\ HolderOnly /\ RunOfProcess /\ StageInRequest
  BY DEF IInv
<1>1. CASE UNCHANGED vars
  BY <1>1 DEF vars, durable, RunsStep
<1>2. ASSUME NEW p \in Procs, Moves(p) PROVE RunsStep
  BY <1>2 DEF Moves, Waits, Locks, Works, Leaves, durable, RunsStep
<1>3. QED
  BY <1>0, <1>1, <1>2, StepMoves

LEMMA HistoryStep == IInv /\ [Next]_vars => NewestRuns' /\ LineageIntact'
<1> SUFFICES ASSUME IInv, [Next]_vars PROVE NewestRuns' /\ LineageIntact'
  OBVIOUS
<1>0. TypeOK /\ NewestRuns /\ LineageIntact /\ RunsStep
  BY RunsChange DEF IInv
<1>t. /\ runs \in Seq(Run) /\ Len(runs) \in Nat /\ DOMAIN runs = 1 .. Len(runs)
      /\ \A i \in DOMAIN runs : runs[i].init \in Nat
  BY <1>0, RunsTyped
<1>1. CASE runs' = runs
  BY <1>0, <1>1 DEF NewestRuns, LineageIntact
<1>2. CASE NewestChanges
  <2>1. /\ runs # <<>> /\ Len(runs') = Len(runs) /\ DOMAIN runs' = DOMAIN runs
        /\ runs[Len(runs)].state # "complete"
        /\ runs'[Len(runs)].init = runs[Len(runs)].init
        /\ \A i \in DOMAIN runs : i < Len(runs) => runs'[i] = runs[i]
    BY <1>2 DEF NewestChanges, NewestBecomes
  <2>2. NewestRuns'
    BY <1>0, <1>t, <2>1 DEF NewestRuns
  <2>3. LineageIntact'
    <3> SUFFICES ASSUME NEW j \in DOMAIN runs
                 PROVE  /\ runs'[j].init < j
                        /\ runs'[j].init # 0 => runs'[runs'[j].init].state = "complete"
                        /\ \A i \in (runs'[j].init + 1)..(j - 1) : runs'[i].state # "complete"
      BY <2>1 DEF LineageIntact
    <3>1. runs'[j].init = runs[j].init /\ runs[j].init \in Nat /\ runs[j].init < j /\ j \in 1..Len(runs)
      BY <1>0, <1>t, <2>1 DEF LineageIntact
    <3>2. \A i \in 1..(j - 1) : i \in DOMAIN runs /\ runs'[i] = runs[i]
      BY <1>t, <2>1, <3>1
    <3>3. runs[j].init # 0 => runs[j].init \in 1..(j - 1)
      BY <3>1
    <3>4. \A i \in (runs[j].init + 1)..(j - 1) : i \in 1..(j - 1)
      BY <3>1
    <3>5. QED
      BY <1>0, <3>1, <3>2, <3>3, <3>4 DEF LineageIntact
  <2>4. QED
    BY <2>2, <2>3
<1>3. CASE RunAdded
  <2>1. /\ runs' \in Seq(Run) /\ Len(runs') = Len(runs) + 1
        /\ \A i \in DOMAIN runs : runs'[i] = runs[i]
        /\ runs'[Len(runs) + 1].init = NewestComplete
        /\ DOMAIN runs' = 1 .. Len(runs) + 1
    BY <1>t, <1>3 DEF RunAdded
  <2>2. NewestRuns'
    <3>1. \A i \in DOMAIN runs : runs[i].state # "running"
      BY <1>0, <1>3, <1>t DEF RunAdded, NewestRuns, LastIs
    <3>2. QED
      BY <1>t, <2>1, <3>1 DEF NewestRuns
  <2>3. LineageIntact'
    <3> SUFFICES ASSUME NEW j \in 1 .. Len(runs) + 1
                 PROVE  /\ runs'[j].init < j
                        /\ runs'[j].init # 0 => runs'[runs'[j].init].state = "complete"
                        /\ \A i \in (runs'[j].init + 1)..(j - 1) : runs'[i].state # "complete"
      BY <2>1 DEF LineageIntact
    <3>1. CASE j \in DOMAIN runs
      <4>1. runs'[j].init = runs[j].init /\ runs[j].init \in Nat /\ runs[j].init < j
        BY <1>0, <1>t, <2>1, <3>1 DEF LineageIntact
      <4>2. \A i \in 1..(j - 1) : i \in DOMAIN runs /\ runs'[i] = runs[i]
        BY <1>t, <2>1, <3>1
      <4>3. runs[j].init # 0 => runs[j].init \in 1..(j - 1)
        BY <4>1
      <4>4. \A i \in (runs[j].init + 1)..(j - 1) : i \in 1..(j - 1)
        BY <4>1
      <4>5. QED
        BY <1>0, <3>1, <4>1, <4>2, <4>3, <4>4 DEF LineageIntact
    <3>2. CASE j = Len(runs) + 1
      <4>1. /\ NewestComplete \in 0 .. Len(runs)
            /\ NewestComplete # 0 => runs[NewestComplete].state = "complete"
            /\ \A i \in DOMAIN runs : i > NewestComplete => runs[i].state # "complete"
        BY <1>0, NewestCompleteIs
      <4>2. NewestComplete # 0 => NewestComplete \in DOMAIN runs
        BY <1>t, <4>1
      <4>3. \A i \in (NewestComplete + 1)..Len(runs) : i \in DOMAIN runs /\ i > NewestComplete
        BY <1>t, <4>1
      <4>4. runs'[j].init = NewestComplete /\ j - 1 = Len(runs) /\ NewestComplete < j
        BY <1>t, <2>1, <3>2, <4>1
      <4>5. QED
        BY <2>1, <4>1, <4>2, <4>3, <4>4
    <3>3. QED
      BY <1>t, <3>1, <3>2
  <2>4. QED
    BY <2>2, <2>3
<1>4. QED
  BY <1>0, <1>1, <1>2, <1>3 DEF RunsStep

LEMMA TransactionTyped ==
    /\ \A n \in 0..MaxRuns, S \in SUBSET Stages : [start |-> n, stages |-> S] \in Transaction
    /\ NoTxn \in Transaction
  BY DEF Transaction, NoTxn

LEMMA TypeStep == IInv /\ [Next]_vars => TypeOK'
<1> SUFFICES ASSUME IInv, [Next]_vars PROVE TypeOK'
  OBVIOUS
<1>0. TypeOK /\ HolderOnly /\ RunOfProcess /\ StageInRequest /\ RunsStep
  BY RunsChange DEF IInv
<1>1. CASE UNCHANGED vars
  BY <1>0, <1>1 DEF TypeOK, vars, durable
<1>2. runs' \in Seq(Run) /\ Len(runs') <= MaxRuns
  <2>1. runs \in Seq(Run) /\ Len(runs) \in Nat /\ Len(runs) <= MaxRuns
    BY <1>0, RunsTyped
  <2>2. CASE RunAdded
    BY <2>1, <2>2 DEF RunAdded
  <2>3. CASE NewestChanges
    BY <2>1, <2>3 DEF NewestChanges, NewestBecomes
  <2>4. QED
    BY <1>0, <2>1, <2>2, <2>3 DEF RunsStep
<1>3. ASSUME NEW p \in Procs, Moves(p)
      PROVE  lock' \in Procs \cup {NoProc} /\ proc' \in [Procs -> Process]
  <2>1. lock \in Procs \cup {NoProc}
    BY <1>0 DEF TypeOK
  <2>2. PICK r \in Process : /\ Waits(p, r) \/ Locks(p, r) \/ Works(p, r) \/ Leaves(p, r)
                             /\ proc' \in [Procs -> Process]
    BY <1>0, <1>3, MoveKinds
  <2>3. QED
    BY <2>1, <2>2 DEF Waits, Locks, Works, Leaves
<1>4. txn \in Transaction /\ bare \subseteq Transaction /\ model \in {"absent", "partial", "ready"}
      /\ archived \in SUBSET (SUBSET Stages) /\ torn \in BOOLEAN /\ faults \in 0..MaxFaults
  BY <1>0 DEF TypeOK
<1>5. ASSUME NEW p \in Procs, ~(UNCHANGED vars),
             \/ \E audit \in AuditChoices : Plan(p, audit)
             \/ Lock(p) \/ LockBusy(p) \/ Compose(p) \/ Checkpoint(p)
             \/ \E b \in BOOLEAN : Interrupted(p, b) \/ Failed(p, b)
             \/ CopyFails(p) \/ Kill(p)
      PROVE  /\ txn' \in Transaction /\ bare' \subseteq Transaction
             /\ model' \in {"absent", "partial", "ready"}
             /\ archived' \in SUBSET (SUBSET Stages) /\ torn' \in BOOLEAN /\ faults' \in 0..MaxFaults
  <2>1. proc[p].req \in SUBSET Stages /\ proc[p].start \in 0..MaxRuns
    BY <1>0, ProcessTyped
  <2>2. CASE \/ \E audit \in AuditChoices : Plan(p, audit)
             \/ Lock(p) \/ LockBusy(p) \/ TakeUp(p)
    BY <1>4, <2>2 DEF Plan, Lock, LockBusy, TakeUp, durable
  <2>3. CASE OpenWorkspace(p)
    <3>1. PICK n \in 0..MaxRuns : bare' = bare \cup {[start |-> n, stages |-> proc[p].req]}
      BY <1>0, <2>3, StartTyped DEF OpenWorkspace
    <3>2. bare' \subseteq Transaction
      BY <1>4, <2>1, <3>1, TransactionTyped
    <3>3. QED
      BY <1>4, <2>3, <3>2 DEF OpenWorkspace
  <2>4. CASE WriteTransaction(p)
    <3>1. txn' \in Transaction /\ bare' \subseteq bare
      BY <2>1, <2>4, TransactionTyped DEF WriteTransaction
    <3>2. QED
      BY <1>4, <2>4, <3>1 DEF WriteTransaction
  <2>5. CASE Refuse(p)
    BY <1>4, <2>5 DEF Refuse
  <2>6. CASE PrepareModel(p)
    <3>1. CASE Initialize(p) \/ CopyBase(p)
      BY <1>4, <3>1 DEF Initialize, CopyBase
    <3>2. CASE ArchiveWritten(p)
      BY <1>4, <2>1, <3>2 DEF ArchiveWritten
    <3>3. CASE Archive(p) \/ Enter(p) \/ Stuck(p)
      BY <1>4, <3>3 DEF Archive, Enter, Stuck, durable
    <3>4. QED
      BY <2>6, <3>1, <3>2, <3>3 DEF PrepareModel
  <2>7. CASE StageStep(p)
    <3>1. CASE SkipStage(p) \/ WrongRun(p) \/ ResumeRun(p) \/ PlanRun(p) \/ StartRun(p) \/ CompleteRun(p)
      BY <1>4, <3>1 DEF SkipStage, WrongRun, ResumeRun, PlanRun, StartRun, CompleteRun, durable
    <3>2. CASE DeadRun(p) \/ Finish(p)
      <4>1. txn' \in Transaction
        BY <1>4, <3>2, TransactionTyped DEF DeadRun, Finish
      <4>2. QED
        BY <1>4, <3>2, <4>1 DEF DeadRun, Finish
    <3>3. QED
      BY <2>7, <3>1, <3>2 DEF StageStep
  <2>8. CASE Checkpoint(p)
    BY <1>4, <2>8 DEF Checkpoint
  <2>9. CASE (\E b \in BOOLEAN : Interrupted(p, b) \/ Failed(p, b)) \/ CopyFails(p) \/ Kill(p)
    <3>1. faults' \in 0..MaxFaults
      BY <1>4, <2>9 DEF Interrupted, Failed, CopyFails, Kill, Fault
    <3>2. txn' \in Transaction /\ torn' \in BOOLEAN
      BY <1>4, <2>9, TransactionTyped DEF Interrupted, Failed, CopyFails, Kill
    <3>3. QED
      BY <1>4, <2>9, <3>1, <3>2 DEF Interrupted, Failed, CopyFails, Kill
  <2>10. QED
    BY <1>5, <2>2, <2>3, <2>4, <2>5, <2>6, <2>7, <2>8, <2>9 DEF Compose, OpenTransaction
<1>6. CASE ~(UNCHANGED vars)
  <2>1. PICK p \in Procs : Moves(p)
    BY <1>0, <1>6, StepMoves
  <2>2. PICK q \in Procs : \/ \E audit \in AuditChoices : Plan(q, audit)
                           \/ Lock(q) \/ LockBusy(q) \/ Compose(q) \/ Checkpoint(q)
                           \/ \E b \in BOOLEAN : Interrupted(q, b) \/ Failed(q, b)
                           \/ CopyFails(q) \/ Kill(q)
    BY <1>6 DEF Next
  <2>3. QED
    BY <1>2, <1>3, <1>5, <1>6, <2>1, <2>2 DEF TypeOK
<1>7. QED
  BY <1>1, <1>6

-----------------------------------------------------------------------------
(* The theorems.                                                            *)

LEMMA IInvInit == Init => IInv
<1> SUFFICES ASSUME Init PROVE IInv
  OBVIOUS
<1>1. /\ lock = NoProc /\ txn = NoTxn /\ bare = {} /\ model = "absent" /\ archived = {}
      /\ torn = FALSE /\ runs = <<>> /\ proc = [p \in Procs |-> Idle] /\ faults = 0
  BY DEF Init
<1>2. proc \in [Procs -> Process] /\ \A p \in Procs : proc[p].pc = "idle"
  BY <1>1, IdleTyped
<1>3. runs \in Seq(Run) /\ Len(runs) = 0 /\ DOMAIN runs = {} /\ faults \in 0..MaxFaults
  BY <1>1
<1>4. TypeOK
  <2>1. txn \in Transaction /\ bare \subseteq Transaction /\ archived \in SUBSET (SUBSET Stages)
    BY <1>1, TransactionTyped
  <2>2. lock \in Procs \cup {NoProc} /\ model \in {"absent", "partial", "ready"} /\ torn \in BOOLEAN
    BY <1>1
  <2>3. Len(runs) <= MaxRuns
    BY <1>3
  <2>4. QED
    BY <1>2, <1>3, <2>1, <2>2, <2>3 DEF TypeOK
<1>5. HolderOnly /\ RunOfProcess /\ StageInRequest
  BY <1>2 DEF HolderOnly, RunOfProcess, StageInRequest, At
<1>6. NewestRuns /\ LineageIntact
  BY <1>3 DEF NewestRuns, LineageIntact
<1>7. QED
  BY <1>4, <1>5, <1>6 DEF IInv

LEMMA IInvStep == IInv /\ [Next]_vars => IInv'
  BY TypeStep, HolderStep, RunOfProcessStep, HistoryStep DEF IInv

\* The invariant all others follow from.
THEOREM ComposeInvariant == Spec => []IInv
<1>1. QED
  BY IInvInit, IInvStep, PTL DEF Spec

\* Every variable keeps its type: also the stage a process trains is always one
\* of its request, whatever other processes did in between.
THEOREM TypeCorrect == Spec => []TypeOK
<1>1. IInv => TypeOK
  BY DEF IInv
<1>2. QED
  BY <1>1, ComposeInvariant, PTL

\* However many processes run the command, one trains at a time, and the run it
\* trains is the newest (lockComposeTransaction, build.go).
THEOREM TrainingIsExclusive == Spec => []OneTrainer
<1>1. IInv => OneTrainer
  <2> SUFFICES ASSUME IInv PROVE OneTrainer
    OBVIOUS
  <2>0. TypeOK /\ HolderOnly /\ NewestRuns
    BY DEF IInv
  <2>1. \A p, q \in DOMAIN proc : At(p, "training") /\ At(q, "training") => p = q
    BY <2>0 DEF HolderOnly, At, TypeOK
  <2>2. \A i \in DOMAIN runs : runs[i].state = "running" => i = Len(runs)
    BY <2>0, RunsTyped DEF NewestRuns
  <2>3. QED
    BY <2>1, <2>2 DEF OneTrainer
<1>2. QED
  BY <1>1, ComposeInvariant, PTL

\* Every run continues the newest complete run before it, whoever planned and
\* whoever completed it (resolveInitialization, build.go).
THEOREM LineageIsIntact == Spec => []LineageIntact
<1>1. IInv => LineageIntact
  BY DEF IInv
<1>2. QED
  BY <1>1, ComposeInvariant, PTL

\* The history of a model is append-only: runs keep their stage and parent, and
\* what has ended stays as it ended (docs/MODEL-LIFECYCLE.md:3).
THEOREM HistoryIsAppendOnly == Spec => HistoryAppendOnly
<1> DEFINE Appends == /\ Len(runs) <= Len(runs')
                      /\ \A i \in DOMAIN runs :
                           /\ runs[i].stage = runs'[i].stage
                           /\ runs[i].init = runs'[i].init
                           /\ runs[i].state \in {"complete", "failed"} => runs'[i] = runs[i]
<1>1. IInv /\ [Next]_vars => [Appends]_vars
  <2> SUFFICES ASSUME IInv, [Next]_vars PROVE Appends
    OBVIOUS
  <2>0. RunsStep /\ Len(runs) \in Nat /\ DOMAIN runs = 1 .. Len(runs)
    BY RunsChange, RunsTyped DEF IInv
  <2>1. CASE runs' = runs
    BY <2>0, <2>1
  <2>2. CASE RunAdded
    BY <2>0, <2>2 DEF RunAdded
  <2>3. CASE NewestChanges
    <3>1. Len(runs') = Len(runs)
      BY <2>3 DEF NewestChanges, NewestBecomes
    <3>2. ASSUME NEW i \in DOMAIN runs
          PROVE  /\ runs[i].stage = runs'[i].stage
                 /\ runs[i].init = runs'[i].init
                 /\ runs[i].state \in {"complete", "failed"} => runs'[i] = runs[i]
      <4>1. CASE i = Len(runs)
        BY <2>3, <4>1 DEF NewestChanges, NewestBecomes
      <4>2. CASE i < Len(runs)
        BY <2>3, <4>2 DEF NewestChanges, NewestBecomes
      <4>3. QED
        BY <2>0, <4>1, <4>2
    <3>3. QED
      BY <2>0, <3>1, <3>2
  <2>4. QED
    BY <2>0, <2>1, <2>2, <2>3 DEF RunsStep
<1>2. QED
  BY <1>1, ComposeInvariant, PTL DEF Spec, HistoryAppendOnly

-----------------------------------------------------------------------------
(* One process after another.                                               *)

\* The stages that are complete among the first n runs of h.
Trained(h, n) == {h[i].stage : i \in {j \in 1..n : h[j].state = "complete"}}

\* What an invocation may assume about the history h of a model whose open
\* transaction starts after its first s runs, when stages 1 .. k are trained:
\* one run for each following stage, all but the newest complete.
Continues(h, s, k) ==
    /\ s <= Len(h) /\ Len(h) <= s + (NumStages - k)
    /\ Trained(h, s) = 1..k
    /\ \A i \in (s + 1)..Len(h) : h[i].stage = k + (i - s) /\ (i < Len(h) => h[i].state = "complete")

TransactionOK ==
    txn # NoTxn => \E k \in 0..(NumStages - 1) : /\ txn.stages = (k + 1)..NumStages
                                                 /\ Continues(runs, txn.start, k)

\* Without a transaction the trained stages are the first ones.
CompletedPrefix == txn = NoTxn => \E k \in 0..NumStages : CompletedAmong(Len(runs)) = 1..k

\* A run that is not over is the newest and belongs to the transaction.
OnlyNewest ==
    \A i \in DOMAIN runs :
        runs[i].state \in {"running", "interrupted"} => i = Len(runs) /\ txn # NoTxn /\ txn.start < i

AuditSame == \A i \in DOMAIN runs : runs[i].audited \in AuditChoices

NoRunsBefore == model # "ready" => runs = <<>>

Planning == {"planned", "locked", "made"}

InStages == {"stages", "starting", "training"}

\* What the process r knows is still so.
Knows(r) ==
    /\ r.pc # "idle" => r.audit \in AuditChoices
    /\ r.pc \in Planning => r.req = Remaining /\ r.req # {}
    /\ r.pc = "made" => txn = NoTxn /\ r.start = Len(runs)
    /\ r.pc = "copying" => model = "partial"
    /\ r.pc \notin Planning \cup {"idle"} => txn # NoTxn /\ txn.start = r.start /\ txn.stages = r.req
    /\ r.pc \notin InStages => r.idx = 1
    /\ r.pc \in InStages =>
          /\ model = "ready"
          /\ r.start + r.idx <= Len(runs) + 1
          /\ \A i \in DOMAIN runs : r.start < i /\ i < r.start + r.idx => runs[i].state = "complete"
    /\ r.pc \in {"starting", "training"} => r.start + r.idx = Len(runs)

HistoryInOrder == TransactionOK /\ CompletedPrefix /\ OnlyNewest /\ CompletedInOrder
ModelInOrder == AuditSame /\ NoRunsBefore
InOrder == HistoryInOrder /\ ModelInOrder /\ \A p \in Procs : Knows(proc[p])

-----------------------------------------------------------------------------
(* The operators on histories.                                              *)

\* The i-th of the stages after the k-th.
LEMMA StagesAfter ==
    ASSUME NEW k \in 0..(NumStages - 1)
    PROVE  /\ Cardinality((k + 1)..NumStages) = NumStages - k
           /\ \A i \in 1..(NumStages - k) : StageAt((k + 1)..NumStages, i) = k + i
<1> DEFINE S == (k + 1)..NumStages
<1>0. NumStages \in Nat /\ k \in Nat /\ k + 1 <= NumStages
  OBVIOUS
<1>1. Cardinality(S) = NumStages - k
  <2>1. Cardinality(S) = NumStages - (k + 1) + 1
    BY <1>0, FS_Interval
  <2>2. QED
    BY <1>0, <2>1
<1>2. ASSUME NEW i \in 1..(NumStages - k)
      PROVE  StageAt(S, i) = k + i
  <2> DEFINE s == StageAt(S, i)
  <2>1. s \in S /\ Cardinality({t \in S : t <= s}) = i
    <3>1. S \in SUBSET Stages /\ i \in 1..Cardinality(S)
      BY <1>0, <1>1
    <3> HIDE DEF S
    <3>2. QED
      BY <3>1, StageAtExists
  <2> HIDE DEF s
  <2>2. {t \in S : t <= s} = (k + 1)..s
    BY <1>0, <2>1
  <2>3. Cardinality((k + 1)..s) = s - (k + 1) + 1
    BY <1>0, <2>1, FS_Interval
  <2>4. i = s - (k + 1) + 1
    <3>1. k + 1 <= s /\ s \in Nat
      BY <1>0, <2>1
    <3>2. Cardinality((k + 1)..s) = i
      BY <2>1, <2>2
    <3>3. QED
      BY <1>0, <2>3, <3>1, <3>2
  <2>5. s = k + i
    BY <1>0, <2>1, <2>4
  <2>6. QED
    BY <2>5 DEF s
<1>3. QED
  BY <1>1, <1>2

\* Every run of a history is a record of a stage.
LEMMA HistoryTyped ==
    ASSUME NEW h \in Seq(Run)
    PROVE  Len(h) \in Nat /\ DOMAIN h = 1..Len(h) /\ \A i \in 1..Len(h) : h[i].stage \in Stages
<1>1. \A r \in Run : r.stage \in Stages
  BY DEF Run
<1>2. QED
  BY <1>1

\* Whatever became of the newest run, the trained stages are the first ones.
LEMMA TrainedPrefix ==
    ASSUME NEW h \in Seq(Run), NEW s \in Nat, NEW k \in 0..NumStages, Continues(h, s, k)
    PROVE  \E m \in 0..NumStages : Trained(h, Len(h)) = 1..m
<1> DEFINE n == Len(h)
           m == IF n > s /\ h[n].state # "complete" THEN k + (n - s) - 1 ELSE k + (n - s)
<1>1. n \in Nat /\ k \in Nat /\ NumStages \in Nat /\ s <= n /\ n <= s + (NumStages - k)
      /\ \A i \in 1..n : h[i].stage \in Stages
  BY HistoryTyped DEF Continues
<1>2. Trained(h, s) = 1..k
  BY DEF Continues
<1>3. \A i \in (s + 1)..n : h[i].stage = k + (i - s) /\ (i < n => h[i].state = "complete")
  BY DEF Continues
<1> HIDE DEF n
<1>4. m \in 0..NumStages
  BY <1>1
<1>m. /\ k <= m
      /\ n > s => /\ k + (n - s) - 1 <= m
                  /\ h[n].state = "complete" => m = k + (n - s)
  BY <1>1
<1>5. ASSUME NEW i \in 1..n, h[i].state = "complete"
      PROVE  h[i].stage \in 1..m
  <2> HIDE DEF m
  <2>1. CASE i <= s
    <3>1. h[i].stage \in Trained(h, s)
      BY <1>1, <1>5, <2>1 DEF Trained
    <3>2. h[i].stage \in 1..k
      BY <1>2, <3>1
    <3>3. QED
      BY <1>1, <1>4, <1>m, <3>2
  <2>2. CASE i > s
    <3>1. h[i].stage = k + (i - s)
      <4>1. i \in (s + 1)..n
        BY <1>1, <2>2
      <4>2. QED
        BY <1>3, <4>1
    <3>2. k + (i - s) <= m
      <4>1. CASE i = n
        <5>1. n > s /\ h[n].state = "complete"
          BY <1>5, <2>2, <4>1
        <5>2. m = k + (n - s)
          BY <1>m, <5>1
        <5>3. QED
          BY <1>1, <4>1, <5>2
      <4>2. CASE i < n
        <5>1. n > s /\ i - s <= n - s - 1
          BY <1>1, <2>2, <4>2
        <5>2. k + (n - s) - 1 <= m
          BY <1>m, <5>1
        <5>3. QED
          BY <1>1, <1>4, <5>1, <5>2
      <4>3. QED
        BY <1>1, <4>1, <4>2
    <3>3. QED
      BY <1>1, <1>4, <2>2, <3>1, <3>2
  <2>3. QED
    BY <1>1, <2>1, <2>2
<1>6. ASSUME NEW t \in 1..m
      PROVE  \E i \in 1..n : h[i].state = "complete" /\ h[i].stage = t
  <2>1. CASE t <= k
    <3>1. t \in Trained(h, s)
      BY <1>1, <1>2, <1>4, <2>1
    <3>2. QED
      BY <1>1, <3>1 DEF Trained
  <2>2. CASE t > k
    <3>1. s + (t - k) \in (s + 1)..n
      BY <1>1, <1>4, <2>2
    <3>2. h[s + (t - k)].stage = t
      BY <1>1, <1>3, <1>4, <2>2, <3>1
    <3>3. h[s + (t - k)].state = "complete"
      <4>1. CASE s + (t - k) < n
        BY <1>3, <3>1, <4>1
      <4>2. CASE s + (t - k) = n
        <5>1. n > s /\ m \in Nat /\ t \in Nat /\ t <= m /\ t = k + (n - s)
          BY <1>1, <1>4, <2>2, <4>2
        <5>2. m # k + (n - s) - 1
          <6> HIDE DEF m
          <6>1. QED
            BY <1>1, <5>1
        <5>3. QED
          BY <4>2, <5>1, <5>2
      <4>3. QED
        BY <1>1, <3>1, <4>1, <4>2
    <3>4. QED
      BY <1>1, <3>1, <3>2, <3>3
  <2>3. QED
    BY <1>1, <1>4, <2>1, <2>2
<1>7. Trained(h, n) = 1..m
  <2> HIDE DEF m
  <2>1. QED
    BY <1>5, <1>6 DEF Trained
<1>8. QED
  BY <1>4, <1>7 DEF n

Ordered(h, n) ==
    \A i, j \in 1..n : i < j /\ h[i].state = "complete" /\ h[j].state = "complete"
                           => h[i].stage < h[j].stage

\* What follows the transaction's start is in order with what precedes it.
LEMMA OrderContinues ==
    ASSUME NEW h \in Seq(Run), NEW s \in Nat, NEW k \in 0..NumStages, Continues(h, s, k), Ordered(h, s)
    PROVE  Ordered(h, Len(h))
<1> DEFINE n == Len(h)
<1>1. n \in Nat /\ k \in Nat /\ s <= n /\ \A i \in 1..n : h[i].stage \in Stages
  BY HistoryTyped DEF Continues
<1>2. \A i \in 1..s : h[i].state = "complete" => h[i].stage \in 1..k
  BY DEF Continues, Trained
<1>3. \A i \in (s + 1)..n : h[i].stage = k + (i - s)
  BY DEF Continues
<1> HIDE DEF n
<1> SUFFICES ASSUME NEW i \in 1..n, NEW j \in 1..n, i < j, h[i].state = "complete", h[j].state = "complete"
             PROVE  h[i].stage < h[j].stage
  BY DEF Ordered, n
<1>4. CASE j <= s
  BY <1>1, <1>4 DEF Ordered
<1>5. CASE j > s /\ i <= s
  <2>1. i \in 1..s /\ j \in (s + 1)..n
    BY <1>1, <1>5
  <2>2. h[i].stage \in 1..k /\ h[j].stage = k + (j - s)
    BY <1>2, <1>3, <2>1
  <2>3. QED
    BY <1>1, <2>1, <2>2
<1>6. CASE j > s /\ i > s
  <2>0. i \in (s + 1)..n /\ j \in (s + 1)..n
    BY <1>1, <1>6
  <2>1. h[i].stage = k + (i - s) /\ h[j].stage = k + (j - s)
    BY <1>3, <2>0
  <2>2. QED
    BY <1>1, <1>6, <2>1
<1>7. QED
  BY <1>1, <1>4, <1>5, <1>6

\* Both depend on the runs they speak of only.
LEMMA PrefixAgrees ==
    ASSUME NEW h \in Seq(Run), NEW g \in Seq(Run), NEW n \in Nat, \A i \in 1..n : g[i] = h[i]
    PROVE  Trained(g, n) = Trained(h, n) /\ (Ordered(g, n) <=> Ordered(h, n))
<1>1. Trained(g, n) = Trained(h, n)
  BY DEF Trained
<1>2. Ordered(g, n) <=> Ordered(h, n)
  BY DEF Ordered
<1>3. QED
  BY <1>1, <1>2

-----------------------------------------------------------------------------
(* What the steps do to the history of a transaction.                       *)

\* The variables, as the lemmas below use them.
LEMMA TransactionFields ==
    ASSUME TypeOK
    PROVE  /\ txn.start \in Nat /\ txn.stages \in SUBSET Stages
           /\ CompletedAmong(Len(runs)) = Trained(runs, Len(runs))
           /\ CompletedAmong(txn.start) = Trained(runs, txn.start)
           /\ CompletedInOrder <=> Ordered(runs, Len(runs))
<1>1. txn \in Transaction /\ DOMAIN runs = 1..Len(runs)
  BY RunsTyped DEF TypeOK
<1>2. txn.start \in Nat /\ txn.stages \in SUBSET Stages
  BY <1>1 DEF Transaction
<1>3. CompletedInOrder <=> Ordered(runs, Len(runs))
  BY <1>1 DEF CompletedInOrder, Ordered
<1>4. QED
  BY <1>2, <1>3 DEF CompletedAmong, Trained

\* The newest run of a transaction may end in any way.
LEMMA ContinuesWorks ==
    ASSUME TypeOK, NEW s \in Nat, NEW k \in 0..NumStages, Continues(runs, s, k), s < Len(runs),
           NEW from, NEW to, NewestBecomes(from, to)
    PROVE  Continues(runs', s, k) /\ (Ordered(runs, s) => Ordered(runs', s))
<1> DEFINE n == Len(runs)
<1>1. runs \in Seq(Run) /\ runs' \in Seq(Run) /\ n \in Nat /\ Len(runs') = n /\ DOMAIN runs = 1..n
      /\ runs'[n].stage = runs[n].stage /\ \A i \in DOMAIN runs : i < n => runs'[i] = runs[i]
  BY RunsTyped DEF NewestBecomes
<1>2. s <= n /\ n <= s + (NumStages - k) /\ Trained(runs, s) = 1..k
      /\ \A i \in (s + 1)..n : runs[i].stage = k + (i - s) /\ (i < n => runs[i].state = "complete")
  BY DEF Continues
<1>3. s < n
  OBVIOUS
<1> HIDE DEF n
<1>4. \A i \in 1..s : runs'[i] = runs[i]
  BY <1>1, <1>3
<1>5. Trained(runs', s) = 1..k /\ (Ordered(runs, s) => Ordered(runs', s))
  BY <1>1, <1>2, <1>4, PrefixAgrees
<1>6. ASSUME NEW i \in (s + 1)..n
      PROVE  runs'[i].stage = k + (i - s) /\ (i < n => runs'[i].state = "complete")
  <2>1. CASE i = n
    BY <1>1, <1>2, <2>1
  <2>2. CASE i < n
    <3>1. runs'[i] = runs[i]
      BY <1>1, <2>2
    <3>2. QED
      BY <1>2, <3>1
  <2>3. QED
    BY <1>1, <2>1, <2>2
<1>7. QED
  BY <1>1, <1>2, <1>5, <1>6 DEF Continues

\* The open transaction, as a pair of where it starts and what is trained.
LEMMA OpenContinues ==
    ASSUME TypeOK, HistoryInOrder, txn # NoTxn
    PROVE  \E k \in 0..(NumStages - 1) : /\ txn.stages = (k + 1)..NumStages
                                         /\ Continues(runs, txn.start, k)
                                         /\ Ordered(runs, txn.start)
<1>1. PICK k \in 0..(NumStages - 1) : txn.stages = (k + 1)..NumStages /\ Continues(runs, txn.start, k)
  BY DEF HistoryInOrder, TransactionOK
<1>2. Ordered(runs, Len(runs)) /\ txn.start <= Len(runs) /\ Len(runs) \in Nat /\ txn.start \in Nat
  BY <1>1, TransactionFields, RunsTyped DEF HistoryInOrder, Continues
<1>3. Ordered(runs, txn.start)
  BY <1>2 DEF Ordered
<1>4. QED
  BY <1>1, <1>3

LEMMA HistoryStays ==
    ASSUME HistoryInOrder, UNCHANGED <<txn, runs>>
    PROVE  HistoryInOrder'
<1>1. TransactionOK' /\ CompletedPrefix'
  <2>1. TransactionOK'
    BY DEF HistoryInOrder, TransactionOK
  <2>2. CompletedAmong(Len(runs))' = CompletedAmong(Len(runs))
    BY DEF CompletedAmong
  <2>3. CompletedPrefix'
    BY <2>2 DEF HistoryInOrder, CompletedPrefix
  <2>4. QED
    BY <2>1, <2>3
<1>2. OnlyNewest' /\ CompletedInOrder'
  BY DEF HistoryInOrder, OnlyNewest, CompletedInOrder
<1>3. QED
  BY <1>1, <1>2 DEF HistoryInOrder

LEMMA HistoryWorks ==
    ASSUME TypeOK, TypeOK', HistoryInOrder, txn # NoTxn, txn' = txn, txn.start < Len(runs),
           NEW from, NEW to, NewestBecomes(from, to)
    PROVE  HistoryInOrder'
<1>1. PICK k \in 0..(NumStages - 1) : /\ txn.stages = (k + 1)..NumStages
                                      /\ Continues(runs, txn.start, k) /\ Ordered(runs, txn.start)
  BY OpenContinues
<1>2. txn.start \in Nat /\ k \in 0..NumStages /\ runs' \in Seq(Run)
  BY TransactionFields DEF NewestBecomes
<1>3. Continues(runs', txn.start, k) /\ Ordered(runs', txn.start)
  BY <1>1, <1>2, ContinuesWorks
<1>4. Ordered(runs', Len(runs'))
  BY <1>2, <1>3, OrderContinues
<1>5. CompletedInOrder'
  <2>1. DOMAIN runs' = 1..Len(runs')
    BY <1>2
  <2>2. QED
    BY <1>4, <2>1 DEF CompletedInOrder, Ordered
<1>6. TransactionOK' /\ CompletedPrefix'
  BY <1>1, <1>3 DEF TransactionOK, CompletedPrefix
<1>7. OnlyNewest'
  <2>1. Len(runs') = Len(runs) /\ Len(runs) \in Nat /\ DOMAIN runs = 1..Len(runs) /\ DOMAIN runs' = 1..Len(runs)
        /\ \A i \in DOMAIN runs : i < Len(runs) => runs'[i] = runs[i]
    BY <1>2, RunsTyped DEF NewestBecomes
  <2>2. SUFFICES ASSUME NEW i \in DOMAIN runs', runs'[i].state \in {"running", "interrupted"}
                 PROVE  i = Len(runs') /\ txn' # NoTxn /\ txn'.start < i
    BY DEF OnlyNewest
  <2>3. CASE i = Len(runs)
    BY <2>1, <2>3
  <2>4. CASE i < Len(runs)
    <3>1. runs[i].state \in {"running", "interrupted"} /\ i \in DOMAIN runs
      BY <2>1, <2>2, <2>4
    <3>2. FALSE
      BY <2>1, <2>4, <3>1 DEF HistoryInOrder, OnlyNewest
    <3>3. QED
      BY <3>2
  <2>5. QED
    BY <2>1, <2>2, <2>3, <2>4
<1>8. QED
  BY <1>5, <1>6, <1>7 DEF HistoryInOrder

\* The next run is that of the next stage.
LEMMA HistoryAppends ==
    ASSUME TypeOK, HistoryInOrder, txn # NoTxn, txn' = txn, RunAdded,
           NEW x \in 1..Cardinality(txn.stages), Len(runs) + 1 = txn.start + x,
           runs'[Len(runs) + 1].stage = StageAt(txn.stages, x),
           \A i \in DOMAIN runs : txn.start < i => runs[i].state = "complete"
    PROVE  HistoryInOrder'
<1> DEFINE n == Len(runs)
           s == txn.start
<1>1. PICK k \in 0..(NumStages - 1) : /\ txn.stages = (k + 1)..NumStages
                                      /\ Continues(runs, s, k) /\ Ordered(runs, s)
  BY OpenContinues
<1>2. s \in Nat /\ k \in Nat /\ k \in 0..NumStages /\ n \in Nat /\ DOMAIN runs = 1..n /\ runs \in Seq(Run)
      /\ runs' \in Seq(Run) /\ Len(runs') = n + 1 /\ DOMAIN runs' = 1..(n + 1)
      /\ \A i \in 1..n : runs'[i] = runs[i]
  BY TransactionFields, RunsTyped DEF RunAdded
<1>3. runs'[n + 1].state = "planned"
  BY DEF RunAdded
<1>4. x \in 1..(NumStages - k) /\ n + 1 = s + x /\ runs'[n + 1].stage = k + x
  BY <1>1, StagesAfter
<1>5. s <= n /\ Trained(runs, s) = 1..k /\ \A i \in (s + 1)..n : runs[i].stage = k + (i - s)
  BY <1>1 DEF Continues
<1>6. \A i \in (s + 1)..n : runs[i].state = "complete"
  BY <1>2
<1> HIDE DEF n, s
<1>7. \A i \in 1..s : runs'[i] = runs[i]
  BY <1>2, <1>5
<1>8. Trained(runs', s) = 1..k /\ Ordered(runs', s)
  BY <1>1, <1>2, <1>5, <1>7, PrefixAgrees
<1>9. ASSUME NEW i \in (s + 1)..(n + 1)
      PROVE  runs'[i].stage = k + (i - s) /\ (i < n + 1 => runs'[i].state = "complete")
  <2>1. CASE i = n + 1
    BY <1>2, <1>4, <2>1
  <2>2. CASE i <= n
    <3>1. runs'[i] = runs[i] /\ i \in (s + 1)..n
      BY <1>2, <2>2
    <3>2. QED
      BY <1>5, <1>6, <3>1
  <2>3. QED
    BY <1>2, <2>1, <2>2
<1>10. Continues(runs', s, k)
  <2>1. s <= n + 1 /\ n + 1 <= s + (NumStages - k)
    BY <1>2, <1>4, <1>5
  <2>2. QED
    BY <1>2, <1>8, <1>9, <2>1 DEF Continues
<1>11. Ordered(runs', n + 1)
  BY <1>2, <1>8, <1>10, OrderContinues
<1>12. TransactionOK' /\ CompletedPrefix' /\ CompletedInOrder'
  BY <1>1, <1>2, <1>10, <1>11 DEF TransactionOK, CompletedPrefix, CompletedInOrder, Ordered, s
<1>13. OnlyNewest'
  <2>1. SUFFICES ASSUME NEW i \in DOMAIN runs', runs'[i].state \in {"running", "interrupted"}
                 PROVE  FALSE
    BY DEF OnlyNewest
  <2>2. i \in DOMAIN runs /\ runs[i].state \in {"running", "interrupted"}
    BY <1>2, <1>3, <2>1
  <2>3. s < i
    BY <2>2 DEF HistoryInOrder, OnlyNewest, s
  <2>4. QED
    BY <2>2, <2>3 DEF s
<1>14. QED
  BY <1>12, <1>13 DEF HistoryInOrder

\* A transaction may be dropped once none of its runs can be resumed.
LEMMA HistoryDrops ==
    ASSUME TypeOK, HistoryInOrder, txn # NoTxn, txn' = NoTxn,
           \/ runs' = runs
           \/ txn.start < Len(runs) /\ \E from, to : NewestBecomes(from, to),
           \A i \in DOMAIN runs' : runs'[i].state \notin {"running", "interrupted"}
    PROVE  HistoryInOrder'
<1>1. PICK k \in 0..(NumStages - 1) : Continues(runs, txn.start, k) /\ Ordered(runs, txn.start)
  BY OpenContinues
<1>2. txn.start \in Nat /\ k \in 0..NumStages /\ runs' \in Seq(Run)
  BY TransactionFields, RunsTyped DEF NewestBecomes
<1>3. Continues(runs', txn.start, k) /\ Ordered(runs', txn.start)
  BY <1>1, <1>2, ContinuesWorks
<1>4. PICK m \in 0..NumStages : Trained(runs', Len(runs')) = 1..m
  BY <1>2, <1>3, TrainedPrefix
<1>5. Ordered(runs', Len(runs'))
  BY <1>2, <1>3, OrderContinues
<1>6. DOMAIN runs' = 1..Len(runs')
  BY <1>2
<1>7. TransactionOK' /\ CompletedPrefix'
  BY <1>4 DEF TransactionOK, CompletedPrefix, CompletedAmong, Trained
<1>8. CompletedInOrder' /\ OnlyNewest'
  BY <1>5, <1>6 DEF CompletedInOrder, Ordered, OnlyNewest
<1>9. QED
  BY <1>7, <1>8 DEF HistoryInOrder

\* What is left of the stages is the transaction.
LEMMA HistoryOpens ==
    ASSUME TypeOK, HistoryInOrder, txn = NoTxn, Remaining # {}, runs' = runs,
           txn' = [start |-> Len(runs), stages |-> Remaining]
    PROVE  HistoryInOrder' /\ txn' # NoTxn
<1>1. PICK k \in 0..NumStages : CompletedAmong(Len(runs)) = 1..k
  BY DEF HistoryInOrder, CompletedPrefix
<1>2. Remaining = Stages \ (1..k)
  BY <1>1 DEF Remaining
<1>3. k < NumStages /\ Remaining = (k + 1)..NumStages
  <2>1. NumStages \in Nat /\ k \in Nat /\ k <= NumStages
    OBVIOUS
  <2>2. Remaining = (k + 1)..NumStages
    BY <1>2, <2>1
  <2>3. k # NumStages
    BY <2>1, <2>2
  <2>4. QED
    BY <2>1, <2>2, <2>3
<1>4. Trained(runs, Len(runs)) = 1..k /\ Len(runs) \in Nat /\ DOMAIN runs = 1..Len(runs)
  BY <1>1, TransactionFields, RunsTyped
<1>5. txn'.start = Len(runs) /\ txn'.stages = Remaining
  OBVIOUS
<1>6. txn' # NoTxn
  BY <1>5 DEF NoTxn
<1>7. Continues(runs', txn'.start, k)
  BY <1>3, <1>4, <1>5 DEF Continues
<1>8. TransactionOK' /\ CompletedPrefix'
  BY <1>3, <1>5, <1>6, <1>7 DEF TransactionOK, CompletedPrefix
<1>9. CompletedInOrder' /\ OnlyNewest'
  BY DEF HistoryInOrder, CompletedInOrder, OnlyNewest
<1>10. QED
  BY <1>6, <1>8, <1>9 DEF HistoryInOrder

-----------------------------------------------------------------------------
(* What the steps of the only process do to what it knows.                  *)

Only(p) == \A q \in Procs : q = p

LEMMA AuditKept ==
    ASSUME TypeOK, AuditSame,
           \/ runs' = runs
           \/ \E from, to : NewestBecomes(from, to)
           \/ RunAdded /\ runs'[Len(runs) + 1].audited \in AuditChoices
    PROVE  AuditSame'
<1>0. DOMAIN runs = 1..Len(runs) /\ Len(runs) \in Nat
  BY RunsTyped
<1>1. CASE runs' = runs
  BY <1>1 DEF AuditSame
<1>2. CASE \E from, to : NewestBecomes(from, to)
  <2>1. PICK from, to : NewestBecomes(from, to)
    BY <1>2
  <2>2. DOMAIN runs' = 1..Len(runs) /\ runs # <<>> /\ Len(runs) \in DOMAIN runs
        /\ runs'[Len(runs)].audited = runs[Len(runs)].audited
        /\ \A i \in DOMAIN runs : i < Len(runs) => runs'[i] = runs[i]
    BY <1>0, <2>1, RunsTyped DEF NewestBecomes
  <2>3. ASSUME NEW i \in DOMAIN runs' PROVE runs'[i].audited \in AuditChoices
    <3>1. i = Len(runs) \/ (i \in DOMAIN runs /\ i < Len(runs))
      BY <1>0, <2>2
    <3>2. runs'[i] = runs[i] \/ (i = Len(runs) /\ runs'[i].audited = runs[i].audited)
      BY <2>2, <3>1
    <3>3. i \in DOMAIN runs
      BY <2>2, <3>1
    <3>4. QED
      BY <3>2, <3>3 DEF AuditSame
  <2>4. QED
    BY <2>3 DEF AuditSame
<1>3. CASE RunAdded /\ runs'[Len(runs) + 1].audited \in AuditChoices
  <2>1. DOMAIN runs' = 1..(Len(runs) + 1) /\ \A i \in 1..Len(runs) : runs'[i] = runs[i]
    BY <1>0, <1>3 DEF RunAdded
  <2>2. \A i \in 1..(Len(runs) + 1) : i \in 1..Len(runs) \/ i = Len(runs) + 1
    BY <1>0
  <2>3. QED
    BY <1>0, <1>3, <2>1, <2>2 DEF AuditSame
<1>4. QED
  BY <1>1, <1>2, <1>3

\* The only process becomes r.
LEMMA OneProcess ==
    ASSUME TypeOK, NEW p \in Procs, Only(p), NEW r, Becomes(p, r), Knows(r)',
           HistoryInOrder', ModelInOrder'
    PROVE  InOrder'
<1>1. proc'[p] = r
  BY DEF Becomes, TypeOK
<1>2. \A q \in Procs : Knows(proc[q])'
  BY <1>1 DEF Only, Knows
<1>3. QED
  BY <1>2 DEF InOrder

\* A step that leaves the transaction and its runs alone.
LEMMA Stays ==
    ASSUME TypeOK, InOrder, NEW p \in Procs, Only(p), NEW r, Becomes(p, r), Knows(r)',
           UNCHANGED <<txn, runs>>, model = "ready" => model' = "ready"
    PROVE  InOrder'
<1>1. HistoryInOrder'
  BY HistoryStays DEF InOrder
<1>2. AuditSame' /\ NoRunsBefore'
  BY AuditKept DEF InOrder, ModelInOrder, NoRunsBefore
<1>3. QED
  BY <1>1, <1>2, OneProcess DEF ModelInOrder

\* One that has returned knows nothing.
LEMMA IdleKnows == Knows(Idle) /\ Knows(Idle)'
  BY DEF Knows, Idle, Planning, InStages

\* Without a transaction there is nothing to recover.
LEMMA NothingToRecover ==
    ASSUME TypeOK, HistoryInOrder, txn = NoTxn
    PROVE  Recovered = runs /\ \A req : StartOf(runs, req) = Len(runs)
<1>1. runs # <<>> => Len(runs) \in DOMAIN runs /\ runs[Len(runs)].state \notin {"running", "interrupted"}
  BY RunsTyped DEF HistoryInOrder, OnlyNewest
<1>2. Recovered = runs
  BY <1>1 DEF Recovered, LastIs
<1>3. ASSUME NEW req PROVE StartOf(runs, req) = Len(runs)
  <2>1. RecoverableStarts(runs, req) = {}
    <3> SUFFICES ASSUME NEW k \in 1..Cardinality(req), k <= Len(runs), runs[Len(runs)].state = "interrupted"
                 PROVE  FALSE
      BY DEF RecoverableStarts
    <3>1. Len(runs) \in Nat /\ Len(runs) # 0 /\ runs # <<>>
      BY RunsTyped
    <3>2. QED
      BY <1>1, <3>1
  <2>2. QED
    BY <2>1 DEF StartOf
<1>4. QED
  BY <1>2, <1>3

\* The stages that are left depend on the transaction and its runs only.
LEMMA RemainingStays ==
    ASSUME UNCHANGED <<txn, runs>>
    PROVE  Remaining' = Remaining
  BY DEF Remaining, CompletedAmong

\* p goes on to c with the same request.
LEMMA GotoIs ==
    ASSUME TypeOK, NEW p \in Procs, NEW c \in Counters, Goto(p, c)
    PROVE  \E r : /\ Becomes(p, r)
                  /\ r.pc = c /\ r.req = proc[p].req /\ r.start = proc[p].start
                  /\ r.idx = proc[p].idx /\ r.audit = proc[p].audit
<1> DEFINE r == [proc[p] EXCEPT !.pc = c]
<1>1. proc[p] \in Process /\ proc' = [proc EXCEPT ![p] = r]
  BY ProcessTyped DEF Goto
<1>2. r.pc = c /\ r.req = proc[p].req /\ r.start = proc[p].start /\ r.idx = proc[p].idx /\ r.audit = proc[p].audit
  BY <1>1 DEF Process
<1>3. QED
  BY <1>1, <1>2 DEF Becomes

\* What the process knows, if it is at c.
LEMMA KnowsHere ==
    ASSUME InOrder, NEW p \in Procs
    PROVE  Knows(proc[p])
  BY DEF InOrder

LEMMA PlanInOrder ==
    ASSUME TypeOK, InOrder, NEW p \in Procs, Only(p),
           (\E audit \in AuditChoices : Plan(p, audit)) \/ Lock(p) \/ LockBusy(p)
    PROVE  InOrder'
<1>0. UNCHANGED <<txn, runs, model>> /\ Knows(proc[p])
  BY KnowsHere DEF Plan, Lock, LockBusy, durable
<1>1. CASE \E audit \in AuditChoices : Plan(p, audit)
  <2>1. PICK audit \in AuditChoices : Plan(p, audit)
    BY <1>1
  <2>2. PICK req : /\ req = IF model = "absent" THEN Stages ELSE Remaining
                   /\ req # {}
                   /\ Becomes(p, [Idle EXCEPT !.pc = "planned", !.req = req, !.audit = audit])
    BY <2>1 DEF Plan, Becomes
  <2>3. req = Remaining
    <3>1. CASE model = "absent"
      <4>1. runs = <<>> /\ Len(runs) = 0
        BY <3>1 DEF InOrder, ModelInOrder, NoRunsBefore
      <4>2. CompletedAmong(0) = {}
        BY DEF CompletedAmong
      <4>3. txn # NoTxn => txn.start = 0
        BY <4>1, TransactionFields DEF InOrder, HistoryInOrder, TransactionOK, Continues
      <4>4. Remaining = Stages
        BY <4>1, <4>2, <4>3 DEF Remaining
      <4>5. QED
        BY <2>2, <3>1, <4>4
    <3>2. CASE model # "absent"
      BY <2>2, <3>2
    <3>3. QED
      BY <3>1, <3>2
  <2>4. PICK r : r = [Idle EXCEPT !.pc = "planned", !.req = req, !.audit = audit]
    OBVIOUS
  <2>5. r.pc = "planned" /\ r.req = req /\ r.audit = audit /\ r.idx = 1
    BY <2>4 DEF Idle
  <2>6. Knows(r)'
    BY <1>0, <2>2, <2>3, <2>5, RemainingStays DEF Knows, Planning, InStages
  <2>7. QED
    BY <1>0, <2>2, <2>4, <2>6, Stays
<1>2. CASE Lock(p)
  <2>1. Goto(p, "locked") /\ proc[p].pc = "planned" /\ "locked" \in Counters
    BY <1>2 DEF Lock, At, Counters
  <2>2. PICK r : /\ Becomes(p, r) /\ r.pc = "locked" /\ r.req = proc[p].req
                 /\ r.idx = proc[p].idx /\ r.audit = proc[p].audit
    BY <2>1, GotoIs
  <2>3. Knows(r)'
    BY <1>0, <2>1, <2>2, RemainingStays DEF Knows, Planning, InStages
  <2>4. QED
    BY <1>0, <2>2, <2>3, Stays
<1>3. CASE LockBusy(p)
  <2>1. Becomes(p, Idle)
    BY <1>3 DEF LockBusy, Becomes
  <2>2. QED
    BY <1>0, <2>1, IdleKnows, Stays
<1>4. QED
  BY <1>1, <1>2, <1>3

\* p goes on to c with a transaction that starts after n runs.
StartsAt(p, c, n) == proc' = [proc EXCEPT ![p].pc = c, ![p].start = n]

LEMMA StartIs ==
    ASSUME TypeOK, NEW p \in Procs, NEW c, NEW n, StartsAt(p, c, n)
    PROVE  \E r : /\ Becomes(p, r)
                  /\ r.pc = c /\ r.req = proc[p].req /\ r.start = n
                  /\ r.idx = proc[p].idx /\ r.audit = proc[p].audit
<1> DEFINE r == [proc[p] EXCEPT !.pc = c, !.start = n]
<1>1. proc[p] \in Process /\ proc' = [proc EXCEPT ![p] = r]
  BY ProcessTyped DEF StartsAt
<1>2. /\ r.pc = c /\ r.start = n /\ r.req = proc[p].req
      /\ r.idx = proc[p].idx /\ r.audit = proc[p].audit
  BY <1>1 DEF Process
<1> HIDE DEF r
<1>3. QED
  BY <1>1, <1>2 DEF Becomes

LEMMA OpenInOrder ==
    ASSUME TypeOK, InOrder, NEW p \in Procs, Only(p), OpenTransaction(p)
    PROVE  InOrder'
<1>0. Knows(proc[p]) /\ proc[p] \in Process /\ HistoryInOrder
  BY KnowsHere, ProcessTyped DEF InOrder
<1>2. CASE TakeUp(p)
  <2>1. /\ StartsAt(p, "ready", txn.start) /\ UNCHANGED <<txn, runs, model>>
        /\ txn # NoTxn /\ txn.stages = proc[p].req /\ proc[p].pc = "locked"
    BY <1>2 DEF TakeUp, At, durable, StartsAt
  <2>2. PICK r : /\ Becomes(p, r) /\ r.pc = "ready" /\ r.start = txn.start /\ r.req = proc[p].req
                 /\ r.idx = proc[p].idx /\ r.audit = proc[p].audit
    BY <2>1, StartIs
  <2>3. Knows(r)'
    BY <1>0, <2>1, <2>2 DEF Knows, Planning, InStages
  <2>4. QED
    BY <2>1, <2>2, <2>3, Stays
<1>3. CASE OpenWorkspace(p)
  <2>1. /\ StartsAt(p, "made", StartOf(Recovered, proc[p].req))
        /\ txn = NoTxn /\ UNCHANGED <<txn, model>> /\ runs' = Recovered /\ proc[p].pc = "locked"
    BY <1>3 DEF OpenWorkspace, At, StartsAt
  <2>2. runs' = runs /\ StartOf(Recovered, proc[p].req) = Len(runs)
    BY <1>0, <2>1, NothingToRecover
  <2>3. PICK r : /\ Becomes(p, r) /\ r.pc = "made" /\ r.start = Len(runs) /\ r.req = proc[p].req
                 /\ r.idx = proc[p].idx /\ r.audit = proc[p].audit
    BY <2>1, <2>2, StartIs
  <2>4. Knows(r)'
    BY <1>0, <2>1, <2>2, <2>3, RemainingStays DEF Knows, Planning, InStages
  <2>5. QED
    BY <2>1, <2>2, <2>3, <2>4, Stays
<1>4. CASE Refuse(p)
  <2>1. UNCHANGED <<txn, runs, model>>
    <3>1. CASE txn # NoTxn \/ model = "partial"
      BY <1>4, <3>1 DEF Refuse
    <3>2. CASE txn = NoTxn /\ model # "partial"
      BY <1>0, <1>4, <3>2, NothingToRecover DEF Refuse
    <3>3. QED
      BY <3>1, <3>2
  <2>2. Becomes(p, Idle)
    BY <1>4 DEF Refuse, Returns, Becomes
  <2>3. QED
    BY <2>1, <2>2, IdleKnows, Stays
<1>5. CASE WriteTransaction(p)
  <2>1. /\ Goto(p, "ready") /\ "ready" \in Counters /\ runs' = runs /\ model' = model /\ proc[p].pc = "made"
        /\ txn' = [start |-> proc[p].start, stages |-> proc[p].req]
    BY <1>5 DEF WriteTransaction, At, Counters
  <2>2. txn = NoTxn /\ proc[p].start = Len(runs) /\ proc[p].req = Remaining /\ Remaining # {}
    BY <1>0, <2>1 DEF Knows, Planning
  <2>3. HistoryInOrder' /\ txn' # NoTxn
    BY <1>0, <2>1, <2>2, HistoryOpens
  <2>4. ModelInOrder'
    BY <2>1, AuditKept DEF InOrder, ModelInOrder, NoRunsBefore
  <2>5. PICK r : /\ Becomes(p, r) /\ r.pc = "ready" /\ r.start = proc[p].start /\ r.req = proc[p].req
                 /\ r.idx = proc[p].idx /\ r.audit = proc[p].audit
    BY <2>1, GotoIs
  <2>6. Knows(r)'
    BY <1>0, <2>1, <2>3, <2>5 DEF Knows, Planning, InStages
  <2>7. QED
    BY <2>3, <2>4, <2>5, <2>6, OneProcess
<1>6. QED
  BY <1>2, <1>3, <1>4, <1>5 DEF OpenTransaction

LEMMA PrepareInOrder ==
    ASSUME TypeOK, TypeOK', InOrder, NEW p \in Procs, Only(p), PrepareModel(p) \/ CopyFails(p) \/ Kill(p)
    PROVE  InOrder'
<1>0. Knows(proc[p]) /\ HistoryInOrder
  BY KnowsHere DEF InOrder
<1>1. CASE Initialize(p) \/ CopyBase(p) \/ Archive(p) \/ ArchiveWritten(p)
  <2>1. PICK c \in {"copying", "archive", "archived", "archiving"} :
            Goto(p, c) /\ (c = "copying" => model' = "partial")
    BY <1>1 DEF Initialize, CopyBase, Archive, ArchiveWritten
  <2>2. UNCHANGED <<txn, runs>> /\ (model = "ready" => model' = "ready") /\ c \in Counters
        /\ proc[p].pc \in {"ready", "copying", "archive", "archiving"}
    BY <1>1, <2>1 DEF Initialize, CopyBase, Archive, ArchiveWritten, At, durable, Counters
  <2>3. PICK r : /\ Becomes(p, r) /\ r.pc = c /\ r.req = proc[p].req /\ r.start = proc[p].start
                 /\ r.idx = proc[p].idx /\ r.audit = proc[p].audit
    BY <2>1, <2>2, GotoIs
  <2>4. Knows(r)'
    BY <1>0, <2>1, <2>2, <2>3 DEF Knows, Planning, InStages
  <2>5. QED
    BY <2>2, <2>3, <2>4, Stays
<1>2. CASE Stuck(p) \/ Kill(p)
  <2>1. UNCHANGED <<txn, runs, model>> /\ Becomes(p, Idle)
    BY <1>2 DEF Stuck, Kill, durable, Returns, Becomes
  <2>2. QED
    BY <2>1, IdleKnows, Stays
<1>3. CASE Enter(p)
  <2>1. /\ Goto(p, "stages") /\ "stages" \in Counters /\ proc[p].pc = "archived"
        /\ txn' = txn /\ model = "ready" /\ model' = model /\ runs' = Recovered
    BY <1>3 DEF Enter, At, Counters
  <2>2. PICK r : /\ Becomes(p, r) /\ r.pc = "stages" /\ r.req = proc[p].req /\ r.start = proc[p].start
                 /\ r.idx = proc[p].idx /\ r.audit = proc[p].audit
    BY <2>1, GotoIs
  <2>3. txn # NoTxn /\ txn.start = r.start /\ txn.stages = r.req /\ r.idx = 1 /\ r.audit \in AuditChoices
    BY <1>0, <2>1, <2>2 DEF Knows, Planning, InStages
  <2>4. r.start <= Len(runs) /\ r.start \in Nat
    BY <1>0, <2>3, OpenContinues, TransactionFields DEF Continues
  <2>5. runs' = runs \/ NewestBecomes("running", "interrupted")
    BY <2>1, RecoveredRuns
  <2>6. Len(runs') = Len(runs) /\ Len(runs) \in Nat /\ DOMAIN runs' = 1..Len(runs)
    BY <2>5, RunsTyped DEF NewestBecomes
  <2>7. Knows(r)'
    <3>1. \A i \in DOMAIN runs' : ~(r.start < i /\ i < r.start + r.idx)
      BY <2>3, <2>4, <2>6
    <3>2. r.start + r.idx <= Len(runs') + 1
      BY <2>3, <2>4, <2>6
    <3>3. QED
      BY <2>1, <2>2, <2>3, <3>1, <3>2 DEF Knows, Planning, InStages
  <2>8. HistoryInOrder'
    <3>1. CASE runs' = runs
      BY <1>0, <2>1, <3>1, HistoryStays
    <3>2. CASE NewestBecomes("running", "interrupted")
      <4>1. Len(runs) \in DOMAIN runs /\ runs[Len(runs)].state = "running"
        BY <3>2, RunsTyped DEF NewestBecomes
      <4>2. txn.start < Len(runs)
        BY <1>0, <4>1 DEF HistoryInOrder, OnlyNewest
      <4>3. QED
        BY <1>0, <2>1, <2>3, <3>2, <4>2, HistoryWorks
    <3>3. QED
      BY <2>5, <3>1, <3>2
  <2>9. ModelInOrder'
    <3>1. AuditSame'
      BY <2>5, AuditKept DEF InOrder, ModelInOrder
    <3>2. QED
      BY <2>1, <3>1 DEF ModelInOrder, NoRunsBefore
  <2>10. QED
    BY <2>2, <2>7, <2>8, <2>9, OneProcess
<1>4. CASE CopyFails(p)
  <2>1. proc[p].pc = "copying" /\ txn' = NoTxn /\ runs' = runs /\ model' = model /\ Becomes(p, Idle)
    BY <1>4 DEF CopyFails, At, Returns, Becomes
  <2>2. model = "partial" /\ txn # NoTxn
    BY <1>0, <2>1 DEF Knows, Planning
  <2>3. runs = <<>>
    BY <2>2 DEF InOrder, ModelInOrder, NoRunsBefore
  <2>4. \A i \in DOMAIN runs' : runs'[i].state \notin {"running", "interrupted"}
    BY <2>1, <2>3
  <2>5. HistoryInOrder'
    BY <1>0, <2>1, <2>2, <2>4, HistoryDrops
  <2>6. ModelInOrder'
    BY <2>1, AuditKept DEF InOrder, ModelInOrder, NoRunsBefore
  <2>7. QED
    BY <2>1, <2>5, <2>6, IdleKnows, OneProcess
<1>5. QED
  BY <1>1, <1>2, <1>3, <1>4 DEF PrepareModel

\* Where the process is in the history while it is in the loop.
LEMMA LoopFacts ==
    ASSUME TypeOK, InOrder, NEW p \in Procs, proc[p].pc \in InStages
    PROVE  /\ txn # NoTxn /\ txn.start = proc[p].start /\ txn.stages = proc[p].req
           /\ model = "ready" /\ proc[p].start \in Nat /\ proc[p].start <= Len(runs)
           /\ proc[p].audit \in AuditChoices
           /\ proc[p].idx \in Nat /\ proc[p].idx >= 1 /\ Position(p) <= Len(runs) + 1
           /\ \A i \in DOMAIN runs : proc[p].start < i /\ i < Position(p) => runs[i].state = "complete"
           /\ Exists(p) => /\ Position(p) \in DOMAIN runs
                           /\ runs[Position(p)].state # "complete" => Position(p) = Len(runs)
<1>1. /\ txn # NoTxn /\ txn.start = proc[p].start /\ txn.stages = proc[p].req
      /\ model = "ready" /\ Position(p) <= Len(runs) + 1 /\ proc[p].audit \in AuditChoices
      /\ \A i \in DOMAIN runs : proc[p].start < i /\ i < Position(p) => runs[i].state = "complete"
  BY KnowsHere DEF Knows, InStages, Planning, Position
<1>2. proc[p].start \in Nat /\ proc[p].idx \in Nat /\ proc[p].idx >= 1
      /\ Len(runs) \in Nat /\ DOMAIN runs = 1..Len(runs)
  BY ProcessTyped, RunsTyped
<1>3. txn.start <= Len(runs) /\ \A i \in (txn.start + 1)..Len(runs) : i < Len(runs) => runs[i].state = "complete"
  BY <1>1, OpenContinues DEF InOrder, Continues
<1>4. Exists(p) => Position(p) \in (txn.start + 1)..Len(runs)
  BY <1>1, <1>2 DEF Exists, Position
<1>5. Exists(p) => /\ Position(p) \in DOMAIN runs
                   /\ runs[Position(p)].state # "complete" => Position(p) = Len(runs)
  BY <1>1, <1>2, <1>3, <1>4
<1>6. QED
  BY <1>1, <1>2, <1>3, <1>5

\* A step of the loop that changes the newest run, which is the current one.
LEMMA NewestInOrder ==
    ASSUME TypeOK, TypeOK', InOrder, NEW p \in Procs, Only(p), proc[p].pc \in InStages,
           Position(p) = Len(runs), txn' = txn, model' = model,
           NEW from, NEW to, NewestBecomes(from, to),
           NEW r, Becomes(p, r),
           r = Idle \/ /\ r.req = proc[p].req /\ r.start = proc[p].start /\ r.audit = proc[p].audit
                       /\ \/ r.pc = "training" /\ r.idx = proc[p].idx
                          \/ r.pc = "stages" /\ r.idx = proc[p].idx + 1 /\ to = "complete"
    PROVE  InOrder'
<1>1. /\ txn # NoTxn /\ txn.start = proc[p].start /\ txn.stages = proc[p].req
      /\ model = "ready" /\ proc[p].start \in Nat /\ proc[p].audit \in AuditChoices
      /\ proc[p].idx \in Nat /\ proc[p].idx >= 1
      /\ \A i \in DOMAIN runs : proc[p].start < i /\ i < Position(p) => runs[i].state = "complete"
  BY LoopFacts
<1>2. /\ Len(runs) \in Nat /\ DOMAIN runs = 1..Len(runs) /\ DOMAIN runs' = 1..Len(runs)
      /\ Len(runs') = Len(runs) /\ runs'[Len(runs)].state = to
      /\ \A i \in DOMAIN runs : i < Len(runs) => runs'[i] = runs[i]
  BY RunsTyped DEF NewestBecomes
<1>3. HistoryInOrder'
  <2>1. txn.start < Len(runs)
    BY <1>1 DEF Position
  <2>2. QED
    BY <1>1, <2>1, HistoryWorks DEF InOrder
<1>4. ModelInOrder'
  <2>1. AuditSame'
    BY AuditKept DEF InOrder, ModelInOrder
  <2>2. QED
    BY <1>1, <2>1 DEF ModelInOrder, NoRunsBefore
<1>5. Knows(r)'
  <2>1. CASE r = Idle
    BY <2>1, IdleKnows
  <2>2. CASE r.pc = "training" /\ r.idx = proc[p].idx /\ r.req = proc[p].req /\ r.start = proc[p].start
             /\ r.audit = proc[p].audit
    <3>1. r.start + r.idx = Len(runs)
      BY <2>2 DEF Position
    <3>2. \A i \in DOMAIN runs' : r.start < i /\ i < r.start + r.idx => runs'[i].state = "complete"
      BY <1>1, <1>2, <2>2, <3>1 DEF Position
    <3>3. r.start + r.idx <= Len(runs') + 1
      BY <1>2, <3>1
    <3>4. QED
      BY <1>1, <1>2, <2>2, <3>1, <3>2, <3>3 DEF Knows, Planning, InStages
  <2>3. CASE r.pc = "stages" /\ r.idx = proc[p].idx + 1 /\ to = "complete" /\ r.req = proc[p].req
             /\ r.start = proc[p].start /\ r.audit = proc[p].audit
    <3>1. r.start + r.idx = Len(runs) + 1
      BY <1>1, <2>3 DEF Position
    <3>2. ASSUME NEW i \in DOMAIN runs', r.start < i, i < r.start + r.idx
          PROVE  runs'[i].state = "complete"
      <4>1. CASE i = Len(runs)
        BY <1>2, <2>3, <4>1
      <4>2. CASE i < Len(runs)
        BY <1>1, <1>2, <2>3, <3>2, <4>2 DEF Position
      <4>3. QED
        BY <1>2, <4>1, <4>2
    <3>3. r.start + r.idx <= Len(runs') + 1
      BY <1>2, <3>1
    <3>4. QED
      BY <1>1, <2>3, <3>2, <3>3 DEF Knows, Planning, InStages
  <2>4. QED
    BY <2>1, <2>2, <2>3
<1>6. QED
  BY <1>3, <1>4, <1>5, OneProcess

\* An unfinished run that the loop meets, or the newest one it may resume, is
\* the current one.
LEMMA ResumedIsCurrent ==
    ASSUME TypeOK, InOrder, NEW p \in Procs, Trains(p), Exists(p) \/ LastIs("interrupted")
    PROVE  Position(p) = Len(runs) /\ LastIs("interrupted") /\ Exists(p)
<1>1. proc[p].pc \in InStages
  BY DEF Trains, InLoop, At, InStages
<1>2. Len(runs) \in Nat /\ DOMAIN runs = 1..Len(runs) /\ (runs # <<>> => Len(runs) \in DOMAIN runs)
      /\ Position(p) \in Nat
  BY <1>1, RunsTyped, LoopFacts DEF Position
<1>3. CASE Exists(p)
  <2>1. runs[Position(p)].state = "interrupted"
    BY <1>3 DEF Trains
  <2>2. Position(p) = Len(runs) /\ runs # <<>>
    BY <1>1, <1>2, <1>3, <2>1, LoopFacts
  <2>3. QED
    BY <1>3, <2>1, <2>2 DEF LastIs
<1>4. CASE ~Exists(p) /\ LastIs("interrupted")
  <2>1. Len(runs) \in DOMAIN runs /\ runs[Len(runs)].state = "interrupted"
    BY <1>2, <1>4 DEF LastIs
  <2>2. txn.start < Len(runs)
    BY <2>1 DEF InOrder, HistoryInOrder, OnlyNewest
  <2>3. Len(runs) < Position(p)
    BY <1>2, <1>4 DEF Exists
  <2>4. FALSE
    BY <1>1, <2>1, <2>2, <2>3, LoopFacts
  <2>5. QED
    BY <2>4
<1>5. QED
  BY <1>3, <1>4

LEMMA LoopInOrder ==
    ASSUME TypeOK, TypeOK', InOrder, NEW p \in Procs, Only(p),
           SkipStage(p) \/ WrongRun(p) \/ DeadRun(p) \/ Finish(p)
    PROVE  InOrder'
<1>0. proc[p].pc = "stages" /\ proc[p].pc \in InStages /\ runs' = runs /\ model' = model
  BY DEF SkipStage, WrongRun, DeadRun, Finish, InLoop, At, InStages, durable
<1>1. /\ txn # NoTxn /\ txn.start = proc[p].start /\ txn.stages = proc[p].req
      /\ model = "ready" /\ proc[p].start \in Nat /\ proc[p].audit \in AuditChoices
      /\ proc[p].idx \in Nat /\ Position(p) <= Len(runs) + 1
      /\ \A i \in DOMAIN runs : proc[p].start < i /\ i < Position(p) => runs[i].state = "complete"
      /\ Exists(p) => /\ Position(p) \in DOMAIN runs
                      /\ runs[Position(p)].state # "complete" => Position(p) = Len(runs)
  BY <1>0, LoopFacts
<1>2. Len(runs) \in Nat /\ DOMAIN runs = 1..Len(runs) /\ proc[p] \in Process
  BY RunsTyped, ProcessTyped
<1>3. \A i \in DOMAIN runs : runs[i].state \in {"running", "interrupted"} => i = Len(runs) /\ txn.start < i
  BY DEF InOrder, HistoryInOrder, OnlyNewest
<1>4. ModelInOrder'
  BY <1>0, AuditKept DEF InOrder, ModelInOrder, NoRunsBefore
<1>5. CASE SkipStage(p)
  <2> DEFINE q == [proc[p] EXCEPT !.idx = proc[p].idx + 1]
  <2>1. PICK r : r = q
    OBVIOUS
  <2>2. r.pc = "stages" /\ r.req = proc[p].req /\ r.start = proc[p].start
        /\ r.idx = proc[p].idx + 1 /\ r.audit = proc[p].audit
    BY <1>0, <1>2, <2>1 DEF Process
  <2>3. proc' = [proc EXCEPT ![p] = q]
    BY <1>5, ProcessTyped DEF SkipStage
  <2>4. Becomes(p, r)
    BY <2>1, <2>3 DEF Becomes
  <2>5. Exists(p) /\ runs[Position(p)].state = "complete" /\ txn' = txn
    BY <1>5 DEF SkipStage, durable
  <2>6. r.start + r.idx <= Len(runs) + 1
    BY <1>1, <1>2, <2>2, <2>5 DEF Exists, Position
  <2>7. ASSUME NEW i \in DOMAIN runs, r.start < i, i < r.start + r.idx
        PROVE  runs[i].state = "complete"
    <3>1. i = Position(p) \/ i < Position(p)
      <4>1. r.start + r.idx = proc[p].start + proc[p].idx + 1
        BY <1>1, <2>2
      <4>2. i \in Nat /\ Position(p) = proc[p].start + proc[p].idx
        BY <1>2, <2>7 DEF Position
      <4>3. QED
        BY <1>1, <2>7, <4>1, <4>2
    <3>2. QED
      BY <1>1, <2>2, <2>5, <2>7, <3>1
  <2>8. Knows(r)'
    BY <1>0, <1>1, <2>2, <2>5, <2>6, <2>7 DEF Knows, Planning, InStages
  <2>9. QED
    BY <1>0, <2>4, <2>5, <2>8, Stays
<1>6. Becomes(p, Idle) /\ txn' = txn => InOrder'
  BY <1>0, IdleKnows, Stays
<1>7. Becomes(p, Idle) /\ txn' = NoTxn /\ (\A i \in DOMAIN runs : runs[i].state \notin {"running", "interrupted"})
      => InOrder'
  <2> HAVE Becomes(p, Idle) /\ txn' = NoTxn /\ (\A i \in DOMAIN runs : runs[i].state \notin {"running", "interrupted"})
  <2>1. HistoryInOrder'
    BY <1>0, <1>1, HistoryDrops DEF InOrder
  <2>2. QED
    BY <1>4, <2>1, IdleKnows, OneProcess
<1>8. CASE WrongRun(p)
  BY <1>6, <1>8 DEF WrongRun, durable, Returns, Becomes
<1>9. CASE DeadRun(p)
  <2>1. Becomes(p, Idle) /\ txn' = NoTxn /\ Exists(p) /\ runs[Position(p)].state \in {"planned", "failed"}
    BY <1>9 DEF DeadRun, Returns, Becomes
  <2>2. Position(p) = Len(runs)
    BY <1>1, <2>1
  <2>3. \A i \in DOMAIN runs : runs[i].state \notin {"running", "interrupted"}
    BY <1>3, <2>1, <2>2
  <2>4. QED
    BY <1>7, <2>1, <2>3
<1>10. CASE Finish(p)
  <2>1. Becomes(p, Idle) /\ proc[p].idx > Cardinality(proc[p].req)
        /\ txn' = IF Len(runs) = proc[p].start + Cardinality(proc[p].req) THEN NoTxn ELSE txn
    BY <1>10 DEF Finish, Returns, Becomes
  <2>2. CASE Len(runs) # proc[p].start + Cardinality(proc[p].req)
    BY <1>6, <2>1, <2>2
  <2>3. CASE Len(runs) = proc[p].start + Cardinality(proc[p].req)
    <3>1. Position(p) > Len(runs)
      BY <1>1, <1>2, <2>1, <2>3, ProcessTyped DEF Position
    <3>2. \A i \in DOMAIN runs : runs[i].state \notin {"running", "interrupted"}
      BY <1>1, <1>2, <1>3, <3>1
    <3>3. QED
      BY <1>7, <2>1, <2>3, <3>2
  <2>4. QED
    BY <2>2, <2>3
<1>11. QED
  BY <1>5, <1>8, <1>9, <1>10

\* With one audit choice an interrupted run is resumed, so that a new run is
\* planned only behind complete ones.
LEMMA PlanRunInOrder ==
    ASSUME TypeOK, TypeOK', RunOfProcess, InOrder, NEW p \in Procs, Only(p), PlanRun(p),
           \A a, b \in AuditChoices : a = b
    PROVE  InOrder'
<1>1. proc[p].pc \in InStages /\ Trains(p) /\ InLoop(p) /\ ~ResumableRun(p)
      /\ Goto(p, "starting") /\ "starting" \in Counters /\ txn' = txn /\ model' = model
  BY DEF PlanRun, Trains, InLoop, At, InStages, Counters
<1>2. /\ txn # NoTxn /\ txn.start = proc[p].start /\ txn.stages = proc[p].req
      /\ model = "ready" /\ proc[p].start \in Nat /\ proc[p].audit \in AuditChoices
      /\ proc[p].idx \in Nat /\ proc[p].idx >= 1 /\ Position(p) <= Len(runs) + 1
      /\ \A i \in DOMAIN runs : proc[p].start < i /\ i < Position(p) => runs[i].state = "complete"
  BY <1>1, LoopFacts
<1>3. Len(runs) \in Nat /\ DOMAIN runs = 1..Len(runs) /\ (runs # <<>> => Len(runs) \in DOMAIN runs)
  BY RunsTyped
<1>4. ~Exists(p)
  <2> SUFFICES ASSUME Exists(p) PROVE FALSE
    OBVIOUS
  <2>1. Position(p) = Len(runs) /\ LastIs("interrupted")
    BY <1>1, ResumedIsCurrent
  <2>2. runs[Len(runs)].stage = CurrentStage(p)
    BY <1>1, <2>1 DEF Trains
  <2>3. runs[Len(runs)].audited \in AuditChoices
    BY <1>3, <2>1 DEF LastIs, InOrder, ModelInOrder, AuditSame
  <2>4. ResumableRun(p)
    BY <1>2, <2>1, <2>2, <2>3 DEF ResumableRun
  <2>5. QED
    BY <1>1, <2>4
<1>5. Position(p) = Len(runs) + 1
  BY <1>2, <1>3, <1>4 DEF Exists, Position
<1>6. RunAdded /\ runs'[Len(runs) + 1].stage = StageAt(txn.stages, proc[p].idx)
      /\ runs'[Len(runs) + 1].audited \in AuditChoices
  BY <1>2, PlanRunAdds DEF CurrentStage
<1>7. HistoryInOrder'
  <2>1. proc[p].idx \in 1..Cardinality(txn.stages)
    BY <1>1, <1>2, ProcessTyped DEF InLoop
  <2>2. Len(runs) + 1 = txn.start + proc[p].idx
    BY <1>2, <1>5 DEF Position
  <2>3. \A i \in DOMAIN runs : txn.start < i => runs[i].state = "complete"
    BY <1>2, <1>3, <1>5
  <2>4. QED
    BY <1>1, <1>2, <1>6, <2>1, <2>2, <2>3, HistoryAppends DEF InOrder
<1>8. ModelInOrder'
  <2>1. AuditSame'
    BY <1>6, AuditKept DEF InOrder, ModelInOrder
  <2>2. QED
    BY <1>1, <1>2, <2>1 DEF ModelInOrder, NoRunsBefore
<1>9. PICK r : /\ Becomes(p, r) /\ r.pc = "starting" /\ r.req = proc[p].req /\ r.start = proc[p].start
               /\ r.idx = proc[p].idx /\ r.audit = proc[p].audit
  BY <1>1, GotoIs
<1>10. Knows(r)'
  <2>1. Len(runs') = Len(runs) + 1 /\ DOMAIN runs' = 1..(Len(runs) + 1)
        /\ \A i \in DOMAIN runs : runs'[i] = runs[i]
    BY <1>3, <1>6 DEF RunAdded
  <2>2. r.start + r.idx = Len(runs')
    BY <1>5, <1>9, <2>1 DEF Position
  <2>3. \A i \in DOMAIN runs' : r.start < i /\ i < r.start + r.idx => runs'[i].state = "complete"
    BY <1>2, <1>3, <1>5, <1>9, <2>1, <2>2
  <2>4. r.start + r.idx <= Len(runs') + 1
    BY <1>3, <2>1, <2>2
  <2>5. QED
    BY <1>1, <1>2, <1>9, <2>2, <2>3, <2>4 DEF Knows, Planning, InStages
<1>11. QED
  BY <1>7, <1>8, <1>9, <1>10, OneProcess

LEMMA TrainInOrder ==
    ASSUME TypeOK, TypeOK', RunOfProcess, InOrder, NEW p \in Procs, Only(p),
           \/ ResumeRun(p) \/ StartRun(p) \/ Checkpoint(p) \/ CompleteRun(p)
           \/ \E b \in BOOLEAN : Interrupted(p, b) \/ Failed(p, b)
    PROVE  InOrder'
<1>0. Knows(proc[p]) /\ proc[p] \in Process /\ model' = model
  BY KnowsHere, ProcessTyped DEF ResumeRun, StartRun, Checkpoint, CompleteRun, Interrupted, Failed
<1>1. CASE ResumeRun(p)
  <2>1. /\ proc[p].pc \in InStages /\ Trains(p) /\ LastIs("interrupted") /\ txn' = txn
        /\ Goto(p, "training") /\ "training" \in Counters
        /\ runs' = [runs EXCEPT ![Len(runs)].state = "running"]
    BY <1>1 DEF ResumeRun, ResumableRun, Trains, InLoop, At, InStages, Counters
  <2>2. Position(p) = Len(runs)
    BY <2>1, ResumedIsCurrent
  <2>3. NewestBecomes("interrupted", "running")
    BY <2>1, UpdateNewest DEF LastIs, RunStates
  <2>4. PICK r : /\ Becomes(p, r) /\ r.pc = "training" /\ r.req = proc[p].req /\ r.start = proc[p].start
                 /\ r.idx = proc[p].idx /\ r.audit = proc[p].audit
    BY <2>1, GotoIs
  <2>5. QED
    BY <1>0, <2>1, <2>2, <2>3, <2>4, NewestInOrder
<1>2. CASE StartRun(p)
  <2>1. /\ proc[p].pc = "starting" /\ proc[p].pc \in InStages /\ LastIs("planned") /\ txn' = txn
        /\ Goto(p, "training") /\ "training" \in Counters
        /\ runs' = [runs EXCEPT ![Len(runs)].state = "running"]
    BY <1>2 DEF StartRun, RunOfProcess, At, InStages, Counters
  <2>2. Position(p) = Len(runs)
    BY <1>0, <2>1 DEF Knows, Position
  <2>3. NewestBecomes("planned", "running")
    BY <2>1, UpdateNewest DEF LastIs, RunStates
  <2>4. PICK r : /\ Becomes(p, r) /\ r.pc = "training" /\ r.req = proc[p].req /\ r.start = proc[p].start
                 /\ r.idx = proc[p].idx /\ r.audit = proc[p].audit
    BY <2>1, GotoIs
  <2>5. QED
    BY <1>0, <2>1, <2>2, <2>3, <2>4, NewestInOrder
<1>3. CASE At(p, "training")
  <2>1. proc[p].pc = "training" /\ proc[p].pc \in InStages /\ LastIs("running")
    BY <1>3 DEF RunOfProcess, At, InStages
  <2>2. Position(p) = Len(runs)
    BY <1>0, <2>1 DEF Knows, Position
  <2>3. runs # <<>> /\ runs[Len(runs)].state = "running"
    BY <2>1 DEF LastIs
  <2>4. CASE Checkpoint(p)
    <3>1. runs' = [runs EXCEPT ![Len(runs)].ckpt = TRUE] /\ proc' = proc /\ txn' = txn
      BY <2>4 DEF Checkpoint
    <3>2. NewestBecomes("running", "running")
      BY <2>3, <3>1, UpdateNewest DEF RunStates
    <3>3. PICK r : r = proc[p]
      OBVIOUS
    <3>4. Becomes(p, r)
      BY <3>1, <3>3, ProcessTyped DEF Becomes
    <3>5. QED
      BY <1>0, <2>1, <2>2, <3>1, <3>2, <3>3, <3>4, NewestInOrder
  <2>5. CASE CompleteRun(p)
    <3> DEFINE q == [proc[p] EXCEPT !.pc = "stages", !.idx = proc[p].idx + 1]
    <3>1. runs' = [runs EXCEPT ![Len(runs)].state = "complete"] /\ txn' = txn
      BY <2>5 DEF CompleteRun
    <3>2. NewestBecomes("running", "complete")
      BY <2>3, <3>1, UpdateNewest DEF RunStates
    <3>3. PICK r : r = q
      OBVIOUS
    <3>4. r.pc = "stages" /\ r.req = proc[p].req /\ r.start = proc[p].start
          /\ r.idx = proc[p].idx + 1 /\ r.audit = proc[p].audit
      BY <1>0, <3>3 DEF Process
    <3>5. proc' = [proc EXCEPT ![p] = q]
      BY <2>5, ProcessTyped DEF CompleteRun
    <3>6. Becomes(p, r)
      BY <3>3, <3>5 DEF Becomes
    <3>7. QED
      BY <1>0, <2>1, <2>2, <3>1, <3>2, <3>4, <3>6, NewestInOrder
  <2>6. CASE \E b \in BOOLEAN : Interrupted(p, b)
    <3>1. runs' = [runs EXCEPT ![Len(runs)].state = "interrupted"] /\ txn' = txn /\ Becomes(p, Idle)
      BY <2>6 DEF Interrupted, Returns, Becomes
    <3>2. NewestBecomes("running", "interrupted")
      BY <2>3, <3>1, UpdateNewest DEF RunStates
    <3>3. PICK r : r = Idle
      OBVIOUS
    <3>4. QED
      BY <1>0, <2>1, <2>2, <3>1, <3>2, <3>3, NewestInOrder
  <2>7. CASE \E b \in BOOLEAN : Failed(p, b)
    <3>1. runs' = [runs EXCEPT ![Len(runs)].state = "failed"] /\ txn' = NoTxn /\ Becomes(p, Idle)
      BY <2>7 DEF Failed, Returns, Becomes
    <3>2. NewestBecomes("running", "failed")
      BY <2>3, <3>1, UpdateNewest DEF RunStates
    <3>3. txn # NoTxn /\ txn.start < Len(runs) /\ model = "ready"
      BY <2>1, <2>2, LoopFacts DEF Position
    <3>4. \A i \in DOMAIN runs' : runs'[i].state \notin {"running", "interrupted"}
      <4>1. /\ Len(runs) \in Nat /\ DOMAIN runs = 1..Len(runs) /\ DOMAIN runs' = 1..Len(runs)
            /\ runs'[Len(runs)].state = "failed"
            /\ \A i \in DOMAIN runs : i < Len(runs) => runs'[i] = runs[i]
        BY <3>2, RunsTyped DEF NewestBecomes
      <4>2. \A i \in DOMAIN runs : i < Len(runs) => runs[i].state \notin {"running", "interrupted"}
        BY <4>1 DEF InOrder, HistoryInOrder, OnlyNewest
      <4>3. ASSUME NEW i \in DOMAIN runs' PROVE runs'[i].state \notin {"running", "interrupted"}
        <5>1. i = Len(runs) \/ (i \in DOMAIN runs /\ i < Len(runs))
          BY <4>1
        <5>2. QED
          BY <4>1, <4>2, <5>1
      <4>4. QED
        BY <4>3
    <3>5. HistoryInOrder'
      BY <3>1, <3>2, <3>3, <3>4, HistoryDrops DEF InOrder
    <3>6. AuditSame'
      BY <3>2, AuditKept DEF InOrder, ModelInOrder
    <3>7. ModelInOrder'
      BY <1>0, <3>3, <3>6 DEF ModelInOrder, NoRunsBefore
    <3>8. QED
      BY <3>1, <3>5, <3>7, IdleKnows, OneProcess
  <2>8. QED
    BY <1>1, <1>2, <2>4, <2>5, <2>6, <2>7
<1>4. QED
  BY <1>1, <1>2, <1>3 DEF Checkpoint, CompleteRun, Interrupted, Failed

-----------------------------------------------------------------------------

LEMMA InOrderInit == Init => InOrder
<1> SUFFICES ASSUME Init PROVE InOrder
  OBVIOUS
<1>1. txn = NoTxn /\ runs = <<>> /\ \A p \in Procs : proc[p] = Idle
  BY DEF Init
<1>2. Len(runs) = 0 /\ DOMAIN runs = {} /\ CompletedAmong(Len(runs)) = {}
  BY <1>1 DEF CompletedAmong
<1>3. CompletedPrefix
  <2>1. 1..0 = {} /\ 0 \in 0..NumStages
    OBVIOUS
  <2>2. QED
    BY <1>2, <2>1 DEF CompletedPrefix
<1>4. HistoryInOrder
  BY <1>1, <1>2, <1>3 DEF HistoryInOrder, TransactionOK, OnlyNewest, CompletedInOrder
<1>5. ModelInOrder
  BY <1>1, <1>2 DEF ModelInOrder, AuditSame, NoRunsBefore
<1>6. \A p \in Procs : Knows(proc[p])
  BY <1>1, IdleKnows
<1>7. QED
  BY <1>4, <1>5, <1>6 DEF InOrder

LEMMA InOrderStep ==
    ASSUME \A p, q \in Procs : p = q, \A a, b \in AuditChoices : a = b
    PROVE  IInv /\ IInv' /\ InOrder /\ [Next]_vars => InOrder'
<1> SUFFICES ASSUME IInv, IInv', InOrder, [Next]_vars PROVE InOrder'
  OBVIOUS
<1>0. TypeOK /\ TypeOK' /\ RunOfProcess
  BY DEF IInv
<1>1. CASE UNCHANGED vars
  <2>1. HistoryInOrder' /\ UNCHANGED <<txn, runs, model, proc>>
    BY <1>1, HistoryStays DEF InOrder, vars, durable
  <2>2. ModelInOrder'
    BY <1>0, <2>1, AuditKept DEF InOrder, ModelInOrder, NoRunsBefore
  <2>3. \A p \in Procs : Knows(proc[p])'
    BY <2>1, RemainingStays DEF InOrder, Knows
  <2>4. QED
    BY <2>1, <2>2, <2>3 DEF InOrder
<1>2. CASE Next
  <2>1. PICK p \in Procs : \/ \E audit \in AuditChoices : Plan(p, audit)
                           \/ Lock(p) \/ LockBusy(p) \/ Compose(p) \/ Checkpoint(p)
                           \/ \E b \in BOOLEAN : Interrupted(p, b) \/ Failed(p, b)
                           \/ CopyFails(p) \/ Kill(p)
    BY <1>2 DEF Next
  <2>2. Only(p)
    BY DEF Only
  <2>3. CASE (\E audit \in AuditChoices : Plan(p, audit)) \/ Lock(p) \/ LockBusy(p)
    BY <1>0, <2>2, <2>3, PlanInOrder
  <2>4. CASE OpenTransaction(p)
    BY <1>0, <2>2, <2>4, OpenInOrder
  <2>5. CASE PrepareModel(p) \/ CopyFails(p) \/ Kill(p)
    BY <1>0, <2>2, <2>5, PrepareInOrder
  <2>6. CASE StageStep(p)
    BY <1>0, <2>2, <2>6, LoopInOrder, PlanRunInOrder, TrainInOrder DEF StageStep
  <2>7. CASE Checkpoint(p) \/ \E b \in BOOLEAN : Interrupted(p, b) \/ Failed(p, b)
    BY <1>0, <2>2, <2>7, TrainInOrder
  <2>8. QED
    BY <2>1, <2>3, <2>4, <2>5, <2>6, <2>7 DEF Compose
<1>3. QED
  BY <1>1, <1>2

\* One invocation after another, all with the same audit option, trains every
\* stage once and in the order of the compose, and never leaves a run behind
\* that has a checkpoint, wherever a process fails or is killed (Compose and
\* resumableRun, build.go; SkipCompletedCorpora, corpus_history.go).
THEOREM EveryStageOnceInOrder ==
    ASSUME \A a, b \in AuditChoices : a = b
    PROVE  Spec => []StagesOnceInOrder
<1>1. CASE \A p, q \in Procs : p = q
  <2>1. Init => InOrder
    BY InOrderInit
  <2>2. IInv /\ IInv' /\ InOrder /\ [Next]_vars => InOrder'
    BY <1>1, InOrderStep
  <2>3. InOrder => StagesOnceInOrder
    BY DEF InOrder, HistoryInOrder, OnlyNewest, StagesOnceInOrder, CheckpointNotAbandoned
  <2>4. QED
    BY <2>1, <2>2, <2>3, ComposeInvariant, PTL DEF Spec
<1>2. CASE ~ \A p, q \in Procs : p = q
  <2>1. TypeOK => StagesOnceInOrder
    BY <1>2 DEF TypeOK, StagesOnceInOrder
  <2>2. QED
    BY <2>1, TypeCorrect, PTL
<1>3. QED
  BY <1>1, <1>2
=============================================================================
