--------------------------- MODULE RunProgressProofs ---------------------------
(***************************************************************************)
(* Proofs about the durable progress of a training run, for any number of   *)
(* steps, any cadences, losses, pipe bound and number of faults, for both    *)
(* bundling modes and with every crash window open or closed.               *)
(***************************************************************************)
EXTENDS RunProgress, WellFoundedInduction, TLAPS

USE StepsAssumption, BoundsAssumption DEF StepNumbers

-----------------------------------------------------------------------------
(* The inductive invariant.                                                 *)

Writing == pc \in {"writeRun", "writeModel", "writeBOM"}

\* Between attempts nothing is held in memory.
Rest == run = Planned /\ pin = PlannedPin /\ worker = NoWorker /\ pipe = <<>> /\ verdict = "none"

\* Where an attempt stands, and what RUN.json says by then.
ControlOK ==
    /\ pc \in {"fresh", "off"} => Rest /\ ~stale
    /\ pc = "fresh" => runFile = Planned /\ pinFile = PlannedPin
    /\ pc = "run" => runFile.state = "running" /\ run.state = "running"
    /\ Writing => doing # "nothing"
    /\ Writing /\ doing \in {"start", "event"} => run.state = "running"
    /\ Writing /\ doing \in {"recover", "start"} =>
          worker = NoWorker /\ pipe = <<>> /\ verdict = "none" /\ ~stale
    /\ pc = "writeRun" => runFile.state # "complete"
    /\ pc = "writeRun" /\ doing = "event" => runFile.state = "running"
    /\ pc \in {"writeModel", "writeBOM"} => runFile = run
    /\ verdict = "complete" => worker.at = "complete"

\* The attempt's record extends the durable one.
HistoryKept ==
    pc \in {"run"} \/ Writing =>
        runFile.ckpts \subseteq run.ckpts /\ runFile.evals \subseteq run.evals

\* What the worker claims, and what is on its way, has been committed.
CommittedFirst ==
    /\ worker.ckpts \subseteq bundles
    /\ worker.at = "reportCheckpoint" => worker.step \in bundles
    /\ \A i \in DOMAIN pipe : pipe[i].kind = "checkpoint" => pipe[i].step \in bundles

PinsRecorded ==
    /\ pinFile.resume \in runFile.ckpts \cup {0}
    /\ pin.resume \in run.ckpts \cup {0}

\* How far the worker has come in each of its phases.
WorkerSteps ==
    /\ worker.at = "train" => worker.step < Steps
    /\ worker.at \notin {"none", "train"} => worker.step >= 1

\* A living worker knows everything that was recorded of it.
WorkerKnows ==
    worker.at # "none" =>
        /\ run.ckpts \subseteq worker.ckpts
        /\ run.evals \subseteq worker.evals
        /\ \A i \in DOMAIN pipe :
              pipe[i].step \in IF pipe[i].kind = "checkpoint" THEN worker.ckpts ELSE worker.evals

\* Nothing is evaluated before a checkpoint exists, and so nothing is recorded
\* as evaluated before a checkpoint is.
CheckpointFirst ==
    /\ runFile.evals # {} => runFile.ckpts # {}
    /\ run.evals # {} => run.ckpts # {}
    /\ worker.evals # {} => worker.ckpts # {}
    /\ worker.at = "reportEvaluation" => worker.ckpts # {}
    /\ ~stale /\ worker.ckpts # {} =>
          run.ckpts # {} \/ \E j \in DOMAIN pipe : pipe[j].kind = "checkpoint"
    /\ ~stale => \A i \in DOMAIN pipe :
          pipe[i].kind = "evaluation" =>
              run.ckpts # {} \/ \E j \in DOMAIN pipe : j < i /\ pipe[j].kind = "checkpoint"

\* The published checkpoint of a complete record is the earliest best.
Published(r) ==
    r.state = "complete" =>
        /\ r.selected \in r.ckpts \cap r.evals
        /\ \A s \in (r.ckpts \cap r.evals) \ {r.selected} :
             \/ loss[r.selected] < loss[s]
             \/ loss[r.selected] = loss[s] /\ r.selected < s

BestKept == Published(run) /\ Published(runFile)

IInv ==
    /\ TypeOK /\ ControlOK /\ HistoryKept /\ RecordedIsOnDisk /\ CommittedFirst
    /\ PinsRecorded /\ WorkerSteps /\ WorkerKnows /\ CheckpointFirst /\ BestKept

-----------------------------------------------------------------------------
(* The operators on steps.                                                  *)

Less == {p \in Nat \X Nat : p[1] < p[2]}

\* Every nonempty set of naturals has a least element.
LEMMA LeastExists ==
    ASSUME NEW T \in SUBSET Nat, T # {}
    PROVE  \E x \in T : \A y \in T : x <= y
<1>1. IsWellFoundedOn(Less, Nat)
  BY NatLessThanWellFounded DEF OpToRel, Less
<1>2. PICK x \in T : \A y \in T : ~(<<y, x>> \in Less)
  BY <1>1, WFMin
<1>3. \A y \in T : ~(y < x)
  BY <1>2 DEF Less
<1>4. QED
  BY <1>3

\* NewestOf is the maximum, 0 if nothing is recorded.
LEMMA NewestIsMax ==
    ASSUME NEW S \in SUBSET StepNumbers
    PROVE  /\ NewestOf(S) \in 0..Steps
           /\ S = {} => NewestOf(S) = 0
           /\ S # {} => NewestOf(S) \in S
           /\ \A t \in S : t <= NewestOf(S)
<1>1. CASE S = {}
  BY <1>1 DEF NewestOf
<1>2. CASE S # {}
  <2> DEFINE T == {Steps - s : s \in S}
  <2>1. T \in SUBSET Nat /\ T # {}
    <3>1. \A s \in S : Steps - s \in Nat
      OBVIOUS
    <3>2. QED
      BY <1>2, <3>1
  <2>2. PICK x \in T : \A y \in T : x <= y
    BY <2>1, LeastExists
  <2>3. PICK m \in S : x = Steps - m
    BY <2>2
  <2>4. \A t \in S : Steps - m <= Steps - t
    BY <2>2, <2>3
  <2>5. \A t \in S : t <= m
    BY <2>4
  <2>6. NewestOf(S) \in S /\ \A t \in S : t <= NewestOf(S)
    BY <1>2, <2>5 DEF NewestOf
  <2>7. NewestOf(S) \in StepNumbers
    BY <2>6
  <2>8. NewestOf(S) \in 0..Steps
    BY <2>7
  <2>9. QED
    BY <1>2, <2>6, <2>8
<1>3. QED
  BY <1>1, <1>2

\* BestOf is the earliest step with the lowest loss.
LEMMA BestIsEarliest ==
    ASSUME NEW S \in SUBSET StepNumbers, loss \in [StepNumbers -> Losses]
    PROVE  /\ BestOf(S) \in S \cup {0}
           /\ S # {} => BestOf(S) \in S
           /\ \A t \in S : \/ loss[BestOf(S)] < loss[t]
                           \/ loss[BestOf(S)] = loss[t] /\ BestOf(S) <= t
<1>1. CASE S = {}
  BY <1>1 DEF BestOf
<1>2. CASE S # {}
  <2> DEFINE L == {loss[s] : s \in S}
  <2>1. L \in SUBSET Nat /\ L # {}
    BY <1>2, LossesAssumption
  <2>2. PICK l \in L : \A y \in L : l <= y
    BY <2>1, LeastExists
  <2> DEFINE T == {s \in S : loss[s] = l}
  <2>3. T \in SUBSET Nat /\ T # {}
    <3>1. PICK s \in S : l = loss[s]
      BY <2>2
    <3>2. S \subseteq Nat
      OBVIOUS
    <3>3. QED
      BY <3>1, <3>2
  <2>4. PICK b \in T : \A y \in T : b <= y
    BY <2>3, LeastExists
  <2>5. \A t \in S : loss[b] < loss[t] \/ (loss[b] = loss[t] /\ b <= t)
    <3> TAKE t \in S
    <3>1. loss[b] = l /\ loss[t] \in L /\ l \in Nat /\ loss[t] \in Nat
      BY <2>1, <2>2, <2>4
    <3>2. l <= loss[t]
      BY <2>2, <3>1
    <3>3. loss[t] = l => b <= t
      BY <2>4
    <3>4. QED
      BY <3>1, <3>2, <3>3
  <2>6. QED
    BY <1>2, <2>4, <2>5 DEF BestOf
<1>3. QED
  BY <1>1, <1>2

-----------------------------------------------------------------------------
(* Types.                                                                   *)

\* What an attempt forgets when it ends is well-typed.
LEMMA EndsTyped ==
    ASSUME Ends
    PROVE  /\ pc' = "off" /\ doing' = "nothing" /\ run' \in Run /\ pin' \in Pin
           /\ stale' \in BOOLEAN /\ worker' \in Worker /\ pipe' \in Seq(Event)
           /\ Len(pipe') <= PipeBound /\ verdict' = "none"
<1>1. Planned \in Run /\ PlannedPin \in Pin /\ NoWorker \in Worker
  BY DEF Planned, PlannedPin, NoWorker, Run, RunStates, Pin, Worker, WorkerPhases
<1>2. <<>> \in Seq(Event) /\ Len(<<>>) <= PipeBound
  OBVIOUS
<1>3. QED
  BY <1>1, <1>2 DEF Ends

\* Changing a field of a record, a pin or a worker keeps it typed.
LEMMA RunUpdates ==
    /\ \A r \in Run, S \in SUBSET StepNumbers : [r EXCEPT !.ckpts = S] \in Run
    /\ \A r \in Run, S \in SUBSET StepNumbers : [r EXCEPT !.evals = S] \in Run
    /\ \A r \in Run, s \in RunStates : [r EXCEPT !.state = s] \in Run
    /\ \A r \in Run, s \in RunStates, c \in {"", "integrity"} :
          [r EXCEPT !.state = s, !.class = c] \in Run
  BY DEF Run

LEMMA PinUpdates ==
    /\ \A p \in Pin, s \in RunStates : [p EXCEPT !.state = s] \in Pin
    /\ \A p \in Pin, n \in 0..Steps : [p EXCEPT !.resume = n] \in Pin
  BY DEF Pin

LEMMA WorkerUpdates ==
    /\ \A w \in Worker, a \in WorkerPhases : [w EXCEPT !.at = a] \in Worker
    /\ \A w \in Worker, a \in WorkerPhases, n \in 0..Steps :
          [w EXCEPT !.step = n, !.at = a] \in Worker
    /\ \A w \in Worker, a \in WorkerPhases, b \in BOOLEAN :
          [w EXCEPT !.evaluating = b, !.at = a] \in Worker
    /\ \A w \in Worker, a \in WorkerPhases, S \in SUBSET StepNumbers :
          [w EXCEPT !.ckpts = S, !.at = a] \in Worker
    /\ \A w \in Worker, a \in WorkerPhases, S \in SUBSET StepNumbers, n \in 0..Steps, b \in BOOLEAN :
          [w EXCEPT !.evals = S, !.last = n, !.evaluating = b, !.at = a] \in Worker
  BY DEF Worker

\* The fields of the records are typed.
LEMMA Fields ==
    ASSUME TypeOK
    PROVE  /\ run \in Run /\ runFile \in Run /\ pin \in Pin /\ pinFile \in Pin /\ worker \in Worker
           /\ run.ckpts \in SUBSET StepNumbers /\ run.evals \in SUBSET StepNumbers
           /\ runFile.ckpts \in SUBSET StepNumbers /\ runFile.evals \in SUBSET StepNumbers
           /\ pin.resume \in 0..Steps /\ pinFile.resume \in 0..Steps
           /\ worker.ckpts \in SUBSET StepNumbers /\ worker.evals \in SUBSET StepNumbers
           /\ worker.step \in 0..Steps /\ worker.at \in WorkerPhases
           /\ Len(pipe) \in Nat /\ DOMAIN pipe = 1 .. Len(pipe)
<1>1. run \in Run /\ runFile \in Run /\ pin \in Pin /\ pinFile \in Pin /\ worker \in Worker
      /\ pipe \in Seq(Event)
  BY DEF TypeOK
<1>2. run.ckpts \in SUBSET StepNumbers /\ run.evals \in SUBSET StepNumbers
      /\ runFile.ckpts \in SUBSET StepNumbers /\ runFile.evals \in SUBSET StepNumbers
  BY <1>1 DEF Run
<1>3. pin.resume \in 0..Steps /\ pinFile.resume \in 0..Steps
  BY <1>1 DEF Pin
<1>4. worker.ckpts \in SUBSET StepNumbers /\ worker.evals \in SUBSET StepNumbers
      /\ worker.step \in 0..Steps /\ worker.at \in WorkerPhases
  BY <1>1 DEF Worker
<1>5. Len(pipe) \in Nat /\ DOMAIN pipe = 1 .. Len(pipe)
  BY <1>1
<1>6. QED
  BY <1>1, <1>2, <1>3, <1>4, <1>5

\* A worker starts where the attempt resumes, or at the beginning.
LEMMA LaunchedTyped ==
    ASSUME TypeOK
    PROVE  /\ Launched \in Worker
           /\ ResumeStep = 0 => Launched = [NoWorker EXCEPT !.at = "train"]
           /\ ResumeStep # 0 => /\ Launched.at = IF ResumeStep < Steps THEN "train" ELSE "finish"
                                /\ Launched.step = ResumeStep
                                /\ Launched.ckpts = run.ckpts /\ Launched.evals = run.evals
           /\ ResumeStep \in 0..Steps
<1>1. NewestOf(run.ckpts) \in 0..Steps /\ NewestOf(run.evals) \in 0..Steps
  BY Fields, NewestIsMax
<1>2. ResumeStep \in 0..Steps
  BY <1>1, Fields DEF ResumeStep
<1>3. [NoWorker EXCEPT !.at = "train"] \in Worker
  <2>1. NoWorker \in Worker
    BY DEF NoWorker, Worker, WorkerPhases
  <2>2. QED
    BY <2>1 DEF Worker, WorkerPhases
<1>4. CASE ResumeStep = 0
  BY <1>2, <1>3, <1>4 DEF Launched
<1>5. CASE ResumeStep # 0
  <2>1. Launched = [at |-> IF ResumeStep < Steps THEN "train" ELSE "finish", step |-> ResumeStep,
                    ckpts |-> run.ckpts, evals |-> run.evals, last |-> NewestOf(run.evals),
                    evaluating |-> FALSE]
    BY <1>5 DEF Launched
  <2>2. Launched \in Worker
    BY <2>1, <1>1, <1>2, Fields DEF Worker, WorkerPhases
  <2>3. QED
    BY <1>2, <1>5, <2>1, <2>2
<1>6. QED
  BY <1>4, <1>5

\* The event at the head of the pipe is typed, and so is what is left.
LEMMA ReadingTyped ==
    ASSUME TypeOK, Reading
    PROVE  /\ NextEvent \in Event /\ NextEvent = pipe[1] /\ 1 \in DOMAIN pipe
           /\ pipe' \in Seq(Event) /\ Len(pipe') <= PipeBound
           /\ DOMAIN pipe' = 1 .. Len(pipe) - 1
           /\ \A i \in DOMAIN pipe' : i + 1 \in DOMAIN pipe /\ pipe'[i] = pipe[i + 1]
<1>1. pipe \in Seq(Event) /\ pipe # <<>> /\ pipe' = Tail(pipe) /\ Len(pipe) <= PipeBound
  BY DEF TypeOK, Reading
<1>2. Len(pipe) \in Nat /\ Len(pipe) > 0
  BY <1>1
<1>3. pipe' \in Seq(Event) /\ Len(pipe') = Len(pipe) - 1
  BY <1>1
<1>4. \A i \in 1 .. Len(pipe) - 1 : pipe'[i] = pipe[i + 1]
  BY <1>1
<1>5. NextEvent \in Event /\ NextEvent = pipe[1]
  BY <1>1 DEF NextEvent
<1>6. QED
  BY <1>1, <1>2, <1>3, <1>4, <1>5

\* The worker appends the event of its step.
LEMMA EmitTyped ==
    ASSUME TypeOK, NEW kind \in {"checkpoint", "evaluation"}, worker.step \in StepNumbers, Emit(kind)
    PROVE  /\ pipe' \in Seq(Event) /\ Len(pipe') <= PipeBound
           /\ Len(pipe') = Len(pipe) + 1 /\ DOMAIN pipe = 1 .. Len(pipe)
           /\ DOMAIN pipe' = 1 .. Len(pipe) + 1
           /\ \A i \in DOMAIN pipe : pipe'[i] = pipe[i]
           /\ pipe'[Len(pipe) + 1] = [kind |-> kind, step |-> worker.step]
<1> DEFINE e == [kind |-> kind, step |-> worker.step]
<1>1. pipe \in Seq(Event) /\ e \in Event /\ pipe' = Append(pipe, e) /\ Len(pipe) < PipeBound
  BY DEF TypeOK, Emit, Event
<1> HIDE DEF e
<1>2. Len(pipe) \in Nat /\ DOMAIN pipe = 1 .. Len(pipe)
  BY <1>1
<1>3. pipe' \in Seq(Event) /\ Len(pipe') = Len(pipe) + 1 /\ pipe'[Len(pipe) + 1] = e
  BY <1>1
<1>4. \A i \in 1 .. Len(pipe) : pipe'[i] = pipe[i]
  BY <1>1
<1>5. DOMAIN pipe' = 1 .. Len(pipe) + 1
  BY <1>3
<1>6. QED
  BY <1>1, <1>2, <1>3, <1>4, <1>5 DEF e

\* The record that completes a run is typed.
LEMMA MergedTyped ==
    ASSUME TypeOK
    PROVE  /\ MergedCheckpoints \in SUBSET StepNumbers
           /\ MergedEvaluations \in SUBSET StepNumbers
           /\ Selected \in 0..Steps
<1>1. worker.ckpts \in SUBSET StepNumbers /\ worker.evals \in SUBSET StepNumbers
  BY DEF TypeOK, Worker
<1>2. run.ckpts \in SUBSET StepNumbers /\ run.evals \in SUBSET StepNumbers
  BY DEF TypeOK, Run
<1>3. Selected \in (worker.ckpts \cap worker.evals) \cup {0}
  BY <1>1, BestIsEarliest DEF Selected, TypeOK
<1>4. QED
  BY <1>1, <1>2, <1>3 DEF MergedCheckpoints, MergedEvaluations

\* The first state is typed.
LEMMA TypeInit == Init => TypeOK
<1> SUFFICES ASSUME Init PROVE TypeOK
  OBVIOUS
<1>1. Planned \in Run /\ PlannedPin \in Pin /\ NoWorker \in Worker
  BY DEF Planned, PlannedPin, NoWorker, Run, RunStates, Pin, Worker, WorkerPhases
<1>2. pipe \in Seq(Event) /\ Len(pipe) <= PipeBound
  BY DEF Init
<1>3. QED
  <2>1. runFile \in Run /\ run \in Run /\ pinFile \in Pin /\ pin \in Pin /\ worker \in Worker
    BY <1>1 DEF Init
  <2>2. loss \in [StepNumbers -> Losses] /\ stamped = TRUE /\ bundles = {} /\ stale = FALSE
        /\ pc = "fresh" /\ doing = "nothing" /\ verdict = "none" /\ faults = 0
    BY DEF Init
  <2>3. faults \in 0..MaxFaults /\ bundles \in SUBSET StepNumbers
    BY <2>2
  <2>4. QED
    BY <1>2, <2>1, <2>2, <2>3 DEF TypeOK

\* Every action keeps the type of every variable.
LEMMA TypeStep == TypeOK /\ WorkerSteps /\ [Next]_vars => TypeOK'
<1> SUFFICES ASSUME TypeOK, WorkerSteps, [Next]_vars PROVE TypeOK'
  OBVIOUS
<1>0. NoWorker \in Worker
  BY DEF NoWorker, Worker, WorkerPhases
<1>1. CASE UNCHANGED vars
  BY <1>1 DEF vars, durable, attempt, TypeOK
<1>2. CASE Recover
  <2>1. run' \in Run /\ pin' \in Pin
    BY <1>2, RunUpdates, PinUpdates, Fields DEF Recover, RunStates
  <2>2. QED
    BY <1>2, <2>1 DEF Recover, Persist, TypeOK, durable
<1>3. CASE Begin
  <2>1. run' \in Run /\ pin' \in Pin
    BY <1>3, RunUpdates, PinUpdates, Fields DEF Begin, RunStates
  <2>2. QED
    BY <1>3, <2>1 DEF Begin, Persist, TypeOK, durable
<1>4. CASE WriteRun
  BY <1>4 DEF WriteRun, TypeOK
<1>5. CASE WriteModel
  BY <1>5 DEF WriteModel, TypeOK
<1>6. CASE WriteBOM
  <2>1. stamped' = TRUE /\ UNCHANGED <<loss, runFile, pinFile, bundles, faults>>
    BY <1>6 DEF WriteBOM
  <2>2. CASE doing = "start"
    BY <1>6, <2>1, <2>2, LaunchedTyped DEF WriteBOM, TypeOK
  <2>3. CASE doing = "event"
    BY <1>6, <2>1, <2>3 DEF WriteBOM, TypeOK
  <2>4. CASE doing \notin {"start", "event"}
    <3>1. Ends
      BY <1>6, <2>4 DEF WriteBOM
    <3>2. QED
      BY <2>1, <3>1, EndsTyped DEF TypeOK
  <2>5. QED
    BY <2>2, <2>3, <2>4
<1>7. CASE DropEvent
  BY <1>7, ReadingTyped DEF DropEvent, TypeOK, durable, attempt
<1>8. CASE RecordCheckpoint
  <2>1. NextEvent.step \in StepNumbers /\ pipe' \in Seq(Event) /\ Len(pipe') <= PipeBound
    BY <1>8, ReadingTyped DEF RecordCheckpoint, Event
  <2>2. run' \in Run /\ pin' \in Pin
    <3>1. run.ckpts \cup {NextEvent.step} \in SUBSET StepNumbers /\ NextEvent.step \in 0..Steps
      BY <2>1, Fields
    <3>2. run' = [run EXCEPT !.ckpts = run.ckpts \cup {NextEvent.step}]
          /\ pin' = [pin EXCEPT !.resume = NextEvent.step]
      BY <1>8 DEF RecordCheckpoint
    <3>3. QED
      BY <3>1, <3>2, RunUpdates, PinUpdates, Fields
  <2>3. QED
    BY <1>8, <2>1, <2>2 DEF RecordCheckpoint, Persist, TypeOK, durable
<1>9. CASE RecordEvaluation
  <2>1. NextEvent.step \in StepNumbers /\ pipe' \in Seq(Event) /\ Len(pipe') <= PipeBound
    BY <1>9, ReadingTyped DEF RecordEvaluation, Event
  <2>2. run' \in Run
    <3>1. run.evals \cup {NextEvent.step} \in SUBSET StepNumbers
      BY <2>1, Fields
    <3>2. run' = [run EXCEPT !.evals = run.evals \cup {NextEvent.step}]
      BY <1>9 DEF RecordEvaluation
    <3>3. QED
      BY <3>1, <3>2, RunUpdates, Fields
  <2>3. QED
    BY <1>9, <2>1, <2>2 DEF RecordEvaluation, Persist, TypeOK, durable
<1>10. CASE RepeatEvaluation
  BY <1>10, ReadingTyped DEF RepeatEvaluation, TypeOK, durable, attempt
<1>11. CASE RejectEvent
  BY <1>11, ReadingTyped DEF RejectEvent, TypeOK, durable
<1>12. CASE CompleteRun
  <2>1. run' \in Run /\ pin' \in Pin
    <3>1. \A S, T \in SUBSET StepNumbers, n \in 0..Steps :
             [state |-> "complete", ckpts |-> S, evals |-> T, selected |-> n, class |-> ""] \in Run
      BY DEF Run, RunStates
    <3>2. run' \in Run
      BY <1>12, <3>1, MergedTyped DEF CompleteRun
    <3>3. pin' \in Pin
      <4>1. [state |-> "complete", resume |-> 0] \in Pin
        BY DEF Pin, RunStates
      <4>2. QED
        BY <1>12, <4>1 DEF CompleteRun
    <3>4. QED
      BY <3>2, <3>3
  <2>2. QED
    BY <1>12, <2>1 DEF CompleteRun, Persist, TypeOK, durable
<1>13. CASE FailRun
  <2>1. EndState \in RunStates
    BY DEF EndState, RunStates
  <2>2. run' \in Run /\ pin' \in Pin
    BY <1>13, <2>1, RunUpdates, PinUpdates, Fields DEF FailRun
  <2>3. QED
    BY <1>13, <2>2 DEF FailRun, Persist, TypeOK, durable
<1>14. CASE TrainStep
  <2> DEFINE s == worker.step + 1
             a == IF s = 1 \/ (EvaluateEvery > 0 /\ s % EvaluateEvery = 0) THEN "evaluate" ELSE "cadence"
  <2>1. worker' = [worker EXCEPT !.step = s, !.at = a]
    BY <1>14 DEF TrainStep
  <2>2. s \in 0..Steps /\ a \in WorkerPhases
    BY <1>14, Fields DEF TrainStep, WorkerSteps, WorkerPhases
  <2>3. worker' \in Worker
    BY <2>1, <2>2, WorkerUpdates, Fields
  <2>4. QED
    BY <1>14, <2>3 DEF TrainStep, TypeOK, durable, attempt
<1>15. CASE Evaluate
  <2> DEFINE a == IF worker.step \notin worker.ckpts /\ (EveryEvaluation \/ NewlyBest)
                  THEN "commit" ELSE "reportEvaluation"
  <2>1. worker' = [worker EXCEPT !.evaluating = TRUE, !.at = a]
    BY <1>15 DEF Evaluate
  <2>2. a \in WorkerPhases
    BY DEF WorkerPhases
  <2>3. worker' \in Worker
    BY <2>1, <2>2, WorkerUpdates, Fields
  <2>4. QED
    BY <1>15, <2>3 DEF Evaluate, TypeOK, durable, attempt
<1>16. CASE CommitBundle
  <2>1. worker' \in Worker
    BY <1>16, WorkerUpdates, Fields DEF CommitBundle, WorkerPhases
  <2>2. bundles' \in SUBSET StepNumbers
    BY <1>16, Fields DEF CommitBundle, TypeOK, WorkerSteps
  <2>3. QED
    BY <1>16, <2>1, <2>2 DEF CommitBundle, TypeOK, attempt
<1>17. CASE CommitOverOrphan
  BY <1>0, <1>17 DEF CommitOverOrphan, TypeOK, durable, attempt
<1>18. CASE ReportCheckpoint
  <2>1. worker.step \in StepNumbers
    BY <1>18, Fields DEF ReportCheckpoint, WorkerSteps
  <2>2. pipe' \in Seq(Event) /\ Len(pipe') <= PipeBound
    BY <1>18, <2>1, EmitTyped DEF ReportCheckpoint
  <2> DEFINE a == IF worker.evaluating THEN "reportEvaluation" ELSE "cadence"
             S == worker.ckpts \cup {worker.step}
  <2>3. worker' = [worker EXCEPT !.ckpts = S, !.at = a]
    BY <1>18 DEF ReportCheckpoint
  <2>4. a \in WorkerPhases /\ S \in SUBSET StepNumbers
    BY <2>1, Fields DEF WorkerPhases
  <2>5. worker' \in Worker
    BY <2>3, <2>4, WorkerUpdates, Fields
  <2>6. QED
    BY <1>18, <2>2, <2>5 DEF ReportCheckpoint, TypeOK, durable, attempt
<1>19. CASE ReportEvaluation
  <2>1. worker.step \in StepNumbers
    BY <1>19, Fields DEF ReportEvaluation, WorkerSteps
  <2>2. pipe' \in Seq(Event) /\ Len(pipe') <= PipeBound
    BY <1>19, <2>1, EmitTyped DEF ReportEvaluation
  <2> DEFINE S == worker.evals \cup {worker.step}
  <2>3. worker' = [worker EXCEPT !.evals = S, !.last = worker.step, !.evaluating = FALSE,
                                 !.at = "cadence"]
    BY <1>19 DEF ReportEvaluation
  <2>4. "cadence" \in WorkerPhases /\ S \in SUBSET StepNumbers /\ worker.step \in 0..Steps
    BY <2>1, Fields DEF WorkerPhases
  <2>5. worker' \in Worker
    BY <2>3, <2>4, WorkerUpdates, Fields
  <2>6. QED
    BY <1>19, <2>2, <2>5 DEF ReportEvaluation, TypeOK, durable, attempt
<1>20. CASE Cadence
  <2>1. PICK a \in WorkerPhases : worker' = [worker EXCEPT !.at = a]
    BY <1>20 DEF Cadence, WorkerPhases
  <2>2. worker' \in Worker
    BY <2>1, WorkerUpdates, Fields
  <2>3. QED
    BY <1>20, <2>2 DEF Cadence, TypeOK, durable, attempt
<1>21. CASE Finish
  <2>1. PICK a \in WorkerPhases : worker' = [worker EXCEPT !.at = a]
    BY <1>21 DEF Finish, WorkerPhases
  <2>2. worker' \in Worker
    BY <2>1, WorkerUpdates, Fields
  <2>3. QED
    BY <1>21, <2>2 DEF Finish, TypeOK, durable, attempt
<1>22. CASE ReportComplete
  BY <1>22 DEF ReportComplete, TypeOK, durable, attempt
<1>23. CASE \E how \in {"canceled", "error", "integrity"} : WorkerStops(how)
  BY <1>0, <1>23 DEF WorkerStops, Fault, TypeOK, durable, attempt
<1>24. CASE WriteFails
  <2>1. faults' \in 0..MaxFaults /\ UNCHANGED <<loss, runFile, pinFile, stamped, bundles>>
    BY <1>24 DEF WriteFails, Fault, TypeOK, durable
  <2>2. CASE doing = "event"
    BY <1>24, <2>1, <2>2 DEF WriteFails, TypeOK
  <2>3. CASE doing # "event"
    <3>1. Ends
      BY <1>24, <2>3 DEF WriteFails
    <3>2. QED
      BY <2>1, <3>1, EndsTyped DEF TypeOK
  <2>4. QED
    BY <2>2, <2>3
<1>25. CASE Kill
  <2>1. faults' \in 0..MaxFaults /\ UNCHANGED <<loss, runFile, pinFile, stamped, bundles>>
    BY <1>25 DEF Kill, Fault, TypeOK, durable
  <2>2. Ends
    BY <1>25 DEF Kill
  <2>3. QED
    BY <2>1, <2>2, EndsTyped DEF TypeOK
<1>26. QED
  BY <1>1, <1>2, <1>3, <1>4, <1>5, <1>6, <1>7, <1>8, <1>9, <1>10, <1>11, <1>12, <1>13, <1>14,
     <1>15, <1>16, <1>17, <1>18, <1>19, <1>20, <1>21, <1>22, <1>23, <1>24, <1>25
     DEF Next, WorkerStep, AttemptStep

-----------------------------------------------------------------------------
(* What the steps do to the fields of the records.                          *)

LEMMA RunFields ==
    /\ \A r \in Run, s \in RunStates :
          LET q == [r EXCEPT !.state = s]
          IN  q.state = s /\ q.ckpts = r.ckpts /\ q.evals = r.evals
    /\ \A r \in Run, s \in RunStates, c \in {"", "integrity"} :
          LET q == [r EXCEPT !.state = s, !.class = c]
          IN  q.state = s /\ q.ckpts = r.ckpts /\ q.evals = r.evals
    /\ \A r \in Run, S \in SUBSET StepNumbers :
          LET q == [r EXCEPT !.ckpts = S]
          IN  q.state = r.state /\ q.ckpts = S /\ q.evals = r.evals
    /\ \A r \in Run, S \in SUBSET StepNumbers :
          LET q == [r EXCEPT !.evals = S]
          IN  q.state = r.state /\ q.ckpts = r.ckpts /\ q.evals = S
  BY DEF Run

LEMMA PinFields ==
    /\ \A p \in Pin, s \in RunStates : [p EXCEPT !.state = s].resume = p.resume
    /\ \A p \in Pin, n \in 0..Steps : [p EXCEPT !.resume = n].resume = n
  BY DEF Pin

LEMMA WorkerFields ==
    /\ \A w \in Worker, a \in WorkerPhases :
          LET v == [w EXCEPT !.at = a]
          IN  v.at = a /\ v.step = w.step /\ v.ckpts = w.ckpts /\ v.evals = w.evals
    /\ \A w \in Worker, a \in WorkerPhases, n \in 0..Steps :
          LET v == [w EXCEPT !.step = n, !.at = a]
          IN  v.at = a /\ v.step = n /\ v.ckpts = w.ckpts /\ v.evals = w.evals
    /\ \A w \in Worker, a \in WorkerPhases, b \in BOOLEAN :
          LET v == [w EXCEPT !.evaluating = b, !.at = a]
          IN  v.at = a /\ v.step = w.step /\ v.ckpts = w.ckpts /\ v.evals = w.evals
    /\ \A w \in Worker, a \in WorkerPhases, S \in SUBSET StepNumbers :
          LET v == [w EXCEPT !.ckpts = S, !.at = a]
          IN  v.at = a /\ v.step = w.step /\ v.ckpts = S /\ v.evals = w.evals
    /\ \A w \in Worker, a \in WorkerPhases, S \in SUBSET StepNumbers, n \in 0..Steps, b \in BOOLEAN :
          LET v == [w EXCEPT !.evals = S, !.last = n, !.evaluating = b, !.at = a]
          IN  v.at = a /\ v.step = w.step /\ v.ckpts = w.ckpts /\ v.evals = S
  BY DEF Worker

\* What is left of an attempt that is over.
LEMMA RestFields ==
    /\ NoWorker.at = "none" /\ NoWorker.ckpts = {} /\ NoWorker.evals = {}
    /\ Planned.state = "planned" /\ Planned.ckpts = {} /\ Planned.evals = {}
    /\ PlannedPin.resume = 0
  BY DEF NoWorker, Planned, PlannedPin

\* A recovery or an attempt starts from the record on disk.
LEMMA StartEffect ==
    ASSUME TypeOK, Recover \/ Begin
    PROVE  /\ pc \in {"fresh", "off"} /\ pc' = "writeRun"
           /\ doing' = IF Recover THEN "recover" ELSE "start"
           /\ run'.state = IF Recover THEN "interrupted" ELSE "running"
           /\ pc = "fresh" \/ runFile.state \in {"running", "interrupted", "failed"}
           /\ run'.ckpts = runFile.ckpts /\ run'.evals = runFile.evals
           /\ pin'.resume = pinFile.resume
           /\ UNCHANGED <<loss, runFile, pinFile, stamped, bundles, stale, worker, pipe, verdict>>
<1>1. runFile \in Run /\ pinFile \in Pin
  BY Fields
<1>2. {"running", "interrupted"} \subseteq RunStates
  BY DEF RunStates
<1>3. CASE Recover
  <2>1. run' = [runFile EXCEPT !.state = "interrupted"]
        /\ pin' = [pinFile EXCEPT !.state = "interrupted"]
    BY <1>3 DEF Recover
  <2>2. run'.state = "interrupted" /\ run'.ckpts = runFile.ckpts /\ run'.evals = runFile.evals
    BY <1>1, <1>2, <2>1, RunFields
  <2>3. pin'.resume = pinFile.resume
    BY <1>1, <1>2, <2>1, PinFields
  <2>4. QED
    BY <1>3, <2>2, <2>3 DEF Recover, Persist, durable
<1>4. CASE Begin /\ ~Recover
  <2>1. run' = [runFile EXCEPT !.state = "running", !.class = ""]
        /\ pin' = [pinFile EXCEPT !.state = "running"]
    BY <1>4 DEF Begin
  <2>2. run'.state = "running" /\ run'.ckpts = runFile.ckpts /\ run'.evals = runFile.evals
    BY <1>1, <1>2, <2>1, RunFields
  <2>3. pin'.resume = pinFile.resume
    BY <1>1, <1>2, <2>1, PinFields
  <2>4. QED
    BY <1>4, <2>2, <2>3 DEF Begin, MayBegin, Resumable, Persist, durable
<1>5. QED
  BY <1>3, <1>4

\* What an event adds to the attempt's record.
LEMMA RecordEffect ==
    ASSUME TypeOK, RecordCheckpoint \/ RecordEvaluation
    PROVE  /\ Reading /\ ~stale /\ pc = "run" /\ pc' = "writeRun" /\ doing' = "event"
           /\ NextEvent.kind = IF RecordCheckpoint THEN "checkpoint" ELSE "evaluation"
           /\ run'.state = run.state
           /\ run'.ckpts = run.ckpts \cup (IF RecordCheckpoint THEN {NextEvent.step} ELSE {})
           /\ run'.evals = run.evals \cup (IF RecordCheckpoint THEN {} ELSE {NextEvent.step})
           /\ pin'.resume = IF RecordCheckpoint THEN NextEvent.step ELSE pin.resume
           /\ UNCHANGED <<loss, runFile, pinFile, stamped, bundles, stale, worker, verdict>>
<1>1. run \in Run /\ pin \in Pin
  BY Fields
<1>2. Reading
  BY DEF RecordCheckpoint, RecordEvaluation
<1>3. NextEvent.step \in StepNumbers /\ NextEvent.step \in 0..Steps
  BY <1>2, ReadingTyped DEF Event
<1>4. run.ckpts \cup {NextEvent.step} \in SUBSET StepNumbers
      /\ run.evals \cup {NextEvent.step} \in SUBSET StepNumbers
  BY <1>3, Fields
<1>5. CASE RecordCheckpoint
  <2>1. run' = [run EXCEPT !.ckpts = run.ckpts \cup {NextEvent.step}]
        /\ pin' = [pin EXCEPT !.resume = NextEvent.step]
    BY <1>5 DEF RecordCheckpoint
  <2>2. run'.state = run.state /\ run'.ckpts = run.ckpts \cup {NextEvent.step} /\ run'.evals = run.evals
    BY <1>1, <1>4, <2>1, RunFields
  <2>3. pin'.resume = NextEvent.step
    BY <1>1, <1>3, <2>1, PinFields
  <2>4. QED
    BY <1>2, <1>5, <2>2, <2>3 DEF RecordCheckpoint, Reading, Persist, durable
<1>6. CASE RecordEvaluation /\ ~RecordCheckpoint
  <2>1. run' = [run EXCEPT !.evals = run.evals \cup {NextEvent.step}]
    BY <1>6 DEF RecordEvaluation
  <2>2. run'.state = run.state /\ run'.evals = run.evals \cup {NextEvent.step} /\ run'.ckpts = run.ckpts
    BY <1>1, <1>4, <2>1, RunFields
  <2>3. QED
    BY <1>2, <1>6, <2>2 DEF RecordEvaluation, Reading, Persist, durable
<1>7. QED
  BY <1>5, <1>6

\* How an attempt ends: complete with what the worker reported, or as it was.
LEMMA FinishEffect ==
    ASSUME TypeOK, CompleteRun \/ FailRun
    PROVE  /\ pc = "run" /\ pc' = "writeRun" /\ doing' = "finish" /\ pipe = <<>>
           /\ CompleteRun =>
                 /\ verdict = "complete" /\ ObservationValid
                 /\ run'.state = "complete" /\ run'.selected = Selected
                 /\ run'.ckpts = MergedCheckpoints /\ run'.evals = MergedEvaluations
                 /\ pin'.resume = 0
           /\ ~CompleteRun =>
                 /\ run'.state # "complete"
                 /\ run'.ckpts = run.ckpts /\ run'.evals = run.evals /\ pin'.resume = pin.resume
           /\ UNCHANGED <<loss, runFile, pinFile, stamped, bundles, stale, worker, pipe, verdict>>
<1>1. CASE CompleteRun
  BY <1>1 DEF CompleteRun, Ended, Succeeds, Persist, durable
<1>2. CASE FailRun /\ ~CompleteRun
  <2>1. EndState \in RunStates /\ EndState # "complete" /\ run \in Run /\ pin \in Pin
    BY Fields DEF EndState, RunStates
  <2>2. PICK s \in RunStates, c \in {"", "integrity"} :
            /\ s # "complete"
            /\ run' = [run EXCEPT !.state = s, !.class = c] /\ pin' = [pin EXCEPT !.state = s]
    BY <1>2, <2>1 DEF FailRun
  <2>3. run'.state = s /\ run'.ckpts = run.ckpts /\ run'.evals = run.evals
    <3> DEFINE q == [run EXCEPT !.state = s, !.class = c]
    <3>1. q.state = s /\ q.ckpts = run.ckpts /\ q.evals = run.evals
      BY <2>1 DEF Run
    <3>2. QED
      BY <2>2, <3>1
  <2>4. pin'.resume = pin.resume
    BY <2>1, <2>2, PinFields
  <2>5. QED
    BY <1>2, <2>2, <2>3, <2>4 DEF FailRun, Ended, Persist, durable
<1>3. QED
  BY <1>1, <1>2

\* The steps that leave the records, and where the attempt stands, alone.
RecordQuiet == UNCHANGED <<loss, runFile, pinFile, run, pin, pc, doing>>

\* The attempt goes on, its write done or given up.
Resumes ==
    /\ Writing /\ doing \in {"start", "event"} /\ pc' = "run"
    /\ UNCHANGED <<loss, runFile, pinFile, bundles, run, pin, pipe, verdict>>
    /\ \/ doing = "start" /\ pc = "writeBOM" /\ worker' = Launched /\ stale' = stale
       \/ doing = "event" /\ worker' = worker /\ (~stale' => ~stale)

\* The attempt is over, finished, failed or killed.
Over == Ends /\ UNCHANGED <<loss, runFile, pinFile, bundles>>

\* The worker's own steps, and its end.
WorkerActs ==
    /\ RecordQuiet /\ stale' = stale
    /\ \/ TrainStep \/ Evaluate \/ CommitBundle \/ ReportCheckpoint \/ ReportEvaluation
       \/ Cadence \/ Finish
       \/ ReportComplete /\ UNCHANGED <<bundles, worker, pipe>>
       \/ worker.at # "none" /\ worker' = NoWorker /\ verdict' # "complete" /\ UNCHANGED <<bundles, pipe>>

\* An event is read that changes no record.
Ignores ==
    /\ RecordQuiet /\ Reading /\ UNCHANGED <<bundles, worker, verdict>>
    /\ \/ stale'
       \/ ~stale /\ ~stale' /\ pipe[1].kind = "evaluation"

\* Every step is one of these.
LEMMA StepKinds ==
    ASSUME TypeOK, [Next]_vars
    PROVE  \/ UNCHANGED vars \/ WorkerActs \/ Ignores
           \/ Recover \/ Begin \/ WriteRun \/ WriteModel \/ Resumes \/ Over
           \/ RecordCheckpoint \/ RecordEvaluation \/ CompleteRun \/ FailRun
<1>1. CASE WriteBOM
  <2>1. doing = "start" => Resumes
    BY <1>1 DEF WriteBOM, Resumes, Writing
  <2>2. doing = "event" => Resumes
    BY <1>1 DEF WriteBOM, Resumes, Writing
  <2>3. doing \notin {"start", "event"} => Over
    BY <1>1 DEF WriteBOM, Over
  <2>4. QED
    BY <2>1, <2>2, <2>3
<1>2. CASE WriteFails
  <2>1. doing = "event" => Resumes
    BY <1>2 DEF WriteFails, Resumes, Writing, durable
  <2>2. doing # "event" => Over
    BY <1>2 DEF WriteFails, Over, durable
  <2>3. QED
    BY <2>1, <2>2
<1>3. CASE Kill
  BY <1>3 DEF Kill, Over, durable
<1>4. CASE \E how \in {"canceled", "error", "integrity"} : WorkerStops(how)
  BY <1>4 DEF WorkerStops, WorkerAlive, WorkerActs, RecordQuiet, durable, attempt
<1>5. CASE DropEvent
  BY <1>5 DEF DropEvent, Ignores, RecordQuiet, durable, attempt
<1>6. CASE RepeatEvaluation
  BY <1>6, ReadingTyped DEF RepeatEvaluation, Ignores, RecordQuiet, durable, attempt, TypeOK
<1>7. CASE RejectEvent
  BY <1>7 DEF RejectEvent, Ignores, RecordQuiet, durable
<1>8. CASE TrainStep
  BY <1>8 DEF TrainStep, WorkerActs, RecordQuiet, durable, attempt
<1>9. CASE Evaluate
  BY <1>9 DEF Evaluate, WorkerActs, RecordQuiet, durable, attempt
<1>10. CASE CommitBundle
  BY <1>10 DEF CommitBundle, WorkerActs, RecordQuiet, durable, attempt
<1>11. CASE CommitOverOrphan
  BY <1>11 DEF CommitOverOrphan, WorkerActs, RecordQuiet, durable, attempt
<1>12. CASE ReportCheckpoint
  BY <1>12 DEF ReportCheckpoint, WorkerActs, RecordQuiet, durable, attempt
<1>13. CASE ReportEvaluation
  BY <1>13 DEF ReportEvaluation, WorkerActs, RecordQuiet, durable, attempt
<1>14. CASE Cadence
  BY <1>14 DEF Cadence, WorkerActs, RecordQuiet, durable, attempt
<1>15. CASE Finish
  BY <1>15 DEF Finish, WorkerActs, RecordQuiet, durable, attempt
<1>16. CASE ReportComplete
  BY <1>16 DEF ReportComplete, WorkerActs, RecordQuiet, durable, attempt
<1>17. QED
  BY <1>1, <1>2, <1>3, <1>4, <1>5, <1>6, <1>7, <1>8, <1>9, <1>10, <1>11, <1>12, <1>13, <1>14,
     <1>15, <1>16 DEF Next, WorkerStep, AttemptStep

\* What the worker's steps change of it, of the bundles and of the pipe.
LEMMA WorkerEffect ==
    ASSUME TypeOK, WorkerActs
    PROVE  /\ TrainStep =>
                 /\ worker.at = "train" /\ worker'.at \in {"evaluate", "cadence"}
                 /\ worker'.step = worker.step + 1
                 /\ worker'.ckpts = worker.ckpts /\ worker'.evals = worker.evals
                 /\ UNCHANGED <<bundles, pipe, verdict>>
           /\ Evaluate =>
                 /\ worker.at = "evaluate" /\ worker'.at \in {"commit", "reportEvaluation"}
                 /\ worker'.at = "reportEvaluation" =>
                       worker.step \in worker.ckpts \/ worker.evals # {}
                 /\ worker'.step = worker.step
                 /\ worker'.ckpts = worker.ckpts /\ worker'.evals = worker.evals
                 /\ UNCHANGED <<bundles, pipe, verdict>>
           /\ CommitBundle =>
                 /\ worker.at = "commit" /\ worker'.at = "reportCheckpoint"
                 /\ bundles' = bundles \cup {worker.step}
                 /\ worker'.step = worker.step
                 /\ worker'.ckpts = worker.ckpts /\ worker'.evals = worker.evals
                 /\ UNCHANGED <<pipe, verdict>>
           /\ Cadence \/ Finish =>
                 /\ worker.at \in {"cadence", "finish"}
                 /\ worker'.at \in {"commit", "train", "finish", "evaluate", "complete"}
                 /\ worker'.at = "train" => worker.step < Steps
                 /\ worker'.step = worker.step
                 /\ worker'.ckpts = worker.ckpts /\ worker'.evals = worker.evals
                 /\ UNCHANGED <<bundles, pipe, verdict>>
           /\ ReportComplete =>
                 worker.at = "complete" /\ UNCHANGED <<bundles, worker, pipe>>
<1>1. worker \in Worker /\ worker.step \in 0..Steps
  BY Fields
<1>2. CASE TrainStep
  <2>1. PICK a \in {"evaluate", "cadence"} : worker' = [worker EXCEPT !.step = worker.step + 1, !.at = a]
    BY <1>2 DEF TrainStep
  <2>2. worker'.at = a /\ worker'.step = worker.step + 1 /\ worker'.ckpts = worker.ckpts
        /\ worker'.evals = worker.evals
    BY <1>1, <2>1 DEF Worker
  <2>3. ~Evaluate /\ ~CommitBundle /\ ~Cadence /\ ~Finish /\ ~ReportComplete
    BY <1>2 DEF TrainStep, Evaluate, CommitBundle, Cadence, Finish, ReportComplete
  <2>4. QED
    BY <1>2, <2>1, <2>2, <2>3 DEF TrainStep, durable
<1>3. CASE Evaluate
  <2> DEFINE bundled == worker.step \notin worker.ckpts /\ (EveryEvaluation \/ NewlyBest)
  <2>1. PICK a \in {"commit", "reportEvaluation"} :
            worker' = [worker EXCEPT !.evaluating = TRUE, !.at = a] /\ (a = "reportEvaluation" => ~bundled)
    BY <1>3 DEF Evaluate
  <2>2. worker'.at = a /\ worker'.step = worker.step /\ worker'.ckpts = worker.ckpts
        /\ worker'.evals = worker.evals
    BY <1>1, <2>1 DEF Worker
  <2>3. ~bundled => worker.step \in worker.ckpts \/ worker.evals # {}
    BY DEF NewlyBest
  <2>4. ~TrainStep /\ ~CommitBundle /\ ~Cadence /\ ~Finish /\ ~ReportComplete
    BY <1>3 DEF TrainStep, Evaluate, CommitBundle, Cadence, Finish, ReportComplete
  <2>5. QED
    BY <1>3, <2>1, <2>2, <2>3, <2>4 DEF Evaluate, durable
<1>4. CASE CommitBundle
  <2>1. worker' = [worker EXCEPT !.at = "reportCheckpoint"]
    BY <1>4 DEF CommitBundle
  <2>2. worker'.at = "reportCheckpoint" /\ worker'.step = worker.step /\ worker'.ckpts = worker.ckpts
        /\ worker'.evals = worker.evals
    BY <1>1, <2>1 DEF Worker
  <2>3. ~TrainStep /\ ~Evaluate /\ ~Cadence /\ ~Finish /\ ~ReportComplete
    BY <1>4 DEF TrainStep, Evaluate, CommitBundle, Cadence, Finish, ReportComplete
  <2>4. QED
    BY <1>4, <2>2, <2>3 DEF CommitBundle
<1>5. CASE Cadence \/ Finish
  <2>1. PICK a \in {"commit", "train", "finish", "evaluate", "complete"} :
            worker' = [worker EXCEPT !.at = a] /\ (a = "train" => worker.step < Steps)
    BY <1>5 DEF Cadence, Finish
  <2>2. worker'.at = a /\ worker'.step = worker.step /\ worker'.ckpts = worker.ckpts
        /\ worker'.evals = worker.evals
    BY <1>1, <2>1 DEF Worker
  <2>3. ~TrainStep /\ ~Evaluate /\ ~CommitBundle /\ ~ReportComplete
    BY <1>5 DEF TrainStep, Evaluate, CommitBundle, Cadence, Finish, ReportComplete
  <2>4. QED
    BY <1>5, <2>1, <2>2, <2>3 DEF Cadence, Finish, durable
<1>6. CASE ReportComplete
  BY <1>6 DEF TrainStep, Evaluate, CommitBundle, Cadence, Finish, ReportComplete, durable
<1>7. CASE ~TrainStep /\ ~Evaluate /\ ~CommitBundle /\ ~Cadence /\ ~Finish /\ ~ReportComplete
  BY <1>7
<1>8. QED
  BY <1>2, <1>3, <1>4, <1>5, <1>6, <1>7

\* A report puts one event on the pipe and into the worker's own histories.
LEMMA ReportEffect ==
    ASSUME TypeOK, WorkerSteps, ReportCheckpoint \/ ReportEvaluation
    PROVE  /\ worker.at = IF ReportCheckpoint THEN "reportCheckpoint" ELSE "reportEvaluation"
           /\ worker'.at \in IF ReportCheckpoint THEN {"reportEvaluation", "cadence"} ELSE {"cadence"}
           /\ worker'.step = worker.step
           /\ worker'.ckpts = worker.ckpts \cup (IF ReportCheckpoint THEN {worker.step} ELSE {})
           /\ worker'.evals = worker.evals \cup (IF ReportCheckpoint THEN {} ELSE {worker.step})
           /\ UNCHANGED <<bundles, verdict>>
           /\ Len(pipe) \in Nat /\ DOMAIN pipe = 1 .. Len(pipe) /\ DOMAIN pipe' = 1 .. Len(pipe) + 1
           /\ \A i \in DOMAIN pipe : pipe'[i] = pipe[i]
           /\ pipe'[Len(pipe) + 1].step = worker.step
           /\ pipe'[Len(pipe) + 1].kind = IF ReportCheckpoint THEN "checkpoint" ELSE "evaluation"
<1>1. worker \in Worker /\ worker.step \in StepNumbers
  BY Fields DEF WorkerSteps, ReportCheckpoint, ReportEvaluation
<1>2. CASE ReportCheckpoint
  <2>1. PICK a \in {"reportEvaluation", "cadence"} :
            worker' = [worker EXCEPT !.ckpts = worker.ckpts \cup {worker.step}, !.at = a]
    BY <1>2 DEF ReportCheckpoint
  <2>2. worker'.at = a /\ worker'.step = worker.step /\ worker'.ckpts = worker.ckpts \cup {worker.step}
        /\ worker'.evals = worker.evals
    BY <1>1, <2>1 DEF Worker
  <2>3. QED
    BY <1>1, <1>2, <2>1, <2>2, EmitTyped, Fields DEF ReportCheckpoint, durable
<1>3. CASE ReportEvaluation /\ ~ReportCheckpoint
  <2>1. worker' = [worker EXCEPT !.evals = worker.evals \cup {worker.step}, !.last = worker.step,
                                 !.evaluating = FALSE, !.at = "cadence"]
    BY <1>3 DEF ReportEvaluation
  <2>2. worker'.at = "cadence" /\ worker'.step = worker.step /\ worker'.ckpts = worker.ckpts
        /\ worker'.evals = worker.evals \cup {worker.step}
    BY <1>1, <2>1 DEF Worker
  <2>3. QED
    BY <1>1, <1>3, <2>2, EmitTyped, Fields DEF ReportEvaluation, durable
<1>4. QED
  BY <1>2, <1>3

-----------------------------------------------------------------------------
(* Each conjunct of the invariant is kept by every step.                    *)

\* The hypotheses under which a step is looked at.
Stepping == IInv /\ [Next]_vars

LEMMA HistoryStep == Stepping => HistoryKept'
<1> SUFFICES ASSUME Stepping PROVE HistoryKept'
  OBVIOUS
<1>0. TypeOK /\ HistoryKept /\ [Next]_vars
  BY DEF Stepping, IInv
<1>1. CASE UNCHANGED vars \/ WorkerActs \/ Ignores
  BY <1>0, <1>1 DEF WorkerActs, Ignores, RecordQuiet, HistoryKept, Writing, vars, durable, attempt
<1>2. CASE Recover \/ Begin
  BY <1>0, <1>2, StartEffect DEF HistoryKept
<1>3. CASE WriteRun
  BY <1>3 DEF WriteRun, HistoryKept
<1>4. CASE WriteModel
  BY <1>0, <1>4 DEF WriteModel, HistoryKept, Writing
<1>5. CASE Resumes
  BY <1>0, <1>5 DEF Resumes, HistoryKept
<1>6. CASE Over
  BY <1>6 DEF Over, Ends, HistoryKept, Writing
<1>7. CASE RecordCheckpoint \/ RecordEvaluation
  BY <1>0, <1>7, RecordEffect DEF HistoryKept
<1>8. CASE CompleteRun \/ FailRun
  BY <1>0, <1>8, FinishEffect DEF HistoryKept, MergedCheckpoints, MergedEvaluations
<1>9. QED
  BY <1>0, <1>1, <1>2, <1>3, <1>4, <1>5, <1>6, <1>7, <1>8, StepKinds

LEMMA CommittedStep == Stepping => CommittedFirst'
<1> SUFFICES ASSUME Stepping PROVE CommittedFirst'
  OBVIOUS
<1>0. TypeOK /\ CommittedFirst /\ RecordedIsOnDisk /\ WorkerSteps /\ [Next]_vars
  BY DEF Stepping, IInv
<1>1. CASE UNCHANGED vars
  BY <1>0, <1>1 DEF CommittedFirst, vars, durable
<1>2. CASE WorkerActs
  <2>1. CASE ReportCheckpoint \/ ReportEvaluation
    <3>1. worker'.ckpts \subseteq bundles' /\ worker'.at # "reportCheckpoint"
      BY <1>0, <2>1, ReportEffect DEF CommittedFirst
    <3>2. \A i \in DOMAIN pipe' : pipe'[i].kind = "checkpoint" => pipe'[i].step \in bundles'
      <4> SUFFICES ASSUME NEW i \in DOMAIN pipe', pipe'[i].kind = "checkpoint"
                   PROVE  pipe'[i].step \in bundles'
        OBVIOUS
      <4>1. CASE i \in DOMAIN pipe
        BY <1>0, <2>1, <4>1, ReportEffect DEF CommittedFirst
      <4>2. CASE i = Len(pipe) + 1
        BY <1>0, <2>1, <4>2, ReportEffect DEF CommittedFirst
      <4>3. QED
        BY <1>0, <2>1, <4>1, <4>2, ReportEffect
    <3>3. QED
      BY <3>1, <3>2 DEF CommittedFirst
  <2>2. CASE TrainStep \/ Evaluate \/ CommitBundle \/ Cadence \/ Finish \/ ReportComplete
    <3>1. bundles \subseteq bundles' /\ pipe' = pipe /\ worker'.ckpts = worker.ckpts
      BY <1>0, <1>2, <2>2, WorkerEffect
    <3>2. worker'.at = "reportCheckpoint" => worker'.step \in bundles'
      BY <1>0, <1>2, <2>2, WorkerEffect DEF CommittedFirst
    <3>3. QED
      BY <1>0, <3>1, <3>2 DEF CommittedFirst
  <2>3. CASE worker' = NoWorker /\ UNCHANGED <<bundles, pipe>>
    BY <1>0, <2>3, RestFields DEF CommittedFirst
  <2>4. QED
    BY <1>2, <2>1, <2>2, <2>3 DEF WorkerActs
<1>3. CASE Reading /\ worker' = worker /\ bundles' = bundles
  <2>1. \A i \in DOMAIN pipe' : i + 1 \in DOMAIN pipe /\ pipe'[i] = pipe[i + 1]
    BY <1>0, <1>3, ReadingTyped
  <2>2. QED
    BY <1>0, <1>3, <2>1 DEF CommittedFirst
<1>4. CASE Recover \/ Begin \/ CompleteRun \/ FailRun
  BY <1>0, <1>4, StartEffect, FinishEffect DEF CommittedFirst
<1>5. CASE WriteRun \/ WriteModel
  BY <1>0, <1>5 DEF WriteRun, WriteModel, CommittedFirst
<1>6. CASE Resumes
  <2>1. CASE worker' = worker
    BY <1>0, <1>6, <2>1 DEF Resumes, CommittedFirst
  <2>2. CASE worker' = Launched
    <3>1. Launched.ckpts \subseteq run.ckpts /\ Launched.at # "reportCheckpoint"
      BY <1>0, LaunchedTyped, RestFields DEF NoWorker
    <3>2. QED
      BY <1>0, <1>6, <2>2, <3>1 DEF Resumes, CommittedFirst, RecordedIsOnDisk
  <2>3. QED
    BY <1>6, <2>1, <2>2 DEF Resumes
<1>7. CASE Over
  BY <1>7, RestFields DEF Over, Ends, CommittedFirst
<1>8. QED
  BY <1>0, <1>1, <1>2, <1>3, <1>4, <1>5, <1>6, <1>7, StepKinds, RecordEffect DEF Ignores

LEMMA PinsStep == Stepping => PinsRecorded'
<1> SUFFICES ASSUME Stepping PROVE PinsRecorded'
  OBVIOUS
<1>0. TypeOK /\ PinsRecorded /\ HistoryKept /\ ControlOK /\ [Next]_vars
  BY DEF Stepping, IInv
<1>1. CASE UNCHANGED vars \/ WorkerActs \/ Ignores \/ Resumes
  BY <1>0, <1>1 DEF WorkerActs, Ignores, RecordQuiet, Resumes, PinsRecorded, vars, durable, attempt
<1>2. CASE Recover \/ Begin
  BY <1>0, <1>2, StartEffect DEF PinsRecorded
<1>3. CASE WriteRun
  BY <1>0, <1>3 DEF WriteRun, PinsRecorded, HistoryKept, Writing
<1>4. CASE WriteModel
  BY <1>0, <1>4 DEF WriteModel, PinsRecorded, ControlOK
<1>5. CASE Over
  BY <1>0, <1>5, RestFields DEF Over, Ends, PinsRecorded
<1>6. CASE RecordCheckpoint \/ RecordEvaluation
  BY <1>0, <1>6, RecordEffect DEF PinsRecorded
<1>7. CASE CompleteRun \/ FailRun
  BY <1>0, <1>7, FinishEffect DEF PinsRecorded
<1>8. QED
  BY <1>0, <1>1, <1>2, <1>3, <1>4, <1>5, <1>6, <1>7, StepKinds

LEMMA OnDiskStep == Stepping => RecordedIsOnDisk'
<1> SUFFICES ASSUME Stepping PROVE RecordedIsOnDisk'
  OBVIOUS
<1>0. TypeOK /\ RecordedIsOnDisk /\ CommittedFirst /\ PinsRecorded' /\ [Next]_vars
  BY PinsStep DEF Stepping, IInv
<1> SUFFICES runFile'.ckpts \subseteq bundles' /\ run'.ckpts \subseteq bundles'
  BY <1>0 DEF RecordedIsOnDisk, PinsRecorded
<1>1. CASE UNCHANGED vars \/ Ignores \/ Resumes
  BY <1>0, <1>1 DEF Ignores, RecordQuiet, Resumes, RecordedIsOnDisk, vars, durable, attempt
<1>2. CASE WorkerActs
  <2>1. bundles \subseteq bundles'
    BY <1>0, <1>2, WorkerEffect, ReportEffect DEF WorkerActs, ReportCheckpoint, ReportEvaluation, durable
  <2>2. QED
    BY <1>0, <1>2, <2>1 DEF WorkerActs, RecordQuiet, RecordedIsOnDisk
<1>3. CASE Recover \/ Begin
  BY <1>0, <1>3, StartEffect DEF RecordedIsOnDisk
<1>4. CASE WriteRun \/ WriteModel
  BY <1>0, <1>4 DEF WriteRun, WriteModel, RecordedIsOnDisk
<1>5. CASE Over
  BY <1>0, <1>5, RestFields DEF Over, Ends, RecordedIsOnDisk
<1>6. CASE RecordCheckpoint \/ RecordEvaluation
  <2>1. RecordCheckpoint => NextEvent.step \in bundles
    BY <1>0, <1>6, RecordEffect, ReadingTyped DEF CommittedFirst
  <2>2. QED
    BY <1>0, <1>6, <2>1, RecordEffect DEF RecordedIsOnDisk
<1>7. CASE CompleteRun \/ FailRun
  BY <1>0, <1>7, FinishEffect DEF RecordedIsOnDisk, CommittedFirst, MergedCheckpoints
<1>8. QED
  BY <1>0, <1>1, <1>2, <1>3, <1>4, <1>5, <1>6, <1>7, StepKinds

LEMMA WorkerStepsStep == Stepping => WorkerSteps'
<1> SUFFICES ASSUME Stepping PROVE WorkerSteps'
  OBVIOUS
<1>0. TypeOK /\ WorkerSteps /\ [Next]_vars
  BY DEF Stepping, IInv
<1>1. CASE worker' = worker
  BY <1>0, <1>1 DEF WorkerSteps
<1>2. CASE worker' = NoWorker
  BY <1>2, RestFields DEF WorkerSteps
<1>3. CASE worker' = Launched
  <2>1. CASE ResumeStep = 0
    BY <1>0, <1>3, <2>1, LaunchedTyped, RestFields DEF WorkerSteps, NoWorker
  <2>2. CASE ResumeStep # 0
    BY <1>0, <1>3, <2>2, LaunchedTyped DEF WorkerSteps
  <2>3. QED
    BY <2>1, <2>2
<1>4. CASE WorkerActs /\ (ReportCheckpoint \/ ReportEvaluation)
  BY <1>0, <1>4, ReportEffect, Fields DEF WorkerSteps
<1>5. CASE WorkerActs /\ (TrainStep \/ Evaluate \/ CommitBundle \/ Cadence \/ Finish)
  BY <1>0, <1>5, WorkerEffect, Fields DEF WorkerSteps
<1>6. CASE WorkerActs
  BY <1>1, <1>2, <1>4, <1>5, <1>6 DEF WorkerActs
<1>7. QED
  BY <1>0, <1>1, <1>2, <1>3, <1>6, StepKinds, StartEffect, RecordEffect, FinishEffect
     DEF Ignores, Resumes, Over, Ends, WriteRun, WriteModel, vars

\* A worker is launched knowing everything the attempt has recorded.
LEMMA LaunchedKnows ==
    ASSUME TypeOK, CheckpointFirst
    PROVE  Launched.ckpts = run.ckpts /\ Launched.evals = run.evals
<1>1. CASE ResumeStep # 0
  BY <1>1, LaunchedTyped
<1>2. CASE ResumeStep = 0
  <2>1. NewestOf(run.ckpts) = 0
    BY <1>2 DEF ResumeStep
  <2>2. run.ckpts = {}
    BY <2>1, NewestIsMax, Fields
  <2>3. run.evals = {}
    BY <2>2 DEF CheckpointFirst
  <2>4. Launched.ckpts = {} /\ Launched.evals = {}
    BY <1>2, LaunchedTyped DEF NoWorker
  <2>5. QED
    BY <2>2, <2>3, <2>4
<1>3. QED
  BY <1>1, <1>2

LEMMA KnowsStep == Stepping => WorkerKnows'
<1> SUFFICES ASSUME Stepping PROVE WorkerKnows'
  OBVIOUS
<1>0. TypeOK /\ WorkerKnows /\ ControlOK /\ CheckpointFirst /\ WorkerSteps /\ [Next]_vars
  BY DEF Stepping, IInv
<1>1. CASE UNCHANGED vars
  BY <1>0, <1>1 DEF WorkerKnows, vars, attempt
<1>2. CASE WorkerActs
  <2>1. CASE ReportCheckpoint \/ ReportEvaluation
    <3>1. worker.at # "none" /\ worker.ckpts \subseteq worker'.ckpts /\ worker.evals \subseteq worker'.evals
      BY <1>0, <2>1, ReportEffect
    <3>2. \A i \in DOMAIN pipe' :
             pipe'[i].step \in IF pipe'[i].kind = "checkpoint" THEN worker'.ckpts ELSE worker'.evals
      <4> SUFFICES ASSUME NEW i \in DOMAIN pipe'
                   PROVE  pipe'[i].step \in IF pipe'[i].kind = "checkpoint" THEN worker'.ckpts
                                            ELSE worker'.evals
        OBVIOUS
      <4>1. CASE i \in DOMAIN pipe
        BY <1>0, <2>1, <3>1, <4>1, ReportEffect DEF WorkerKnows
      <4>2. CASE i = Len(pipe) + 1
        BY <1>0, <2>1, <4>2, ReportEffect
      <4>3. QED
        BY <1>0, <2>1, <4>1, <4>2, ReportEffect
    <3>3. QED
      BY <1>0, <1>2, <3>1, <3>2 DEF WorkerKnows, WorkerActs, RecordQuiet
  <2>2. CASE TrainStep \/ Evaluate \/ CommitBundle \/ Cadence \/ Finish \/ ReportComplete
    <3>1. worker'.ckpts = worker.ckpts /\ worker'.evals = worker.evals /\ pipe' = pipe /\ worker.at # "none"
      BY <1>0, <1>2, <2>2, WorkerEffect
    <3>2. QED
      BY <1>0, <1>2, <3>1 DEF WorkerKnows, WorkerActs, RecordQuiet
  <2>3. CASE worker' = NoWorker
    BY <2>3, RestFields DEF WorkerKnows
  <2>4. QED
    BY <1>2, <2>1, <2>2, <2>3 DEF WorkerActs
<1>3. CASE Ignores \/ RecordCheckpoint \/ RecordEvaluation
  <2>1. Reading /\ worker' = worker
    BY <1>0, <1>3, RecordEffect DEF Ignores
  <2>2. /\ \A i \in DOMAIN pipe' : i + 1 \in DOMAIN pipe /\ pipe'[i] = pipe[i + 1]
        /\ NextEvent = pipe[1] /\ 1 \in DOMAIN pipe
    BY <1>0, <2>1, ReadingTyped
  <2>3. worker.at # "none" => run'.ckpts \subseteq worker.ckpts /\ run'.evals \subseteq worker.evals
    <3>1. CASE Ignores
      BY <1>0, <3>1 DEF Ignores, RecordQuiet, WorkerKnows
    <3>2. CASE RecordCheckpoint \/ RecordEvaluation
      BY <1>0, <2>2, <3>2, RecordEffect DEF WorkerKnows
    <3>3. QED
      BY <1>3, <3>1, <3>2
  <2>4. QED
    BY <1>0, <2>1, <2>2, <2>3 DEF WorkerKnows
<1>4. CASE Recover \/ Begin
  BY <1>0, <1>4, StartEffect, RestFields DEF ControlOK, Rest, WorkerKnows
<1>5. CASE WriteRun \/ WriteModel
  BY <1>0, <1>5 DEF WriteRun, WriteModel, WorkerKnows
<1>6. CASE Resumes
  <2>1. CASE worker' = worker
    BY <1>0, <1>6, <2>1 DEF Resumes, WorkerKnows
  <2>2. CASE doing = "start" /\ pc = "writeBOM" /\ worker' = Launched
    <3>1. pipe' = <<>> /\ run' = run
      BY <1>0, <1>6, <2>2 DEF Resumes, ControlOK, Writing
    <3>2. QED
      BY <1>0, <2>2, <3>1, LaunchedKnows DEF WorkerKnows
  <2>3. QED
    BY <1>6, <2>1, <2>2 DEF Resumes
<1>7. CASE Over
  BY <1>7, RestFields DEF Over, Ends, WorkerKnows
<1>8. CASE CompleteRun \/ FailRun
  <2>1. worker.at # "none" => run'.ckpts \subseteq worker.ckpts /\ run'.evals \subseteq worker.evals
    BY <1>0, <1>8, FinishEffect DEF WorkerKnows, MergedCheckpoints, MergedEvaluations
  <2>2. QED
    BY <1>0, <1>8, <2>1, FinishEffect DEF WorkerKnows
<1>9. QED
  BY <1>0, <1>1, <1>2, <1>3, <1>4, <1>5, <1>6, <1>7, <1>8, StepKinds

LEMMA BestStep == Stepping => BestKept'
<1> SUFFICES ASSUME Stepping PROVE BestKept'
  OBVIOUS
<1>0. TypeOK /\ BestKept /\ ControlOK /\ WorkerKnows /\ [Next]_vars
  BY DEF Stepping, IInv
<1>1. CASE UNCHANGED vars \/ WorkerActs \/ Ignores \/ Resumes
  BY <1>0, <1>1 DEF WorkerActs, Ignores, RecordQuiet, Resumes, BestKept, Published, vars, durable, attempt
<1>2. CASE Recover \/ Begin
  BY <1>0, <1>2, StartEffect DEF BestKept, Published
<1>3. CASE WriteRun \/ WriteModel
  BY <1>0, <1>3 DEF WriteRun, WriteModel, BestKept, Published
<1>4. CASE Over
  BY <1>0, <1>4, RestFields DEF Over, Ends, BestKept, Published
<1>5. CASE RecordCheckpoint \/ RecordEvaluation
  BY <1>0, <1>5, RecordEffect DEF BestKept, Published, ControlOK
<1>6. CASE FailRun /\ ~CompleteRun
  BY <1>0, <1>6, FinishEffect DEF BestKept, Published
<1>7. CASE CompleteRun
  <2> DEFINE S == MergedCheckpoints \cap MergedEvaluations
             W == worker.ckpts \cap worker.evals
  <2>1. worker.at = "complete"
    BY <1>0, <1>7, FinishEffect DEF ControlOK
  <2>2. S \subseteq W
    BY <1>0, <2>1 DEF WorkerKnows, MergedCheckpoints, MergedEvaluations
  <2>3. Selected = BestOf(W) /\ Selected \in S
    BY <1>0, <1>7, FinishEffect DEF ObservationValid, Selected
  <2>4. W \in SUBSET StepNumbers /\ loss \in [StepNumbers -> Losses]
    BY <1>0, Fields DEF TypeOK
  <2>5. \A s \in S \ {Selected} :
           loss[Selected] < loss[s] \/ (loss[Selected] = loss[s] /\ Selected < s)
    <3> TAKE s \in S \ {Selected}
    <3>1. loss[Selected] < loss[s] \/ (loss[Selected] = loss[s] /\ Selected <= s)
      BY <2>2, <2>3, <2>4, BestIsEarliest
    <3>2. s \in Nat /\ Selected \in Nat /\ s # Selected
      BY <2>2, <2>3, <2>4
    <3>3. QED
      BY <3>1, <3>2
  <2>6. run'.selected = Selected /\ run'.ckpts \cap run'.evals = S /\ loss' = loss /\ runFile' = runFile
    BY <1>0, <1>7, FinishEffect
  <2>7. Published(run)'
    BY <2>3, <2>5, <2>6 DEF Published
  <2>8. QED
    BY <1>0, <2>6, <2>7 DEF BestKept, Published
<1>8. QED
  BY <1>0, <1>1, <1>2, <1>3, <1>4, <1>5, <1>6, <1>7, StepKinds

\* There is a checkpoint, recorded or on its way.
UnderWay == run.ckpts # {} \/ \E j \in DOMAIN pipe : pipe[j].kind = "checkpoint"

\* Reading an event that is not dropped leaves the order of the rest.
LEMMA ReadKeepsOrder ==
    ASSUME TypeOK, CheckpointFirst, Reading, ~stale,
           run.ckpts \subseteq run'.ckpts,
           pipe[1].kind = "evaluation" \/ run'.ckpts # {}
    PROVE  /\ UnderWay => UnderWay'
           /\ \A i \in DOMAIN pipe' : pipe'[i].kind = "evaluation" =>
                 run'.ckpts # {} \/ \E j \in DOMAIN pipe' : j < i /\ pipe'[j].kind = "checkpoint"
<1>1. /\ DOMAIN pipe = 1 .. Len(pipe) /\ DOMAIN pipe' = 1 .. Len(pipe) - 1 /\ Len(pipe) \in Nat
      /\ \A i \in DOMAIN pipe' : i + 1 \in DOMAIN pipe /\ pipe'[i] = pipe[i + 1]
  BY ReadingTyped, Fields
<1>2. \A j \in DOMAIN pipe : pipe[j].kind = "checkpoint" /\ run'.ckpts = {} =>
         j - 1 \in DOMAIN pipe' /\ pipe'[j - 1] = pipe[j]
  <2> TAKE j \in DOMAIN pipe
  <2> HAVE pipe[j].kind = "checkpoint" /\ run'.ckpts = {}
  <2>1. j # 1
    OBVIOUS
  <2>2. j - 1 \in 1 .. Len(pipe) - 1 /\ (j - 1) + 1 = j
    BY <1>1, <2>1
  <2>3. QED
    BY <1>1, <2>2
<1>3. UnderWay => UnderWay'
  BY <1>1, <1>2 DEF UnderWay
<1>4. \A i \in DOMAIN pipe' : pipe'[i].kind = "evaluation" =>
         run'.ckpts # {} \/ \E j \in DOMAIN pipe' : j < i /\ pipe'[j].kind = "checkpoint"
  <2> SUFFICES ASSUME NEW i \in DOMAIN pipe', pipe'[i].kind = "evaluation", run'.ckpts = {}
               PROVE  \E j \in DOMAIN pipe' : j < i /\ pipe'[j].kind = "checkpoint"
    OBVIOUS
  <2>1. i \in Int /\ i + 1 \in DOMAIN pipe /\ pipe[i + 1].kind = "evaluation" /\ run.ckpts = {}
    BY <1>1
  <2>2. PICK j \in DOMAIN pipe : j < i + 1 /\ pipe[j].kind = "checkpoint"
    BY <2>1 DEF CheckpointFirst
  <2>3. j \in Int /\ j - 1 \in DOMAIN pipe' /\ pipe'[j - 1] = pipe[j]
    BY <1>1, <1>2, <2>2
  <2>4. j - 1 < i
    BY <2>1, <2>2, <2>3
  <2>5. QED
    BY <2>2, <2>3, <2>4
<1>5. QED
  BY <1>3, <1>4

LEMMA CheckpointFirstStep == Stepping => CheckpointFirst'
<1> SUFFICES ASSUME Stepping PROVE CheckpointFirst'
  OBVIOUS
<1>0. TypeOK /\ WorkerKnows /\ ControlOK /\ CheckpointFirst /\ WorkerSteps /\ [Next]_vars
  BY DEF Stepping, IInv
<1>1. CASE UNCHANGED vars
  BY <1>0, <1>1 DEF CheckpointFirst, vars, durable, attempt
<1>2. CASE WorkerActs
  <2>0. UNCHANGED <<run, runFile, stale>>
    BY <1>2 DEF WorkerActs, RecordQuiet
  <2>1. CASE ReportCheckpoint \/ ReportEvaluation
    <3>1. /\ DOMAIN pipe = 1 .. Len(pipe) /\ DOMAIN pipe' = 1 .. Len(pipe) + 1 /\ Len(pipe) \in Nat
          /\ \A i \in DOMAIN pipe : pipe'[i] = pipe[i]
          /\ pipe'[Len(pipe) + 1].kind = IF ReportCheckpoint THEN "checkpoint" ELSE "evaluation"
      BY <1>0, <2>1, ReportEffect
    <3>2. worker'.ckpts # {}
      BY <1>0, <2>1, ReportEffect DEF CheckpointFirst
    <3>3. ~stale => run.ckpts # {} \/ \E j \in DOMAIN pipe' : pipe'[j].kind = "checkpoint"
      <4>1. CASE ReportCheckpoint
        BY <3>1, <4>1
      <4>2. CASE ~ReportCheckpoint
        <5>1. worker.ckpts # {}
          BY <1>0, <2>1, <4>2, ReportEffect DEF CheckpointFirst
        <5>2. QED
          BY <1>0, <3>1, <5>1 DEF CheckpointFirst
      <4>3. QED
        BY <4>1, <4>2
    <3>4. ~stale => \A i \in DOMAIN pipe' : pipe'[i].kind = "evaluation" =>
             run.ckpts # {} \/ \E j \in DOMAIN pipe' : j < i /\ pipe'[j].kind = "checkpoint"
      <4> SUFFICES ASSUME ~stale, NEW i \in DOMAIN pipe', pipe'[i].kind = "evaluation", run.ckpts = {}
                   PROVE  \E j \in DOMAIN pipe' : j < i /\ pipe'[j].kind = "checkpoint"
        OBVIOUS
      <4>1. CASE i \in DOMAIN pipe
        <5>1. PICK j \in DOMAIN pipe : j < i /\ pipe[j].kind = "checkpoint"
          BY <1>0, <3>1, <4>1 DEF CheckpointFirst
        <5>2. QED
          BY <3>1, <5>1
      <4>2. CASE i = Len(pipe) + 1
        <5>1. PICK j \in DOMAIN pipe' : pipe'[j].kind = "checkpoint"
          BY <3>3
        <5>2. j # i /\ j < i
          BY <3>1, <4>2, <5>1
        <5>3. QED
          BY <5>1, <5>2
      <4>3. QED
        BY <3>1, <4>1, <4>2
    <3>5. QED
      BY <1>0, <2>0, <3>2, <3>3, <3>4 DEF CheckpointFirst
  <2>2. CASE TrainStep \/ Evaluate \/ CommitBundle \/ Cadence \/ Finish \/ ReportComplete
    <3>1. worker'.ckpts = worker.ckpts /\ worker'.evals = worker.evals /\ pipe' = pipe
      BY <1>0, <1>2, <2>2, WorkerEffect
    <3>2. worker'.at = "reportEvaluation" => worker'.ckpts # {}
      BY <1>0, <1>2, <2>2, WorkerEffect DEF CheckpointFirst
    <3>3. QED
      BY <1>0, <2>0, <3>1, <3>2 DEF CheckpointFirst
  <2>3. CASE worker' = NoWorker /\ UNCHANGED <<bundles, pipe>>
    BY <1>0, <2>0, <2>3, RestFields DEF CheckpointFirst
  <2>4. QED
    BY <1>2, <2>1, <2>2, <2>3 DEF WorkerActs
<1>3. CASE Ignores \/ RecordCheckpoint \/ RecordEvaluation
  <2>1. Reading /\ worker' = worker /\ runFile' = runFile
    BY <1>0, <1>3, RecordEffect DEF Ignores, RecordQuiet
  <2>2. NextEvent = pipe[1] /\ 1 \in DOMAIN pipe /\ DOMAIN pipe = 1 .. Len(pipe) /\ NextEvent \in Event
    BY <1>0, <2>1, ReadingTyped, Fields
  <2>3. run.ckpts \subseteq run'.ckpts
    BY <1>0, <1>3, RecordEffect DEF Ignores, RecordQuiet
  <2>4. ~stale' => ~stale /\ (pipe[1].kind = "evaluation" \/ run'.ckpts # {})
    BY <1>0, <1>3, <2>2, RecordEffect DEF Ignores
  <2>5. run'.evals # {} => run'.ckpts # {}
    <3>1. CASE Ignores \/ RecordCheckpoint
      BY <1>0, <2>3, <3>1, RecordEffect DEF Ignores, RecordQuiet, CheckpointFirst
    <3>2. CASE RecordEvaluation /\ ~RecordCheckpoint
      <4>1. pipe[1].kind = "evaluation" /\ ~stale
        BY <1>0, <2>2, <3>2, RecordEffect
      <4>2. ~ \E j \in DOMAIN pipe : j < 1
        BY <2>2
      <4>3. run.ckpts # {}
        BY <1>0, <2>2, <4>1, <4>2 DEF CheckpointFirst
      <4>4. QED
        BY <2>3, <4>3
    <3>3. QED
      BY <1>3, <3>1, <3>2
  <2>6. ~stale' /\ worker'.ckpts # {} => UnderWay'
    BY <1>0, <2>1, <2>3, <2>4, ReadKeepsOrder DEF CheckpointFirst, UnderWay
  <2>7. ~stale' => \A i \in DOMAIN pipe' : pipe'[i].kind = "evaluation" =>
           run'.ckpts # {} \/ \E j \in DOMAIN pipe' : j < i /\ pipe'[j].kind = "checkpoint"
    BY <1>0, <2>1, <2>3, <2>4, ReadKeepsOrder
  <2>8. QED
    BY <1>0, <2>1, <2>5, <2>6, <2>7 DEF CheckpointFirst, UnderWay
<1>4. CASE Recover \/ Begin
  <2>1. worker' = NoWorker /\ pipe' = <<>>
    BY <1>0, <1>4, StartEffect DEF ControlOK, Rest
  <2>2. QED
    BY <1>0, <1>4, <2>1, StartEffect, RestFields DEF CheckpointFirst
<1>5. CASE WriteRun \/ WriteModel
  BY <1>0, <1>5 DEF WriteRun, WriteModel, CheckpointFirst
<1>6. CASE Resumes
  <2>1. CASE worker' = worker
    BY <1>0, <1>6, <2>1 DEF Resumes, CheckpointFirst
  <2>2. CASE doing = "start" /\ pc = "writeBOM" /\ worker' = Launched
    <3>1. pipe' = <<>> /\ run' = run /\ runFile' = runFile
      BY <1>0, <1>6, <2>2 DEF Resumes, ControlOK, Writing
    <3>2. Launched.at # "reportEvaluation"
      BY <1>0, LaunchedTyped DEF NoWorker
    <3>3. QED
      BY <1>0, <2>2, <3>1, <3>2, LaunchedKnows DEF CheckpointFirst
  <2>3. QED
    BY <1>6, <2>1, <2>2 DEF Resumes
<1>7. CASE Over
  BY <1>0, <1>7, RestFields DEF Over, Ends, CheckpointFirst
<1>8. CASE CompleteRun \/ FailRun
  <2>1. run.ckpts \subseteq run'.ckpts
    BY <1>0, <1>8, FinishEffect DEF MergedCheckpoints
  <2>2. run'.evals # {} => run'.ckpts # {}
    BY <1>0, <1>8, FinishEffect DEF CheckpointFirst, ObservationValid
  <2>3. QED
    BY <1>0, <1>8, <2>1, <2>2, FinishEffect DEF CheckpointFirst
<1>9. QED
  BY <1>0, <1>1, <1>2, <1>3, <1>4, <1>5, <1>6, <1>7, <1>8, StepKinds

LEMMA ControlStep == Stepping => ControlOK'
<1> SUFFICES ASSUME Stepping PROVE ControlOK'
  OBVIOUS
<1>0. TypeOK /\ ControlOK /\ WorkerSteps /\ [Next]_vars
  BY DEF Stepping, IInv
<1>1. CASE UNCHANGED vars
  BY <1>0, <1>1 DEF ControlOK, Rest, Writing, vars, durable, attempt
<1>2. CASE WorkerActs
  <2>1. verdict' = "complete" => worker'.at = "complete"
    BY <1>0, <1>2, WorkerEffect, ReportEffect DEF WorkerActs, ControlOK, ReportComplete
  <2>2. worker.at # "none"
    BY <1>0, <1>2, WorkerEffect, ReportEffect DEF WorkerActs, ControlOK
  <2>3. pc = "run" \/ (Writing /\ doing \in {"event", "finish"})
    BY <1>0, <2>2, RestFields DEF ControlOK, Rest, Writing, TypeOK
  <2>4. QED
    BY <1>0, <1>2, <2>1, <2>2, <2>3, RestFields DEF WorkerActs, RecordQuiet, ControlOK, Rest, Writing
<1>3. CASE Ignores
  BY <1>0, <1>3 DEF Ignores, RecordQuiet, Reading, ControlOK, Rest, Writing
<1>4. CASE Recover \/ Begin
  BY <1>0, <1>4, StartEffect, RestFields DEF ControlOK, Rest, Writing
<1>5. CASE WriteRun
  BY <1>0, <1>5 DEF WriteRun, ControlOK, Rest, Writing
<1>6. CASE WriteModel
  BY <1>0, <1>6 DEF WriteModel, ControlOK, Rest, Writing
<1>7. CASE Resumes
  BY <1>0, <1>7 DEF Resumes, ControlOK, Rest, Writing
<1>8. CASE Over
  BY <1>8, RestFields DEF Over, Ends, ControlOK, Rest, Writing
<1>9. CASE RecordCheckpoint \/ RecordEvaluation
  BY <1>0, <1>9, RecordEffect DEF ControlOK, Rest, Writing
<1>10. CASE CompleteRun \/ FailRun
  BY <1>0, <1>10, FinishEffect DEF ControlOK, Rest, Writing
<1>11. QED
  BY <1>0, <1>1, <1>2, <1>3, <1>4, <1>5, <1>6, <1>7, <1>8, <1>9, <1>10, StepKinds

-----------------------------------------------------------------------------
(* The theorems.                                                            *)

LEMMA IInvInit == Init => IInv
<1> SUFFICES ASSUME Init PROVE IInv
  OBVIOUS
<1>1. /\ run = Planned /\ runFile = Planned /\ pin = PlannedPin /\ pinFile = PlannedPin
      /\ worker = NoWorker /\ pipe = <<>> /\ verdict = "none" /\ stale = FALSE /\ pc = "fresh"
      /\ bundles = {}
  BY DEF Init
<1>2. DOMAIN pipe = {}
  BY <1>1
<1>3. TypeOK
  BY TypeInit
<1>4. ControlOK /\ HistoryKept
  BY <1>1 DEF ControlOK, Rest, Writing, HistoryKept
<1>5. RecordedIsOnDisk /\ CommittedFirst /\ PinsRecorded
  BY <1>1, <1>2, RestFields DEF RecordedIsOnDisk, CommittedFirst, PinsRecorded
<1>6. WorkerSteps /\ WorkerKnows
  BY <1>1, RestFields DEF WorkerSteps, WorkerKnows
<1>7. CheckpointFirst /\ BestKept
  BY <1>1, <1>2, RestFields DEF CheckpointFirst, BestKept, Published
<1>8. QED
  BY <1>3, <1>4, <1>5, <1>6, <1>7 DEF IInv

LEMMA IInvStep == IInv /\ [Next]_vars => IInv'
<1> SUFFICES ASSUME IInv, [Next]_vars PROVE IInv'
  OBVIOUS
<1>1. Stepping /\ TypeOK /\ WorkerSteps
  BY DEF Stepping, IInv
<1>2. TypeOK' /\ ControlOK' /\ HistoryKept' /\ RecordedIsOnDisk' /\ CommittedFirst' /\ PinsRecorded'
  BY <1>1, TypeStep, ControlStep, HistoryStep, OnDiskStep, CommittedStep, PinsStep
<1>3. WorkerSteps' /\ WorkerKnows' /\ CheckpointFirst' /\ BestKept'
  BY <1>1, WorkerStepsStep, KnowsStep, CheckpointFirstStep, BestStep
<1>4. QED
  BY <1>2, <1>3 DEF IInv

\* The invariant all others follow from.
THEOREM ProgressInvariant == Spec => []IInv
<1>1. Init => IInv
  BY IInvInit
<1>2. IInv /\ [Next]_vars => IInv'
  BY IInvStep
<1>3. QED
  BY <1>1, <1>2, PTL DEF Spec

\* After every write, kill, failure and resumption, whatever RUN.json records
\* has been committed to disk, and MODEL.json pins only what RUN.json records
\* (persistRunAndPin, build.go; ADR 0029).
THEOREM RecordsAreTrue == Spec => []RecordIsTrue
<1>1. IInv => RecordIsTrue
  BY DEF IInv, PinsRecorded, RecordIsTrue, PinFollowsRun
<1>2. QED
  BY <1>1, ProgressInvariant, PTL

\* However many attempts a run took, its published artifact is the earliest of
\* the recorded and evaluated checkpoints with the lowest held-out loss
\* (validateBackendObservation; ADR 0079).
THEOREM BestCheckpointIsPublished == Spec => []BestIsPublished
<1>1. IInv => BestIsPublished
  BY DEF IInv, BestKept, Published, BestIsPublished
<1>2. QED
  BY <1>1, ProgressInvariant, PTL

\* No step of an attempt, a worker or the environment takes anything back that
\* RUN.json says, and a complete run is final.
THEOREM HistoryGrows == Spec => HistoryOnlyGrows
<1> DEFINE Grows == /\ runFile.ckpts \subseteq runFile'.ckpts
                    /\ runFile.evals \subseteq runFile'.evals
                    /\ runFile.state = "complete" => runFile' = runFile
<1>1. IInv /\ [Next]_vars => [Grows]_vars
  <2> SUFFICES ASSUME IInv, [Next]_vars PROVE Grows
    OBVIOUS
  <2>1. TypeOK /\ HistoryKept /\ ControlOK
    BY DEF IInv
  <2>2. CASE WriteRun
    BY <2>1, <2>2 DEF WriteRun, HistoryKept, Writing, ControlOK
  <2>3. CASE ~WriteRun
    <3>1. runFile' = runFile
      BY <2>1, <2>3, StepKinds, StartEffect, RecordEffect, FinishEffect
         DEF vars, durable, WorkerActs, Ignores, RecordQuiet, Resumes, Over, WriteModel
    <3>2. QED
      BY <3>1
  <2>4. QED
    BY <2>2, <2>3
<1>2. QED
  BY <1>1, ProgressInvariant, PTL DEF Spec, HistoryOnlyGrows
===============================================================================
