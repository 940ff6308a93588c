----------------------------- MODULE RunProgress -----------------------------
(***************************************************************************)
(* The durable progress of one training run: the worker that trains,        *)
(* evaluates and writes checkpoint bundles (internal/training/workers), the *)
(* attempt that records what it reports (internal/model/build.go), and the  *)
(* resumption of an interrupted run from its newest recorded checkpoint.    *)
(*                                                                          *)
(* Durable state: RUN.json, the run's pin in MODEL.json, whether            *)
(* MODEL-BOM.json was written after MODEL.json, and the bundle directories  *)
(* below artifacts/checkpoints.  A checkpoint or an evaluation is named by  *)
(* its optimizer step; the held-out loss of a step is a fact of the run     *)
(* (training is exact: ADR 0029), so repeating a step measures it again.    *)
(***************************************************************************)
EXTENDS Integers, Sequences, FiniteSets

CONSTANTS
    Steps,            \* parameters.Steps, the optimizer steps of the run
    EvaluateEvery,    \* parameters.EvaluateEvery
    CheckpointEvery,  \* parameters.CheckpointEvery
    Losses,           \* held-out losses a step may have
    EveryEvaluation,  \* TRUE: every evaluated step is bundled (PyTorch,
                      \* TorchTitan); FALSE: every newly best one (MLX)
    TornWrites,       \* whether a process may end between the atomic writes
                      \* of one persistRunAndPin
    OrphanBundles,    \* whether an attempt may end, or stop recording, after
                      \* a bundle is committed and before it is recorded
    PipeBound,        \* bound: events the worker may be ahead of its reader
    MaxFaults         \* bound: kills, interruptions, worker and write errors

ASSUME StepsAssumption   == Steps \in Nat \ {0}
ASSUME CadenceAssumption == EvaluateEvery \in Nat /\ CheckpointEvery \in Nat
ASSUME LossesAssumption  == Losses \subseteq Nat /\ Losses # {}
ASSUME ModeAssumption    == {EveryEvaluation, TornWrites, OrphanBundles} \subseteq BOOLEAN
ASSUME BoundsAssumption  == PipeBound \in Nat \ {0} /\ MaxFaults \in Nat

VARIABLES
    loss,      \* the held-out loss of every step
    runFile,   \* RUN.json
    pinFile,   \* the run's pin in MODEL.json
    stamped,   \* MODEL-BOM.json describes MODEL.json as it is
    bundles,   \* committed bundle directories
    pc,        \* the attempt: fresh, off, run, or the file it writes next
    doing,     \* what persistRunAndPin is called for
    run,       \* the attempt's RunRecord
    pin,       \* the attempt's RunPin
    stale,     \* progressErr is set: later events are no longer recorded
    worker,    \* the training process
    pipe,      \* events the worker has written and WALDO has not read
    verdict,   \* how the worker ended
    faults

durable == <<runFile, pinFile, stamped, bundles>>
attempt == <<pc, doing, run, pin, stale>>
vars    == <<loss, durable, attempt, worker, pipe, verdict, faults>>

StepNumbers == 1..Steps
RunStates == {"planned", "running", "complete", "failed", "interrupted"}

Run == [state : RunStates, ckpts : SUBSET StepNumbers, evals : SUBSET StepNumbers,
        selected : 0..Steps, class : {"", "integrity"}]
Pin == [state : RunStates, resume : 0..Steps]

WorkerPhases == {"none", "train", "evaluate", "commit", "reportCheckpoint",
                 "reportEvaluation", "cadence", "finish", "complete"}

Worker == [at : WorkerPhases, step : 0..Steps, ckpts : SUBSET StepNumbers,
           evals : SUBSET StepNumbers, last : 0..Steps, evaluating : BOOLEAN]

Event == [kind : {"checkpoint", "evaluation"}, step : StepNumbers]

TypeOK ==
    /\ loss \in [StepNumbers -> Losses]
    /\ runFile \in Run
    /\ pinFile \in Pin
    /\ stamped \in BOOLEAN
    /\ bundles \in SUBSET StepNumbers
    /\ pc \in {"fresh", "off", "run", "writeRun", "writeModel", "writeBOM"}
    /\ doing \in {"nothing", "recover", "start", "event", "finish"}
    /\ run \in Run
    /\ pin \in Pin
    /\ stale \in BOOLEAN
    /\ worker \in Worker
    /\ pipe \in Seq(Event)
    /\ Len(pipe) <= PipeBound
    /\ verdict \in {"none", "complete", "canceled", "error", "integrity"}
    /\ faults \in 0..MaxFaults

NewestOf(S) == IF S = {} THEN 0 ELSE CHOOSE s \in S : \A t \in S : t <= s

Planned == [state |-> "planned", ckpts |-> {}, evals |-> {}, selected |-> 0, class |-> ""]
PlannedPin == [state |-> "planned", resume |-> 0]
NoWorker == [at |-> "none", step |-> 0, ckpts |-> {}, evals |-> {}, last |-> 0,
             evaluating |-> FALSE]

\* Train has persisted the planned run and its pin, and goes on to execute it.
Init ==
    /\ loss \in [StepNumbers -> Losses]
    /\ runFile = Planned
    /\ pinFile = PlannedPin
    /\ stamped = TRUE
    /\ bundles = {}
    /\ pc = "fresh"
    /\ doing = "nothing"
    /\ run = Planned
    /\ pin = PlannedPin
    /\ stale = FALSE
    /\ worker = NoWorker
    /\ pipe = <<>>
    /\ verdict = "none"
    /\ faults = 0

\* The attempt is over: nothing of it survives but the durable state.
Ends ==
    /\ pc' = "off"
    /\ doing' = "nothing"
    /\ run' = Planned
    /\ pin' = PlannedPin
    /\ stale' = FALSE
    /\ worker' = NoWorker
    /\ pipe' = <<>>
    /\ verdict' = "none"

\* A committed bundle that RUN.json does not record.
Orphans == bundles \ runFile.ckpts

Fault ==
    /\ faults < MaxFaults
    /\ OrphanBundles \/ Orphans = {}
    /\ faults' = faults + 1

(***************************************************************************)
(* Inspect: what the model directory must satisfy before anything reads it  *)
(***************************************************************************)

\* validateProgress: the pin names the newest checkpoint, or none at all.
ResumePinValid == pinFile.resume # 0 => pinFile.resume = NewestOf(runFile.ckpts)

Inspectable ==
    /\ runFile.state = pinFile.state
    /\ stamped
    /\ IF runFile.state = "complete" THEN pinFile.resume = 0 ELSE ResumePinValid

\* Mutant: a run that has ended is never resumed.
ResumableOnlyAbandoned(r) == FALSE

\* resumableRunState
Resumable(r) ==
    \/ r.state = "interrupted"
    \/ r.state = "failed" /\ r.class # "integrity" /\ r.ckpts # {}

(***************************************************************************)
(* The attempt                                                              *)
(***************************************************************************)

Persist(what) == pc' = "writeRun" /\ doing' = what

\* recoverAbandonedComposeRun: a process ended without a terminal state.
Recover ==
    /\ pc = "off"
    /\ Inspectable
    /\ runFile.state = "running"
    /\ run' = [runFile EXCEPT !.state = "interrupted"]
    /\ pin' = [pinFile EXCEPT !.state = "interrupted"]
    /\ Persist("recover")
    /\ UNCHANGED <<loss, durable, stale, worker, pipe, verdict, faults>>

\* A run that a process leaves planned is never taken up again.
MayBegin == pc = "fresh" \/ (pc = "off" /\ Inspectable /\ Resumable(runFile))

\* Mutant: an attempt starts its run record afresh.
BeginAfresh ==
    /\ MayBegin
    /\ run' = [Planned EXCEPT !.state = "running"]
    /\ pin' = [PlannedPin EXCEPT !.state = "running"]
    /\ Persist("start")
    /\ UNCHANGED <<loss, durable, stale, worker, pipe, verdict, faults>>

\* executeTrainingAttempt records that it is running before the worker starts.
Begin ==
    /\ MayBegin
    /\ run' = [runFile EXCEPT !.state = "running", !.class = ""]
    /\ pin' = [pinFile EXCEPT !.state = "running"]
    /\ Persist("start")
    /\ UNCHANGED <<loss, durable, stale, worker, pipe, verdict, faults>>

\* resumeTraining: the pinned resume point, or the newest recorded checkpoint.
ResumeStep == IF pin.resume # 0 THEN pin.resume ELSE NewestOf(run.ckpts)

\* The worker restores the bundle and the histories recorded so far.
Launched ==
    IF ResumeStep = 0
    THEN [NoWorker EXCEPT !.at = "train"]
    ELSE [at         |-> IF ResumeStep < Steps THEN "train" ELSE "finish",
          step       |-> ResumeStep,
          ckpts      |-> run.ckpts,
          evals      |-> run.evals,
          last       |-> NewestOf(run.evals),
          evaluating |-> FALSE]

WriteRun ==
    /\ pc = "writeRun"
    /\ runFile' = run
    /\ pc' = "writeModel"
    /\ UNCHANGED <<loss, pinFile, stamped, bundles, doing, run, pin, stale,
                   worker, pipe, verdict, faults>>

WriteModel ==
    /\ pc = "writeModel"
    /\ pinFile' = pin
    /\ stamped' = FALSE
    /\ pc' = "writeBOM"
    /\ UNCHANGED <<loss, runFile, bundles, doing, run, pin, stale, worker, pipe,
                   verdict, faults>>

WriteBOM ==
    /\ pc = "writeBOM"
    /\ stamped' = TRUE
    /\ CASE doing = "start" ->
              /\ pc' = "run"
              /\ doing' = "nothing"
              /\ worker' = Launched
              /\ UNCHANGED <<run, pin, stale, pipe, verdict>>
         [] doing = "event" ->
              /\ pc' = "run"
              /\ doing' = "nothing"
              /\ UNCHANGED <<run, pin, stale, worker, pipe, verdict>>
         [] OTHER -> Ends
    /\ UNCHANGED <<loss, runFile, pinFile, bundles, faults>>

\* An event that cannot be written sets progressErr; anything else is returned.
WriteFails ==
    /\ pc \in {"writeRun", "writeModel", "writeBOM"}
    /\ TornWrites \/ pc = "writeRun"
    /\ OrphanBundles \/ doing # "event"
    /\ Fault
    /\ IF doing = "event"
       THEN /\ stale' = TRUE
            /\ pc' = "run"
            /\ doing' = "nothing"
            /\ UNCHANGED <<run, pin, worker, pipe, verdict>>
       ELSE Ends
    /\ UNCHANGED <<loss, durable>>

(***************************************************************************)
(* Recording what the worker reports: persistTrainingEvent                  *)
(***************************************************************************)

NextEvent == Head(pipe)

Reading == pc = "run" /\ pipe # <<>> /\ pipe' = Tail(pipe)

DropEvent ==
    /\ Reading
    /\ stale
    /\ UNCHANGED <<loss, durable, attempt, worker, verdict, faults>>

\* The files of the bundle are verified, then the checkpoint is appended and
\* becomes the resume point.
RecordCheckpoint ==
    /\ Reading
    /\ ~stale
    /\ NextEvent.kind = "checkpoint"
    /\ NextEvent.step > NewestOf(run.ckpts)
    /\ run' = [run EXCEPT !.ckpts = @ \cup {NextEvent.step}]
    /\ pin' = [pin EXCEPT !.resume = NextEvent.step]
    /\ Persist("event")
    /\ UNCHANGED <<loss, durable, stale, worker, verdict, faults>>

RecordEvaluation ==
    /\ Reading
    /\ ~stale
    /\ NextEvent.kind = "evaluation"
    /\ NextEvent.step > NewestOf(run.evals)
    /\ run' = [run EXCEPT !.evals = @ \cup {NextEvent.step}]
    /\ Persist("event")
    /\ UNCHANGED <<loss, durable, pin, stale, worker, verdict, faults>>

\* updateDurableEvaluation: the newest evaluation once more, with the same
\* metrics, changes nothing.
RepeatEvaluation ==
    /\ Reading
    /\ ~stale
    /\ NextEvent.kind = "evaluation"
    /\ NextEvent.step = NewestOf(run.evals)
    /\ UNCHANGED <<loss, durable, attempt, worker, verdict, faults>>

\* "... does not advance durable progress": progressErr.
RejectEvent ==
    /\ Reading
    /\ ~stale
    /\ IF NextEvent.kind = "checkpoint"
       THEN NextEvent.step <= NewestOf(run.ckpts)
       ELSE NextEvent.step < NewestOf(run.evals)
    /\ stale' = TRUE
    /\ UNCHANGED <<loss, durable, pc, doing, run, pin, worker, verdict, faults>>

(***************************************************************************)
(* Ending an attempt                                                        *)
(***************************************************************************)

\* Mutant: of equally good checkpoints, the latest is published.
LatestBestOf(S) ==
    IF S = {} THEN 0
    ELSE CHOOSE s \in S : \A t \in S : loss[s] < loss[t] \/ (loss[s] = loss[t] /\ s >= t)

\* The earliest of the steps with the lowest held-out loss.
BestOf(S) ==
    IF S = {} THEN 0
    ELSE CHOOSE s \in S : \A t \in S : loss[s] < loss[t] \/ (loss[s] = loss[t] /\ s <= t)

\* mergeProgress
MergedCheckpoints == run.ckpts \cup {s \in worker.ckpts : s > NewestOf(run.ckpts)}
MergedEvaluations == run.evals \cup worker.evals

\* The worker publishes its best evaluated checkpoint ...
Selected == BestOf(worker.ckpts \cap worker.evals)

\* ... and validateBackendObservation rejects another one.
ObservationValid ==
    /\ Selected # 0
    /\ Selected \in MergedCheckpoints \cap MergedEvaluations
    /\ \A s \in MergedCheckpoints \cap MergedEvaluations : loss[Selected] <= loss[s]

Ended == pc = "run" /\ pipe = <<>> /\ verdict # "none"

Succeeds == verdict = "complete" /\ ~stale /\ ObservationValid

CompleteRun ==
    /\ Ended
    /\ Succeeds
    /\ run' = [state |-> "complete", ckpts |-> MergedCheckpoints,
               evals |-> MergedEvaluations, selected |-> Selected, class |-> ""]
    /\ pin' = [state |-> "complete", resume |-> 0]
    /\ Persist("finish")
    /\ UNCHANGED <<loss, durable, stale, worker, pipe, verdict, faults>>

\* interruptedTrainingError: cancelled, or stopped with a verified checkpoint
\* by anything but an integrity failure.
EndState ==
    IF verdict = "canceled" \/ (run.ckpts # {} /\ verdict # "integrity")
    THEN "interrupted" ELSE "failed"

FailRun ==
    /\ Ended
    /\ ~Succeeds
    /\ run' = [run EXCEPT !.state = EndState,
                          !.class = IF verdict = "integrity" THEN "integrity" ELSE ""]
    /\ pin' = [pin EXCEPT !.state = EndState]
    /\ Persist("finish")
    /\ UNCHANGED <<loss, durable, stale, worker, pipe, verdict, faults>>

(***************************************************************************)
(* The worker                                                               *)
(***************************************************************************)

\* One optimizer step; the first one is always evaluated.
TrainStep ==
    /\ worker.at = "train"
    /\ LET s   == worker.step + 1
           due == s = 1 \/ (EvaluateEvery > 0 /\ s % EvaluateEvery = 0)
       IN worker' = [worker EXCEPT !.step = s, !.at = IF due THEN "evaluate" ELSE "cadence"]
    /\ UNCHANGED <<loss, durable, attempt, pipe, verdict, faults>>

NewlyBest == \A e \in worker.evals : loss[worker.step] < loss[e]

Evaluate ==
    /\ worker.at = "evaluate"
    /\ LET bundled == worker.step \notin worker.ckpts /\ (EveryEvaluation \/ NewlyBest)
       IN worker' = [worker EXCEPT !.evaluating = TRUE,
                                   !.at = IF bundled THEN "commit" ELSE "reportEvaluation"]
    /\ UNCHANGED <<loss, durable, attempt, pipe, verdict, faults>>

\* Mutant: the bundle is reported without its directory being renamed.
CommitNothing ==
    /\ worker.at = "commit"
    /\ worker' = [worker EXCEPT !.at = "reportCheckpoint"]
    /\ UNCHANGED <<loss, durable, attempt, pipe, verdict, faults>>

\* commit_directory synchronizes the temporary directory and renames it.
CommitBundle ==
    /\ worker.at = "commit"
    /\ worker.step \notin bundles
    /\ bundles' = bundles \cup {worker.step}
    /\ worker' = [worker EXCEPT !.at = "reportCheckpoint"]
    /\ UNCHANGED <<loss, runFile, pinFile, stamped, attempt, pipe, verdict, faults>>

\* os.replace cannot rename a directory onto one that is not empty.
CommitOverOrphan ==
    /\ worker.at = "commit"
    /\ worker.step \in bundles
    /\ worker' = NoWorker
    /\ verdict' = "error"
    /\ UNCHANGED <<loss, durable, attempt, pipe, faults>>

Emit(kind) ==
    /\ Len(pipe) < PipeBound
    /\ pipe' = Append(pipe, [kind |-> kind, step |-> worker.step])

ReportCheckpoint ==
    /\ worker.at = "reportCheckpoint"
    /\ Emit("checkpoint")
    /\ worker' = [worker EXCEPT
                    !.ckpts = @ \cup {worker.step},
                    !.at = IF worker.evaluating THEN "reportEvaluation" ELSE "cadence"]
    /\ UNCHANGED <<loss, durable, attempt, verdict, faults>>

ReportEvaluation ==
    /\ worker.at = "reportEvaluation"
    /\ Emit("evaluation")
    /\ worker' = [worker EXCEPT !.evals = @ \cup {worker.step}, !.last = worker.step,
                                !.evaluating = FALSE, !.at = "cadence"]
    /\ UNCHANGED <<loss, durable, attempt, verdict, faults>>

Cadence ==
    /\ worker.at = "cadence"
    /\ LET due == /\ CheckpointEvery > 0
                  /\ worker.step % CheckpointEvery = 0
                  /\ worker.step \notin worker.ckpts
       IN worker' = [worker EXCEPT !.at = IF due THEN "commit"
                                          ELSE IF worker.step < Steps THEN "train"
                                          ELSE "finish"]
    /\ UNCHANGED <<loss, durable, attempt, pipe, verdict, faults>>

\* finish(): the last step is evaluated and, with a cadence, bundled.
Finish ==
    /\ worker.at = "finish"
    /\ worker' = [worker EXCEPT !.at =
                    IF worker.last # worker.step THEN "evaluate"
                    ELSE IF CheckpointEvery > 0 /\ worker.step \notin worker.ckpts THEN "commit"
                    ELSE "complete"]
    /\ UNCHANGED <<loss, durable, attempt, pipe, verdict, faults>>

\* The completion observation: the histories stay with the dead worker.
ReportComplete ==
    /\ worker.at = "complete"
    /\ verdict = "none"
    /\ verdict' = "complete"
    /\ UNCHANGED <<loss, durable, attempt, worker, pipe, faults>>

WorkerStep ==
    \/ TrainStep \/ Evaluate \/ CommitBundle \/ CommitOverOrphan
    \/ ReportCheckpoint \/ ReportEvaluation \/ Cadence \/ Finish \/ ReportComplete

AttemptStep ==
    \/ Recover \/ Begin \/ WriteRun \/ WriteModel \/ WriteBOM
    \/ DropEvent \/ RecordCheckpoint \/ RecordEvaluation \/ RepeatEvaluation \/ RejectEvent
    \/ CompleteRun \/ FailRun

(***************************************************************************)
(* The environment                                                          *)
(***************************************************************************)

WorkerAlive == worker.at # "none" /\ verdict = "none"

\* The worker raises an exception, an integrity error, or is cancelled.  What
\* it has written to its pipe is still read.
WorkerStops(how) ==
    /\ WorkerAlive
    /\ Fault
    /\ verdict' = how
    /\ worker' = NoWorker
    /\ UNCHANGED <<loss, durable, attempt, pipe>>

\* The process is killed or loses power.
Kill ==
    /\ pc # "off"
    /\ TornWrites \/ pc \in {"fresh", "run", "writeRun"}
    /\ Fault
    /\ Ends
    /\ UNCHANGED <<loss, durable>>

Next ==
    \/ WorkerStep
    \/ AttemptStep
    \/ \E how \in {"canceled", "error", "integrity"} : WorkerStops(how)
    \/ WriteFails
    \/ Kill

Spec == Init /\ [][Next]_vars

(***************************************************************************)
(* Fairness: a worker that can proceed does, its reader reads, writes end,  *)
(* and the operator repeats the command while it can still make progress.   *)
(* Faults are never forced.                                                 *)
(***************************************************************************)
RetrySpec == Spec /\ WF_vars(WorkerStep) /\ WF_vars(AttemptStep)

(***************************************************************************)
(* Properties                                                               *)
(***************************************************************************)

\* "RUN.json is committed before the aggregate model pin. A process may stop
\* between those two atomic writes; the verified newest checkpoint remains
\* recoverable directly from this run-local evidence." (records.go:596-598):
\* where only the write of progress was cut short, the run can be read back.
CheckpointSurvivesKill ==
    /\ pc = "off"
    /\ runFile.ckpts # {}
    /\ runFile.state = pinFile.state
    /\ stamped
    => Inspectable

\* ADR 0029: WALDO records a bundle only after its commit, so the resume point
\* of a run that is not over, and every checkpoint it records, is on disk,
\* whatever was interrupted and however far the worker was ahead.
RecordedIsOnDisk ==
    /\ runFile.ckpts \cup run.ckpts \subseteq bundles
    /\ {pinFile.resume, pin.resume} \subseteq bundles \cup {0}

\* A resume point is never behind what a later attempt may believe: MODEL.json
\* never pins a checkpoint RUN.json does not have (the write order of
\* persistRunAndPin, build.go:2142).
PinFollowsRun == pinFile.resume # 0 => pinFile.resume \in runFile.ckpts

\* What the two files and the bundles of a run say of each other holds after
\* every write, kill and failure (persistRunAndPin and the commits it follows).
RecordIsTrue == TypeOK /\ RecordedIsOnDisk /\ PinFollowsRun

\* Attempts add to the history of a run and never rewrite it: what one attempt
\* has recorded is still recorded after kills, failures and resumptions, and a
\* complete run is final (ADR 0004, ADR 0029).
HistoryOnlyGrows ==
    [][/\ runFile.ckpts \subseteq runFile'.ckpts
       /\ runFile.evals \subseteq runFile'.evals
       /\ runFile.state = "complete" => runFile' = runFile]_vars

\* ADR 0079: "its terminal artifact is the evaluated checkpoint with the
\* lowest finite heldout_loss.  Ties select the earliest checkpoint" - of all
\* attempts of the run, not only of the one that completed it.
BestIsPublished ==
    runFile.state = "complete" =>
        /\ runFile.selected \in runFile.ckpts \cap runFile.evals
        /\ \A s \in (runFile.ckpts \cap runFile.evals) \ {runFile.selected} :
             \/ loss[runFile.selected] < loss[s]
             \/ loss[runFile.selected] = loss[s] /\ runFile.selected < s

\* ADR 0029: "Any attempt that ends after WALDO has durably recorded a complete
\* compatible checkpoint is recoverable": repeating the command completes the
\* run, unless an integrity failure ended it.
CheckpointedRunCompletes ==
    runFile.ckpts # {} ~> runFile.state = "complete" \/ runFile.class = "integrity"
==============================================================================
