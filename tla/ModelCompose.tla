---------------------------- MODULE ModelCompose ----------------------------
(***************************************************************************)
(* `waldo model train NAME COMPOSE`: the durable transaction that trains    *)
(* the stages of a compose into one model (internal/model/build.go, with    *)
(* the planning of internal/cli/model.go and internal/model/               *)
(* corpus_history.go).                                                      *)
(*                                                                          *)
(* Several processes may run the command for the same model.  Each plans    *)
(* without holding anything, then takes the model's lock and opens, or      *)
(* takes up, the transaction.  Any of them may be killed.  What one attempt *)
(* at training does to RUN.json and MODEL.json is one step here; module     *)
(* RunProgress has its parts.  Every stage selects one corpus of its own,   *)
(* so its number names both.                                                *)
(***************************************************************************)
EXTENDS Naturals, Sequences, FiniteSets, FiniteSetsExt

CONSTANTS
    NumStages,        \* how many stages the compose has
    Procs,            \* processes that may run the command
    NoProc,           \* the lock is free
    HasBase,          \* the compose starts from the weights of another model
    AuditChoices,     \* values of --audit an invocation may be given
    MetadataCrashes,  \* whether a process may be killed between the writes
                      \* that create a transaction, a model or an archive
    MaxFaults,        \* bound: kills and failed attempts, all together
    MaxRuns           \* bound: runs of the model

ASSUME StagesAssumption == NumStages \in Nat \ {0}
ASSUME ProcsAssumption  == IsFiniteSet(Procs) /\ Procs # {} /\ NoProc \notin Procs
ASSUME ChoiceAssumption == /\ AuditChoices \subseteq BOOLEAN /\ AuditChoices # {}
                           /\ HasBase \in BOOLEAN /\ MetadataCrashes \in BOOLEAN
ASSUME BoundsAssumption == MaxFaults \in Nat /\ MaxRuns \in Nat

VARIABLES
    lock,      \* the holder of .waldo-compose/NAME.lock
    txn,       \* the workspace with a COMPOSE.json, or NoTxn
    bare,      \* workspaces without one
    model,     \* the model directory: absent, partial, ready
    archived,  \* composes whole in the model's archive
    torn,      \* the archive holds a file that was never written out
    runs,      \* the runs of MODEL.json, by ordinal
    proc,      \* the processes
    faults

durable == <<txn, bare, model, archived, torn, runs>>
vars == <<lock, durable, proc, faults>>

Stages == 1..NumStages

Run == [stage : Stages, state : {"planned", "running", "complete", "failed", "interrupted"},
        ckpt : BOOLEAN, audited : BOOLEAN, init : 0..MaxRuns]

Transaction == [start : 0..MaxRuns, stages : SUBSET Stages]
NoTxn == [start |-> 0, stages |-> {}]

Process == [pc : {"idle", "planned", "locked", "made", "ready", "copying", "archive",
                  "archiving", "archived", "stages", "starting", "training"},
            req : SUBSET Stages, start : 0..MaxRuns, idx : 1..(NumStages + 1),
            audit : BOOLEAN]

Idle == [pc |-> "idle", req |-> {}, start |-> 0, idx |-> 1, audit |-> FALSE]

TypeOK ==
    /\ lock \in Procs \cup {NoProc}
    /\ txn \in Transaction
    /\ bare \subseteq Transaction
    /\ model \in {"absent", "partial", "ready"}
    /\ archived \in SUBSET (SUBSET Stages)
    /\ torn \in BOOLEAN
    /\ runs \in Seq(Run)
    /\ Len(runs) <= MaxRuns
    /\ proc \in [Procs -> Process]
    /\ faults \in 0..MaxFaults

Init ==
    /\ lock = NoProc
    /\ txn = NoTxn
    /\ bare = {}
    /\ model = "absent"
    /\ archived = {}
    /\ torn = FALSE
    /\ runs = <<>>
    /\ proc = [p \in Procs |-> Idle]
    /\ faults = 0

At(p, pc) == proc[p].pc = pc
Goto(p, pc) == proc' = [proc EXCEPT ![p].pc = pc]

\* Compose returns, with or without an error; its deferred unlock runs.
Returns(p) == lock' = NoProc /\ proc' = [proc EXCEPT ![p] = Idle]

LastIs(state) == runs # <<>> /\ runs[Len(runs)].state = state

CompletedAmong(n) == {runs[i].stage : i \in {j \in 1..n : runs[j].state = "complete"}}

\* resolveRunInitialization: the newest run with published weights.
NewestComplete ==
    LET done == {i \in DOMAIN runs : runs[i].state = "complete"}
    IN IF done = {} THEN 0 ELSE Max(done)

\* The i-th stage of a selection, in compose order.
StageAt(S, i) == CHOOSE s \in S : Cardinality({t \in S : t <= s}) = i

(***************************************************************************)
(* Planning, without the lock                                               *)
(***************************************************************************)

\* normalizePendingComposeRequest, SkipCompletedCorpora
Remaining == Stages \ CompletedAmong(IF txn = NoTxn THEN Len(runs) ELSE txn.start)

\* CheckComposeTarget, and the inspections that follow it.
Accepted ==
    IF txn # NoTxn
    THEN IF model = "absent"
         THEN txn.stages = Stages
         ELSE /\ model = "ready"
              /\ txn.start <= Len(runs)
              /\ txn.stages \in {Stages, Remaining}
    ELSE /\ model # "partial"
         /\ LastIs("running") => lock = NoProc

\* A request with nothing left to train ends here: the model is unchanged.
Plan(p, audit) ==
    /\ At(p, "idle")
    /\ Accepted
    /\ LET req == IF model = "absent" THEN Stages ELSE Remaining
       IN /\ req # {}
          /\ proc' = [proc EXCEPT ![p] =
                        [Idle EXCEPT !.pc = "planned", !.req = req, !.audit = audit]]
    /\ UNCHANGED <<lock, durable, faults>>

\* Mutant: the lock is not asked for.
LockNothing(p) ==
    /\ At(p, "planned")
    /\ lock' = p
    /\ Goto(p, "locked")
    /\ UNCHANGED <<durable, faults>>

\* lockComposeTransaction does not wait.
Lock(p) ==
    /\ At(p, "planned")
    /\ lock = NoProc
    /\ lock' = p
    /\ Goto(p, "locked")
    /\ UNCHANGED <<durable, faults>>

LockBusy(p) ==
    /\ At(p, "planned")
    /\ lock # NoProc
    /\ proc' = [proc EXCEPT ![p] = Idle]
    /\ UNCHANGED <<lock, durable, faults>>

(***************************************************************************)
(* The transaction                                                          *)
(***************************************************************************)

\* findComposeTransaction: the same resolved compose.
TakeUp(p) ==
    /\ At(p, "locked")
    /\ txn # NoTxn
    /\ txn.stages = proc[p].req
    /\ proc' = [proc EXCEPT ![p].pc = "ready", ![p].start = txn.start]
    /\ UNCHANGED <<lock, durable, faults>>

\* Mutant: the newest run is marked interrupted whatever its state.
RecoveredAnyway ==
    IF runs # <<>> THEN [runs EXCEPT ![Len(runs)].state = "interrupted"] ELSE runs

\* recoverAbandonedComposeRun
Recovered ==
    IF LastIs("running") THEN [runs EXCEPT ![Len(runs)].state = "interrupted"] ELSE runs

\* recoverableComposeStart: an interrupted run whose transaction is gone is the
\* last of the first k stages of the request.
RecoverableStarts(history, req) ==
    {Len(history) - k : k \in
        {k \in 1..Cardinality(req) :
            /\ k <= Len(history)
            /\ history[Len(history)].state = "interrupted"
            /\ \A i \in 1..k : history[Len(history) - k + i].stage = StageAt(req, i)
            /\ \A i \in 1..(k - 1) : history[Len(history) - k + i].state = "complete"}}

StartOf(history, req) ==
    LET starts == RecoverableStarts(history, req)
    IN IF starts = {} THEN Len(history) ELSE Min(starts)

\* os.Mkdir of the workspace, named by the hash of the transaction.
OpenWorkspace(p) ==
    /\ At(p, "locked")
    /\ txn = NoTxn
    /\ model # "partial"
    /\ LET id == [start |-> StartOf(Recovered, proc[p].req), stages |-> proc[p].req]
       IN /\ id \notin bare
          /\ bare' = bare \cup {id}
          /\ proc' = [proc EXCEPT ![p].pc = "made", ![p].start = id.start]
    /\ runs' = Recovered
    /\ UNCHANGED <<lock, txn, model, archived, torn, faults>>

\* An unfinished transaction of another compose, a model that cannot be
\* inspected, or a workspace of that name: Compose returns an error.
Refuse(p) ==
    /\ At(p, "locked")
    /\ IF txn # NoTxn
       THEN txn.stages # proc[p].req /\ UNCHANGED runs
       ELSE IF model = "partial"
       THEN UNCHANGED runs
       ELSE /\ [start |-> StartOf(Recovered, proc[p].req), stages |-> proc[p].req] \in bare
            /\ runs' = Recovered
    /\ Returns(p)
    /\ UNCHANGED <<txn, bare, model, archived, torn, faults>>

WriteTransaction(p) ==
    /\ At(p, "made")
    /\ txn' = [start |-> proc[p].start, stages |-> proc[p].req]
    /\ bare' = bare \ {txn'}
    /\ Goto(p, "ready")
    /\ UNCHANGED <<lock, model, archived, torn, runs, faults>>

\* initializeModel renames the new model into place; the base weights follow.
Initialize(p) ==
    /\ At(p, "ready")
    /\ IF model # "absent"
       THEN UNCHANGED model /\ Goto(p, "archive")
       ELSE IF HasBase
       THEN model' = "partial" /\ Goto(p, "copying")
       ELSE model' = "ready" /\ Goto(p, "archive")
    /\ UNCHANGED <<lock, txn, bare, archived, torn, runs, faults>>

CopyBase(p) ==
    /\ At(p, "copying")
    /\ model' = "ready"
    /\ Goto(p, "archive")
    /\ UNCHANGED <<lock, txn, bare, archived, torn, runs, faults>>

\* ArchiveCompose: every archived file is read back before one is added.
Archive(p) ==
    /\ At(p, "archive")
    /\ ~torn
    /\ Goto(p, IF proc[p].req \in archived THEN "archived" ELSE "archiving")
    /\ UNCHANGED <<lock, durable, faults>>

ArchiveWritten(p) ==
    /\ At(p, "archiving")
    /\ archived' = archived \cup {proc[p].req}
    /\ Goto(p, "archived")
    /\ UNCHANGED <<lock, txn, bare, model, torn, runs, faults>>

\* Inspect, then recover what an abandoned process left running.
Enter(p) ==
    /\ At(p, "archived")
    /\ model = "ready"
    /\ runs' = Recovered
    /\ Goto(p, "stages")
    /\ UNCHANGED <<lock, txn, bare, model, archived, torn, faults>>

Stuck(p) ==
    /\ \/ At(p, "archive") /\ torn
       \/ At(p, "archived") /\ model # "ready"
    /\ Returns(p)
    /\ UNCHANGED <<durable, faults>>

(***************************************************************************)
(* The stages: the loop of Compose, and the decisions of Train              *)
(***************************************************************************)

InLoop(p) == At(p, "stages") /\ proc[p].idx <= Cardinality(proc[p].req)

CurrentStage(p) == StageAt(proc[p].req, proc[p].idx)

Position(p) == proc[p].start + proc[p].idx

Exists(p) == Position(p) <= Len(runs)

SkipStage(p) ==
    /\ InLoop(p)
    /\ Exists(p)
    /\ runs[Position(p)].stage = CurrentStage(p)
    /\ runs[Position(p)].state = "complete"
    /\ proc' = [proc EXCEPT ![p].idx = @ + 1]
    /\ UNCHANGED <<lock, durable, faults>>

\* Mutant: the transaction of a run that cannot be resumed is kept.
DeadRunKept(p) ==
    /\ InLoop(p)
    /\ Exists(p)
    /\ runs[Position(p)].stage = CurrentStage(p)
    /\ runs[Position(p)].state \in {"planned", "failed"}
    /\ Returns(p)
    /\ UNCHANGED <<durable, faults>>

\* "... ended planned and cannot be resumed": the transaction is dropped.
DeadRun(p) ==
    /\ InLoop(p)
    /\ Exists(p)
    /\ runs[Position(p)].stage = CurrentStage(p)
    /\ runs[Position(p)].state \in {"planned", "failed"}
    /\ txn' = NoTxn
    /\ Returns(p)
    /\ UNCHANGED <<bare, model, archived, torn, runs, faults>>

Trains(p) ==
    /\ InLoop(p)
    /\ Exists(p) => /\ runs[Position(p)].stage = CurrentStage(p)
                    /\ runs[Position(p)].state = "interrupted"

\* Mutant: Train never takes up a run.
NeverResumable(p) == FALSE

\* resumableRun looks at the newest run, and compares the whole corpus BOM with
\* the attestations that only --audit adds.
ResumableRun(p) ==
    /\ LastIs("interrupted")
    /\ runs[Len(runs)].stage = CurrentStage(p)
    /\ runs[Len(runs)].audited = proc[p].audit

\* resumeTraining: without a checkpoint, the run starts again from the weights
\* its BOM pins, which must still be the newest.
InitializationHolds == runs[Len(runs)].ckpt \/ runs[Len(runs)].init = NewestComplete

\* validateStagedComposeRun or Train fails at once: the transaction is kept.
WrongRun(p) ==
    /\ InLoop(p)
    /\ Exists(p)
    /\ IF Trains(p)
       THEN ResumableRun(p) /\ ~InitializationHolds
       ELSE runs[Position(p)].stage # CurrentStage(p)
    /\ Returns(p)
    /\ UNCHANGED <<durable, faults>>

ResumeRun(p) ==
    /\ Trains(p)
    /\ ResumableRun(p)
    /\ InitializationHolds
    /\ runs' = [runs EXCEPT ![Len(runs)].state = "running"]
    /\ Goto(p, "training")
    /\ UNCHANGED <<lock, txn, bare, model, archived, torn, faults>>

\* Mutant: a new run starts from the newest run, complete or not.
PlanFromNewest(p) ==
    /\ Trains(p)
    /\ ~ResumableRun(p)
    /\ Len(runs) < MaxRuns
    /\ runs' = Append(runs, [stage |-> CurrentStage(p), state |-> "planned", ckpt |-> FALSE,
                             audited |-> proc[p].audit, init |-> Len(runs)])
    /\ Goto(p, "starting")
    /\ UNCHANGED <<lock, txn, bare, model, archived, torn, faults>>

PlanRun(p) ==
    /\ Trains(p)
    /\ ~ResumableRun(p)
    /\ Len(runs) < MaxRuns
    /\ runs' = Append(runs, [stage |-> CurrentStage(p), state |-> "planned", ckpt |-> FALSE,
                             audited |-> proc[p].audit, init |-> NewestComplete])
    /\ Goto(p, "starting")
    /\ UNCHANGED <<lock, txn, bare, model, archived, torn, faults>>

StartRun(p) ==
    /\ At(p, "starting")
    /\ runs' = [runs EXCEPT ![Len(runs)].state = "running"]
    /\ Goto(p, "training")
    /\ UNCHANGED <<lock, txn, bare, model, archived, torn, faults>>

Checkpoint(p) ==
    /\ At(p, "training")
    /\ ~runs[Len(runs)].ckpt
    /\ runs' = [runs EXCEPT ![Len(runs)].ckpt = TRUE]
    /\ UNCHANGED <<lock, txn, bare, model, archived, torn, proc, faults>>

CompleteRun(p) ==
    /\ At(p, "training")
    /\ runs' = [runs EXCEPT ![Len(runs)].state = "complete"]
    /\ proc' = [proc EXCEPT ![p].pc = "stages", ![p].idx = @ + 1]
    /\ UNCHANGED <<lock, txn, bare, model, archived, torn, faults>>

Fault == faults < MaxFaults /\ faults' = faults + 1

\* Cancelled, or failed with a verified checkpoint: the transaction is kept.
Interrupted(p, canceled) ==
    /\ At(p, "training")
    /\ canceled \/ runs[Len(runs)].ckpt
    /\ Fault
    /\ runs' = [runs EXCEPT ![Len(runs)].state = "interrupted"]
    /\ Returns(p)
    /\ UNCHANGED <<txn, bare, model, archived, torn>>

\* Failed without a checkpoint, or an artifact failed its integrity check.
Failed(p, integrity) ==
    /\ At(p, "training")
    /\ integrity \/ ~runs[Len(runs)].ckpt
    /\ Fault
    /\ runs' = [runs EXCEPT ![Len(runs)].state = "failed"]
    /\ txn' = NoTxn
    /\ Returns(p)
    /\ UNCHANGED <<bare, model, archived, torn>>

\* Every stage is done: the run count must be the transaction's.
Finish(p) ==
    /\ At(p, "stages")
    /\ proc[p].idx > Cardinality(proc[p].req)
    /\ txn' = IF Len(runs) = proc[p].start + Cardinality(proc[p].req) THEN NoTxn ELSE txn
    /\ Returns(p)
    /\ UNCHANGED <<bare, model, archived, torn, runs, faults>>

(***************************************************************************)
(* Failures                                                                 *)
(***************************************************************************)

CrashWindows == {"made", "copying", "archiving"}

\* Copying the base fails: only the transaction is removed.
CopyFails(p) ==
    /\ At(p, "copying")
    /\ MetadataCrashes
    /\ Fault
    /\ txn' = NoTxn
    /\ Returns(p)
    /\ UNCHANGED <<bare, model, archived, torn, runs>>

\* The kernel releases the lock of a killed process.
Kill(p) ==
    /\ proc[p].pc \notin {"idle", "planned"}
    /\ proc[p].pc \in CrashWindows => MetadataCrashes
    /\ Fault
    /\ torn' = (torn \/ At(p, "archiving"))
    /\ Returns(p)
    /\ UNCHANGED <<txn, bare, model, archived, runs>>

OpenTransaction(p) == TakeUp(p) \/ OpenWorkspace(p) \/ Refuse(p) \/ WriteTransaction(p)

PrepareModel(p) ==
    Initialize(p) \/ CopyBase(p) \/ Archive(p) \/ ArchiveWritten(p) \/ Enter(p) \/ Stuck(p)

StageStep(p) ==
    \/ SkipStage(p) \/ WrongRun(p) \/ DeadRun(p) \/ ResumeRun(p) \/ PlanRun(p)
    \/ StartRun(p) \/ CompleteRun(p) \/ Finish(p)

Compose(p) == OpenTransaction(p) \/ PrepareModel(p) \/ StageStep(p)

Next ==
    \E p \in Procs :
        \/ \E audit \in AuditChoices : Plan(p, audit)
        \/ Lock(p) \/ LockBusy(p)
        \/ Compose(p)
        \/ Checkpoint(p)
        \/ \E b \in BOOLEAN : Interrupted(p, b) \/ Failed(p, b)
        \/ CopyFails(p) \/ Kill(p)

Spec == Init /\ [][Next]_vars

\* A process that can proceed does, training ends, and the operator repeats the
\* command.  Nothing makes a process fail.
RetrySpec ==
    /\ Spec
    /\ \A p \in Procs :
        /\ WF_vars(\E audit \in AuditChoices : Plan(p, audit))
        /\ WF_vars(Lock(p) \/ LockBusy(p))
        /\ WF_vars(Compose(p))

(***************************************************************************)
(* Properties                                                               *)
(***************************************************************************)

\* The name lock makes training exclusive: never two processes execute a stage
\* of the model, never two of its runs are running, and the running one is the
\* newest.
OneTrainer ==
    /\ \A p, q \in DOMAIN proc : At(p, "training") /\ At(q, "training") => p = q
    /\ \A i \in DOMAIN runs : runs[i].state = "running" => i = Len(runs)

\* The "append-only history" of a model (docs/MODEL-LIFECYCLE.md:3): no run
\* disappears, changes its stage or its parent, and none that has ended as
\* complete or failed changes any more, whoever trains, fails or is killed.
HistoryAppendOnly ==
    [][/\ Len(runs) <= Len(runs')
       /\ \A i \in DOMAIN runs :
            /\ runs[i].stage = runs'[i].stage
            /\ runs[i].init = runs'[i].init
            /\ runs[i].state \in {"complete", "failed"} => runs'[i] = runs[i]]_vars

\* Every run continues the weights the model had when it was planned: its
\* parent is the newest complete run before it, also when it was completed by
\* a later process (resolveInitialization and its comparison on resume).
LineageIntact ==
    \A j \in DOMAIN runs :
        /\ runs[j].init < j
        /\ runs[j].init # 0 => runs[runs[j].init].state = "complete"
        /\ \A i \in (runs[j].init + 1)..(j - 1) : runs[i].state # "complete"

\* "repeating the exact command [...] resumes the same stage and run from its
\* newest verified checkpoint" (docs/MODEL-LIFECYCLE.md:477-479): a run that can
\* be resumed is never left behind by a newer one.
CheckpointNotAbandoned ==
    \A i \in DOMAIN runs :
        runs[i].state = "interrupted" /\ runs[i].ckpt => i = Len(runs)

\* "WALDO removes corpus paths already present in that model's completed run
\* BOMs" (docs/MODEL-LIFECYCLE.md:446): the completed runs follow the compose
\* and train no corpus twice.
CompletedInOrder ==
    \A i, j \in DOMAIN runs :
        i < j /\ runs[i].state = "complete" /\ runs[j].state = "complete"
            => runs[i].stage < runs[j].stage

\* One process after another trains every stage once and in order, and leaves
\* no run behind that could have been resumed.
StagesOnceInOrder ==
    (\A p, q \in DOMAIN proc : p = q) => CompletedInOrder /\ CheckpointNotAbandoned

\* "After Ctrl-C or process loss, repeating the exact command discovers the
\* active model [...] and resumes" (docs/MODEL-LIFECYCLE.md:477): it ends with
\* every stage trained and no transaction left.
ComposeFinishes == <>[](CompletedAmong(Len(runs)) = Stages /\ txn = NoTxn)
==============================================================================
