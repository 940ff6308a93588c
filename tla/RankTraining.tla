---------------------------- MODULE RankTraining ----------------------------
(* The ranks of one distributed training run (internal/training/workers/       *)
(* pytorch.py): every rank runs the same program over the same input stream,   *)
(* and the only thing that keeps them together is that all of them enter the   *)
(* same collectives in the same order.  A collective returns when every rank   *)
(* has entered it.  The model follows a launch from the process group through  *)
(* restore, replay, the optimizer steps with their checkpoints and held-out    *)
(* evaluations, the padded final batch and the terminal report, with ranks     *)
(* that die or fail a local check at any moment and are relaunched from the    *)
(* last checkpoint the primary reported.                                       *)
(*                                                                             *)
(* One sequence carries one supervised target.  Weights are the sequences that *)
(* have been trained into them.  The commit of a checkpoint directory is one   *)
(* step; RunProgress takes it apart.                                           *)
EXTENDS Integers, FiniteSets, Functions, RankState

CONSTANTS
    LocalWorld,     \* the numbers of ranks a node may have
    Planes,         \* subset of {"launcher", "local"}, the data planes
    MaxSequences,   \* the longest input stream
    Totals,         \* the lengths a stream may have, in 1 .. MaxSequences
    Accumulations,  \* gradient_accumulation_steps
    Intervals,      \* checkpoint_every and evaluate_every; 0 is off
    Hundredth,      \* how many reports a run makes, 100 in progress_due
    MaxFaults       \* ranks that may die or fail over the whole run

VARIABLES
    base,       \* the step this launch resumed from, 0 for a fresh start
    disk,       \* committed checkpoints: step -> the state they hold
    published,  \* steps of the checkpoints rank 0 has reported
    scored,     \* steps of the evaluations rank 0 has reported
    observed,   \* the consumption of the complete frame, or Nothing
    faults

\* What the plans are drawn from; a run of no step is refused before it starts
\* (internal/training/profile.go).
RankConstants ==
    /\ World \in Nat \ {0} /\ LocalWorld \subseteq Nat \ {0}
    /\ Accumulations \subseteq Nat \ {0} /\ Totals \subseteq Nat \ {0} /\ Intervals \subseteq Nat

vars == <<plan, rank, base, disk, published, scored, observed, job, faults>>

Sequences == 1 .. MaxSequences
Nothing == [n \in Sequences |-> -1]
NoneOf == [n \in Sequences |-> 0]

Largest(S) == CHOOSE x \in S : \A y \in S : y <= x

SumOf(f) == FoldFunction(LAMBDA x, y : x + y, 0, f)

-----------------------------------------------------------------------------
(* The plan: one sequence per rank and micro-batch.                            *)

Plans == [plane : Planes, node : LocalWorld, total : Totals,
          accumulation : Accumulations, checkpointEvery : Intervals,
          evaluateEvery : Intervals, evaluation : BOOLEAN]

PerStep == World * plan.accumulation

\* The optimizer steps the stream makes, counted before the run was planned.
Target == (plan.total + PerStep - 1) \div PerStep

Owner(n) == (n - 1) % World

\* The local rank zero of r's node, which reads the node's input.
Source(r) == (r \div plan.node) * plan.node

Primary == 0

\* The first sequence after which step s is complete.
BoundaryOf(s) == IF s * PerStep < plan.total THEN s * PerStep ELSE plan.total

\* Trainer.__init__, before a checkpoint is restored.
Trainer ==
    [at |-> "join", seen |-> 0, batch |-> {}, gathered |-> {}, count |-> 0,
     accumulation |-> 0, step |-> 0, tokens |-> 0, mine |-> NoneOf, replay |-> 0,
     checkpoints |-> {}, evaluations |-> {}, due |-> FALSE, ending |-> FALSE,
     unpublished |-> FALSE, window |-> 0, opening |-> FALSE]

Init ==
    /\ plan \in {p \in Plans : World % p.node = 0}
    /\ base = 0
    /\ rank = [r \in Ranks |-> Trainer]
    /\ disk = << >>
    /\ published = {} /\ scored = {}
    /\ observed = Nothing
    /\ job = "run"
    /\ faults = 0

-----------------------------------------------------------------------------
(* What one rank does on its own, as functions of its state.                   *)

\* Where a rank goes with the micro-batch it has assembled.
TrainBatch(k) ==
    IF k.replay > 0
    THEN [k EXCEPT !.replay = @ - 1, !.batch = {},
                   !.opening = @ \/ k.replay = 1,
                   !.at = IF k.replay = 1 THEN "replayed" ELSE "read"]
    ELSE [k EXCEPT !.at = "loss"]

\* The next line of the input: the owner keeps the sequence, and every rank
\* enters the optimizer at the same boundary.
AddSequence(k, r) ==
    LET n == k.seen + 1
        taken == [k EXCEPT !.seen = n,
                           !.batch = IF Owner(n) = r THEN @ \union {n} ELSE @]
    IN  CASE k.step >= Target -> [k EXCEPT !.seen = n]
          [] k.step < Target /\ n % World = 0 -> TrainBatch(taken)
          [] OTHER -> taken

Line(k, r) ==
    IF k.seen < plan.total THEN AddSequence(k, r)
    ELSE [k EXCEPT !.ending = TRUE,
                   !.at = IF k.step < Target THEN "pending" ELSE "settle"]

\* The rank's part of a checkpoint that names its share of the consumption.
Restored(k, r) ==
    LET saved == disk[base]
    IN  [k EXCEPT !.step = base, !.tokens = saved.tokens,
                  !.mine = saved.states[r],
                  !.replay = IF plan.plane = "local" THEN 0
                             ELSE base * plan.accumulation,
                  !.seen = IF plan.plane = "local" THEN BoundaryOf(base) ELSE 0,
                  !.checkpoints = published, !.evaluations = scored,
                  !.at = "restored"]

\* After the losses are summed over the ranks.
Accumulated(k, supervised) ==
    [k EXCEPT !.count = @ + supervised, !.gathered = @ \union k.batch,
              !.batch = {}, !.accumulation = @ + 1,
              !.at = IF k.accumulation + 1 < plan.accumulation /\ ~k.ending
                     THEN "read" ELSE "norm"]

\* The optimizer update, and the rank's own clock on whether a report is due.
Updated(k, late) ==
    [k EXCEPT !.step = @ + 1, !.tokens = @ + k.count,
              !.mine = [n \in Sequences |-> @[n] + IF n \in k.gathered THEN 1 ELSE 0],
              !.gathered = {}, !.count = 0, !.accumulation = 0, !.due = late,
              !.window = IF k.opening THEN k.tokens + k.count ELSE @,
              !.opening = FALSE, !.at = "heartbeat"]

ReportEvery == IF Target \div Hundredth < 1 THEN 1 ELSE Target \div Hundredth

\* Mutant: each rank follows its own clock.
ReportDueByClock(k) ==
    k.step = 1 \/ k.step = Target \/ k.step % ReportEvery = 0 \/ k.due

\* The ranks reduce the local clocks to one decision.
ReportDue(k) ==
    \/ k.step = 1 \/ k.step = Target \/ k.step % ReportEvery = 0
    \/ \E r \in Ranks : rank[r].due

\* Periodic evaluation, and the terminal gate that no interval disables.
EvaluateDue(k) ==
    /\ plan.evaluation /\ k.step \notin k.evaluations
    /\ \/ k.step = 1 \/ k.ending
       \/ plan.evaluateEvery > 0 /\ k.step % plan.evaluateEvery = 0

\* A periodic evaluation comes before the checkpoint of its step, the terminal
\* one after it.
EvaluateFirst(k) ==
    EvaluateDue(k) /\ (k.step = 1 \/ (plan.evaluateEvery > 0 /\ k.step % plan.evaluateEvery = 0))

CheckpointDue(k) ==
    plan.checkpointEvery > 0 /\ k.step \notin k.checkpoints
        /\ k.step % plan.checkpointEvery = 0

\* finish saves the last step when no interval has.
LastCheckpointDue(k) ==
    plan.checkpointEvery > 0 /\ k.ending /\ k.step \notin k.checkpoints

\* What is left to do at this step: evaluate, checkpoint, or go on.  A finished
\* stream that produced too few steps is refused.
LeftToDo(k) ==
    CASE k.ending /\ k.step # Target -> "failed"
      [] ~k.ending \/ k.step = Target ->
            CASE EvaluateFirst(k) -> "evaluate"
              [] ~EvaluateFirst(k) /\ CheckpointDue(k) -> "snapshot"
              [] ~EvaluateFirst(k) /\ ~CheckpointDue(k) ->
                    IF EvaluateDue(k) THEN "evaluate"
                    ELSE IF LastCheckpointDue(k) THEN "snapshot"
                    ELSE IF k.ending THEN "consumption" ELSE "read"

Settled(k) == [k EXCEPT !.unpublished = FALSE, !.at = LeftToDo(k)]

\* Mutant: a rank without a sequence of its own sits the last batch out.
PaddedIfOwned(k, waiting) ==
    IF k.batch # {} \/ k.accumulation > 0 THEN TrainBatch(k)
    ELSE [k EXCEPT !.at = "settle"]

\* The final partial batch is padded with sequences that carry no target, and
\* a step left half accumulated is closed with an empty batch.
Padded(k, waiting) ==
    IF waiting > 0 \/ k.accumulation > 0 THEN TrainBatch(k)
    ELSE [k EXCEPT !.at = "settle"]

-----------------------------------------------------------------------------
(* Steps of one rank.                                                          *)

Unrecorded == <<plan, base, disk, published, scored, observed, job, faults>>

\* The restore of one rank's weights, optimizer and counters.
Restore(r) ==
    /\ Live(r) /\ rank[r].at = "restore"
    /\ rank' = [rank EXCEPT ![r] = Restored(@, r)]
    /\ UNCHANGED Unrecorded

\* A node's source reads its own copy of the stream and hands every line to
\* the siblings on its node before it acts on it.
ReadLocal(r) ==
    /\ Live(r) /\ rank[r].at = "read" /\ plan.plane = "local"
    /\ \/ r = Source(r)
       \/ rank[r].seen < rank[Source(r)].seen
       \/ rank[Source(r)].ending
    /\ rank' = [rank EXCEPT ![r] = Line(@, r)]
    /\ UNCHANGED Unrecorded

Settle(r) ==
    /\ Live(r) /\ rank[r].at = "settle"
    /\ rank' = [rank EXCEPT ![r] = Settled(@)]
    /\ UNCHANGED Unrecorded

\* Rank 0 writes what the ranks handed it; the others wait at the barrier.
Commit ==
    /\ Live(Primary) /\ rank[Primary].at = "commit"
    /\ disk' = [s \in DOMAIN disk \union {rank[Primary].step} |->
                    IF s = rank[Primary].step
                    THEN [tokens |-> rank[Primary].tokens,
                          states |-> [r \in Ranks |-> rank[r].mine]]
                    ELSE disk[s]]
    /\ rank' = [rank EXCEPT ![Primary].at = "saved"]
    /\ UNCHANGED <<plan, base, published, scored, observed, job, faults>>

\* What report_checkpoint adds: a checkpoint made for an evaluation waits for it.
Reported(k) == IF k.unpublished THEN {} ELSE {k.step}

\* The gates of record_evaluation pass on rank r; the primary reports the
\* checkpoint it had held back.
Judge(r) ==
    /\ Live(r) /\ rank[r].at = "judge"
    /\ rank' = [rank EXCEPT ![r].at = "record"]
    /\ published' = IF r = Primary THEN published \union {rank[r].step} ELSE published
    /\ UNCHANGED <<plan, base, disk, scored, observed, job, faults>>

\* The evaluation itself is kept and reported.
Record(r) ==
    /\ Live(r) /\ rank[r].at = "record"
    /\ rank' = [rank EXCEPT ![r].evaluations = @ \union {rank[r].step},
                            ![r].at = "settle"]
    /\ scored' = IF r = Primary THEN scored \union {rank[r].step} ELSE scored
    /\ UNCHANGED <<plan, base, disk, published, observed, job, faults>>

\* The complete frame.
Complete ==
    /\ Live(Primary) /\ rank[Primary].at = "complete"
    /\ job' = "complete"
    /\ UNCHANGED <<plan, rank, base, disk, published, scored, observed, faults>>

-----------------------------------------------------------------------------
(* Collectives: every rank has entered before any of them leaves.              *)

\* The sequences the ranks hold between them.
Pending == SumOf([s \in Ranks |-> Cardinality(rank[s].batch)])

\* The report has collectives of its own.
Decided(k) == [k EXCEPT !.due = FALSE, !.at = IF ReportDue(k) THEN "telemetry" ELSE "settle"]

\* The ranks' own counts, added up.
Consumption == [n \in Sequences |-> SumOf([r \in Ranks |-> rank[r].mine[n]])]

\* The process group and the check that all nodes joined with one run.
Joined(k) == [k EXCEPT !.at = IF base = 0 THEN "read" ELSE "restore"]

\* All ranks have evaluated the live model; a step without a checkpoint gets one
\* that is not reported yet.
Evaluated(k) ==
    [k EXCEPT !.unpublished = k.step \notin k.checkpoints,
              !.at = IF k.step \in k.checkpoints THEN "score" ELSE "snapshot"]

\* Weights, random states and optimizer state have reached rank 0.
Gathered(k, r) == [k EXCEPT !.at = IF r = Primary THEN "commit" ELSE "saved"]

Saved(k) ==
    [k EXCEPT !.checkpoints = @ \union {k.step},
              !.at = IF k.unpublished THEN "score" ELSE "settle"]

\* Rank 0 alone reads the saved weights back, and broadcasts their loss.
Scored(k) == [k EXCEPT !.at = "judge"]

\* What rank r does when the collective c returns to it.
After(c, r, late) ==
    LET k == rank[r]
    IN  CASE c = "join" -> Joined(k)
          [] c \in {"restored", "replayed"} -> [k EXCEPT !.at = "read"]
          [] c = "line" -> Line(k, r)
          [] c = "loss" -> Accumulated(k, Pending)
          [] c = "norm" -> Updated(k, late[r])
          [] c = "heartbeat" -> Decided(k)
          [] c = "telemetry" -> [k EXCEPT !.at = "settle"]
          [] c = "evaluate" -> Evaluated(k)
          [] c = "snapshot" -> Gathered(k, r)
          [] c = "saved" -> Saved(k)
          [] c = "score" -> Scored(k)
          [] c = "pending" -> Padded(k, Pending)
          [] c = "consumption" -> [k EXCEPT !.at = "artifact"]
          [] c = "artifact" -> [k EXCEPT !.at = "complete"]

Clocks(c) == IF c = "norm" THEN [Ranks -> BOOLEAN] ELSE {[r \in Ranks |-> FALSE]}

Collective(c) ==
    /\ \A r \in Ranks : Live(r) /\ Waiting(r) = c
    /\ \E late \in Clocks(c) : rank' = [r \in Ranks |-> After(c, r, late)]
    /\ published' = IF c = "saved" THEN published \union Reported(rank[Primary]) ELSE published
    /\ observed' = IF c = "consumption"
                   THEN Consumption ELSE observed
    /\ UNCHANGED <<plan, base, disk, scored, job, faults>>

-----------------------------------------------------------------------------
(* Faults, the launcher and the next launch.                                   *)

\* A rank dies, or a check that only it evaluates fails: the loss tolerances of
\* an evaluation, an artifact that cannot be read back, a full disk.
Fail(r) ==
    /\ Live(r) /\ faults < MaxFaults
    /\ rank' = [rank EXCEPT ![r].at = "failed"]
    /\ faults' = faults + 1
    /\ UNCHANGED <<plan, base, disk, published, scored, observed, job>>

\* torchrun ends every rank of a run that has lost one (external).
LauncherStops ==
    /\ job = "run" /\ \E r \in Ranks : rank[r].at = "failed"
    /\ job' = "stopped"
    /\ UNCHANGED <<plan, rank, base, disk, published, scored, observed, faults>>

\* The operator resumes from the newest checkpoint that was reported.
Resume ==
    /\ job = "stopped"
    /\ base' = IF published = {} THEN 0 ELSE Largest(published)
    /\ rank' = [r \in Ranks |-> Trainer]
    /\ observed' = Nothing
    /\ job' = "run"
    /\ UNCHANGED <<plan, disk, published, scored, faults>>

RankStep(r) == Restore(r) \/ ReadLocal(r) \/ Settle(r) \/ Judge(r) \/ Record(r)

Next ==
    \/ \E r \in Ranks : RankStep(r) \/ Fail(r)
    \/ Commit \/ Complete \/ LauncherStops \/ Resume
    \/ \E c \in Collectives : Collective(c)

Fairness ==
    /\ \A r \in Ranks : WF_vars(RankStep(r))
    /\ WF_vars(\E c \in Collectives : Collective(c))
    /\ WF_vars(Commit) /\ WF_vars(Complete)
    /\ WF_vars(LauncherStops)

Spec == Init /\ [][Next]_vars /\ Fairness

-----------------------------------------------------------------------------
(* Properties.                                                                 *)

\* The consumption that ranks keep apart, each of its own sequences, adds up to
\* every sequence exactly once: in each reported checkpoint up to its boundary,
\* across any number of resumes, and over the whole stream in the complete frame.
ConsumptionIsWhole ==
    /\ \A s \in published :
          /\ s \in DOMAIN disk
          /\ disk[s].tokens = BoundaryOf(s)
          /\ \A n \in Sequences :
                SumOf([r \in Ranks |-> disk[s].states[r][n]]) = IF n <= BoundaryOf(s) THEN 1 ELSE 0
    /\ observed # Nothing =>
          \A n \in Sequences : observed[n] = IF n <= plan.total THEN 1 ELSE 0

\* A run that completes has evaluated and reported its last step, also when it
\* was killed between the report of that checkpoint and the evaluation and came
\* back with nothing left to train: no interval turns the terminal gate off.
CompleteIsEvaluated ==
    /\ scored \subseteq published
    /\ job = "complete" =>
          /\ plan.evaluation => Target \in scored
          /\ plan.evaluation \/ plan.checkpointEvery > 0 => Target \in published

\* A run that nothing disturbs takes every planned step: the partial batches at
\* the end of the stream make up whole steps on every rank.
StepsAreReached == faults = 0 => \A r \in Ranks : rank[r].at # "failed"

\* Every launch ends: no rank waits for ever in a collective the others pass by.
LaunchEnds == job = "run" ~> job # "run"

\* pytorch.py:82-85: "Rates cover the window since training (re)started ... After
\* a resume it opens once the first step after replay has finished": the tokens a
\* rate divides by the time since launch were all trained in this launch.
RateOfThisLaunch ==
    \A r \in Ranks : rank[r].at = "telemetry" /\ base > 0
        => rank[r].window >= BoundaryOf(base)

=============================================================================
