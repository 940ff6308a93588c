----------------------------- MODULE MCTraining -----------------------------
(* A training run, seen from three sides that share no state: its durable   *)
(* record (the extended module, on MLX's cadence, and `Resumed`, on         *)
(* PyTorch's with the crash windows of section 6 closed), the hosts it is   *)
(* launched on, and the ranks that train it. Each behaviour is of one side; *)
(* the others stay as they began.                                           *)
EXTENDS RunProgress, LaunchState, RankState

VARIABLES
  side,
  pending, cancelled, error, link, input, inbox, ready, board, hfaults,
  base, disk, published, scored, observed, rfaults

launch == <<setup, phase, stage, current, ordinal, pending, cancelled, error, result, link, input,
            inbox, ready, remote, task, last, files, staging, board, missed, hfaults>>
ranks == <<plan, rank, base, disk, published, scored, observed, job, rfaults>>

Resumed == INSTANCE RunProgress WITH
  CheckpointEvery <- 3, EveryEvaluation <- TRUE, TornWrites <- FALSE,
  OrphanBundles <- FALSE
Launch == INSTANCE HostLaunch WITH
  MaxRuns <- 3, MaxFaults <- 1, faults <- hfaults
Distributed == INSTANCE RankTraining WITH
  LocalWorld <- {1, 2}, Planes <- {"launcher", "local"}, MaxSequences <- 5, Totals <- {3, 5},
  Accumulations <- {1, 2}, Intervals <- {0, 2}, Hundredth <- 1, MaxFaults <- 2,
  faults <- rfaults

ASSUME HostsAssumption == Launch!LaunchConstants
ASSUME RanksAssumption == Distributed!RankConstants

RecordRests == Init /\ \A s \in StepNumbers : loss[s] = CHOOSE l \in Losses : TRUE
LaunchRests ==
  Launch!Init /\ setup = [managed |-> TRUE, first |-> 1, resumes |-> FALSE, divergent |-> {}]
RanksRest ==
  /\ Distributed!Init
  /\ plan = [plane |-> "local", node |-> 1, total |-> 3, accumulation |-> 1,
             checkpointEvery |-> 0, evaluateEvery |-> 0, evaluation |-> FALSE]

MCInit ==
  \/ side = "record" /\ Init /\ LaunchRests /\ RanksRest
  \/ side = "resumed" /\ Resumed!Init /\ LaunchRests /\ RanksRest
  \/ side = "launch" /\ Launch!Init /\ RecordRests /\ RanksRest
  \/ side = "ranks" /\ Distributed!Init /\ RecordRests /\ LaunchRests

MCNext ==
  \/ side = "record" /\ Next /\ UNCHANGED <<side, launch, ranks>>
  \/ side = "resumed" /\ Resumed!Next /\ UNCHANGED <<side, launch, ranks>>
  \/ side = "launch" /\ Launch!Next /\ UNCHANGED <<side, vars, ranks>>
  \/ side = "ranks" /\ Distributed!Next /\ UNCHANGED <<side, vars, launch>>

(* The fairness of each module, for its own behaviours.                     *)
MCSpec ==
  /\ MCInit /\ [][MCNext]_<<side, vars, launch, ranks>>
  /\ WF_vars(side = "resumed" /\ Resumed!WorkerStep)
  /\ WF_vars(side = "resumed" /\ Resumed!AttemptStep)
  /\ WF_launch(side = "launch" /\ Launch!PrimaryStep)
  /\ \A h \in Hosts : /\ WF_launch(side = "launch" /\ Launch!WorkerStep(h))
                      /\ WF_launch(side = "launch" /\ Launch!LinkEnds(h))
  /\ \A r \in 0..World - 1 : WF_ranks(side = "ranks" /\ Distributed!RankStep(r))
  /\ WF_ranks(side = "ranks" /\ \E c \in Distributed!Collectives : Distributed!Collective(c))
  /\ WF_ranks(side = "ranks" /\ Distributed!Commit)
  /\ WF_ranks(side = "ranks" /\ Distributed!Complete)
  /\ WF_ranks(side = "ranks" /\ Distributed!LauncherStops)

-----------------------------------------------------------------------------
(* With the crash windows closed, a run with a recorded checkpoint is       *)
(* completed by repeating the command (RunProgress, the resumptions of      *)
(* model/build.go).                                                         *)
ResumedRunCompletes == side = "resumed" => Resumed!CheckpointedRunCompletes

(* Every sequence is consumed exactly once, across kills and resumes, a     *)
(* complete run has evaluated its last step, and one that nothing disturbs  *)
(* reaches it (RankTraining, pytorch.py).                                   *)
RanksConsumeWhole ==
  Distributed!ConsumptionIsWhole /\ Distributed!CompleteIsEvaluated /\ Distributed!StepsAreReached

(* A launched command returns, the workers it leaves behind end by          *)
(* themselves, and no launch of ranks waits in a collective for ever        *)
(* (model_hostfile.go, pytorch.py).                                         *)
EveryLaunchEnds ==
  /\ side = "launch" => Launch!CommandReturns /\ Launch!NoWorkerIsLeft
  /\ side = "ranks" => Distributed!LaunchEnds
=============================================================================
