------------------------------ MODULE RankState ------------------------------
(* What the ranks of a distributed training run are judged by: where each of   *)
(* them is in the program they all run, and the collectives it enters there    *)
(* (internal/training/workers/pytorch.py). The steps are RankTraining's.       *)
EXTENDS Integers

CONSTANTS
    World           \* the number of ranks

VARIABLES
    plan,       \* what the begin frame fixes
    rank,       \* what each rank's trainer holds
    job         \* the launch: "run", "stopped", "complete"

Ranks == 0 .. World - 1

Live(r) == job = "run" /\ rank[r].at # "failed"

Collectives == {"join", "restored", "line", "replayed", "loss", "norm", "heartbeat",
                "telemetry", "evaluate", "snapshot", "saved", "score", "pending",
                "consumption", "artifact"}

\* In the launcher plane a line is itself a broadcast from rank 0.
Waiting(r) ==
    IF rank[r].at = "read" /\ plan.plane = "launcher" THEN "line" ELSE rank[r].at

-----------------------------------------------------------------------------
(* Properties.                                                                 *)

\* No two ranks ever wait in different collectives: a rank that takes a branch
\* with a collective in it takes it with all the others, whatever its clock,
\* its share of the last batch or the time its restore took.
CollectivesAgree ==
    \A r, s \in Ranks :
        Live(r) /\ Live(s) /\ {Waiting(r), Waiting(s)} \subseteq Collectives
            => Waiting(r) = Waiting(s)
=============================================================================
