---------------------------- MODULE LaunchState ----------------------------
(* What a multi-node `waldo model train` is judged by: where the primary and   *)
(* the worker processes are, the run each of them works on, and what was put    *)
(* on the hosts.  Runs are numbered; 0 is none.  The steps are HostLaunch's.    *)
EXTENDS Naturals

CONSTANTS
    Hosts,          \* the secondary hosts
    Stages          \* stages of the compose

VARIABLES
    setup,      \* how the command was started; never changes
    phase,      \* where the primary is
    stage,      \* ordinal of the stage in hand
    current,    \* the run of the stage in hand (0: none planned)
    ordinal,    \* the stage each run was planned for
    result,     \* what the command returned
    remote,     \* the worker process on the secondary host
    task, last, \* the run it works on, the last one it completed
    files,      \* runs whose weights were staged and verified on the host
    staging,    \* the hosts that hold the launch directory
    missed      \* hosts that the final stop or cleanup did not reach

(* The weights a stage starts from: the checkpoint of an interrupted run, *)
(* or what the stage before it produced.                                  *)
Resumes == setup.resumes /\ stage = setup.first
NeedsWeights == Resumes \/ stage > 1

-----------------------------------------------------------------------------
(* Properties *)

(* When training begins, every secondary holds the plan of this very run    *)
(* and selected the same held-out split: stale plans of an earlier stage or *)
(* invocation, and a diverging copy of the corpus, never train along.       *)
OneRun ==
    \A h \in Hosts :
        /\ phase = "training" => task[h] = current
        /\ remote[h] = "training" => h \notin setup.divergent

(* Rank 0 enters the rendezvous of a launched stage only after every        *)
(* secondary has acknowledged it, and none of them enters with weights that *)
(* are not on its host.                                                     *)
ReadyBeforeJoin ==
    setup.managed => \A h \in Hosts :
        /\ phase = "join" => task[h] = current /\ remote[h] \notin {"reading", "preparing", "hung"}
        /\ remote[h] = "joined" /\ phase = "join" /\ NeedsWeights => current \in files[h]

(* The launcher returns success only if every worker it started completed   *)
(* the last stage and exited well; no worker runs, and no launch directory  *)
(* is left on a host that could be reached.                                 *)
SuccessIsEverywhere ==
    setup.managed /\ phase = "ended" =>
        /\ staging \subseteq missed
        /\ result = "ok" => /\ \A h \in Hosts : remote[h] \in {"absent", "ok"} /\ last[h] = current
                            /\ current # 0 => ordinal[current] = Stages

(* Every launch trains one run: the three together.                         *)
HostsTrainOneRun == OneRun /\ ReadyBeforeJoin /\ SuccessIsEverywhere
=============================================================================
