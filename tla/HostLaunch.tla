----------------------------- MODULE HostLaunch -----------------------------
(***************************************************************************)
(* One multi-node `waldo model train`: the primary (rank 0), one worker    *)
(* process per secondary host, and what joins them.  With a hostfile the   *)
(* primary launches the workers over ssh, sends each a plan per stage on   *)
(* its standard input and waits for its acknowledgement; without one the   *)
(* operator starts the workers and the primary leaves the plan in a file   *)
(* of the shared model root.                                               *)
(*                                                                         *)
(* A plan is identified by its run; `stage` is its ordinal.  Training      *)
(* itself is a barrier of all nodes (torchrun) followed by an end per      *)
(* node.  Parsing of the hostfile, quoting, host facts and output are left *)
(* out.                                                                    *)
(*                                                                         *)
(* The state that the safety properties speak of, and these, are           *)
(* LaunchState's.                                                          *)
(***************************************************************************)
EXTENDS LaunchState, FiniteSets

CONSTANTS
    MaxRuns,        \* bound: runs planned, over all invocations
    MaxFaults       \* bound: failures of machines, links and training

(* What is assumed of the constants.                                       *)
LaunchConstants ==
    /\ Hosts # {} /\ IsFiniteSet(Hosts)
    /\ Stages \in Nat \ {0} /\ MaxRuns \in Nat /\ MaxRuns >= Stages /\ MaxFaults \in Nat

VARIABLES
    pending,    \* hosts the primary's current loop has not reached
    cancelled,  \* the session's context is cancelled
    error,      \* what the primary's training returned
    link,       \* the ssh process of a worker: "none", "up", "ok" or "error"
    input,      \* the worker's standard input is still open at the primary
    inbox,      \* run sent to the worker and not read (0: none)
    ready,      \* run acknowledged by the worker and not read (0: none)
    board,      \* the run in the shared plan file (0: no file)
    faults

vars == <<setup, phase, stage, current, ordinal, pending, cancelled, error, result, link, input,
          inbox, ready, remote, task, last, files, staging, board, missed, faults>>
primary == <<phase, stage, current, ordinal, pending, error, result>>
wire == <<link, input, inbox, ready>>
worker == <<remote, task, last>>

Ended == {"absent", "ok", "failed"}
Runs == 0..MaxRuns

TypeOK ==
    /\ setup \in [managed : BOOLEAN, first : 1..Stages + 1, resumes : BOOLEAN,
                  divergent : SUBSET Hosts]
    /\ phase \in {"preflight", "compose", "resume", "start", "initialize", "send", "await",
               "post", "join", "training", "stop", "close", "wait", "clean", "ended"}
    /\ stage \in 1..Stages + 1 /\ current \in Runs /\ ordinal \in [Runs -> 0..Stages]
    /\ pending \subseteq Hosts /\ cancelled \in BOOLEAN
    /\ error \in {"none", "failed", "cancelled"}
    /\ result \in {"none", "ok", "error", "workers"}
    /\ link \in [Hosts -> {"none", "up", "ok", "error"}] /\ input \in [Hosts -> BOOLEAN]
    /\ inbox \in [Hosts -> Runs] /\ ready \in [Hosts -> Runs]
    /\ remote \in [Hosts -> Ended \cup {"booting", "reading", "preparing", "hung",
                                        "joined", "training"}]
    /\ task \in [Hosts -> Runs] /\ last \in [Hosts -> Runs]
    /\ files \in [Hosts -> SUBSET Runs] /\ staging \subseteq Hosts
    /\ board \in Runs /\ missed \subseteq Hosts /\ faults \in 0..MaxFaults

(* A completed prefix of the stages is skipped; with all of them complete *)
(* nothing is published.  Resuming is left to the launcher.               *)
Init ==
    /\ setup \in [managed : BOOLEAN, first : 1..Stages + 1, resumes : BOOLEAN,
                  divergent : {{}} \cup {{h} : h \in Hosts}]
    /\ setup.resumes => setup.managed /\ setup.first <= Stages
    /\ phase = (IF setup.managed THEN "preflight" ELSE "compose")
    /\ stage = setup.first /\ current = 0 /\ ordinal = [r \in Runs |-> 0] /\ pending = Hosts
    /\ cancelled = FALSE /\ error = "none" /\ result = "none"
    /\ link = [h \in Hosts |-> "none"] /\ input = [h \in Hosts |-> FALSE]
    /\ inbox = [h \in Hosts |-> 0] /\ ready = [h \in Hosts |-> 0]
    /\ remote = [h \in Hosts |-> IF setup.managed THEN "absent" ELSE "reading"]
    /\ task = [h \in Hosts |-> 0] /\ last = [h \in Hosts |-> 0]
    /\ files = [h \in Hosts |-> {}] /\ staging = {} /\ board = 0
    /\ missed = {} /\ faults = 0

Fault == faults < MaxFaults /\ faults' = faults + 1

-----------------------------------------------------------------------------
(* The primary *)

(* An error of a stage: the shared plan file goes with the attempt, the     *)
(* session, if there is one, is finished.                                   *)
Fail(e) ==
    /\ error' = e
    /\ phase' = (IF setup.managed THEN "stop" ELSE "ended")
    /\ result' = (IF setup.managed THEN result ELSE "error")
    /\ pending' = Hosts
    /\ UNCHANGED <<stage, current, ordinal>>

(* A loop over the hosts: one more of them, then on.                       *)
Rest(h, from, to) ==
    /\ phase = from /\ h \in pending
    /\ pending' = (IF pending = {h} THEN Hosts ELSE pending \ {h})
    /\ phase' = (IF pending = {h} THEN to ELSE phase)
    /\ UNCHANGED <<stage, current, ordinal, error, result>>

(* startHostfileSession, host by host: the binary is uploaded under a       *)
(* temporary name and renamed once its digest is right; then the host       *)
(* probes itself, dials the primary and is compared with it.  The first     *)
(* failure aborts, and abort stops and cleans up.                           *)
StageBinary(h) ==
    /\ phase = "preflight" /\ h \in pending /\ staging \cap pending = {}
    /\ \/ staging' = staging \cup {h} /\ UNCHANGED <<primary, faults>>
       \/ Fault /\ Fail("failed") /\ staging' \in {staging, staging \cup {h}}
    /\ UNCHANGED <<setup, cancelled, wire, worker, files, board, missed>>

ProbeHost(h) ==
    /\ phase = "preflight" /\ h \in pending \cap staging
    /\ \/ Rest(h, "preflight", "compose") /\ UNCHANGED faults
       \/ Fault /\ Fail("failed")
    /\ UNCHANGED <<setup, cancelled, wire, worker, files, staging, board, missed>>

Preflight(h) == StageBinary(h) \/ ProbeHost(h)

(* The compose takes up its next stage, or has none left and returns.       *)
NextStage ==
    /\ phase = "compose"
    /\ pending' = Hosts
    /\ \/ /\ stage <= Stages /\ ~cancelled
          /\ current' = current + 1 /\ ordinal' = [ordinal EXCEPT ![current + 1] = stage]
          /\ phase' = (IF ~setup.managed THEN "post" ELSE IF Resumes THEN "resume" ELSE "start")
          /\ UNCHANGED <<error, result>>
       \/ /\ stage > Stages
          /\ phase' = (IF setup.managed THEN "close" ELSE "ended")
          /\ result' = (IF setup.managed THEN result ELSE "ok")
          /\ UNCHANGED <<current, ordinal, error>>
    /\ UNCHANGED <<setup, stage, cancelled, wire, worker, files, staging, board, missed, faults>>

NextStageFails ==
    /\ phase = "compose"
    /\ \/ cancelled /\ Fail("cancelled") /\ UNCHANGED faults
       \/ ~cancelled /\ Fault /\ Fail("failed")
    /\ UNCHANGED <<setup, cancelled, wire, worker, files, staging, board, missed>>

(* stageResume, for a checkpoint before the workers are started and for     *)
(* initial weights after: a file is uploaded under a temporary name and     *)
(* renamed once its digest is right.                                        *)
StageFiles(h) ==
    /\ \/ Rest(h, "resume", "start") /\ files' = [files EXCEPT ![h] = @ \cup {current}] /\ UNCHANGED faults
       \/ Rest(h, "initialize", "send") /\ files' = [files EXCEPT ![h] = @ \cup {current}] /\ UNCHANGED faults
       \/ phase \in {"resume", "initialize"} /\ Fault /\ Fail("failed") /\ UNCHANGED files
    /\ UNCHANGED <<setup, cancelled, wire, worker, staging, board, missed>>

AfterStart == IF NeedsWeights /\ ~Resumes THEN "initialize" ELSE "send"

(* startWorkers: once per session, at the first publication.               *)
StartWorker(h) ==
    /\ \/ /\ link[h] = "none" /\ Rest(h, "start", AfterStart)
          /\ link' = [link EXCEPT ![h] = "up"] /\ input' = [input EXCEPT ![h] = TRUE]
          /\ remote' = [remote EXCEPT ![h] = "booting"]
          /\ UNCHANGED faults
       \/ /\ link[h] # "none" /\ Rest(h, "start", AfterStart)
          /\ UNCHANGED <<link, input, remote, faults>>
       \/ /\ phase = "start" /\ link[h] = "none" /\ Fault /\ Fail("failed")
          /\ UNCHANGED <<link, input, remote>>
    /\ UNCHANGED <<setup, cancelled, inbox, ready, task, last, files, staging, board, missed>>

(* publish, first loop: the plan goes to every worker's standard input; an  *)
(* ssh process that has ended breaks the pipe.                              *)
SendPlan(h) ==
    /\ phase = "send" /\ h \in pending
    /\ \/ link[h] = "up" /\ Rest(h, "send", "await") /\ inbox' = [inbox EXCEPT ![h] = current]
       \/ link[h] # "up" /\ Fail("failed") /\ UNCHANGED inbox
    /\ UNCHANGED <<setup, cancelled, link, input, ready, worker, files, staging, board, missed, faults>>

Listening == phase \in {"send", "await"}

(* publish, second loop: every worker acknowledges this very plan.          *)
Acknowledged(h) ==
    /\ ready[h] # 0 /\ ready' = [ready EXCEPT ![h] = 0]
    /\ \/ ready[h] = current /\ Rest(h, "await", "join")
       \/ ready[h] # current /\ phase = "await" /\ h \in pending /\ Fail("failed")
    /\ UNCHANGED <<setup, cancelled, link, input, inbox, worker, files, staging, board, missed, faults>>

AwaitFails(h) ==
    /\ phase = "await" /\ h \in pending
    /\ \/ link[h] # "up" /\ Fail("failed")
       \/ cancelled /\ Fail("cancelled")
       \/ remote[h] = "hung" /\ Fail("failed")          \* hostfileStageReadyTimeout
    /\ UNCHANGED <<setup, cancelled, wire, worker, files, staging, board, missed, faults>>

(* publishMultiNodePlan without a launcher: a plan file left behind by      *)
(* another invocation is an error.                                          *)
PostPlan ==
    /\ phase = "post"
    /\ \/ /\ board = 0 /\ board' = current /\ phase' = "join"
          /\ UNCHANGED <<stage, current, ordinal, pending, error, result>>
       \/ board # 0 /\ Fail("failed") /\ UNCHANGED board
    /\ UNCHANGED <<setup, cancelled, wire, worker, files, staging, missed, faults>>

(* torchrun: training begins when every node has joined; the first frame    *)
(* of every rank must name the same run, or all of them fail.               *)
SameRunUnchecked == TRUE                                          \* mutant

SameRun == \A h \in Hosts : task[h] = current

FormGroup ==
    /\ phase = "join" /\ ~cancelled
    /\ \A h \in Hosts : remote[h] = "joined"
    /\ IF SameRun
       THEN /\ remote' = [h \in Hosts |-> "training"] /\ phase' = "training"
            /\ UNCHANGED <<stage, current, ordinal, pending, error, result, board>>
       ELSE /\ remote' = [h \in Hosts |-> "failed"]
            /\ Fail("failed") /\ board' = 0
    /\ UNCHANGED <<setup, cancelled, wire, task, last, files, staging, missed, faults>>

StageTrained ==
    /\ phase = "training"
    /\ stage' = stage + 1 /\ phase' = "compose" /\ board' = 0
    /\ UNCHANGED <<setup, current, ordinal, pending, cancelled, error, result, wire, worker, files,
                   staging, missed, faults>>

TrainingFails ==
    /\ phase \in {"join", "training"} /\ board' = 0
    /\ \/ cancelled /\ Fail("cancelled") /\ UNCHANGED faults
       \/ (\E h \in Hosts : remote[h] \in Ended) /\ Fail("failed") /\ UNCHANGED faults
       \/ phase = "join" /\ (\E h \in Hosts : remote[h] = "hung") /\ Fail("failed") /\ UNCHANGED faults
       \/ Fault /\ Fail("failed")
    /\ UNCHANGED <<setup, cancelled, wire, worker, files, staging, missed>>

(* A primary that is killed leaves its plan file; the operator removes it   *)
(* when the next command says so.                                           *)
KillPrimary ==
    /\ ~setup.managed /\ phase \in {"join", "training"} /\ Fault
    /\ phase' = "ended" /\ result' = "error"
    /\ UNCHANGED <<setup, stage, current, ordinal, pending, error, cancelled, wire, worker, files,
                   staging, board, missed>>

RemoveLeftover ==
    /\ ~setup.managed /\ phase = "ended" /\ board # 0 /\ board' = 0
    /\ UNCHANGED <<setup, primary, cancelled, wire, worker, files, staging, missed, faults>>

(* The operator repeats the command, under the same rendezvous id.          *)
Repeat ==
    /\ phase = "ended" /\ ~setup.managed /\ result = "error" /\ current + 1 + Stages - stage <= MaxRuns
    /\ phase' = "compose" /\ error' = "none" /\ result' = "none"
    /\ UNCHANGED <<setup, stage, current, ordinal, pending, cancelled, wire, worker, files, staging,
                   board, missed, faults>>

(* He starts a worker of the shared mode again.                             *)
RestartWorker(h) ==
    /\ ~setup.managed /\ remote[h] = "failed" /\ Fault
    /\ remote' = [remote EXCEPT ![h] = "reading"] /\ last' = [last EXCEPT ![h] = 0]
    /\ UNCHANGED <<setup, primary, cancelled, wire, task, files, staging, board, missed>>

-----------------------------------------------------------------------------
(* finish and abort *)

(* stopRemoteWorkers: a TERM to the process whose id the remote shell has   *)
(* written down; a worker that is still booting has none.                   *)
StopWorker(h) ==
    /\ Rest(h, "stop", "close")
    /\ \/ /\ remote' = [remote EXCEPT ![h] = IF @ \in Ended \cup {"booting"} THEN @ ELSE "failed"]
          /\ UNCHANGED <<missed, faults>>
       \/ Fault /\ missed' = missed \cup {h} /\ UNCHANGED remote
    /\ UNCHANGED <<setup, cancelled, wire, task, last, files, staging, board>>

CloseInputs ==
    /\ phase = "close" /\ phase' = "wait"
    /\ cancelled' = (cancelled \/ error # "none")
    /\ input' = [h \in Hosts |-> FALSE]
    /\ UNCHANGED <<setup, stage, current, ordinal, pending, error, result, link, inbox, ready, worker,
                   files, staging, board, missed, faults>>

Verdict ==
    IF (\E h \in Hosts : link[h] = "error") /\ error # "failed" THEN "workers"
    ELSE IF error # "none" THEN "error" ELSE "ok"

AllDone ==
    /\ phase = "wait" /\ \A h \in Hosts : link[h] # "up"
    /\ phase' = "clean" /\ pending' = Hosts
    /\ result' = Verdict
    /\ UNCHANGED <<setup, stage, current, ordinal, cancelled, error, wire, worker, files, staging, board,
                   missed, faults>>

(* cleanupStaging: a host that cannot be reached is only warned about.      *)
CleanHost(h) ==
    /\ Rest(h, "clean", "ended")
    /\ \/ staging' = staging \ {h} /\ files' = [files EXCEPT ![h] = {}] /\ UNCHANGED <<missed, faults>>
       \/ Fault /\ missed' = missed \cup {h} /\ UNCHANGED <<staging, files>>
    /\ UNCHANGED <<setup, cancelled, wire, worker, board>>

-----------------------------------------------------------------------------
(* The ssh processes and the workers *)

(* The ssh process ends with its worker, is terminated by a cancelled       *)
(* context, or loses its connection; an error cancels the session.          *)
LinkEnds(h) ==
    /\ link[h] = "up"
    /\ \/ remote[h] = "ok" /\ link' = [link EXCEPT ![h] = "ok"] /\ UNCHANGED <<cancelled, faults>>
       \/ /\ link' = [link EXCEPT ![h] = "error"]
          /\ \/ remote[h] = "failed" /\ cancelled' = TRUE /\ UNCHANGED faults
             \/ cancelled /\ UNCHANGED <<cancelled, faults>>
             \/ Fault /\ cancelled' = TRUE
    /\ UNCHANGED <<setup, primary, input, inbox, ready, worker, files, staging, board, missed>>

Cancel ==                       \* Ctrl-C at the primary
    /\ setup.managed /\ ~cancelled /\ phase # "ended" /\ Fault
    /\ cancelled' = TRUE
    /\ UNCHANGED <<setup, primary, wire, worker, files, staging, board, missed>>

Boot(h) ==
    /\ remote[h] = "booting" /\ remote' = [remote EXCEPT ![h] = "reading"]
    /\ UNCHANGED <<setup, primary, cancelled, wire, task, last, files, staging, board, missed, faults>>

(* runSecondaryStreamPlans and awaitMultiNodePlan: the next plan is one of  *)
(* another run than the last.                                               *)
Offered(h) == IF setup.managed THEN inbox[h] ELSE board
EndOfPlansUnseen(h) == FALSE                                      \* mutant
EndOfPlans(h) == setup.managed /\ inbox[h] = 0 /\ (~input[h] \/ link[h] # "up")
PlanWaitOver(h) == ~setup.managed /\ phase = "ended"

ReadPlan(h) ==
    /\ remote[h] = "reading"
    /\ \/ /\ Offered(h) \notin {0, last[h]}
          /\ task' = [task EXCEPT ![h] = Offered(h)]
          /\ inbox' = [inbox EXCEPT ![h] = 0]
          /\ remote' = [remote EXCEPT ![h] = "preparing"]
       \/ /\ EndOfPlans(h)
          /\ remote' = [remote EXCEPT ![h] = IF last[h] = 0 THEN "ok" ELSE "failed"]
          /\ UNCHANGED <<task, inbox>>
       \/ /\ PlanWaitOver(h)
          /\ remote' = [remote EXCEPT ![h] = "failed"]
          /\ UNCHANGED <<task, inbox>>
    /\ UNCHANGED <<setup, primary, cancelled, link, input, ready, last, files, staging, board,
                   missed, faults>>

(* secondaryNodeLocalRequest: the host selects the held-out split again     *)
(* from its own copy of the corpus, and verifies the staged weights.        *)
WeightsArrive(h) == setup.managed /\ NeedsWeights => task[h] \in files[h]
Prepared(h) == h \notin setup.divergent /\ WeightsArrive(h)

(* A launched worker also dials the primary's listener before it            *)
(* acknowledges; the acknowledgement needs the connection.                  *)
Reachable(h) == setup.managed => Listening /\ link[h] = "up"

Prepare(h) ==
    /\ remote[h] = "preparing"
    /\ \/ /\ Prepared(h) /\ Reachable(h)
          /\ remote' = [remote EXCEPT ![h] = "joined"]
          /\ ready' = [ready EXCEPT ![h] = IF setup.managed THEN task[h] ELSE 0]
       \/ /\ ~(Prepared(h) /\ Reachable(h))
          /\ remote' = [remote EXCEPT ![h] = "failed"] /\ UNCHANGED ready
    /\ UNCHANGED <<setup, primary, cancelled, link, input, inbox, task, last, files, staging,
                   board, missed, faults>>

WorkerTrained(h) ==
    /\ remote[h] = "training"
    /\ last' = [last EXCEPT ![h] = task[h]]
    /\ remote' = [remote EXCEPT ![h] = IF ordinal[task[h]] = Stages THEN "ok" ELSE "reading"]
    /\ UNCHANGED <<setup, primary, cancelled, wire, task, files, staging, board, missed, faults>>

(* A worker fails: alone, or because a node it trains with is lost.  Rank 0 *)
(* holds the rendezvous, so nobody misses a peer before rank 0 has joined.  *)
PeerLost(h) ==
    \/ ~Listening /\ \E g \in Hosts \ {h} : remote[g] \in Ended \cup {"hung"}
    \/ remote[h] = "joined" /\ phase \notin {"await", "join", "send"}
    \/ remote[h] = "training" /\ phase # "training"

WorkerFails(h) ==
    /\ remote[h] \notin Ended \cup {"hung"}
    /\ \/ remote[h] \in {"joined", "training"} /\ PeerLost(h) /\ UNCHANGED faults
       \/ Fault
    /\ remote' = [remote EXCEPT ![h] = "failed"]
    /\ UNCHANGED <<setup, primary, cancelled, wire, task, last, files, staging, board, missed>>

Hang(h) ==
    /\ remote[h] = "preparing" /\ Fault
    /\ remote' = [remote EXCEPT ![h] = "hung"]
    /\ UNCHANGED <<setup, primary, cancelled, wire, task, last, files, staging, board, missed>>

PrimaryStep ==
    \/ NextStage \/ NextStageFails \/ PostPlan \/ FormGroup \/ StageTrained \/ TrainingFails
    \/ CloseInputs \/ AllDone
    \/ \E h \in Hosts : \/ Preflight(h) \/ StageFiles(h) \/ StartWorker(h) \/ SendPlan(h)
                        \/ Acknowledged(h) \/ AwaitFails(h) \/ StopWorker(h) \/ CleanHost(h)

WorkerStep(h) == Boot(h) \/ ReadPlan(h) \/ Prepare(h) \/ WorkerTrained(h) \/ WorkerFails(h)

Next ==
    \/ PrimaryStep \/ KillPrimary \/ RemoveLeftover \/ Repeat \/ Cancel
    \/ \E h \in Hosts : WorkerStep(h) \/ LinkEnds(h) \/ Hang(h) \/ RestartWorker(h)

(* The primary's steps, the workers and the ssh processes are scheduled; a   *)
(* failure, Ctrl-C or a repetition need not happen (each spends a fault or   *)
(* is a choice, and the other disjuncts of the step stay enabled).           *)
Fairness ==
    /\ WF_vars(PrimaryStep)
    /\ \A h \in Hosts : WF_vars(WorkerStep(h)) /\ WF_vars(LinkEnds(h))

Spec == Init /\ [][Next]_vars /\ Fairness

-----------------------------------------------------------------------------
(* Properties *)

(* A launched command returns, whatever fails, hangs or is cancelled.       *)
CommandReturns == setup.managed => <>(phase = "ended")

(* Once it has returned, every remote worker ends by itself, also one that  *)
(* the final TERM has missed; a worker that hangs is the exception.         *)
NoWorkerIsLeft ==
    [](setup.managed /\ phase = "ended" => <>(\A h \in Hosts : remote[h] \in Ended \cup {"hung"}))
=============================================================================
