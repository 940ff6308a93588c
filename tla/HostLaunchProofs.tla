-------------------------- MODULE HostLaunchProofs --------------------------
(* Proofs about the multi-node launch: on any number of hosts, whatever fails, *)
(* hangs, is cancelled or repeated, training begins on one run everywhere and  *)
(* success means that every worker completed it.                               *)
(*                                                                             *)
(* The properties speak of the moment of the rendezvous and of the return.     *)
(* The invariant follows one host through a stage of a launched command - no   *)
(* plan sent, plan under way or taken up, acknowledged, trained - by where the *)
(* primary is and whether its loop has reached that host.                      *)
EXTENDS HostLaunch, TLAPS

Planned == {"resume", "start", "initialize", "post", "send", "await", "join", "training"}

(* A launched command on its way to report success, or there.                  *)
Succeeded ==
    setup.managed /\ \/ phase \in {"close", "wait"} /\ error = "none"
                     \/ phase \in {"clean", "ended"} /\ result = "ok"

PlanOK ==
    /\ phase \in Planned => /\ current # 0 /\ stage <= Stages /\ ordinal[current] = stage
                            /\ current + Stages <= MaxRuns + stage
    /\ phase \in {"preflight", "compose"} => current + Stages + 1 <= MaxRuns + stage
    /\ setup.managed /\ phase = "compose" /\ current # 0 => ordinal[current] + 1 = stage
    /\ Succeeded /\ current # 0 => ordinal[current] = Stages
    /\ ~setup.managed /\ phase \in {"join", "training"} => board = current

ControlOK ==
    /\ phase = "preflight" => setup.managed /\ current = 0
    /\ setup.managed => phase # "post"
    /\ ~setup.managed => phase \in {"compose", "post", "join", "training", "ended"}
    /\ setup.managed /\ phase \in Planned \cup {"preflight", "compose"} => error = "none"
    /\ phase = "stop" => error # "none"
    /\ setup.managed /\ phase = "clean" => staging \subseteq missed \cup pending
    /\ setup.managed /\ phase = "ended" => staging \subseteq missed

(* One host of a launched command.                                             *)
Quiet(h) == inbox[h] = 0 /\ ready[h] = 0

Unused(h) ==
    Quiet(h) /\ link[h] = "none" /\ remote[h] = "absent" /\ task[h] = 0 /\ last[h] = 0

Between == {"absent", "booting", "reading", "training", "ok", "failed"}

(* Nothing of the current run has reached the worker.                          *)
Fresh(h) == Quiet(h) /\ task[h] # current /\ remote[h] \in Between

(* The plan is on its way, or the worker has it.                               *)
Sent(h) ==
    \/ inbox[h] = current /\ ready[h] = 0 /\ task[h] # current /\ remote[h] \in Between
    \/ /\ inbox[h] = 0 /\ task[h] = current
       /\ remote[h] \in {"preparing", "hung", "joined", "failed"}
       /\ ready[h] # 0 => ready[h] = current /\ remote[h] \in {"joined", "failed"}

Acked(h) == Quiet(h) /\ task[h] = current /\ remote[h] \in {"joined", "failed"}

Trained(h) ==
    /\ Quiet(h) /\ task[h] = current /\ remote[h] \in {"training", "reading", "ok", "failed"}
    /\ remote[h] \in {"ok", "reading"} => last[h] = current

Managed(h) ==
    /\ link[h] = "none" => remote[h] = "absent"
    /\ link[h] = "ok" => remote[h] = "ok"
    /\ current = 0 => Unused(h)
    /\ phase \in {"resume", "start", "initialize"} => Fresh(h)
    /\ phase = "send" => IF h \in pending THEN Fresh(h) ELSE Sent(h)
    /\ phase = "await" => IF h \in pending THEN Sent(h) ELSE Acked(h)
    /\ phase = "join" => Acked(h)
    /\ phase \in {"send", "await", "join"} /\ remote[h] = "joined" /\ NeedsWeights
          => current \in files[h]
    /\ phase = "training" \/ (current # 0 /\ (phase = "compose" \/ Succeeded)) => Trained(h)
    /\ phase \in {"clean", "ended"} /\ result = "ok" => link[h] \in {"none", "ok"}

HostOK(h) ==
    /\ remote[h] \in {"joined", "training"} => h \notin setup.divergent
    /\ setup.managed => Managed(h)
    /\ ~setup.managed /\ phase = "training" => task[h] = current

Sound == PlanOK /\ ControlOK /\ \A h \in Hosts : HostOK(h)

IInv == TypeOK /\ Sound

-----------------------------------------------------------------------------
(* What a step leaves alone.                                                   *)

(* Nothing of host g changes.                                                  *)
Same(g) ==
    /\ link'[g] = link[g] /\ remote'[g] = remote[g] /\ inbox'[g] = inbox[g]
    /\ ready'[g] = ready[g] /\ task'[g] = task[g] /\ last'[g] = last[g] /\ files'[g] = files[g]

PrimaryRests == UNCHANGED <<setup, primary, staging, missed, board>>

LEMMA HostRests ==
    ASSUME NEW g \in Hosts, HostOK(g), setup' = setup, UNCHANGED primary, Same(g)
    PROVE  HostOK(g)'
  BY DEF primary, Same, HostOK, Managed, Trained, Acked, Sent, Fresh, Unused, Quiet, Succeeded,
         NeedsWeights, Resumes

LEMMA PrimaryKeeps ==
    ASSUME IInv, PrimaryRests
    PROVE  PlanOK' /\ ControlOK'
  BY DEF IInv, Sound, PrimaryRests, primary, PlanOK, ControlOK, Succeeded

LEMMA OneHostMoves ==
    ASSUME IInv, PrimaryRests, NEW h \in Hosts, HostOK(h)',
           \A g \in Hosts \ {h} : Same(g)
    PROVE  Sound'
  <1>1. \A g \in Hosts \ {h} : HostOK(g)'
    BY HostRests DEF IInv, Sound, PrimaryRests
  <1>q. QED BY <1>1, PrimaryKeeps DEF Sound

LEMMA NoHostMoves ==
    ASSUME IInv, PrimaryRests, \A g \in Hosts : Same(g)
    PROVE  Sound'
  <1>1. \A g \in Hosts : HostOK(g)'
    BY HostRests DEF IInv, Sound, PrimaryRests
  <1>q. QED BY <1>1, PrimaryKeeps DEF Sound

-----------------------------------------------------------------------------
(* Types.  The constants are those of LaunchConstants.                         *)

(* The functions of the hosts, which almost every step uses.                   *)
LEMMA HostTypes ==
    ASSUME TypeOK
    PROVE  /\ link \in [Hosts -> {"none", "up", "ok", "error"}] /\ input \in [Hosts -> BOOLEAN]
           /\ inbox \in [Hosts -> Runs] /\ ready \in [Hosts -> Runs]
           /\ remote \in [Hosts -> Ended \cup {"booting", "reading", "preparing", "hung",
                                               "joined", "training"}]
           /\ task \in [Hosts -> Runs] /\ last \in [Hosts -> Runs]
           /\ files \in [Hosts -> SUBSET Runs]
           /\ current \in Runs /\ board \in Runs /\ stage \in 1..Stages + 1
           /\ ordinal \in [Runs -> 0..Stages] /\ pending \subseteq Hosts
           /\ staging \subseteq Hosts /\ missed \subseteq Hosts
  BY DEF TypeOK

LEMMA InitTypeOK == ASSUME LaunchConstants, Init PROVE TypeOK
  <1>1. 0 \in Runs /\ 0 \in 0..MaxFaults /\ 0 \in 0..Stages
    BY DEF LaunchConstants, Runs
  <1>2. setup \in [managed : BOOLEAN, first : 1..Stages + 1, resumes : BOOLEAN,
                   divergent : SUBSET Hosts]
    BY DEF Init
  <1>3. stage \in 1..Stages + 1
    BY <1>2 DEF Init
  <1>q. QED BY <1>1, <1>2, <1>3 DEF Init, TypeOK, Ended

LEMMA InitSound == ASSUME LaunchConstants, Init PROVE Sound
  <1>1. setup.managed \in BOOLEAN /\ stage \in 1..Stages + 1 /\ current = 0
    BY DEF Init
  <1>2. PlanOK
    BY <1>1 DEF Init, LaunchConstants, PlanOK, Planned, Succeeded
  <1>3. ControlOK
    BY <1>1 DEF Init, ControlOK, Planned
  <1>4. ASSUME NEW h \in Hosts PROVE HostOK(h)
    BY <1>1, <1>4 DEF Init, HostOK, Managed, Unused, Quiet, Succeeded
  <1>q. QED BY <1>2, <1>3, <1>4 DEF Sound

-----------------------------------------------------------------------------
(* The steps of a worker and of its ssh process.                               *)

LEMMA LinkEndsKeeps == ASSUME IInv, NEW h \in Hosts, LinkEnds(h) PROVE Sound'
  <1>1. PrimaryRests /\ \A g \in Hosts \ {h} : Same(g)
    BY HostTypes DEF IInv, LinkEnds, PrimaryRests, worker, Same
  <1>2. /\ UNCHANGED <<setup, primary, inbox, ready, worker, files>> /\ link[h] = "up"
        /\ link'[h] = "error" \/ (link'[h] = "ok" /\ remote[h] = "ok")
    BY HostTypes DEF IInv, LinkEnds
  <1>3. HostOK(h)'
    BY <1>2 DEF IInv, Sound, primary, worker, HostOK, Managed, Trained, Acked, Sent, Fresh, Unused,
                Quiet, Succeeded, NeedsWeights, Resumes
  <1>q. QED BY <1>1, <1>3, OneHostMoves

(* What the worker's own steps do to its process, and to nothing else.         *)
Becomes(h, to) ==
    /\ PrimaryRests /\ UNCHANGED <<link, inbox, ready, task, last, files>>
    /\ remote'[h] = to /\ \A g \in Hosts \ {h} : remote'[g] = remote[g]

LEMMA BecomesSame ==
    ASSUME NEW h \in Hosts, NEW to, Becomes(h, to) PROVE \A g \in Hosts \ {h} : Same(g)
  BY DEF Becomes, Same

LEMMA BootKeeps == ASSUME IInv, NEW h \in Hosts, Boot(h) PROVE Sound'
  <1>1. Becomes(h, "reading") /\ remote[h] = "booting"
    BY HostTypes DEF IInv, Boot, Becomes, PrimaryRests, wire
  <1>2. HostOK(h)'
    BY <1>1 DEF IInv, Sound, Becomes, PrimaryRests, primary, HostOK, Managed, Trained, Acked, Sent,
                Fresh, Unused, Quiet, Succeeded, NeedsWeights, Resumes, Between
  <1>q. QED BY <1>1, <1>2, BecomesSame, OneHostMoves DEF Becomes

LEMMA HangKeeps == ASSUME IInv, NEW h \in Hosts, Hang(h) PROVE Sound'
  <1>1. Becomes(h, "hung") /\ remote[h] = "preparing"
    BY HostTypes DEF IInv, Hang, Becomes, PrimaryRests, wire
  <1>2. HostOK(h)'
    BY <1>1 DEF IInv, Sound, Becomes, PrimaryRests, primary, HostOK, Managed, Trained, Acked, Sent,
                Fresh, Unused, Quiet, Succeeded, NeedsWeights, Resumes, Between
  <1>q. QED BY <1>1, <1>2, BecomesSame, OneHostMoves DEF Becomes

(* A worker that was started may fail at any time.                             *)
LEMMA FailingKeeps ==
    ASSUME IInv, NEW h \in Hosts, Becomes(h, "failed"), remote[h] \notin Ended
    PROVE  Sound'
  <1>2. HostOK(h)'
    BY DEF IInv, Sound, Becomes, PrimaryRests, primary, HostOK, Managed, Trained, Acked, Sent,
           Fresh, Unused, Quiet, Succeeded, NeedsWeights, Resumes, Between, Ended
  <1>q. QED BY <1>2, BecomesSame, OneHostMoves DEF Becomes

LEMMA WorkerFailsKeeps == ASSUME IInv, NEW h \in Hosts, WorkerFails(h) PROVE Sound'
  <1>1. Becomes(h, "failed") /\ remote[h] \notin Ended
    BY HostTypes DEF IInv, WorkerFails, Becomes, PrimaryRests, wire
  <1>q. QED BY <1>1, FailingKeeps

LEMMA RestartWorkerKeeps == ASSUME IInv, NEW h \in Hosts, RestartWorker(h) PROVE Sound'
  <1>1. PrimaryRests /\ \A g \in Hosts \ {h} : Same(g)
    BY HostTypes DEF IInv, RestartWorker, PrimaryRests, wire, Same
  <1>2. ~setup.managed /\ remote'[h] = "reading" /\ UNCHANGED <<setup, primary, task>>
    BY HostTypes DEF IInv, RestartWorker
  <1>3. HostOK(h)'
    BY <1>2 DEF IInv, Sound, primary, HostOK
  <1>q. QED BY <1>1, <1>3, OneHostMoves

(* A plan that is taken up is the one under way to the worker.                 *)
LEMMA TakePlanKeeps ==
    ASSUME IInv, NEW h \in Hosts, remote[h] = "reading", Offered(h) \notin {0, last[h]},
           task' = [task EXCEPT ![h] = Offered(h)], inbox' = [inbox EXCEPT ![h] = 0],
           remote' = [remote EXCEPT ![h] = "preparing"],
           UNCHANGED <<setup, primary, link, ready, last, files, staging, board, missed>>
    PROVE  Sound'
  <1>1. /\ task'[h] = Offered(h) /\ inbox'[h] = 0 /\ remote'[h] = "preparing"
        /\ PrimaryRests /\ \A g \in Hosts \ {h} : Same(g)
    BY HostTypes DEF IInv, PrimaryRests, Same
  <1>2. CASE setup.managed
    <2>1. Offered(h) = inbox[h] /\ inbox[h] # 0
      BY <1>2 DEF Offered
    <2>2. Managed(h)
      BY <1>2 DEF IInv, Sound, HostOK
    <2>3. Managed(h)'
      BY <1>1, <2>1, <2>2
      DEF primary, Managed, Trained, Acked, Sent, Fresh, Unused, Quiet, Succeeded, NeedsWeights,
          Resumes
    <2>4. HostOK(h)'
      BY <1>1, <1>2, <2>3 DEF HostOK
    <2>q. QED BY <1>1, <2>4, OneHostMoves
  <1>3. CASE ~setup.managed
    <2>1. Offered(h) = board
      BY <1>3 DEF Offered
    <2>2. HostOK(h)'
      BY <1>1, <1>3, <2>1 DEF IInv, Sound, PlanOK, primary, HostOK
    <2>q. QED BY <1>1, <2>2, OneHostMoves
  <1>q. QED BY <1>2, <1>3

(* A worker that sees the end of its plans has none to take up: it ends well   *)
(* if it has trained nothing, and a stage that was trained is not undone.      *)
LEMMA EndOfPlansKeeps ==
    ASSUME IInv, NEW h \in Hosts, remote[h] = "reading", EndOfPlans(h), NEW to,
           to = (IF last[h] = 0 THEN "ok" ELSE "failed"), Becomes(h, to)
    PROVE  Sound'
  <1>1. setup.managed /\ inbox[h] = 0
    BY DEF EndOfPlans
  <1>2. Managed(h) /\ (phase \in Planned => current # 0)
    BY <1>1 DEF IInv, Sound, HostOK, PlanOK
  <1>3. to \in {"ok", "failed"} /\ (to = "ok" => last[h] = 0)
    OBVIOUS
  <1>4. Managed(h)'
    BY <1>1, <1>2, <1>3
    DEF Becomes, PrimaryRests, primary, Managed, Trained, Acked, Sent, Fresh, Unused, Quiet,
        Succeeded, NeedsWeights, Resumes, Between, Planned
  <1>5. HostOK(h)'
    BY <1>1, <1>3, <1>4 DEF HostOK, Becomes, PrimaryRests
  <1>q. QED BY <1>5, BecomesSame, OneHostMoves DEF Becomes

LEMMA ReadPlanKeeps == ASSUME IInv, NEW h \in Hosts, ReadPlan(h) PROVE Sound'
  <1>1. CASE Offered(h) \notin {0, last[h]} /\ task' = [task EXCEPT ![h] = Offered(h)]
             /\ inbox' = [inbox EXCEPT ![h] = 0] /\ remote' = [remote EXCEPT ![h] = "preparing"]
    BY <1>1, TakePlanKeeps DEF ReadPlan
  <1>2. CASE EndOfPlans(h) /\ UNCHANGED <<task, inbox>>
             /\ remote' = [remote EXCEPT ![h] = IF last[h] = 0 THEN "ok" ELSE "failed"]
    <2>1. PICK to : to = (IF last[h] = 0 THEN "ok" ELSE "failed")
      OBVIOUS
    <2>2. Becomes(h, to)
      BY <1>2, <2>1, HostTypes DEF IInv, ReadPlan, Becomes, PrimaryRests
    <2>q. QED BY <1>2, <2>1, <2>2, EndOfPlansKeeps DEF ReadPlan
  <1>3. CASE PlanWaitOver(h) /\ UNCHANGED <<task, inbox>>
             /\ remote' = [remote EXCEPT ![h] = "failed"]
    <2>1. Becomes(h, "failed") /\ remote[h] \notin Ended
      BY <1>3, HostTypes DEF IInv, ReadPlan, Becomes, PrimaryRests, Ended
    <2>q. QED BY <2>1, FailingKeeps
  <1>q. QED BY <1>1, <1>2, <1>3 DEF ReadPlan

(* What a launched worker acknowledges is the plan of the current run, with    *)
(* its weights on the host.                                                    *)
LEMMA AcknowledgeKeeps ==
    ASSUME IInv, NEW h \in Hosts, remote[h] = "preparing", Prepared(h), Reachable(h),
           remote' = [remote EXCEPT ![h] = "joined"],
           ready' = [ready EXCEPT ![h] = IF setup.managed THEN task[h] ELSE 0],
           UNCHANGED <<setup, primary, link, inbox, task, last, files, staging, board, missed>>
    PROVE  Sound'
  <1>1. /\ remote'[h] = "joined" /\ ready'[h] = (IF setup.managed THEN task[h] ELSE 0)
        /\ PrimaryRests /\ \A g \in Hosts \ {h} : Same(g)
    BY HostTypes DEF IInv, PrimaryRests, Same
  <1>2. h \notin setup.divergent
    BY DEF Prepared
  <1>3. CASE setup.managed
    <2>1. Managed(h) /\ phase \in {"send", "await"} /\ current # 0
      BY <1>3 DEF IInv, Sound, HostOK, PlanOK, Planned, Reachable, Listening
    <2>2. task[h] = current /\ inbox[h] = 0 /\ Sent(h) /\ ~Fresh(h) /\ ~Acked(h)
      BY <2>1 DEF Managed, Fresh, Sent, Acked, Between
    <2>3. NeedsWeights => current \in files[h]
      BY <1>3, <2>2 DEF Prepared, WeightsArrive
    <2>4. Sent(h)' /\ ready'[h] = current
      BY <1>1, <1>3, <2>2 DEF primary, Sent
    <2>5. Managed(h)'
      BY <1>1, <2>1, <2>2, <2>3, <2>4
      DEF primary, Managed, Trained, Acked, Unused, Quiet, Succeeded, NeedsWeights, Resumes
    <2>6. HostOK(h)'
      BY <1>1, <1>2, <1>3, <2>5 DEF HostOK
    <2>q. QED BY <1>1, <2>6, OneHostMoves
  <1>4. CASE ~setup.managed
    <2>1. HostOK(h)'
      BY <1>1, <1>2, <1>4 DEF IInv, Sound, primary, HostOK
    <2>q. QED BY <1>1, <2>1, OneHostMoves
  <1>q. QED BY <1>3, <1>4

LEMMA PrepareKeeps == ASSUME IInv, NEW h \in Hosts, Prepare(h) PROVE Sound'
  <1>1. CASE Prepared(h) /\ Reachable(h) /\ remote' = [remote EXCEPT ![h] = "joined"]
             /\ ready' = [ready EXCEPT ![h] = IF setup.managed THEN task[h] ELSE 0]
    BY <1>1, AcknowledgeKeeps DEF Prepare
  <1>2. CASE remote' = [remote EXCEPT ![h] = "failed"] /\ UNCHANGED ready
    <2>1. Becomes(h, "failed") /\ remote[h] \notin Ended
      BY <1>2, HostTypes DEF IInv, Prepare, Becomes, PrimaryRests, Ended
    <2>q. QED BY <2>1, FailingKeeps
  <1>q. QED BY <1>1, <1>2 DEF Prepare

LEMMA WorkerTrainedKeeps == ASSUME IInv, NEW h \in Hosts, WorkerTrained(h) PROVE Sound'
  <1>1. /\ remote[h] = "training" /\ last'[h] = task[h] /\ remote'[h] \in {"ok", "reading"}
        /\ UNCHANGED <<setup, primary, link, inbox, ready, task, files>>
        /\ PrimaryRests /\ \A g \in Hosts \ {h} : Same(g)
    BY HostTypes DEF IInv, WorkerTrained, PrimaryRests, Same, wire
  <1>2. HostOK(h)'
    BY <1>1 DEF IInv, Sound, primary, HostOK, Managed, Trained, Acked, Sent, Fresh, Unused, Quiet,
                Succeeded, NeedsWeights, Resumes, Between
  <1>q. QED BY <1>1, <1>2, OneHostMoves

-----------------------------------------------------------------------------
(* The primary: failures and the loops over the hosts.                         *)

(* After a failure a launched command stops its session, and nothing is        *)
(* claimed of a host but what its link says.                                   *)
LEMMA FailureKeeps ==
    ASSUME IInv, NEW e \in {"failed", "cancelled"}, Fail(e), setup' = setup,
           \A g \in Hosts : Same(g)
    PROVE  Sound'
  <1>1. /\ setup.managed => phase' = "stop" /\ ControlOK'
        /\ ~setup.managed => phase' = "ended" /\ ControlOK'
    BY DEF Fail, ControlOK, Planned
  <1>2. PlanOK'
    BY <1>1 DEF PlanOK, Planned, Succeeded
  <1>3. ASSUME NEW g \in Hosts PROVE HostOK(g)'
    <2>1. HostOK(g) /\ Same(g) /\ current' = current
      BY DEF IInv, Sound, Fail
    <2>2. CASE setup.managed
      <3>1. phase' = "stop" /\ ~Succeeded' /\ Managed(g)
        BY <1>1, <2>1, <2>2 DEF Succeeded, HostOK
      <3>2. Managed(g)'
        BY <2>1, <3>1 DEF Same, Managed, Unused, Quiet
      <3>q. QED BY <2>1, <2>2, <3>1, <3>2 DEF HostOK, Same
    <2>3. CASE ~setup.managed
      BY <1>1, <2>1, <2>3 DEF HostOK, Same
    <2>q. QED BY <2>2, <2>3
  <1>q. QED BY <1>1, <1>2, <1>3 DEF Sound

(* One more host of a loop: the primary is at the same place, with one host    *)
(* less before it, or at the next with all of them.                            *)
LEMMA RestEffect ==
    ASSUME NEW h, NEW from, NEW to, Rest(h, from, to)
    PROVE  /\ phase = from /\ h \in pending
           /\ \/ phase' = from /\ pending' = pending \ {h}
              \/ phase' = to /\ pending' = Hosts /\ pending = {h}
           /\ UNCHANGED <<stage, current, ordinal, error, result>>
  BY DEF Rest

(* The loops of a stage leave the plan and the control alone.                  *)
LEMMA StageLoopKeeps ==
    ASSUME IInv, setup.managed, phase \in Planned, phase' \in Planned \ {"post"},
           UNCHANGED <<setup, stage, current, ordinal, error, result>>
    PROVE  PlanOK' /\ ControlOK'
  BY DEF IInv, Sound, PlanOK, ControlOK, Planned, Succeeded

LEMMA StageFilesLoop ==
    ASSUME IInv, NEW h \in Hosts, NEW from, NEW to,
           \/ from = "resume" /\ to = "start"
           \/ from = "initialize" /\ to = "send",
           Rest(h, from, to), files' = [files EXCEPT ![h] = @ \cup {current}],
           UNCHANGED <<setup, wire, worker>>
    PROVE  Sound'
  <1>1. /\ phase = from /\ (phase' = from \/ (phase' = to /\ pending' = Hosts))
        /\ UNCHANGED <<stage, current, ordinal, error, result>>
    BY RestEffect
  <1>2. setup.managed /\ phase \in Planned /\ phase' \in Planned \ {"post"}
    BY <1>1 DEF IInv, Sound, ControlOK, Planned
  <1>3. \A g \in Hosts : Fresh(g) /\ Fresh(g)' /\ Managed(g)
    BY <1>1, <1>2 DEF IInv, Sound, HostOK, Managed, Fresh, Quiet, wire, worker
  <1>4. ASSUME NEW g \in Hosts PROVE HostOK(g)'
    <2>1. Managed(g)'
      BY <1>1, <1>3 DEF Managed, wire, worker, Unused, Quiet, Fresh, Between, Succeeded
    <2>q. QED BY <1>2, <2>1 DEF IInv, Sound, HostOK, worker
  <1>q. QED BY <1>1, <1>2, <1>4, StageLoopKeeps DEF Sound

LEMMA StageFilesKeeps == ASSUME IInv, NEW h \in Hosts, StageFiles(h) PROVE Sound'
  <1>1. CASE /\ Rest(h, "resume", "start") \/ Rest(h, "initialize", "send")
             /\ files' = [files EXCEPT ![h] = @ \cup {current}]
    <2>1. UNCHANGED <<setup, wire, worker>>
      BY DEF StageFiles
    <2>2. PICK from, to : /\ \/ from = "resume" /\ to = "start"
                             \/ from = "initialize" /\ to = "send"
                          /\ Rest(h, from, to)
      BY <1>1
    <2>q. QED BY <1>1, <2>1, <2>2, StageFilesLoop
  <1>2. CASE Fail("failed") /\ UNCHANGED files
    <2>1. setup' = setup /\ \A g \in Hosts : Same(g)
      BY <1>2 DEF StageFiles, Same, wire, worker
    <2>q. QED BY <1>2, <2>1, FailureKeeps
  <1>q. QED BY <1>1, <1>2 DEF StageFiles

(* A worker that is started has heard of no run.                               *)
LEMMA StartLoop ==
    ASSUME IInv, NEW h \in Hosts, NEW to \in {"initialize", "send"}, Rest(h, "start", to),
           UNCHANGED <<setup, inbox, ready, task, last, files>>,
           \/ UNCHANGED <<link, remote>>
           \/ /\ link' = [link EXCEPT ![h] = "up"] /\ remote' = [remote EXCEPT ![h] = "booting"]
    PROVE  Sound'
  <1>1. /\ phase = "start" /\ (phase' = "start" \/ (phase' = to /\ pending' = Hosts))
        /\ UNCHANGED <<stage, current, ordinal, error, result>>
    BY RestEffect
  <1>2. setup.managed /\ phase \in Planned /\ phase' \in Planned \ {"post"} /\ current # 0
    BY <1>1 DEF IInv, Sound, ControlOK, PlanOK, Planned
  <1>3. ASSUME NEW g \in Hosts
        PROVE  \/ link'[g] = link[g] /\ remote'[g] = remote[g]
               \/ link'[g] = "up" /\ remote'[g] = "booting"
    BY HostTypes DEF IInv
  <1>4. ASSUME NEW g \in Hosts PROVE HostOK(g)'
    <2>1. Fresh(g) /\ Managed(g) /\ HostOK(g)
      BY <1>1, <1>2 DEF IInv, Sound, HostOK, Managed
    <2>2. Fresh(g)'
      BY <1>1, <1>3, <2>1 DEF Fresh, Quiet, Between
    <2>3. Managed(g)'
      BY <1>1, <1>2, <1>3, <2>1, <2>2 DEF Managed, Fresh, Between, Succeeded
    <2>q. QED BY <1>2, <1>3, <2>1, <2>3 DEF HostOK
  <1>q. QED BY <1>1, <1>2, <1>4, StageLoopKeeps DEF Sound

LEMMA StartWorkerKeeps == ASSUME IInv, NEW h \in Hosts, StartWorker(h) PROVE Sound'
  <1>1. PICK to \in {"initialize", "send"} : to = AfterStart
    BY DEF AfterStart
  <1>2. CASE Rest(h, "start", to)
             /\ \/ UNCHANGED <<link, remote>>
                \/ /\ link' = [link EXCEPT ![h] = "up"]
                   /\ remote' = [remote EXCEPT ![h] = "booting"]
    BY <1>2, StartLoop DEF StartWorker
  <1>3. CASE Fail("failed") /\ UNCHANGED <<link, input, remote>>
    <2>1. setup' = setup /\ \A g \in Hosts : Same(g)
      BY <1>3 DEF StartWorker, Same
    <2>q. QED BY <1>3, <2>1, FailureKeeps
  <1>q. QED BY <1>1, <1>2, <1>3 DEF StartWorker

(* The plan goes to a worker that has heard nothing of the run.                *)
LEMMA SendLoop ==
    ASSUME IInv, NEW h \in Hosts, Rest(h, "send", "await"),
           inbox' = [inbox EXCEPT ![h] = current],
           UNCHANGED <<setup, link, ready, worker, files>>
    PROVE  Sound'
  <1>1. /\ phase = "send" /\ h \in pending
        /\ \/ phase' = "send" /\ pending' = pending \ {h}
           \/ phase' = "await" /\ pending' = Hosts /\ pending = {h}
        /\ UNCHANGED <<stage, current, ordinal, error, result>>
    BY RestEffect
  <1>2. setup.managed /\ phase \in Planned /\ phase' \in Planned \ {"post"} /\ current # 0
    BY <1>1 DEF IInv, Sound, ControlOK, PlanOK, Planned
  <1>3. ASSUME NEW g \in Hosts PROVE HostOK(g)'
    <2>1. HostOK(g) /\ Managed(g) /\ NeedsWeights' = NeedsWeights
      BY <1>1, <1>2 DEF IInv, Sound, HostOK, NeedsWeights, Resumes
    <2>2. inbox'[g] = IF g = h THEN current ELSE inbox[g]
      BY HostTypes DEF IInv
    <2>3. CASE g = h
      <3>1. Fresh(g)
        BY <1>1, <2>1, <2>3 DEF Managed
      <3>2. Sent(g)' /\ (phase' = "send" => g \notin pending') /\ remote'[g] # "joined"
        BY <1>1, <2>2, <2>3, <3>1 DEF Fresh, Sent, Quiet, Between, worker
      <3>3. Managed(g)'
        BY <1>1, <1>2, <2>1, <3>2 DEF Managed, worker, Succeeded
      <3>q. QED BY <1>2, <2>1, <3>3 DEF HostOK, worker
    <2>4. CASE g # h
      <3>1. /\ Sent(g)' = Sent(g) /\ Fresh(g)' = Fresh(g)
            /\ phase' = "await" => g \notin pending
        BY <1>1, <2>2, <2>4 DEF Sent, Fresh, Quiet, worker
      <3>2. Managed(g)'
        BY <1>1, <1>2, <2>1, <2>4, <3>1 DEF Managed, worker, Succeeded
      <3>q. QED BY <1>2, <2>1, <3>2 DEF HostOK, worker
    <2>q. QED BY <2>3, <2>4
  <1>q. QED BY <1>1, <1>2, <1>3, StageLoopKeeps DEF Sound

LEMMA SendPlanKeeps == ASSUME IInv, NEW h \in Hosts, SendPlan(h) PROVE Sound'
  <1>1. CASE Rest(h, "send", "await") /\ inbox' = [inbox EXCEPT ![h] = current]
    BY <1>1, SendLoop DEF SendPlan
  <1>2. CASE Fail("failed") /\ UNCHANGED inbox
    <2>1. setup' = setup /\ \A g \in Hosts : Same(g)
      BY <1>2 DEF SendPlan, Same, worker
    <2>q. QED BY <1>2, <2>1, FailureKeeps
  <1>q. QED BY <1>1, <1>2 DEF SendPlan

(* An acknowledgement of the run in hand comes from a worker that has taken up *)
(* its plan and holds its weights.                                             *)
LEMMA AwaitLoop ==
    ASSUME IInv, NEW h \in Hosts, Rest(h, "await", "join"),
           ready[h] = current, ready' = [ready EXCEPT ![h] = 0],
           UNCHANGED <<setup, link, inbox, worker, files>>
    PROVE  Sound'
  <1>1. /\ phase = "await" /\ h \in pending
        /\ \/ phase' = "await" /\ pending' = pending \ {h}
           \/ phase' = "join" /\ pending' = Hosts /\ pending = {h}
        /\ UNCHANGED <<stage, current, ordinal, error, result>>
    BY RestEffect
  <1>2. setup.managed /\ phase \in Planned /\ phase' \in Planned \ {"post"} /\ current # 0
    BY <1>1 DEF IInv, Sound, ControlOK, PlanOK, Planned
  <1>3. ASSUME NEW g \in Hosts PROVE HostOK(g)'
    <2>1. HostOK(g) /\ Managed(g) /\ NeedsWeights' = NeedsWeights
      BY <1>1, <1>2 DEF IInv, Sound, HostOK, NeedsWeights, Resumes
    <2>2. ready'[g] = IF g = h THEN 0 ELSE ready[g]
      BY HostTypes DEF IInv
    <2>3. CASE g = h
      <3>1. Sent(g) /\ ready[g] # 0
        BY <1>1, <1>2, <2>1, <2>3 DEF Managed
      <3>2. Acked(g)' /\ (phase' = "await" => g \notin pending')
        BY <1>1, <2>2, <2>3, <3>1 DEF Sent, Acked, Quiet, worker
      <3>3. Managed(g)'
        BY <1>1, <1>2, <2>1, <3>2 DEF Managed, worker, Succeeded
      <3>q. QED BY <1>2, <2>1, <3>3 DEF HostOK, worker
    <2>4. CASE g # h
      <3>1. /\ Sent(g)' = Sent(g) /\ Acked(g)' = Acked(g)
            /\ phase' = "join" => g \notin pending
        BY <1>1, <2>2, <2>4 DEF Sent, Acked, Quiet, worker
      <3>2. Managed(g)'
        BY <1>1, <1>2, <2>1, <2>4, <3>1 DEF Managed, worker, Succeeded
      <3>q. QED BY <1>2, <2>1, <3>2 DEF HostOK, worker
    <2>q. QED BY <2>3, <2>4
  <1>q. QED BY <1>1, <1>2, <1>3, StageLoopKeeps DEF Sound

(* Any other acknowledgement does not happen in a launched command; the code   *)
(* would fail.                                                                 *)
LEMMA AcknowledgedKeeps == ASSUME IInv, NEW h \in Hosts, Acknowledged(h) PROVE Sound'
  <1>1. CASE ready[h] = current /\ Rest(h, "await", "join")
    BY <1>1, AwaitLoop DEF Acknowledged
  <1>2. CASE ready[h] # current /\ phase = "await" /\ h \in pending
    <2>1. Managed(h) /\ ready[h] # 0
      BY <1>2 DEF IInv, Sound, ControlOK, HostOK, Acknowledged
    <2>2. Sent(h)
      BY <1>2, <2>1 DEF Managed
    <2>q. QED BY <1>2, <2>1, <2>2 DEF Sent
  <1>q. QED BY <1>1, <1>2 DEF Acknowledged

LEMMA AwaitFailsKeeps == ASSUME IInv, NEW h \in Hosts, AwaitFails(h) PROVE Sound'
  <1>1. setup' = setup /\ \A g \in Hosts : Same(g)
    BY DEF AwaitFails, Same, wire, worker
  <1>2. PICK e \in {"failed", "cancelled"} : Fail(e)
    BY DEF AwaitFails
  <1>q. QED BY <1>1, <1>2, FailureKeeps

LEMMA PreflightKeeps == ASSUME IInv, NEW h \in Hosts, Preflight(h) PROVE Sound'
  <1>1. setup' = setup /\ phase = "preflight" /\ \A g \in Hosts : Same(g)
    BY DEF Preflight, StageBinary, ProbeHost, Same, wire, worker
  <1>2. CASE Fail("failed")
    BY <1>1, <1>2, FailureKeeps
  <1>3. CASE /\ phase' \in {"preflight", "compose"}
             /\ UNCHANGED <<stage, current, ordinal, error, result>>
    <2>1. setup.managed /\ current = 0 /\ error = "none"
      BY <1>1 DEF IInv, Sound, ControlOK
    <2>2. PlanOK' /\ ControlOK'
      BY <1>1, <1>3, <2>1 DEF IInv, Sound, PlanOK, ControlOK, Planned, Succeeded
    <2>3. ASSUME NEW g \in Hosts PROVE HostOK(g)'
      BY <1>1, <1>3, <2>1 DEF IInv, Sound, HostOK, Managed, Unused, Quiet, Same, Succeeded
    <2>q. QED BY <2>2, <2>3 DEF Sound
  <1>q. QED BY <1>1, <1>2, <1>3, RestEffect DEF Preflight, StageBinary, ProbeHost, primary

-----------------------------------------------------------------------------
(* The primary: stages, training and the end.                                  *)

(* The workers are Fresh of a run that is just planned; a launched command     *)
(* with no stage left has trained the last one, or none at all.                *)
LEMMA NextStageKeeps == ASSUME LaunchConstants, IInv, NextStage PROVE Sound'
  <1>1. /\ phase = "compose" /\ setup' = setup /\ stage' = stage
        /\ \A g \in Hosts : Same(g)
        /\ UNCHANGED <<wire, worker, files, staging, board, missed>>
    BY DEF NextStage, Same, wire, worker
  <1>2. /\ current + Stages + 1 <= MaxRuns + stage
        /\ setup.managed /\ current # 0 => ordinal[current] + 1 = stage
        /\ setup.managed => error = "none"
        /\ Stages \in Nat \ {0} /\ MaxRuns \in Nat /\ current \in 0..MaxRuns
        /\ stage \in 1..Stages + 1 /\ ordinal \in [0..MaxRuns -> 0..Stages]
    BY <1>1, HostTypes DEF IInv, Sound, PlanOK, ControlOK, LaunchConstants, Runs
  <1>3. CASE /\ stage <= Stages /\ current' = current + 1
             /\ ordinal' = [ordinal EXCEPT ![current + 1] = stage]
             /\ phase' = (IF ~setup.managed THEN "post" ELSE IF Resumes THEN "resume" ELSE "start")
             /\ UNCHANGED <<error, result>>
    <2>1. /\ current' \in 1..MaxRuns /\ ordinal'[current'] = stage
          /\ current' + Stages <= MaxRuns + stage /\ current' # current /\ current' # 0
      BY <1>2, <1>3
    <2>2. \/ ~setup.managed /\ phase' = "post"
          \/ setup.managed /\ phase' \in {"resume", "start"}
      BY <1>3
    <2>3. PlanOK' /\ ControlOK'
      BY <1>1, <1>2, <1>3, <2>1, <2>2 DEF PlanOK, ControlOK, Planned, Succeeded
    <2>4. ASSUME NEW g \in Hosts PROVE HostOK(g)'
      <3>1. HostOK(g) /\ Same(g)
        BY <1>1 DEF IInv, Sound
      <3>2. CASE setup.managed
        <4>1. Managed(g) /\ (current # 0 => Trained(g)) /\ (current = 0 => Unused(g))
          BY <1>1, <3>1, <3>2 DEF HostOK, Managed
        <4>2. Quiet(g) /\ task[g] = current /\ remote[g] \in Between
          BY <4>1 DEF Trained, Unused, Between
        <4>3. Fresh(g)'
          BY <2>1, <3>1, <4>2 DEF Fresh, Quiet, Same
        <4>4. Managed(g)'
          BY <2>1, <2>2, <3>1, <3>2, <4>1, <4>3 DEF Managed, Same, Succeeded
        <4>q. QED BY <1>1, <3>1, <3>2, <4>4 DEF HostOK, Same
      <3>3. CASE ~setup.managed
        BY <1>1, <2>2, <3>1, <3>3 DEF HostOK, Same
      <3>q. QED BY <3>2, <3>3
    <2>q. QED BY <2>3, <2>4 DEF Sound
  <1>4. CASE /\ stage > Stages /\ phase' = (IF setup.managed THEN "close" ELSE "ended")
             /\ UNCHANGED <<current, ordinal, error>>
    <2>1. \/ ~setup.managed /\ phase' = "ended"
          \/ setup.managed /\ phase' = "close" /\ (current # 0 => ordinal[current] = Stages)
      BY <1>2, <1>4
    <2>2. PlanOK' /\ ControlOK'
      BY <1>1, <1>4, <2>1 DEF PlanOK, ControlOK, Planned, Succeeded
    <2>3. ASSUME NEW g \in Hosts PROVE HostOK(g)'
      <3>1. HostOK(g) /\ Same(g)
        BY <1>1 DEF IInv, Sound
      <3>2. Trained(g)' = Trained(g) /\ Unused(g)' = Unused(g)
        BY <1>4, <3>1 DEF Same, Trained, Unused, Quiet
      <3>q. QED BY <1>1, <1>4, <2>1, <3>1, <3>2 DEF HostOK, Managed, Same
    <2>q. QED BY <2>2, <2>3 DEF Sound
  <1>q. QED BY <1>3, <1>4 DEF NextStage

LEMMA NextStageFailsKeeps == ASSUME IInv, NextStageFails PROVE Sound'
  <1>1. setup' = setup /\ \A g \in Hosts : Same(g)
    BY DEF NextStageFails, Same, wire, worker
  <1>2. PICK e \in {"failed", "cancelled"} : Fail(e)
    BY DEF NextStageFails
  <1>q. QED BY <1>1, <1>2, FailureKeeps

LEMMA PostPlanKeeps == ASSUME IInv, PostPlan PROVE Sound'
  <1>1. setup' = setup /\ phase = "post" /\ ~setup.managed /\ \A g \in Hosts : Same(g)
    BY DEF IInv, Sound, ControlOK, PostPlan, Same, wire, worker
  <1>2. CASE Fail("failed")
    BY <1>1, <1>2, FailureKeeps
  <1>3. CASE board' = current /\ phase' = "join"
             /\ UNCHANGED <<stage, current, ordinal, pending, error, result>>
    <2>1. PlanOK' /\ ControlOK'
      BY <1>1, <1>3 DEF IInv, Sound, PlanOK, ControlOK, Planned, Succeeded
    <2>2. \A g \in Hosts : HostOK(g)'
      BY <1>1, <1>3 DEF IInv, Sound, HostOK, Same
    <2>q. QED BY <2>1, <2>2 DEF Sound
  <1>q. QED BY <1>2, <1>3 DEF PostPlan

(* All hosts join: those of a launched command hold the plan of the run, those *)
(* of a shared root are compared.                                              *)
LEMMA FormGroupKeeps == ASSUME IInv, FormGroup PROVE Sound'
  <1>1. /\ setup' = setup /\ phase = "join" /\ current # 0 /\ \A h \in Hosts : remote[h] = "joined"
        /\ UNCHANGED <<cancelled, wire, task, last, files, staging, missed, faults>>
    BY DEF IInv, Sound, PlanOK, Planned, FormGroup
  <1>2. CASE /\ SameRun /\ remote' = [h \in Hosts |-> "training"] /\ phase' = "training"
             /\ UNCHANGED <<stage, current, ordinal, pending, error, result, board>>
    <2>1. PlanOK' /\ ControlOK'
      BY <1>1, <1>2 DEF IInv, Sound, PlanOK, ControlOK, Planned, Succeeded
    <2>2. ASSUME NEW g \in Hosts PROVE HostOK(g)'
      <3>1. HostOK(g) /\ task[g] = current /\ remote'[g] = "training" /\ remote[g] = "joined"
        BY <1>1, <1>2 DEF IInv, Sound, SameRun
      <3>2. CASE setup.managed
        <4>1. Managed(g) /\ Acked(g)
          BY <1>1, <3>1, <3>2 DEF HostOK, Managed
        <4>2. Trained(g)'
          BY <1>1, <1>2, <3>1, <4>1 DEF Acked, Trained, Quiet, wire
        <4>3. Managed(g)'
          BY <1>1, <1>2, <3>1, <4>1, <4>2 DEF Managed, wire, Unused
        <4>q. QED BY <1>1, <3>1, <3>2, <4>3 DEF HostOK
      <3>3. CASE ~setup.managed
        BY <1>1, <1>2, <3>1, <3>3 DEF HostOK
      <3>q. QED BY <3>2, <3>3
    <2>q. QED BY <2>1, <2>2 DEF Sound
  <1>3. CASE /\ ~SameRun /\ remote' = [h \in Hosts |-> "failed"] /\ Fail("failed")
    <2>1. ~setup.managed
      <3> SUFFICES ASSUME setup.managed PROVE SameRun
        BY <1>3
      <3>1. \A h \in Hosts : Acked(h)
        BY <1>1 DEF IInv, Sound, HostOK, Managed
      <3>q. QED BY <3>1 DEF Acked, SameRun
    <2>2. phase' = "ended" /\ UNCHANGED <<stage, current, ordinal>>
      BY <1>3, <2>1 DEF Fail
    <2>3. PlanOK' /\ ControlOK'
      BY <1>1, <2>1, <2>2 DEF PlanOK, ControlOK, Planned, Succeeded
    <2>4. \A g \in Hosts : HostOK(g)'
      BY <1>1, <1>3, <2>1, <2>2 DEF HostOK
    <2>q. QED BY <2>3, <2>4 DEF Sound
  <1>q. QED BY <1>2, <1>3 DEF FormGroup

LEMMA StageTrainedKeeps == ASSUME LaunchConstants, IInv, StageTrained PROVE Sound'
  <1>1. /\ phase = "training" /\ phase' = "compose" /\ stage' = stage + 1
        /\ UNCHANGED <<setup, current, ordinal, pending, error, result, staging, missed>>
        /\ \A g \in Hosts : Same(g)
    BY DEF StageTrained, Same, wire, worker
  <1>2. /\ stage \in Nat /\ current \in Nat /\ Stages \in Nat /\ MaxRuns \in Nat
        /\ current # 0 /\ ordinal[current] = stage /\ current + Stages <= MaxRuns + stage
    BY <1>1, HostTypes DEF IInv, Sound, PlanOK, Planned, LaunchConstants, Runs
  <1>3. PlanOK'
    BY <1>1, <1>2 DEF PlanOK, Planned, Succeeded
  <1>4. ControlOK'
    BY <1>1 DEF IInv, Sound, ControlOK, Planned
  <1>5. ASSUME NEW g \in Hosts PROVE HostOK(g)'
    BY <1>1, <1>2 DEF IInv, Sound, HostOK, Managed, Same, Trained, Quiet
  <1>q. QED BY <1>3, <1>4, <1>5 DEF Sound

LEMMA TrainingFailsKeeps == ASSUME IInv, TrainingFails PROVE Sound'
  <1>1. setup' = setup /\ \A g \in Hosts : Same(g)
    BY DEF TrainingFails, Same, wire, worker
  <1>2. PICK e \in {"failed", "cancelled"} : Fail(e)
    BY DEF TrainingFails
  <1>q. QED BY <1>1, <1>2, FailureKeeps

(* The shared root: a killed primary, its leftover, a repetition.              *)
LEMMA KillPrimaryKeeps == ASSUME IInv, KillPrimary PROVE Sound'
  <1>1. /\ ~setup.managed /\ setup' = setup /\ phase' = "ended" /\ UNCHANGED <<current, stage>>
        /\ \A g \in Hosts : Same(g)
    BY DEF KillPrimary, Same, wire, worker
  <1>2. PlanOK' /\ ControlOK'
    BY <1>1 DEF PlanOK, ControlOK, Planned, Succeeded
  <1>3. \A g \in Hosts : HostOK(g)'
    BY <1>1 DEF IInv, Sound, HostOK, Same
  <1>q. QED BY <1>2, <1>3 DEF Sound

LEMMA RemoveLeftoverKeeps == ASSUME IInv, RemoveLeftover PROVE Sound'
  <1>1. /\ ~setup.managed /\ phase = "ended"
        /\ UNCHANGED <<setup, primary, staging, missed>> /\ \A g \in Hosts : Same(g)
    BY DEF RemoveLeftover, Same, wire, worker
  <1>2. PlanOK' /\ ControlOK'
    BY <1>1 DEF primary, PlanOK, ControlOK, Planned, Succeeded
  <1>3. \A g \in Hosts : HostOK(g)'
    BY <1>1, HostRests DEF IInv, Sound
  <1>q. QED BY <1>2, <1>3 DEF Sound

LEMMA RepeatKeeps == ASSUME LaunchConstants, IInv, Repeat PROVE Sound'
  <1>1. /\ ~setup.managed /\ setup' = setup /\ phase' = "compose" /\ UNCHANGED <<current, stage>>
        /\ current + 1 + Stages - stage <= MaxRuns
        /\ \A g \in Hosts : Same(g)
    BY DEF Repeat, Same, wire, worker
  <1>2. current \in Nat /\ stage \in Nat /\ Stages \in Nat /\ MaxRuns \in Nat
    BY HostTypes DEF IInv, LaunchConstants, Runs
  <1>3. PlanOK' /\ ControlOK'
    BY <1>1, <1>2 DEF PlanOK, ControlOK, Planned, Succeeded
  <1>4. \A g \in Hosts : HostOK(g)'
    BY <1>1 DEF IInv, Sound, HostOK, Same
  <1>q. QED BY <1>3, <1>4 DEF Sound

LEMMA CancelKeeps == ASSUME IInv, Cancel PROVE Sound'
  <1>1. PrimaryRests /\ \A g \in Hosts : Same(g)
    BY DEF Cancel, PrimaryRests, Same, wire, worker
  <1>q. QED BY <1>1, NoHostMoves

(* finish: a TERM to every worker, the end of the plans, the last exit, the    *)
(* cleanup.                                                                    *)
LEMMA StopWorkerKeeps == ASSUME IInv, NEW h \in Hosts, StopWorker(h) PROVE Sound'
  <1>1. /\ phase = "stop" /\ phase' \in {"stop", "close"}
        /\ UNCHANGED <<setup, stage, current, ordinal, error, result, wire, task, last, files>>
    BY RestEffect DEF StopWorker
  <1>2. setup.managed /\ error # "none" /\ ~Succeeded /\ ~Succeeded'
    BY <1>1 DEF IInv, Sound, ControlOK, Succeeded
  <1>3. PlanOK' /\ ControlOK'
    BY <1>1, <1>2 DEF PlanOK, ControlOK, Planned
  <1>4. ASSUME NEW g \in Hosts PROVE HostOK(g)'
    <2>1. HostOK(g) /\ Managed(g)
      BY <1>2 DEF IInv, Sound, HostOK
    <2>2. \/ remote'[g] = remote[g]
          \/ remote[g] \notin Ended /\ remote'[g] = "failed"
      BY HostTypes DEF IInv, StopWorker
    <2>3. Managed(g)'
      BY <1>1, <1>2, <2>1, <2>2 DEF Managed, wire, Unused, Quiet, Ended
    <2>q. QED BY <1>1, <1>2, <2>1, <2>2, <2>3 DEF HostOK
  <1>q. QED BY <1>3, <1>4 DEF Sound

LEMMA CloseInputsKeeps == ASSUME IInv, CloseInputs PROVE Sound'
  <1>1. /\ phase = "close" /\ phase' = "wait" /\ \A g \in Hosts : Same(g)
        /\ UNCHANGED <<setup, stage, current, ordinal, pending, error, result>>
    BY DEF CloseInputs, Same, worker
  <1>2. PlanOK' /\ ControlOK'
    BY <1>1 DEF IInv, Sound, PlanOK, ControlOK, Planned, Succeeded
  <1>3. ASSUME NEW g \in Hosts PROVE HostOK(g)'
    BY <1>1 DEF IInv, Sound, HostOK, Managed, Same, Trained, Unused, Quiet, Succeeded
  <1>q. QED BY <1>2, <1>3 DEF Sound

LEMMA AllDoneKeeps == ASSUME IInv, AllDone PROVE Sound'
  <1>1. /\ phase = "wait" /\ phase' = "clean" /\ pending' = Hosts /\ result' = Verdict
        /\ \A g \in Hosts : Same(g) /\ link[g] # "up"
        /\ UNCHANGED <<setup, stage, current, ordinal, error, staging, missed>>
    BY DEF AllDone, Same, wire, worker
  <1>2. setup.managed /\ staging \subseteq Hosts
    BY <1>1, HostTypes DEF IInv, Sound, ControlOK
  <1>3. result' = "ok" => error = "none" /\ \A g \in Hosts : link[g] # "error"
    BY <1>1 DEF Verdict
  <1>4. Succeeded' => Succeeded
    BY <1>1, <1>2, <1>3 DEF Succeeded
  <1>5. PlanOK' /\ ControlOK'
    BY <1>1, <1>2, <1>4 DEF IInv, Sound, PlanOK, ControlOK, Planned
  <1>6. ASSUME NEW g \in Hosts PROVE HostOK(g)'
    <2>1. HostOK(g) /\ Managed(g) /\ Same(g)
      BY <1>1, <1>2 DEF IInv, Sound, HostOK
    <2>2. result' = "ok" => link'[g] \in {"none", "ok"}
      BY <1>1, <1>3, <2>1, HostTypes DEF IInv, Same
    <2>3. Trained(g)' = Trained(g)
      BY <1>1, <2>1 DEF Same, Trained, Quiet
    <2>4. Managed(g)'
      BY <1>1, <1>4, <2>1, <2>2, <2>3 DEF Managed, Same, Unused, Quiet
    <2>q. QED BY <1>1, <1>2, <2>1, <2>4 DEF HostOK, Same
  <1>q. QED BY <1>5, <1>6 DEF Sound

LEMMA CleanHostKeeps == ASSUME IInv, NEW h \in Hosts, CleanHost(h) PROVE Sound'
  <1>1. /\ phase = "clean" /\ h \in pending
        /\ \/ phase' = "clean" /\ pending' = pending \ {h}
           \/ phase' = "ended" /\ pending = {h}
        /\ UNCHANGED <<setup, stage, current, ordinal, error, result, wire, worker>>
    BY RestEffect DEF CleanHost
  <1>2. setup.managed /\ staging \subseteq missed \cup pending
    BY <1>1 DEF IInv, Sound, ControlOK
  <1>3. \/ staging' = staging \ {h} /\ missed' = missed
        \/ staging' = staging /\ missed' = missed \cup {h}
    BY DEF CleanHost
  <1>4. Succeeded' = Succeeded
    BY <1>1 DEF Succeeded
  <1>5. PlanOK' /\ ControlOK'
    BY <1>1, <1>2, <1>3, <1>4 DEF IInv, Sound, PlanOK, ControlOK, Planned
  <1>6. ASSUME NEW g \in Hosts PROVE HostOK(g)'
    BY <1>1, <1>2, <1>4 DEF IInv, Sound, HostOK, Managed, Trained, Unused, Quiet, wire, worker
  <1>q. QED BY <1>5, <1>6 DEF Sound

-----------------------------------------------------------------------------
(* Every step.                                                                 *)

LEMMA PrimaryStepKeeps == ASSUME LaunchConstants, IInv, PrimaryStep PROVE Sound'
  BY NextStageKeeps, NextStageFailsKeeps, PostPlanKeeps, FormGroupKeeps, StageTrainedKeeps,
     TrainingFailsKeeps, CloseInputsKeeps, AllDoneKeeps, PreflightKeeps, StageFilesKeeps,
     StartWorkerKeeps, SendPlanKeeps, AcknowledgedKeeps, AwaitFailsKeeps, StopWorkerKeeps,
     CleanHostKeeps
  DEF PrimaryStep

LEMMA HostStepKeeps ==
    ASSUME IInv, NEW h \in Hosts, WorkerStep(h) \/ LinkEnds(h) \/ Hang(h) \/ RestartWorker(h)
    PROVE  Sound'
  BY BootKeeps, ReadPlanKeeps, PrepareKeeps, WorkerTrainedKeeps, WorkerFailsKeeps, LinkEndsKeeps,
     HangKeeps, RestartWorkerKeeps
  DEF WorkerStep

LEMMA StepSound == ASSUME LaunchConstants, IInv, [Next]_vars PROVE Sound'
  <1>1. CASE Next
    BY <1>1, PrimaryStepKeeps, HostStepKeeps, KillPrimaryKeeps, RemoveLeftoverKeeps, RepeatKeeps,
       CancelKeeps
    DEF Next
  <1>2. CASE UNCHANGED vars
    <2>1. PrimaryRests /\ \A g \in Hosts : Same(g)
      BY <1>2 DEF vars, PrimaryRests, primary, Same
    <2>q. QED BY <2>1, NoHostMoves
  <1>q. QED BY <1>1, <1>2

-----------------------------------------------------------------------------
(* Type correctness, step by step.                                             *)

LEMMA FaultType ==
    ASSUME LaunchConstants, TypeOK, Fault \/ UNCHANGED faults PROVE faults' \in 0..MaxFaults
  BY DEF LaunchConstants, TypeOK, Fault

LEMMA FailType ==
    ASSUME TypeOK, NEW e \in {"failed", "cancelled"}, Fail(e), setup' = setup
    PROVE  /\ phase' \in {"stop", "ended"} /\ stage' \in 1..Stages + 1 /\ current' \in Runs
           /\ ordinal' \in [Runs -> 0..Stages] /\ pending' \subseteq Hosts
           /\ error' \in {"none", "failed", "cancelled"}
           /\ result' \in {"none", "ok", "error", "workers"}
  BY DEF TypeOK, Fail

LEMMA RestType ==
    ASSUME TypeOK, NEW h \in Hosts, NEW from, NEW to, Rest(h, from, to)
    PROVE  /\ phase' \in {from, to} /\ stage' \in 1..Stages + 1 /\ current' \in Runs
           /\ ordinal' \in [Runs -> 0..Stages] /\ pending' \subseteq Hosts
           /\ error' \in {"none", "failed", "cancelled"}
           /\ result' \in {"none", "ok", "error", "workers"}
  BY DEF TypeOK, Rest

LEMMA PrimaryType ==
    ASSUME LaunchConstants, IInv,
           NextStage \/ NextStageFails \/ PostPlan \/ FormGroup \/ StageTrained \/ TrainingFails
           \/ CloseInputs \/ AllDone
    PROVE  TypeOK'
  <1>1. CASE NextStage
    <2>1. /\ Stages \in Nat \ {0} /\ MaxRuns \in Nat /\ current \in 0..MaxRuns
          /\ stage \in 1..Stages + 1 /\ ordinal \in [0..MaxRuns -> 0..Stages]
          /\ current + Stages + 1 <= MaxRuns + stage
      BY <1>1, HostTypes DEF IInv, Sound, PlanOK, LaunchConstants, Runs, NextStage
    <2>2. current' \in Runs /\ ordinal' \in [Runs -> 0..Stages]
      <3>1. CASE stage <= Stages
        <4>1. current' = current + 1 /\ ordinal' = [ordinal EXCEPT ![current + 1] = stage]
          BY <1>1, <2>1, <3>1 DEF NextStage
        <4>2. current + 1 \in Runs /\ stage \in 0..Stages
          BY <2>1, <3>1 DEF Runs
        <4>q. QED BY <2>1, <4>1, <4>2 DEF Runs
      <3>2. CASE stage > Stages
        <4>1. current' = current /\ ordinal' = ordinal
          BY <1>1, <2>1, <3>2 DEF NextStage
        <4>q. QED BY <2>1, <4>1 DEF Runs
      <3>q. QED BY <2>1, <3>1, <3>2
    <2>q. QED BY <1>1, <2>2 DEF IInv, NextStage, TypeOK, wire, worker
  <1>2. CASE NextStageFails
    BY <1>2, FailType, FaultType DEF IInv, NextStageFails, TypeOK, wire, worker
  <1>3. CASE PostPlan
    BY <1>3, FailType DEF IInv, PostPlan, TypeOK, wire, worker
  <1>4. CASE FormGroup
    <2>t. 0 \in Runs
      BY DEF Runs, LaunchConstants
    <2>1. remote' \in [Hosts -> Ended \cup {"training"}] /\ board' \in Runs
      BY <1>4, <2>t DEF IInv, FormGroup, TypeOK, Ended
    <2>2. CASE SameRun
      BY <1>4, <2>1, <2>2 DEF IInv, FormGroup, TypeOK, wire
    <2>3. CASE ~SameRun
      BY <1>4, <2>1, <2>3, FailType DEF IInv, FormGroup, TypeOK, wire
    <2>q. QED BY <2>2, <2>3
  <1>5. CASE StageTrained
    <2>1. stage <= Stages /\ stage \in 1..Stages + 1 /\ Stages \in Nat
      BY <1>5, HostTypes DEF IInv, Sound, PlanOK, Planned, StageTrained, LaunchConstants
    <2>2. stage' \in 1..Stages + 1 /\ board' \in Runs
      BY <1>5, <2>1 DEF StageTrained, Runs, LaunchConstants
    <2>q. QED BY <1>5, <2>2 DEF IInv, StageTrained, TypeOK, wire, worker
  <1>6. CASE TrainingFails
    <2>1. board' \in Runs
      BY <1>6 DEF TrainingFails, Runs, LaunchConstants
    <2>q. QED BY <1>6, <2>1, FailType, FaultType DEF IInv, TrainingFails, TypeOK, wire, worker
  <1>7. CASE CloseInputs
    BY <1>7 DEF IInv, CloseInputs, TypeOK, worker
  <1>8. CASE AllDone
    BY <1>8 DEF IInv, AllDone, TypeOK, wire, worker, Verdict
  <1>q. QED BY <1>1, <1>2, <1>3, <1>4, <1>5, <1>6, <1>7, <1>8

LEMMA LoopType ==
    ASSUME LaunchConstants, IInv, NEW h \in Hosts,
           Preflight(h) \/ StageFiles(h) \/ StartWorker(h) \/ SendPlan(h) \/ Acknowledged(h)
           \/ AwaitFails(h) \/ StopWorker(h) \/ CleanHost(h)
    PROVE  TypeOK'
  <1>t. TypeOK /\ 0 \in Runs
    BY DEF IInv, Runs, LaunchConstants
  <1>1. CASE StageBinary(h)
    BY <1>t, <1>1, FailType, FaultType DEF StageBinary, TypeOK, wire, worker, primary
  <1>2. CASE ProbeHost(h)
    BY <1>t, <1>2, FailType, RestType, FaultType DEF ProbeHost, TypeOK, wire, worker
  <1>3. CASE StageFiles(h)
    BY <1>t, <1>3, FailType, RestType, FaultType DEF StageFiles, TypeOK, wire, worker
  <1>4. CASE StartWorker(h)
    <2>1. /\ link' \in [Hosts -> {"none", "up", "ok", "error"}] /\ input' \in [Hosts -> BOOLEAN]
          /\ remote' \in [Hosts -> Ended \cup {"booting", "reading", "preparing", "hung",
                                              "joined", "training"}]
      BY <1>t, <1>4 DEF StartWorker, TypeOK, Ended
    <2>2. AfterStart \in {"initialize", "send"} /\ faults' \in 0..MaxFaults
      BY <1>t, <1>4, FaultType DEF StartWorker, AfterStart, TypeOK
    <2>3. Rest(h, "start", AfterStart) \/ Fail("failed")
      BY <1>4 DEF StartWorker
    <2>4. phase' \in {"start", "initialize", "send", "stop", "ended"}
          /\ stage' \in 1..Stages + 1 /\ current' \in Runs
          /\ ordinal' \in [Runs -> 0..Stages] /\ pending' \subseteq Hosts
          /\ error' \in {"none", "failed", "cancelled"}
          /\ result' \in {"none", "ok", "error", "workers"}
      <3>1. setup' = setup
        BY <1>4 DEF StartWorker
      <3>q. QED BY <1>t, <2>2, <2>3, <3>1, FailType, RestType
    <2>q. QED BY <1>t, <1>4, <2>1, <2>2, <2>4 DEF StartWorker, TypeOK
  <1>5. CASE SendPlan(h)
    BY <1>t, <1>5, FailType, RestType DEF SendPlan, TypeOK, wire, worker
  <1>6. CASE Acknowledged(h)
    BY <1>t, <1>6, FailType, RestType DEF Acknowledged, TypeOK, wire, worker
  <1>7. CASE AwaitFails(h)
    BY <1>t, <1>7, FailType DEF AwaitFails, TypeOK, wire, worker
  <1>8. CASE StopWorker(h)
    <2>1. remote' \in [Hosts -> Ended \cup {"booting", "reading", "preparing", "hung",
                                            "joined", "training"}]
      BY <1>t, <1>8 DEF StopWorker, TypeOK, Ended
    <2>2. missed' \subseteq Hosts /\ faults' \in 0..MaxFaults
      BY <1>t, <1>8, FaultType DEF StopWorker, TypeOK
    <2>3. Rest(h, "stop", "close")
      BY <1>8 DEF StopWorker
    <2>q. QED BY <1>t, <1>8, <2>1, <2>2, <2>3, RestType DEF StopWorker, TypeOK, wire, worker
  <1>9. CASE CleanHost(h)
    <2>1. staging' \subseteq Hosts /\ missed' \subseteq Hosts /\ faults' \in 0..MaxFaults
      BY <1>t, <1>9, FaultType DEF CleanHost, TypeOK
    <2>2. files' \in [Hosts -> SUBSET Runs]
      BY <1>t, <1>9 DEF CleanHost, TypeOK
    <2>q. QED BY <1>t, <1>9, <2>1, <2>2, RestType DEF CleanHost, TypeOK, wire, worker
  <1>q. QED BY <1>1, <1>2, <1>3, <1>4, <1>5, <1>6, <1>7, <1>8, <1>9 DEF Preflight

LEMMA HostStepType ==
    ASSUME LaunchConstants, IInv, NEW h \in Hosts,
           WorkerStep(h) \/ LinkEnds(h) \/ Hang(h) \/ RestartWorker(h)
    PROVE  TypeOK'
  <1>t. TypeOK /\ 0 \in Runs
    BY DEF IInv, Runs, LaunchConstants
  <1>1. CASE Boot(h)
    BY <1>t, <1>1 DEF Boot, TypeOK, wire, primary
  <1>2. CASE ReadPlan(h)
    <2>1. task' \in [Hosts -> Runs] /\ inbox' \in [Hosts -> Runs]
      BY <1>t, <1>2 DEF ReadPlan, TypeOK, Offered
    <2>2. remote' \in [Hosts -> Ended \cup {"booting", "reading", "preparing", "hung",
                                            "joined", "training"}]
      BY <1>t, <1>2 DEF ReadPlan, TypeOK, Ended
    <2>q. QED BY <1>t, <1>2, <2>1, <2>2 DEF ReadPlan, TypeOK, primary
  <1>3. CASE Prepare(h)
    <2>1. ready' \in [Hosts -> Runs]
      BY <1>t, <1>3 DEF Prepare, TypeOK
    <2>2. remote' \in [Hosts -> Ended \cup {"booting", "reading", "preparing", "hung",
                                            "joined", "training"}]
      BY <1>t, <1>3 DEF Prepare, TypeOK, Ended
    <2>q. QED BY <1>t, <1>3, <2>1, <2>2 DEF Prepare, TypeOK, primary
  <1>4. CASE WorkerTrained(h)
    <2>1. last' \in [Hosts -> Runs]
      BY <1>t, <1>4 DEF WorkerTrained, TypeOK
    <2>2. remote' \in [Hosts -> Ended \cup {"booting", "reading", "preparing", "hung",
                                            "joined", "training"}]
      BY <1>t, <1>4 DEF WorkerTrained, TypeOK, Ended
    <2>q. QED BY <1>t, <1>4, <2>1, <2>2 DEF WorkerTrained, TypeOK, primary, wire
  <1>5. CASE WorkerFails(h)
    BY <1>t, <1>5, FaultType DEF WorkerFails, TypeOK, primary, wire, Ended
  <1>6. CASE LinkEnds(h)
    <2>1. link' \in [Hosts -> {"none", "up", "ok", "error"}] /\ cancelled' \in BOOLEAN
      BY <1>t, <1>6 DEF LinkEnds, TypeOK
    <2>2. faults' \in 0..MaxFaults
      BY <1>t, <1>6, FaultType DEF LinkEnds
    <2>q. QED BY <1>t, <1>6, <2>1, <2>2 DEF LinkEnds, TypeOK, primary, worker
  <1>7. CASE Hang(h)
    BY <1>t, <1>7, FaultType DEF Hang, TypeOK, primary, wire
  <1>8. CASE RestartWorker(h)
    BY <1>t, <1>8, FaultType DEF RestartWorker, TypeOK, primary, wire
  <1>q. QED BY <1>1, <1>2, <1>3, <1>4, <1>5, <1>6, <1>7, <1>8 DEF WorkerStep

LEMMA StepTypeOK == ASSUME LaunchConstants, IInv, [Next]_vars PROVE TypeOK'
  <1>1. CASE KillPrimary
    BY <1>1, FaultType DEF IInv, KillPrimary, TypeOK, wire, worker
  <1>2. CASE RemoveLeftover
    <2>1. board' \in Runs
      BY <1>2 DEF RemoveLeftover, Runs, LaunchConstants
    <2>q. QED BY <1>2, <2>1 DEF IInv, RemoveLeftover, TypeOK, primary, wire, worker
  <1>3. CASE Repeat
    BY <1>3 DEF IInv, Repeat, TypeOK, wire, worker
  <1>4. CASE Cancel
    BY <1>4, FaultType DEF IInv, Cancel, TypeOK, primary, wire, worker
  <1>5. CASE UNCHANGED vars
    BY <1>5 DEF IInv, vars, TypeOK
  <1>q. QED BY <1>1, <1>2, <1>3, <1>4, <1>5, PrimaryType, LoopType, HostStepType
            DEF Next, PrimaryStep

-----------------------------------------------------------------------------

LEMMA InvariantTrains == IInv => HostsTrainOneRun
  <1> SUFFICES ASSUME IInv PROVE HostsTrainOneRun
    OBVIOUS
  <1>1. OneRun
    BY DEF IInv, Sound, HostOK, Managed, Trained, OneRun
  <1>2. ReadyBeforeJoin
    BY DEF IInv, Sound, HostOK, Managed, Acked, ReadyBeforeJoin
  <1>3. ASSUME setup.managed, phase = "ended", result = "ok", NEW h \in Hosts
        PROVE  remote[h] \in {"absent", "ok"} /\ last[h] = current
    <2>1. Managed(h) /\ Succeeded
      BY <1>3 DEF IInv, Sound, HostOK, Succeeded
    <2>2. CASE current = 0
      BY <2>1, <2>2 DEF Managed, Unused
    <2>3. CASE current # 0
      BY <1>3, <2>1, <2>3 DEF Managed, Trained
    <2>q. QED BY <2>2, <2>3
  <1>4. SuccessIsEverywhere
    BY <1>3 DEF IInv, Sound, PlanOK, ControlOK, Succeeded, SuccessIsEverywhere
  <1>q. QED BY <1>1, <1>2, <1>4 DEF HostsTrainOneRun

(* The inductive invariant of a launch: where the primary is says what each    *)
(* host has been sent, has taken up, has acknowledged and has trained.         *)
THEOREM LaunchInvariant == ASSUME LaunchConstants PROVE Spec => []IInv
  <1>1. Init => IInv
    BY InitTypeOK, InitSound DEF IInv
  <1>2. IInv /\ [Next]_vars => IInv'
    BY StepTypeOK, StepSound DEF IInv
  <1>q. QED BY <1>1, <1>2, PTL DEF Spec

(* Whatever hosts fail, hang or are slow, and however often a command is       *)
(* cancelled, killed or repeated: training begins on the current run and on    *)
(* one split everywhere, with the weights it starts from, and a launcher that  *)
(* reports success has seen every worker complete the last stage.              *)
THEOREM EveryLaunchTrainsOneRun == ASSUME LaunchConstants PROVE Spec => []HostsTrainOneRun
  BY LaunchInvariant, InvariantTrains, PTL
=============================================================================
