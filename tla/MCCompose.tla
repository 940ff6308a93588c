------------------------------ MODULE MCCompose ------------------------------
(* Composes of one model: of two processes at once (the extended module),   *)
(* of one process after another over more stages and faults (`Alone`), and  *)
(* of one that repeats the command until it is through (`Retried`).         *)
EXTENDS ModelCompose

VARIABLE side

OneProcess == {CHOOSE p \in Procs : TRUE}

Alone == INSTANCE ModelCompose WITH
  Procs <- OneProcess, AuditChoices <- {TRUE}, NumStages <- 3, MaxFaults <- 3, MaxRuns <- 6
Retried == INSTANCE ModelCompose WITH
  Procs <- OneProcess, AuditChoices <- {TRUE}, MetadataCrashes <- FALSE,
  MaxFaults <- 3, MaxRuns <- 5

MCInit ==
  \/ side = "shared" /\ Init
  \/ side = "alone" /\ Alone!Init
  \/ side = "retried" /\ Retried!Init

MCNext ==
  /\ UNCHANGED side
  /\ \/ side = "shared" /\ Next
     \/ side = "alone" /\ Alone!Next
     \/ side = "retried" /\ Retried!Next

MCSpec ==
  /\ MCInit /\ [][MCNext]_<<side, vars>>
  /\ \A p \in OneProcess :
       /\ WF_vars(side = "retried" /\ Retried!Plan(p, TRUE))
       /\ WF_vars(side = "retried" /\ (Retried!Lock(p) \/ Retried!LockBusy(p)))
       /\ WF_vars(side = "retried" /\ Retried!Compose(p))

-----------------------------------------------------------------------------
(* With the metadata crash windows closed, repeating the command finishes   *)
(* the compose (ModelCompose, the recovery of model/build.go).              *)
RepetitionFinishes == side = "retried" => Retried!ComposeFinishes
=============================================================================
