------------------------------ MODULE MCUnlocked ------------------------------
(* What commands share without a lock: the object cache (the extended        *)
(* module), the checkout of the index, the model root and the configuration  *)
(* file.  They share no state, so each behaviour is of one of them, and the  *)
(* variables of the others hold nothing.  The invariants of the cache and of  *)
(* the configuration are those of their modules: they hold of an empty cache  *)
(* and of the default configuration too.                                     *)
EXTENDS LookasideCache, ConfigurationFile

CONSTANTS Refreshers, Sessions      \* commands on the checkout and the configuration; on models

Symmetry == Permutations(Refreshers) \cup Permutations(Sessions)

VARIABLES
  place,
  managed, remote, content, head, tree, tracked, temporary, cpc, seen, ctarget, todo, loaded, bom,
  since, calm, edits, cfaults,
  dir, exports, mpc, name, chosen, checked, snap, temp, made, removed, mfaults,
  revision, runs, kills

checkout == <<managed, remote, content, head, tree, tracked, temporary, cpc, seen, ctarget, todo,
              loaded, bom, since, calm, edits, cfaults>>
models == <<dir, exports, mpc, name, chosen, checked, snap, temp, made, removed, mfaults>>
configuration == <<file, revision, command, runs, kills>>

Checkout == INSTANCE IndexCheckout WITH
  Commands <- Refreshers, Files <- {1, 2}, MaxCommits <- 3, MaxEdits <- 1, MaxFaults <- 1,
  pc <- cpc, target <- ctarget, faults <- cfaults
Models == INSTANCE ModelDirectories WITH
  Commands <- Sessions, Names <- {1, 2}, MaxModels <- 3, MaxRuns <- 1, MaxFaults <- 1,
  pc <- mpc, faults <- mfaults
Config == INSTANCE Configuration WITH
  Commands <- Refreshers, MaxRuns <- 4, MaxFaults <- 1, faults <- kills

NoCache ==
  /\ object = [d \in Digests |-> "absent"] /\ age = <<>> /\ directory = {}
  /\ sibling = [p \in Commands |-> None] /\ serves = 0 /\ need = 0
  /\ pc = [p \in Commands |-> "done"] /\ target = 0 /\ candidate = 0
  /\ used = [p \in Commands |-> {}] /\ unread = 0
  /\ listed = 0 /\ queue = 0 /\ total = 0 /\ spared = 0 /\ recorded = {} /\ faults = 0
  /\ damaged = 0 /\ disturbed = 0 /\ installed = 0 /\ gotBad = {}
NoCheckout ==
  /\ managed = 0 /\ remote = 0 /\ content = 0 /\ head = <<>> /\ tree = 0 /\ tracked = 0
  /\ temporary = 0 /\ cpc = [c \in Refreshers |-> "dead"] /\ seen = 0 /\ ctarget = 0 /\ todo = 0
  /\ loaded = 0 /\ bom = 0 /\ since = 0 /\ calm = 0 /\ edits = 0 /\ cfaults = 0
NoModels ==
  /\ dir = 0 /\ exports = 0 /\ mpc = 0 /\ name = 0 /\ chosen = 0 /\ checked = 0 /\ snap = 0
  /\ temp = 0 /\ made = 0 /\ removed = 0 /\ mfaults = 0
NoConfiguration ==
  file = Config!Default /\ revision = 0 /\ command = <<>> /\ runs = 0 /\ kills = 0

(* Bounds of this run: the retaining command needs every object, and only the *)
(* large one may be missing everywhere.                                       *)
FewObjects ==
  /\ \A p \in Retaining : need[p] = Digests
  /\ \A d \in Digests \ Large : serves[d] # {}

MCInit ==
  \/ place = "cache" /\ Init /\ FewObjects /\ NoCheckout /\ NoModels /\ NoConfiguration
  \/ place = "checkout" /\ Checkout!Init /\ NoCache /\ NoModels /\ NoConfiguration
  \/ place = "models" /\ Models!Init /\ NoCache /\ NoCheckout /\ NoConfiguration
  \/ place = "configuration" /\ Config!Init /\ NoCache /\ NoCheckout /\ NoModels

MCNext ==
  \/ place = "cache" /\ Next /\ UNCHANGED <<place, checkout, models, configuration>>
  \/ place = "checkout" /\ Checkout!Next /\ UNCHANGED <<place, vars, models, configuration>>
  \/ place = "models" /\ Models!Next /\ UNCHANGED <<place, vars, checkout, configuration>>
  \/ place = "configuration" /\ Config!Next /\ UNCHANGED <<place, vars, checkout, models>>

MCSpec == MCInit /\ [][MCNext]_<<place, vars, checkout, models, configuration>>

-----------------------------------------------------------------------------
(* No partial clone is taken for the index, and a bill that calls itself     *)
(* clean is of its revision, a current one (git/managed.go, bom.go).         *)
CheckoutIsSound ==
  place = "checkout" =>
    Checkout!TypeOK /\ Checkout!CheckoutIsWhole /\ Checkout!BomIsItsRevision /\ Checkout!BomIsFresh

(* A refresh discards nothing its user had when it looked (git/managed.go).  *)
WorkSurvives == Checkout!WorkSurvives

(* A name is only given to a whole, sound model, a release holds one model,  *)
(* and a refused removal removes nothing (pull.go, management.go).           *)
ModelsAreWhole ==
  place = "models" =>
    Models!CreatedWhole /\ Models!ReleaseIsOneModel /\ Models!RefusedRemovesNothing
===============================================================================
