---------------------------- MODULE Configuration ----------------------------
(* The machine-local configuration file (internal/config/config.go) and the    *)
(* commands that change it (internal/cli/config.go).  `config set` and `config *)
(* unset` load the whole file, change one key and replace the file by a        *)
(* rename; nothing locks it, so commands may read and write in any order, and  *)
(* any of them may be killed between two steps.                                *)
(*                                                                             *)
(* Three groups of keys depend on each other: the publisher (its location,     *)
(* region and number of workers) and the signing method and key.  All other    *)
(* keys are independent and stand for one, "free".                             *)
(*                                                                             *)
(* The file itself, and what is promised of it, is ConfigurationFile.          *)
EXTENDS ConfigurationFile

CONSTANTS
    Commands,   \* processes
    MaxRuns,    \* commands run over the whole history
    MaxFaults   \* kills

VARIABLES
    revision,   \* how often the file has been replaced
    runs, faults

vars == <<file, revision, command, runs, faults>>

-----------------------------------------------------------------------------
(* Configurations.  "" is unset.                                               *)

Default == [free |-> "", scheme |-> "", region |-> "", workers |-> 0, method |-> "", key |-> ""]

\* What Load and Save fill in before they validate.
Normalized(c) == IF c.scheme # "" /\ c.workers = 0 THEN [c EXCEPT !.workers = 4] ELSE c

Operations ==
    [set : {"free"}, to : {"x", "y"}] \union [set : {"lookaside"}, to : {"s3", "file"}]
    \union [set : {"lookaside.region"}, to : {"r"}] \union [set : {"lookaside.workers"}, to : {8}]
    \union [set : {"signing.method"}, to : {"sigstore-key", "sigstore-keyless"}]
    \union [set : {"signing.key"}, to : {"k"}]
    \union [unset : {"free", "lookaside", "lookaside.region", "lookaside.workers",
                     "signing.method", "signing.key"}]

\* The refusal of a publisher setting when there is no publisher.
Refused(c, op) ==
    "set" \in DOMAIN op /\ op.set \in {"lookaside.region", "lookaside.workers"} /\ c.scheme = ""

\* Mutant: a new location keeps the region of the old one.
SetKeyKeepsRegion(c, key, to) ==
    CASE key = "free" -> [c EXCEPT !.free = to]
      [] key = "lookaside" -> [c EXCEPT !.scheme = to]
      [] key = "lookaside.region" -> [c EXCEPT !.region = to]
      [] key = "lookaside.workers" -> [c EXCEPT !.workers = to]
      [] key = "signing.method" -> [c EXCEPT !.method = to,
                                             !.key = IF to = "sigstore-keyless" THEN "" ELSE @]
      [] key = "signing.key" -> [c EXCEPT !.key = to]

\* runConfigSet: what a key takes with it.
SetKey(c, key, to) ==
    CASE key = "free" -> [c EXCEPT !.free = to]
      [] key = "lookaside" -> [c EXCEPT !.scheme = to, !.region = IF to = "s3" THEN @ ELSE ""]
      [] key = "lookaside.region" -> [c EXCEPT !.region = to]
      [] key = "lookaside.workers" -> [c EXCEPT !.workers = to]
      [] key = "signing.method" -> [c EXCEPT !.method = to,
                                             !.key = IF to = "sigstore-keyless" THEN "" ELSE @]
      [] key = "signing.key" -> [c EXCEPT !.key = to]

\* runConfigUnset.
UnsetKey(c, key) ==
    CASE key = "free" -> [c EXCEPT !.free = ""]
      [] key = "lookaside" -> [c EXCEPT !.scheme = "", !.region = "", !.workers = 0]
      [] key = "lookaside.region" -> [c EXCEPT !.region = ""]
      [] key = "lookaside.workers" -> [c EXCEPT !.workers = 0]
      [] key = "signing.method" -> [c EXCEPT !.method = ""]
      [] key = "signing.key" -> [c EXCEPT !.key = ""]

Changed(c, op) == Normalized(IF "set" \in DOMAIN op THEN SetKey(c, op.set, op.to) ELSE UnsetKey(c, op.unset))

-----------------------------------------------------------------------------
(* Commands.                                                                   *)

Idle == [at |-> "idle"]

Init ==
    /\ file = Default /\ revision = 0
    /\ command = [p \in Commands |-> Idle]
    /\ runs = 0 /\ faults = 0

\* The file is loaded whole; a file that does not validate stops every command.
Load(p) ==
    /\ command[p].at = "idle" /\ runs < MaxRuns
    /\ \E op \in Operations :
          command' = [command EXCEPT ![p] =
              [at |-> IF Valid(file) /\ ~Refused(file, op) THEN "loaded" ELSE "failed",
               op |-> op, from |-> revision, holds |-> file]]
    /\ runs' = runs + 1
    /\ UNCHANGED <<file, revision, faults>>

\* Save validates and writes a temporary file beside the configuration.
Write(p) ==
    /\ command[p].at = "loaded"
    /\ LET next == Changed(command[p].holds, command[p].op)
       IN  command' = [command EXCEPT ![p].at = IF Valid(next) THEN "written" ELSE "invalid",
                                      ![p].holds = next]
    /\ UNCHANGED <<file, revision, runs, faults>>

\* The rename replaces whatever is there by now.
Rename(p) ==
    /\ command[p].at = "written"
    /\ file' = command[p].holds
    /\ revision' = revision + 1
    /\ command' = [command EXCEPT ![p].at = "done"]
    /\ UNCHANGED <<runs, faults>>

Return(p) ==
    /\ command[p].at \in {"done", "failed", "invalid"}
    /\ command' = [command EXCEPT ![p] = Idle]
    /\ UNCHANGED <<file, revision, runs, faults>>

\* A killed command leaves at most its temporary file.
Kill(p) ==
    /\ command[p].at \in {"loaded", "written"} /\ faults < MaxFaults
    /\ command' = [command EXCEPT ![p] = Idle]
    /\ faults' = faults + 1
    /\ UNCHANGED <<file, revision, runs>>

Step(p) == Load(p) \/ Write(p) \/ Rename(p) \/ Return(p) \/ Kill(p)

Next == \E p \in Commands : Step(p)

Spec == Init /\ [][Next]_vars
=============================================================================
