-------------------------- MODULE ConfigurationFile --------------------------
(* The machine-local configuration file, what makes it one that a command      *)
(* loads (internal/config/config.go), and what is promised of it.  The         *)
(* commands that change it are Configuration's.                                *)
EXTENDS Integers

VARIABLES
    file,       \* the configuration on disk
    command     \* per process: what it does, holds, and where it is

(* Configurations.  "" is unset.                                               *)

\* The publisher's region is an S3 setting; its workers default to four, and
\* without a location there is no publisher at all.
PublishValid(c) ==
    /\ c.region # "" => c.scheme = "s3"
    /\ c.workers \in IF c.scheme = "" THEN {0} ELSE 1 .. 32

SigningValid(c) == c.method = "sigstore-keyless" => c.key = ""

Valid(c) == PublishValid(c) /\ SigningValid(c)

-----------------------------------------------------------------------------
(* Properties.                                                                 *)

\* Whatever order commands, races and kills come in, the file is one that every
\* command loads: related keys never come from two commands, and only a setting
\* the user asked for is refused: a change of location or method drops what no
\* longer goes with it, and unsetting a key never fails.
ConfigurationLoads ==
    /\ Valid(file)
    /\ \A p \in DOMAIN command : command[p].at = "invalid" =>
          "set" \in DOMAIN command[p].op
              /\ command[p].op.set \in {"lookaside.region", "signing.key"}
=============================================================================
