--------------------------- MODULE IndexContribution ---------------------------
(***************************************************************************)
(* What `waldo index ingest` does to an index checkout once its objects are *)
(* published (internal/ingest/stage_contribution.go, with the navigation of *)
(* internal/index/load.go): the destination is checked, an overlay of new   *)
(* files is staged beside the plan, and the overlay is applied file by      *)
(* file, validated, and rolled back when a step fails.                      *)
(*                                                                          *)
(* Durable state: the files and directories of the checkout, and the staged *)
(* overlay of each plan.  A command may be killed between any two file      *)
(* operations; nothing but that durable state tells the next one.           *)
(*                                                                          *)
(* A directory stands for its path.  A navigation document is the set of    *)
(* directories it lists; the one of a destination lists the destination     *)
(* itself, which stands for its manifest.                                   *)
(***************************************************************************)
EXTENDS Naturals, FiniteSets

CONSTANTS
    Dirs,          \* directories of the checkout, existing or not
    Root,          \* its root
    ParentOf,      \* the parent of every other directory
    Destinations,  \* the directories that plans are ingested into
    NoDir,         \* no directory: marks a file that does not exist
    AtOnce,        \* bound: commands that run at the same time
    MaxFaults      \* bound: kills and I/O errors, all together

Upward(S) == \A d \in S \ {Root} : ParentOf[d] \in S

\* The directories on the path of d, from the root to d itself.
Above == [d \in Dirs |-> {e \in Dirs : \A S \in SUBSET Dirs : d \in S /\ Upward(S) => e \in S}]

ASSUME DirsAssumption   == /\ IsFiniteSet(Dirs) /\ Root \in Dirs
                           /\ ParentOf \in [Dirs \ {Root} -> Dirs]
                           /\ \A d \in Dirs : Root \in Above[d]
ASSUME LeavesAssumption == /\ Destinations \subseteq Dirs \ {Root}
                           /\ \A d \in Dirs \ {Root} : ParentOf[d] \notin Destinations
ASSUME AbsentAssumption == NoDir \notin Dirs
ASSUME LimitsAssumption == AtOnce \in Nat \ {0} /\ MaxFaults \in Nat

VARIABLES
    late,     \* directories whose name sorts after "index.yaml"
    dirs,     \* directories that exist
    tree,     \* the files of the checkout
    overlay,  \* per plan, the files of its staged contribution
    cmd,      \* the command of each plan
    applied,  \* plans whose command has reported success
    faults

durable == <<dirs, tree, overlay>>
vars    == <<late, durable, cmd, applied, faults>>

Documents == {"yaml", "json"}
Files     == [dir : Dirs, doc : Documents \cup {"manifest"}]
Absent    == {NoDir}
Content   == (SUBSET Dirs) \cup {Absent}

Nav(d)      == [dir |-> d, doc |-> "yaml"]
Json(d)     == [dir |-> d, doc |-> "json"]
Manifest(d) == [dir |-> d, doc |-> "manifest"]

Ancestors(d) == Above[d] \ {d}

NoFiles == [f \in Files |-> Absent]

\* A command: the files it will write or remove, those left to do, and every
\* file as it was when they were read (only those of the targets are used).
Command == [pc : {"idle", "checked", "staged", "applying", "rollback", "done", "failed"},
            targets : SUBSET Files, left : SUBSET Files, old : [Files -> Content],
            botched : BOOLEAN]

Idle == [pc |-> "idle", targets |-> {}, left |-> {}, old |-> NoFiles, botched |-> FALSE]

TypeOK ==
    /\ late \in SUBSET Dirs
    /\ dirs \in SUBSET Dirs
    /\ tree \in [Files -> Content]
    /\ overlay \in [Destinations -> [Files -> Content]]
    /\ cmd \in [Destinations -> Command]
    /\ applied \in SUBSET Destinations
    /\ faults \in 0..MaxFaults

\* A checkout without corpora, in either format of its navigation document.
Init ==
    /\ late \in SUBSET (Dirs \ {Root})
    /\ dirs = {Root}
    /\ \E doc \in Documents :
        tree = [f \in Files |-> IF f = [dir |-> Root, doc |-> doc] THEN {} ELSE Absent]
    /\ overlay = [c \in Destinations |-> NoFiles]
    /\ cmd = [c \in Destinations |-> Idle]
    /\ applied = {}
    /\ faults = 0

At(c, pc)   == cmd[c].pc = pc
Goto(c, pc) == cmd' = [cmd EXCEPT ![c].pc = pc]

Fault == faults < MaxFaults /\ faults' = faults + 1

(***************************************************************************)
(* Reading the checkout                                                     *)
(***************************************************************************)

\* The navigation documents of a directory; competing ones cannot be read.
DocumentsOf(d) == {doc \in Documents : tree[[dir |-> d, doc |-> doc]] # Absent}

Loads(d) == Cardinality(DocumentsOf(d)) = 1

Entries(d) == UNION {tree[[dir |-> d, doc |-> doc]] : doc \in DocumentsOf(d)}

Linked(d) == \A e \in Above[d] \ {Root} : e \in Entries(ParentOf[e])

\* WalkCorpora from the root: whatever is listed can be loaded.
Walkable ==
    \A d \in Dirs : Linked(d) =>
        /\ Loads(d)
        /\ d \in Entries(d) => tree[Manifest(d)] # Absent

(***************************************************************************)
(* Checking and staging                                                     *)
(***************************************************************************)

\* CheckContributionDestination
DestinationFree(c) == Loads(Root) /\ c \notin dirs

\* The ancestor that the new directories will hang from.
Anchor(c) ==
    CHOOSE d \in Ancestors(c) :
        /\ DocumentsOf(d) # {}
        /\ \A e \in Ancestors(c) : DocumentsOf(e) # {} => e \in Above[d]

\* The next directory towards c, and c itself at the end.
Child(d, c) == IF d = c THEN c ELSE CHOOSE e \in Above[c] \ {Root} : ParentOf[e] = d

Stageable(c) ==
    /\ DestinationFree(c)
    /\ Loads(Anchor(c))
    /\ Child(Anchor(c), c) \notin Entries(Anchor(c))

\* The documents to write: new below the anchor, the anchor's with its child.
NewEntries(d, c) == (IF d = Anchor(c) THEN Entries(d) ELSE {}) \cup {Child(d, c)}

Touched(c) == {d \in Above[c] : Anchor(c) \in Above[d]}

Contribution(c) ==
    [f \in Files |->
        IF f.dir \in Touched(c) /\ f = Nav(f.dir) THEN NewEntries(f.dir, c)
        ELSE IF f = Manifest(c) THEN {} ELSE Absent]

\* Mutant: the retained overlay of an earlier invocation is not compared.
OverlayIgnored(c) == TRUE

\* compareContributionTrees, when an overlay has been retained.
OverlayAgrees(c) == overlay[c] \in {NoFiles, Contribution(c)}

\* result.Files, and in result.Removed the document that index.yaml supersedes.
Superseded(c) == {f \in {Json(Anchor(c))} : tree[f] # Absent}

Targets(c) == {f \in Files : Contribution(c)[f] # Absent} \cup Superseded(c)

\* The lexical order of the files: a document precedes what is below it when
\* the name there sorts after "index.yaml"; the removals come last.
Depth(d) == Cardinality(Above[d])

Rank(c, f) ==
    CASE f.doc = "manifest" -> Depth(c) + 1
      [] f.doc = "json"     -> 2 * Depth(c) + 2
      [] f.doc = "yaml"     -> IF Child(f.dir, c) \in late THEN Depth(f.dir)
                               ELSE 2 * Depth(c) + 2 - Depth(f.dir)

Check(c) ==
    /\ At(c, "idle")
    /\ Cardinality({d \in Destinations : ~At(d, "idle")}) < AtOnce
    /\ DestinationFree(c)
    /\ Goto(c, "checked")
    /\ UNCHANGED <<late, durable, applied, faults>>

\* The objects are published; the overlay is renamed into place, or found there.
Stage(c) ==
    /\ At(c, "checked")
    /\ Stageable(c)
    /\ OverlayAgrees(c)
    /\ overlay' = [overlay EXCEPT ![c] = IF @ = NoFiles THEN Contribution(c) ELSE @]
    /\ cmd' = [cmd EXCEPT ![c].pc = "staged", ![c].targets = Targets(c)]
    /\ UNCHANGED <<late, dirs, tree, applied, faults>>

Refuse(c) ==
    /\ At(c, "checked")
    /\ ~(Stageable(c) /\ OverlayAgrees(c))
    /\ cmd' = [cmd EXCEPT ![c] = Idle]
    /\ UNCHANGED <<late, durable, applied, faults>>

(***************************************************************************)
(* ApplyContribution                                                        *)
(***************************************************************************)

\* The original of every target is read before the first is replaced.
Snapshot(c) ==
    /\ At(c, "staged")
    /\ cmd' = [cmd EXCEPT ![c].pc = "applying", ![c].left = cmd[c].targets, ![c].old = tree]
    /\ UNCHANGED <<late, durable, applied, faults>>

Pending(c) == cmd[c].left # {}

\* The next file, and what the overlay has for it: nothing for a removal.
Target(c) == CHOOSE f \in cmd[c].left : \A g \in cmd[c].left : Rank(c, f) <= Rank(c, g)

New(c) == overlay[c][Target(c)]
Old(c) == cmd[c].old[Target(c)]

\* writeIndexFileAtomic creates the directories of its file.
MadeFor(f) == dirs \cup Above[f.dir]

Put(f, content) ==
    /\ tree' = [tree EXCEPT ![f] = content]
    /\ dirs' = IF content = Absent THEN dirs ELSE MadeFor(f)

WriteNext(c) ==
    /\ At(c, "applying")
    /\ Pending(c)
    /\ Put(Target(c), New(c))
    /\ cmd' = [cmd EXCEPT ![c].left = @ \ {Target(c)}]
    /\ UNCHANGED <<late, overlay, applied, faults>>

RollsBack(c) == cmd' = [cmd EXCEPT ![c].pc = "rollback", ![c].left = cmd[c].targets]

\* A write may fail before or after it made its directories, and after its
\* rename; a removal fails without an effect.
WriteFails(c) ==
    /\ At(c, "applying")
    /\ Pending(c)
    /\ Fault
    /\ \/ UNCHANGED <<dirs, tree>>
       \/ /\ New(c) # Absent
          /\ dirs' = MadeFor(Target(c))
          /\ UNCHANGED tree
       \/ /\ New(c) # Absent
          /\ Put(Target(c), New(c))
    /\ RollsBack(c)
    /\ UNCHANGED <<late, overlay, applied>>

\* Mutant: the applied checkout is not walked.
ValidateNothing(c) ==
    /\ At(c, "applying")
    /\ ~Pending(c)
    /\ Goto(c, "done")
    /\ applied' = applied \cup {c}
    /\ UNCHANGED <<late, durable, faults>>

Validate(c) ==
    /\ At(c, "applying")
    /\ ~Pending(c)
    /\ Walkable
    /\ Goto(c, "done")
    /\ applied' = applied \cup {c}
    /\ UNCHANGED <<late, durable, faults>>

\* The checkout is not valid, or cannot be read.
ValidateFails(c) ==
    /\ At(c, "applying")
    /\ ~Pending(c)
    /\ IF Walkable THEN Fault ELSE UNCHANGED faults
    /\ RollsBack(c)
    /\ UNCHANGED <<late, durable, applied>>

\* Mutant: only files that were replaced are restored; new ones stay.
UndoReplaced(c) ==
    /\ At(c, "rollback")
    /\ Pending(c)
    /\ IF Old(c) = Absent
       THEN UNCHANGED <<dirs, tree>>
       ELSE Put(Target(c), Old(c))
    /\ cmd' = [cmd EXCEPT ![c].left = @ \ {Target(c)}]
    /\ UNCHANGED <<late, overlay, applied, faults>>

\* Every target is restored, replaced or not; directories stay.
Undo(c) ==
    /\ At(c, "rollback")
    /\ Pending(c)
    /\ Put(Target(c), Old(c))
    /\ cmd' = [cmd EXCEPT ![c].left = @ \ {Target(c)}]
    /\ UNCHANGED <<late, overlay, applied, faults>>

\* "rollback contribution: ...": the error is joined, the loop goes on.  The
\* file may have been restored before the error.
UndoFails(c) ==
    /\ At(c, "rollback")
    /\ Pending(c)
    /\ Fault
    /\ \/ UNCHANGED <<dirs, tree>>
       \/ Put(Target(c), Old(c))
    /\ cmd' = [cmd EXCEPT ![c].left = @ \ {Target(c)}, ![c].botched = TRUE]
    /\ UNCHANGED <<late, overlay, applied>>

RolledBack(c) ==
    /\ At(c, "rollback")
    /\ ~Pending(c)
    /\ Goto(c, "failed")
    /\ UNCHANGED <<late, durable, applied, faults>>

Return(c) ==
    /\ At(c, "done") \/ At(c, "failed")
    /\ cmd' = [cmd EXCEPT ![c] = Idle]
    /\ UNCHANGED <<late, durable, applied, faults>>

\* Files are renamed into place; only their new directories can be left alone.
Kill(c) ==
    /\ ~At(c, "idle")
    /\ Fault
    /\ \/ UNCHANGED dirs
       \/ /\ At(c, "applying")
          /\ Pending(c)
          /\ New(c) # Absent
          /\ dirs' = MadeFor(Target(c))
    /\ cmd' = [cmd EXCEPT ![c] = Idle]
    /\ UNCHANGED <<late, tree, overlay, applied>>

Apply(c) ==
    \/ Snapshot(c) \/ WriteNext(c) \/ WriteFails(c) \/ Validate(c) \/ ValidateFails(c)
    \/ Undo(c) \/ UndoFails(c) \/ RolledBack(c)

Next ==
    \E c \in Destinations :
        Check(c) \/ Stage(c) \/ Refuse(c) \/ Apply(c) \/ Return(c) \/ Kill(c)

Spec == Init /\ [][Next]_vars

(***************************************************************************)
(* Properties                                                               *)
(***************************************************************************)

\* What the navigation documents above a destination say of it.
Listed(c) ==
    /\ tree[Manifest(c)] # Absent
    /\ \A d \in Above[c] :
        /\ DocumentsOf(d) # {}
        /\ \A doc \in DocumentsOf(d) : Child(d, c) \in tree[[dir |-> d, doc |-> doc]]

\* A corpus that was reported as applied and is in the index stays there,
\* whatever later commands do, are refused, roll back, botch or are killed in:
\* its manifest remains, and no navigation document above it loses it.  What
\* protects it is the comparison of a retained overlay with today's checkout.
\* It is about corpora that this command entered: the checkout begins empty.
AppliedStaysListed ==
    [][\A c \in applied : Listed(c) => Listed(c)']_vars

\* "The index change is applied only after the complete operation verifies"
\* (docs/INGESTION-DESIGN.md:91): when a command reports success the checkout
\* can be walked from its root, also past what killed commands left half
\* applied, and the files of its own corpus are there.
SuccessIsWalkable ==
    \A c \in Destinations : At(c, "done") => Walkable /\ Loads(c) /\ tree[Manifest(c)] # Absent

\* "restores the original files if any step fails" (stage_contribution.go:36-38):
\* whichever write, removal or validation failed, a command that reports its
\* error, and none of its rollback, leaves every file as it found it, also
\* those that earlier commands were killed in.
FilesRestored ==
    \A c \in Destinations : At(c, "failed") /\ ~cmd[c].botched => tree = cmd[c].old
================================================================================
