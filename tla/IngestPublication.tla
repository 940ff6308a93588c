-------------------------- MODULE IngestPublication --------------------------
(***************************************************************************)
(* The recovery journal of `waldo index ingest` and the bounded-concurrency *)
(* publication it drives (internal/ingest/journal.go, with the publishers   *)
(* of internal/lookaside).                                                  *)
(*                                                                          *)
(* Durable state: INGESTION.json, the staging directory of the plan and the *)
(* lookaside stores.  Volatile state: one invocation of ExecutePublication, *)
(* with its queueing loop, its worker goroutines and its collector.  The    *)
(* process may be killed between any two steps; a later invocation resumes  *)
(* from the durable state alone.                                            *)
(*                                                                          *)
(* Object n is the n-th shard of the (deterministic) assembly of the plan:  *)
(* its number is its sequence and stands for its digest and its size.       *)
(***************************************************************************)
EXTENDS Naturals, FiniteSets

CONSTANTS
    NumObjects,   \* how many shards the plan assembles into
    Workers,      \* publication worker goroutines
    Bases,        \* lookaside base URLs the operator may configure
    NoBase,       \* a journal without a publication result
    MaxFaults,    \* bound: I/O errors, interruptions and kills, all together
    MaxRemovals   \* bound: explicit `waldo lookaside remove` of an object

ASSUME ObjectsAssumption == NumObjects \in Nat \ {0}
ASSUME WorkersAssumption == IsFiniteSet(Workers) /\ Workers # {}
ASSUME BasesAssumption   == NoBase \notin Bases
ASSUME BoundsAssumption  == MaxFaults \in Nat /\ MaxRemovals \in Nat

Objects == 1..NumObjects
NoObject == 0

VARIABLES
    journal,     \* INGESTION.json
    staged,      \* objects whose verified file is in staging/objects
    partial,     \* objects of which only a .waldo-shard-* file exists
    remote,      \* the objects each lookaside store holds
    pc,          \* where the invocation is
    base,        \* the BaseURL of its publisher
    built,       \* objects its assembler has verified and staged
    pubs,        \* its in-memory publication.Objects
    next,        \* position of its queueing loop
    jobs,        \* its jobs channel
    worker,      \* its worker goroutines
    outcomes,    \* its outcomes channel
    collecting,  \* the object its collector has journaled but not yet unstaged
    failed,      \* firstErr is set, or its context was cancelled
    faults,      \* faults injected so far
    removals,    \* removals by the operator so far
    withdrawn    \* objects removed from a store since the invocation started

durable  == <<journal, staged, partial, remote>>
locals   == <<base, built, pubs, next, jobs, worker, outcomes, collecting, failed>>
budgets  == <<faults, removals>>
vars     == <<durable, pc, locals, budgets, withdrawn>>

Statuses == {"none", "assembling", "assembled", "publishing", "published"}

Journal == [status : Statuses, assembly : BOOLEAN,
            base : Bases \cup {NoBase}, objects : SUBSET Objects]

Free == [at |-> "free", object |-> NoObject]

WorkerState == {Free} \cup [at : {"busy", "ok", "error"}, object : Objects]

TypeOK ==
    /\ journal \in Journal
    /\ staged \in SUBSET Objects
    /\ partial \in SUBSET Objects
    /\ remote \in [Bases -> SUBSET Objects]
    /\ pc \in {"idle", "load", "assembling", "prepare", "publishing", "done"}
    /\ base \in Bases \cup {NoBase}
    /\ built \in SUBSET Objects
    /\ pubs \in SUBSET Objects
    /\ next \in 1..(NumObjects + 1)
    /\ jobs \in SUBSET Objects
    /\ worker \in [Workers -> WorkerState]
    /\ outcomes \in SUBSET [object : Objects, ok : BOOLEAN]
    /\ collecting \in Objects \cup {NoObject}
    /\ failed \in BOOLEAN
    /\ faults \in 0..MaxFaults
    /\ removals \in 0..MaxRemovals
    /\ withdrawn \in SUBSET Objects

NoJournal == [status |-> "none", assembly |-> FALSE, base |-> NoBase, objects |-> {}]

\* A journal of the former streaming publisher: publishing before assembled.
LegacyJournal(b, uploaded) ==
    [status |-> "publishing", assembly |-> FALSE, base |-> b, objects |-> uploaded]

\* The staging directory is new, or the former publisher left it after having
\* uploaded, journaled and unstaged some of the objects.
Init ==
    /\ \E b \in Bases, uploaded \in SUBSET Objects :
        /\ journal \in {NoJournal, LegacyJournal(b, uploaded)}
        /\ remote = [x \in Bases |-> IF x = b THEN uploaded ELSE {}]
    /\ staged = {}
    /\ partial = {}
    /\ pc = "idle"
    /\ base = NoBase
    /\ built = {}
    /\ pubs = {}
    /\ next = 1
    /\ jobs = {}
    /\ worker = [w \in Workers |-> Free]
    /\ outcomes = {}
    /\ collecting = NoObject
    /\ failed = FALSE
    /\ faults = 0
    /\ removals = 0
    /\ withdrawn = {}

\* The process is gone, or ExecutePublication has returned.
ForgetLocals ==
    /\ base' = NoBase
    /\ built' = {}
    /\ pubs' = {}
    /\ next' = 1
    /\ jobs' = {}
    /\ worker' = [w \in Workers |-> Free]
    /\ outcomes' = {}
    /\ collecting' = NoObject
    /\ failed' = FALSE

Fault ==
    /\ faults < MaxFaults
    /\ faults' = faults + 1
    /\ UNCHANGED removals

(***************************************************************************)
(* Loading the journal                                                      *)
(***************************************************************************)

Start(b) ==
    /\ pc = "idle"
    /\ pc' = "load"
    /\ base' = b
    /\ withdrawn' = {}
    /\ UNCHANGED <<durable, budgets>>
    /\ UNCHANGED <<built, pubs, next, jobs, worker, outcomes, collecting, failed>>

\* Mutant: a published journal is believed without asking the store.
PublishedUnverified ==
    /\ journal.assembly
    /\ journal.base = base
    /\ journal.objects = Objects

\* verifyPublished: same publisher, same object set, every object remote.
PublishedVerifies ==
    /\ journal.assembly
    /\ journal.base = base
    /\ journal.objects = Objects
    /\ Objects \subseteq remote[base]

ReusePublished ==
    /\ pc = "load"
    /\ journal.status = "published"
    /\ PublishedVerifies
    /\ pc' = "done"
    /\ UNCHANGED <<durable, locals, budgets, withdrawn>>

RestartLegacy ==
    /\ pc = "load"
    /\ journal.status = "publishing"
    /\ ~journal.assembly
    /\ journal' = [NoJournal EXCEPT !.status = "assembling"]
    /\ UNCHANGED <<staged, partial, remote, pc, locals, budgets, withdrawn>>

ResumePublishing ==
    /\ pc = "load"
    /\ journal.status = "publishing"
    /\ journal.assembly
    /\ pc' = "prepare"
    /\ UNCHANGED <<durable, locals, budgets, withdrawn>>

(***************************************************************************)
(* ExecuteAssembly                                                          *)
(***************************************************************************)

\* verifyJournalAssembly: every staged file is still there and still itself.
ReuseAssembly ==
    /\ pc = "load"
    /\ journal.status = "assembled"
    /\ journal.assembly
    /\ Objects \subseteq staged
    /\ pc' = "prepare"
    /\ UNCHANGED <<durable, locals, budgets, withdrawn>>

\* Write "assembling", remove what an interrupted assembler left half written.
BeginAssembly ==
    /\ pc = "load"
    /\ journal.status \in {"none", "assembling"}
    /\ journal' = [journal EXCEPT !.status = "assembling", !.assembly = FALSE]
    /\ partial' = {}
    /\ pc' = "assembling"
    /\ UNCHANGED <<staged, remote, locals, budgets, withdrawn>>

\* The assembler fills one shard at a time; earlier ones may still be verified.
OpenShard(o) ==
    /\ pc = "assembling"
    /\ o \notin built \cup partial
    /\ 1..(o - 1) \subseteq built \cup partial
    /\ partial' = partial \cup {o}
    /\ UNCHANGED <<journal, staged, remote, pc, locals, budgets, withdrawn>>

\* verifyAndStageObject: rename onto the digest, or drop the temporary file
\* when an earlier invocation has already staged the same object.
StageShard(o) ==
    /\ pc = "assembling"
    /\ o \in partial
    /\ partial' = partial \ {o}
    /\ staged' = staged \cup {o}
    /\ built' = built \cup {o}
    /\ UNCHANGED <<journal, remote, pc, budgets, withdrawn>>
    /\ UNCHANGED <<base, pubs, next, jobs, worker, outcomes, collecting, failed>>

FinishAssembly ==
    /\ pc = "assembling"
    /\ built = Objects
    /\ partial = {}
    /\ journal' = [journal EXCEPT !.status = "assembled", !.assembly = TRUE]
    /\ pc' = "prepare"
    /\ UNCHANGED <<staged, partial, remote, locals, budgets, withdrawn>>

\* The assembler fails: discardActive and the pipeline remove what is partial.
FailAssembly ==
    /\ pc = "assembling"
    /\ Fault
    /\ partial' = {}
    /\ pc' = "idle"
    /\ ForgetLocals
    /\ UNCHANGED <<journal, staged, remote, withdrawn>>

(***************************************************************************)
(* Preparing and running the publication                                    *)
(***************************************************************************)

\* Mutant: a resumed publication starts from an empty list.
JournalForgotten == {}

\* Entries journaled for this publisher; those of another one are forgotten.
JournaledHere == IF journal.base = base THEN journal.objects ELSE {}

Prepare ==
    /\ pc = "prepare"
    /\ JournaledHere \subseteq remote[base]
    /\ pubs' = JournaledHere
    /\ journal' = [status |-> "publishing", assembly |-> TRUE,
                   base |-> base, objects |-> JournaledHere]
    /\ pc' = "publishing"
    /\ UNCHANGED <<staged, partial, remote, budgets, withdrawn>>
    /\ UNCHANGED <<base, built, next, jobs, worker, outcomes, collecting, failed>>

\* The early returns of loading and preparing: the journal names a different
\* publisher or an object the store no longer holds, or a staged file is gone.
Refused ==
    IF pc = "load"
    THEN \/ journal.status = "published" /\ ~PublishedVerifies
         \/ journal.status = "assembled" /\ ~(Objects \subseteq staged)
    ELSE pc = "prepare" /\ ~(JournaledHere \subseteq remote[base])

Refuse ==
    /\ Refused
    /\ pc' = "idle"
    /\ ForgetLocals
    /\ UNCHANGED <<durable, budgets, withdrawn>>

SkipPublished ==
    /\ pc = "publishing"
    /\ next \in pubs
    /\ next' = next + 1
    /\ UNCHANGED <<durable, pc, budgets, withdrawn>>
    /\ UNCHANGED <<base, built, pubs, jobs, worker, outcomes, collecting, failed>>

\* `jobs <- job` blocks while the buffered channel is full.
Enqueue ==
    /\ pc = "publishing"
    /\ next \in Objects \ pubs
    /\ Cardinality(jobs) < Cardinality(Workers)
    /\ jobs' = jobs \cup {next}
    /\ next' = next + 1
    /\ UNCHANGED <<durable, pc, budgets, withdrawn>>
    /\ UNCHANGED <<base, built, pubs, worker, outcomes, collecting, failed>>

\* `case <-runCtx.Done()`: the rest is never queued.
StopQueueing ==
    /\ pc = "publishing"
    /\ next \in Objects \ pubs
    /\ failed
    /\ next' = NumObjects + 1
    /\ UNCHANGED <<durable, pc, budgets, withdrawn>>
    /\ UNCHANGED <<base, built, pubs, jobs, worker, outcomes, collecting, failed>>

Take(w) ==
    /\ pc = "publishing"
    /\ worker[w].at = "free"
    /\ \E o \in jobs :
        /\ jobs' = jobs \ {o}
        /\ worker' = [worker EXCEPT ![w] = [at |-> "busy", object |-> o]]
    /\ UNCHANGED <<durable, pc, budgets, withdrawn>>
    /\ UNCHANGED <<base, built, pubs, next, outcomes, collecting, failed>>

\* Mutant: Publish reports an object it has not stored.
PublishNothing(w) ==
    /\ pc = "publishing"
    /\ worker[w].at = "busy"
    /\ worker[w].object \in staged
    /\ worker' = [worker EXCEPT ![w].at = "ok"]
    /\ UNCHANGED <<durable, pc, budgets, withdrawn>>
    /\ UNCHANGED <<base, built, pubs, next, jobs, outcomes, collecting, failed>>

\* Publish verifies the staged source first, then stores it, unless the store
\* already holds it.  A store never shows a partial object: S3 verifies the
\* checksum of the PUT, the file store links a complete temporary file.
PublishObject(w) ==
    /\ pc = "publishing"
    /\ worker[w].at = "busy"
    /\ worker[w].object \in staged
    /\ remote' = [remote EXCEPT ![base] = @ \cup {worker[w].object}]
    /\ worker' = [worker EXCEPT ![w].at = "ok"]
    /\ UNCHANGED <<journal, staged, partial, pc, budgets, withdrawn>>
    /\ UNCHANGED <<base, built, pubs, next, jobs, outcomes, collecting, failed>>

\* Publish returns an error: the source is missing, the run is cancelled, or
\* the transport fails.
PublishFails(w) ==
    /\ pc = "publishing"
    /\ worker[w].at = "busy"
    /\ IF failed \/ worker[w].object \notin staged
       THEN UNCHANGED budgets
       ELSE Fault
    /\ worker' = [worker EXCEPT ![w].at = "error"]
    /\ UNCHANGED <<durable, pc, withdrawn>>
    /\ UNCHANGED <<base, built, pubs, next, jobs, outcomes, collecting, failed>>

\* `outcomes <- outcome` blocks while the buffered channel is full.
SendOutcome(w) ==
    /\ pc = "publishing"
    /\ worker[w].at \in {"ok", "error"}
    /\ Cardinality(outcomes) < Cardinality(Workers)
    /\ outcomes' = outcomes \cup {[object |-> worker[w].object, ok |-> worker[w].at = "ok"]}
    /\ worker' = [worker EXCEPT ![w] = Free]
    /\ UNCHANGED <<durable, pc, budgets, withdrawn>>
    /\ UNCHANGED <<base, built, pubs, next, jobs, collecting, failed>>

(***************************************************************************)
(* The collector                                                            *)
(***************************************************************************)

CollectError(out) ==
    /\ pc = "publishing"
    /\ collecting = NoObject
    /\ out \in outcomes
    /\ ~out.ok
    /\ outcomes' = outcomes \ {out}
    /\ failed' = TRUE
    /\ UNCHANGED <<durable, pc, budgets, withdrawn>>
    /\ UNCHANGED <<base, built, pubs, next, jobs, worker, collecting>>

\* Mutant: the staging file is removed before the journal is written.
CollectWithoutJournal(out) ==
    /\ pc = "publishing"
    /\ collecting = NoObject
    /\ out \in outcomes
    /\ out.ok
    /\ outcomes' = outcomes \ {out}
    /\ pubs' = pubs \cup {out.object}
    /\ collecting' = out.object
    /\ UNCHANGED <<durable, pc, budgets, withdrawn>>
    /\ UNCHANGED <<base, built, next, jobs, worker, failed>>

\* Upsert the entry, then write the journal atomically.
CollectPublished(out) ==
    /\ pc = "publishing"
    /\ collecting = NoObject
    /\ out \in outcomes
    /\ out.ok
    /\ outcomes' = outcomes \ {out}
    /\ pubs' = pubs \cup {out.object}
    /\ journal' = [journal EXCEPT !.objects = pubs']
    /\ collecting' = out.object
    /\ UNCHANGED <<staged, partial, remote, pc, budgets, withdrawn>>
    /\ UNCHANGED <<base, built, next, jobs, worker, failed>>

\* writeJournal fails: the entry stays in memory, the staged file stays.  (When
\* it fails after its rename, this is CollectPublished and UnstageFails.)
CollectUnwritten(out) ==
    /\ pc = "publishing"
    /\ collecting = NoObject
    /\ out \in outcomes
    /\ out.ok
    /\ Fault
    /\ outcomes' = outcomes \ {out}
    /\ pubs' = pubs \cup {out.object}
    /\ failed' = TRUE
    /\ UNCHANGED <<durable, pc, withdrawn>>
    /\ UNCHANGED <<base, built, next, jobs, worker, collecting>>

\* Only now is the staging file of the journaled object removed.
Unstage ==
    /\ pc = "publishing"
    /\ collecting # NoObject
    /\ staged' = staged \ {collecting}
    /\ collecting' = NoObject
    /\ UNCHANGED <<journal, partial, remote, pc, budgets, withdrawn>>
    /\ UNCHANGED <<base, built, pubs, next, jobs, worker, outcomes, failed>>

UnstageFails ==
    /\ pc = "publishing"
    /\ collecting # NoObject
    /\ Fault
    /\ collecting' = NoObject
    /\ failed' = TRUE
    /\ UNCHANGED <<durable, pc, withdrawn>>
    /\ UNCHANGED <<base, built, pubs, next, jobs, worker, outcomes>>

(***************************************************************************)
(* Returning                                                                *)
(***************************************************************************)

\* Queue closed, every worker returned, the collector has drained its channel.
Drained ==
    /\ pc = "publishing"
    /\ next > NumObjects
    /\ jobs = {}
    /\ \A w \in Workers : worker[w] = Free
    /\ outcomes = {}
    /\ collecting = NoObject

\* Mutant: neither the first error nor the object count is looked at.
CompleteAnyway ==
    /\ Drained
    /\ journal' = [status |-> "published", assembly |-> TRUE, base |-> base, objects |-> pubs]
    /\ pc' = "done"
    /\ UNCHANGED <<staged, partial, remote, locals, budgets, withdrawn>>

Complete ==
    /\ Drained
    /\ ~failed
    /\ pubs = Objects
    /\ journal' = [status |-> "published", assembly |-> TRUE, base |-> base, objects |-> pubs]
    /\ pc' = "done"
    /\ UNCHANGED <<staged, partial, remote, locals, budgets, withdrawn>>

ReturnError ==
    /\ Drained
    /\ failed \/ pubs # Objects
    /\ pc' = "idle"
    /\ ForgetLocals
    /\ UNCHANGED <<durable, budgets, withdrawn>>

\* The command goes on to stage and apply the contribution, and ends.
Return ==
    /\ pc = "done"
    /\ pc' = "idle"
    /\ ForgetLocals
    /\ UNCHANGED <<durable, budgets, withdrawn>>

(***************************************************************************)
(* The environment                                                          *)
(***************************************************************************)

\* The operator interrupts the command while it publishes.
Interrupt ==
    /\ pc = "publishing"
    /\ ~failed
    /\ Fault
    /\ failed' = TRUE
    /\ UNCHANGED <<durable, pc, withdrawn>>
    /\ UNCHANGED <<base, built, pubs, next, jobs, worker, outcomes, collecting>>

\* The process is killed, or an I/O error ends it while loading or preparing.
Crash ==
    /\ pc # "idle"
    /\ Fault
    /\ pc' = "idle"
    /\ ForgetLocals
    /\ UNCHANGED <<durable, withdrawn>>

\* `waldo lookaside remove` of an object of the plan.
RemoveRemote(b, o) ==
    /\ removals < MaxRemovals
    /\ o \in remote[b]
    /\ remote' = [remote EXCEPT ![b] = @ \ {o}]
    /\ removals' = removals + 1
    /\ withdrawn' = IF b = base THEN withdrawn \cup {o} ELSE withdrawn
    /\ UNCHANGED <<journal, staged, partial, pc, locals, faults>>

WorkerStep(w) == Take(w) \/ PublishObject(w) \/ PublishFails(w) \/ SendOutcome(w)

CollectorStep ==
    \/ \E out \in outcomes : CollectError(out) \/ CollectPublished(out)
    \/ Unstage

QueueStep == SkipPublished \/ Enqueue \/ StopQueueing \/ Complete \/ ReturnError

LoadStep ==
    \/ ReusePublished \/ RestartLegacy \/ ResumePublishing \/ ReuseAssembly
    \/ BeginAssembly \/ Prepare \/ Refuse

AssemblyStep ==
    \/ \E o \in Objects : OpenShard(o) \/ StageShard(o)
    \/ FinishAssembly

Next ==
    \/ \E b \in Bases : Start(b)
    \/ LoadStep
    \/ AssemblyStep
    \/ QueueStep
    \/ \E w \in Workers : WorkerStep(w)
    \/ CollectorStep
    \/ \E out \in outcomes : CollectUnwritten(out)
    \/ UnstageFails
    \/ FailAssembly
    \/ Return
    \/ Interrupt
    \/ Crash
    \/ \E b \in Bases, o \in Objects : RemoveRemote(b, o)

Spec == Init /\ [][Next]_vars

(***************************************************************************)
(* Fairness.  The Go scheduler runs every goroutine that can proceed, and a *)
(* blocked channel operation proceeds when its peer does.  Reading, writing *)
(* and uploading end.  Nothing makes a process fail.                        *)
(***************************************************************************)
FairSpec ==
    /\ Spec
    /\ WF_vars(LoadStep)
    /\ WF_vars(FinishAssembly)
    /\ \A o \in Objects : WF_vars(OpenShard(o)) /\ WF_vars(StageShard(o))
    /\ WF_vars(QueueStep)
    /\ \A w \in Workers : WF_vars(WorkerStep(w))
    /\ WF_vars(CollectorStep)

\* An operator who repeats the command until it succeeds.
RetrySpec == FairSpec /\ WF_vars(\E b \in Bases : Start(b))

(***************************************************************************)
(* Properties                                                               *)
(***************************************************************************)

\* "Each verified remote object is journaled before its staging file is
\* removed, so publication interruption is recoverable" (journal.go:110-113):
\* once the assembly is complete, an object without a staging file is in the
\* journal, whatever was interrupted, and a retry never needs its bytes again.
UnstagedIsJournaled ==
    journal.status \in {"assembled", "publishing"} /\ journal.assembly =>
        Objects \subseteq staged \cup journal.objects

\* The journal never claims more than its store holds: an entry is written
\* only after Publish or Verify has seen the object (unless the operator has
\* removed objects since).
JournalTruthful ==
    removals = 0 /\ journal.base # NoBase => journal.objects \subseteq remote[journal.base]

\* Across kills, failed writes and changes of publisher, the only copy of an
\* assembled object is never deleted: it is staged or in some store.
NoBytesLost ==
    removals = 0 /\ journal.assembly =>
        \A o \in Objects : o \in staged \/ \E b \in Bases : o \in remote[b]

\* A successful ExecutePublication vouches for the store as it is now: what
\* its own publisher lacks was removed while this very invocation ran, never
\* before it (verifyPublished, the Verify loop and Publish see to that).
SuccessVerified ==
    pc = "done" => /\ journal.status = "published"
                   /\ Objects \ withdrawn \subseteq remote[base]

\* With one publisher, repeating an interrupted command ends in a published
\* journal: no interruption leaves a staging directory that cannot resume.
EventuallyPublished == <>(journal.status = "published")

\* The abstract publication: stores only fill, and the object set of a plan is
\* announced once, for a store that holds all of it.
Contract == INSTANCE PublicationContract WITH
    stored    <- remote,
    announced <- IF journal.status = "published" THEN journal.base ELSE NoBase

ImplementsContract == Contract!Spec
==============================================================================
