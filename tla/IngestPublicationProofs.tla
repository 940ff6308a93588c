----------------------- MODULE IngestPublicationProofs -----------------------
(***************************************************************************)
(* Proofs about the ingestion journal and its publication, for any number   *)
(* of objects, workers, lookaside bases, faults and removals.               *)
(***************************************************************************)
EXTENDS IngestPublication, TLAPS

USE ObjectsAssumption, WorkersAssumption, BasesAssumption, BoundsAssumption DEF Objects, NoObject

\* An invocation that has just started or just ended has well-typed locals,
\* and the durable state it may find is well-typed: TypeOK holds initially.
LEMMA TypeInit == Init => TypeOK
<1> SUFFICES ASSUME Init PROVE TypeOK
  OBVIOUS
<1>1. PICK b \in Bases, uploaded \in SUBSET Objects :
           /\ journal \in {NoJournal, LegacyJournal(b, uploaded)}
           /\ remote = [x \in Bases |-> IF x = b THEN uploaded ELSE {}]
  BY DEF Init
<1>2. journal \in Journal
  <2>1. NoJournal \in Journal
    BY DEF NoJournal, Journal, Statuses
  <2>2. LegacyJournal(b, uploaded) \in Journal
    BY <1>1 DEF LegacyJournal, Journal, Statuses
  <2>3. QED
    BY <1>1, <2>1, <2>2
<1>3. remote \in [Bases -> SUBSET Objects]
  BY <1>1
<1>4. worker \in [Workers -> WorkerState]
  BY DEF Init, Free, WorkerState
<1>5. next \in 1..(NumObjects + 1) /\ faults \in 0..MaxFaults /\ removals \in 0..MaxRemovals
  BY DEF Init
<1>6. QED
  BY <1>2, <1>3, <1>4, <1>5 DEF Init, TypeOK

\* Every action keeps the type of every variable.
LEMMA TypeStep == TypeOK /\ [Next]_vars => TypeOK'
<1> SUFFICES ASSUME TypeOK, [Next]_vars PROVE TypeOK'
  OBVIOUS
<1> USE DEF TypeOK, Journal, Statuses, WorkerState, Free, durable, locals, budgets
<1>0. ForgetLocals => /\ base' \in Bases \cup {NoBase} /\ built' \in SUBSET Objects
                      /\ pubs' \in SUBSET Objects /\ next' \in 1..(NumObjects + 1)
                      /\ jobs' \in SUBSET Objects /\ worker' \in [Workers -> WorkerState]
                      /\ outcomes' \in SUBSET [object : Objects, ok : BOOLEAN]
                      /\ collecting' \in Objects \cup {NoObject} /\ failed' \in BOOLEAN
  <2>1. 1 \in 1..(NumObjects + 1)
    OBVIOUS
  <2>2. Free \in WorkerState
    OBVIOUS
  <2>3. QED
    BY <2>1, <2>2 DEF ForgetLocals
<1>1. CASE UNCHANGED vars
  BY <1>1 DEF vars
<1>2. CASE \E b \in Bases : Start(b)
  BY <1>2 DEF Start
<1>3. CASE ReusePublished
  BY <1>3 DEF ReusePublished
<1>4. CASE RestartLegacy
  BY <1>4 DEF RestartLegacy, NoJournal
<1>5. CASE ResumePublishing
  BY <1>5 DEF ResumePublishing
<1>6. CASE ReuseAssembly
  BY <1>6 DEF ReuseAssembly
<1>7. CASE BeginAssembly
  BY <1>7 DEF BeginAssembly, NoJournal
<1>8. CASE Prepare
  BY <1>8 DEF Prepare, JournaledHere
<1>9. CASE Refuse
  BY <1>0, <1>9 DEF Refuse
<1>10. CASE \E o \in Objects : OpenShard(o)
  BY <1>10 DEF OpenShard
<1>11. CASE \E o \in Objects : StageShard(o)
  BY <1>11 DEF StageShard
<1>12. CASE FinishAssembly
  BY <1>12 DEF FinishAssembly
<1>13. CASE SkipPublished
  BY <1>13 DEF SkipPublished
<1>14. CASE Enqueue
  BY <1>14 DEF Enqueue
<1>15. CASE StopQueueing
  BY <1>15 DEF StopQueueing
<1>16. CASE Complete
  BY <1>16 DEF Complete, Drained
<1>17. CASE ReturnError
  BY <1>0, <1>17 DEF ReturnError, Drained
<1>18. CASE \E w \in Workers : Take(w)
  BY <1>18 DEF Take
<1>19. CASE \E w \in Workers : PublishObject(w)
  <2>1. PICK w \in Workers : PublishObject(w)
    BY <1>19
  <2>2. worker[w] \in [at : {"busy", "ok", "error"}, object : Objects]
    BY <2>1 DEF PublishObject
  <2>3. worker' \in [Workers -> WorkerState]
    BY <2>1, <2>2 DEF PublishObject
  <2>4. remote' \in [Bases -> SUBSET Objects]
    <3>1. base \in Bases => remote[base] \cup {worker[w].object} \in SUBSET Objects
      BY <2>2
    <3>2. QED
      BY <2>1, <3>1 DEF PublishObject
  <2>5. QED
    BY <2>1, <2>3, <2>4 DEF PublishObject
<1>20. CASE \E w \in Workers : PublishFails(w)
  BY <1>20 DEF PublishFails, Fault
<1>21. CASE \E w \in Workers : SendOutcome(w)
  <2>1. PICK w \in Workers : SendOutcome(w)
    BY <1>21
  <2>2. worker[w] \in [at : {"busy", "ok", "error"}, object : Objects]
    BY <2>1 DEF SendOutcome
  <2>3. [object |-> worker[w].object, ok |-> worker[w].at = "ok"]
            \in [object : Objects, ok : BOOLEAN]
    BY <2>2
  <2>4. QED
    BY <2>1, <2>3 DEF SendOutcome
<1>22. CASE \E out \in outcomes : CollectError(out)
  BY <1>22 DEF CollectError
<1>23. CASE \E out \in outcomes : CollectPublished(out)
  <2>1. PICK out \in outcomes : CollectPublished(out)
    BY <1>23
  <2>2. pubs \cup {out.object} \in SUBSET Objects /\ out.object \in Objects
    BY DEF Objects
  <2>3. journal' \in Journal
    BY <2>1, <2>2 DEF CollectPublished
  <2>4. QED
    BY <2>1, <2>2, <2>3 DEF CollectPublished
<1>24. CASE Unstage
  BY <1>24 DEF Unstage
<1>25. CASE \E out \in outcomes : CollectUnwritten(out)
  <2>1. PICK out \in outcomes : CollectUnwritten(out)
    BY <1>25
  <2>2. pubs \cup {out.object} \in SUBSET Objects
    OBVIOUS
  <2>3. faults' \in 0..MaxFaults
    BY <2>1 DEF CollectUnwritten, Fault
  <2>4. QED
    BY <2>1, <2>2, <2>3 DEF CollectUnwritten, Fault
<1>26. CASE UnstageFails
  BY <1>26 DEF UnstageFails, Fault
<1>27. CASE FailAssembly
  BY <1>0, <1>27 DEF FailAssembly, Fault
<1>28. CASE Return
  BY <1>0, <1>28 DEF Return
<1>29. CASE Interrupt
  BY <1>29 DEF Interrupt, Fault
<1>30. CASE Crash
  BY <1>0, <1>30 DEF Crash, Fault
<1>31. CASE \E b \in Bases, o \in Objects : RemoveRemote(b, o)
  BY <1>31 DEF RemoveRemote
<1>32. QED
  BY <1>1,<1>2,<1>3,<1>4,<1>5,<1>6,<1>7,<1>8,<1>9,<1>10,<1>11,<1>12,<1>13,<1>14,<1>15,<1>16,<1>17,<1>18,<1>19,<1>20,<1>21,<1>22,<1>23,<1>24,<1>25,<1>26,<1>27,<1>28,<1>29,<1>30,<1>31 DEF Next, LoadStep, AssemblyStep, QueueStep, WorkerStep, CollectorStep

\* Whatever is killed, fails or is repeated, every variable keeps its type.
THEOREM TypeCorrect == Spec => []TypeOK
<1>1. Init => TypeOK
  BY TypeInit
<1>2. TypeOK /\ [Next]_vars => TypeOK'
  BY TypeStep
<1>3. QED
  BY <1>1, <1>2, PTL DEF Spec
\* Where the invocation is agrees with what its journal says: nothing is left
\* of an earlier invocation when one starts, the collector only unstages what
\* it has journaled, and the journal of a running publication is its own.
Control ==
    /\ pc = "idle" => pubs = {} /\ outcomes = {} /\ \A w \in Workers : worker[w] = Free
    /\ pc # "idle" => base \in Bases
    /\ pc \in {"idle", "load", "assembling"} => built \subseteq staged
    /\ pc = "assembling" => journal.status = "assembling"
    /\ pc = "prepare" => journal.assembly /\ journal.status \in {"assembled", "publishing"}
    /\ pc = "publishing" => /\ journal.assembly
                            /\ journal.status = "publishing"
                            /\ journal.base = base
                            /\ journal.objects \subseteq pubs
    /\ pc = "done" => journal.status = "published" /\ journal.base = base
    /\ collecting # NoObject => pc = "publishing" /\ collecting \in journal.objects
    /\ journal.base = NoBase => journal.objects = {}

\* The invocation has learned, somewhere between a worker and its collector,
\* that the store of its publisher holds o.
Seen(o) ==
    \/ o \in pubs
    \/ [object |-> o, ok |-> TRUE] \in outcomes
    \/ \E w \in Workers : worker[w] = [at |-> "ok", object |-> o]

\* What the invocation has learned is still true, but for later withdrawals.
Stored ==
    /\ pc # "idle" => \A o \in Objects : Seen(o) => o \in withdrawn \cup remote[base]
    /\ pc = "done" => Objects \subseteq withdrawn \cup remote[base]
    /\ removals = 0 => withdrawn = {}

\* No step breaks the agreement of the invocation and its journal.
LEMMA ControlStep == TypeOK /\ Control /\ [Next]_vars => Control'
<1> SUFFICES ASSUME TypeOK, Control, [Next]_vars PROVE Control'
  OBVIOUS
<1> USE DEF TypeOK, Journal, Statuses, Control, durable, locals, budgets
<1>1. CASE UNCHANGED vars
  BY <1>1 DEF vars
<1>2. CASE \E b \in Bases : Start(b)
  BY <1>2 DEF Start
<1>3. CASE ReusePublished
  BY <1>3 DEF ReusePublished, PublishedVerifies
<1>4. CASE RestartLegacy
  BY <1>4 DEF RestartLegacy, NoJournal
<1>5. CASE ResumePublishing
  BY <1>5 DEF ResumePublishing
<1>6. CASE ReuseAssembly
  BY <1>6 DEF ReuseAssembly
<1>7. CASE BeginAssembly
  BY <1>7 DEF BeginAssembly
<1>8. CASE Prepare
  BY <1>8 DEF Prepare, JournaledHere
<1>9. CASE Refuse
  BY <1>9 DEF Refuse, ForgetLocals
<1>10. CASE \E o \in Objects : OpenShard(o)
  BY <1>10 DEF OpenShard
<1>11. CASE \E o \in Objects : StageShard(o)
  BY <1>11 DEF StageShard
<1>12. CASE FinishAssembly
  BY <1>12 DEF FinishAssembly
<1>13. CASE SkipPublished
  BY <1>13 DEF SkipPublished
<1>14. CASE Enqueue
  BY <1>14 DEF Enqueue
<1>15. CASE StopQueueing
  BY <1>15 DEF StopQueueing
<1>16. CASE Complete
  BY <1>16 DEF Complete, Drained
<1>17. CASE ReturnError
  BY <1>17 DEF ReturnError, ForgetLocals
<1>18. CASE \E w \in Workers : Take(w)
  BY <1>18 DEF Take
<1>19. CASE \E w \in Workers : PublishObject(w)
  BY <1>19 DEF PublishObject
<1>20. CASE \E w \in Workers : PublishFails(w)
  BY <1>20 DEF PublishFails
<1>21. CASE \E w \in Workers : SendOutcome(w)
  BY <1>21 DEF SendOutcome
<1>22. CASE \E out \in outcomes : CollectError(out)
  BY <1>22 DEF CollectError
<1>23. CASE \E out \in outcomes : CollectPublished(out)
  BY <1>23 DEF CollectPublished
<1>24. CASE Unstage
  BY <1>24 DEF Unstage
<1>25. CASE \E out \in outcomes : CollectUnwritten(out)
  BY <1>25 DEF CollectUnwritten
<1>26. CASE UnstageFails
  BY <1>26 DEF UnstageFails
<1>27. CASE FailAssembly
  BY <1>27 DEF FailAssembly, ForgetLocals
<1>28. CASE Return
  BY <1>28 DEF Return, ForgetLocals
<1>29. CASE Interrupt
  BY <1>29 DEF Interrupt
<1>30. CASE Crash
  BY <1>30 DEF Crash, ForgetLocals
<1>31. CASE \E b \in Bases, o \in Objects : RemoveRemote(b, o)
  BY <1>31 DEF RemoveRemote
<1>32. QED
  BY <1>1, <1>2, <1>3, <1>4, <1>5, <1>6, <1>7, <1>8, <1>9, <1>10, <1>11, <1>12, <1>13, <1>14, <1>15, <1>16, <1>17, <1>18, <1>19, <1>20, <1>21, <1>22, <1>23, <1>24, <1>25, <1>26, <1>27, <1>28, <1>29, <1>30, <1>31
  DEF Next, LoadStep, AssemblyStep, QueueStep, WorkerStep, CollectorStep

\* No step makes what the invocation has learned false.
LEMMA StoredStep == TypeOK /\ Control /\ Stored /\ [Next]_vars => Stored'
<1> SUFFICES ASSUME TypeOK, Control, Stored, [Next]_vars PROVE Stored'
  OBVIOUS
<1> USE DEF TypeOK, Control, Stored, Seen, durable, locals, budgets
<1>1. CASE UNCHANGED vars
  BY <1>1 DEF vars
<1>2. CASE \E b \in Bases : Start(b)
  <2>1. PICK b \in Bases : Start(b)
    BY <1>2
  <2>2. \A o \in Objects : ~Seen(o)'
    BY <2>1 DEF Start, Free
  <2>3. QED
    BY <2>1, <2>2 DEF Start
<1>3. CASE ReusePublished
  BY <1>3 DEF ReusePublished, PublishedVerifies
<1>4. CASE RestartLegacy
  BY <1>4 DEF RestartLegacy, NoJournal
<1>5. CASE ResumePublishing
  BY <1>5 DEF ResumePublishing
<1>6. CASE ReuseAssembly
  BY <1>6 DEF ReuseAssembly
<1>7. CASE BeginAssembly
  BY <1>7 DEF BeginAssembly
<1>8. CASE Prepare
  BY <1>8 DEF Prepare, JournaledHere
<1>9. CASE Refuse
  BY <1>9 DEF Refuse, ForgetLocals
<1>10. CASE \E o \in Objects : OpenShard(o)
  BY <1>10 DEF OpenShard
<1>11. CASE \E o \in Objects : StageShard(o)
  BY <1>11 DEF StageShard
<1>12. CASE FinishAssembly
  BY <1>12 DEF FinishAssembly
<1>13. CASE SkipPublished
  BY <1>13 DEF SkipPublished
<1>14. CASE Enqueue
  BY <1>14 DEF Enqueue
<1>15. CASE StopQueueing
  BY <1>15 DEF StopQueueing
<1>16. CASE Complete
  BY <1>16 DEF Complete, Drained
<1>17. CASE ReturnError
  BY <1>17 DEF ReturnError, ForgetLocals
<1>18. CASE \E w \in Workers : Take(w)
  BY <1>18 DEF Take
<1>19. CASE \E w \in Workers : PublishObject(w)
  BY <1>19 DEF PublishObject
<1>20. CASE \E w \in Workers : PublishFails(w)
  BY <1>20 DEF PublishFails, Fault
<1>21. CASE \E w \in Workers : SendOutcome(w)
  <2>1. PICK w \in Workers : SendOutcome(w)
    BY <1>21
  <2>2. ASSUME NEW o \in Objects, Seen(o)' PROVE Seen(o)
    <3>1. CASE o \in pubs' \/ [object |-> o, ok |-> TRUE] \in outcomes
      BY <2>1, <3>1 DEF SendOutcome
    <3>2. CASE [object |-> o, ok |-> TRUE] \in outcomes' \ outcomes
      <4>1. [object |-> o, ok |-> TRUE]
                = [object |-> worker[w].object, ok |-> worker[w].at = "ok"]
        BY <2>1, <3>2 DEF SendOutcome
      <4>2. worker[w].object = o /\ worker[w].at = "ok"
        BY <4>1, Zenon
      <4>3. worker[w] = [at |-> "ok", object |-> o]
        BY <4>2 DEF WorkerState, Free
      <4>4. QED
        BY <4>3
    <3>3. CASE \E v \in Workers : worker'[v] = [at |-> "ok", object |-> o]
      BY <2>1, <3>3 DEF SendOutcome, Free, WorkerState
    <3>4. QED
      BY <2>2, <3>1, <3>2, <3>3
  <2>3. QED
    BY <2>1, <2>2 DEF SendOutcome
<1>22. CASE \E out \in outcomes : CollectError(out)
  BY <1>22 DEF CollectError
<1>23. CASE \E out \in outcomes : CollectPublished(out)
  BY <1>23 DEF CollectPublished
<1>24. CASE Unstage
  BY <1>24 DEF Unstage
<1>25. CASE \E out \in outcomes : CollectUnwritten(out)
  BY <1>25 DEF CollectUnwritten, Fault
<1>26. CASE UnstageFails
  BY <1>26 DEF UnstageFails, Fault
<1>27. CASE FailAssembly
  BY <1>27 DEF FailAssembly, ForgetLocals, Fault
<1>28. CASE Return
  BY <1>28 DEF Return, ForgetLocals
<1>29. CASE Interrupt
  BY <1>29 DEF Interrupt, Fault
<1>30. CASE Crash
  BY <1>30 DEF Crash, ForgetLocals, Fault
<1>31. CASE \E b \in Bases, o \in Objects : RemoveRemote(b, o)
  BY <1>31 DEF RemoveRemote
<1>32. QED
  BY <1>1, <1>2, <1>3, <1>4, <1>5, <1>6, <1>7, <1>8, <1>9, <1>10, <1>11, <1>12, <1>13, <1>14, <1>15, <1>16, <1>17, <1>18, <1>19, <1>20, <1>21, <1>22, <1>23, <1>24, <1>25, <1>26, <1>27, <1>28, <1>29, <1>30, <1>31
  DEF Next, LoadStep, AssemblyStep, QueueStep, WorkerStep, CollectorStep

\* The step leaves the journal, the staged files and the stores alone.
Kept == UNCHANGED <<journal, staged, remote, removals>>

\* The only steps that touch the journal, the staged files or a store.
LEMMA DurableSteps ==
    [Next]_vars =>
        \/ Kept
        \/ RestartLegacy \/ BeginAssembly \/ FinishAssembly \/ Prepare
        \/ \E o \in Objects : StageShard(o)
        \/ \E w \in Workers : PublishObject(w)
        \/ \E out \in outcomes : CollectPublished(out)
        \/ Unstage \/ Complete
        \/ \E b \in Bases, o \in Objects : RemoveRemote(b, o)
<1> SUFFICES ASSUME [Next]_vars
             PROVE  \/ Kept
                    \/ RestartLegacy \/ BeginAssembly \/ FinishAssembly \/ Prepare
                    \/ \E o \in Objects : StageShard(o)
                    \/ \E w \in Workers : PublishObject(w)
                    \/ \E out \in outcomes : CollectPublished(out)
                    \/ Unstage \/ Complete
                    \/ \E b \in Bases, o \in Objects : RemoveRemote(b, o)
  OBVIOUS
<1> USE DEF Kept, durable, budgets, Fault
<1>1. CASE UNCHANGED vars
  BY <1>1 DEF vars
<1>2. CASE \E b \in Bases : Start(b)
  BY <1>2 DEF Start
<1>3. CASE ReusePublished \/ ResumePublishing \/ ReuseAssembly \/ Refuse
  BY <1>3 DEF ReusePublished, ResumePublishing, ReuseAssembly, Refuse
<1>4. CASE \E o \in Objects : OpenShard(o)
  BY <1>4 DEF OpenShard
<1>5. CASE SkipPublished \/ Enqueue \/ StopQueueing \/ ReturnError
  BY <1>5 DEF SkipPublished, Enqueue, StopQueueing, ReturnError
<1>6. CASE \E w \in Workers : Take(w) \/ PublishFails(w) \/ SendOutcome(w)
  BY <1>6 DEF Take, PublishFails, SendOutcome
<1>7. CASE \E out \in outcomes : CollectError(out) \/ CollectUnwritten(out)
  BY <1>7 DEF CollectError, CollectUnwritten
<1>8. CASE UnstageFails \/ FailAssembly \/ Return \/ Interrupt \/ Crash
  BY <1>8 DEF UnstageFails, FailAssembly, Return, Interrupt, Crash
<1>9. QED
  BY <1>1, <1>2, <1>3, <1>4, <1>5, <1>6, <1>7, <1>8
  DEF Next, LoadStep, AssemblyStep, QueueStep, WorkerStep, CollectorStep

\* The inductive invariant: types, the agreement of the invocation with its
\* journal, and what it has learned of the store.
IInv == TypeOK /\ Control /\ Stored

\* Whatever an invocation may find when it starts, the invariant holds.
LEMMA IInvInit == Init => IInv
<1> SUFFICES ASSUME Init PROVE IInv
  OBVIOUS
<1>1. TypeOK
  BY TypeInit
<1>2. Control
  BY DEF Control, Init, NoJournal, LegacyJournal
<1>3. Stored
  BY DEF Stored, Init
<1>4. QED
  BY <1>1, <1>2, <1>3 DEF IInv

\* Every step of the journal, the workers and the operator keeps the invariant.
LEMMA IInvStep == IInv /\ [Next]_vars => IInv'
BY TypeStep, ControlStep, StoredStep DEF IInv

\* So it holds in every reachable state; the theorems below start from it.
LEMMA IInvHolds == Spec => []IInv
BY IInvInit, IInvStep, PTL DEF Spec

\* A successful ingestion vouches for its store as it is when it returns: no
\* object it lacks was lost before this very invocation started.
THEOREM SuccessIsVerified == Spec => []SuccessVerified
<1>1. IInv => SuccessVerified
  BY DEF IInv, Control, Stored, SuccessVerified
<1>2. QED
  BY <1>1, IInvHolds, PTL

\* The journal never claims an object that its store was never seen to hold.
THEOREM JournalIsTruthful == Spec => []JournalTruthful
<1>1. Init => JournalTruthful
  BY DEF Init, JournalTruthful, NoJournal, LegacyJournal
<1>2. IInv /\ IInv' /\ JournalTruthful /\ [Next]_vars => JournalTruthful'
  <2> SUFFICES ASSUME IInv, IInv', JournalTruthful, [Next]_vars PROVE JournalTruthful'
    OBVIOUS
  <2> USE DEF JournalTruthful, IInv, TypeOK, Journal, durable, locals, budgets
  <2>1. CASE Kept
    BY <2>1 DEF Kept
  <2>2. CASE RestartLegacy
    BY <2>2 DEF RestartLegacy, NoJournal
  <2>3. CASE BeginAssembly
    BY <2>3 DEF BeginAssembly
  <2>4. CASE FinishAssembly
    BY <2>4 DEF FinishAssembly
  <2>5. CASE Prepare
    BY <2>5 DEF Prepare, JournaledHere
  <2>6. CASE \E o \in Objects : StageShard(o)
    BY <2>6 DEF StageShard
  <2>7. CASE \E w \in Workers : PublishObject(w)
    BY <2>7 DEF PublishObject
  <2>8. CASE \E out \in outcomes : CollectPublished(out)
    BY <2>8 DEF CollectPublished, Control, Stored, Seen
  <2>9. CASE Unstage
    BY <2>9 DEF Unstage
  <2>10. CASE Complete
    BY <2>10 DEF Complete, Drained, Control, Stored, Seen
  <2>11. CASE \E b \in Bases, o \in Objects : RemoveRemote(b, o)
    BY <2>11 DEF RemoveRemote
  <2>12. QED
    BY <2>1, <2>2, <2>3, <2>4, <2>5, <2>6, <2>7, <2>8, <2>9, <2>10, <2>11, DurableSteps
<1>3. QED
  BY <1>1, <1>2, IInvHolds, PTL DEF Spec

\* The only copy of an assembled object is never deleted, whatever is killed,
\* whichever write fails and however often the publisher is changed.
THEOREM NoObjectIsLost == Spec => []NoBytesLost
<1>1. Init => NoBytesLost
  BY DEF Init, NoBytesLost, NoJournal, LegacyJournal
<1>2. IInv /\ NoBytesLost /\ [Next]_vars => NoBytesLost'
  <2> SUFFICES ASSUME IInv, NoBytesLost, [Next]_vars PROVE NoBytesLost'
    OBVIOUS
  <2> USE DEF NoBytesLost, IInv, TypeOK, Journal, durable, locals, budgets
  <2>1. CASE Kept
    BY <2>1 DEF Kept
  <2>2. CASE RestartLegacy
    BY <2>2 DEF RestartLegacy, NoJournal
  <2>3. CASE BeginAssembly
    BY <2>3 DEF BeginAssembly
  <2>4. CASE FinishAssembly
    BY <2>4 DEF FinishAssembly, Control
  <2>5. CASE Prepare
    BY <2>5 DEF Prepare, JournaledHere, Control
  <2>6. CASE \E o \in Objects : StageShard(o)
    BY <2>6 DEF StageShard
  <2>7. CASE \E w \in Workers : PublishObject(w)
    BY <2>7 DEF PublishObject
  <2>8. CASE \E out \in outcomes : CollectPublished(out)
    BY <2>8 DEF CollectPublished
  <2>9. CASE Unstage
    BY <2>9 DEF Unstage, Control, Stored, Seen
  <2>10. CASE Complete
    BY <2>10 DEF Complete, Drained, Control
  <2>11. CASE \E b \in Bases, o \in Objects : RemoveRemote(b, o)
    BY <2>11 DEF RemoveRemote
  <2>12. QED
    BY <2>1, <2>2, <2>3, <2>4, <2>5, <2>6, <2>7, <2>8, <2>9, <2>10, <2>11, DurableSteps
<1>3. QED
  BY <1>1, <1>2, IInvHolds, PTL DEF Spec

\* With a single publisher no interruption leaves a staging directory that
\* lacks an object its journal does not have (the premise is needed: the
\* baseswitch run refutes the conclusion for two publishers).
THEOREM InterruptionIsRecoverable ==
    ASSUME \A a, b \in Bases : a = b
    PROVE  Spec => []UnstagedIsJournaled
<1>1. Init => UnstagedIsJournaled
  BY DEF Init, UnstagedIsJournaled, NoJournal, LegacyJournal
<1>2. IInv /\ UnstagedIsJournaled /\ [Next]_vars => UnstagedIsJournaled'
  <2> SUFFICES ASSUME IInv, UnstagedIsJournaled, [Next]_vars PROVE UnstagedIsJournaled'
    OBVIOUS
  <2> USE DEF UnstagedIsJournaled, IInv, TypeOK, Journal, durable, locals, budgets
  <2>1. CASE Kept
    BY <2>1 DEF Kept
  <2>2. CASE RestartLegacy
    BY <2>2 DEF RestartLegacy, NoJournal
  <2>3. CASE BeginAssembly
    BY <2>3 DEF BeginAssembly
  <2>4. CASE FinishAssembly
    BY <2>4 DEF FinishAssembly, Control
  <2>5. CASE Prepare
    <3>1. JournaledHere = journal.objects
      BY <2>5 DEF Prepare, JournaledHere, Control
    <3>2. QED
      BY <2>5, <3>1 DEF Prepare, Control
  <2>6. CASE \E o \in Objects : StageShard(o)
    BY <2>6 DEF StageShard
  <2>7. CASE \E w \in Workers : PublishObject(w)
    BY <2>7 DEF PublishObject
  <2>8. CASE \E out \in outcomes : CollectPublished(out)
    BY <2>8 DEF CollectPublished, Control
  <2>9. CASE Unstage
    BY <2>9 DEF Unstage, Control
  <2>10. CASE Complete
    BY <2>10 DEF Complete
  <2>11. CASE \E b \in Bases, o \in Objects : RemoveRemote(b, o)
    BY <2>11 DEF RemoveRemote
  <2>12. QED
    BY <2>1, <2>2, <2>3, <2>4, <2>5, <2>6, <2>7, <2>8, <2>9, <2>10, <2>11, DurableSteps
<1>3. QED
  BY <1>1, <1>2, IInvHolds, PTL DEF Spec

\* Unless the operator removes objects, the journal, the workers and the
\* restarts implement the publication contract: stores only fill, and the one
\* announcement is made for a store that holds the whole object set.
THEOREM ContractIsImplemented ==
    ASSUME MaxRemovals = 0
    PROVE  Spec => ImplementsContract
<1> DEFINE announced == IF journal.status = "published" THEN journal.base ELSE NoBase
<1>1. Init => Contract!Init
  <2> SUFFICES ASSUME Init PROVE remote \in [Bases -> SUBSET (1..NumObjects)] /\ announced = NoBase
    BY DEF Contract!Init, Contract!Plan
  <2>1. remote \in [Bases -> SUBSET Objects]
    BY TypeInit DEF TypeOK
  <2>2. journal.status # "published"
    BY DEF Init, NoJournal, LegacyJournal
  <2>3. QED
    BY <2>1, <2>2
<1>2. IInv /\ [Next]_vars => [Contract!Next]_(Contract!cvars)
  <2> SUFFICES ASSUME IInv, [Next]_vars
               PROVE  \/ \E b \in Bases, o \in Objects : Contract!Store(b, o)
                      \/ \E b \in Bases : Contract!Announce(b)
                      \/ UNCHANGED <<remote, announced>>
    BY DEF Contract!Next, Contract!cvars, Contract!Plan
  <2> USE DEF IInv, TypeOK, Journal, durable, locals, budgets
  <2>1. CASE Kept
    BY <2>1 DEF Kept
  <2>2. CASE RestartLegacy
    BY <2>2 DEF RestartLegacy, NoJournal
  <2>3. CASE BeginAssembly
    BY <2>3 DEF BeginAssembly
  <2>4. CASE FinishAssembly
    BY <2>4 DEF FinishAssembly, Control
  <2>5. CASE Prepare
    BY <2>5 DEF Prepare, Control
  <2>6. CASE \E o \in Objects : StageShard(o)
    BY <2>6 DEF StageShard
  <2>7. CASE \E w \in Workers : PublishObject(w)
    <3>1. PICK w \in Workers : PublishObject(w)
      BY <2>7
    <3>2. worker[w].object \in Objects /\ base \in Bases
      BY <3>1 DEF PublishObject, WorkerState, Free, Control
    <3>3. Contract!Store(base, worker[w].object)
      BY <3>1 DEF PublishObject, Contract!Store
    <3>4. QED
      BY <3>2, <3>3
  <2>8. CASE \E out \in outcomes : CollectPublished(out)
    BY <2>8 DEF CollectPublished, Control
  <2>9. CASE Unstage
    BY <2>9 DEF Unstage
  <2>10. CASE Complete
    <3>1. removals = 0 /\ pc = "publishing" /\ base \in Bases
      BY <2>10 DEF Complete, Drained, Control
    <3>2. remote[base] = 1..NumObjects
      BY <2>10, <3>1 DEF Complete, Stored, Seen
    <3>3. announced = NoBase /\ announced' = base /\ remote' = remote
      BY <2>10, <3>1 DEF Complete, Control
    <3>4. QED
      BY <3>1, <3>2, <3>3 DEF Contract!Announce, Contract!Plan
  <2>11. CASE \E b \in Bases, o \in Objects : RemoveRemote(b, o)
    BY <2>11 DEF RemoveRemote
  <2>12. QED
    BY <2>1, <2>2, <2>3, <2>4, <2>5, <2>6, <2>7, <2>8, <2>9, <2>10, <2>11, DurableSteps
<1>3. QED
  BY <1>1, <1>2, IInvHolds, PTL DEF Spec, ImplementsContract, Contract!Spec
==============================================================================
