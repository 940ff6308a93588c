--------------------------- MODULE StagePreflight ---------------------------
(* Held-out selection of a training stage (training/stream.go) and the two  *)
(* places it is reused from (model/build.go): the selection cache under the *)
(* model root, and the PREFLIGHT.json of an earlier run. One model is       *)
(* trained by attempts, one after another; an attempt may be cancelled or   *)
(* killed at any step, and the next may ask for another corpus revision or  *)
(* for other parameters.                                                    *)
EXTENDS Integers, Sequences, FiniteSets, FiniteSetsExt, SequencesExt

CONSTANTS Workers, Policies, Fraction, Caps, Budgets, Seeds, Requested,
          MaxAttempts, MaxFaults

(* Five records in three shards of two corpora; ids in the order of their   *)
(* selection ids. A record of size 2 can be split, one of size 1 cannot.    *)
Layout == <<1, 1, 2, 3, 3>>
CorpusOf(k) == IF Layout[k] = 2 THEN "b" ELSE "a"
Records == DOMAIN Layout
Shards == 1..3
Corpora == {"a", "b"}
Filters == {{3}, {5}} \cup {Records \ {k} : k \in Records}
size == [k \in Records |-> IF k = 3 THEN 2 ELSE 1]
None == [chosen |-> {0}]

VARIABLES
  policy,      \* selection rule, its two limits and the seed
  filter,      \* the records the filters of the two revisions admit
  attempt, pc, stage, cancelled,
  next, worker, results, heaps, scanned,   \* the scan pool
  part,        \* the partition in hand
  steps, verified,
  selections,  \* disk: the selection cache
  runs,        \* disk: the runs with their preflights, oldest first
  faults

disk == <<selections, runs>>
rigid == <<policy, filter>>
pool == <<next, worker, results, heaps, scanned>>
vars == <<rigid, attempt, pc, stage, cancelled, pool, part, steps, verified, disk, faults>>

Stages == [bom : {1, 2}, mode : {"epochs", "bounded", "tokens"}]
Idle == 0
Gone == -1

Init ==
  /\ policy \in [rule : Policies, records : Caps, bytes : Budgets, seed : Seeds]
  /\ filter \in {<<f, Records>> : f \in Filters}
  /\ attempt = 1 /\ pc = "begin" /\ stage \in Stages /\ cancelled = FALSE
  /\ next = 1 /\ worker = [w \in Workers |-> Idle] /\ results = <<>>
  /\ heaps = [c \in Corpora |-> {}] /\ scanned = {}
  /\ part = None /\ steps = 0 /\ verified = FALSE
  /\ selections = <<None, None>> /\ runs = <<>> /\ faults = 0

Allowed == filter[stage.bom]
Score(k) == (policy.seed * k) % 7    \* a permutation of the five records
Indexed == policy.rule \in {"indexed", "stratified-indexed"}
Filtered == Allowed # Records
Bytes(S) == MapThenSumSet(LAMBDA k : size[k], S)

(* What selects the held-out set is in this identity; the parameters of the *)
(* optimizer are not.                                                       *)
SelectionIdentity == stage.bom
PreflightIdentity == stage

Fault == faults < MaxFaults /\ faults' = faults + 1
Fails == (cancelled /\ UNCHANGED faults) \/ Fault
Goto(place) == pc' = place
FailTo == Goto("failed")

------------------------------------------------------------------------------
(* desiredEvaluationRecords: the ceiling of the fraction, at least one, and *)
(* never all of the records.                                                *)
Desired(records) ==
  IF records < 2 THEN 0
  ELSE Max({1, Min({(records + Fraction - 1) \div Fraction, policy.records, records - 1})})

(* The walk over candidates in a fixed order that takes what still fits.    *)
Take(order, desired) ==
  FoldLeft(LAMBDA acc, k :
             IF Cardinality(acc) < desired /\ size[k] <= policy.bytes - Bytes(acc)
               THEN acc \cup {k} ELSE acc,
           {}, order)

ByScore(S) == SetToSortSeq(S, LAMBDA j, k : Score(j) < Score(k))
(* One round over the corpora takes the next candidate of each.             *)
Rounds(lists) ==
  LET cells == {<<round, c>> \in Records \X Corpora : round <= Len(lists[c])}
      inRounds == SetToSortSeq(cells, LAMBDA x, y :
                    x[1] < y[1] \/ (x[1] = y[1] /\ x[2] = "a" /\ y[2] = "b"))
  IN  [i \in DOMAIN inRounds |-> lists[inRounds[i][2]][inRounds[i][1]]]

(* evaluation heaps: a full heap swaps its highest score for a lower one.   *)
PushFirst(heap, k) == IF Cardinality(heap) < policy.records THEN heap \cup {k} ELSE heap
Push(heap, k) ==
  IF Cardinality(heap) < policy.records THEN heap \cup {k}
  ELSE LET worst == CHOOSE j \in heap : \A i \in heap : Score(i) <= Score(j)
       IN IF Score(k) < Score(worst) THEN (heap \ {worst}) \cup {k} ELSE heap
PushAll(heap, order) == FoldLeft(Push, heap, order)

(* indexedEvaluationCandidates: a walk over the rows of a group whose step  *)
(* is made coprime to their number.                                         *)
CoprimeTo(n, d) == \A q \in 2..n : ~(n % q = 0 /\ d % q = 0)
Step(drawn, n) ==
  IF \E d \in drawn..n - 1 : CoprimeTo(n, d)
    THEN Min({d \in drawn..n - 1 : CoprimeTo(n, d)}) ELSE 1
Walk(S) ==
  LET rows == SetToSortSeq(S, <)
      n == Len(rows)
      step == IF n > 1 THEN Step((policy.seed % (n - 1)) + 1, n) ELSE 1
  IN  [i \in 1..n |-> rows[((policy.seed + (i - 1) * step) % n) + 1]]

------------------------------------------------------------------------------
Eligible(c, held) == {k \in Allowed \ held : CorpusOf(k) = c}
EligibleWithout(held) == [c \in Corpora |-> Cardinality(Eligible(c, held))]
NoCounts == [c \in Corpora |-> -1]    \* the counts are nil in the code
Partition(chosen, split, eligible) ==
  [chosen |-> chosen, split |-> split, eligible |-> eligible]

(* trainingRecord: what of a record reaches the trainer.                    *)
TrainingBytes(p, k) ==
  IF k \in p.split THEN 1 ELSE IF k \in p.chosen THEN 0 ELSE size[k]
Training(p) == {k \in Allowed : TrainingBytes(p, k) > 0}
Capacity(p) == MapThenSumSet(LAMBDA k : TrainingBytes(p, k), Allowed)

(* StagePreflight.Validate, which every stored partition must pass.         *)
Valid(p) ==
  /\ p.split \subseteq p.chosen
  /\ policy.rule = "tail" => Cardinality(p.split) = 1
  /\ p.eligible # NoCounts => \A c \in Corpora : p.eligible[c] >= 0

(* An earlier run with this very stage, the latest first; and what a run or *)
(* a cache entry made of another command must still agree with.             *)
Reusable == {i \in DOMAIN runs : runs[i].identity = PreflightIdentity}
ParametersAgree(r) ==
  /\ Valid(r.part)
  /\ stage.mode = "bounded" => r.steps = Requested /\ r.verified
  /\ stage.mode = "tokens" => r.steps = Requested

Reuse ==
  /\ pc = "begin" /\ Reusable # {}
  /\ LET r == runs[Max(Reusable)]
     IN \/ (Fails \/ (~ParametersAgree(r) /\ UNCHANGED faults))
           /\ FailTo /\ UNCHANGED <<part, steps, verified>>
        \/ /\ ParametersAgree(r)
           /\ (cancelled => r.part.chosen = {})
           /\ part' = r.part /\ steps' = r.steps /\ verified' = r.verified
           /\ Goto("resolve") /\ UNCHANGED faults
  /\ UNCHANGED <<rigid, attempt, stage, cancelled, pool, disk>>

LoadSelection ==
  /\ pc = "begin" /\ Reusable = {}
  /\ LET cached == selections[SelectionIdentity]
     IN \/ /\ cached # None
           /\ \/ (Fails \/ (~Valid(cached) /\ UNCHANGED faults)) /\ FailTo /\ UNCHANGED part
              \/ /\ Valid(cached) /\ (cancelled => cached.chosen = {})
                 /\ part' = cached /\ Goto("capacity") /\ UNCHANGED faults
        \/ /\ cached = None
           /\ Goto("select") /\ UNCHANGED <<part, faults>>
  /\ UNCHANGED <<rigid, attempt, stage, cancelled, pool, steps, verified, disk>>

(* What needs no scan: nothing to hold out, or an indexed sample.           *)
Unscanned == (policy.rule = "none" /\ ~Filtered) \/ Indexed
ScanBegins ==
  /\ pc = "select" /\ ~Unscanned
  /\ Goto("scan")
  /\ UNCHANGED <<rigid, attempt, stage, cancelled, pool, part, steps, verified, disk, faults>>

IndexedSample ==
  LET whole == [c \in Corpora |-> Walk({k \in Records : CorpusOf(k) = c})]
      order == IF policy.rule = "indexed" THEN Walk(Records) ELSE Rounds(whole)
  IN  Take(SelectSeq(order, LAMBDA k : k \in Allowed), Desired(Cardinality(Records)))
SelectUnscanned ==
  /\ pc = "select" /\ Unscanned
  /\ \/ Indexed /\ (Fails \/ (IndexedSample = {} /\ UNCHANGED faults)) /\ FailTo /\ UNCHANGED part
     \/ Indexed /\ IndexedSample # {} /\ ~cancelled /\ UNCHANGED faults
        /\ part' = Partition(IndexedSample, {}, NoCounts) /\ Goto("store")
     \/ ~Indexed /\ UNCHANGED faults
        /\ part' = Partition({}, {}, EligibleWithout({})) /\ Goto("store")
  /\ UNCHANGED <<rigid, attempt, stage, cancelled, pool, steps, verified, disk>>

------------------------------------------------------------------------------
(* The scan pool: a feeder, workers that each report a shard's lowest       *)
(* candidates, and a collector that merges them as they arrive.             *)
FeedScan(w) ==
  /\ pc = "scan" /\ worker[w] = Idle /\ next \in Shards
  /\ worker' = [worker EXCEPT ![w] = next] /\ next' = next + 1
  /\ UNCHANGED <<rigid, attempt, pc, stage, cancelled, results, heaps, scanned, part,
                 steps, verified, disk, faults>>

ScanInput(w) ==
  /\ pc = "scan" /\ worker[w] \in Shards /\ Len(results) < Cardinality(Workers)
  /\ \/ /\ Fails
        /\ results' = Append(results, [shard |-> worker[w], ok |-> FALSE])
        /\ worker' = [worker EXCEPT ![w] = Gone]
     \/ /\ results' = Append(results, [shard |-> worker[w], ok |-> TRUE])
        /\ worker' = [worker EXCEPT ![w] = Idle] /\ UNCHANGED faults
  /\ UNCHANGED <<rigid, attempt, pc, stage, cancelled, next, heaps, scanned, part,
                 steps, verified, disk>>

(* A worker leaves when the feeder has closed the jobs, which it also does  *)
(* when the context is cancelled; a worker may then drop its last result.   *)
ScanWorkerLeaves(w) ==
  /\ pc = "scan" /\ worker[w] # Gone
  /\ (worker[w] = Idle /\ next \notin Shards) \/ cancelled
  /\ worker' = [worker EXCEPT ![w] = Gone]
  /\ UNCHANGED <<rigid, attempt, pc, stage, cancelled, next, results, heaps, scanned, part,
                 steps, verified, disk, faults>>

Group(s) == IF policy.rule = "stratified" /\ s = 2 THEN "b" ELSE "a"
ScanCandidates(s) ==
  IF policy.rule = "none" THEN <<>>
  ELSE ByScore(PushAll({}, SetToSortSeq({k \in Allowed : Layout[k] = s}, <)))
CollectScan ==
  /\ pc = "scan" /\ results # <<>>
  /\ LET r == Head(results)
     IN IF r.ok
          THEN /\ scanned' = scanned \cup {r.shard}
               /\ heaps' = [heaps EXCEPT ![Group(r.shard)] = PushAll(@, ScanCandidates(r.shard))]
               /\ UNCHANGED pc
          ELSE FailTo /\ UNCHANGED <<heaps, scanned>>
  /\ results' = Tail(results)
  /\ UNCHANGED <<rigid, attempt, stage, cancelled, next, worker, part, steps, verified,
                 disk, faults>>

(* Past the scan: the counts are of the shards that were collected.         *)
Counted == {k \in Allowed : Layout[k] \in scanned}
CandidateOrder ==
  IF policy.rule = "stratified" THEN Rounds([c \in Corpora |-> ByScore(heaps[c])])
                                ELSE ByScore(heaps["a"])
Chosen ==
  CASE policy.rule = "none" -> {}
    [] policy.rule = "tail" -> heaps["a"]
    [] OTHER -> Take(CandidateOrder, Desired(Cardinality(Counted)))
Refused ==
  \/ Counted = {}
  \/ policy.rule = "tail" /\ (Cardinality(Counted) # 1 \/ \E k \in Chosen : size[k] = 1)
  \/ policy.rule \in {"lowest", "stratified"} /\ Desired(Cardinality(Counted)) > 0 /\ Chosen = {}
EligibleLeft(held) ==
  [c \in Corpora |-> Cardinality({k \in Counted \ held : CorpusOf(k) = c})]
SelectScanned ==
  /\ pc = "scan" /\ results = <<>> /\ \A w \in Workers : worker[w] = Gone
  /\ \/ (Fails \/ (Refused /\ UNCHANGED faults)) /\ FailTo /\ UNCHANGED part
     \/ /\ ~cancelled /\ ~Refused
        /\ part' = IF policy.rule = "tail" THEN Partition(Chosen, Chosen, EligibleLeft({}))
                                           ELSE Partition(Chosen, {}, EligibleLeft(Chosen))
        /\ Goto("store") /\ UNCHANGED faults
  /\ UNCHANGED <<rigid, attempt, stage, cancelled, pool, steps, verified, disk>>

StoreSelection ==
  /\ pc = "store"
  /\ \/ Fault /\ FailTo /\ UNCHANGED selections
     \/ selections' = [selections EXCEPT ![SelectionIdentity] = part]
        /\ Goto("capacity") /\ UNCHANGED faults
  /\ UNCHANGED <<rigid, attempt, stage, cancelled, pool, part, steps, verified, runs>>

------------------------------------------------------------------------------
(* A scan that is cancelled fails, except that of a stream which merges its *)
(* corpora: it ends early, and without an error.                            *)
Counts == IF cancelled THEN 0..Capacity(part) ELSE {Capacity(part)}
ScanFails == cancelled /\ FailTo
DeriveSteps ==
  /\ pc = "capacity" /\ stage.mode = "epochs"
  /\ \/ ScanFails /\ UNCHANGED steps
     \/ \E n \in Counts :
          IF n > 0 THEN steps' = n /\ Goto("resolve") ELSE FailTo /\ UNCHANGED steps
  /\ UNCHANGED <<rigid, attempt, stage, cancelled, pool, part, verified, disk, faults>>

ProveCapacity ==
  /\ pc = "capacity" /\ stage.mode = "bounded"
  /\ \/ ScanFails /\ UNCHANGED <<steps, verified>>
     \/ \E n \in Counts :
          IF n >= Requested THEN steps' = Requested /\ verified' = TRUE /\ Goto("resolve")
                            ELSE FailTo /\ UNCHANGED <<steps, verified>>
  /\ UNCHANGED <<rigid, attempt, stage, cancelled, pool, part, disk, faults>>

RepeatUntilSteps ==
  /\ pc = "capacity" /\ stage.mode = "tokens"
  /\ steps' = Requested /\ Goto("resolve")
  /\ UNCHANGED <<rigid, attempt, stage, cancelled, pool, part, verified, disk, faults>>

(* The backend is probed with the command's context before the run and its  *)
(* preflight are recorded, so a command cancelled by then records nothing.  *)
Probed == ~cancelled
ResolveBackend ==
  /\ pc = "resolve"
  /\ \/ Fails /\ FailTo
     \/ Probed /\ Goto("record") /\ UNCHANGED faults
  /\ UNCHANGED <<rigid, attempt, stage, cancelled, pool, part, steps, verified, disk>>

RecordRun ==
  /\ pc = "record"
  /\ \/ Fault /\ FailTo /\ UNCHANGED runs
     \/ /\ runs' = Append(runs, [identity |-> PreflightIdentity, part |-> part,
                                 steps |-> steps, verified |-> verified])
        /\ Goto("train") /\ UNCHANGED faults
  /\ UNCHANGED <<rigid, attempt, stage, cancelled, pool, part, steps, verified, selections>>

CallerCancels ==
  /\ pc \notin {"failed", "train"} /\ ~cancelled
  /\ Fault
  /\ cancelled' = TRUE
  /\ UNCHANGED <<rigid, attempt, pc, stage, pool, part, steps, verified, disk>>

(* The next command, after an end, an error or a kill at any step.          *)
NextAttempt ==
  /\ attempt < MaxAttempts
  /\ \/ pc \in {"failed", "train"} /\ UNCHANGED faults
     \/ pc \notin {"failed", "train"} /\ Fault
  /\ attempt' = attempt + 1 /\ Goto("begin") /\ stage' \in Stages /\ cancelled' = FALSE
  /\ next' = 1 /\ worker' = [w \in Workers |-> Idle] /\ results' = <<>>
  /\ heaps' = [c \in Corpora |-> {}] /\ scanned' = {}
  /\ part' = None /\ steps' = 0 /\ verified' = FALSE
  /\ UNCHANGED <<rigid, disk>>

Next ==
  \/ Reuse \/ LoadSelection \/ ScanBegins \/ SelectUnscanned
  \/ \E w \in Workers : FeedScan(w) \/ ScanInput(w) \/ ScanWorkerLeaves(w)
  \/ CollectScan \/ SelectScanned \/ StoreSelection
  \/ DeriveSteps \/ ProveCapacity \/ RepeatUntilSteps \/ ResolveBackend \/ RecordRun
  \/ CallerCancels \/ NextAttempt

Spec == Init /\ [][Next]_vars

------------------------------------------------------------------------------
(* A reference for the selection, of the whole set of admitted records: k   *)
(* is held out exactly when it is a candidate and what the order has before *)
(* it leaves room for it.                                                   *)
Lower(S, k) == Cardinality({j \in S : Score(j) < Score(k)})
PlaceOf(k) ==
  CASE policy.rule = "lowest" -> Lower(Allowed, k)
    [] policy.rule = "stratified" ->
         2 * Lower({j \in Allowed : CorpusOf(j) = CorpusOf(k)}, k)
           + (IF CorpusOf(k) = "b" THEN 1 ELSE 0)
    [] OTHER -> k
IsCandidate(k) ==
  /\ k \in Allowed
  /\ IF policy.rule = "stratified" THEN PlaceOf(k) \div 2 < policy.records
                                   ELSE PlaceOf(k) < policy.records
Fits(k, held) ==
  LET before == {j \in held : PlaceOf(j) < PlaceOf(k)}
  IN  /\ Cardinality(before) < Desired(Cardinality(Allowed))
      /\ Bytes(before) + size[k] <= policy.bytes

Selected == part # None

(* Whatever order the shards' candidates arrive in, and whether the set is  *)
(* selected now, read from the cache or taken from an earlier run's         *)
(* preflight, an attempt holds out the records its corpus revision and      *)
(* policy determine: no retry evaluates on others than the run it resumes   *)
(* (training/stream.go NewRecordPartitionContextWithTransform,              *)
(* model/build.go loadStageSelection, reusableStagePreflight).              *)
HoldoutIsDetermined ==
  Selected =>
    CASE policy.rule = "none" -> part.chosen = {}
      [] policy.rule = "tail" -> part.chosen = Allowed /\ part.split = Allowed
      [] policy.rule \in {"lowest", "stratified"} ->
           part.chosen = {k \in Allowed : IsCandidate(k) /\ Fits(k, part.chosen)}
      [] OTHER -> /\ part.chosen # {} /\ part.chosen \subseteq Allowed
                  /\ Bytes(part.chosen) <= policy.bytes
                  /\ \/ Cardinality(part.chosen) = Desired(Cardinality(Records))
                     \/ \A k \in Allowed \ part.chosen :
                          size[k] > policy.bytes - Bytes(part.chosen)
                  /\ \A i \in DOMAIN runs :
                       runs[i].identity.bom = stage.bom => runs[i].part = part

(* Something is left to train on, never what is evaluated on, and the count *)
(* of each corpus is of the records the trainer will receive; a zero there  *)
(* is the only warning of a corpus that contributes nothing. What was       *)
(* stored can be used again (trainingRecord, ZeroEligibleCorpora, Validate).*)
TrainingIsTheRest ==
  Selected =>
    /\ Valid(part)
    /\ policy.rule \in {"lowest", "stratified", "tail", "none"} => Training(part) # {}
    /\ Capacity(part) + Bytes(part.chosen) - Cardinality(part.split) = Bytes(Allowed)
    /\ part.eligible # NoCounts =>
         \A c \in Corpora :
           part.eligible[c] = Cardinality({k \in Training(part) : CorpusOf(k) = c})

(* The steps a run records were counted over its whole stream, or the       *)
(* requested ones were shown to fit in it: no cancelled count, and no       *)
(* preflight made for other parameters, is ever pinned (Builder.Train,      *)
(* validateCachedPreflightParameters).                                      *)
StepsAreEarned ==
  \A i \in DOMAIN runs :
    LET r == runs[i]
        total == MapThenSumSet(LAMBDA k : TrainingBytes(r.part, k), filter[r.identity.bom])
    IN  CASE r.identity.mode = "epochs" -> r.steps = total
          [] r.identity.mode = "bounded" -> r.steps = Requested /\ r.verified /\ total >= Requested
          [] OTHER -> r.steps = Requested /\ ~r.verified
=============================================================================
