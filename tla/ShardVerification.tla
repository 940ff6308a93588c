------------------------- MODULE ShardVerification -------------------------
(* The worker pools that verify many shards or files at once. They are five *)
(* variants of one shape, a feeder, workers and a collector over Go         *)
(* channels, that differ where it matters:                                  *)
(*   "verify"        shard.VerifyWithOptions: attestations, else deep scans *)
(*   "audit"         shard.AuditWithOptions: deep scans that share a table  *)
(*                   of record ids, written in batches under a mutex        *)
(*   "stream"        cli verifyAuditStream: fetch, verify, attach the       *)
(*                   evidence to the bill of materials                      *)
(*   "availability"  corpus.CheckAvailability: headers only; the collector  *)
(*                   returns at the first error                             *)
(*   "probe"         ingest.ProbePathsWithWorkers: the caller feeds, workers*)
(*                   store their results and continue after an error        *)
EXTENDS Integers, Sequences, SequencesExt, FiniteSets

CONSTANTS Length, Workers, Batch, MaxFlawed, MaxFaults

Kinds == {"verify", "audit", "stream", "availability", "probe"}
Positions == 1..Length

VARIABLES
  kind,       \* which pool
  shards,     \* what each shard or file holds
  pins,       \* "repeated": the second pin is of the first object; "conflict"
  feeder,     \* the positions still to hand out, and whether it has returned
  worker,     \* each worker's step, job and unwritten ids
  channel,    \* the results on their way
  seen,       \* the ids in the table, with the shard they came from
  attested,   \* the pins that have evidence attached
  counted,    \* the positions whose result was added to the total
  err,        \* the error the call will return
  cancelled,  \* "no", "inner" (by the pool) or "caller"
  call,       \* "running", "closing", "failed" or "succeeded"
  faults

vars == <<kind, shards, pins, feeder, worker, channel, seen, attested, counted,
          err, cancelled, call, faults>>

(* A shard's footer: attested, contradicted by the shard's own embedded     *)
(* BOM, of an older writer without attestation, or of the current writer    *)
(* but without its aggregates. Its rows: the ids, and whether one is wrong. *)
Sound(p) == [footer |-> "attested", ids |-> <<p>>, bad |-> FALSE]
Shard(p) ==
  {Sound(p)}
  \cup {[Sound(p) EXCEPT !.footer = f] : f \in {"differs", "stripped", "old"}}
  \cup {[Sound(p) EXCEPT !.footer = "old", !.bad = TRUE]}
  \cup {[Sound(p) EXCEPT !.ids = <<p, 1>>]}

Jobs == IF kind = "stream" /\ pins = "repeated"
          THEN SelectSeq([p \in Positions |-> p], LAMBDA p : p # 2)
          ELSE [p \in Positions |-> p]
Idle == [at |-> "idle", job |-> 0, row |-> 0, ids |-> <<>>, result |-> "none"]

Init ==
  /\ kind \in Kinds
  /\ shards \in {s \in [Positions -> UNION {Shard(p) : p \in Positions}] :
                   /\ \A p \in Positions : s[p] \in Shard(p)
                   /\ Cardinality({p \in Positions : s[p] # Sound(p)}) <= MaxFlawed}
  /\ pins \in IF kind = "stream" THEN {"distinct", "repeated", "conflict"}
                                 ELSE {"distinct"}
  /\ feeder = [left |-> Jobs, done |-> FALSE]
  /\ worker = [w \in Workers |-> Idle]
  /\ channel = <<>> /\ seen = {} /\ attested = {} /\ counted = <<>>
  /\ err = "none" /\ cancelled = "no"
  /\ call = IF pins = "conflict" THEN "failed" ELSE "running"
  /\ faults = 0

Stopped == cancelled # "no"
Cancel == cancelled' = IF Stopped THEN cancelled ELSE "inner"
Capacity == Cardinality(Workers)
Live == {w \in Workers : worker[w].at # "gone"}
At(w, place) == worker' = [worker EXCEPT ![w].at = place]
Result(w, r) == worker' = [worker EXCEPT ![w].at = "report", ![w].result = r]

------------------------------------------------------------------------------
(* The feeder hands a job to a worker that waits for one, or returns when   *)
(* the context is cancelled: select picks either when both are ready.       *)
Hand(w) ==
  /\ pins # "conflict" /\ ~feeder.done /\ feeder.left # <<>>
  /\ worker[w].at = "idle"
  /\ worker' = [worker EXCEPT ![w] = [Idle EXCEPT !.at = "begin",
                                                  !.job = Head(feeder.left)]]
  /\ feeder' = [feeder EXCEPT !.left = Tail(@)]
  /\ UNCHANGED <<kind, shards, pins, channel, seen, attested, counted, err,
                 cancelled, call, faults>>

MayStop == feeder.left = <<>> \/ Stopped

FeederReturns ==
  /\ pins # "conflict" /\ ~feeder.done /\ MayStop
  /\ feeder' = [feeder EXCEPT !.done = TRUE]
  /\ UNCHANGED <<kind, shards, pins, worker, channel, seen, attested, counted, err,
                 cancelled, call, faults>>

WorkerLeaves(w) ==
  /\ worker[w].at = "idle" /\ feeder.done
  /\ At(w, "gone")
  /\ UNCHANGED <<kind, shards, pins, feeder, channel, seen, attested, counted, err,
                 cancelled, call, faults>>

------------------------------------------------------------------------------
(* A worker begins. What asks another host, or the disk, may fail, and      *)
(* fails when the context is cancelled first.                               *)
Fails(w) ==
  \/ Stopped /\ Result(w, "cancelled") /\ UNCHANGED faults
  \/ faults < MaxFaults /\ faults' = faults + 1 /\ Result(w, "cause")
Begins(w, pool) ==
  /\ worker[w].at = "begin" /\ kind = pool
  /\ UNCHANGED <<kind, shards, pins, feeder, channel, seen, attested, counted, err,
                 cancelled, call>>

FetchShard(w) ==
  /\ Begins(w, "stream")
  /\ Fails(w) \/ (At(w, "footer") /\ UNCHANGED faults)

(* The object is there, and has its declared size.                          *)
ProbeObject(w) ==
  /\ Begins(w, "availability")
  /\ \/ Fails(w)
     \/ /\ Result(w, IF shards[worker[w].job].bad THEN "cause" ELSE "ok")
        /\ UNCHANGED faults

(* The file is read to its end, hashed, and did not change meanwhile.       *)
ProbeFile(w) ==
  /\ Begins(w, "probe")
  /\ \/ Fails(w)
     \/ /\ ~Stopped
        /\ Result(w, IF shards[worker[w].job].bad THEN "cause" ELSE "ok")
        /\ UNCHANGED faults

(* The attestation decides whether the rows must be read.                   *)
Attested(footer) == footer = "attested"

ReadFooter(w) ==
  /\ \/ worker[w].at = "footer"
     \/ worker[w].at = "begin" /\ kind = "verify"
  /\ LET footer == shards[worker[w].job].footer IN
     CASE Attested(footer) -> Result(w, "ok")
       [] footer = "differs" -> Result(w, "cause")
       [] OTHER -> At(w, "scan")
  /\ UNCHANGED <<kind, shards, pins, feeder, channel, seen, attested, counted, err,
                 cancelled, call, faults>>

BeginScan(w) ==
  /\ worker[w].at = "begin" /\ kind = "audit"
  /\ At(w, "scan")
  /\ UNCHANGED <<kind, shards, pins, feeder, channel, seen, attested, counted, err,
                 cancelled, call, faults>>

(* The deep scan reads row by row (auditOne). Each row asks the context,    *)
(* is validated, and leaves its id; a full batch of ids is written.         *)
ScanRow(w) ==
  LET job == worker[w].job
      row == worker[w].row + 1 IN
  /\ worker[w].at = "scan" /\ row <= Len(shards[job].ids)
  /\ CASE Stopped -> Result(w, "cancelled")
       [] ~Stopped /\ shards[job].bad -> Result(w, "cause")
       [] OTHER -> worker' = [worker EXCEPT
                     ![w].row = row, ![w].ids = Append(@, shards[job].ids[row]),
                     ![w].at = IF kind = "audit" /\ Len(worker[w].ids) + 1 = Batch
                                 THEN "flush" ELSE "scan"]
  /\ UNCHANGED <<kind, shards, pins, feeder, channel, seen, attested, counted, err,
                 cancelled, call, faults>>

(* What the rows say is compared with the footer, which the current writer  *)
(* never omits.                                                             *)
FooterAgrees(footer) == footer \notin {"differs", "stripped"}

ScanEnds(w) ==
  /\ worker[w].at = "scan" /\ worker[w].row = Len(shards[worker[w].job].ids)
  /\ CASE ~FooterAgrees(shards[worker[w].job].footer) -> Result(w, "cause")
       [] FooterAgrees(shards[worker[w].job].footer) /\ kind = "audit" -> At(w, "flush")
       [] OTHER -> Result(w, "ok")
  /\ UNCHANGED <<kind, shards, pins, feeder, channel, seen, attested, counted, err,
                 cancelled, call, faults>>

(* The ids a batch adds, in order; one that is already there is an error.   *)
(* A plausible bug: only ids of other shards count as duplicates.           *)
RepeatsOthers(w) == \E s \in seen : s.id \in Range(worker[w].ids) /\ s.shard # worker[w].job
Repeats(w) ==
  \/ \E s \in seen : s.id \in Range(worker[w].ids)
  \/ \E i, j \in DOMAIN worker[w].ids : i < j /\ worker[w].ids[i] = worker[w].ids[j]

(* The batch is written under the mutex, after a look at the context.       *)
Flush(w) ==
  /\ worker[w].at = "flush"
  /\ CASE worker[w].ids = <<>> ->
            Result(w, "ok") /\ UNCHANGED seen
       [] worker[w].ids # <<>> /\ Stopped ->
            Result(w, "cancelled") /\ UNCHANGED seen
       [] worker[w].ids # <<>> /\ ~Stopped /\ Repeats(w) ->
            Result(w, "cause") /\ UNCHANGED seen
       [] OTHER ->
            /\ seen' = seen \cup {[id |-> i, shard |-> worker[w].job] :
                                    i \in Range(worker[w].ids)}
            /\ worker' = [worker EXCEPT ![w].ids = <<>>, ![w].at = "scan"]
  /\ UNCHANGED <<kind, shards, pins, feeder, channel, attested, counted, err,
                 cancelled, call, faults>>

------------------------------------------------------------------------------
(* The result goes into the channel, and only then an error cancels the     *)
(* others and ends the worker. The availability check's channel holds       *)
(* nothing: its worker meets the collector, or leaves when cancelled.       *)
After(w) ==
  IF worker[w].result = "ok" THEN Idle ELSE [worker[w] EXCEPT !.at = "cancel"]

Report(w) ==
  /\ worker[w].at = "report" /\ kind \in {"verify", "audit", "stream"}
  /\ Len(channel) < Capacity
  /\ channel' = Append(channel, [job |-> worker[w].job, result |-> worker[w].result])
  /\ worker' = [worker EXCEPT ![w] = After(w)]
  /\ UNCHANGED <<kind, shards, pins, feeder, seen, attested, counted, err, cancelled,
                 call, faults>>

CancelOthers(w) ==
  /\ worker[w].at = "cancel"
  /\ Cancel /\ At(w, "gone")
  /\ UNCHANGED <<kind, shards, pins, feeder, channel, seen, attested, counted, err,
                 call, faults>>

WithdrawReport(w) ==
  /\ worker[w].at = "report" /\ kind = "availability" /\ Stopped
  /\ At(w, "gone")
  /\ UNCHANGED <<kind, shards, pins, feeder, channel, seen, attested, counted, err,
                 cancelled, call, faults>>

MeetCollector(w) ==
  /\ worker[w].at = "report" /\ kind = "availability" /\ call = "running"
  /\ worker' = [worker EXCEPT ![w] = Idle]
  /\ IF worker[w].result = "ok"
       THEN counted' = Append(counted, worker[w].job) /\ UNCHANGED <<err, call, cancelled>>
       ELSE err' = worker[w].result /\ call' = "failed" /\ Cancel /\ UNCHANGED counted
  /\ UNCHANGED <<kind, shards, pins, feeder, channel, seen, attested, faults>>

(* A probe's worker stores what it found, or the first error, under a mutex,*)
(* and takes the next job.                                                  *)
Store(w) ==
  /\ worker[w].at = "report" /\ kind = "probe"
  /\ worker' = [worker EXCEPT ![w] = Idle]
  /\ CASE worker[w].result = "ok" ->
            counted' = Append(counted, worker[w].job) /\ UNCHANGED <<err, cancelled>>
       [] worker[w].result # "ok" /\ err = "none" ->
            err' = worker[w].result /\ Cancel /\ UNCHANGED counted
       [] OTHER -> UNCHANGED <<counted, err, cancelled>>
  /\ UNCHANGED <<kind, shards, pins, feeder, channel, seen, attested, call, faults>>

------------------------------------------------------------------------------
(* The error that the collector keeps: the first one, unless that is only   *)
(* a cancellation.                                                          *)
Keep(result) == IF err \in {"none", "cancelled"} THEN result ELSE err

(* The streamed verification attaches each object's evidence to every pin   *)
(* of the object; reading it may fail.                                      *)
PinsOf(job) == IF pins = "repeated" /\ job = 1 THEN {1, 2} ELSE {job}

Collect ==
  /\ channel # <<>> /\ call = "running"
  /\ channel' = Tail(channel)
  /\ LET result == Head(channel).result
         job == Head(channel).job IN
     \/ /\ result # "ok" /\ err' = Keep(result)
        /\ UNCHANGED <<attested, counted, cancelled, faults>>
     \/ /\ result = "ok"
        /\ counted' = Append(counted, job)
        /\ attested' = IF kind = "stream" THEN attested \cup PinsOf(job) ELSE attested
        /\ UNCHANGED <<err, cancelled, faults>>
     \/ /\ result = "ok" /\ kind = "stream" /\ faults < MaxFaults
        /\ faults' = faults + 1 /\ Cancel
        /\ err' = IF err = "none" THEN "cause" ELSE err
        /\ UNCHANGED <<attested, counted>>
  /\ UNCHANGED <<kind, shards, pins, feeder, worker, seen, call>>

(* The results end once every worker has left; an error, or the caller's    *)
(* cancellation, is returned rather than the total.                         *)
Verdict == IF err # "none" \/ cancelled = "caller" THEN "failed" ELSE "succeeded"

Return ==
  /\ call = "running" /\ Live = {} /\ channel = <<>>
  /\ kind = "probe" => feeder.done
  /\ call' = Verdict
  /\ UNCHANGED <<kind, shards, pins, feeder, worker, channel, seen, attested, counted,
                 err, cancelled, faults>>

CallerCancels ==
  /\ call = "running" /\ ~Stopped /\ faults < MaxFaults
  /\ faults' = faults + 1 /\ cancelled' = "caller"
  /\ UNCHANGED <<kind, shards, pins, feeder, worker, channel, seen, attested, counted,
                 err, call>>

Work(w) ==
  \/ WorkerLeaves(w) \/ FetchShard(w) \/ ProbeObject(w) \/ ProbeFile(w) \/ ReadFooter(w) \/ BeginScan(w) \/ ScanRow(w)
  \/ ScanEnds(w) \/ Flush(w) \/ Report(w) \/ CancelOthers(w) \/ WithdrawReport(w)
  \/ MeetCollector(w) \/ Store(w)

Next ==
  \/ \E w \in Workers : Hand(w) \/ Work(w)
  \/ FeederReturns \/ Collect \/ Return \/ CallerCancels

(* Every goroutine that can go on does.                                     *)
Spec ==
  /\ Init /\ [][Next]_vars
  /\ WF_vars(\E w \in Workers : Hand(w)) /\ WF_vars(FeederReturns)
  /\ \A w \in Workers : WF_vars(Work(w))
  /\ WF_vars(Collect) /\ WF_vars(Return)

------------------------------------------------------------------------------
TypeOK ==
  /\ kind \in Kinds
  /\ \A w \in Workers : worker[w].job \in 0..Length
  /\ Len(channel) <= Capacity
  /\ cancelled \in {"no", "inner", "caller"}

(* What each pool promises of a shard.                                      *)
Passes(p) ==
  CASE kind = "verify" \/ kind = "stream" ->
         \/ Attested(shards[p].footer)
         \/ shards[p].footer = "old" /\ ~shards[p].bad
    [] kind = "audit" -> FooterAgrees(shards[p].footer) /\ ~shards[p].bad
    [] OTHER -> ~shards[p].bad
Duplicated ==
  \E p, q \in Positions : \E i \in DOMAIN shards[p].ids, j \in DOMAIN shards[q].ids :
    <<p, i>> # <<q, j>> /\ shards[p].ids[i] = shards[q].ids[j]

(* A verification succeeds only if every shard passed and was counted once, *)
(* no record of an audit occurs twice, however the workers' batches         *)
(* interleave, and every pin of a bill has its evidence; without a fault it *)
(* fails only if one of these is so (VerifyWithOptions, AuditWithOptions,   *)
(* verifyAuditStream, CheckAvailability, ProbePathsWithWorkers).            *)
Clean == (\A p \in Range(Jobs) : Passes(p)) /\ (kind = "audit" => ~Duplicated)
VerdictIsRight ==
  /\ call = "succeeded" =>
       /\ Clean
       /\ Len(counted) = Len(Jobs) /\ Range(counted) = Range(Jobs)
       /\ kind = "stream" => attested = Positions
  /\ (call = "failed" /\ faults = 0 /\ pins # "conflict") => ~Clean

(* A failure that nobody cancelled names its cause: the first worker to     *)
(* fail cancels the others, and their "context canceled" never hides it.    *)
CauseIsNamed == (call = "failed" /\ cancelled = "inner") => err = "cause"

(* Every call returns, and none of its goroutines stays behind.             *)
PoolEnds ==
  <>(call # "running" /\ (pins = "conflict" \/ (feeder.done /\ Live = {})))
=============================================================================
