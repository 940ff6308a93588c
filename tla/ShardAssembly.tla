---------------------------- MODULE ShardAssembly ----------------------------
(***************************************************************************)
(* The assembly of shards (src/internal/ingest/assemble.go, dedup.go).     *)
(* One goroutine streams rows, drops duplicates and fills the active       *)
(* shard; finished shards go through a bounded channel to a pool of        *)
(* verification workers, whose outcomes go through a second bounded        *)
(* channel to a collector that hands them to the sink in shard order.      *)
(* Any verification or the sink can fail and cancels the others.           *)
(***************************************************************************)
EXTENDS Naturals, Sequences, FiniteSets, SequencesExt, FiniteSetsExt

CONSTANTS
  MaxKey,       \* row contents with their licenses, numbered: what deduplication tells apart
  Long,         \* contents of two units of text; the others have one
  MaxRows,      \* rows of the input, at most
  GroupSize,    \* units of a row group (writer.row_group_logical_bytes)
  TargetSize,   \* units at which a flushed shard is finished (writer.compressed_target)
  Seeds,        \* the sets of contents an existing corpus may seed
  BatchRows,    \* rows of a batch, at most
  Workers,      \* verification workers, and the capacity of both channels
  MaxFaults     \* bound on failures, cancellations and kills

ASSUME AssemblyAssumption ==
  /\ MaxKey \in Nat /\ Long \subseteq 1..MaxKey /\ Seeds \subseteq SUBSET (1..MaxKey)
  /\ MaxRows \in Nat /\ GroupSize \in Nat \ {0} /\ TargetSize \in Nat \ {0}
  /\ BatchRows \in Nat \ {0} /\ Workers \in Nat \ {0} /\ MaxFaults \in Nat

VARIABLES
  input,      \* rows still to stream
  rows,       \* the whole input
  seeded,     \* contents that existing shards of the corpus already have
  seen,       \* the deduplication database
  batch,      \* rows of the current batch that are not in the active shard yet
  flushed,    \* rows of the active shard in finished row groups
  group,      \* rows of its unfinished row group
  assembler,  \* "stream", "finish", "wait" or "returned"
  err,        \* the assembler's own error, or "none"
  made,       \* rows of the shards made so far, by sequence number
  hand,       \* sequence number of the finished shard being enqueued, or 0
  jobs,       \* channel to the workers
  busy,       \* [1..Workers -> shard being verified, finished outcome, or idle]
  outcomes,   \* channel to the collector
  pending,    \* outcomes the collector holds back
  next,       \* sequence number the collector waits for
  sunk,       \* sequence numbers handed to the sink, in order
  firstErr,   \* the collector's first error, or "none"
  cancelled,  \* the pipeline's context
  partial,    \* shards whose .waldo-shard-* file exists
  staged,     \* shards whose content-named file exists
  result,     \* "none", "ok", "empty" or "error"
  faults

source  == <<input, rows, seeded>>
writer  == <<batch, flushed, group>>
channel == <<jobs, busy, outcomes>>
ordered == <<pending, next, sunk, firstErr>>
vars == <<source, seen, writer, assembler, err, made, hand, channel, ordered,
          cancelled, partial, staged, result, faults>>

(* Inputs up to the naming of their contents: a new content has the next number. *)
Inputs ==
  {r \in UNION {[1..n -> 1..MaxKey] : n \in 0..MaxRows} :
     \A i \in DOMAIN r : r[i] = 1 \/ \E j \in 1..(i - 1) : r[j] >= r[i] - 1}

Size(content) == FoldLeft(LAMBDA n, row : n + (IF row \in Long THEN 2 ELSE 1), 0, content)

Idle == [seq |-> 0, state |-> "idle"]

Init ==
  /\ rows \in Inputs
  /\ input = rows
  /\ seeded \in Seeds /\ seen = seeded
  /\ batch = <<>> /\ flushed = <<>> /\ group = <<>>
  /\ assembler = "stream" /\ err = "none" /\ made = <<>> /\ hand = 0
  /\ jobs = <<>> /\ outcomes = <<>>
  /\ busy = [w \in 1..Workers |-> Idle]
  /\ pending = {} /\ next = 1 /\ sunk = <<>> /\ firstErr = "none"
  /\ cancelled = FALSE /\ partial = {} /\ staged = {}
  /\ result = "none" /\ faults = 0
-----------------------------------------------------------------------------
(* filter: a row is kept when its content was not seen, in this batch or before. *)
Unseen(taken) ==
  FoldLeft(LAMBDA kept, row : IF row \in seen \cup ToSet(kept) THEN kept ELSE Append(kept, row),
           <<>>, taken)

Opened == IF flushed = <<>> /\ group = <<>> THEN {Len(made) + 1} ELSE {}

Batch ==
  /\ assembler = "stream" /\ hand = 0 /\ batch = <<>> /\ input # <<>> /\ ~cancelled
  /\ \E n \in 1..Min({BatchRows, Len(input)}) :
       LET kept == Unseen(SubSeq(input, 1, n)) IN
       /\ input' = SubSeq(input, n + 1, Len(input))
       /\ seen' = seen \cup ToSet(kept)
       /\ batch' = kept
  /\ UNCHANGED <<rows, seeded, flushed, group, assembler, err, made, hand, channel,
                 ordered, cancelled, partial, staged, result, faults>>

(* finishActive: the shard is complete and is handed to the pipeline. *)
FinishActive(content) ==
  /\ made' = Append(made, content) /\ hand' = Len(made) + 1
  /\ flushed' = <<>> /\ group' = <<>>

(* flushRowGroup: a shard whose flushed groups reach the target is finished. *)
FlushRowGroup(filled) ==
  IF Size(flushed \o filled) >= TargetSize
  THEN FinishActive(flushed \o filled)
  ELSE flushed' = flushed \o filled /\ group' = <<>> /\ UNCHANGED <<made, hand>>

(* addBatch, one row: a row that does not fit ends the row group before it, and
   with it perhaps the shard; a row that fills the group is its last one. *)
Overflows == group # <<>> /\ Size(Append(group, Head(batch))) > GroupSize

AddRow ==
  /\ assembler = "stream" /\ hand = 0 /\ batch # <<>> /\ ~cancelled
  /\ IF Overflows
     THEN FlushRowGroup(group) /\ UNCHANGED <<batch, partial>>
     ELSE LET filled == Append(group, Head(batch)) IN
          /\ batch' = Tail(batch)
          /\ partial' = partial \cup Opened
          /\ IF Size(filled) >= GroupSize
             THEN FlushRowGroup(filled)
             ELSE group' = filled /\ UNCHANGED <<flushed, made, hand>>
  /\ UNCHANGED <<source, seen, assembler, err, channel, ordered, cancelled, staged,
                 result, faults>>

(* finishAll: the last shard, whatever its size. *)
FinishAll == flushed # <<>> \/ group # <<>>

Finish ==
  /\ assembler = "stream" /\ hand = 0 /\ batch = <<>> /\ input = <<>> /\ ~cancelled
  /\ assembler' = "finish"
  /\ IF FinishAll THEN FinishActive(flushed \o group)
     ELSE UNCHANGED <<made, hand, flushed, group>>
  /\ UNCHANGED <<source, seen, batch, err, channel, ordered, cancelled, partial, staged,
                 result, faults>>

(* enqueue: the shard is accepted, or refused because the pipeline is cancelled. *)
Refused == partial \ {hand}

Enqueue ==
  /\ hand # 0
  /\ \/ /\ Len(jobs) < Workers
        /\ jobs' = Append(jobs, hand)
        /\ UNCHANGED <<err, partial>>
     \/ /\ cancelled
        /\ err' = "cancelled" /\ partial' = Refused
        /\ UNCHANGED jobs
  /\ hand' = 0
  /\ UNCHANGED <<source, seen, writer, assembler, made, busy, outcomes, ordered,
                 cancelled, staged, result, faults>>

(* An error of the stream or of a write, and the cancellation it notices. *)
Fail ==
  /\ assembler = "stream" /\ hand = 0 /\ err = "none"
  /\ \/ cancelled /\ err' = "cancelled" /\ UNCHANGED faults
     \/ faults < MaxFaults /\ faults' = faults + 1 /\ err' = "input"
  /\ UNCHANGED <<source, seen, writer, assembler, made, hand, channel, ordered, cancelled,
                 partial, staged, result>>

(* closeAndWait begins, after discardActive when the assembler failed. *)
Close ==
  /\ assembler \in {"stream", "finish"} /\ hand = 0
  /\ err # "none" \/ assembler = "finish"
  /\ assembler' = "wait"
  /\ IF err = "none" THEN UNCHANGED <<cancelled, partial, flushed, group>>
     ELSE /\ cancelled' = TRUE
          /\ partial' = partial \ (IF Opened = {} THEN {Len(made) + 1} ELSE {})
          /\ flushed' = <<>> /\ group' = <<>>
  /\ UNCHANGED <<source, seen, batch, err, made, hand, channel, ordered, staged, result, faults>>
-----------------------------------------------------------------------------
(* A verification worker takes a job, verifies and stages the shard, and sends
   the outcome. It keeps draining the jobs after a cancellation. *)
Take(w) ==
  /\ busy[w].state = "idle" /\ jobs # <<>>
  /\ busy' = [busy EXCEPT ![w] = [seq |-> Head(jobs), state |-> "verify"]]
  /\ jobs' = Tail(jobs)
  /\ UNCHANGED <<source, seen, writer, assembler, err, made, hand, outcomes, ordered,
                 cancelled, partial, staged, result, faults>>

Verify(w) ==
  /\ busy[w].state = "verify"
  /\ partial' = partial \ {busy[w].seq}
  /\ \/ /\ busy' = [busy EXCEPT ![w].state = "ok"]
        /\ staged' = staged \cup {busy[w].seq}
        /\ UNCHANGED <<cancelled, faults>>
     \/ /\ faults < MaxFaults /\ faults' = faults + 1
        /\ busy' = [busy EXCEPT ![w].state = "bad"]
        /\ cancelled' = TRUE
        /\ UNCHANGED staged
  /\ UNCHANGED <<source, seen, writer, assembler, err, made, hand, jobs, outcomes, ordered,
                 result>>

Send(w) ==
  /\ busy[w].state \in {"ok", "bad"} /\ Len(outcomes) < Workers
  /\ outcomes' = Append(outcomes, busy[w])
  /\ busy' = [busy EXCEPT ![w] = Idle]
  /\ UNCHANGED <<source, seen, writer, assembler, err, made, hand, jobs, ordered,
                 cancelled, partial, staged, result, faults>>

(* The collector receives as long as the channel is open, errors or not. *)
Receives == TRUE

Receive ==
  /\ outcomes # <<>> /\ ~(\E o \in pending : o.seq = next)
  /\ Receives
  /\ pending' = pending \cup {Head(outcomes)}
  /\ outcomes' = Tail(outcomes)
  /\ UNCHANGED <<source, seen, writer, assembler, err, made, hand, jobs, busy, next, sunk,
                 firstErr, cancelled, partial, staged, result, faults>>

DueAny(o) == TRUE  \* mutant: an outcome is delivered when it arrives
Due(o) == o.seq = next

Deliver ==
  \E o \in pending :
    /\ Due(o)
    /\ pending' = pending \ {o} /\ next' = next + 1
    /\ CASE o.state = "bad" ->
              /\ firstErr' = IF firstErr = "none" THEN "audit" ELSE firstErr
              /\ UNCHANGED <<sunk, cancelled, faults>>
         [] o.state = "ok" /\ firstErr # "none" -> UNCHANGED <<firstErr, sunk, cancelled, faults>>
         [] o.state = "ok" /\ firstErr = "none" ->
              \/ /\ sunk' = Append(sunk, o.seq)
                 /\ UNCHANGED <<firstErr, cancelled, faults>>
              \/ /\ faults < MaxFaults /\ faults' = faults + 1
                 /\ firstErr' = "sink" /\ cancelled' = TRUE
                 /\ UNCHANGED sunk
    /\ UNCHANGED <<source, seen, writer, assembler, err, made, hand, channel, partial,
                   staged, result>>

(* closeAndWait ends: jobs drained, workers gone, outcomes drained, collector done. *)
Drained ==
  /\ jobs = <<>> /\ outcomes = <<>> /\ pending = {}
  /\ \A w \in 1..Workers : busy[w].state = "idle"

Return ==
  /\ assembler = "wait" /\ Drained
  /\ assembler' = "returned"
  /\ result' = IF firstErr # "none" \/ err # "none" THEN "error"
               ELSE IF sunk # <<>> THEN "ok"
               ELSE IF seeded # {} /\ rows # <<>> THEN "empty" ELSE "error"
  /\ UNCHANGED <<source, seen, writer, err, made, hand, channel, ordered, cancelled,
                 partial, staged, faults>>

(* The caller's context is cancelled. *)
Cancel ==
  /\ ~cancelled /\ faults < MaxFaults /\ assembler # "returned"
  /\ cancelled' = TRUE /\ faults' = faults + 1
  /\ UNCHANGED <<source, seen, writer, assembler, err, made, hand, channel, ordered,
                 partial, staged, result>>

Assembler == Batch \/ AddRow \/ Finish \/ Enqueue \/ Fail \/ Close \/ Return
Worker(w) == Take(w) \/ Verify(w) \/ Send(w)
Collector == Receive \/ Deliver

Next == Assembler \/ (\E w \in 1..Workers : Worker(w)) \/ Collector \/ Cancel

(* Goroutines run. *)
Fairness ==
  /\ WF_vars(Assembler) /\ WF_vars(Collector)
  /\ \A w \in 1..Workers : WF_vars(Worker(w))

Spec == Init /\ [][Next]_vars /\ Fairness
-----------------------------------------------------------------------------
TypeOK ==
  /\ assembler \in {"stream", "finish", "wait", "returned"}
  /\ Len(jobs) <= Workers /\ Len(outcomes) <= Workers
  /\ hand \in 0..Len(made) /\ next \in 1..(Len(made) + 1)
  /\ partial \subseteq 1..(Len(made) + 1) /\ staged \subseteq 1..Len(made)
  /\ faults \in 0..MaxFaults

(* The sink sees the shards in the order in which they were made, without a gap,
   and stops at the first one that failed, however the workers overtake each
   other: the publication journal is built in this order. *)
SunkInOrder == sunk = [i \in 1..Len(sunk) |-> i]

(* A successful assembly has put every content of the input that the corpus did
   not have yet into exactly one delivered shard, at its first occurrence. *)
FirstOccurrences ==
  FoldLeft(LAMBDA kept, row : IF row \in seeded \cup ToSet(kept) THEN kept ELSE Append(kept, row),
          <<>>, rows)

EveryRowOnce ==
  result \in {"ok", "empty"} => FlattenSeq([i \in 1..Len(sunk) |-> made[sunk[i]]]) = FirstOccurrences

(* A call that returned, with a result or an error, leaves no partial shard file. *)
NoPartialShard == assembler = "returned" => partial = {}

(* The call returns: no order of full channels, failures and cancellation makes
   the assembler, the workers and the collector wait for each other. *)
Returns == <>(assembler = "returned")
=============================================================================
