------------------------------ MODULE CorpusStream ------------------------------
(***************************************************************************)
(* The canonical record stream of a training run: each pass over the       *)
(* corpora shuffles every group of shards through a bounded buffer and,    *)
(* where corpora are balanced or weighted, merges one goroutine per corpus *)
(* by the tokens each has had.  Held-out records are taken out, and the    *)
(* worker's input reads the stream through a prefetch queue; preflight     *)
(* reads it directly.                                                      *)
(*                                                                         *)
(* A record is its corpus and row, each row in a shard of its own.  The    *)
(* pseudo-random generator is any fixed function of seed, epoch, group and *)
(* draw.                                                                   *)
(***************************************************************************)
EXTENDS Integers, Sequences, FiniteSets, SequencesExt

CONSTANTS
    Corpora,        \* 1..n, the corpora in the order of their names
    MaxRows,        \* bound: rows of a corpus that its filter allows
    Long, Bulky,    \* rows that are long; rows above the shuffle window's bytes
    Targets,        \* records after which the reader has enough
    Seeds, MaxEpochs,
    BufferRecords, BufferBytes,     \* ShuffleBufferRecords, ShuffleBufferBytes
    Depth,          \* capacity of the prefetch queue
    MaxFaults       \* bound: cancellations and shards that fail to read

ASSUME CorpusStreamConstants ==
    /\ Corpora = 1..Cardinality(Corpora) /\ Corpora # {}
    /\ Long \subseteq Nat /\ Bulky \subseteq Nat
    /\ Targets \subseteq Nat \ {0} /\ Seeds \subseteq Nat
    /\ {MaxRows, MaxEpochs, BufferRecords, BufferBytes, Depth} \subseteq Nat \ {0}
    /\ MaxFaults \in Nat

Records == Corpora \X (1..MaxRows)
Tokens(r) == IF r[2] \in Long THEN 3 ELSE 1       \* tokens of a record with its EOS
Size(r) == IF r[2] \in Bulky THEN BufferBytes + 1 ELSE Tokens(r)

VARIABLES
    plan,       \* inputs and parameters; never change
    emission,   \* each pass's order within each group, from the seed; never changes
    script,     \* the records of each pass as specified below; never changes
    epoch,      \* passes begun
    feed,       \* what each group's goroutine has still to send
    producer,   \* each group's goroutine: "walk", "offer", "broken", "closed"
    stale,      \* goroutines of a pass that is over, with where they stand
    phase,      \* of the merge: "start", "fill", "choose", "refill", "over"
    turn,       \* the group the merge waits for
    heads,      \* the next record of each group, or none
    emitted,    \* tokens each group has had in this pass
    queue,      \* the prefetch queue
    out,        \* what the reader has been given
    end,        \* how the inner stream ended: "", "done", "failed", "stopped"
    result,     \* what Stream has returned: "", "ok", "error", "enough"
    cancelled, faults

fixed == <<plan, emission, script>>
merge == <<phase, turn, heads, emitted>>
vars == <<fixed, epoch, feed, producer, stale, merge, queue, out, end, result, cancelled, faults>>

-----------------------------------------------------------------------------
(* One pass of one group: streamInputGroup *)

Balanced == plan.order # "bounded"
Groups == IF Balanced THEN Corpora ELSE {1}
Rows(c) == [i \in 1..plan.rows[c] |-> <<c, i>>]
Members(g) ==
    IF Balanced THEN Rows(g)
    ELSE FlattenSeq([c \in 1..Cardinality(Corpora) |-> Rows(c)])

Draw(g, e, k, n) == 1 + ((plan.seed + 2 * g + 3 * e + k * k) % n)
Swapped(s, i, j) == [s EXCEPT ![i] = s[j], ![j] = s[i]]
ShardOrder(g, e) ==
    FoldLeft(LAMBDA s, i : Swapped(s, i, Draw(g, e, i, i)), Members(g),
             [k \in 1..Len(Members(g)) - 1 |-> Len(Members(g)) + 1 - k])

BytesOf(s) == FoldLeft(LAMBDA n, r : n + Size(r), 0, s)
Full(buffer, r) ==
    Len(buffer) >= BufferRecords \/ BytesOf(buffer) + Size(r) > BufferBytes

(* A record of the window is emitted and the last one takes its place.      *)
Evict(g, e, b) ==
    LET p == Draw(g, e, b.draws, Len(b.buffer)) IN
    [buffer |-> Front([b.buffer EXCEPT ![p] = Last(b.buffer)]),
     out |-> Append(b.out, b.buffer[p]), draws |-> b.draws + 1]

MakeRoom(g, e, b, r) ==
    FoldLeft(LAMBDA c, k : IF c.buffer # <<>> /\ Full(c.buffer, r) THEN Evict(g, e, c) ELSE c,
             b, b.buffer)
Enter(g, e, b, r) ==
    IF Size(r) > BufferBytes THEN [b EXCEPT !.out = Append(@, r)]
    ELSE LET c == MakeRoom(g, e, b, r) IN [c EXCEPT !.buffer = Append(@, r)]

(* The order in which the group emits its records in pass e.                *)
Shuffled(g, e) ==
    LET b == FoldLeft(LAMBDA c, r : Enter(g, e, c, r),
                      [buffer |-> <<>>, out |-> <<>>, draws |-> 0], ShardOrder(g, e))
    IN FoldLeft(LAMBDA c, k : Evict(g, e, c), b, b.buffer).out

-----------------------------------------------------------------------------
(* A specification of the passes, without goroutines, to compare with *)

Weight(g) == IF plan.order = "weighted" THEN g ELSE 1
Lightest(tokens, open) ==
    CHOOSE g \in open : \A h \in open :
        \/ tokens[g] * Weight(h) < tokens[h] * Weight(g)
        \/ tokens[g] * Weight(h) = tokens[h] * Weight(g) /\ g <= h

MergeStep(m) ==
    LET open == {g \in Groups : m.left[g] # <<>>} IN
    IF m.over \/ open = {} THEN m
    ELSE LET g == Lightest(m.tokens, open)
             r == Head(m.left[g])
         IN [left |-> [m.left EXCEPT ![g] = Tail(@)],
             tokens |-> [m.tokens EXCEPT ![g] = @ + Tokens(r)],
             out |-> Append(m.out, r),
             over |-> plan.order = "weighted" /\ Len(m.left[g]) = 1]

Pass(e) ==
    FoldLeft(LAMBDA m, k : MergeStep(m),
             [left |-> emission[e], tokens |-> [g \in Groups |-> 0],
              out |-> <<>>, over |-> FALSE],
             FlattenSeq([c \in 1..Cardinality(Corpora) |-> Rows(c)])).out

(* trainingRecord: a held-out record is not for training.                   *)
Kept(s) == SelectSeq(s, LAMBDA r : r \notin plan.held)
Passes(n) == FlattenSeq([i \in 1..n |-> script[i]])

-----------------------------------------------------------------------------
None == <<>>

TypeOK ==
    /\ epoch \in 0..MaxEpochs
    /\ \A g \in Groups :
        /\ producer[g] \in {"walk", "offer", "broken", "closed"}
        /\ heads[g] \in {None} \cup Records /\ emitted[g] \in Nat
        /\ \A i \in 1..Len(feed[g]) : feed[g][i] \in Records
    /\ stale \subseteq (1..MaxEpochs) \X Corpora \X {"walk", "offer", "broken"}
    /\ phase \in {"start", "fill", "choose", "refill", "over"} /\ turn \in Corpora
    /\ Len(queue) <= Depth /\ \A i \in 1..Len(out) : out[i] \in Records
    /\ end \in {"", "done", "failed", "stopped"} /\ result \in {"", "ok", "error", "enough"}
    /\ cancelled \in BOOLEAN /\ faults \in 0..MaxFaults

(* A token-budget stage repeats until its reader has enough; preflight      *)
(* reads directly.  A pass that delivers nothing is left out: README        *)
(* section 6.                                                               *)
Init ==
    /\ plan \in [order : {"bounded", "balanced", "weighted"}, rows : [Corpora -> 0..MaxRows],
                 epochs : 1..MaxEpochs, repeat : BOOLEAN, target : Targets,
                 held : {{}} \cup {{<<c, 1>>} : c \in Corpora}, seed : Seeds, prefetched : BOOLEAN]
    /\ \A r \in plan.held : r[2] <= plan.rows[r[1]]
    /\ plan.repeat => plan.prefetched /\ plan.epochs = 1
    /\ emission = [e \in 1..MaxEpochs |-> [g \in Groups |-> Shuffled(g, e)]]
    /\ script = [e \in 1..MaxEpochs |-> Kept(Pass(e))]
    /\ \A e \in 1..MaxEpochs : script[e] # <<>>
    /\ plan.repeat => Len(Passes(MaxEpochs)) >= plan.target
    /\ epoch = 0
    /\ feed = [g \in Groups |-> <<>>] /\ producer = [g \in Groups |-> "closed"]
    /\ stale = {} /\ phase = "start" /\ turn = 1
    /\ heads = [g \in Groups |-> None] /\ emitted = [g \in Groups |-> 0]
    /\ queue = <<>> /\ out = <<>> /\ end = "" /\ result = ""
    /\ cancelled = FALSE /\ faults = 0

Fault == faults < MaxFaults /\ faults' = faults + 1
Stopped == cancelled \/ result # ""     \* the context of the (prefetching) stream

(* Stream: one more pass, its goroutines started.                           *)
BeginPass ==
    /\ end = "" /\ phase = "start" /\ (plan.repeat \/ epoch < plan.epochs)
    /\ epoch < MaxEpochs
    /\ epoch' = epoch + 1
    /\ feed' = emission[epoch + 1]
    /\ producer' = [g \in Groups |-> IF Balanced THEN "walk" ELSE "closed"]
    /\ heads' = [g \in Groups |-> None] /\ emitted' = [g \in Groups |-> 0]
    /\ turn' = 1 /\ phase' = (IF Balanced THEN "fill" ELSE "choose")
    /\ UNCHANGED <<fixed, stale, queue, out, end, result, cancelled, faults>>

(* The pass returns, and with it cancels the goroutines it leaves behind.   *)
Leave == stale' = stale \cup {<<epoch, g, producer[g]>> : g \in {h \in Groups : producer[h] # "closed"}}

Ends(how) == /\ end' = how /\ phase' = "over"
             /\ Leave /\ producer' = [g \in Groups |-> "closed"]

(* A pass after the reader has stopped would emit nothing, which is an      *)
(* error too; the bound on passes leaves it out.                            *)
LastPass ==
    /\ end = "" /\ phase = "start"
    /\ \/ ~plan.repeat /\ epoch = plan.epochs /\ end' = "done"
       \/ plan.repeat /\ epoch = MaxEpochs /\ Stopped /\ end' = "failed"
    /\ phase' = "over"
    /\ UNCHANGED <<fixed, epoch, feed, producer, stale, turn, heads, emitted, queue, out,
                   result, cancelled, faults>>

-----------------------------------------------------------------------------
(* The goroutine of a group *)

(* emit looks at the context before it sends; a goroutine that finds it     *)
(* done closes its channel and says nothing.                                *)
Walk(g) ==
    /\ Balanced /\ producer[g] = "walk"
    /\ producer' = [producer EXCEPT ![g] =
                       IF feed[g] = <<>> THEN "closed"
                       ELSE IF Stopped THEN "closed" ELSE "offer"]
    /\ UNCHANGED <<fixed, epoch, feed, stale, merge, queue, out, end, result, cancelled, faults>>

ReadFails(g) ==
    /\ Balanced /\ producer[g] = "walk" /\ feed[g] # <<>> /\ ~Stopped /\ Fault
    /\ producer' = [producer EXCEPT ![g] = "broken"]
    /\ UNCHANGED <<fixed, epoch, feed, stale, merge, queue, out, end, result, cancelled>>

(* Both of its sends also wait for the context.                             *)
GiveUp(g) ==
    /\ producer[g] \in {"offer", "broken"} /\ Stopped
    /\ producer' = [producer EXCEPT ![g] = "closed"]
    /\ UNCHANGED <<fixed, epoch, feed, stale, merge, queue, out, end, result, cancelled, faults>>

LeftBehindOffering(x) ==                                              \* mutant
    /\ x \in stale /\ x[3] # "offer"
    /\ stale' = stale \ {x}
    /\ UNCHANGED <<fixed, epoch, feed, producer, merge, queue, out, end, result, cancelled, faults>>

LeftBehind(x) ==
    /\ x \in stale
    /\ stale' = stale \ {x}
    /\ UNCHANGED <<fixed, epoch, feed, producer, merge, queue, out, end, result, cancelled, faults>>

-----------------------------------------------------------------------------
(* The merge: streamBalancedEpoch *)

After(g) == IF g + 1 \in Groups THEN /\ turn' = g + 1 /\ phase' = "fill"
            ELSE /\ turn' = g /\ phase' = "choose"

Take(g) == /\ heads' = [heads EXCEPT ![g] = Head(feed[g])]
           /\ feed' = [feed EXCEPT ![g] = Tail(@)]
           /\ producer' = [producer EXCEPT ![g] = "walk"]

(* The first record of each group, in the order of their names.             *)
Fill ==
    /\ phase = "fill"
    /\ \/ producer[turn] = "offer" /\ Take(turn) /\ After(turn) /\ UNCHANGED <<stale, end>>
       \/ /\ producer[turn] = "closed" /\ After(turn)
          /\ UNCHANGED <<feed, producer, stale, heads, end>>
       \/ producer[turn] = "broken" /\ Ends("failed") /\ UNCHANGED <<feed, heads, turn>>
    /\ UNCHANGED <<fixed, epoch, emitted, queue, out, result, cancelled, faults>>

WeightedBefore(tokens, g, h) == tokens[g] * Weight(h) < tokens[h] * Weight(g)
Active == {g \in Groups : heads[g] # None}

SelectedLast ==                                                       \* mutant
    CHOOSE g \in Active : \A h \in Active :
        ~WeightedBefore(emitted, h, g) /\ (WeightedBefore(emitted, g, h) \/ g >= h)

(* The first of the groups that have had least for their weight.            *)
Selected ==
    CHOOSE g \in Active : \A h \in Active :
        ~WeightedBefore(emitted, h, g) /\ (WeightedBefore(emitted, g, h) \/ g <= h)

(* What the stream hands on: to the reader, or into the prefetch queue.     *)
Hand(r) ==
    IF r \in plan.held THEN UNCHANGED <<queue, out>>
    ELSE IF plan.prefetched
    THEN Len(queue) < Depth /\ queue' = Append(queue, r) /\ UNCHANGED out
    ELSE out' = Append(out, r) /\ UNCHANGED queue

Enough == Len(out) >= plan.target
Read == Enough /\ ~plan.prefetched      \* a direct reader's error ends the pass

Choose ==
    /\ Balanced /\ phase = "choose" /\ Active # {} /\ ~Read
    /\ Hand(heads[Selected])
    /\ emitted' = [emitted EXCEPT ![Selected] = @ + Tokens(heads[Selected])]
    /\ turn' = Selected /\ phase' = "refill"
    /\ UNCHANGED <<fixed, epoch, feed, producer, stale, heads, end, result, cancelled, faults>>

(* A group that is exhausted ends a weighted pass; the others drain.        *)
Refill ==
    /\ phase = "refill" /\ ~Read
    /\ \/ producer[turn] = "offer" /\ Take(turn) /\ phase' = "choose" /\ UNCHANGED <<stale, end>>
       \/ /\ producer[turn] = "closed" /\ heads' = [heads EXCEPT ![turn] = None]
          /\ IF plan.order = "weighted"
             THEN /\ phase' = "start" /\ Leave
                  /\ producer' = [g \in Groups |-> "closed"]
             ELSE phase' = "choose" /\ UNCHANGED <<producer, stale>>
          /\ UNCHANGED <<feed, end>>
       \/ producer[turn] = "broken" /\ Ends("failed") /\ UNCHANGED <<feed, heads>>
    /\ UNCHANGED <<fixed, epoch, turn, emitted, queue, out, result, cancelled, faults>>

(* All groups are drained.  A pass that emitted nothing at all is an error. *)
PassOver ==
    /\ phase = "choose" /\ (IF Balanced THEN Active = {} ELSE feed[1] = <<>>)
    /\ IF \A g \in Groups : emitted[g] = 0 THEN Ends("failed")
       ELSE phase' = "start" /\ UNCHANGED <<end, producer, stale>>
    /\ UNCHANGED <<fixed, epoch, feed, turn, heads, emitted, queue, out, result, cancelled, faults>>

(* Without corpora to merge, the stream emits the records itself.           *)
Emit ==
    /\ ~Balanced /\ phase = "choose" /\ feed[1] # <<>> /\ ~Read
    /\ \/ Stopped /\ Ends("stopped") /\ UNCHANGED <<feed, emitted, queue, out, faults>>
       \/ ~Stopped /\ Fault /\ Ends("failed") /\ UNCHANGED <<feed, emitted, queue, out>>
       \/ /\ ~Stopped /\ Hand(Head(feed[1]))
          /\ feed' = [feed EXCEPT ![1] = Tail(@)]
          /\ emitted' = [emitted EXCEPT ![1] = @ + Tokens(Head(feed[1]))]
          /\ UNCHANGED <<producer, stale, phase, end, faults>>
    /\ UNCHANGED <<fixed, epoch, turn, heads, result, cancelled>>

(* A full prefetch queue waits for the context as well.                     *)
QueueRefused ==
    /\ plan.prefetched /\ phase = "choose" /\ Stopped
    /\ IF Balanced THEN Active # {} ELSE feed[1] # <<>>
    /\ Ends("stopped")
    /\ UNCHANGED <<fixed, epoch, feed, turn, heads, emitted, queue, out, result, cancelled, faults>>

-----------------------------------------------------------------------------
(* The reader *)

TakePrefetched ==
    /\ plan.prefetched /\ result = "" /\ queue # <<>> /\ ~Enough
    /\ out' = Append(out, Head(queue)) /\ queue' = Tail(queue)
    /\ UNCHANGED <<fixed, epoch, feed, producer, stale, merge, end, result, cancelled, faults>>

(* It has enough; the stream then stops with its error.                     *)
StopReading ==
    /\ result = "" /\ Enough /\ result' = "enough"
    /\ IF end = "" /\ ~plan.prefetched THEN Ends("stopped")
       ELSE UNCHANGED <<end, phase, producer, stale>>
    /\ UNCHANGED <<fixed, epoch, feed, turn, heads, emitted, queue, out, cancelled, faults>>

(* Prefetching asks the context at the end; the direct stream does not.     *)
Verdict ==
    IF end = "failed" \/ (plan.prefetched /\ cancelled) \/ (~plan.prefetched /\ end = "stopped")
    THEN "error" ELSE "ok"

Return ==
    /\ result = "" /\ end # "" /\ queue = <<>> /\ ~Enough
    /\ result' = Verdict
    /\ UNCHANGED <<fixed, epoch, feed, producer, stale, merge, queue, out, end, cancelled, faults>>

Cancel ==
    /\ ~cancelled /\ result = "" /\ Fault
    /\ cancelled' = TRUE
    /\ UNCHANGED <<fixed, epoch, feed, producer, stale, merge, queue, out, end, result>>

-----------------------------------------------------------------------------
Merge == BeginPass \/ LastPass \/ Fill \/ Choose \/ Refill \/ PassOver \/ Emit \/ QueueRefused
Reader == TakePrefetched \/ StopReading \/ Return
Producer(g) == Walk(g) \/ GiveUp(g)

Next ==
    \/ Merge \/ Reader \/ Cancel
    \/ \E g \in Groups : Producer(g) \/ ReadFails(g)
    \/ \E x \in stale : LeftBehind(x)

Spec ==
    /\ Init /\ [][Next]_vars
    /\ WF_vars(Merge) /\ WF_vars(Reader)
    /\ \A g \in Corpora : WF_vars(g \in Groups /\ Producer(g))
    /\ WF_vars(\E x \in stale : LeftBehind(x))

-----------------------------------------------------------------------------
(* Properties *)

(* Whatever order the goroutines run in, the records come in the order the  *)
(* seed gives: every node of a run packs the same sequences from them.  The *)
(* order is lost once the stream is cancelled: README section 6.            *)
OrderIsSeeded == cancelled \/ IsPrefix(out, Passes(epoch))

(* A stream that ends well, not cut short by its reader or a cancellation,  *)
(* has delivered every training record once in each pass and never one held *)
(* out.  A weighted pass may end before the rest of a corpus.  A cancelled  *)
(* stream of the worker is never taken for a whole one.                     *)
Occurrences(r) == Cardinality({i \in 1..Len(out) : out[i] = r})

EveryRecordOnce ==
    result = "ok" =>
        /\ plan.prefetched => ~cancelled
        /\ ~cancelled => \A r \in Records :
            \/ Occurrences(r) = IF r[2] <= plan.rows[r[1]] /\ r \notin plan.held THEN plan.epochs ELSE 0
            \/ plan.order = "weighted" /\ r \notin plan.held /\ Occurrences(r) <= plan.epochs

(* While two corpora still have records, neither is ahead of its share of   *)
(* the tokens by more than its latest record.                               *)
SharesHold ==
    phase \in {"choose", "refill"} /\ Balanced =>
        \A g, h \in Active :
            emitted[g] * Weight(h) <= emitted[h] * Weight(g) + 3 * Weight(h)

(* A stream returns, and no goroutine of it stays behind.                   *)
NothingStays ==
    <>[](result # "" /\ end # "" /\ stale = {} /\ \A g \in Groups : producer[g] = "closed")

(* What the comment above TrainingSteps says of its scan: the exact count.  *)
ScanIsWhole ==
    result = "ok" /\ plan.order = "balanced" =>
        \A c \in Corpora : \A i \in 1..plan.rows[c] :
            <<c, i>> \in plan.held \/ Occurrences(<<c, i>>) = plan.epochs
=============================================================================
