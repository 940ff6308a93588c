---------------------------- MODULE PreparedStream ----------------------------
(***************************************************************************)
(* The node-local input of distributed training.  Every node packs the     *)
(* corpus into the same numbered sequences and sends its worker its own    *)
(* share, with a boundary after each global micro-batch.  A complete share *)
(* is kept as a directory of chunks with a manifest, so that an attempt    *)
(* that resumes at a checkpoint can replay it instead.                     *)
(*                                                                         *)
(* One node's cache directory and the attempts that use it: an attempt is  *)
(* a WALDO process, and an orphaned worker may overlap the next one.       *)
(* A sequence is its ordinal; encoding is left out but for the digest, and *)
(* sizes are counted in sequences.                                         *)
(***************************************************************************)
EXTENDS Integers, Sequences, FiniteSets, SequencesExt

CONSTANTS
    Attempts,       \* processes, in any order and possibly at once
    MaxNodes, MaxGPUs, MaxAccumulation, MaxSteps,   \* bounds of the topologies tried
    MaxSequences,   \* bound: sequences of a stream
    ChunkLimit,     \* preparedChunkLimit, in sequences
    Limits,         \* PreparedCacheMaxBytes of an attempt, in sequences
    OverlapBound,   \* bound: attempts overlap on streams up to this many sequences
    MaxFaults       \* bound: kills and damaged chunks

(* What is assumed of the constants.                                       *)
StreamConstants ==
    /\ IsFiniteSet(Attempts) /\ ChunkLimit \in Nat \ {0}
    /\ OverlapBound \in Nat /\ MaxFaults \in Nat
    /\ Limits \subseteq Nat \ {0}
    /\ {MaxNodes, MaxGPUs, MaxAccumulation, MaxSteps, MaxSequences} \subseteq Nat \ {0}

-----------------------------------------------------------------------------
(* What a node has to send *)

World(s) == s.nodes * s.gpus
Batch(s) == s.micro * s.accumulation
Target(s) == s.steps * Batch(s)
Total(s) == IF s.available < Target(s) THEN s.available ELSE Target(s)

(* ValidateBatchTopology, and a corpus that reaches into the last step.  In *)
(* addition every node owns a sequence: README section 6.                   *)
Shapes ==
    {s \in [nodes : 2..MaxNodes, gpus : 1..MaxGPUs, node : 0..MaxNodes - 1,
            micro : 2..MaxNodes * MaxGPUs, accumulation : 1..MaxAccumulation,
            steps : 1..MaxSteps, available : 1..MaxSequences + 1] :
        /\ s.node < s.nodes /\ s.micro % World(s) = 0
        /\ s.available >= Target(s) - Batch(s) + 1 /\ s.available <= Target(s) + 1
        /\ Total(s) \in s.node * s.gpus + 1..MaxSequences}

Owned(s, ordinal) == (ordinal % World(s)) \div s.gpus = s.node
Boundary == -1
EndFrame == -2
Damaged == -3       \* a sequence of a damaged chunk

(* The frames sequence `ordinal` brings for this node, when the attempt     *)
(* resumes after `from` sequences.                                          *)
Frames(s, from, ordinal) ==
    (IF Owned(s, ordinal) /\ ordinal >= from THEN <<ordinal>> ELSE <<>>)
        \o (IF ordinal + 1 > from /\ (ordinal + 1) % s.micro = 0 THEN <<Boundary>> ELSE <<>>)

Stream(s, from) ==
    FlattenSeq([i \in 1..Total(s) |-> Frames(s, from, i - 1)]) \o <<EndFrame>>

Share(s) == SelectSeq([i \in 1..Total(s) |-> i - 1], LAMBDA o : Owned(s, o))

(* Chunks as Append and closeChunk cut them.                                *)
Chunked(share) ==
    [i \in 1..(Len(share) + ChunkLimit - 1) \div ChunkLimit |->
        SubSeq(share, (i - 1) * ChunkLimit + 1,
               IF i * ChunkLimit < Len(share) THEN i * ChunkLimit ELSE Len(share))]

-----------------------------------------------------------------------------
VARIABLES
    shape,      \* the run: topology, node, steps, corpus; never changes
    cache,      \* node-N: its chunks, or none
    temporary,  \* .node-N-*: the chunks an attempt has written, or none
    pc,         \* where the attempt's input stream is
    builder,    \* its background writer: "none", "writing", "done"
    keeps,      \* the writer (of either kind) still has its cache enabled
    resume, limit,      \* the attempt's step to resume at and its cache limit
    cursor,     \* [fore, back]: sequences the two writers have packed
    chunk,      \* chunks replayed
    sent,       \* what the worker has been given
    faults

vars == <<shape, cache, temporary, pc, builder, keeps, resume, limit, cursor, chunk, sent, faults>>
attempt == <<resume, limit>>

None == [chunks |-> <<>>, global |-> 0, damaged |-> {}, indexed |-> FALSE, whole |-> FALSE]
Gone == <<-1>>      \* a temporary directory another process has removed
NoTemp == <<-2>>

TypeOK ==
    /\ shape \in Shapes
    /\ cache.global \in 0..Total(shape) /\ cache.damaged \subseteq 1..Len(cache.chunks)
    /\ cache.whole \in BOOLEAN /\ cache.indexed \in BOOLEAN
    /\ \A a \in Attempts :
        /\ temporary[a] \in {NoTemp, Gone} \/ IsPrefix(temporary[a], Share(shape))
        /\ pc[a] \in {"idle", "open", "direct", "inline", "replay", "ended", "failed", "killed"}
        /\ builder[a] \in {"none", "writing", "done"} /\ keeps[a] \in BOOLEAN
        /\ resume[a] \in 0..shape.steps /\ limit[a] \in Limits
        /\ cursor[a].fore \in 0..Total(shape) /\ cursor[a].back \in 0..Total(shape)
        /\ chunk[a] \in 0..Len(Chunked(Share(shape)))
        /\ \A i \in 1..Len(sent[a]) : sent[a][i] \in {Boundary, EndFrame, Damaged} \cup 0..Total(shape)
    /\ faults \in 0..MaxFaults

(* A former version may have left a cache without an index.                 *)
Init ==
    /\ shape \in Shapes
    /\ cache \in {None, [chunks |-> Chunked(Share(shape)), global |-> Total(shape),
                         damaged |-> {}, indexed |-> FALSE, whole |-> TRUE]}
    /\ temporary = [a \in Attempts |-> NoTemp]
    /\ pc = [a \in Attempts |-> "idle"] /\ builder = [a \in Attempts |-> "none"]
    /\ keeps = [a \in Attempts |-> FALSE]
    /\ resume = [a \in Attempts |-> 0] /\ limit = [a \in Attempts |-> CHOOSE l \in Limits : TRUE]
    /\ cursor = [a \in Attempts |-> [fore |-> 0, back |-> 0]]
    /\ chunk = [a \in Attempts |-> 0] /\ sent = [a \in Attempts |-> <<>>]
    /\ faults = 0

Fault == faults < MaxFaults /\ faults' = faults + 1
From(a) == resume[a] * Batch(shape)

(* loadPreparedCache without verification sees what is missing, not what is *)
(* damaged.                                                                 *)
Ready == cache.whole
Oversized(a) == Len(Share(shape)) > limit[a]

(* newPreparedCacheWriter: a temporary directory of this node is taken for  *)
(* the left-over of an interrupted writer.                                  *)
NewWriter(a) ==
    /\ temporary' = [b \in Attempts |-> IF b = a THEN <<>>
                                        ELSE IF temporary[b] = NoTemp THEN NoTemp ELSE Gone]
    /\ keeps' = [keeps EXCEPT ![a] = TRUE]

NoFrames == UNCHANGED sent
Send(a, frames) == sent' = [sent EXCEPT ![a] = @ \o frames]

Busy(a) == pc[a] \notin {"idle", "ended", "failed", "killed"} \/ builder[a] = "writing"

(* startPreparedCacheBuilder: a new run without a cache streams directly    *)
(* and lets a second pass build the cache; a resumed one may replay.        *)
Begin(a, step) ==
    /\ pc[a] = "idle"
    /\ Total(shape) <= OverlapBound \/ \A b \in Attempts : ~Busy(b)
    /\ resume' = [resume EXCEPT ![a] = step]
    /\ \E l \in Limits : limit' = [limit EXCEPT ![a] = l]
    /\ \/ /\ step = shape.steps                   \* only final bookkeeping is left
          /\ pc' = [pc EXCEPT ![a] = "ended"] /\ Send(a, <<EndFrame>>)
          /\ UNCHANGED <<builder, temporary, keeps>>
       \/ /\ step = 0 /\ ~Ready
          /\ pc' = [pc EXCEPT ![a] = "direct"] /\ builder' = [builder EXCEPT ![a] = "writing"]
          /\ NewWriter(a) /\ NoFrames
       \/ /\ step < shape.steps /\ (step > 0 \/ Ready)
          /\ pc' = [pc EXCEPT ![a] = "open"] /\ NoFrames
          /\ UNCHANGED <<builder, temporary, keeps>>
    /\ UNCHANGED <<shape, cache, cursor, chunk, faults>>

(* replayPreparedSequences: no cache, or one above the limit, which is      *)
(* removed, means packing again, and keeping the result.                    *)
OpenCache(a) ==
    /\ pc[a] = "open"
    /\ \/ /\ Ready /\ ~Oversized(a) /\ pc' = [pc EXCEPT ![a] = "replay"]
          /\ UNCHANGED <<cache, temporary, keeps>>
       \/ /\ ~Ready \/ Oversized(a)
          /\ pc' = [pc EXCEPT ![a] = "inline"]
          /\ cache' = (IF Ready THEN None ELSE cache)
          /\ NewWriter(a)
    /\ UNCHANGED <<shape, builder, attempt, cursor, chunk, sent, faults>>

-----------------------------------------------------------------------------
(* Packing, in the foreground and in the background *)

(* One step packs up to the next boundary of a micro-batch.                 *)
UpTo(n) == LET next == (n \div shape.micro + 1) * shape.micro
           IN IF next < Total(shape) THEN next ELSE Total(shape)
Packed(n) == SelectSeq([i \in 1..UpTo(n) - n |-> n + i - 1], LAMBDA o : Owned(shape, o))

(* Append: beyond the limit the cache is given up and the stream goes on.   *)
(* A writer whose directory another process removed finds out when it       *)
(* creates the next file there.                                             *)
AppendFails(a, n) == keeps[a] /\ Packed(n) # <<>> /\ temporary[a] = Gone

AppendTo(a, n) ==
    IF ~keeps[a] THEN UNCHANGED <<temporary, keeps>>
    ELSE IF Len(temporary[a] \o Packed(n)) > limit[a]
    THEN /\ temporary' = [temporary EXCEPT ![a] = NoTemp]
         /\ keeps' = [keeps EXCEPT ![a] = FALSE]
    ELSE temporary' = [temporary EXCEPT ![a] = @ \o Packed(n)] /\ UNCHANGED keeps

Pack(a) ==
    /\ pc[a] \in {"direct", "inline"} /\ cursor[a].fore < Total(shape)
    /\ LET n == cursor[a].fore IN
       IF pc[a] = "inline" /\ AppendFails(a, n)
       THEN /\ pc' = [pc EXCEPT ![a] = "failed"]
            /\ UNCHANGED <<temporary, keeps, sent, cursor>>
       ELSE /\ Send(a, FlattenSeq([i \in 1..UpTo(n) - n |-> Frames(shape, From(a), n + i - 1)]))
            /\ cursor' = [cursor EXCEPT ![a].fore = UpTo(n)]
            /\ IF pc[a] = "inline" THEN AppendTo(a, n) ELSE UNCHANGED <<temporary, keeps>>
            /\ UNCHANGED pc
    /\ UNCHANGED <<shape, cache, builder, attempt, chunk, faults>>

PackBehind(a) ==
    /\ builder[a] = "writing" /\ pc[a] \in {"direct", "ended"} /\ cursor[a].back < Total(shape)
    /\ LET n == cursor[a].back IN
       IF AppendFails(a, n)
       THEN builder' = [builder EXCEPT ![a] = "done"] /\ UNCHANGED <<temporary, keeps, cursor>>
       ELSE AppendTo(a, n) /\ cursor' = [cursor EXCEPT ![a].back = UpTo(n)] /\ UNCHANGED builder
    /\ UNCHANGED <<shape, cache, pc, attempt, chunk, sent, faults>>

(* Commit: the manifest is written and the directory renamed; where another *)
(* process was faster, its directory is verified in full.  FALSE: an error. *)
Verified == cache.whole /\ cache.damaged = {}
CommitFails(a) ==
    keeps[a] /\ (temporary[a] = Gone \/ (cache # None /\ ~Verified))

CommitTo(a) ==
    IF keeps[a] /\ cache = None
    THEN /\ cache' = [chunks |-> Chunked(temporary[a]), global |-> Total(shape),
                      damaged |-> {}, indexed |-> TRUE, whole |-> TRUE]
         /\ temporary' = [temporary EXCEPT ![a] = NoTemp]
    ELSE UNCHANGED <<cache, temporary>>

(* The stream ends with its frame; a cache that cannot be committed is an   *)
(* error of the foreground writer only.                                     *)
Finish(a) ==
    /\ pc[a] \in {"direct", "inline"} /\ cursor[a].fore = Total(shape)
    /\ IF pc[a] = "inline" /\ CommitFails(a)
       THEN pc' = [pc EXCEPT ![a] = "failed"] /\ UNCHANGED <<cache, temporary, sent>>
       ELSE /\ pc' = [pc EXCEPT ![a] = "ended"] /\ Send(a, <<EndFrame>>)
            /\ IF pc[a] = "inline" THEN CommitTo(a) ELSE UNCHANGED <<cache, temporary>>
    /\ UNCHANGED <<shape, builder, keeps, attempt, cursor, chunk, faults>>

FinishBehind(a) ==
    /\ builder[a] = "writing" /\ pc[a] \in {"direct", "ended"} /\ cursor[a].back = Total(shape)
    /\ builder' = [builder EXCEPT ![a] = "done"]
    /\ IF CommitFails(a) THEN UNCHANGED <<cache, temporary>> ELSE CommitTo(a)
    /\ UNCHANGED <<shape, pc, keeps, attempt, cursor, chunk, sent, faults>>

StopBuilderCommits(a) ==                                              \* mutant
    /\ builder[a] = "writing" /\ pc[a] = "ended"
    /\ builder' = [builder EXCEPT ![a] = "done"]
    /\ IF CommitFails(a) THEN UNCHANGED <<cache, temporary>> ELSE CommitTo(a)
    /\ UNCHANGED <<shape, pc, keeps, attempt, cursor, chunk, sent, faults>>

(* The worker has ended: stopPreparedCache cancels the builder and waits.   *)
StopBuilder(a) ==
    /\ builder[a] = "writing" /\ pc[a] = "ended"
    /\ builder' = [builder EXCEPT ![a] = "done"]
    /\ temporary' = [temporary EXCEPT ![a] = NoTemp]
    /\ UNCHANGED <<shape, cache, pc, keeps, attempt, cursor, chunk, sent, faults>>

-----------------------------------------------------------------------------
(* Replaying *)

LocalMicro == shape.micro \div shape.nodes
BoundaryLimit(a) == cache.global \div shape.micro - From(a) \div shape.micro
Emitted(a) == Cardinality({i \in 1..Len(sent[a]) : sent[a][i] \notin {Boundary, EndFrame}})
ExpectedFirst(a) == From(a) + shape.node * shape.gpus

(* Sequence number n of this replay, with a boundary when it fills its      *)
(* node's part of a micro-batch that is complete on every node.             *)
Replayed(a, n, frame) ==
    <<frame>> \o (IF n % LocalMicro = 0 /\ n \div LocalMicro <= BoundaryLimit(a)
                  THEN <<Boundary>> ELSE <<>>)

WantedOf(a, ordinals) == SelectSeq(ordinals, LAMBDA o : o >= From(a))

(* An indexed cache skips the chunks before the resume point.  The digest   *)
(* of a chunk is known when all its sequences have been sent.               *)
ReplayChunk(a) ==
    /\ pc[a] = "replay" /\ chunk[a] < Len(cache.chunks) /\ cache.whole
    /\ LET i == chunk[a] + 1
           wanted == WantedOf(a, cache.chunks[i])
           skipped == cache.indexed /\ cache.chunks[i][Len(cache.chunks[i])] < ExpectedFirst(a)
           misplaced == cache.indexed /\ Emitted(a) = 0 /\ wanted # <<>> /\ wanted[1] # ExpectedFirst(a)
           bad == i \in cache.damaged \/ misplaced
       IN /\ chunk' = [chunk EXCEPT ![a] = i]
          /\ IF skipped THEN NoFrames
             ELSE Send(a, FlattenSeq([k \in 1..Len(wanted) |->
                      Replayed(a, Emitted(a) + k, IF bad THEN Damaged ELSE wanted[k])]))
          /\ pc' = [pc EXCEPT ![a] = IF bad /\ ~skipped THEN "failed" ELSE @]
    /\ UNCHANGED <<shape, cache, temporary, builder, keeps, attempt, cursor, faults>>

Incomplete(a) == cache.indexed /\ Emitted(a) = 0 /\ ExpectedFirst(a) < cache.global

(* Another attempt may have removed the cache meanwhile.                    *)
ReplayEnds(a) ==
    /\ pc[a] = "replay"
    /\ IF ~cache.whole \/ (chunk[a] = Len(cache.chunks) /\ Incomplete(a))
       THEN pc' = [pc EXCEPT ![a] = "failed"] /\ NoFrames
       ELSE /\ chunk[a] = Len(cache.chunks)
            /\ pc' = [pc EXCEPT ![a] = "ended"] /\ Send(a, <<EndFrame>>)
    /\ UNCHANGED <<shape, cache, temporary, builder, keeps, attempt, cursor, chunk, faults>>

-----------------------------------------------------------------------------
(* A kill leaves the temporary directory; one in the middle of the removal  *)
(* of an oversized cache leaves that half.  A chunk may be damaged.         *)
Running(a) == pc[a] \notin {"idle", "failed", "killed"}

Kill(a) ==
    /\ Running(a) /\ Fault
    /\ pc' = [pc EXCEPT ![a] = "killed"] /\ builder' = [builder EXCEPT ![a] = "none"]
    /\ cache' \in (IF pc[a] = "open" /\ Ready /\ Oversized(a)
                   THEN {cache, [cache EXCEPT !.whole = FALSE]} ELSE {cache})
    /\ UNCHANGED <<shape, temporary, keeps, attempt, cursor, chunk, sent>>

DamageChunk(i) ==
    /\ cache.whole /\ cache.indexed /\ i \in 1..Len(cache.chunks) \ cache.damaged /\ Fault
    /\ cache' = [cache EXCEPT !.damaged = @ \cup {i}]
    /\ UNCHANGED <<shape, temporary, pc, builder, keeps, attempt, cursor, chunk, sent>>

Work(a) ==
    \/ OpenCache(a) \/ Pack(a) \/ PackBehind(a) \/ Finish(a) \/ FinishBehind(a)
    \/ StopBuilder(a) \/ ReplayChunk(a) \/ ReplayEnds(a)

Next ==
    \/ \E a \in Attempts : Work(a) \/ Kill(a) \/ \E step \in 0..shape.steps : Begin(a, step)
    \/ \E i \in 1..Len(cache.chunks) : DamageChunk(i)

Spec == Init /\ [][Next]_vars /\ \A a \in Attempts : WF_vars(Work(a))

-----------------------------------------------------------------------------
(* Properties *)

(* However the input comes about, packed or replayed, from the start or a   *)
(* checkpoint, alone or beside another process, the worker gets the frames  *)
(* of its node's stream and no others, in order; a damaged chunk may reach  *)
(* it, but never in a stream that ends well.                                *)
IsDamagedPrefix(frames, whole) ==
    /\ Len(frames) <= Len(whole)
    /\ \A i \in 1..Len(frames) : frames[i] \in {whole[i], Damaged}

StreamIsExact ==
    \A a \in Attempts :
        /\ IsDamagedPrefix(sent[a], Stream(shape, From(a)))
        /\ pc[a] = "ended" => IF resume[a] = shape.steps THEN sent[a] = <<EndFrame>>
                              ELSE sent[a] = Stream(shape, From(a))
        /\ (\E i \in 1..Len(sent[a]) : sent[a][i] = Damaged) => pc[a] \in {"failed", "killed"}

(* A directory with a manifest holds the node's whole share, whichever      *)
(* writers were interrupted, overtaken or removed on the way.               *)
CacheIsComplete == cache.whole => FlattenSeq(cache.chunks) = Share(shape)

(* An attempt's input comes to an end, and its builder with it.             *)
InputEnds ==
    \A a \in Attempts :
        pc[a] # "idle" ~> pc[a] \in {"ended", "failed", "killed"} /\ builder[a] # "writing"
=============================================================================
