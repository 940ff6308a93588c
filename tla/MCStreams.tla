------------------------------- MODULE MCStreams -------------------------------
(* The records of a training run (the extended module) and the sequences a   *)
(* node packs from them for its worker (`Prepared`).  The two share nothing  *)
(* but the records, so each behaviour is of one side; the other side stays   *)
(* as it began.                                                              *)
EXTENDS CorpusStream

VARIABLES
  side,
  shape, cache, temporary, pc, builder, keeps, resume, limit, cursor, chunk, sent, pfaults

prepared == <<shape, cache, temporary, pc, builder, keeps, resume, limit, cursor, chunk, sent,
              pfaults>>

Attempts == {1, 2}
Prepared == INSTANCE PreparedStream WITH
  MaxNodes <- 2, MaxGPUs <- 2, MaxAccumulation <- 2, MaxSteps <- 2, MaxSequences <- 5,
  ChunkLimit <- 2, Limits <- {1, 9}, OverlapBound <- 2, MaxFaults <- 1,
  faults <- pfaults

ASSUME PreparedAssumption == Prepared!StreamConstants

RecordsRest ==
  /\ plan = [order |-> "bounded", rows |-> [c \in Corpora |-> 1], epochs |-> 1, repeat |-> FALSE,
             target |-> 3, held |-> {}, seed |-> CHOOSE s \in Seeds : TRUE, prefetched |-> TRUE]
  /\ Init
PreparedRests ==
  /\ shape = [nodes |-> 2, gpus |-> 1, node |-> 0, micro |-> 2, accumulation |-> 1, steps |-> 1,
              available |-> 1]
  /\ Prepared!Init

(* Bounds of this run: at most four records; the first one may be held out   *)
(* of a stream that is read to its end; a micro-batch is divided among the processes of a node *)
(* or a step into micro-batches, not both.                                   *)
FewRecords ==
  /\ plan.rows[1] <= 2 /\ plan.rows[1] + plan.rows[2] <= 4
  /\ plan.held # {} => <<1, 1>> \in plan.held /\ plan.target > 4
OneDivision == shape.gpus = 1 \/ shape.accumulation = 1

MCInit ==
  \/ side = "records" /\ Init /\ FewRecords /\ PreparedRests
  \/ side = "prepared" /\ Prepared!Init /\ OneDivision /\ RecordsRest

(* Attempts differ in nothing: the first to begin is called 1.              *)
InOrder == pc[2] = "idle" \/ pc[1] # "idle"

MCNext ==
  \/ side = "records" /\ Next /\ UNCHANGED <<side, prepared>>
  \/ side = "prepared" /\ Prepared!Next /\ InOrder' /\ UNCHANGED <<side, vars>>

(* The fairness of each module, for its own behaviours.                     *)
MCSpec ==
  /\ MCInit /\ [][MCNext]_<<side, vars, prepared>>
  /\ WF_vars(side = "records" /\ Merge) /\ WF_vars(side = "records" /\ Reader)
  /\ \A g \in Corpora : WF_vars(side = "records" /\ g \in Groups /\ Producer(g))
  /\ WF_vars(side = "records" /\ \E x \in stale : LeftBehind(x))
  /\ \A a \in Attempts : WF_prepared(side = "prepared" /\ Prepared!Work(a))

-----------------------------------------------------------------------------
(* The records come in the seed's order whatever goroutine is faster, each   *)
(* of them once in a pass, the corpora in their shares (stream.go).          *)
StreamIsDetermined ==
  side = "records" => TypeOK /\ OrderIsSeeded /\ EveryRecordOnce /\ SharesHold

(* Packed or replayed, from the start or a checkpoint, alone or beside       *)
(* another process, the worker gets its node's frames, and what is kept for  *)
(* the next attempt is the node's whole share (prepared_cache.go).           *)
InputIsExact ==
  side = "prepared" =>
    Prepared!TypeOK /\ Prepared!StreamIsExact /\ Prepared!CacheIsComplete

(* A stream returns and leaves no goroutine behind, and the input of an      *)
(* attempt comes to an end (stream.go, prepared_cache.go).                   *)
StreamsEnd == /\ side = "records" => NothingStays
              /\ Prepared!InputEnds
===============================================================================
