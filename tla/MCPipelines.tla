----------------------------- MODULE MCPipelines -----------------------------
(* The three pipelines of goroutines and bounded channels: the assembly of   *)
(* shards (the extended module), the call that drives a training worker      *)
(* (`Protocol`), and the pools that verify shards (`Pool`).  They share      *)
(* nothing, so each behaviour is of one of them; the others stay as they     *)
(* began.                                                                    *)
EXTENDS ShardAssembly

VARIABLES
  side,
  mode, graceful, launcher, code, rank, signal, step, said, pipe, inputOpen, produced, records,
  queue, output, readEnd, reader, readError, completed, stopped, waiter, main, writeError,
  abandoned, interrupted, returned, pfaults,
  kind, shards, pins, feeder, worker, results, ids, attested, counted, cause, stopping, call, vfaults

protocol == <<mode, graceful, launcher, code, rank, signal, step, said, pipe, inputOpen, produced,
              records, queue, output, readEnd, reader, readError, completed, stopped, waiter,
              main, writeError, abandoned, interrupted, returned, pfaults>>
pool == <<kind, shards, pins, feeder, worker, results, ids, attested, counted, cause, stopping,
          call, vfaults>>

Protocol == INSTANCE WorkerProtocol WITH
  Records <- 3, Steps <- 2, PipeSize <- 1, Depth <- 1, OutputSize <- 1, MaxFaults <- 1,
  source <- records, cancelled <- interrupted, result <- returned, faults <- pfaults
Pool == INSTANCE ShardVerification WITH
  Length <- 3, Workers <- {1, 2}, Batch <- 2, MaxFlawed <- 1, MaxFaults <- 1,
  channel <- results, seen <- ids, err <- cause, cancelled <- stopping, faults <- vfaults

ASSUME WorkerAssumption == Protocol!ProtocolAssumption

AssemblyRests == rows = <<>> /\ seeded = {} /\ Init
ProtocolRests == mode = "join" /\ graceful = FALSE /\ rank = "none" /\ Protocol!Init
PoolRests ==
  kind = "probe" /\ shards = [p \in 1..3 |-> Pool!Sound(p)] /\ pins = "distinct" /\ Pool!Init

MCInit ==
  \/ side = "assembly" /\ Init /\ ProtocolRests /\ PoolRests
  \/ side = "worker" /\ Protocol!Init /\ AssemblyRests /\ PoolRests
  \/ side = "pool" /\ Pool!Init /\ AssemblyRests /\ ProtocolRests

MCNext ==
  \/ side = "assembly" /\ Next /\ UNCHANGED <<side, protocol, pool>>
  \/ side = "worker" /\ Protocol!Next /\ UNCHANGED <<side, vars, pool>>
  \/ side = "pool" /\ Pool!Next /\ UNCHANGED <<side, vars, protocol>>

(* While a goroutine of a pipeline can go on, one does: less than the        *)
(* fairness of each goroutine that the modules state, and enough, since the  *)
(* others then run out of steps.                                             *)
AssemblyRuns == Assembler \/ Collector \/ \E w \in 1..Workers : Worker(w)
ProtocolRuns == Protocol!Waldo \/ Protocol!SourceEnds \/ Protocol!KillLauncher
PoolRuns ==
  \/ \E w \in {1, 2} : Pool!Hand(w) \/ Pool!Work(w)
  \/ Pool!FeederReturns \/ Pool!Collect \/ Pool!Return

MCSpec ==
  /\ MCInit /\ [][MCNext]_<<side, vars, protocol, pool>>
  /\ WF_vars(side = "assembly" /\ AssemblyRuns)
  /\ WF_protocol(side = "worker" /\ ProtocolRuns)
  /\ WF_pool(side = "pool" /\ PoolRuns)

-----------------------------------------------------------------------------
(* The sink gets the shards in the order they were made, a success has put   *)
(* every new content into one of them, and no partial file stays behind      *)
(* (assemble.go).                                                            *)
AssemblyIsExact == TypeOK /\ SunkInOrder /\ EveryRowOnce /\ NoPartialShard

(* A worker's success is one that took every step and said so, and a         *)
(* cancellation is never taken for a failure (python_worker.go).             *)
OutcomeIsTrue ==
  Protocol!TypeOK /\ Protocol!SuccessIsTrue /\ Protocol!CancelIsInterruption

(* A pool's verdict is that of its shards, and its error the first cause     *)
(* (canonical.go, cli/index.go, index_status.go, probe.go).                  *)
VerdictIsRight == Pool!TypeOK /\ Pool!VerdictIsRight /\ Pool!CauseIsNamed

(* No order of full channels, failures, exits and cancellations makes the    *)
(* goroutines of a pipeline wait for each other.                             *)
EveryCallReturns ==
  /\ side = "assembly" => Returns
  /\ Protocol!ExitEndsCall
  /\ side = "pool" => Pool!PoolEnds
===============================================================================
