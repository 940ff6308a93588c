--------------------------- MODULE WorkerProtocol ---------------------------
(***************************************************************************)
(* One call of runWorkerCommand (src/internal/training/python_worker.go):  *)
(* the goroutine that feeds records to the worker's standard input, the    *)
(* prefetching producer behind it, the reader of the worker's frames, the  *)
(* waiter for its exit and the watcher of the context, around a launcher   *)
(* process and a rank process that inherits both pipes.  The secondary     *)
(* nodes use runWorkerStreamJoin, which has no reader: mode "join".        *)
(***************************************************************************)
EXTENDS Naturals, Sequences

CONSTANTS
  Records,    \* records the source holds
  Steps,      \* optimizer steps of the run, one record each
  PipeSize,   \* records the input pipe holds
  Depth,      \* records the prefetch queue holds
  OutputSize, \* frames the output pipe holds
  MaxFaults   \* bound on misbehaviours of the worker and the source

(* What is assumed of the constants. *)
ProtocolAssumption ==
  /\ Steps \in Nat \ {0} /\ Records \in Nat /\ Records >= Steps
  /\ PipeSize \in Nat \ {0} /\ Depth \in Nat \ {0} /\ OutputSize \in Nat \ {0}
  /\ MaxFaults \in Nat

VARIABLES
  mode,       \* "command" or "join"
  graceful,   \* the command forwards a cancellation as SIGTERM (torchrun), or is just killed
  launcher,   \* "run", or "exited"
  code,       \* exit status of the launcher: 0 or 1
  rank,       \* rank process holding the pipes: "none", "group" or "own", by its process group
  signal,     \* what was sent to the launcher: "no", "term" or "kill"
  step,       \* steps the worker has taken
  said,       \* completion frames the worker has written
  pipe,       \* records in the input pipe
  inputOpen,  \* WALDO's end of the input pipe is open
  produced,   \* records the source has handed to the queue
  source,     \* "run", "ended" or "failed"
  queue,      \* records in the prefetch queue
  output,     \* frames in the output pipe
  readEnd,    \* WALDO's end of the output pipe is open
  reader,     \* "read", "stop" (in stopWorkerCommand) or "done"
  readError,  \* error of the reader, or "none"
  completed,  \* the reader has seen a completion
  stopped,    \* stopRecords is closed
  waiter,     \* "wait", "reaped" or "sent"
  main,       \* "write", "push" (writing a record), "select", "drain" or "returned"
  writeError, \* error of the writer, or "none"
  abandoned,  \* the drain timed out
  cancelled,  \* the caller's context is cancelled
  result,     \* what the call returned, or "none"
  faults

process == <<launcher, code, rank, signal>>
feed    == <<pipe, inputOpen, produced, source, queue>>
frames  == <<output, readEnd, reader, readError, completed, stopped>>
control == <<main, writeError, abandoned, result>>
setting == <<mode, graceful>>
vars    == <<process, step, said, feed, frames, waiter, control, cancelled, setting, faults>>

Init ==
  /\ mode \in {"command", "join"} /\ graceful \in BOOLEAN
  /\ rank \in {"none", "group", "own"}
  /\ launcher = "run" /\ code = 0 /\ signal = "no" /\ step = 0 /\ said = 0
  /\ pipe = 0 /\ inputOpen = TRUE /\ produced = 0 /\ source = "run" /\ queue = 0
  /\ output = <<>> /\ readEnd = TRUE /\ readError = "none" /\ completed = FALSE
  /\ reader = "read" /\ stopped = FALSE /\ waiter = "wait"
  /\ main = "write" /\ writeError = "none" /\ abandoned = FALSE
  /\ cancelled = FALSE /\ result = "none" /\ faults = 0

HoldsPipes == launcher = "run" \/ rank # "none"
-----------------------------------------------------------------------------
(* The worker. Output blocks when the pipe is full and nobody reads. *)
Emit(frame) ==
  /\ launcher = "run" /\ Len(output) < OutputSize
  /\ output' = IF mode = "join" THEN output ELSE Append(output, frame)

Exit(status) ==
  /\ launcher' = "exited" /\ code' = status

Train ==
  /\ step < Steps /\ pipe > 0 /\ said = 0
  /\ Emit(<<"event", step + 1>>)
  /\ pipe' = pipe - 1 /\ step' = step + 1
  /\ UNCHANGED <<process, said, inputOpen, produced, source, queue, readEnd, reader, readError,
                 completed, stopped, waiter, control, cancelled, setting, faults>>

Complete ==
  /\ step = Steps /\ said = 0
  /\ Emit(<<"complete">>) /\ said' = 1
  /\ UNCHANGED <<process, step, feed, readEnd, reader, readError, completed, stopped, waiter,
                 control, cancelled, setting, faults>>

(* After its completion the launcher ends its ranks and exits. *)
ExitDone ==
  /\ launcher = "run" /\ said > 0
  /\ Exit(0) /\ rank' = "none"
  /\ UNCHANGED <<signal, step, said, feed, frames, waiter, control, cancelled, setting, faults>>

(* The input ended before the last step: an error frame and a failing exit. *)
Starve ==
  /\ launcher = "run" /\ step < Steps /\ pipe = 0 /\ ~inputOpen
  /\ Len(output) < OutputSize
  /\ output' = IF mode = "join" THEN output ELSE Append(output, <<"error">>)
  /\ Exit(1) /\ rank' = "none"
  /\ UNCHANGED <<signal, step, said, feed, readEnd, reader, readError, completed, stopped,
                 waiter, control, cancelled, setting, faults>>

(* Faults of the worker: an error frame, a frame that cannot be decoded, a second
   completion, an exit out of turn, which may leave the rank process behind. *)
Misbehave ==
  /\ faults < MaxFaults /\ launcher = "run"
  /\ faults' = faults + 1
  /\ \/ /\ \E frame \in {<<"error">>, <<"garbage">>} : Emit(frame)
        /\ UNCHANGED <<process, said>>
     \/ said = 1 /\ Emit(<<"complete">>) /\ said' = 2 /\ UNCHANGED process
     \/ /\ \E status \in 0..1 : Exit(status)
        /\ rank' \in {"none", rank}
        /\ UNCHANGED <<output, said, signal>>
  /\ UNCHANGED <<step, feed, readEnd, reader, readError, completed, stopped, waiter, control,
                 cancelled, setting>>

(* SIGTERM: the launcher ends its ranks and exits; a fault leaves the ranks alive. *)
Terminate ==
  /\ launcher = "run" /\ signal = "term"
  /\ Exit(1)
  /\ \/ rank' = "none" /\ UNCHANGED faults
     \/ rank # "none" /\ faults < MaxFaults /\ faults' = faults + 1 /\ UNCHANGED rank
  /\ UNCHANGED <<signal, step, said, feed, frames, waiter, control, cancelled, setting>>

(* SIGKILL of the launcher alone (the default Cancel) or, after the grace period
   of a forwarded SIGTERM, of its whole process group. *)
KillLauncher ==
  /\ launcher = "run"
  /\ \/ signal = "kill" /\ UNCHANGED rank
     \/ signal = "term" /\ rank' = IF rank = "group" THEN "none" ELSE rank
  /\ Exit(1)
  /\ UNCHANGED <<signal, step, said, feed, frames, waiter, control, cancelled, setting, faults>>
-----------------------------------------------------------------------------
(* The producer goroutine of prefetchedRecordSource. *)
Produce ==
  /\ source = "run" /\ queue < Depth /\ produced < Records
  /\ main \in {"write", "push"}
  /\ produced' = produced + 1 /\ queue' = queue + 1
  /\ UNCHANGED <<process, step, said, pipe, inputOpen, source, frames, waiter, control,
                 cancelled, setting, faults>>

SourceEnds ==
  /\ source = "run"
  /\ \/ produced = Records /\ source' = "ended" /\ UNCHANGED faults
     \/ faults < MaxFaults /\ faults' = faults + 1 /\ source' = "failed"
  /\ UNCHANGED <<process, step, said, pipe, inputOpen, produced, queue, frames, waiter,
                 control, cancelled, setting>>

(* The writer takes a record: it stops at the target of the run, when the records
   are no longer wanted, at the end or the error of the source, and on cancellation. *)
WriteEnds(error) ==
  /\ main' = "select" /\ inputOpen' = FALSE /\ writeError' = error
  /\ UNCHANGED queue

AtTarget == produced - queue = Steps

TakeRecord ==
  /\ main = "write"
  /\ \/ (stopped \/ (mode = "join" /\ AtTarget)) /\ WriteEnds("none")
     \/ cancelled /\ WriteEnds("cancelled")
     \/ queue = 0 /\ source = "ended" /\ WriteEnds("none")
     \/ queue = 0 /\ source = "failed" /\ WriteEnds("source")
     \/ /\ ~stopped /\ queue > 0 /\ ~(mode = "join" /\ AtTarget)
        /\ queue' = queue - 1 /\ main' = "push"
        /\ UNCHANGED <<inputOpen, writeError>>
  /\ UNCHANGED <<process, step, said, pipe, produced, source, frames, waiter, abandoned, result,
                 cancelled, setting, faults>>

(* The write blocks while the pipe is full and somebody holds its other end. That
   the pipe has lost its reader, or was closed by the waiter, is no error of the
   stream in runWorkerCommand; runWorkerStreamJoin reports the lost reader. *)
PushRecord ==
  /\ main = "push"
  /\ \/ /\ inputOpen /\ HoldsPipes /\ pipe < PipeSize
        /\ pipe' = pipe + 1 /\ main' = "write"
        /\ UNCHANGED <<inputOpen, writeError>>
     \/ /\ ~inputOpen \/ ~HoldsPipes
        /\ main' = "select" /\ inputOpen' = FALSE
        /\ writeError' = IF mode = "join" THEN "closed" ELSE "none"
        /\ UNCHANGED pipe
  /\ UNCHANGED <<process, step, said, produced, source, queue, frames, waiter, abandoned, result,
                 cancelled, setting, faults>>
-----------------------------------------------------------------------------
(* The reader: one frame, the end of the stream, or a pipe closed under it. *)
ReaderFails(error) ==
  /\ readError' = error /\ reader' = "stop" /\ UNCHANGED <<completed, stopped>>

ReadFrame ==
  /\ mode = "command" /\ reader = "read" /\ readEnd /\ output # <<>>
  /\ LET frame == Head(output) IN
     CASE frame[1] = "event" ->
            /\ stopped' = (stopped \/ frame[2] >= Steps)
            /\ UNCHANGED <<reader, readError, completed>>
       [] frame[1] = "complete" ->
            IF completed THEN ReaderFails("duplicate")
            ELSE completed' = TRUE /\ UNCHANGED <<reader, readError, stopped>>
       [] frame[1] = "error" -> ReaderFails("worker")
       [] OTHER -> ReaderFails("decode")
  /\ output' = Tail(output)
  /\ UNCHANGED <<process, step, said, feed, readEnd, waiter, control, cancelled, setting, faults>>

EndOfOutputAnyway == UNCHANGED readError  \* mutant: an end without a completion is a success
EndOfOutput == readError' = IF ~readEnd THEN "closed" ELSE IF completed THEN "none" ELSE "eof"

ReadEnd ==
  /\ mode = "command" /\ reader = "read"
  /\ ~readEnd \/ (output = <<>> /\ ~HoldsPipes)
  /\ EndOfOutput
  /\ reader' = IF readError' = "none" THEN "done" ELSE "stop"
  /\ UNCHANGED <<process, step, said, feed, output, readEnd, completed, stopped, waiter, control,
                 cancelled, setting, faults>>

(* stopWorkerCommand: a kill, or a SIGTERM that waits for the launcher to go. *)
Stop == IF signal = "no" THEN IF graceful THEN "term" ELSE "kill" ELSE signal

StopWorker ==
  /\ reader = "stop"
  /\ signal' = Stop
  /\ reader' = IF graceful /\ launcher = "run" THEN "stop" ELSE "done"
  /\ <<signal, reader>>' # <<signal, reader>>
  /\ UNCHANGED <<launcher, code, rank, step, said, feed, output, readEnd, readError, completed,
                 stopped, waiter, control, cancelled, setting, faults>>

(* The waiter: the exit is reaped, the input is closed, the exit is announced. *)
Reap ==
  /\ waiter = "wait" /\ launcher = "exited"
  /\ waiter' = "reaped"
  /\ UNCHANGED <<process, step, said, feed, frames, control, cancelled, setting, faults>>

CloseInputForgotten == UNCHANGED inputOpen  \* mutant: the exit does not unblock the writer
CloseInput == inputOpen' = IF mode = "join" THEN inputOpen ELSE FALSE

Announce ==
  /\ waiter = "reaped"
  /\ CloseInput
  /\ waiter' = "sent"
  /\ UNCHANGED <<process, step, said, pipe, produced, source, queue, frames, control, cancelled,
                 setting, faults>>
-----------------------------------------------------------------------------
(* The error a call returns, in the order the code looks for one. *)
Or(error) == IF cancelled THEN "interrupted" ELSE error

Verdict ==
  CASE abandoned -> Or("orphan")
    [] ~abandoned /\ writeError # "none" -> writeError
    [] ~abandoned /\ writeError = "none" /\ readError # "none" -> Or(readError)
    [] ~abandoned /\ writeError = "none" /\ readError = "none" ->
         IF code # 0 THEN Or("exit") ELSE "observation"

Return ==
  /\ result' = IF Verdict = "cancelled" THEN "interrupted" ELSE Verdict
  /\ main' = "returned"

(* Both results are awaited; after the exit alone, at most workerExitDrain. *)
Await ==
  /\ mode = "command"
  /\ \/ /\ main = "select" /\ waiter = "sent" /\ reader # "done"
        /\ main' = "drain" /\ UNCHANGED result
     \/ /\ main \in {"select", "drain"} /\ waiter = "sent" /\ reader = "done"
        /\ Return
  /\ UNCHANGED <<process, step, said, feed, frames, waiter, writeError, abandoned, cancelled,
                 setting, faults>>

(* The drain times out: the process group is killed and the output closed. *)
DrainTimeout ==
  /\ main = "drain" /\ reader # "done" /\ ~abandoned
  /\ abandoned' = TRUE /\ readEnd' = FALSE
  /\ rank' = IF rank = "group" THEN "none" ELSE rank
  /\ UNCHANGED <<launcher, code, signal, step, said, feed, output, reader, readError, completed,
                 stopped, waiter, main, writeError, result, cancelled, setting, faults>>

(* runWorkerStreamJoin: the exit first, then the writer's result. *)
Join ==
  /\ mode = "join" /\ waiter = "sent" /\ main = "select"
  /\ rank' = IF (writeError # "none" \/ code # 0) /\ rank = "group" THEN "none" ELSE rank
  /\ result' = CASE writeError = "cancelled" -> "interrupted"
                 [] writeError \in {"source", "closed"} -> writeError
                 [] writeError = "none" -> IF code # 0 THEN Or("exit") ELSE "observation"
  /\ main' = "returned"
  /\ UNCHANGED <<launcher, code, signal, step, said, feed, frames, waiter, writeError, abandoned,
                 cancelled, setting, faults>>

(* The context is cancelled and os/exec calls the command's Cancel. *)
Cancel ==
  /\ ~cancelled /\ main # "returned"
  /\ cancelled' = TRUE
  /\ signal' = IF launcher = "run" THEN Stop ELSE signal
  /\ UNCHANGED <<launcher, code, rank, step, said, feed, frames, waiter, control, setting, faults>>

Waldo ==
  \/ Produce \/ TakeRecord \/ PushRecord \/ ReadFrame \/ ReadEnd \/ StopWorker
  \/ Reap \/ Announce \/ Await \/ DrainTimeout \/ Join

Next ==
  \/ Train \/ Complete \/ ExitDone \/ Starve \/ Misbehave \/ Terminate \/ KillLauncher
  \/ SourceEnds \/ Cancel \/ Waldo

(* The goroutines run, a timer expires, a signal arrives, and a source whose last
   record was taken says so. The worker need not train. *)
Fairness ==
  /\ WF_vars(Produce) /\ WF_vars(TakeRecord) /\ WF_vars(PushRecord)
  /\ WF_vars(ReadFrame) /\ WF_vars(ReadEnd) /\ WF_vars(StopWorker)
  /\ WF_vars(Reap) /\ WF_vars(Announce) /\ WF_vars(Await) /\ WF_vars(DrainTimeout)
  /\ WF_vars(Join) /\ WF_vars(SourceEnds) /\ WF_vars(KillLauncher)

Spec == Init /\ [][Next]_vars /\ Fairness
-----------------------------------------------------------------------------
TypeOK ==
  /\ launcher \in {"run", "exited"} /\ rank \in {"none", "group", "own"}
  /\ step \in 0..Steps /\ pipe \in 0..PipeSize /\ queue \in 0..Depth
  /\ produced \in 0..Records /\ faults \in 0..MaxFaults
  /\ reader \in {"read", "stop", "done"} /\ waiter \in {"wait", "reaped", "sent"}
  /\ main \in {"write", "push", "select", "drain", "returned"}

(* A primary's call returns an observation only for a worker that took every
   step, said so exactly once and exited with success; whatever the reader, the
   waiter, the writer and a cancellation interleave to (runWorkerCommand). *)
SuccessIsTrue ==
  mode = "command" /\ result = "observation" => step = Steps /\ said = 1 /\ code = 0

(* A cancelled call of a worker that did nothing wrong ends as an interruption,
   which the run records as resumable, or with its completed result; never as a
   failure (the comment at python_worker.go:233). *)
CancelIsInterruption ==
  mode = "command" /\ main = "returned" /\ cancelled /\ faults = 0
    => result \in {"interrupted", "observation"}

(* Once the launcher has exited, the call returns, even when a rank process keeps
   both pipes open and a write is blocked in the full input pipe. *)
ExitEndsCall ==
  mode = "command" /\ launcher = "exited" ~> main = "returned"
=============================================================================
