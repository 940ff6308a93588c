-------------------------- MODULE SequencePacking ---------------------------
(* How many optimizer steps a stage's finite stream supplies: the capacity  *)
(* packer of training/stream.go, which keeps only lengths while it can,     *)
(* plans; the packing loop of training/protocol.go emits the same stream to *)
(* the workers. A record is its loss mask, one flag per token and one for   *)
(* the end-of-record token, TRUE where the token is a target.               *)
EXTENDS Integers, Sequences, FiniteSets, FiniteSetsExt, SequencesExt

CONSTANTS Lengths, Batches, Requests, MaxRecords, MaxEpochs

T == TRUE
F == FALSE
(* An empty text, a short and a long one; a prompt with and without reply.  *)
Masks == {<<T>>, <<T, T>>, <<T, T, T, T>>, <<F, F>>, <<F, F, T>>}

VARIABLES
  length, batch,  \* sequence_length and batch_size
  records,        \* one pass, in the order of even epochs; odd ones reverse it
  question,       \* "steps", "capacity" or "epochs": what is planned
  requested,      \* the steps asked for
  epochs,         \* the declared passes, or those found to be needed
  epoch, row,     \* the position in the stream
  packer,         \* buffered tokens, their masks (<<>>: all targets), sequences
  targets,        \* whether this pass had a target
  steps, phase,
  buffer, ordinal \* the emitter: the masks it holds, the sequences it sent

plan == <<length, batch, records, question, requested>>
vars == <<plan, epochs, epoch, row, packer, targets, steps, phase, buffer, ordinal>>

NewPacker == [buffered |-> 0, masks |-> <<>>, sequences |-> 0]

Init ==
  /\ length \in Lengths /\ batch \in Batches
  /\ records \in SeqOf(Masks, MaxRecords) \ {<<>>}
  /\ question \in {"steps", "capacity", "epochs"} /\ requested \in Requests
  /\ epochs \in IF question = "epochs" THEN {MaxEpochs} ELSE 1..MaxEpochs
  /\ epoch = 0 /\ row = 1 /\ packer = NewPacker /\ targets = FALSE
  /\ steps = 0 /\ phase = "plan" /\ buffer = <<>> /\ ordinal = 0

Pass(e) == IF e % 2 = 0 THEN records ELSE Reverse(records)
Window == length + 1
HasTarget(masks) == \E i \in DOMAIN masks : masks[i]
Ceil(n, d) == (n + d - 1) \div d
(* 0 asks for no particular number: the whole stream is scanned.            *)
Required == IF question = "steps" THEN 0 ELSE requested * batch
Reached(p) == Required > 0 /\ p.sequences >= Required

------------------------------------------------------------------------------
(* The packer.                                                              *)
CutWindow(p) ==
  LET counted == [p EXCEPT !.sequences = @ + (IF HasTarget(SubSeq(p.masks, 2, Window)) THEN 1 ELSE 0)]
  IN  IF p.buffered < Window \/ Reached(p) THEN p
      ELSE IF Reached(counted) THEN counted
      ELSE [counted EXCEPT !.buffered = @ - length,
                           !.masks = SubSeq(@, length + 1, Len(@))]
CutAll(p) == FoldLeft(LAMBDA q, i : CutWindow(q), p, [i \in 1..p.buffered |-> i])

AddFullySupervised(p, framed) ==
  LET longer == [p EXCEPT !.buffered = @ + framed]
      completed == IF longer.buffered < Window THEN 0
                   ELSE ((longer.buffered - Window) \div length) + 1
      needed == IF Required > 0 /\ p.sequences + completed >= Required
                  THEN Required - p.sequences ELSE completed
  IN  IF p.masks # <<>>
        THEN CutAll([longer EXCEPT !.masks = @ \o [i \in 1..framed |-> TRUE]])
        ELSE [longer EXCEPT !.sequences = @ + needed, !.buffered = @ - (needed * length)]

(* Masks are kept from the first record that is not all targets on; what is *)
(* buffered by then was.                                                    *)
ExpandedUnset(p) == IF p.masks = <<>> THEN [i \in 1..p.buffered |-> FALSE] ELSE p.masks
Expanded(p) == IF p.masks = <<>> THEN [i \in 1..p.buffered |-> TRUE] ELSE p.masks
Add(p, mask) ==
  IF \A i \in DOMAIN mask : mask[i] THEN AddFullySupervised(p, Len(mask))
  ELSE CutAll([p EXCEPT !.buffered = @ + Len(mask), !.masks = Expanded(p) \o mask])

(* What is left over makes one more, shorter sequence if it has a target.   *)
Terminal(p) ==
  LET rest == p.masks = <<>> \/ HasTarget(Tail(p.masks))
  IN  p.sequences + (IF p.buffered > 1 /\ rest THEN 1 ELSE 0)

------------------------------------------------------------------------------
(* TrainingSteps, TrainingStepCapacity and minimumEpochsForSequences.       *)
Begin(e) ==
  /\ phase' = "emit" /\ epoch' = 0 /\ row' = 1 /\ epochs' = e
Refuse == phase' = "refused" /\ UNCHANGED <<epochs, epoch, row>>

PlanRecord ==
  /\ phase = "plan" /\ epoch < epochs /\ row <= Len(records)
  /\ LET mask == Pass(epoch)[row]
         p == Add(packer, mask)
     IN /\ packer' = p
        /\ targets' = (targets \/ HasTarget(mask))
        /\ IF Reached(p)
             THEN /\ steps' = requested
                  /\ Begin(IF question = "epochs" THEN epoch + 1 ELSE epochs)
             ELSE row' = row + 1 /\ UNCHANGED <<steps, phase, epochs, epoch>>
  /\ UNCHANGED <<plan, buffer, ordinal>>

PassSuffices == Terminal(packer) >= Required
PlanPassEnds ==
  /\ phase = "plan" /\ epoch < epochs /\ row > Len(records)
  /\ IF question # "epochs"
       THEN epoch' = epoch + 1 /\ row' = 1 /\ UNCHANGED <<steps, phase, epochs>>
       ELSE \/ /\ ~targets
               /\ Refuse /\ UNCHANGED steps
            \/ /\ targets /\ PassSuffices
               /\ steps' = requested /\ Begin(epoch + 1)
            \/ /\ targets /\ ~PassSuffices
               /\ epoch' = epoch + 1 /\ row' = 1 /\ UNCHANGED <<steps, phase, epochs>>
  /\ targets' = FALSE
  /\ UNCHANGED <<plan, packer, buffer, ordinal>>

PlanEnds ==
  /\ phase = "plan" /\ epoch = epochs
  /\ LET available == Ceil(Terminal(packer), batch)
     IN \/ /\ question = "steps" /\ available > 0
           /\ steps' = available /\ Begin(epochs)
        \/ /\ question = "capacity" /\ available >= requested
           /\ steps' = requested /\ Begin(epochs)
        \/ /\ \/ question = "steps" /\ available = 0
              \/ question = "capacity" /\ available < requested
              \/ question = "epochs"
           /\ Refuse /\ UNCHANGED steps
  /\ UNCHANGED <<plan, packer, targets, buffer, ordinal>>

------------------------------------------------------------------------------
(* writePreparedSequences, on    the stream that was planned.               *)
Goal == steps * batch
EmitWindow(b) ==
  LET whole == SubSeq(b.masks, 2, Window)
  IN  IF Len(b.masks) < Window \/ b.sent >= Goal THEN b
      ELSE [masks |-> SubSeq(b.masks, length + 1, Len(b.masks)),
            sent |-> b.sent + (IF HasTarget(whole) THEN 1 ELSE 0)]
EmitRecord ==
  /\ phase = "emit" /\ epoch < epochs
  /\ LET masks == buffer \o Pass(epoch)[row]
         b == FoldLeft(LAMBDA q, i : EmitWindow(q), [masks |-> masks, sent |-> ordinal],
                       [i \in DOMAIN masks |-> i])
         last == row = Len(records)
     IN /\ buffer' = b.masks /\ ordinal' = b.sent
        /\ IF b.sent >= Goal THEN phase' = "supplied" /\ UNCHANGED <<epoch, row>>
           ELSE /\ epoch' = (IF last THEN epoch + 1 ELSE epoch)
                /\ row' = (IF last THEN 1 ELSE row + 1)
                /\ UNCHANGED phase
  /\ UNCHANGED <<plan, epochs, packer, targets, steps>>

(* The last step may be partial: the workers pad its batch.                 *)
EmitEnds ==
  /\ phase = "emit" /\ epoch = epochs
  /\ ordinal' = ordinal + (IF Len(buffer) > 1 /\ HasTarget(Tail(buffer)) THEN 1 ELSE 0)
  /\ phase' = IF ordinal' < Goal - batch + 1 THEN "short" ELSE "supplied"
  /\ UNCHANGED <<plan, epochs, epoch, row, packer, targets, steps, buffer>>

Next == PlanRecord \/ PlanPassEnds \/ PlanEnds \/ EmitRecord \/ EmitEnds

Spec == Init /\ [][Next]_vars

------------------------------------------------------------------------------
(* The sequences of the first n records of a stream of passes, counted from *)
(* the whole stream and not record by record: each spans the next `length`  *)
(* targets, and counts if it has one.                                       *)
Stream(n) == FlattenSeq([i \in 1..n |-> Pass((i - 1) \div Len(records))
                                          [((i - 1) % Len(records)) + 1]])
Targets(s, i) == SubSeq(s, (i * length) + 2, (i + 1) * length + 1)
Whole(s) == Cardinality({i \in 0..Len(s) :
                           (i + 1) * length < Len(s) /\ HasTarget(Targets(s, i))})
Rest(s) == LET i == IF s = <<>> THEN 0 ELSE (Len(s) - 1) \div length
           IN IF HasTarget(SubSeq(s, (i * length) + 2, Len(s))) THEN 1 ELSE 0
Supply(e) == LET s == Stream(e * Len(records)) IN Whole(s) + Rest(s)

(* While it plans, the compact packer counts the sequences that the records *)
(* so far contain, whatever mix of masked and unmasked records it has seen  *)
(* (sequenceCapacityPacker.add, addFullySupervised).                        *)
PackerCountsTheStream ==
  phase = "plan" /\ Len(records) > 0 =>
    packer.sequences = Whole(Stream(epoch * Len(records) + row - 1))

(* No plan that was accepted finds, once accelerators run, a stream too     *)
(* short for its steps; the steps derived from a number of passes are all   *)
(* those passes hold, and the passes found for a number of steps are the    *)
(* fewest that supply them; a refused plan was impossible within the bound  *)
(* (TrainingSteps, TrainingStepCapacity, minimumEpochsForSequences).        *)
PlanIsExact ==
  /\ phase # "short"
  /\ phase \in {"emit", "supplied"} =>
       CASE question = "steps" -> steps = Ceil(Supply(epochs), batch)
         [] question = "capacity" -> Ceil(Supply(epochs), batch) >= steps
         [] question = "epochs" -> /\ Supply(epochs) >= steps * batch
                                   /\ epochs > 1 => Supply(epochs - 1) < steps * batch
  /\ phase = "refused" /\ question # "epochs" =>
       Ceil(Supply(epochs), batch) < (IF question = "steps" THEN 1 ELSE requested)
=============================================================================
