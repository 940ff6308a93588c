------------------------- MODULE RankTrainingProofs -------------------------
(* Proofs about the ranks of a training run: whatever their number, the plan,  *)
(* the stream and the intervals, and whichever ranks fail and are relaunched,  *)
(* no two of them wait in different collectives, and a run that completes has  *)
(* evaluated and reported its last step.                                       *)
(*                                                                             *)
(* Between two collectives the ranks are at different places of the same       *)
(* program.  The invariant compares them where they can be compared: what a    *)
(* rank will hold when its own steps, none of which depends on another rank,   *)
(* have taken it to its next collective.  Only the part of a trainer that      *)
(* branches are taken on is compared; sequences, counts and clocks differ.     *)
(* What is reported is the primary's own account, which the second invariant,  *)
(* Reporting, relates to its place in the program.                             *)
EXTENDS RankTraining, FiniteSetTheorems, WellFoundedInduction, TLAPS

-----------------------------------------------------------------------------
(* The invariant.                                                              *)

Parts == {"at", "seen", "batch", "gathered", "count", "accumulation", "step", "tokens", "mine",
          "replay", "checkpoints", "evaluations", "due", "ending", "unpublished", "window",
          "opening"}

IsTrainer(k) == k = [part \in Parts |-> k[part]]

\* What the branches of the program are taken on.
Common == {"at", "seen", "accumulation", "step", "replay", "checkpoints", "evaluations",
           "ending", "unpublished"}

Shared(k) == [part \in Common |-> k[part]]

Local == plan.plane = "local"

\* The sequence after m that completes a micro-batch.
Completes(m, n) ==
    n \in (m + 1) .. plan.total /\ n % World = 0 /\ \A x \in (m + 1) .. (n - 1) : x % World # 0

NextMicroBatch(m) == CHOOSE n \in Nat : Completes(m, n)

\* A rank that has read its own copy of the stream to the end.
Ended(p) ==
    LET e == [p EXCEPT !.seen = IF @ < plan.total THEN plan.total ELSE @, !.ending = TRUE]
    IN  IF p.step < Target THEN [e EXCEPT !.at = "pending"] ELSE Settled(e)

\* A rank that reads its own copy goes on to the next micro-batch, or the end.
ReadOn(p) ==
    IF p.step < Target /\ \E n \in Nat : Completes(p.seen, n)
    THEN [p EXCEPT !.seen = NextMicroBatch(@), !.at = "loss"]
    ELSE Ended(p)

Drained(p) == IF p.at = "read" /\ Local THEN ReadOn(p) ELSE p

Resumed(p) ==
    [p EXCEPT !.step = base,
              !.replay = IF Local THEN 0 ELSE base * plan.accumulation,
              !.seen = IF Local THEN BoundaryOf(base) ELSE 0,
              !.checkpoints = published, !.evaluations = scored, !.at = "restored"]

Judged(p) == [p EXCEPT !.evaluations = @ \union {p.step}]

\* What a rank will hold at its next collective, by its own steps alone.
Ahead(p) ==
    CASE p.at = "restore" -> Resumed(p)
      [] p.at = "commit" -> [p EXCEPT !.at = "saved"]
      [] p.at \in {"judge", "record"} -> Drained(Settled(Judged(p)))
      [] p.at = "settle" -> Drained(Settled(p))
      [] p.at \notin {"restore", "commit", "judge", "record", "settle"} -> Drained(p)

Failed(r) == rank[r].at = "failed"

\* All ranks that have not failed are on their way to the same collective.
Agree ==
    \A r, s \in Ranks :
        ~Failed(r) /\ ~Failed(s) => Ahead(Shared(rank[r])) = Ahead(Shared(rank[s]))

Sound(k) ==
    IsTrainer(k) /\ k.seen \in Nat /\ k.step \in Nat /\ (Local => k.replay = 0)

IInv ==
    /\ plan \in Plans /\ base \in Nat
    /\ published \in SUBSET Nat /\ IsFiniteSet(published)
    /\ rank = [r \in Ranks |-> rank[r]] /\ \A r \in Ranks : Sound(rank[r])
    /\ Agree

-----------------------------------------------------------------------------
(* The parts of a trainer.                                                     *)

\* A change of one field keeps the record, and what is shared follows it.
LEMMA AtFields ==
    ASSUME NEW k, IsTrainer(k), NEW x
    PROVE  /\ IsTrainer([k EXCEPT !.at = x])
           /\ Shared([k EXCEPT !.at = x]) = [Shared(k) EXCEPT !.at = x]
  BY DEF IsTrainer, Shared, Parts, Common

LEMMA SharedFields ==
    ASSUME NEW k
    PROVE  LET p == Shared(k) IN
           /\ p.at = k.at /\ p.seen = k.seen /\ p.accumulation = k.accumulation
           /\ p.step = k.step /\ p.replay = k.replay /\ p.checkpoints = k.checkpoints
           /\ p.evaluations = k.evaluations /\ p.ending = k.ending
           /\ p.unpublished = k.unpublished
  BY DEF Shared, Common

LEMMA LeftToDoShared ==
    ASSUME NEW k
    PROVE  LeftToDo(Shared(k)) = LeftToDo(k)
<1>1. LET p == Shared(k) IN
      /\ p.step = k.step /\ p.checkpoints = k.checkpoints
      /\ p.evaluations = k.evaluations /\ p.ending = k.ending
  BY SharedFields
<1> HIDE DEF Shared
<1>2. EvaluateDue(Shared(k)) = EvaluateDue(k)
  BY <1>1 DEF EvaluateDue
<1>3. EvaluateFirst(Shared(k)) = EvaluateFirst(k)
  BY <1>1, <1>2 DEF EvaluateFirst
<1>4. CheckpointDue(Shared(k)) = CheckpointDue(k) /\ LastCheckpointDue(Shared(k)) = LastCheckpointDue(k)
  BY <1>1 DEF CheckpointDue, LastCheckpointDue
<1>5. QED
  BY <1>1, <1>2, <1>3, <1>4 DEF LeftToDo

LEMMA SettledFields ==
    ASSUME NEW k, IsTrainer(k)
    PROVE  /\ IsTrainer(Settled(k))
           /\ Shared(Settled(k)) = Settled(Shared(k))
           /\ Settled(k).seen = k.seen /\ Settled(k).step = k.step /\ Settled(k).replay = k.replay
<1> DEFINE x == LeftToDo(k)
<1>1. Settled(k) = [k EXCEPT !.unpublished = FALSE, !.at = x]
  BY DEF Settled
<1>2. Settled(Shared(k)) = [Shared(k) EXCEPT !.unpublished = FALSE, !.at = x]
  BY LeftToDoShared DEF Settled
<1> HIDE DEF x
<1>3. IsTrainer([k EXCEPT !.unpublished = FALSE, !.at = x])
  BY DEF IsTrainer
<1>4. Shared([k EXCEPT !.unpublished = FALSE, !.at = x])
         = [Shared(k) EXCEPT !.unpublished = FALSE, !.at = x]
  BY DEF IsTrainer, Shared, Parts, Common
<1>5. LET j == [k EXCEPT !.unpublished = FALSE, !.at = x]
      IN  j.seen = k.seen /\ j.step = k.step /\ j.replay = k.replay
  BY DEF IsTrainer, Parts
<1>6. QED
  BY <1>1, <1>2, <1>3, <1>4, <1>5

\* Steps change the shared part by what it holds alone: a part that is not
\* shared is not there to be changed.
LEMMA TrainBatchFields ==
    ASSUME NEW k, IsTrainer(k)
    PROVE  IsTrainer(TrainBatch(k)) /\ Shared(TrainBatch(k)) = TrainBatch(Shared(k))
<1> DEFINE p == Shared(k)
<1>0. p.replay = k.replay
  BY SharedFields
<1>1. CASE k.replay > 0
  <2> DEFINE m == k.replay - 1
             x == IF k.replay = 1 THEN "replayed" ELSE "read"
             u == k.opening \/ k.replay = 1
             v == p.opening \/ k.replay = 1
  <2>1. TrainBatch(k) = [k EXCEPT !.replay = m, !.batch = {}, !.opening = u, !.at = x]
    BY <1>1 DEF TrainBatch
  <2>2. TrainBatch(p) = [p EXCEPT !.replay = m, !.batch = {}, !.opening = v, !.at = x]
    BY <1>0, <1>1 DEF TrainBatch
  <2> HIDE DEF m, x, u, v
  <2>3. IsTrainer(TrainBatch(k))
    BY <2>1 DEF IsTrainer
  <2>4. \A part \in Common :
          TrainBatch(k)[part] = IF part = "replay" THEN m ELSE IF part = "at" THEN x ELSE k[part]
    BY <2>1 DEF IsTrainer, Parts, Common
  <2>5. TrainBatch(p) = [part \in Common |->
          IF part = "replay" THEN m ELSE IF part = "at" THEN x ELSE k[part]]
    BY <2>2 DEF Shared, Common
  <2>6. Shared(TrainBatch(k)) = TrainBatch(p)
    BY <2>4, <2>5 DEF Shared
  <2>7. QED
    BY <2>3, <2>6
<1>2. CASE ~(k.replay > 0)
  BY <1>0, <1>2, AtFields DEF TrainBatch
<1>3. QED
  BY <1>1, <1>2

LEMMA AddSequenceFields ==
    ASSUME NEW k, IsTrainer(k), NEW r
    PROVE  /\ IsTrainer(AddSequence(k, r))
           /\ Shared(AddSequence(k, r)) = AddSequence(Shared(k), r)
<1> DEFINE p == Shared(k)
           n == k.seen + 1
           taken(j) == [j EXCEPT !.seen = n, !.batch = IF Owner(n) = r THEN @ \union {n} ELSE @]
<1>1. p.seen = k.seen /\ p.step = k.step
  BY SharedFields
<1>2. /\ IsTrainer([k EXCEPT !.seen = n]) /\ IsTrainer(taken(k))
      /\ Shared([k EXCEPT !.seen = n]) = [p EXCEPT !.seen = n]
      /\ Shared(taken(k)) = taken(p)
  BY DEF IsTrainer, Shared, Parts, Common
<1>3. IsTrainer(TrainBatch(taken(k))) /\ Shared(TrainBatch(taken(k))) = TrainBatch(taken(p))
  <2> HIDE DEF taken
  <2>1. QED
    BY <1>2, TrainBatchFields
<1>4. \A j : j.seen = k.seen /\ j.step = k.step =>
        AddSequence(j, r) = CASE k.step >= Target -> [j EXCEPT !.seen = n]
                              [] k.step < Target /\ n % World = 0 -> TrainBatch(taken(j))
                              [] OTHER -> taken(j)
  BY DEF AddSequence
<1> HIDE DEF taken, n, p
<1>5. QED
  BY <1>1, <1>2, <1>3, <1>4 DEF p

LEMMA LineFields ==
    ASSUME NEW k, IsTrainer(k), NEW r
    PROVE  IsTrainer(Line(k, r)) /\ Shared(Line(k, r)) = Line(Shared(k), r)
<1> DEFINE p == Shared(k)
<1>1. p.seen = k.seen /\ p.step = k.step
  BY SharedFields
<1>2. CASE k.seen < plan.total
  BY <1>1, <1>2, AddSequenceFields DEF Line
<1>3. CASE ~(k.seen < plan.total)
  <2> DEFINE x == IF k.step < Target THEN "pending" ELSE "settle"
  <2>1. Line(k, r) = [k EXCEPT !.ending = TRUE, !.at = x]
    BY <1>3 DEF Line
  <2>2. Line(p, r) = [p EXCEPT !.ending = TRUE, !.at = x]
    BY <1>1, <1>3 DEF Line
  <2> HIDE DEF x
  <2>3. IsTrainer(Line(k, r))
    BY <2>1 DEF IsTrainer
  <2>4. Shared([k EXCEPT !.ending = TRUE, !.at = x]) = [p EXCEPT !.ending = TRUE, !.at = x]
    BY DEF IsTrainer, Shared, Parts, Common
  <2>5. QED
    BY <2>1, <2>2, <2>3, <2>4
<1>4. QED
  BY <1>2, <1>3

LEMMA RestoredFields ==
    ASSUME NEW k, IsTrainer(k), NEW r
    PROVE  IsTrainer(Restored(k, r)) /\ Shared(Restored(k, r)) = Resumed(Shared(k))
<1> DEFINE p == Shared(k)
           t == disk[base].tokens
           c == disk[base].states[r]
           m == IF plan.plane = "local" THEN 0 ELSE base * plan.accumulation
           n == IF plan.plane = "local" THEN BoundaryOf(base) ELSE 0
<1>1. Restored(k, r) = [k EXCEPT !.step = base, !.tokens = t, !.mine = c, !.replay = m, !.seen = n,
                                 !.checkpoints = published, !.evaluations = scored,
                                 !.at = "restored"]
  BY DEF Restored
<1>2. Resumed(p) = [p EXCEPT !.step = base, !.replay = m, !.seen = n,
                             !.checkpoints = published, !.evaluations = scored, !.at = "restored"]
  BY DEF Resumed, Local
<1> DEFINE value(part) == CASE part = "step" -> base
                            [] part = "replay" -> m
                            [] part = "seen" -> n
                            [] part = "checkpoints" -> published
                            [] part = "evaluations" -> scored
                            [] part = "at" -> "restored"
                            [] OTHER -> k[part]
<1> HIDE DEF t, c, m, n
<1>3. IsTrainer(Restored(k, r))
  BY <1>1 DEF IsTrainer
<1>4. \A part \in Common : Restored(k, r)[part] = value(part)
  BY <1>1 DEF IsTrainer, Parts, Common
<1>5. Resumed(p) = [part \in Common |-> value(part)]
  BY <1>2 DEF Shared, Common
<1> HIDE DEF value
<1>6. Shared(Restored(k, r)) = Resumed(p)
  BY <1>4, <1>5 DEF Shared
<1>7. QED
  BY <1>3, <1>6

LEMMA AccumulatedFields ==
    ASSUME NEW k, IsTrainer(k), NEW n
    PROVE  IsTrainer(Accumulated(k, n)) /\ Shared(Accumulated(k, n)) = Accumulated(Shared(k), n)
<1> DEFINE p == Shared(k)
           x == IF k.accumulation + 1 < plan.accumulation /\ ~k.ending THEN "read" ELSE "norm"
           m == k.accumulation + 1
           u == k.count + n
           v == p.count + n
           f == k.gathered \union k.batch
           g == p.gathered \union p.batch
<1>0. p.accumulation = k.accumulation /\ p.ending = k.ending
  BY SharedFields
<1>1. Accumulated(k, n) = [k EXCEPT !.count = u, !.gathered = f, !.batch = {},
                                    !.accumulation = m, !.at = x]
  BY DEF Accumulated
<1>2. Accumulated(p, n) = [p EXCEPT !.count = v, !.gathered = g, !.batch = {},
                                    !.accumulation = m, !.at = x]
  BY <1>0 DEF Accumulated
<1> HIDE DEF x, m, u, v, f, g
<1>3. IsTrainer(Accumulated(k, n))
  BY <1>1 DEF IsTrainer
<1>4. \A part \in Common :
        Accumulated(k, n)[part] =
            IF part = "accumulation" THEN m ELSE IF part = "at" THEN x ELSE k[part]
  BY <1>1 DEF IsTrainer, Parts, Common
<1>5. Accumulated(p, n) = [part \in Common |->
        IF part = "accumulation" THEN m ELSE IF part = "at" THEN x ELSE k[part]]
  BY <1>2 DEF Shared, Common
<1>6. Shared(Accumulated(k, n)) = Accumulated(p, n)
  BY <1>4, <1>5 DEF Shared
<1>7. QED
  BY <1>3, <1>6

LEMMA UpdatedFields ==
    ASSUME NEW k, IsTrainer(k), NEW late
    PROVE  IsTrainer(Updated(k, late)) /\ Shared(Updated(k, late)) = Updated(Shared(k), late)
<1> DEFINE p == Shared(k)
           m == k.step + 1
           tokens(j) == j.tokens + j.count
           mine(j) == [n \in Sequences |-> j.mine[n] + IF n \in j.gathered THEN 1 ELSE 0]
           window(j) == IF j.opening THEN j.tokens + j.count ELSE j.window
           t == tokens(k)
           c == mine(k)
           w == window(k)
           u == tokens(p)
           d == mine(p)
           v == window(p)
<1>0. p.step = k.step
  BY SharedFields
<1>1. Updated(k, late) =
        [k EXCEPT !.step = m, !.tokens = t, !.mine = c, !.gathered = {}, !.count = 0,
                  !.accumulation = 0, !.due = late, !.window = w, !.opening = FALSE,
                  !.at = "heartbeat"]
  BY DEF Updated
<1>2. Updated(p, late) =
        [p EXCEPT !.step = m, !.tokens = u, !.mine = d, !.gathered = {}, !.count = 0,
                  !.accumulation = 0, !.due = late, !.window = v, !.opening = FALSE,
                  !.at = "heartbeat"]
  BY <1>0 DEF Updated
<1> DEFINE value(part) == CASE part = "step" -> m
                            [] part = "accumulation" -> 0
                            [] part = "at" -> "heartbeat"
                            [] OTHER -> k[part]
<1> HIDE DEF m, t, c, w, u, d, v
<1>3. IsTrainer(Updated(k, late))
  BY <1>1 DEF IsTrainer
<1>4. \A part \in Common : Updated(k, late)[part] = value(part)
  BY <1>1 DEF IsTrainer, Parts, Common
<1>5. Updated(p, late) = [part \in Common |-> value(part)]
  BY <1>2 DEF Shared, Common
<1> HIDE DEF value
<1>6. Shared(Updated(k, late)) = Updated(p, late)
  BY <1>4, <1>5 DEF Shared
<1>7. QED
  BY <1>3, <1>6

LEMMA EvaluatedFields ==
    ASSUME NEW k, IsTrainer(k)
    PROVE  IsTrainer(Evaluated(k)) /\ Shared(Evaluated(k)) = Evaluated(Shared(k))
  BY DEF IsTrainer, Shared, Parts, Common, Evaluated

LEMMA SavedFields ==
    ASSUME NEW k, IsTrainer(k)
    PROVE  IsTrainer(Saved(k)) /\ Shared(Saved(k)) = Saved(Shared(k))
  BY DEF IsTrainer, Shared, Parts, Common, Saved

LEMMA PaddedFields ==
    ASSUME NEW k, IsTrainer(k), NEW n
    PROVE  IsTrainer(Padded(k, n)) /\ Shared(Padded(k, n)) = Padded(Shared(k), n)
  BY SharedFields, TrainBatchFields, AtFields DEF Padded

LEMMA DecidedFields ==
    ASSUME NEW k, IsTrainer(k)
    PROVE  IsTrainer(Decided(k)) /\ Shared(Decided(k)) = Decided(Shared(k))
<1> DEFINE x == IF ReportDue(k) THEN "telemetry" ELSE "settle"
<1>1. ReportDue(Shared(k)) = ReportDue(k)
  BY SharedFields DEF ReportDue
<1>2. /\ Decided(k) = [k EXCEPT !.due = FALSE, !.at = x]
      /\ Decided(Shared(k)) = [Shared(k) EXCEPT !.due = FALSE, !.at = x]
  BY <1>1 DEF Decided
<1> HIDE DEF x
<1>3. IsTrainer(Decided(k))
  BY <1>2 DEF IsTrainer
<1>4. Shared([k EXCEPT !.due = FALSE, !.at = x]) = [Shared(k) EXCEPT !.due = FALSE, !.at = x]
  BY DEF IsTrainer, Shared, Parts, Common
<1>5. QED
  BY <1>2, <1>3, <1>4

-----------------------------------------------------------------------------
(* Where a rank is going does not change on the way.                           *)

IsCommon(p) == p = [part \in Common |-> p[part]]

LEMMA SharedIsCommon ==
    ASSUME NEW k
    PROVE  IsCommon(Shared(k))
  BY DEF IsCommon, Shared

LEMMA LeftToDoPlaces ==
    ASSUME NEW p
    PROVE  /\ LeftToDo(p) \in {"failed", "evaluate", "snapshot", "consumption", "read"}
           /\ p.ending => LeftToDo(p) # "read"
<1>1. CASE p.ending /\ p.step # Target
  BY <1>1 DEF LeftToDo
<1>2. CASE ~p.ending \/ p.step = Target
  <2>1. CASE EvaluateFirst(p)
    BY <1>2, <2>1 DEF LeftToDo
  <2>2. CASE ~EvaluateFirst(p) /\ CheckpointDue(p)
    BY <1>2, <2>2 DEF LeftToDo
  <2>3. CASE ~EvaluateFirst(p) /\ ~CheckpointDue(p)
    BY <1>2, <2>3 DEF LeftToDo
  <2>4. QED
    BY <2>1, <2>2, <2>3
<1>3. QED
  BY <1>1, <1>2

LEMMA SettledPlaces ==
    ASSUME NEW p, IsCommon(p)
    PROVE  /\ IsCommon(Settled(p))
           /\ Settled(p).at = LeftToDo(p)
           /\ Settled(p).at \in {"failed", "evaluate", "snapshot", "consumption", "read"}
           /\ p.ending => Settled(p).at # "read"
<1> DEFINE x == LeftToDo(p)
<1>1. x \in {"failed", "evaluate", "snapshot", "consumption", "read"} /\ (p.ending => x # "read")
  BY LeftToDoPlaces
<1>2. Settled(p) = [p EXCEPT !.unpublished = FALSE, !.at = x]
  BY DEF Settled
<1> HIDE DEF x
<1>3. IsCommon(Settled(p)) /\ Settled(p).at = x
  BY <1>2 DEF IsCommon, Common
<1>4. QED
  BY <1>1, <1>3 DEF x

\* What is left to do does not depend on how the rank came to ask.
LEMMA SettledFrom ==
    ASSUME NEW p, IsCommon(p), NEW x
    PROVE  Settled([p EXCEPT !.at = x]) = Settled(p)
<1> DEFINE q == [p EXCEPT !.at = x]
<1>1. /\ q.step = p.step /\ q.checkpoints = p.checkpoints
      /\ q.evaluations = p.evaluations /\ q.ending = p.ending
  BY DEF IsCommon, Common
<1>2. \A y : [q EXCEPT !.unpublished = FALSE, !.at = y] = [p EXCEPT !.unpublished = FALSE, !.at = y]
  BY DEF IsCommon, Common
<1> HIDE DEF q
<1>3. EvaluateDue(q) = EvaluateDue(p)
  BY <1>1 DEF EvaluateDue
<1>4. EvaluateFirst(q) = EvaluateFirst(p)
  BY <1>1, <1>3 DEF EvaluateFirst
<1>5. CheckpointDue(q) = CheckpointDue(p) /\ LastCheckpointDue(q) = LastCheckpointDue(p)
  BY <1>1 DEF CheckpointDue, LastCheckpointDue
<1>6. LeftToDo(q) = LeftToDo(p)
  BY <1>1, <1>3, <1>4, <1>5 DEF LeftToDo
<1>7. QED
  BY <1>2, <1>6 DEF Settled, q

LEMMA AheadOf ==
    ASSUME NEW p
    PROVE  /\ p.at = "restore" => Ahead(p) = Resumed(p)
           /\ p.at = "commit" => Ahead(p) = [p EXCEPT !.at = "saved"]
           /\ p.at \in {"judge", "record"} => Ahead(p) = Drained(Settled(Judged(p)))
           /\ p.at = "settle" => Ahead(p) = Drained(Settled(p))
           /\ p.at \notin {"restore", "commit", "judge", "record", "settle"} => Ahead(p) = Drained(p)
           /\ p.at \notin {"restore", "commit", "judge", "record", "settle", "read"} => Ahead(p) = p
           /\ p.at = "read" /\ ~Local => Ahead(p) = p
           /\ p.at = "read" /\ Local => Ahead(p) = ReadOn(p)
<1>1. CASE p.at = "restore"
  BY <1>1 DEF Ahead
<1>2. CASE p.at = "commit"
  BY <1>2 DEF Ahead
<1>3. CASE p.at \in {"judge", "record"}
  BY <1>3 DEF Ahead
<1>4. CASE p.at = "settle"
  BY <1>4 DEF Ahead
<1>5. CASE p.at \notin {"restore", "commit", "judge", "record", "settle"}
  BY <1>5 DEF Ahead, Drained
<1>6. QED
  BY <1>1, <1>2, <1>3, <1>4, <1>5

LEMMA AheadOfRestored ==
    ASSUME NEW p, IsCommon(p)
    PROVE  Resumed(p).at = "restored" /\ Ahead(Resumed(p)) = Resumed(p)
<1>1. Resumed(p).at = "restored"
  BY DEF Resumed, IsCommon, Common
<1>2. QED
  BY <1>1, AheadOf

LEMMA AheadOfSettled ==
    ASSUME NEW p, IsCommon(p)
    PROVE  Ahead(Settled(p)) = Drained(Settled(p))
  BY SettledPlaces, AheadOf

LEMMA AheadOfSaved ==
    ASSUME NEW p, IsCommon(p)
    PROVE  Ahead([p EXCEPT !.at = "saved"]) = [p EXCEPT !.at = "saved"]
<1>1. [p EXCEPT !.at = "saved"].at = "saved"
  BY DEF IsCommon, Common
<1>2. QED
  BY <1>1, AheadOf

LEMMA AheadOfJudged ==
    ASSUME NEW p, IsCommon(p), p.at \in {"judge", "record"}
    PROVE  /\ p.at = "judge" => Ahead([p EXCEPT !.at = "record"]) = Ahead(p)
           /\ Ahead([p EXCEPT !.evaluations = @ \union {p.step}, !.at = "settle"]) = Ahead(p)
<1> DEFINE q == [p EXCEPT !.at = "record"]
           s == [p EXCEPT !.evaluations = @ \union {p.step}, !.at = "settle"]
<1>1. /\ q.at = "record" /\ s.at = "settle" /\ IsCommon(Judged(p))
      /\ Judged(q) = [Judged(p) EXCEPT !.at = "record"]
      /\ s = [Judged(p) EXCEPT !.at = "settle"]
  BY DEF IsCommon, Common, Judged
<1>2. Settled(Judged(q)) = Settled(Judged(p)) /\ Settled(s) = Settled(Judged(p))
  BY <1>1, SettledFrom
<1> HIDE DEF q, s
<1>3. /\ Ahead(q) = Drained(Settled(Judged(q))) /\ Ahead(s) = Drained(Settled(s))
      /\ Ahead(p) = Drained(Settled(Judged(p)))
  BY <1>1, AheadOf
<1>4. QED
  BY <1>2, <1>3 DEF q, s

-----------------------------------------------------------------------------
(* The plan in numbers.                                                        *)

LEMMA PlanNumbers ==
    ASSUME RankConstants, plan \in Plans
    PROVE  /\ plan.total \in Nat /\ plan.accumulation \in Nat \ {0}
           /\ PerStep \in Nat \ {0} /\ Target \in Int
           /\ \A s \in Nat : BoundaryOf(s) \in Nat /\ s * plan.accumulation \in Nat
<1>1. plan.total \in Nat /\ plan.accumulation \in Nat \ {0} /\ World \in Nat \ {0}
  BY DEF RankConstants, Plans
<1>2. \A x, y \in Nat : x * y \in Nat
  OBVIOUS
<1>3. \A x, y \in Nat \ {0} : x * y \in Nat \ {0}
  <2> SUFFICES ASSUME NEW x \in Nat \ {0}, NEW y \in Nat \ {0}
               PROVE  x * y \in Nat \ {0}
    OBVIOUS
  <2>1. QED
    OBVIOUS
<1>4. PerStep \in Nat \ {0}
  BY <1>1, <1>3 DEF PerStep
<1>5. Target \in Int
  <2>1. \A x \in Int, y \in Nat \ {0} : x \div y \in Int
    OBVIOUS
  <2> HIDE DEF PerStep
  <2>2. plan.total + PerStep - 1 \in Int
    BY <1>1, <1>4
  <2>3. QED
    BY <1>4, <2>1, <2>2 DEF Target
<1>6. \A s \in Nat : BoundaryOf(s) \in Nat
  BY <1>1, <1>2, <1>4 DEF BoundaryOf
<1>7. QED
  BY <1>1, <1>2, <1>4, <1>5, <1>6

LEMMA ReadOnIs ==
    ASSUME NEW p, p.step < Target, NEW x, x = NextMicroBatch(p.seen)
    PROVE  ReadOn(p) = IF \E n \in Nat : Completes(p.seen, n)
                       THEN [p EXCEPT !.seen = x, !.at = "loss"] ELSE Ended(p)
  BY DEF ReadOn

\* A rank that reads on by one sequence, or finds the end, is going where it was.
LEMMA AheadOfRead ==
    ASSUME RankConstants, plan \in Plans, Local, NEW p, IsCommon(p), NEW r,
           p.at = "read", p.seen \in Nat, p.step \in Nat, p.replay = 0
    PROVE  Ahead(Line(p, r)) = Ahead(p)
<1> DEFINE q == Line(p, r)
           n == p.seen + 1
           T == plan.total
<1>0. Ahead(p) = ReadOn(p) /\ T \in Nat /\ n \in Nat /\ Target \in Int
  BY AheadOf, PlanNumbers
<1>1. p.step < Target <=> ~(p.step >= Target)
  BY <1>0
<1>2. \A x : [p EXCEPT !.seen = n, !.batch = x] = [p EXCEPT !.seen = n]
  BY DEF IsCommon, Common
<1> DEFINE m == [p EXCEPT !.seen = n]
<1>3. /\ IsCommon(m) /\ m.seen = n /\ m.step = p.step /\ m.at = "read" /\ m.replay = 0
      /\ \A x : [m EXCEPT !.seen = x, !.ending = TRUE] = [p EXCEPT !.seen = x, !.ending = TRUE]
      /\ \A x : [m EXCEPT !.seen = x, !.at = "loss"] = [p EXCEPT !.seen = x, !.at = "loss"]
      /\ [m EXCEPT !.at = "loss"] = [p EXCEPT !.seen = n, !.at = "loss"]
      /\ [m EXCEPT !.at = "loss"].at = "loss"
  BY DEF IsCommon, Common
<1> HIDE DEF m, q
<1>4. ASSUME p.seen < T, p.step < Target, n % World = 0
      PROVE  Ahead(q) = Ahead(p)
  <2>1. q = AddSequence(p, r)
    BY <1>4 DEF Line, q
  <2>2. q = TrainBatch(m)
    BY <1>1, <1>2, <1>4, <2>1 DEF AddSequence, m
  <2>3. q = [m EXCEPT !.at = "loss"]
    <3>1. m.replay = 0
      BY <1>3
    <3>2. QED
      BY <2>2, <3>1 DEF TrainBatch
  <2>4. Ahead(q) = q
    BY <1>3, <2>3, AheadOf
  <2>5. \A x \in Nat : Completes(p.seen, x) <=> x = n
    BY <1>0, <1>4 DEF Completes
  <2>6. ReadOn(p) = [p EXCEPT !.seen = n, !.at = "loss"]
    <3>1. n = NextMicroBatch(p.seen)
      BY <1>0, <2>5 DEF NextMicroBatch
    <3>2. QED
      BY <1>0, <1>4, <2>5, <3>1 DEF ReadOn
  <2>7. QED
    BY <1>0, <1>3, <2>3, <2>4, <2>6
<1>5. ASSUME p.seen < T, ~(p.step < Target /\ n % World = 0)
      PROVE  Ahead(q) = Ahead(p)
  <2>1. q = AddSequence(p, r)
    BY <1>5 DEF Line, q
  <2>2. q = m
    BY <1>1, <1>2, <1>5, <2>1 DEF AddSequence, m
  <2>3. Ahead(q) = ReadOn(m)
    BY <1>3, <2>2, AheadOf
  <2>4. (IF n < T THEN T ELSE n) = T /\ (IF p.seen < T THEN T ELSE p.seen) = T
    BY <1>0, <1>5
  <2>5. Ended(m) = Ended(p)
    <3>1. [m EXCEPT !.seen = IF @ < T THEN T ELSE @, !.ending = TRUE]
            = [p EXCEPT !.seen = T, !.ending = TRUE]
      BY <1>3, <2>4
    <3>2. [p EXCEPT !.seen = IF @ < T THEN T ELSE @, !.ending = TRUE]
            = [p EXCEPT !.seen = T, !.ending = TRUE]
      BY <2>4
    <3>3. QED
      BY <1>3, <3>1, <3>2 DEF Ended
  <2>6. p.step < Target => \A x \in Nat : Completes(p.seen, x) <=> Completes(n, x)
    <3> SUFFICES ASSUME p.step < Target, NEW x \in Nat
                 PROVE  Completes(p.seen, x) <=> Completes(n, x)
      OBVIOUS
    <3>1. n % World # 0
      BY <1>5
    <3>2. ASSUME Completes(p.seen, x) PROVE Completes(n, x)
      <4>1. x # n
        BY <3>1, <3>2 DEF Completes
      <4>2. QED
        BY <1>0, <3>2, <4>1 DEF Completes
    <3>3. ASSUME Completes(n, x) PROVE Completes(p.seen, x)
      <4>1. \A y \in (p.seen + 1) .. (x - 1) : y = n \/ y \in (n + 1) .. (x - 1)
        BY <1>0
      <4>2. QED
        BY <1>0, <3>1, <3>3, <4>1 DEF Completes
    <3>4. QED
      BY <3>2, <3>3
  <2>7. ReadOn(m) = ReadOn(p)
    <3>1. CASE p.step < Target
      <4>1. m.seen = n /\ m.step = p.step
        BY <1>3
      <4>2. \A x \in Nat : Completes(p.seen, x) <=> Completes(m.seen, x)
        BY <2>6, <3>1, <4>1
      <4>3. PICK x : x = NextMicroBatch(p.seen) /\ x = NextMicroBatch(m.seen)
        BY <4>2 DEF NextMicroBatch
      <4>4. ReadOn(m) = IF \E y \in Nat : Completes(m.seen, y)
                        THEN [m EXCEPT !.seen = x, !.at = "loss"] ELSE Ended(m)
        BY <3>1, <4>1, <4>3, ReadOnIs
      <4>5. ReadOn(p) = IF \E y \in Nat : Completes(p.seen, y)
                        THEN [p EXCEPT !.seen = x, !.at = "loss"] ELSE Ended(p)
        BY <3>1, <4>3, ReadOnIs
      <4>6. [m EXCEPT !.seen = x, !.at = "loss"] = [p EXCEPT !.seen = x, !.at = "loss"]
        BY <1>3
      <4>7. QED
        BY <2>5, <4>2, <4>4, <4>5, <4>6
    <3>2. CASE ~(p.step < Target)
      BY <1>3, <2>5, <3>2 DEF ReadOn
    <3>3. QED
      BY <3>1, <3>2
  <2>8. QED
    BY <1>0, <2>3, <2>7
<1>6. ASSUME ~(p.seen < T)
      PROVE  Ahead(q) = Ahead(p)
  <2> DEFINE e == [p EXCEPT !.ending = TRUE]
             x == IF p.step < Target THEN "pending" ELSE "settle"
  <2>1. /\ IsCommon(e) /\ e.ending = TRUE
        /\ [p EXCEPT !.seen = p.seen, !.ending = TRUE] = e
        /\ [p EXCEPT !.ending = TRUE, !.at = x] = [e EXCEPT !.at = x]
        /\ [e EXCEPT !.at = x].at = x
    BY DEF IsCommon, Common
  <2> HIDE DEF e
  <2>2. q = [e EXCEPT !.at = x]
    BY <1>6, <2>1 DEF Line, q
  <2>3. \A y \in Nat : ~Completes(p.seen, y)
    BY <1>0, <1>6 DEF Completes
  <2>4. ReadOn(p) = IF p.step < Target THEN [e EXCEPT !.at = "pending"] ELSE Settled(e)
    <3>1. [p EXCEPT !.seen = IF @ < T THEN T ELSE @, !.ending = TRUE] = e
      BY <1>6, <2>1 DEF e
    <3>2. ReadOn(p) = Ended(p)
      BY <2>3 DEF ReadOn
    <3>3. QED
      BY <3>1, <3>2 DEF Ended
  <2>5. CASE p.step < Target
    <3>1. q = [e EXCEPT !.at = "pending"] /\ q.at = "pending"
      BY <2>1, <2>2, <2>5
    <3>2. Ahead(q) = q
      BY <3>1, AheadOf
    <3>3. QED
      BY <1>0, <2>4, <2>5, <3>1, <3>2
  <2>6. CASE ~(p.step < Target)
    <3>0. q = [e EXCEPT !.at = "settle"] /\ q.at = "settle"
      BY <2>1, <2>2, <2>6
    <3>1. Ahead(q) = Drained(Settled(q))
      BY <3>0, AheadOf
    <3>2. Settled([e EXCEPT !.at = "settle"]) = Settled(e)
      BY <2>1, SettledFrom
    <3>3. Ahead(q) = Drained(Settled(e))
      BY <3>0, <3>1, <3>2
    <3>4. Settled(e).at # "read"
      BY <2>1, SettledPlaces
    <3>5. QED
      BY <1>0, <2>4, <2>6, <3>3, <3>4 DEF Drained
  <2>7. QED
    BY <2>5, <2>6
<1>7. QED
  BY <1>0, <1>4, <1>5, <1>6 DEF q

-----------------------------------------------------------------------------
(* Every step leaves a sound trainer.                                          *)

LEMMA SoundAt ==
    ASSUME NEW k, Sound(k), NEW x
    PROVE  Sound([k EXCEPT !.at = x])
  BY AtFields DEF Sound, IsTrainer, Parts

LEMMA SoundSettled ==
    ASSUME NEW k, Sound(k)
    PROVE  Sound(Settled(k))
  BY SettledFields DEF Sound

LEMMA SoundTrainBatch ==
    ASSUME NEW k, IsTrainer(k), k.seen \in Nat, k.step \in Nat, Local => k.replay = 0
    PROVE  Sound(TrainBatch(k))
<1>1. CASE k.replay > 0
  <2> DEFINE m == k.replay - 1
             x == IF k.replay = 1 THEN "replayed" ELSE "read"
             u == k.opening \/ k.replay = 1
  <2>1. TrainBatch(k) = [k EXCEPT !.replay = m, !.batch = {}, !.opening = u, !.at = x]
    BY <1>1 DEF TrainBatch
  <2>2. ~Local
    BY <1>1
  <2> HIDE DEF m, x, u
  <2>3. TrainBatch(k).seen = k.seen /\ TrainBatch(k).step = k.step
    BY <2>1 DEF IsTrainer, Parts
  <2>4. QED
    BY <2>2, <2>3, TrainBatchFields DEF Sound
<1>2. CASE ~(k.replay > 0)
  BY <1>2, SoundAt DEF TrainBatch, Sound
<1>3. QED
  BY <1>1, <1>2

LEMMA SoundLine ==
    ASSUME NEW k, Sound(k), NEW r
    PROVE  Sound(Line(k, r))
<1> DEFINE n == k.seen + 1
           b == IF Owner(n) = r THEN k.batch \union {n} ELSE k.batch
           t == [k EXCEPT !.seen = n, !.batch = b]
           x == IF k.step < Target THEN "pending" ELSE "settle"
           e == [k EXCEPT !.ending = TRUE, !.at = x]
           m == [k EXCEPT !.seen = n]
<1>1. k.seen \in Nat /\ k.step \in Nat /\ n \in Nat /\ IsTrainer(k) /\ (Local => k.replay = 0)
  BY DEF Sound
<1> HIDE DEF n, b, x
<1>2. /\ IsTrainer(t) /\ t.seen = n /\ t.step = k.step /\ t.replay = k.replay
      /\ IsTrainer(m) /\ m.seen = n /\ m.step = k.step /\ m.replay = k.replay
      /\ IsTrainer(e) /\ e.seen = k.seen /\ e.step = k.step /\ e.replay = k.replay
  BY <1>1 DEF IsTrainer, Parts
<1>3. Line(k, r) \in {e, m, t, TrainBatch(t)}
  <2>1. CASE k.seen < plan.total
    <3>1. Line(k, r) = AddSequence(k, r)
      BY <2>1 DEF Line
    <3>2. [k EXCEPT !.seen = n, !.batch = IF Owner(n) = r THEN @ \union {n} ELSE @] = t
      BY DEF b
    <3>3. AddSequence(k, r) = CASE k.step >= Target -> m
                                [] k.step < Target /\ n % World = 0 -> TrainBatch(t)
                                [] OTHER -> t
      BY <3>2 DEF AddSequence, n
    <3> HIDE DEF m, t
    <3>4. QED
      BY <3>1, <3>3
  <2>2. CASE ~(k.seen < plan.total)
    BY <2>2 DEF Line, x
  <2>3. QED
    BY <2>1, <2>2
<1> HIDE DEF e, m, t
<1>4. Sound(e) /\ Sound(m) /\ Sound(t)
  BY <1>1, <1>2 DEF Sound
<1>5. Sound(TrainBatch(t))
  BY <1>1, <1>2, SoundTrainBatch
<1>6. QED
  BY <1>3, <1>4, <1>5

LEMMA SoundRestored ==
    ASSUME RankConstants, plan \in Plans, base \in Nat, NEW k, Sound(k), NEW r
    PROVE  Sound(Restored(k, r))
<1> DEFINE j == Restored(k, r)
<1>1. BoundaryOf(base) \in Nat
  BY PlanNumbers
<1>2. IsTrainer(k)
  BY DEF Sound
<1>3. /\ j.step = base /\ j.seen = IF Local THEN BoundaryOf(base) ELSE 0
      /\ Local => j.replay = 0
  BY <1>2 DEF Restored, IsTrainer, Parts, Local
<1>4. IsTrainer(j)
  BY <1>2, RestoredFields
<1> HIDE DEF j
<1>5. QED
  BY <1>1, <1>3, <1>4 DEF Sound, j

\* Of the collectives' own effects only the update counts a step, and none
\* touches what has been read or is to be replayed.
LEMMA SoundAfter ==
    ASSUME NEW k, Sound(k), NEW n, NEW late
    PROVE  /\ Sound(Accumulated(k, n)) /\ Sound(Updated(k, late)) /\ Sound(Decided(k))
           /\ Sound(Evaluated(k)) /\ Sound(Saved(k)) /\ Sound(Padded(k, n))
<1>1. IsTrainer(k) /\ k.seen \in Nat /\ k.step \in Nat /\ (Local => k.replay = 0)
  BY DEF Sound
<1>2. LET j == Accumulated(k, n) IN j.seen = k.seen /\ j.step = k.step /\ j.replay = k.replay
  BY <1>1 DEF Accumulated, IsTrainer, Parts
<1>3. LET j == Updated(k, late) IN j.seen = k.seen /\ j.step = k.step + 1 /\ j.replay = k.replay
  BY <1>1 DEF Updated, IsTrainer, Parts
<1>4. LET j == Decided(k) IN j.seen = k.seen /\ j.step = k.step /\ j.replay = k.replay
  BY <1>1 DEF Decided, IsTrainer, Parts
<1>5. LET j == Evaluated(k) IN j.seen = k.seen /\ j.step = k.step /\ j.replay = k.replay
  BY <1>1 DEF Evaluated, IsTrainer, Parts
<1>6. LET j == Saved(k) IN j.seen = k.seen /\ j.step = k.step /\ j.replay = k.replay
  BY <1>1 DEF Saved, IsTrainer, Parts
<1>7. Sound(Padded(k, n))
  BY <1>1, SoundTrainBatch, SoundAt DEF Padded
<1>8. Sound(Accumulated(k, n))
  BY <1>1, <1>2, AccumulatedFields DEF Sound
<1>9. Sound(Updated(k, late))
  BY <1>1, <1>3, UpdatedFields DEF Sound
<1>10. Sound(Decided(k))
  BY <1>1, <1>4, DecidedFields DEF Sound
<1>11. Sound(Evaluated(k)) /\ Sound(Saved(k))
  BY <1>1, <1>5, <1>6, EvaluatedFields, SavedFields DEF Sound
<1>12. QED
  BY <1>7, <1>8, <1>9, <1>10, <1>11

-----------------------------------------------------------------------------
(* What a collective returns to the ranks that entered it together.            *)

LEMMA AfterIs ==
    ASSUME NEW c \in Collectives, NEW r, NEW late
    PROVE  LET k == rank[r]
               a == After(c, r, late)
           IN  /\ c = "join" => a = Joined(k)
               /\ c \in {"restored", "replayed"} => a = [k EXCEPT !.at = "read"]
               /\ c = "line" => a = Line(k, r)
               /\ c = "loss" => a = Accumulated(k, Pending)
               /\ c = "norm" => a = Updated(k, late[r])
               /\ c = "heartbeat" => a = Decided(k)
               /\ c = "telemetry" => a = [k EXCEPT !.at = "settle"]
               /\ c = "evaluate" => a = Evaluated(k)
               /\ c = "snapshot" => a = Gathered(k, r)
               /\ c = "saved" => a = Saved(k)
               /\ c = "score" => a = Scored(k)
               /\ c = "pending" => a = Padded(k, Pending)
               /\ c = "consumption" => a = [k EXCEPT !.at = "artifact"]
               /\ c = "artifact" => a = [k EXCEPT !.at = "complete"]
  BY DEF After, Collectives

\* Clocks and the ownership of a sequence change nothing that is shared.
LEMMA SameForAll ==
    ASSUME NEW p, IsCommon(p)
    PROVE  /\ \A x, y : Updated(p, x) = Updated(p, y)
           /\ \A r, s : Line(p, r) = Line(p, s)
<1>1. ASSUME NEW x, NEW y PROVE Updated(p, x) = Updated(p, y)
  BY DEF Updated, IsCommon, Common
<1>2. ASSUME NEW r, NEW s PROVE Line(p, r) = Line(p, s)
  <2> DEFINE n == p.seen + 1
  <2>1. \A x : [p EXCEPT !.seen = n, !.batch = x] = [p EXCEPT !.seen = n]
    BY DEF IsCommon, Common
  <2>2. \A x : AddSequence(p, x) = CASE p.step >= Target -> [p EXCEPT !.seen = n]
                                     [] p.step < Target /\ n % World = 0 ->
                                            TrainBatch([p EXCEPT !.seen = n])
                                     [] OTHER -> [p EXCEPT !.seen = n]
    BY <2>1 DEF AddSequence
  <2>3. AddSequence(p, r) = AddSequence(p, s)
    BY <2>2
  <2>4. QED
    BY <2>3 DEF Line
<1>3. QED
  BY <1>1, <1>2

LEMMA AfterShared ==
    ASSUME NEW c \in Collectives, NEW r, NEW s, NEW late,
           IsTrainer(rank[r]), IsTrainer(rank[s]), Shared(rank[r]) = Shared(rank[s]),
           c # "snapshot"
    PROVE  Shared(After(c, r, late)) = Shared(After(c, s, late))
<1> PICK k : k = rank[r]
  OBVIOUS
<1> PICK j : j = rank[s]
  OBVIOUS
<1> PICK p : p = Shared(k)
  OBVIOUS
<1>1. IsTrainer(k) /\ IsTrainer(j) /\ p = Shared(k) /\ p = Shared(j) /\ IsCommon(p)
  BY SharedIsCommon
<1>2. PICK a : a = After(c, r, late)
  OBVIOUS
<1>3. PICK b : b = After(c, s, late)
  OBVIOUS
<1>4. ASSUME NEW x, a = [k EXCEPT !.at = x], b = [j EXCEPT !.at = x]
      PROVE  Shared(a) = Shared(b)
  <2>1. Shared(a) = [p EXCEPT !.at = x]
    BY <1>1, <1>4, AtFields
  <2>2. Shared(b) = [p EXCEPT !.at = x]
    BY <1>1, <1>4, AtFields
  <2>3. QED
    BY <2>1, <2>2
<1>5. CASE c \in {"restored", "replayed", "telemetry", "consumption", "artifact", "join", "score"}
  <2>1. c \in {"restored", "replayed"}
          => a = [k EXCEPT !.at = "read"] /\ b = [j EXCEPT !.at = "read"]
    BY <1>2, <1>3, AfterIs
  <2>2. c = "telemetry" => a = [k EXCEPT !.at = "settle"] /\ b = [j EXCEPT !.at = "settle"]
    BY <1>2, <1>3, AfterIs
  <2>3. c = "consumption" => a = [k EXCEPT !.at = "artifact"] /\ b = [j EXCEPT !.at = "artifact"]
    BY <1>2, <1>3, AfterIs
  <2>4. c = "artifact" => a = [k EXCEPT !.at = "complete"] /\ b = [j EXCEPT !.at = "complete"]
    BY <1>2, <1>3, AfterIs
  <2>5. c = "score" => a = [k EXCEPT !.at = "judge"] /\ b = [j EXCEPT !.at = "judge"]
    BY <1>2, <1>3, AfterIs DEF Scored
  <2>6. PICK x : x = IF base = 0 THEN "read" ELSE "restore"
    OBVIOUS
  <2>7. c = "join" => a = [k EXCEPT !.at = x] /\ b = [j EXCEPT !.at = x]
    BY <1>2, <1>3, <2>6, AfterIs DEF Joined
  <2>8. Shared(a) = Shared(b)
    BY <1>4, <1>5, <2>1, <2>2, <2>3, <2>4, <2>5, <2>7
  <2>9. QED
    BY <1>2, <1>3, <2>8
<1>6. CASE c = "line"
  <2>1. a = Line(k, r) /\ b = Line(j, s)
    BY <1>2, <1>3, <1>6, AfterIs
  <2>2. Shared(a) = Line(p, r) /\ Shared(b) = Line(p, s)
    BY <1>1, <2>1, LineFields
  <2>3. QED
    BY <1>1, <1>2, <1>3, <2>2, SameForAll
<1>7. CASE c = "loss"
  <2>1. PICK n : n = Pending
    OBVIOUS
  <2>2. a = Accumulated(k, n) /\ b = Accumulated(j, n)
    BY <1>2, <1>3, <1>7, <2>1, AfterIs
  <2>3. QED
    BY <1>1, <1>2, <1>3, <2>2, AccumulatedFields
<1>8. CASE c = "norm"
  <2>1. PICK x, y : x = late[r] /\ y = late[s]
    OBVIOUS
  <2>2. a = Updated(k, x) /\ b = Updated(j, y)
    BY <1>2, <1>3, <1>8, <2>1, AfterIs
  <2>3. Shared(a) = Updated(p, x) /\ Shared(b) = Updated(p, y)
    BY <1>1, <2>2, UpdatedFields
  <2>4. QED
    BY <1>1, <1>2, <1>3, <2>3, SameForAll
<1>9. CASE c = "heartbeat"
  BY <1>1, <1>2, <1>3, <1>9, AfterIs, DecidedFields
<1>10. CASE c = "evaluate"
  BY <1>1, <1>2, <1>3, <1>10, AfterIs, EvaluatedFields
<1>11. CASE c = "saved"
  BY <1>1, <1>2, <1>3, <1>11, AfterIs, SavedFields
<1>12. CASE c = "pending"
  <2>1. PICK n : n = Pending
    OBVIOUS
  <2>2. a = Padded(k, n) /\ b = Padded(j, n)
    BY <1>2, <1>3, <1>12, <2>1, AfterIs
  <2>3. QED
    BY <1>1, <1>2, <1>3, <2>2, PaddedFields
<1>13. QED
  BY <1>5, <1>6, <1>7, <1>8, <1>9, <1>10, <1>11, <1>12 DEF Collectives

-----------------------------------------------------------------------------
(* Where a rank is going depends on the plan and, when it is being restored,   *)
(* on what this launch resumes from.                                           *)

LEMMA PlanFixes ==
    ASSUME plan' = plan
    PROVE  /\ \A p : LeftToDo(p)' = LeftToDo(p)
           /\ \A m, n : Completes(m, n)' <=> Completes(m, n)
           /\ Target' = Target /\ Local' = Local
           /\ \A s : BoundaryOf(s)' = BoundaryOf(s)
<1>1. PerStep' = PerStep
  BY DEF PerStep
<1>2. Target' = Target
  BY <1>1 DEF Target
<1>3. \A p : EvaluateDue(p)' <=> EvaluateDue(p)
  BY DEF EvaluateDue
<1>4. \A p : EvaluateFirst(p)' <=> EvaluateFirst(p)
  BY <1>3 DEF EvaluateFirst
<1>5. \A p : /\ CheckpointDue(p)' <=> CheckpointDue(p)
             /\ LastCheckpointDue(p)' <=> LastCheckpointDue(p)
  BY DEF CheckpointDue, LastCheckpointDue
<1>6. ASSUME NEW p PROVE LeftToDo(p)' = LeftToDo(p)
  BY <1>2, <1>3, <1>4, <1>5 DEF LeftToDo
<1>7. \A m, n : Completes(m, n)' <=> Completes(m, n)
  BY DEF Completes
<1>8. \A s : BoundaryOf(s)' = BoundaryOf(s)
  BY <1>1 DEF BoundaryOf
<1>9. QED
  BY <1>2, <1>6, <1>7, <1>8 DEF Local

LEMMA PlacesFixed ==
    ASSUME plan' = plan
    PROVE  \A p : Settled(p)' = Settled(p) /\ Drained(p)' = Drained(p)
<1>1. \A p : Settled(p)' = Settled(p)
  BY PlanFixes DEF Settled
<1>2. \A m : NextMicroBatch(m)' = NextMicroBatch(m)
  BY PlanFixes DEF NextMicroBatch
<1>3. \A p : Ended(p)' = Ended(p)
  BY <1>1, PlanFixes DEF Ended
<1>4. \A p : ReadOn(p)' = ReadOn(p)
  BY <1>2, <1>3, PlanFixes DEF ReadOn
<1>5. \A p : Drained(p)' = Drained(p)
  BY <1>4, PlanFixes DEF Drained
<1>6. QED
  BY <1>1, <1>5

LEMMA AheadFixed ==
    ASSUME plan' = plan, base' = base, NEW p,
           p.at = "restore" => published' = published /\ scored' = scored
    PROVE  Ahead(p)' = Ahead(p)
<1>1. CASE p.at = "restore"
  <2>1. BoundaryOf(base)' = BoundaryOf(base) /\ Local' = Local
    BY DEF BoundaryOf, PerStep, Local
  <2>2. Resumed(p)' = Resumed(p)
    BY <1>1, <2>1 DEF Resumed
  <2>3. Ahead(p) = Resumed(p) /\ Ahead(p)' = Resumed(p)'
    BY <1>1 DEF Ahead
  <2>4. QED
    BY <2>2, <2>3
<1>2. CASE p.at # "restore"
  <2>1. \A q : Drained(Settled(q))' = Drained(Settled(q))
    BY PlacesFixed
  <2>2. QED
    BY <1>2, <2>1, PlacesFixed DEF Ahead, Judged
<1>3. QED
  BY <1>1, <1>2

-----------------------------------------------------------------------------
(* The newest reported checkpoint.                                             *)

Less == {p \in Nat \X Nat : p[1] < p[2]}

\* Of a finite set of steps the one with the fewest above it is the largest.
LEMMA LargestExists ==
    ASSUME NEW S \in SUBSET Nat, IsFiniteSet(S), S # {}
    PROVE  Largest(S) \in S
<1> DEFINE Above(x) == {y \in S : x < y}
           Sizes == {Cardinality(Above(x)) : x \in S}
<1>1. \A x \in S : IsFiniteSet(Above(x)) /\ Cardinality(Above(x)) \in Nat
  <2> SUFFICES ASSUME NEW x \in S
               PROVE  IsFiniteSet(Above(x)) /\ Cardinality(Above(x)) \in Nat
    OBVIOUS
  <2>1. Above(x) \in SUBSET S
    OBVIOUS
  <2>2. IsFiniteSet(Above(x))
    BY <2>1, FS_Subset
  <2>3. QED
    BY <2>2, FS_CardinalityType
<1>2. IsWellFoundedOn(Less, Nat)
  BY NatLessThanWellFounded DEF OpToRel, Less
<1>3. Sizes \subseteq Nat /\ Sizes # {}
  BY <1>1
<1>4. PICK n \in Sizes : \A m \in Sizes : ~(<<m, n>> \in Less)
  BY <1>2, <1>3, WFMin
<1>5. PICK x \in S : n = Cardinality(Above(x))
  BY <1>4
<1>6. \A y \in S : y <= x
  <2> SUFFICES ASSUME NEW y \in S, x < y
               PROVE  FALSE
    OBVIOUS
  <2>1. Above(y) \in SUBSET Above(x) /\ Above(y) # Above(x)
    <3>1. \A z \in S : y < z => x < z
      OBVIOUS
    <3>2. y \in Above(x) /\ y \notin Above(y)
      OBVIOUS
    <3>3. QED
      BY <3>1, <3>2
  <2>2. IsFiniteSet(Above(x))
    BY <1>1
  <2>3. /\ Cardinality(Above(y)) <= Cardinality(Above(x))
        /\ Cardinality(Above(y)) # Cardinality(Above(x))
    BY <2>1, <2>2, FS_Subset
  <2> DEFINE m == Cardinality(Above(y))
  <2>4. m \in Nat /\ n \in Nat /\ m \in Sizes
    BY <1>1, <1>5
  <2> HIDE DEF m, Above
  <2>5. m < n
    BY <1>5, <2>3, <2>4 DEF m
  <2>6. QED
    BY <1>4, <2>4, <2>5 DEF Less
<1>7. QED
  BY <1>6 DEF Largest

-----------------------------------------------------------------------------
(* A step of one rank takes it no further than it was going.                   *)

LEMMA Typed ==
    ASSUME IInv, NEW r \in Ranks
    PROVE  /\ Sound(rank[r]) /\ IsTrainer(rank[r]) /\ IsCommon(Shared(rank[r]))
           /\ Shared(rank[r]).at = rank[r].at
           /\ \A j : /\ [rank EXCEPT ![r] = j][r] = j
                     /\ \A s \in Ranks \ {r} : [rank EXCEPT ![r] = j][s] = rank[s]
  BY SharedIsCommon, SharedFields DEF IInv, Sound

LEMMA LocalStep ==
    ASSUME IInv, plan' = plan, base' = base,
           NEW r \in Ranks, ~Failed(r), NEW j, rank' = [rank EXCEPT ![r] = j],
           Sound(j), Ahead(Shared(j)) = Ahead(Shared(rank[r])),
           \/ published' = published /\ scored' = scored
           \/ /\ j.at # "restore"
              /\ \A s \in Ranks : ~Failed(s) => rank[s].at # "restore",
           published' \in SUBSET Nat, IsFiniteSet(published')
    PROVE  IInv'
<1>1. /\ rank' = [s \in Ranks |-> rank'[s]] /\ rank'[r] = j
      /\ \A s \in Ranks \ {r} : rank'[s] = rank[s]
  BY DEF IInv
<1>2. \A k : Sound(k)' <=> Sound(k)
  BY PlanFixes DEF Sound
<1>3. \A s \in Ranks : Sound(rank[s])'
  <2> SUFFICES ASSUME NEW s \in Ranks PROVE Sound(rank[s])'
    OBVIOUS
  <2>1. PICK k : k = rank'[s]
    OBVIOUS
  <2>2. Sound(k)
    BY <1>1, <2>1 DEF IInv
  <2>3. Sound(k)'
    BY <1>2, <2>2
  <2>4. QED
    BY <2>1, <2>3 DEF Sound
<1>4. ASSUME NEW s \in Ranks, ~Failed(s)'
      PROVE  ~Failed(s) /\ Ahead(Shared(rank[s]))' = Ahead(Shared(rank[s]))
  <2>1. PICK k : k = rank'[s]
    OBVIOUS
  <2>2. ~Failed(s) /\ Ahead(Shared(k)) = Ahead(Shared(rank[s]))
    BY <1>1, <1>4, <2>1 DEF Failed
  <2>3. PICK p : p = Shared(k)
    OBVIOUS
  <2>4. p.at = "restore" => published' = published /\ scored' = scored
    BY <1>1, <2>1, <2>2, <2>3, SharedFields
  <2>5. Ahead(p)' = Ahead(p)
    BY <2>4, AheadFixed
  <2>6. Ahead(Shared(rank[s]))' = Ahead(p)'
    BY <2>1, <2>3 DEF Shared
  <2>7. QED
    BY <2>2, <2>3, <2>5, <2>6
<1>5. Agree'
  BY <1>4 DEF IInv, Agree
<1>6. QED
  BY <1>1, <1>3, <1>5 DEF IInv

-----------------------------------------------------------------------------
(* The steps of one rank.                                                      *)

LEMMA RestoreStep ==
    ASSUME RankConstants, IInv, NEW r \in Ranks, Restore(r)
    PROVE  IInv'
<1> PICK k : k = rank[r]
  OBVIOUS
<1> PICK p : p = Shared(k)
  OBVIOUS
<1> PICK j : j = Restored(k, r)
  OBVIOUS
<1>1. /\ Sound(k) /\ IsTrainer(k) /\ IsCommon(p) /\ p.at = k.at /\ k.at = "restore"
      /\ ~Failed(r)
  BY Typed DEF Restore, Live, Failed
<1>2. Sound(j)
  BY <1>1, SoundRestored DEF IInv
<1>3. Shared(j) = Resumed(p)
  BY <1>1, RestoredFields
<1>4. Ahead(Shared(j)) = Ahead(p)
  BY <1>1, <1>3, AheadOf, AheadOfRestored
<1>5. rank' = [rank EXCEPT ![r] = j]
  BY DEF Restore
<1>6. plan' = plan /\ base' = base /\ published' = published /\ scored' = scored
  BY DEF Restore, Unrecorded
<1>7. published' \in SUBSET Nat /\ IsFiniteSet(published')
  BY <1>6 DEF IInv
<1>8. QED
  BY <1>1, <1>2, <1>4, <1>5, <1>6, <1>7, LocalStep

LEMMA ReadLocalStep ==
    ASSUME RankConstants, IInv, NEW r \in Ranks, ReadLocal(r)
    PROVE  IInv'
<1> PICK k : k = rank[r]
  OBVIOUS
<1> PICK p : p = Shared(k)
  OBVIOUS
<1> PICK j : j = Line(k, r)
  OBVIOUS
<1>1. /\ Sound(k) /\ IsTrainer(k) /\ IsCommon(p) /\ p.at = k.at /\ k.at = "read"
      /\ ~Failed(r) /\ Local
  BY Typed DEF ReadLocal, Live, Failed, Local
<1>2. Sound(j)
  BY <1>1, SoundLine
<1>3. Shared(j) = Line(p, r)
  BY <1>1, LineFields
<1>4. p.seen \in Nat /\ p.step \in Nat /\ p.replay = 0
  BY <1>1, SharedFields DEF Sound
<1>5. Ahead(Shared(j)) = Ahead(p)
  <2>1. plan \in Plans
    BY DEF IInv
  <2>2. QED
    BY <1>1, <1>3, <1>4, <2>1, AheadOfRead
<1>6. rank' = [rank EXCEPT ![r] = j]
  BY DEF ReadLocal
<1>7. plan' = plan /\ base' = base /\ published' = published /\ scored' = scored
  BY DEF ReadLocal, Unrecorded
<1>8. published' \in SUBSET Nat /\ IsFiniteSet(published')
  BY <1>7 DEF IInv
<1>9. QED
  BY <1>1, <1>2, <1>5, <1>6, <1>7, <1>8, LocalStep

LEMMA SettleStep ==
    ASSUME IInv, NEW r \in Ranks, Settle(r)
    PROVE  IInv'
<1> PICK k : k = rank[r]
  OBVIOUS
<1> PICK p : p = Shared(k)
  OBVIOUS
<1> PICK j : j = Settled(k)
  OBVIOUS
<1>1. /\ Sound(k) /\ IsTrainer(k) /\ IsCommon(p) /\ p.at = k.at /\ k.at = "settle"
      /\ ~Failed(r)
  BY Typed DEF Settle, Live, Failed
<1>2. Sound(j)
  BY <1>1, SoundSettled
<1>3. Shared(j) = Settled(p)
  BY <1>1, SettledFields
<1>4. Ahead(Shared(j)) = Ahead(p)
  BY <1>1, <1>3, AheadOf, AheadOfSettled
<1>5. rank' = [rank EXCEPT ![r] = j]
  BY DEF Settle
<1>6. plan' = plan /\ base' = base /\ published' = published /\ scored' = scored
  BY DEF Settle, Unrecorded
<1>7. published' \in SUBSET Nat /\ IsFiniteSet(published')
  BY <1>6 DEF IInv
<1>8. QED
  BY <1>1, <1>2, <1>4, <1>5, <1>6, <1>7, LocalStep

LEMMA CommitStep ==
    ASSUME RankConstants, IInv, Commit
    PROVE  IInv'
<1> PICK r : r = Primary
  OBVIOUS
<1> PICK k : k = rank[r]
  OBVIOUS
<1> PICK p : p = Shared(k)
  OBVIOUS
<1> PICK j : j = [k EXCEPT !.at = "saved"]
  OBVIOUS
<1>0. r \in Ranks
  BY DEF RankConstants, Ranks, Primary
<1>1. /\ Sound(k) /\ IsTrainer(k) /\ IsCommon(p) /\ p.at = k.at /\ k.at = "commit"
      /\ ~Failed(r)
  BY <1>0, Typed DEF Commit, Live, Failed
<1>2. Sound(j)
  BY <1>1, SoundAt
<1>3. Shared(j) = [p EXCEPT !.at = "saved"]
  BY <1>1, AtFields
<1>4. Ahead(Shared(j)) = Ahead(p)
  BY <1>1, <1>3, AheadOf, AheadOfSaved
<1>5. rank' = [rank EXCEPT ![r] = j]
  BY DEF Commit
<1>6. plan' = plan /\ base' = base /\ published' = published /\ scored' = scored
  BY DEF Commit
<1>7. published' \in SUBSET Nat /\ IsFiniteSet(published')
  BY <1>6 DEF IInv
<1>8. QED
  BY <1>0, <1>1, <1>2, <1>4, <1>5, <1>6, <1>7, LocalStep

\* While a rank judges an evaluation no other is still restoring, so that what
\* the primary reports cannot change where a restore leads.
LEMMA NobodyRestores ==
    ASSUME IInv, NEW r \in Ranks, rank[r].at \in {"judge", "record"}
    PROVE  \A s \in Ranks : ~Failed(s) => rank[s].at # "restore"
<1> SUFFICES ASSUME NEW s \in Ranks, ~Failed(s), rank[s].at = "restore"
             PROVE  FALSE
  OBVIOUS
<1> PICK p : p = Shared(rank[r])
  OBVIOUS
<1> PICK q : q = Shared(rank[s])
  OBVIOUS
<1>1. /\ IsCommon(p) /\ p.at \in {"judge", "record"} /\ ~Failed(r)
      /\ IsCommon(q) /\ q.at = "restore"
  BY Typed DEF Failed
<1>2. Ahead(q).at = "restored"
  BY <1>1, AheadOf, AheadOfRestored
<1>3. IsCommon(Judged(p))
  BY <1>1 DEF IsCommon, Common, Judged
<1>4. PICK e : e = Settled(Judged(p))
  OBVIOUS
<1>5. IsCommon(e) /\ e.at # "restored"
  BY <1>3, <1>4, SettledPlaces
<1>6. Drained(e).at # "restored"
  <2>1. CASE e.at = "read" /\ Local
    <3>1. PICK x : x = NextMicroBatch(e.seen)
      OBVIOUS
    <3>2. [e EXCEPT !.seen = x, !.at = "loss"].at = "loss"
      BY <1>5 DEF IsCommon, Common
    <3>3. PICK f : f = [e EXCEPT !.seen = IF @ < plan.total THEN plan.total ELSE @,
                                 !.ending = TRUE]
      OBVIOUS
    <3>4. IsCommon(f)
      BY <1>5, <3>3 DEF IsCommon, Common
    <3>5. [f EXCEPT !.at = "pending"].at = "pending" /\ Settled(f).at # "restored"
      BY <3>4, SettledPlaces DEF IsCommon, Common
    <3>6. Ended(e).at # "restored"
      BY <3>3, <3>5 DEF Ended
    <3>7. ReadOn(e).at # "restored"
      BY <3>1, <3>2, <3>6 DEF ReadOn
    <3>8. QED
      BY <2>1, <3>7 DEF Drained
  <2>2. CASE ~(e.at = "read" /\ Local)
    BY <1>5, <2>2 DEF Drained
  <2>3. QED
    BY <2>1, <2>2
<1>7. Ahead(p) = Drained(e)
  BY <1>1, <1>4, AheadOf
<1>8. Ahead(p) = Ahead(q)
  BY <1>1 DEF IInv, Agree
<1>9. QED
  BY <1>2, <1>6, <1>7, <1>8

LEMMA OneMore ==
    ASSUME NEW S \in SUBSET Nat, IsFiniteSet(S), NEW x \in Nat
    PROVE  S \union {x} \in SUBSET Nat /\ IsFiniteSet(S \union {x})
  BY FS_AddElement

LEMMA JudgeStep ==
    ASSUME IInv, NEW r \in Ranks, Judge(r)
    PROVE  IInv'
<1> PICK k : k = rank[r]
  OBVIOUS
<1> PICK p : p = Shared(k)
  OBVIOUS
<1> PICK j : j = [k EXCEPT !.at = "record"]
  OBVIOUS
<1>1. /\ Sound(k) /\ IsTrainer(k) /\ IsCommon(p) /\ p.at = k.at /\ k.at = "judge"
      /\ ~Failed(r)
  BY Typed DEF Judge, Live, Failed
<1>2. Sound(j) /\ j.at = "record"
  BY <1>1, SoundAt DEF IsTrainer, Parts
<1>3. Shared(j) = [p EXCEPT !.at = "record"]
  BY <1>1, AtFields
<1>4. Ahead(Shared(j)) = Ahead(p)
  BY <1>1, <1>3, AheadOfJudged
<1>5. rank' = [rank EXCEPT ![r] = j]
  BY DEF Judge
<1>6. /\ plan' = plan /\ base' = base
      /\ published' = published \/ published' = published \union {k.step}
  BY DEF Judge
<1>7. published' \in SUBSET Nat /\ IsFiniteSet(published')
  BY <1>1, <1>6, OneMore DEF IInv, Sound
<1>8. \A s \in Ranks : ~Failed(s) => rank[s].at # "restore"
  BY <1>1, NobodyRestores
<1>9. QED
  BY <1>1, <1>2, <1>4, <1>5, <1>6, <1>7, <1>8, LocalStep

LEMMA RecordStep ==
    ASSUME IInv, NEW r \in Ranks, Record(r)
    PROVE  IInv'
<1> PICK k : k = rank[r]
  OBVIOUS
<1> PICK p : p = Shared(k)
  OBVIOUS
<1> PICK j : j = [k EXCEPT !.evaluations = @ \union {k.step}, !.at = "settle"]
  OBVIOUS
<1>1. /\ Sound(k) /\ IsTrainer(k) /\ IsCommon(p) /\ p.at = k.at /\ k.at = "record"
      /\ ~Failed(r)
  BY Typed DEF Record, Live, Failed
<1>2. /\ IsTrainer(j) /\ j.seen = k.seen /\ j.step = k.step /\ j.replay = k.replay
      /\ j.at = "settle"
  BY <1>1 DEF IsTrainer, Parts
<1>3. Sound(j)
  BY <1>1, <1>2 DEF Sound
<1>4. Shared(j) = [p EXCEPT !.evaluations = @ \union {p.step}, !.at = "settle"]
  BY <1>1 DEF IsTrainer, Shared, Parts, Common
<1>5. Ahead(Shared(j)) = Ahead(p)
  BY <1>1, <1>4, AheadOfJudged
<1>6. rank' = [rank EXCEPT ![r] = j]
  BY DEF Record
<1>7. plan' = plan /\ base' = base /\ published' = published
  BY DEF Record
<1>8. published' \in SUBSET Nat /\ IsFiniteSet(published')
  BY <1>7 DEF IInv
<1>9. \A s \in Ranks : ~Failed(s) => rank[s].at # "restore"
  BY <1>1, NobodyRestores
<1>10. QED
  BY <1>1, <1>2, <1>3, <1>5, <1>6, <1>7, <1>8, <1>9, LocalStep

-----------------------------------------------------------------------------
(* Collectives.                                                                *)

\* Ranks in the same collective agree on everything that is shared.
LEMMA EnteredTogether ==
    ASSUME IInv, NEW c \in Collectives, \A r \in Ranks : Live(r) /\ Waiting(r) = c
    PROVE  \A r, s \in Ranks : Shared(rank[r]) = Shared(rank[s])
<1>1. \A r \in Ranks : ~Failed(r) /\ Ahead(Shared(rank[r])) = Shared(rank[r])
  <2> SUFFICES ASSUME NEW r \in Ranks
               PROVE  ~Failed(r) /\ Ahead(Shared(rank[r])) = Shared(rank[r])
    OBVIOUS
  <2> PICK p : p = Shared(rank[r])
    OBVIOUS
  <2>1. p.at = rank[r].at /\ ~Failed(r)
    BY Typed DEF Live, Failed
  <2>2. CASE p.at = "read" /\ plan.plane = "launcher"
    <3>1. ~Local
      BY <2>2 DEF Local
    <3>2. QED
      BY <2>1, <2>2, <3>1, AheadOf
  <2>3. CASE ~(p.at = "read" /\ plan.plane = "launcher")
    <3>1. p.at \in Collectives
      BY <2>1, <2>3 DEF Waiting
    <3>2. p.at \notin {"restore", "commit", "judge", "record", "settle", "read"}
      BY <3>1 DEF Collectives
    <3>3. QED
      BY <2>1, <3>2, AheadOf
  <2>4. QED
    BY <2>2, <2>3
<1>2. QED
  BY <1>1 DEF IInv, Agree

LEMMA SoundAfterAll ==
    ASSUME IInv, NEW c \in Collectives, NEW r \in Ranks, NEW late
    PROVE  Sound(After(c, r, late))
<1> PICK k : k = rank[r]
  OBVIOUS
<1> PICK a : a = After(c, r, late)
  OBVIOUS
<1>1. Sound(k)
  BY Typed
<1>2. \A x : Sound([k EXCEPT !.at = x])
  BY <1>1, SoundAt
<1>3. CASE c \in {"restored", "replayed", "telemetry", "consumption", "artifact", "score"}
  <2>1. \/ a = [k EXCEPT !.at = "read"] \/ a = [k EXCEPT !.at = "settle"]
        \/ a = [k EXCEPT !.at = "artifact"] \/ a = [k EXCEPT !.at = "complete"]
        \/ a = [k EXCEPT !.at = "judge"]
    BY <1>3, AfterIs DEF Scored
  <2>2. QED
    BY <1>2, <2>1
<1>4. CASE c = "join"
  <2>1. PICK x : x = IF base = 0 THEN "read" ELSE "restore"
    OBVIOUS
  <2>2. a = [k EXCEPT !.at = x]
    BY <1>4, <2>1, AfterIs DEF Joined
  <2>3. QED
    BY <1>2, <2>2
<1>5. CASE c = "snapshot"
  <2>1. PICK x : x = IF r = Primary THEN "commit" ELSE "saved"
    OBVIOUS
  <2>2. a = [k EXCEPT !.at = x]
    BY <1>5, <2>1, AfterIs DEF Gathered
  <2>3. QED
    BY <1>2, <2>2
<1>6. CASE c = "line"
  BY <1>1, <1>6, AfterIs, SoundLine
<1>7. CASE c \in {"loss", "pending"}
  <2>1. PICK n : n = Pending
    OBVIOUS
  <2>2. a = Accumulated(k, n) \/ a = Padded(k, n)
    BY <1>7, <2>1, AfterIs
  <2>3. QED
    BY <1>1, <2>2, SoundAfter
<1>8. CASE c = "norm"
  <2>1. PICK x : x = late[r]
    OBVIOUS
  <2>2. a = Updated(k, x)
    BY <1>8, <2>1, AfterIs
  <2>3. QED
    BY <1>1, <2>2, SoundAfter
<1>9. CASE c \in {"heartbeat", "evaluate", "saved"}
  <2>1. a = Decided(k) \/ a = Evaluated(k) \/ a = Saved(k)
    BY <1>9, AfterIs
  <2>2. QED
    BY <1>1, <2>1, SoundAfter
<1>10. QED
  BY <1>3, <1>4, <1>5, <1>6, <1>7, <1>8, <1>9 DEF Collectives

\* Only the gathering of a snapshot sends ranks different ways, and the primary
\* catches up with the others when it has written the checkpoint.
LEMMA LeftTogether ==
    ASSUME RankConstants, IInv, NEW c \in Collectives, NEW late,
           \A r \in Ranks : Live(r) /\ Waiting(r) = c,
           NEW r \in Ranks, NEW s \in Ranks
    PROVE  \/ Shared(After(c, r, late)) = Shared(After(c, s, late))
           \/ \E p : /\ IsCommon(p)
                     /\ \A x \in {r, s} : \/ Shared(After(c, x, late)) = [p EXCEPT !.at = "commit"]
                                          \/ Shared(After(c, x, late)) = [p EXCEPT !.at = "saved"]
<1>1. Shared(rank[r]) = Shared(rank[s])
  BY EnteredTogether
<1>2. IsTrainer(rank[r]) /\ IsTrainer(rank[s])
  BY Typed
<1>3. CASE c = "snapshot"
  <2> PICK p : p = Shared(rank[r])
    OBVIOUS
  <2>1. IsCommon(p) /\ p = Shared(rank[s])
    BY <1>1, SharedIsCommon
  <2>2. ASSUME NEW x \in {r, s}
        PROVE  \/ Shared(After(c, x, late)) = [p EXCEPT !.at = "commit"]
               \/ Shared(After(c, x, late)) = [p EXCEPT !.at = "saved"]
    <3> PICK k : k = rank[x]
      OBVIOUS
    <3>1. IsTrainer(k) /\ Shared(k) = p
      BY <1>2, <2>1
    <3>2. After(c, x, late) = Gathered(k, x)
      BY <1>3, AfterIs
    <3>3. After(c, x, late) = [k EXCEPT !.at = "commit"] \/ After(c, x, late) = [k EXCEPT !.at = "saved"]
      BY <3>2 DEF Gathered
    <3>4. Shared([k EXCEPT !.at = "commit"]) = [p EXCEPT !.at = "commit"]
      BY <3>1, AtFields
    <3>5. Shared([k EXCEPT !.at = "saved"]) = [p EXCEPT !.at = "saved"]
      BY <3>1, AtFields
    <3>6. QED
      BY <3>3, <3>4, <3>5
  <2>3. QED
    BY <2>1, <2>2
<1>4. CASE c # "snapshot"
  BY <1>1, <1>2, <1>4, AfterShared
<1>5. QED
  BY <1>3, <1>4

\* The two places lead to the same one.
LEMMA CommitLeadsToSaved ==
    ASSUME NEW p, IsCommon(p), NEW a, NEW b,
           a \in {[p EXCEPT !.at = "commit"], [p EXCEPT !.at = "saved"]},
           b \in {[p EXCEPT !.at = "commit"], [p EXCEPT !.at = "saved"]}
    PROVE  Ahead(a) = Ahead(b)
<1> PICK q : q = [p EXCEPT !.at = "commit"]
  OBVIOUS
<1> PICK t : t = [p EXCEPT !.at = "saved"]
  OBVIOUS
<1>1. q.at = "commit" /\ t.at = "saved" /\ [q EXCEPT !.at = "saved"] = t
  BY DEF IsCommon, Common
<1>2. Ahead(q) = t /\ Ahead(t) = t
  BY <1>1, AheadOf
<1>3. QED
  BY <1>2

LEMMA CollectiveStep ==
    ASSUME RankConstants, IInv, NEW c \in Collectives, Collective(c)
    PROVE  IInv'
<1>1. PICK late \in Clocks(c) : rank' = [r \in Ranks |-> After(c, r, late)]
  BY DEF Collective
<1>2. \A r \in Ranks : Live(r) /\ Waiting(r) = c
  BY DEF Collective
<1>3. plan' = plan /\ base' = base
  BY DEF Collective
<1>4. \A k : Sound(k)' <=> Sound(k)
  BY <1>3, PlanFixes DEF Sound
<1>5. \A r \in Ranks : Sound(rank[r])'
  <2> SUFFICES ASSUME NEW r \in Ranks PROVE Sound(rank[r])'
    OBVIOUS
  <2>1. PICK k : k = rank'[r]
    OBVIOUS
  <2>2. Sound(k)
    BY <1>1, <2>1, SoundAfterAll
  <2>3. Sound(k)'
    BY <1>4, <2>2
  <2>4. QED
    BY <2>1, <2>3 DEF Sound
<1>6. ASSUME NEW r \in Ranks, NEW s \in Ranks
      PROVE  Ahead(Shared(rank[r]))' = Ahead(Shared(rank[s]))'
  <2>1. PICK a : a = Shared(rank'[r])
    OBVIOUS
  <2>2. PICK b : b = Shared(rank'[s])
    OBVIOUS
  <2>3. /\ Ahead(Shared(rank[r]))' = Ahead(a)' /\ Ahead(Shared(rank[s]))' = Ahead(b)'
    BY <2>1, <2>2 DEF Shared
  <2>4. a = Shared(After(c, r, late)) /\ b = Shared(After(c, s, late))
    BY <1>1, <2>1, <2>2
  <2>5. \/ a = b
        \/ \E p : /\ IsCommon(p)
                  /\ a \in {[p EXCEPT !.at = "commit"], [p EXCEPT !.at = "saved"]}
                  /\ b \in {[p EXCEPT !.at = "commit"], [p EXCEPT !.at = "saved"]}
    BY <1>2, <2>4, LeftTogether
  <2>6. CASE a = b
    BY <2>3, <2>6
  <2>7. CASE a # b
    <3>1. PICK p : /\ IsCommon(p)
                   /\ a \in {[p EXCEPT !.at = "commit"], [p EXCEPT !.at = "saved"]}
                   /\ b \in {[p EXCEPT !.at = "commit"], [p EXCEPT !.at = "saved"]}
      BY <2>5, <2>7
    <3>2. Ahead(a) = Ahead(b)
      BY <3>1, CommitLeadsToSaved
    <3>3. a.at # "restore" /\ b.at # "restore"
      <4>1. [p EXCEPT !.at = "commit"].at = "commit" /\ [p EXCEPT !.at = "saved"].at = "saved"
        BY <3>1 DEF IsCommon, Common
      <4>2. QED
        BY <3>1, <4>1
    <3>4. Ahead(a)' = Ahead(a) /\ Ahead(b)' = Ahead(b)
      BY <1>3, <3>3, AheadFixed
    <3>5. QED
      BY <2>3, <3>2, <3>4
  <2>8. QED
    BY <2>6, <2>7
<1>7. Agree'
  BY <1>6 DEF Agree
<1>8. published' \in SUBSET Nat /\ IsFiniteSet(published')
  <2>1. Primary \in Ranks
    BY DEF RankConstants, Ranks, Primary
  <2>2. published' = published \/ published' = published \union {rank[Primary].step}
    BY DEF Collective, Reported
  <2>3. rank[Primary].step \in Nat
    BY <2>1 DEF IInv, Sound
  <2>4. QED
    BY <2>2, <2>3, OneMore DEF IInv
<1>9. rank' = [r \in Ranks |-> rank'[r]]
  BY <1>1
<1>10. QED
  BY <1>3, <1>5, <1>7, <1>8, <1>9 DEF IInv

-----------------------------------------------------------------------------
(* Faults and launches.                                                        *)

LEMMA FailStep ==
    ASSUME IInv, NEW r \in Ranks, Fail(r)
    PROVE  IInv'
<1> PICK k : k = rank[r]
  OBVIOUS
<1> PICK j : j = [k EXCEPT !.at = "failed"]
  OBVIOUS
<1>1. Sound(k) /\ IsTrainer(k)
  BY Typed
<1>2. Sound(j) /\ j.at = "failed"
  BY <1>1, SoundAt DEF IsTrainer, Parts
<1>3. plan' = plan /\ base' = base /\ published' = published /\ scored' = scored
  BY DEF Fail
<1>4. rank' = [rank EXCEPT ![r] = j]
  BY DEF Fail
<1>5. /\ rank' = [s \in Ranks |-> rank'[s]] /\ rank'[r] = j
      /\ \A s \in Ranks \ {r} : rank'[s] = rank[s]
  BY <1>4 DEF IInv
<1>6. \A x : Sound(x)' <=> Sound(x)
  BY <1>3, PlanFixes DEF Sound
<1>7. \A s \in Ranks : Sound(rank[s])'
  <2> SUFFICES ASSUME NEW s \in Ranks PROVE Sound(rank[s])'
    OBVIOUS
  <2>1. PICK x : x = rank'[s]
    OBVIOUS
  <2>2. Sound(x)
    BY <1>2, <1>5, <2>1 DEF IInv
  <2>3. Sound(x)'
    BY <1>6, <2>2
  <2>4. QED
    BY <2>1, <2>3 DEF Sound
<1>8. ASSUME NEW s \in Ranks, ~Failed(s)'
      PROVE  ~Failed(s) /\ Ahead(Shared(rank[s]))' = Ahead(Shared(rank[s]))
  <2>1. s # r /\ rank'[s] = rank[s] /\ ~Failed(s)
    BY <1>2, <1>5, <1>8 DEF Failed
  <2>2. PICK p : p = Shared(rank'[s])
    OBVIOUS
  <2>3. Ahead(p)' = Ahead(p)
    BY <1>3, AheadFixed
  <2>4. Ahead(Shared(rank[s]))' = Ahead(p)'
    BY <2>2 DEF Shared
  <2>5. QED
    BY <2>1, <2>2, <2>3, <2>4
<1>9. Agree'
  BY <1>8 DEF IInv, Agree
<1>10. QED
  BY <1>3, <1>5, <1>7, <1>9 DEF IInv

\* What the ranks hold is all the invariant speaks of.
LEMMA OtherStep ==
    ASSUME IInv, UNCHANGED <<plan, rank, base, published, scored>>
    PROVE  IInv'
<1>1. \A x : Sound(x)' <=> Sound(x)
  BY PlanFixes DEF Sound
<1>2. \A s \in Ranks : Sound(rank[s])'
  <2> SUFFICES ASSUME NEW s \in Ranks PROVE Sound(rank[s])'
    OBVIOUS
  <2>1. PICK x : x = rank'[s]
    OBVIOUS
  <2>2. Sound(x)'
    BY <1>1, <2>1 DEF IInv
  <2>3. QED
    BY <2>1, <2>2 DEF Sound
<1>3. ASSUME NEW s \in Ranks
      PROVE  Ahead(Shared(rank[s]))' = Ahead(Shared(rank[s]))
  <2>1. PICK p : p = Shared(rank'[s])
    OBVIOUS
  <2>2. Ahead(p)' = Ahead(p)
    BY AheadFixed
  <2>3. Ahead(Shared(rank[s]))' = Ahead(p)'
    BY <2>1 DEF Shared
  <2>4. QED
    BY <2>1, <2>2, <2>3
<1>4. Agree'
  BY <1>3 DEF IInv, Agree, Failed
<1>5. QED
  BY <1>2, <1>4 DEF IInv

LEMMA FreshIsSound == Sound(Trainer)
  BY DEF Sound, Trainer, IsTrainer, Parts

LEMMA ResumeStep ==
    ASSUME IInv, Resume
    PROVE  IInv'
<1>1. /\ plan' = plan /\ published' = published /\ rank' = [r \in Ranks |-> Trainer]
      /\ base' = IF published = {} THEN 0 ELSE Largest(published)
  BY DEF Resume
<1>2. base' \in Nat
  BY <1>1, LargestExists DEF IInv
<1>3. (\A r \in Ranks : Sound(rank[r]))'
  <2>1. PICK k : k = Trainer
    OBVIOUS
  <2>2. Sound(k)
    BY <2>1, FreshIsSound
  <2>3. Sound(k)'
    BY <1>1, <2>2, PlanFixes DEF Sound
  <2>4. \A r \in Ranks : rank'[r] = k
    BY <1>1, <2>1
  <2>5. QED
    BY <2>3, <2>4 DEF Sound
<1>4. Agree'
  BY <1>1 DEF Agree
<1>5. QED
  BY <1>1, <1>2, <1>3, <1>4 DEF IInv

-----------------------------------------------------------------------------
(* The invariant is one.                                                       *)

LEMMA InitIInv ==
    ASSUME Init
    PROVE  IInv
<1>1. plan \in Plans /\ base \in Nat /\ rank = [r \in Ranks |-> Trainer]
  BY DEF Init
<1>2. published \in SUBSET Nat /\ IsFiniteSet(published)
  BY FS_EmptySet DEF Init
<1>3. Agree
  BY <1>1 DEF Agree
<1>4. QED
  BY <1>1, <1>2, <1>3, FreshIsSound DEF IInv

LEMMA NextIInv ==
    ASSUME RankConstants, IInv, [Next]_vars
    PROVE  IInv'
<1>1. ASSUME NEW r \in Ranks, RankStep(r) PROVE IInv'
  BY <1>1, RestoreStep, ReadLocalStep, SettleStep, JudgeStep, RecordStep DEF RankStep
<1>2. ASSUME NEW r \in Ranks, Fail(r) PROVE IInv'
  BY <1>2, FailStep
<1>3. CASE Commit
  BY <1>3, CommitStep
<1>4. CASE Complete
  BY <1>4, OtherStep DEF Complete
<1>5. CASE LauncherStops
  BY <1>5, OtherStep DEF LauncherStops
<1>6. CASE Resume
  BY <1>6, ResumeStep
<1>7. ASSUME NEW c \in Collectives, Collective(c) PROVE IInv'
  BY <1>7, CollectiveStep
<1>8. CASE UNCHANGED vars
  BY <1>8, OtherStep DEF vars
<1>9. QED
  BY <1>1, <1>2, <1>3, <1>4, <1>5, <1>6, <1>7, <1>8 DEF Next

LEMMA IInvAgrees ==
    ASSUME IInv
    PROVE  CollectivesAgree
<1> SUFFICES ASSUME NEW r \in Ranks, NEW s \in Ranks, Live(r), Live(s),
                    {Waiting(r), Waiting(s)} \subseteq Collectives
             PROVE  Waiting(r) = Waiting(s)
  BY DEF CollectivesAgree
<1>1. ASSUME NEW x \in {r, s}
      PROVE  ~Failed(x) /\ Ahead(Shared(rank[x])).at = rank[x].at
  <2> PICK p : p = Shared(rank[x])
    OBVIOUS
  <2>1. p.at = rank[x].at /\ ~Failed(x)
    BY Typed DEF Live, Failed
  <2>2. CASE p.at = "read"
    <3>1. plan.plane = "launcher"
      BY <2>1, <2>2 DEF Waiting, Collectives
    <3>2. ~Local
      BY <3>1 DEF Local
    <3>3. QED
      BY <2>1, <2>2, <3>2, AheadOf
  <2>3. CASE p.at # "read"
    <3>1. p.at \in Collectives
      BY <2>1, <2>3 DEF Waiting
    <3>2. p.at \notin {"restore", "commit", "judge", "record", "settle", "read"}
      BY <3>1 DEF Collectives
    <3>3. QED
      BY <2>1, <3>2, AheadOf
  <2>4. QED
    BY <2>2, <2>3
<1>2. Ahead(Shared(rank[r])) = Ahead(Shared(rank[s]))
  BY <1>1 DEF IInv, Agree
<1>3. rank[r].at = rank[s].at
  BY <1>1, <1>2
<1>4. QED
  BY <1>3 DEF Waiting

-----------------------------------------------------------------------------
(* What the primary has reported.                                              *)

\* A run that has nothing left to do.
Final(k) ==
    /\ k.step = Target
    /\ plan.evaluation => k.step \in k.evaluations
    /\ plan.evaluation \/ plan.checkpointEvery > 0 => k.step \in k.checkpoints

\* The primary's own lists are what has been reported, but for a checkpoint it
\* holds back until its evaluation is judged.
Kept(k, from, reported, evaluated) ==
    /\ k.at = "join" => k.checkpoints = {} /\ k.evaluations = {} /\ (from = 0 => reported = {})
    /\ k.at \notin {"join", "restore", "failed"} =>
          /\ k.evaluations = evaluated
          /\ k.checkpoints = IF k.at \in {"score", "judge"} /\ k.unpublished
                             THEN reported \union {k.step} ELSE reported
    /\ k.at \in {"score", "judge"} /\ ~k.unpublished => k.step \in reported
    /\ k.at = "record" => k.step \in reported
    /\ k.at \in {"heartbeat", "telemetry", "evaluate", "snapshot", "commit", "saved", "score",
                 "judge", "record"} => k.step # 0
    /\ k.at = "settle" => k.ending \/ k.step # 0
    /\ k.at = "pending" => k.ending
    /\ k.at # "line"
    /\ k.at \in {"consumption", "artifact", "complete"} => Final(k)

Reporting ==
    /\ scored \subseteq published /\ 0 \notin published
    /\ Kept(rank[Primary], base, published, scored)
    /\ job = "complete" => rank[Primary].at = "complete"

LEMMA KeptFixed ==
    ASSUME plan' = plan
    PROVE  \A k, b, p, s : Kept(k, b, p, s)' <=> Kept(k, b, p, s)
<1>1. \A k : Final(k)' <=> Final(k)
  BY PlanFixes DEF Final
<1>2. QED
  BY <1>1 DEF Kept

\* What most steps leave as it was.
SameLists(j, k) ==
    j.step = k.step /\ j.checkpoints = k.checkpoints /\ j.evaluations = k.evaluations

LEMMA TargetIsPositive ==
    ASSUME RankConstants, plan \in Plans
    PROVE  Target # 0
<1>1. plan.total \in Nat \ {0} /\ PerStep \in Nat \ {0}
  BY PlanNumbers DEF RankConstants, Plans
<1>2. \A x, y \in Nat \ {0} : (x + y - 1) \div y # 0
  <2> SUFFICES ASSUME NEW x \in Nat \ {0}, NEW y \in Nat \ {0}, (x + y - 1) \div y = 0
               PROVE  FALSE
    OBVIOUS
  <2>1. x + y - 1 \in Nat /\ x + y - 1 >= y
    OBVIOUS
  <2>2. PICK z : z = x + y - 1
    OBVIOUS
  <2>3. z = (y * (z \div y)) + (z % y) /\ (z % y) < y /\ (z % y) \in Nat
    BY <2>1, <2>2
  <2>4. z = z % y
    BY <2>2, <2>3
  <2>5. QED
    BY <2>1, <2>2, <2>3, <2>4
<1>3. QED
  BY <1>1, <1>2 DEF Target

LEMMA TrainBatchKeeps ==
    ASSUME NEW k, IsTrainer(k)
    PROVE  SameLists(TrainBatch(k), k) /\ TrainBatch(k).at \in {"read", "replayed", "loss"}
<1>1. CASE k.replay > 0
  <2> DEFINE m == k.replay - 1
             x == IF k.replay = 1 THEN "replayed" ELSE "read"
             u == k.opening \/ k.replay = 1
  <2>1. TrainBatch(k) = [k EXCEPT !.replay = m, !.batch = {}, !.opening = u, !.at = x]
    BY <1>1 DEF TrainBatch
  <2>2. x \in {"read", "replayed"}
    OBVIOUS
  <2> HIDE DEF m, x, u
  <2>3. SameLists(TrainBatch(k), k) /\ TrainBatch(k).at = x
    BY <2>1 DEF IsTrainer, Parts, SameLists
  <2>4. QED
    BY <2>2, <2>3
<1>2. CASE ~(k.replay > 0)
  BY <1>2 DEF TrainBatch, IsTrainer, Parts, SameLists
<1>3. QED
  BY <1>1, <1>2

LEMMA LineKeeps ==
    ASSUME NEW k, IsTrainer(k), k.at = "read", NEW r
    PROVE  LET j == Line(k, r) IN
           /\ SameLists(j, k)
           /\ \/ j.at \in {"read", "replayed", "loss"}
              \/ j.at \in {"pending", "settle"} /\ j.ending
<1> DEFINE n == k.seen + 1
           b == IF Owner(n) = r THEN k.batch \union {n} ELSE k.batch
           t == [k EXCEPT !.seen = n, !.batch = b]
           x == IF k.step < Target THEN "pending" ELSE "settle"
           e == [k EXCEPT !.ending = TRUE, !.at = x]
           m == [k EXCEPT !.seen = n]
<1>0. x \in {"pending", "settle"}
  OBVIOUS
<1> HIDE DEF n, b, x
<1>1. /\ IsTrainer(t) /\ SameLists(t, k) /\ t.at = "read"
      /\ IsTrainer(m) /\ SameLists(m, k) /\ m.at = "read"
      /\ IsTrainer(e) /\ SameLists(e, k) /\ e.at = x /\ e.ending
  BY DEF IsTrainer, Parts, SameLists
<1>2. Line(k, r) \in {e, m, t, TrainBatch(t)}
  <2>1. CASE k.seen < plan.total
    <3>1. Line(k, r) = AddSequence(k, r)
      BY <2>1 DEF Line
    <3>2. [k EXCEPT !.seen = n, !.batch = IF Owner(n) = r THEN @ \union {n} ELSE @] = t
      BY DEF b
    <3>3. AddSequence(k, r) = CASE k.step >= Target -> m
                                [] k.step < Target /\ n % World = 0 -> TrainBatch(t)
                                [] OTHER -> t
      BY <3>2 DEF AddSequence, n
    <3> HIDE DEF m, t
    <3>4. QED
      BY <3>1, <3>3
  <2>2. CASE ~(k.seen < plan.total)
    BY <2>2 DEF Line, x
  <2>3. QED
    BY <2>1, <2>2
<1> HIDE DEF e, m, t
<1>3. SameLists(TrainBatch(t), k) /\ TrainBatch(t).at \in {"read", "replayed", "loss"}
  BY <1>1, TrainBatchKeeps DEF SameLists
<1>4. QED
  BY <1>0, <1>1, <1>2, <1>3

LEMMA AtKeeps ==
    ASSUME NEW k, IsTrainer(k), NEW x
    PROVE  LET j == [k EXCEPT !.at = x] IN
           SameLists(j, k) /\ j.at = x /\ j.ending = k.ending /\ j.unpublished = k.unpublished
  BY DEF IsTrainer, Parts, SameLists

LEMMA SettledKeeps ==
    ASSUME NEW k, IsTrainer(k)
    PROVE  LET j == Settled(k) IN
           SameLists(j, k) /\ j.at = LeftToDo(k) /\ j.ending = k.ending /\ ~j.unpublished
<1> DEFINE x == LeftToDo(k)
<1>1. Settled(k) = [k EXCEPT !.unpublished = FALSE, !.at = x]
  BY DEF Settled
<1> HIDE DEF x
<1>2. QED
  BY <1>1 DEF IsTrainer, Parts, SameLists, x

\* Nothing is left to do only at the last step, evaluated and saved.
LEMMA LeftToDoEnds ==
    ASSUME NEW k
    PROVE  /\ LeftToDo(k) = "consumption" =>
                 /\ k.step = Target
                 /\ plan.evaluation => k.step \in k.evaluations
                 /\ plan.checkpointEvery > 0 => k.step \in k.checkpoints
           /\ LeftToDo(k) \in {"evaluate", "snapshot"} => ~k.ending \/ k.step = Target
<1>1. CASE k.ending /\ k.step # Target
  BY <1>1 DEF LeftToDo
<1>2. CASE ~k.ending \/ k.step = Target
  <2>1. LeftToDo(k) = "consumption" => k.ending /\ ~EvaluateDue(k) /\ ~LastCheckpointDue(k)
    <3>1. CASE EvaluateFirst(k)
      BY <1>2, <3>1 DEF LeftToDo
    <3>2. CASE ~EvaluateFirst(k) /\ CheckpointDue(k)
      BY <1>2, <3>2 DEF LeftToDo
    <3>3. CASE ~EvaluateFirst(k) /\ ~CheckpointDue(k)
      BY <1>2, <3>3 DEF LeftToDo
    <3>4. QED
      BY <3>1, <3>2, <3>3
  <2>2. QED
    BY <1>2, <2>1 DEF EvaluateDue, LastCheckpointDue
<1>3. QED
  BY <1>1, <1>2

LEMMA Changed ==
    ASSUME IInv, NEW r \in Ranks, NEW j, rank' = [rank EXCEPT ![r] = j]
    PROVE  rank'[r] = j /\ \A x \in Ranks \ {r} : rank'[x] = rank[x]
  BY DEF IInv

LEMMA PrimaryAdvances ==
    ASSUME plan' = plan, base' = base, job' = job, job = "run",
           NEW j, NEW p, NEW s, rank'[Primary] = j, published' = p, scored' = s,
           Kept(j, base, p, s), s \subseteq p, 0 \notin p
    PROVE  Reporting'
<1>1. PICK b : b = base
  OBVIOUS
<1>2. Kept(j, b, p, s)'
  BY <1>1, KeptFixed
<1>3. Kept(rank[Primary], base, published, scored)'
  BY <1>1, <1>2 DEF Kept, Final
<1>4. QED
  BY <1>3 DEF Reporting

LEMMA PrimaryRests ==
    ASSUME Reporting, plan' = plan, base' = base, published' = published, scored' = scored,
           rank'[Primary] = rank[Primary], job' = job \/ job' # "complete"
    PROVE  Reporting'
<1>1. PICK j, b, p, s : j = rank[Primary] /\ b = base /\ p = published /\ s = scored
  OBVIOUS
<1>2. Kept(j, b, p, s)'
  BY <1>1, KeptFixed DEF Reporting
<1>3. Kept(rank[Primary], base, published, scored)'
  BY <1>1, <1>2 DEF Kept, Final
<1>4. QED
  BY <1>3 DEF Reporting

LEMMA OwnStepReports ==
    ASSUME RankConstants, IInv, Reporting, NEW r \in Ranks,
           Restore(r) \/ ReadLocal(r) \/ Settle(r)
    PROVE  Reporting'
<1> PICK p : p = published
  OBVIOUS
<1> PICK s : s = scored
  OBVIOUS
<1> PICK b : b = base
  OBVIOUS
<1>1. /\ plan' = plan /\ base' = b /\ job' = job /\ job = "run"
      /\ published' = p /\ scored' = s /\ s \subseteq p /\ 0 \notin p
  BY DEF Restore, ReadLocal, Settle, Unrecorded, Live, Reporting
<1>2. CASE r # Primary
  <2>1. Primary \in Ranks
    BY DEF RankConstants, Ranks, Primary
  <2>2. rank'[Primary] = rank[Primary]
    BY <1>2, <2>1, Typed DEF Restore, ReadLocal, Settle
  <2>3. QED
    BY <1>1, <2>2, PrimaryRests
<1>3. CASE r = Primary
  <2> PICK k : k = rank[r]
    OBVIOUS
  <2>1. IsTrainer(k) /\ Kept(k, b, p, s)
    BY <1>3, Typed DEF Reporting
  <2>2. ASSUME Restore(r) PROVE Reporting'
    <3> PICK j : j = Restored(k, r)
      OBVIOUS
    <3>1. j.at = "restored" /\ j.checkpoints = p /\ j.evaluations = s
      BY <2>1 DEF Restored, IsTrainer, Parts
    <3>2. Kept(j, b, p, s)
      BY <3>1 DEF Kept
    <3>3. rank'[Primary] = j
      <4>1. rank' = [rank EXCEPT ![r] = Restored(rank[r], r)]
        BY <2>2 DEF Restore
      <4>2. QED
        BY <1>3, <4>1, Typed
    <3>4. QED
      BY <1>1, <3>2, <3>3, PrimaryAdvances
  <2>3. ASSUME ReadLocal(r) PROVE Reporting'
    <3> PICK j : j = Line(k, r)
      OBVIOUS
    <3>1. k.at = "read"
      BY <2>3 DEF ReadLocal
    <3>2. /\ SameLists(j, k)
          /\ \/ j.at \in {"read", "replayed", "loss"}
             \/ j.at \in {"pending", "settle"} /\ j.ending
      BY <2>1, <3>1, LineKeeps
    <3>3. Kept(j, b, p, s)
      BY <2>1, <3>1, <3>2 DEF Kept, SameLists
    <3>4. rank'[Primary] = j
      <4>1. rank' = [rank EXCEPT ![r] = Line(rank[r], r)]
        BY <2>3 DEF ReadLocal
      <4>2. QED
        BY <1>3, <4>1, Typed
    <3>5. QED
      BY <1>1, <3>3, <3>4, PrimaryAdvances
  <2>4. ASSUME Settle(r) PROVE Reporting'
    <3> PICK j : j = Settled(k)
      OBVIOUS
    <3>1. k.at = "settle"
      BY <2>4 DEF Settle
    <3>2. SameLists(j, k) /\ j.at = LeftToDo(k) /\ j.ending = k.ending /\ ~j.unpublished
      BY <2>1, SettledKeeps
    <3>3. j.at \in {"failed", "evaluate", "snapshot", "consumption", "read"}
      BY <3>2, LeftToDoPlaces
    <3>4. j.at \in {"evaluate", "snapshot"} => j.step # 0
      BY <2>1, <3>1, <3>2, LeftToDoEnds, TargetIsPositive DEF Kept, SameLists, IInv
    <3>5. j.at = "consumption" => Final(j)
      <4>1. k.evaluations = s /\ k.checkpoints = p
        BY <2>1, <3>1 DEF Kept
      <4>2. QED
        BY <1>1, <3>2, <4>1, LeftToDoEnds DEF Final, SameLists
    <3>6. j.evaluations = s /\ j.checkpoints = p
      BY <2>1, <3>1, <3>2 DEF Kept, SameLists
    <3>7. Kept(j, b, p, s)
      BY <3>3, <3>4, <3>5, <3>6 DEF Kept
    <3>8. rank'[Primary] = j
      <4>1. rank' = [rank EXCEPT ![r] = Settled(rank[r])]
        BY <2>4 DEF Settle
      <4>2. QED
        BY <1>3, <4>1, Typed
    <3>9. QED
      BY <1>1, <3>7, <3>8, PrimaryAdvances
  <2>5. QED
    BY <2>2, <2>3, <2>4
<1>4. QED
  BY <1>2, <1>3

LEMMA JudgementReports ==
    ASSUME RankConstants, IInv, Reporting, NEW r \in Ranks, Judge(r) \/ Record(r)
    PROVE  Reporting'
<1> PICK p : p = published
  OBVIOUS
<1> PICK s : s = scored
  OBVIOUS
<1> PICK b : b = base
  OBVIOUS
<1>1. /\ plan' = plan /\ base' = b /\ job' = job /\ job = "run" /\ s \subseteq p /\ 0 \notin p
  BY DEF Judge, Record, Live, Reporting
<1>2. CASE r # Primary
  <2>1. Primary \in Ranks
    BY DEF RankConstants, Ranks, Primary
  <2>2. rank'[Primary] = rank[Primary]
    <3>1. PICK j : rank' = [rank EXCEPT ![r] = j]
      BY DEF Judge, Record
    <3>2. QED
      BY <1>2, <2>1, <3>1, Typed
  <2>3. published' = published /\ scored' = scored
    BY <1>2 DEF Judge, Record
  <2>4. QED
    BY <1>1, <2>2, <2>3, PrimaryRests
<1>3. CASE r = Primary
  <2> PICK k : k = rank[r]
    OBVIOUS
  <2>1. IsTrainer(k) /\ Kept(k, b, p, s)
    BY <1>3, Typed DEF Reporting
  <2>2. ASSUME Judge(r) PROVE Reporting'
    <3> PICK j : j = [k EXCEPT !.at = "record"]
      OBVIOUS
    <3> PICK q : q = p \union {k.step}
      OBVIOUS
    <3>1. k.at = "judge" /\ published' = q /\ scored' = s
      BY <1>3, <2>2 DEF Judge
    <3>2. SameLists(j, k) /\ j.at = "record"
      BY <2>1, AtKeeps
    <3>3. k.evaluations = s /\ k.step # 0
      BY <2>1, <3>1 DEF Kept
    <3>4. k.checkpoints = q
      <4>1. k.unpublished => k.checkpoints = p \union {k.step}
        BY <2>1, <3>1 DEF Kept
      <4>2. ~k.unpublished => k.checkpoints = p /\ k.step \in p
        BY <2>1, <3>1 DEF Kept
      <4>3. QED
        BY <4>1, <4>2
    <3>5. Kept(j, b, q, s)
      BY <3>2, <3>3, <3>4 DEF Kept, SameLists
    <3>6. rank'[Primary] = j
      BY <1>3, <2>2, Typed DEF Judge
    <3>7. s \subseteq q /\ 0 \notin q
      BY <1>1, <3>3
    <3>8. QED
      BY <1>1, <3>1, <3>5, <3>6, <3>7, PrimaryAdvances
  <2>3. ASSUME Record(r) PROVE Reporting'
    <3> PICK j : j = [k EXCEPT !.evaluations = @ \union {k.step}, !.at = "settle"]
      OBVIOUS
    <3> PICK t : t = s \union {k.step}
      OBVIOUS
    <3>1. k.at = "record" /\ published' = p /\ scored' = t
      BY <1>3, <2>3 DEF Record
    <3>2. /\ j.step = k.step /\ j.checkpoints = k.checkpoints /\ j.at = "settle"
          /\ j.evaluations = k.evaluations \union {k.step}
      BY <2>1 DEF IsTrainer, Parts
    <3>3. k.evaluations = s /\ k.checkpoints = p /\ k.step \in p /\ k.step # 0
      BY <2>1, <3>1 DEF Kept
    <3>4. Kept(j, b, p, t)
      BY <3>2, <3>3 DEF Kept
    <3>5. rank'[Primary] = j
      <4>1. rank' = [rank EXCEPT ![r] = j]
        BY <2>3 DEF Record
      <4>2. PICK i : i = j /\ rank' = [rank EXCEPT ![r] = i]
        BY <4>1
      <4>3. rank'[r] = i
        BY <4>2, Changed
      <4>4. QED
        BY <1>3, <4>2, <4>3
    <3>6. t \subseteq p
      BY <1>1, <3>3
    <3>7. QED
      BY <1>1, <3>1, <3>4, <3>5, <3>6, PrimaryAdvances
  <2>4. QED
    BY <2>2, <2>3
<1>4. QED
  BY <1>2, <1>3

\* What a collective returns to the primary.
LEMMA CollectiveReports ==
    ASSUME RankConstants, IInv, Reporting, NEW c \in Collectives, Collective(c)
    PROVE  Reporting'
<1> PICK p : p = published
  OBVIOUS
<1> PICK s : s = scored
  OBVIOUS
<1> PICK b : b = base
  OBVIOUS
<1> PICK k : k = rank[Primary]
  OBVIOUS
<1>0. Primary \in Ranks
  BY DEF RankConstants, Ranks, Primary
<1>1. /\ plan' = plan /\ base' = b /\ job' = job /\ scored' = s /\ s \subseteq p /\ 0 \notin p
      /\ Live(Primary) /\ Waiting(Primary) = c /\ IsTrainer(k) /\ Kept(k, b, p, s)
      /\ k.step \in Nat
  BY <1>0, Typed DEF Collective, Reporting, Sound
<1>2. k.at = c \/ (c = "line" /\ k.at = "read")
  BY <1>1 DEF Waiting
<1>3. job = "run" /\ k.at # "line"
  BY <1>1 DEF Live, Kept
<1>4. PICK late : rank' = [r \in Ranks |-> After(c, r, late)]
  BY DEF Collective
<1> PICK j : j = After(c, Primary, late)
  OBVIOUS
<1>5. rank'[Primary] = j
  BY <1>0, <1>4
<1>6. ASSUME published' = p, Kept(j, b, p, s)
      PROVE  Reporting'
  BY <1>1, <1>3, <1>5, <1>6, PrimaryAdvances
<1>7. c # "saved" => published' = p
  BY DEF Collective
<1>8. CASE c \in {"restored", "replayed", "telemetry", "consumption", "artifact", "score"}
  <2>1. PICK x : /\ j = [k EXCEPT !.at = x]
                 /\ \/ c \in {"restored", "replayed"} /\ x = "read"
                    \/ c = "telemetry" /\ x = "settle"
                    \/ c = "consumption" /\ x = "artifact"
                    \/ c = "artifact" /\ x = "complete"
                    \/ c = "score" /\ x = "judge"
    <3>1. /\ c \in {"restored", "replayed"} => j = [k EXCEPT !.at = "read"]
          /\ c = "telemetry" => j = [k EXCEPT !.at = "settle"]
          /\ c = "consumption" => j = [k EXCEPT !.at = "artifact"]
          /\ c = "artifact" => j = [k EXCEPT !.at = "complete"]
          /\ c = "score" => j = [k EXCEPT !.at = "judge"]
      BY <1>4, AfterIs DEF Scored
    <3>2. QED
      BY <1>8, <3>1
  <2>2. SameLists(j, k) /\ j.at = x /\ j.unpublished = k.unpublished
    BY <1>1, <2>1, AtKeeps
  <2>3. Final(k) => Final(j)
    BY <2>2 DEF Final, SameLists
  <2>4. k.at = c
    BY <1>2, <1>8
  <2>5. Kept(j, b, p, s)
    BY <1>1, <2>1, <2>2, <2>3, <2>4 DEF Kept, SameLists
  <2>6. QED
    BY <1>6, <1>7, <1>8, <2>5
<1>9. CASE c = "join"
  <2> PICK x : x = IF base = 0 THEN "read" ELSE "restore"
    OBVIOUS
  <2>1. j = [k EXCEPT !.at = x]
    BY <1>4, <1>9, AfterIs DEF Joined
  <2>2. SameLists(j, k) /\ j.at = x
    BY <1>1, <2>1, AtKeeps
  <2>3. /\ k.checkpoints = {} /\ k.evaluations = {} /\ (b = 0 => p = {} /\ s = {})
    BY <1>1, <1>2, <1>9 DEF Kept
  <2>4. Kept(j, b, p, s)
    BY <2>2, <2>3 DEF Kept, SameLists
  <2>5. QED
    BY <1>6, <1>7, <1>9, <2>4
<1>10. CASE c = "line"
  <2>1. j = Line(k, Primary) /\ k.at = "read"
    BY <1>2, <1>3, <1>4, <1>10, AfterIs
  <2>2. PICK r : r = Primary
    OBVIOUS
  <2>3. /\ SameLists(j, k)
        /\ \/ j.at \in {"read", "replayed", "loss"}
           \/ j.at \in {"pending", "settle"} /\ j.ending
    BY <1>1, <2>1, <2>2, LineKeeps
  <2>4. Kept(j, b, p, s)
    BY <1>1, <2>1, <2>3 DEF Kept, SameLists
  <2>5. QED
    BY <1>6, <1>7, <1>10, <2>4
<1>11. CASE c = "loss"
  <2> PICK n : n = Pending
    OBVIOUS
  <2>1. j = Accumulated(k, n) /\ k.at = "loss"
    BY <1>2, <1>4, <1>11, AfterIs
  <2>2. SameLists(j, k) /\ j.at \in {"read", "norm"}
    BY <1>1, <2>1 DEF Accumulated, SameLists, IsTrainer, Parts
  <2>3. Kept(j, b, p, s)
    BY <1>1, <2>1, <2>2 DEF Kept, SameLists
  <2>4. QED
    BY <1>6, <1>7, <1>11, <2>3
<1>12. CASE c = "norm"
  <2> PICK x : x = late[Primary]
    OBVIOUS
  <2>1. j = Updated(k, x) /\ k.at = "norm"
    BY <1>2, <1>4, <1>12, AfterIs
  <2>2. /\ j.step = k.step + 1 /\ j.checkpoints = k.checkpoints /\ j.evaluations = k.evaluations
        /\ j.at = "heartbeat"
    BY <1>1, <2>1 DEF Updated, IsTrainer, Parts
  <2>3. j.step # 0
    BY <1>1, <2>2
  <2>4. Kept(j, b, p, s)
    BY <1>1, <2>1, <2>2, <2>3 DEF Kept
  <2>5. QED
    BY <1>6, <1>7, <1>12, <2>4
<1>13. CASE c = "heartbeat"
  <2>1. j = Decided(k) /\ k.at = "heartbeat"
    BY <1>2, <1>4, <1>13, AfterIs
  <2>2. SameLists(j, k) /\ j.at \in {"telemetry", "settle"}
    <3> PICK x : x = IF ReportDue(k) THEN "telemetry" ELSE "settle"
      OBVIOUS
    <3>1. j = [k EXCEPT !.due = FALSE, !.at = x]
      BY <2>1 DEF Decided
    <3>2. SameLists(j, k) /\ j.at = x
      BY <1>1, <3>1 DEF SameLists, IsTrainer, Parts
    <3>3. QED
      BY <3>2
  <2>3. Kept(j, b, p, s)
    BY <1>1, <2>1, <2>2 DEF Kept, SameLists
  <2>4. QED
    BY <1>6, <1>7, <1>13, <2>3
<1>14. CASE c = "evaluate"
  <2>1. j = Evaluated(k) /\ k.at = "evaluate"
    BY <1>2, <1>4, <1>14, AfterIs
  <2>2. /\ SameLists(j, k) /\ j.unpublished = (k.step \notin k.checkpoints)
        /\ j.at = IF k.step \in k.checkpoints THEN "score" ELSE "snapshot"
    BY <1>1, <2>1 DEF Evaluated, SameLists, IsTrainer, Parts
  <2>3. k.checkpoints = p /\ k.evaluations = s /\ k.step # 0
    BY <1>1, <2>1 DEF Kept
  <2>4. Kept(j, b, p, s)
    BY <2>2, <2>3 DEF Kept, SameLists
  <2>5. QED
    BY <1>6, <1>7, <1>14, <2>4
<1>15. CASE c = "snapshot"
  <2>1. j = [k EXCEPT !.at = "commit"] /\ k.at = "snapshot"
    BY <1>2, <1>4, <1>15, AfterIs DEF Gathered
  <2>2. SameLists(j, k) /\ j.at = "commit"
    BY <1>1, <2>1, AtKeeps
  <2>3. Kept(j, b, p, s)
    BY <1>1, <2>1, <2>2 DEF Kept, SameLists
  <2>4. QED
    BY <1>6, <1>7, <1>15, <2>3
<1>16. CASE c = "saved"
  <2>1. j = Saved(k) /\ k.at = "saved"
    BY <1>2, <1>4, <1>16, AfterIs
  <2>2. /\ j.step = k.step /\ j.checkpoints = k.checkpoints \union {k.step}
        /\ j.evaluations = k.evaluations /\ j.unpublished = k.unpublished
        /\ j.at = IF k.unpublished THEN "score" ELSE "settle"
    BY <1>1, <2>1 DEF Saved, IsTrainer, Parts
  <2>3. k.checkpoints = p /\ k.evaluations = s /\ k.step # 0
    BY <1>1, <2>1 DEF Kept
  <2> PICK q : q = p \union (IF k.unpublished THEN {} ELSE {k.step})
    OBVIOUS
  <2>4. published' = q
    BY <1>16 DEF Collective, Reported
  <2>5. CASE k.unpublished
    <3>1. q = p /\ j.at = "score" /\ j.checkpoints = p \union {j.step}
      BY <2>2, <2>3, <2>5
    <3>2. Kept(j, b, p, s)
      BY <2>2, <2>3, <2>5, <3>1 DEF Kept
    <3>3. QED
      BY <1>6, <2>4, <3>1, <3>2
  <2>6. CASE ~k.unpublished
    <3>1. q = p \union {k.step} /\ j.at = "settle" /\ j.checkpoints = q
      BY <2>2, <2>3, <2>6
    <3>2. Kept(j, b, q, s)
      BY <2>2, <2>3, <3>1 DEF Kept
    <3>3. s \subseteq q /\ 0 \notin q
      BY <1>1, <2>3, <3>1
    <3>4. QED
      BY <1>1, <1>3, <1>5, <2>4, <3>2, <3>3, PrimaryAdvances
  <2>7. QED
    BY <2>5, <2>6
<1>17. CASE c = "pending"
  <2> PICK n : n = Pending
    OBVIOUS
  <2>1. j = Padded(k, n) /\ k.at = "pending"
    BY <1>2, <1>4, <1>17, AfterIs
  <2>2. /\ SameLists(j, k)
        /\ j.at \in {"read", "replayed", "loss"} \/ (j.at = "settle" /\ j.ending = k.ending)
    BY <1>1, <2>1, TrainBatchKeeps, AtKeeps DEF Padded
  <2>3. Kept(j, b, p, s)
    BY <1>1, <2>1, <2>2 DEF Kept, SameLists
  <2>4. QED
    BY <1>6, <1>7, <1>17, <2>3
<1>18. QED
  BY <1>8, <1>9, <1>10, <1>11, <1>12, <1>13, <1>14, <1>15, <1>16, <1>17 DEF Collectives

LEMMA NextReports ==
    ASSUME RankConstants, IInv, Reporting, [Next]_vars
    PROVE  Reporting'
<1>0. Primary \in Ranks
  BY DEF RankConstants, Ranks, Primary
<1>1. ASSUME NEW r \in Ranks, RankStep(r) PROVE Reporting'
  BY <1>1, OwnStepReports, JudgementReports DEF RankStep
<1>2. ASSUME NEW r \in Ranks, Fail(r) PROVE Reporting'
  <2>1. /\ plan' = plan /\ base' = base /\ published' = published /\ scored' = scored
        /\ job' = job /\ job = "run"
    BY <1>2 DEF Fail, Live
  <2>2. PICK j : j = [rank[r] EXCEPT !.at = "failed"] /\ rank' = [rank EXCEPT ![r] = j]
    BY <1>2 DEF Fail
  <2>3. CASE r = Primary
    <3>1. j.at = "failed"
      BY <2>2, Typed, AtKeeps
    <3>2. rank'[r] = j
      BY <2>2, Changed
    <3>3. PICK p, s : p = published /\ s = scored
      OBVIOUS
    <3>4. Kept(j, base, p, s)
      BY <3>1 DEF Kept
    <3>5. s \subseteq p /\ 0 \notin p
      BY <3>3 DEF Reporting
    <3>6. QED
      BY <2>1, <2>3, <3>2, <3>3, <3>4, <3>5, PrimaryAdvances
  <2>4. CASE r # Primary
    <3>1. rank'[Primary] = rank[Primary]
      BY <1>0, <2>2, <2>4, Typed
    <3>2. QED
      BY <2>1, <3>1, PrimaryRests
  <2>5. QED
    BY <2>3, <2>4
<1>3. CASE Commit
  <2>1. /\ plan' = plan /\ base' = base /\ published' = published /\ scored' = scored
        /\ job' = job /\ job = "run" /\ rank[Primary].at = "commit"
    BY <1>3 DEF Commit, Live
  <2>2. PICK k, p, s : k = rank[Primary] /\ p = published /\ s = scored
    OBVIOUS
  <2>3. PICK j : j = [k EXCEPT !.at = "saved"] /\ rank' = [rank EXCEPT ![Primary] = j]
    BY <1>3, <2>2 DEF Commit
  <2>4. SameLists(j, k) /\ j.at = "saved"
    BY <1>0, <2>2, <2>3, Typed, AtKeeps
  <2>5. Kept(j, base, p, s)
    BY <2>1, <2>2, <2>4 DEF Reporting, Kept, SameLists
  <2>6. rank'[Primary] = j
    BY <1>0, <2>3, Typed
  <2>7. s \subseteq p /\ 0 \notin p
    BY <2>2 DEF Reporting
  <2>8. QED
    BY <2>1, <2>2, <2>5, <2>6, <2>7, PrimaryAdvances
<1>4. CASE Complete
  <2>1. PICK k, b, p, s : k = rank[Primary] /\ b = base /\ p = published /\ s = scored
    OBVIOUS
  <2>2. /\ plan' = plan /\ base' = b /\ published' = p /\ scored' = s /\ rank'[Primary] = k
        /\ k.at = "complete"
    BY <1>4, <2>1 DEF Complete
  <2>3. Kept(k, b, p, s)'
    BY <2>1, <2>2, KeptFixed DEF Reporting
  <2>4. Kept(rank[Primary], base, published, scored)'
    BY <2>2, <2>3 DEF Kept, Final
  <2>5. QED
    BY <2>1, <2>2, <2>4 DEF Reporting
<1>5. CASE LauncherStops
  BY <1>5, PrimaryRests DEF LauncherStops
<1>6. CASE Resume
  <2>1. /\ published' = published /\ scored' = scored /\ job' = "run"
        /\ rank'[Primary] = Trainer
        /\ base' = IF published = {} THEN 0 ELSE Largest(published)
    BY <1>0, <1>6 DEF Resume
  <2>2. base' = 0 => published' = {}
    <3>1. published # {} => Largest(published) \in published
      BY LargestExists DEF IInv
    <3>2. QED
      BY <2>1, <3>1 DEF Reporting
  <2>3. Kept(rank[Primary], base, published, scored)'
    BY <2>1, <2>2 DEF Kept, Trainer
  <2>4. QED
    BY <2>1, <2>3 DEF Reporting
<1>7. ASSUME NEW c \in Collectives, Collective(c) PROVE Reporting'
  BY <1>7, CollectiveReports
<1>8. CASE UNCHANGED vars
  BY <1>8, PrimaryRests DEF vars
<1>9. QED
  BY <1>1, <1>2, <1>3, <1>4, <1>5, <1>6, <1>7, <1>8 DEF Next

LEMMA InitReports ==
    ASSUME RankConstants, Init
    PROVE  Reporting
<1>1. /\ scored = {} /\ published = {} /\ job = "run" /\ rank[Primary] = Trainer
  BY DEF Init, RankConstants, Ranks, Primary
<1>2. Kept(rank[Primary], base, published, scored)
  BY <1>1 DEF Kept, Trainer
<1>3. QED
  BY <1>1, <1>2 DEF Reporting

LEMMA ReportingIsEnough ==
    ASSUME Reporting
    PROVE  CompleteIsEvaluated
<1> PICK k : k = rank[Primary]
  OBVIOUS
<1>1. scored \subseteq published /\ Kept(k, base, published, scored)
  BY DEF Reporting
<1>2. ASSUME job = "complete"
      PROVE  Final(k) /\ k.evaluations = scored /\ k.checkpoints = published
  <2>1. k.at = "complete"
    BY <1>2 DEF Reporting
  <2>2. QED
    BY <1>1, <2>1 DEF Kept
<1>3. QED
  BY <1>1, <1>2 DEF CompleteIsEvaluated, Final

-----------------------------------------------------------------------------
(* The theorems.                                                               *)

\* What the argument carries: whatever the number of ranks, the plan, the stream
\* and the faults, all ranks that have not failed are on their way to the same
\* collective with the same step, boundary and list of reported checkpoints.
THEOREM RanksInvariant ==
    ASSUME RankConstants
    PROVE  Spec => []IInv
<1>1. Init => IInv
  BY InitIInv
<1>2. IInv /\ [Next]_vars => IInv'
  BY NextIInv
<1>3. QED
  BY <1>1, <1>2, PTL DEF Spec

\* No two ranks ever wait in different collectives: every collective of
\* pytorch.py is entered by all ranks of a launch or by none.
THEOREM RanksAgree ==
    ASSUME RankConstants
    PROVE  Spec => []CollectivesAgree
<1>1. IInv => CollectivesAgree
  BY IInvAgrees
<1>2. QED
  BY <1>1, RanksInvariant, PTL

\* A run that completes has evaluated its last step and reported its checkpoint,
\* and nothing is ever evaluated that was not reported before (Trainer.finish and
\* record_evaluation): also when the primary died between the two reports and
\* came back with nothing left to train.
THEOREM CompletionIsEvaluated ==
    ASSUME RankConstants
    PROVE  Spec => []CompleteIsEvaluated
<1>1. Init => Reporting
  BY InitReports
<1>2. IInv /\ Reporting /\ [Next]_vars => Reporting'
  BY NextReports
<1>3. Reporting => CompleteIsEvaluated
  BY ReportingIsEnough
<1>4. QED
  BY <1>1, <1>2, <1>3, RanksInvariant, PTL DEF Spec
=============================================================================
