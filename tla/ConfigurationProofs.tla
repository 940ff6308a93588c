------------------------- MODULE ConfigurationProofs -------------------------
(* Proofs about the configuration file: whatever processes there are, however *)
(* many commands they run and whenever they are killed, every command finds a *)
(* file it can load.                                                          *)
(*                                                                            *)
(* The property speaks of the file and of commands that were refused.  It is  *)
(* not inductive: the file becomes what some process holds.  The invariant    *)
(* adds what a process holds at each point between its load and its rename.   *)
EXTENDS Configuration, TLAPS

Configurations ==
    [free : {"", "x", "y"}, scheme : {"", "s3", "file"}, region : {"", "r"}, workers : 0 .. 32,
     method : {"", "sigstore-key", "sigstore-keyless"}, key : {"", "k"}]

Started ==
    [at : {"loaded", "failed", "written", "invalid", "done"}, op : Operations, from : Nat,
     holds : Configurations]

\* The only operations whose result may fail to validate.
MayBeRefused(op) == "set" \in DOMAIN op /\ op.set \in {"lookaside.region", "signing.key"}

TypeOK ==
    /\ file \in Configurations
    /\ revision \in Nat
    /\ command \in [Commands -> {Idle} \union Started]

HoldsValid(c) ==
    /\ c.at = "loaded" => Valid(c.holds) /\ ~Refused(c.holds, c.op)
    /\ c.at = "written" => Valid(c.holds)
    /\ c.at = "invalid" => MayBeRefused(c.op)

IInv == TypeOK /\ Valid(file) /\ \A p \in Commands : HoldsValid(command[p])

-----------------------------------------------------------------------------
(* Configurations and operations.                                             *)

\* What `config set` and `config unset` accept, operation by operation.
LEMMA OperationKinds ==
    ASSUME NEW op \in Operations
    PROVE  \/ /\ "set" \in DOMAIN op
              /\ \/ op.set = "free" /\ op.to \in {"x", "y"}
                 \/ op.set = "lookaside" /\ op.to \in {"s3", "file"}
                 \/ op.set = "lookaside.region" /\ op.to = "r"
                 \/ op.set = "lookaside.workers" /\ op.to = 8
                 \/ op.set = "signing.method" /\ op.to \in {"sigstore-key", "sigstore-keyless"}
                 \/ op.set = "signing.key" /\ op.to = "k"
           \/ /\ "set" \notin DOMAIN op
              /\ op.unset \in {"free", "lookaside", "lookaside.region", "lookaside.workers",
                               "signing.method", "signing.key"}
  BY DEF Operations

LEMMA ConfigurationFields ==
    ASSUME NEW c \in Configurations
    PROVE  /\ c.free \in {"", "x", "y"} /\ c.scheme \in {"", "s3", "file"} /\ c.region \in {"", "r"}
           /\ c.workers \in 0 .. 32 /\ c.method \in {"", "sigstore-key", "sigstore-keyless"}
           /\ c.key \in {"", "k"}
  BY DEF Configurations

\* What a valid configuration is, setting by setting.
LEMMA ValidFields ==
    ASSUME NEW c \in Configurations
    PROVE  Valid(c) <=> /\ c.region # "" => c.scheme = "s3"
                        /\ c.scheme = "" => c.workers = 0
                        /\ c.scheme # "" => c.workers # 0
                        /\ c.method = "sigstore-keyless" => c.key = ""
  <1>1. c.workers \in 0 .. 32
    BY ConfigurationFields
  <1>2. CASE c.scheme = ""
    <2>1. (IF c.scheme = "" THEN {0} ELSE 1 .. 32) = {0}
      BY <1>2
    <2>q. QED BY <1>2, <2>1 DEF Valid, PublishValid, SigningValid
  <1>3. CASE c.scheme # ""
    <2>1. (IF c.scheme = "" THEN {0} ELSE 1 .. 32) = 1 .. 32
      BY <1>3
    <2>2. c.workers \in 1 .. 32 <=> c.workers # 0
      BY <1>1
    <2>q. QED BY <1>3, <2>1, <2>2 DEF Valid, PublishValid, SigningValid
  <1>q. QED BY <1>2, <1>3

\* Normalizing fills in the number of workers and nothing else.
LEMMA NormalizedFields ==
    ASSUME NEW c \in Configurations
    PROVE  LET n == Normalized(c)
           IN  /\ n \in Configurations
               /\ n.free = c.free /\ n.scheme = c.scheme /\ n.region = c.region
               /\ n.method = c.method /\ n.key = c.key
               /\ c.scheme = "" => n.workers = c.workers
               /\ c.scheme # "" => n.workers # 0
  <1>1. CASE c.scheme # "" /\ c.workers = 0
    <2>1. PICK w \in 0 .. 32 : w = 4
      OBVIOUS
    <2>2. Normalized(c) = [c EXCEPT !.workers = w]
      BY <1>1, <2>1 DEF Normalized
    <2>3. [c EXCEPT !.workers = w] \in Configurations
      BY DEF Configurations
    <2>4. /\ [c EXCEPT !.workers = w].free = c.free
          /\ [c EXCEPT !.workers = w].scheme = c.scheme
          /\ [c EXCEPT !.workers = w].region = c.region
          /\ [c EXCEPT !.workers = w].workers = w
          /\ [c EXCEPT !.workers = w].method = c.method
          /\ [c EXCEPT !.workers = w].key = c.key
      BY DEF Configurations
    <2>5. w # 0
      BY <2>1
    <2>q. QED BY <1>1, <2>2, <2>3, <2>4, <2>5
  <1>2. CASE ~(c.scheme # "" /\ c.workers = 0)
    BY <1>2 DEF Normalized
  <1>q. QED BY <1>1, <1>2

\* What each key changes, and what it takes with it.

LEMMA SetFree ==
    ASSUME NEW c \in Configurations, NEW key, key = "free", NEW to \in {"x", "y"}
    PROVE  LET d == SetKey(c, key, to)
           IN  /\ d \in Configurations
               /\ d.scheme = c.scheme
               /\ d.region = c.region
               /\ d.workers = c.workers
               /\ d.method = c.method
               /\ d.key = c.key
  BY DEF SetKey, Configurations

LEMMA SetLocation ==
    ASSUME NEW c \in Configurations, NEW key, key = "lookaside", NEW to \in {"s3", "file"}
    PROVE  LET d == SetKey(c, key, to)
           IN  /\ d \in Configurations
               /\ d.scheme = to
               /\ d.workers = c.workers
               /\ d.method = c.method
               /\ d.key = c.key
               /\ d.region \in {"", c.region}
               /\ to # "s3" => d.region = ""
  BY DEF SetKey, Configurations

LEMMA SetRegion ==
    ASSUME NEW c \in Configurations, NEW key, key = "lookaside.region", NEW to \in {"r"}
    PROVE  LET d == SetKey(c, key, to)
           IN  /\ d \in Configurations
               /\ d.scheme = c.scheme
               /\ d.region = to
               /\ d.workers = c.workers
               /\ d.method = c.method
               /\ d.key = c.key
  BY DEF SetKey, Configurations

LEMMA SetWorkers ==
    ASSUME NEW c \in Configurations, NEW key, key = "lookaside.workers", NEW to \in 0 .. 32
    PROVE  LET d == SetKey(c, key, to)
           IN  /\ d \in Configurations
               /\ d.scheme = c.scheme
               /\ d.region = c.region
               /\ d.workers = to
               /\ d.method = c.method
               /\ d.key = c.key
  BY DEF SetKey, Configurations

LEMMA SetMethod ==
    ASSUME NEW c \in Configurations, NEW key, key = "signing.method", NEW to \in {"sigstore-key", "sigstore-keyless"}
    PROVE  LET d == SetKey(c, key, to)
           IN  /\ d \in Configurations
               /\ d.scheme = c.scheme
               /\ d.region = c.region
               /\ d.workers = c.workers
               /\ d.method = to
               /\ d.key \in {"", c.key}
               /\ to = "sigstore-keyless" => d.key = ""
  BY DEF SetKey, Configurations

LEMMA SetSigningKey ==
    ASSUME NEW c \in Configurations, NEW key, key = "signing.key", NEW to \in {"k"}
    PROVE  LET d == SetKey(c, key, to)
           IN  /\ d \in Configurations
               /\ d.scheme = c.scheme
               /\ d.region = c.region
               /\ d.workers = c.workers
               /\ d.method = c.method
               /\ d.key = to
  BY DEF SetKey, Configurations

LEMMA UnsetFree ==
    ASSUME NEW c \in Configurations, NEW key, key = "free"
    PROVE  LET d == UnsetKey(c, key)
           IN  /\ d \in Configurations
               /\ d.scheme = c.scheme
               /\ d.region = c.region
               /\ d.workers = c.workers
               /\ d.method = c.method
               /\ d.key = c.key
  BY DEF UnsetKey, Configurations

LEMMA UnsetLocation ==
    ASSUME NEW c \in Configurations, NEW key, key = "lookaside"
    PROVE  LET d == UnsetKey(c, key)
           IN  /\ d \in Configurations
               /\ d.scheme = ""
               /\ d.region = ""
               /\ d.workers = 0
               /\ d.method = c.method
               /\ d.key = c.key
  <1>1. PICK none \in 0 .. 32 : none = 0
    OBVIOUS
  <1> DEFINE d == [c EXCEPT !.scheme = "", !.region = "", !.workers = none]
  <1>2. UnsetKey(c, key) = d
    BY <1>1 DEF UnsetKey
  <1>3. d \in Configurations
    BY DEF Configurations
  <1>4. /\ d.scheme = "" /\ d.region = "" /\ d.workers = none
        /\ d.method = c.method /\ d.key = c.key
    BY DEF Configurations
  <1> HIDE DEF d
  <1>q. QED BY <1>1, <1>2, <1>3, <1>4

LEMMA UnsetRegion ==
    ASSUME NEW c \in Configurations, NEW key, key = "lookaside.region"
    PROVE  LET d == UnsetKey(c, key)
           IN  /\ d \in Configurations
               /\ d.scheme = c.scheme
               /\ d.region = ""
               /\ d.workers = c.workers
               /\ d.method = c.method
               /\ d.key = c.key
  BY DEF UnsetKey, Configurations

LEMMA UnsetWorkers ==
    ASSUME NEW c \in Configurations, NEW key, key = "lookaside.workers"
    PROVE  LET d == UnsetKey(c, key)
           IN  /\ d \in Configurations
               /\ d.scheme = c.scheme
               /\ d.region = c.region
               /\ d.workers = 0
               /\ d.method = c.method
               /\ d.key = c.key
  <1>1. PICK none \in 0 .. 32 : none = 0
    OBVIOUS
  <1> DEFINE d == [c EXCEPT !.workers = none]
  <1>2. UnsetKey(c, key) = d
    BY <1>1 DEF UnsetKey
  <1>3. d \in Configurations
    BY DEF Configurations
  <1>4. /\ d.scheme = c.scheme /\ d.region = c.region /\ d.workers = none
        /\ d.method = c.method /\ d.key = c.key
    BY DEF Configurations
  <1> HIDE DEF d
  <1>q. QED BY <1>1, <1>2, <1>3, <1>4

LEMMA UnsetMethod ==
    ASSUME NEW c \in Configurations, NEW key, key = "signing.method"
    PROVE  LET d == UnsetKey(c, key)
           IN  /\ d \in Configurations
               /\ d.scheme = c.scheme
               /\ d.region = c.region
               /\ d.workers = c.workers
               /\ d.method = ""
               /\ d.key = c.key
  BY DEF UnsetKey, Configurations

LEMMA UnsetSigningKey ==
    ASSUME NEW c \in Configurations, NEW key, key = "signing.key"
    PROVE  LET d == UnsetKey(c, key)
           IN  /\ d \in Configurations
               /\ d.scheme = c.scheme
               /\ d.region = c.region
               /\ d.workers = c.workers
               /\ d.method = c.method
               /\ d.key = ""
  BY DEF UnsetKey, Configurations

LEMMA SetKeyIsTyped ==
    ASSUME NEW c \in Configurations, NEW op \in Operations, "set" \in DOMAIN op
    PROVE  SetKey(c, op.set, op.to) \in Configurations
  <1>1. 8 \in 0 .. 32
    OBVIOUS
  <1>2. CASE op.set \in {"free", "lookaside", "lookaside.region"}
    BY <1>2, OperationKinds, SetFree, SetLocation, SetRegion
  <1>3. CASE op.set \in {"lookaside.workers", "signing.method", "signing.key"}
    BY <1>1, <1>3, OperationKinds, SetWorkers, SetMethod, SetSigningKey
  <1>q. QED BY <1>2, <1>3, OperationKinds

LEMMA UnsetKeyIsTyped ==
    ASSUME NEW c \in Configurations, NEW op \in Operations, "set" \notin DOMAIN op
    PROVE  UnsetKey(c, op.unset) \in Configurations
  BY OperationKinds, UnsetFree, UnsetLocation, UnsetRegion, UnsetWorkers, UnsetMethod,
     UnsetSigningKey

LEMMA ChangedIsTyped ==
    ASSUME NEW c \in Configurations, NEW op \in Operations
    PROVE  Changed(c, op) \in Configurations
  BY SetKeyIsTyped, UnsetKeyIsTyped, NormalizedFields DEF Changed

\* A normalized configuration validates unless a region, a number of workers or
\* a key is left over.
LEMMA NormalizedValid ==
    ASSUME NEW c \in Configurations,
           c.region # "" => c.scheme = "s3", c.scheme = "" => c.workers = 0,
           c.method = "sigstore-keyless" => c.key = ""
    PROVE  Valid(Normalized(c))
  <1> DEFINE n == Normalized(c)
  <1>1. /\ n \in Configurations
        /\ n.scheme = c.scheme /\ n.region = c.region /\ n.method = c.method /\ n.key = c.key
        /\ c.scheme = "" => n.workers = c.workers
        /\ c.scheme # "" => n.workers # 0
    BY NormalizedFields
  <1> HIDE DEF n
  <1>2. Valid(n)
    BY <1>1, ValidFields
  <1>q. QED BY <1>2 DEF n

\* A change of location or method drops what no longer goes with it.
LEMMA SettingStaysValid ==
    ASSUME NEW c \in Configurations, Valid(c), NEW op \in Operations, "set" \in DOMAIN op,
           ~Refused(c, op), ~MayBeRefused(op)
    PROVE  Valid(Normalized(SetKey(c, op.set, op.to)))
  <1> DEFINE d == SetKey(c, op.set, op.to)
  <1>1. d \in Configurations
    BY SetKeyIsTyped
  <1>2. /\ c.region # "" => c.scheme = "s3"
        /\ c.scheme = "" => c.workers = 0
        /\ c.method = "sigstore-keyless" => c.key = ""
    BY ValidFields
  <1>3. /\ d.region # "" => d.scheme = "s3"
        /\ d.scheme = "" => d.workers = 0
        /\ d.method = "sigstore-keyless" => d.key = ""
    <2>1. CASE op.set = "free" /\ op.to \in {"x", "y"}
      BY <1>2, <2>1, SetFree
    <2>2. CASE op.set = "lookaside" /\ op.to \in {"s3", "file"}
      <3>1. d.scheme = op.to /\ d.method = c.method /\ d.key = c.key
        BY <2>2, SetLocation
      <3>2. op.to # "s3" => d.region = ""
        BY <2>2, SetLocation
      <3> HIDE DEF d
      <3>q. QED BY <1>2, <2>2, <3>1, <3>2
    <2>3. CASE op.set = "lookaside.workers" /\ op.to = 8
      <3>1. c.scheme # ""
        BY <2>3 DEF Refused
      <3>2. 8 \in 0 .. 32
        OBVIOUS
      <3>3. /\ d.scheme = c.scheme /\ d.region = c.region /\ d.method = c.method
            /\ d.key = c.key
        BY <2>3, <3>2, SetWorkers
      <3> HIDE DEF d
      <3>q. QED BY <1>2, <3>1, <3>3
    <2>4. CASE op.set = "signing.method" /\ op.to \in {"sigstore-key", "sigstore-keyless"}
      <3>1. /\ d.scheme = c.scheme /\ d.region = c.region /\ d.workers = c.workers
            /\ d.method = op.to
            /\ op.to = "sigstore-keyless" => d.key = ""
        BY <2>4, SetMethod
      <3> HIDE DEF d
      <3>q. QED BY <1>2, <3>1
    <2>q. QED BY <2>1, <2>2, <2>3, <2>4, OperationKinds DEF MayBeRefused
  <1> HIDE DEF d
  <1>4. Valid(Normalized(d))
    BY <1>1, <1>3, NormalizedValid
  <1>q. QED BY <1>4 DEF d

\* Unsetting a key never fails: what depends on it goes with it, and a missing
\* number of workers is filled in again.
LEMMA UnsettingStaysValid ==
    ASSUME NEW c \in Configurations, Valid(c), NEW op \in Operations, "set" \notin DOMAIN op
    PROVE  Valid(Normalized(UnsetKey(c, op.unset)))
  <1> DEFINE d == UnsetKey(c, op.unset)
  <1>1. d \in Configurations
    BY UnsetKeyIsTyped
  <1>2. /\ c.region # "" => c.scheme = "s3"
        /\ c.scheme = "" => c.workers = 0
        /\ c.method = "sigstore-keyless" => c.key = ""
    BY ValidFields
  <1>3. /\ d.region # "" => d.scheme = "s3"
        /\ d.scheme = "" => d.workers = 0
        /\ d.method = "sigstore-keyless" => d.key = ""
    <2>1. CASE op.unset = "free"
      BY <1>2, <2>1, UnsetFree
    <2>2. CASE op.unset = "lookaside"
      BY <1>2, <2>2, UnsetLocation
    <2>3. CASE op.unset = "lookaside.region"
      BY <1>2, <2>3, UnsetRegion
    <2>4. CASE op.unset = "lookaside.workers"
      BY <1>2, <2>4, UnsetWorkers
    <2>5. CASE op.unset = "signing.method"
      BY <1>2, <2>5, UnsetMethod
    <2>6. CASE op.unset = "signing.key"
      BY <1>2, <2>6, UnsetSigningKey
    <2>7. op.unset \in {"free", "lookaside", "lookaside.region", "lookaside.workers",
                        "signing.method", "signing.key"}
      BY OperationKinds
    <2>q. QED BY <2>1, <2>2, <2>3, <2>4, <2>5, <2>6, <2>7
  <1> HIDE DEF d
  <1>4. Valid(Normalized(d))
    BY <1>1, <1>3, NormalizedValid
  <1>q. QED BY <1>4 DEF d

LEMMA ChangedStaysValid ==
    ASSUME NEW c \in Configurations, Valid(c), NEW op \in Operations, ~Refused(c, op),
           ~MayBeRefused(op)
    PROVE  Valid(Changed(c, op))
  BY SettingStaysValid, UnsettingStaysValid DEF Changed

-----------------------------------------------------------------------------
(* What a process does.                                                       *)

LEMMA StartedFields ==
    ASSUME TypeOK, NEW p \in Commands, command[p].at # "idle"
    PROVE  /\ command[p] \in Started
           /\ command[p].op \in Operations
           /\ command[p].holds \in Configurations
  <1>1. command[p] \in Started
    BY DEF TypeOK, Idle
  <1>q. QED BY <1>1 DEF Started

\* A process that moves on keeps its operation, and what it holds is a
\* configuration.
LEMMA StartedUpdates ==
    ASSUME NEW c \in Started
    PROVE  /\ \A a \in {"loaded", "failed", "written", "invalid", "done"} :
                  [c EXCEPT !.at = a] \in Started
           /\ \A a \in {"loaded", "failed", "written", "invalid", "done"}, h \in Configurations :
                  [c EXCEPT !.at = a, !.holds = h] \in Started
  BY DEF Started

\* A step of a process leaves the others as they are, and takes it to a command
\* that holds what the invariant says.
LEMMA CommandMoves ==
    ASSUME IInv, NEW p \in Commands, NEW c \in {Idle} \union Started, HoldsValid(c),
           command' = [command EXCEPT ![p] = c], file' \in Configurations, Valid(file'),
           revision' \in Nat
    PROVE  IInv'
  <1>1. command' \in [Commands -> {Idle} \union Started]
    BY DEF IInv, TypeOK
  <1>2. \A q \in Commands : command'[q] = IF q = p THEN c ELSE command[q]
    BY DEF IInv, TypeOK
  <1>3. \A q \in Commands : HoldsValid(command'[q])
    BY <1>2 DEF IInv
  <1>4. Valid(file)'
    BY DEF Valid, PublishValid, SigningValid
  <1>q. QED BY <1>1, <1>3, <1>4 DEF IInv, TypeOK, HoldsValid

LEMMA IdleHoldsNothing == Idle \in {Idle} \union Started /\ HoldsValid(Idle)
  BY DEF Idle, HoldsValid

LEMMA InitIInv == Init => IInv
  <1> SUFFICES ASSUME Init PROVE IInv
    OBVIOUS
  <1>1. Default \in Configurations
    BY DEF Default, Configurations
  <1>2. Valid(Default)
    BY DEF Default, Valid, PublishValid, SigningValid
  <1>q. QED BY <1>1, <1>2, IdleHoldsNothing DEF Init, IInv, TypeOK

LEMMA LoadKeeps == ASSUME IInv, NEW p \in Commands, Load(p) PROVE IInv'
  <1>1. PICK op \in Operations :
            command' = [command EXCEPT ![p] =
                [at |-> IF Valid(file) /\ ~Refused(file, op) THEN "loaded" ELSE "failed",
                 op |-> op, from |-> revision, holds |-> file]]
    BY DEF Load
  <1> DEFINE c == [at |-> IF Valid(file) /\ ~Refused(file, op) THEN "loaded" ELSE "failed",
                   op |-> op, from |-> revision, holds |-> file]
  <1>2. c \in Started
    BY DEF IInv, TypeOK, Started
  <1>3. HoldsValid(c)
    BY DEF HoldsValid, IInv
  <1>4. file' = file /\ revision' = revision
    BY DEF Load
  <1> HIDE DEF c
  <1>5. command' = [command EXCEPT ![p] = c]
    BY <1>1 DEF c
  <1>q. QED BY <1>2, <1>3, <1>4, <1>5, CommandMoves DEF IInv, TypeOK

LEMMA WriteKeeps == ASSUME IInv, NEW p \in Commands, Write(p) PROVE IInv'
  <1> DEFINE next == Changed(command[p].holds, command[p].op)
             to == IF Valid(next) THEN "written" ELSE "invalid"
             c == [command[p] EXCEPT !.at = to, !.holds = next]
  <1>1. command[p].at = "loaded" /\ file' = file /\ revision' = revision
    BY DEF Write
  <1>2. command[p] \in Started /\ command[p].op \in Operations
            /\ command[p].holds \in Configurations
    BY <1>1, StartedFields DEF IInv
  <1>3. next \in Configurations
    BY <1>2, ChangedIsTyped
  <1>4. Valid(next) \/ MayBeRefused(command[p].op)
    BY <1>1, <1>2, ChangedStaysValid DEF IInv, HoldsValid
  <1>5. command' = [command EXCEPT ![p] = c]
    BY DEF Write, IInv, TypeOK
  <1>6. to \in {"written", "invalid"}
    OBVIOUS
  <1>7. to = "written" => Valid(next)
    OBVIOUS
  <1>8. to = "invalid" => MayBeRefused(command[p].op)
    BY <1>4
  <1> HIDE DEF next, to
  <1>9. c.at = to /\ c.holds = next /\ c.op = command[p].op
    BY <1>2 DEF Started
  <1>10. c \in Started
    BY <1>2, <1>3, <1>6, StartedUpdates
  <1> HIDE DEF c
  <1>11. HoldsValid(c)
    BY <1>6, <1>7, <1>8, <1>9 DEF HoldsValid
  <1>q. QED BY <1>1, <1>5, <1>10, <1>11, CommandMoves DEF IInv, TypeOK

LEMMA RenameKeeps == ASSUME IInv, NEW p \in Commands, Rename(p) PROVE IInv'
  <1> DEFINE c == [command[p] EXCEPT !.at = "done"]
  <1>1. command[p].at = "written" /\ file' = command[p].holds /\ revision' = revision + 1
    BY DEF Rename
  <1>2. command[p] \in Started /\ command[p].holds \in Configurations
    BY <1>1, StartedFields DEF IInv
  <1>3. Valid(file')
    BY <1>1 DEF IInv, HoldsValid
  <1>4. command' = [command EXCEPT ![p] = c]
    BY DEF Rename, IInv, TypeOK
  <1>5. c.at = "done"
    BY <1>2 DEF Started
  <1>6. c \in Started
    BY <1>2, StartedUpdates
  <1>7. revision' \in Nat
    BY <1>1 DEF IInv, TypeOK
  <1> HIDE DEF c
  <1>8. HoldsValid(c)
    BY <1>5 DEF HoldsValid
  <1>q. QED BY <1>1, <1>2, <1>3, <1>4, <1>6, <1>7, <1>8, CommandMoves

LEMMA EndKeeps == ASSUME IInv, NEW p \in Commands, Return(p) \/ Kill(p) PROVE IInv'
  <1>1. command' = [command EXCEPT ![p] = Idle] /\ file' = file /\ revision' = revision
    BY DEF Return, Kill
  <1>q. QED BY <1>1, IdleHoldsNothing, CommandMoves DEF IInv, TypeOK

LEMMA StepKeeps == IInv /\ [Next]_vars => IInv'
  <1> SUFFICES ASSUME IInv, [Next]_vars PROVE IInv'
    OBVIOUS
  <1>1. CASE UNCHANGED vars
    BY <1>1 DEF vars, IInv, TypeOK, Valid, PublishValid, SigningValid, HoldsValid
  <1>2. CASE Next
    <2>1. PICK p \in Commands : Step(p)
      BY <1>2 DEF Next
    <2>q. QED BY <2>1, LoadKeeps, WriteKeeps, RenameKeeps, EndKeeps DEF Step
  <1>q. QED BY <1>1, <1>2

LEMMA InvariantLoads == IInv => ConfigurationLoads
  <1> SUFFICES ASSUME IInv PROVE ConfigurationLoads
    OBVIOUS
  <1>1. DOMAIN command = Commands
    BY DEF IInv, TypeOK
  <1>2. \A p \in Commands : command[p].at = "invalid" => MayBeRefused(command[p].op)
    BY DEF IInv, HoldsValid
  <1>q. QED BY <1>1, <1>2 DEF IInv, MayBeRefused, ConfigurationLoads

-----------------------------------------------------------------------------

\* The inductive invariant: what a process holds between its load and its
\* rename is a configuration that validates, and the file always is one.
THEOREM ConfigurationInvariant == Spec => []IInv
  BY InitIInv, StepKeeps, PTL DEF Spec

\* Whatever order commands, races and kills come in, the configuration is one
\* that every command loads, and only a region or a signing key the user asked
\* for is ever refused (config.Save and the config commands).
THEOREM EveryCommandLoads == Spec => []ConfigurationLoads
  BY ConfigurationInvariant, InvariantLoads, PTL
=============================================================================
