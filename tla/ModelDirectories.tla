-------------------------- MODULE ModelDirectories --------------------------
(* The model root: a directory of model directories that `model init`,      *)
(* `model pull` (model/pull.go), `model train`, `model rm` and              *)
(* `model export` (model/management.go, modelexport/) read and write        *)
(* without a lock. A model is created whole, in a temporary directory that  *)
(* is renamed; it is removed file by file; a training run adds its files    *)
(* one by one; an export reads it for minutes. Commands may be killed       *)
(* between any two steps.                                                   *)
(*                                                                          *)
(* A version <<k, r>> is model k with r completed runs. The weights of a    *)
(* downloaded model (r = 0) are always at the same path, those of a run at  *)
(* a path that names the run.                                               *)
EXTENDS Integers, Sequences, FiniteSets

CONSTANTS Commands, Names, MaxModels, MaxRuns, MaxFaults

VARIABLES
  dir,       \* the model directories: plan, record, bom and weights
  exports,   \* the published release directories, one per command
  pc, name,  \* each command, and the name it was given
  chosen,    \* the names `model rm` was given, and those it has inspected
  checked,
  snap,      \* the Inspection a command works from
  temp,      \* its temporary directory
  made,      \* models created so far
  removed,   \* the names each `model rm` has begun to delete
  faults

vars == <<dir, exports, pc, name, chosen, checked, snap, temp, made, removed, faults>>

None == [plan |-> 0, record |-> <<>>, bom |-> <<>>, weights |-> {}]
Whole(v, weights) == [plan |-> v[1], record |-> v, bom |-> v, weights |-> weights]
Nothing == [kind |-> "none", files |-> None, flaw |-> "none"]
Flaws == {"truncated", "index", "config", "tokenizer", "tensors"}

Init ==
  /\ dir \in {d \in [Names -> {None, Whole(<<1, 0>>, {<<1, 0>>})}] :
                Cardinality({n \in Names : d[n] # None}) = 1}
  /\ exports = [c \in Commands |-> Nothing]
  /\ pc = [c \in Commands |-> "idle"]
  /\ name = [c \in Commands |-> CHOOSE n \in Names : TRUE]
  /\ chosen = [c \in Commands |-> {}] /\ checked = [c \in Commands |-> {}]
  /\ snap = [c \in Commands |-> <<>>]
  /\ temp = [c \in Commands |-> Nothing]
  /\ made = 1 /\ removed = [c \in Commands |-> {}] /\ faults = 0

(* Inspect accepts a directory whose plan, record and BOM are of one model, *)
(* the BOM generated when the record was updated, and whose downloaded      *)
(* weights are in place.                                                    *)
Inspects(d) ==
  /\ d.record # <<>> /\ d.plan = d.record[1] /\ d.bom = d.record
  /\ d.record[2] = 0 => d.record \in d.weights

(* ResolveArtifacts: the current weights are there, with their digest.      *)
Resolves(d) == d.record \in d.weights

Go(c, place) == pc' = [pc EXCEPT ![c] = place]
Becomes(n, d) == dir' = [dir EXCEPT ![n] = d]

------------------------------------------------------------------------------
(* `model pull` and `model init` refuse a name that exists.                 *)
BeginCreate(c) ==
  /\ pc[c] = "idle"
  /\ \E n \in Names :
       /\ name' = [name EXCEPT ![c] = n]
       /\ Go(c, IF dir[n] = None THEN "create" ELSE "refused")
  /\ UNCHANGED <<dir, exports, chosen, checked, snap, temp, made, removed, faults>>

(* What Pull makes sure of before it publishes. Every file has its declared *)
(* size, the weight index names every shard and no other, the configuration *)
(* and the tokenizer are of the supported kind, and the tensors are exactly *)
(* those the architecture expects.                                          *)
SizesAreDeclared(flaw) == flaw # "truncated"
IndexNamesShards(flaw) == flaw # "index"
SupportedConfiguration(flaw) == flaw # "config"
SupportedTokenizer(flaw) == flaw # "tokenizer"
TensorsOfArchitecture(flaw) == flaw # "tensors"

\* A plausible bug: an index is not compared with the shards beside it.
ValidatedWithoutIndex(flaw) ==
  /\ SizesAreDeclared(flaw)
  /\ SupportedConfiguration(flaw) /\ SupportedTokenizer(flaw)
  /\ TensorsOfArchitecture(flaw)
Validated(flaw) ==
  /\ SizesAreDeclared(flaw) /\ IndexNamesShards(flaw)
  /\ SupportedConfiguration(flaw) /\ SupportedTokenizer(flaw)
  /\ TensorsOfArchitecture(flaw)

Download(c) ==
  /\ pc[c] = "create" /\ made < MaxModels
  /\ made' = made + 1
  /\ \E flaw \in {"none"} \cup Flaws :
       LET v == <<made + 1, 0>> IN
       IF Validated(flaw)
         THEN /\ temp' = [temp EXCEPT ![c] =
                            [kind |-> "model", flaw |-> flaw,
                             files |-> [None EXCEPT !.weights = {v}]]]
              /\ snap' = [snap EXCEPT ![c] = v]
              /\ Go(c, "describe")
         ELSE /\ Go(c, "failed") /\ UNCHANGED <<temp, snap>>
  /\ UNCHANGED <<dir, exports, name, chosen, checked, removed, faults>>

(* The plan, the record and the BOM, in that order.                         *)
Describe(c) ==
  /\ pc[c] = "describe"
  /\ temp' = [temp EXCEPT ![c].files = Whole(snap[c], @.weights)]
  /\ Go(c, "publish")
  /\ UNCHANGED <<dir, exports, name, chosen, checked, snap, made, removed, faults>>

(* The rename that publishes fails over a directory that is not empty.      *)
Publish(c) ==
  /\ pc[c] = "publish"
  /\ \/ /\ dir[name[c]] = None
        /\ Becomes(name[c], temp[c].files)
        /\ Go(c, "done")
     \/ /\ dir[name[c]] # None
        /\ Go(c, "failed") /\ UNCHANGED dir
  /\ temp' = [temp EXCEPT ![c] = Nothing]
  /\ UNCHANGED <<exports, name, chosen, checked, snap, made, removed, faults>>

------------------------------------------------------------------------------
(* `model train` with a profile adds one run to the model it inspected. It  *)
(* writes the weights of the run, then the record, then the BOM, and each   *)
(* write creates the directories that are missing (writeJSONAtomic).        *)
BeginTrain(c) ==
  /\ pc[c] = "idle"
  /\ \E n \in Names :
       /\ dir[n] # None /\ Inspects(dir[n]) /\ dir[n].record[2] < MaxRuns
       /\ name' = [name EXCEPT ![c] = n]
       /\ snap' = [snap EXCEPT ![c] = [dir[n].record EXCEPT ![2] = @ + 1]]
  /\ Go(c, "weights")
  /\ UNCHANGED <<dir, exports, chosen, checked, temp, made, removed, faults>>

WriteWeights(c) ==
  /\ pc[c] = "weights"
  /\ dir' = [dir EXCEPT ![name[c]].weights = @ \cup {snap[c]}]
  /\ Go(c, "record")
  /\ UNCHANGED <<exports, name, chosen, checked, snap, temp, made, removed, faults>>

WriteRecord(c) ==
  /\ pc[c] = "record"
  /\ dir' = [dir EXCEPT ![name[c]].record = snap[c]]
  /\ Go(c, "bom")
  /\ UNCHANGED <<exports, name, chosen, checked, snap, temp, made, removed, faults>>

WriteBom(c) ==
  /\ pc[c] = "bom"
  /\ dir' = [dir EXCEPT ![name[c]].bom = snap[c]]
  /\ Go(c, "done")
  /\ UNCHANGED <<exports, name, chosen, checked, snap, temp, made, removed, faults>>

------------------------------------------------------------------------------
(* `model rm` inspects every name it was given before it deletes anything.  *)
BeginRemove(c) ==
  /\ pc[c] = "idle"
  /\ \E S \in SUBSET Names \ {{}} : chosen' = [chosen EXCEPT ![c] = S]
  /\ Go(c, "check")
  /\ UNCHANGED <<dir, exports, name, checked, snap, temp, made, removed, faults>>

Check(c, n) ==
  /\ pc[c] = "check" /\ n \in chosen[c] \ checked[c]
  /\ IF Inspects(dir[n])
       THEN checked' = [checked EXCEPT ![c] = @ \cup {n}] /\ UNCHANGED pc
       ELSE Go(c, "refused") /\ UNCHANGED checked
  /\ UNCHANGED <<dir, exports, name, chosen, snap, temp, made, removed, faults>>

(* What may be deleted now.                                                 *)
Deletable(c) == IF checked[c] = chosen[c] THEN chosen[c] ELSE {}

(* RemoveAll deletes the files of a directory one by one.                   *)
Delete(c, n) ==
  /\ pc[c] = "check" /\ n \in Deletable(c) /\ dir[n] # None
  /\ \E d \in {[dir[n] EXCEPT !.plan = 0], [dir[n] EXCEPT !.record = <<>>],
               [dir[n] EXCEPT !.bom = <<>>], [dir[n] EXCEPT !.weights = {}]} :
       d # dir[n] /\ Becomes(n, d)
  /\ removed' = [removed EXCEPT ![c] = @ \cup {n}]
  /\ UNCHANGED <<exports, pc, name, chosen, checked, snap, temp, made, faults>>

Removed(c) ==
  /\ pc[c] = "check" /\ checked[c] = chosen[c]
  /\ \A n \in chosen[c] : dir[n] = None
  /\ Go(c, "done")
  /\ UNCHANGED <<dir, exports, name, chosen, checked, snap, temp, made, removed, faults>>

------------------------------------------------------------------------------
(* `model export` inspects the model, and either copies the directory as it *)
(* is ("waldo") or converts its current weights ("huggingface", "mlx",      *)
(* "gguf", "ollama") after it has checked their digest (ResolveArtifacts).  *)
BeginExport(c) ==
  /\ pc[c] = "idle"
  /\ \E n \in Names :
       /\ name' = [name EXCEPT ![c] = n]
       /\ IF Inspects(dir[n])
            THEN /\ snap' = [snap EXCEPT ![c] = dir[n].record]
                 /\ \E place \in {"copy", "convert", "gguf"} :
                      Go(c, IF place # "copy" /\ ~Resolves(dir[n])
                              THEN "failed" ELSE place)
            ELSE /\ Go(c, "refused") /\ UNCHANGED snap
  /\ UNCHANGED <<dir, exports, chosen, checked, temp, made, removed, faults>>

(* copyTree: MODEL.json is read before the runs; the BOM of the inspection  *)
(* replaces the one in the directory. A file that is gone fails the copy.   *)
CopyRecord(c) ==
  /\ pc[c] = "copy"
  /\ LET d == dir[name[c]] IN
       IF d.record = <<>> \/ d.plan = 0
         THEN Go(c, "failed") /\ UNCHANGED temp
         ELSE /\ temp' = [temp EXCEPT ![c] =
                            [kind |-> "waldo", flaw |-> "none",
                             files |-> [None EXCEPT !.plan = d.plan, !.record = d.record,
                                                    !.bom = snap[c]]]]
              /\ Go(c, "copyruns")
  /\ UNCHANGED <<dir, exports, name, chosen, checked, snap, made, removed, faults>>

CopyRuns(c) ==
  /\ pc[c] = "copyruns"
  /\ temp' = [temp EXCEPT ![c].files.weights = dir[name[c]].weights]
  /\ Go(c, "verify")
  /\ UNCHANGED <<dir, exports, name, chosen, checked, snap, made, removed, faults>>

(* The copy is inspected like any model, and the artifacts of its runs      *)
(* hashed, before it is published.                                          *)
Verified(d) == Inspects(d) /\ Resolves(d)

Verify(c) ==
  /\ pc[c] = "verify"
  /\ Go(c, IF Verified(temp[c].files) THEN "release" ELSE "failed")
  /\ UNCHANGED <<dir, exports, name, chosen, checked, snap, temp, made, removed, faults>>

(* The conversion opens the weights again, by their path.                   *)
SamePath(v, w) == IF v[2] = 0 THEN w[2] = 0 ELSE v = w

Converts(c, w) == w \in dir[name[c]].weights /\ SamePath(snap[c], w)

Package(c, w) == [kind |-> "package", flaw |-> "none",
                  files |-> [Whole(snap[c], {w}) EXCEPT !.plan = 0]]

(* The weights are rewritten for "huggingface" and "mlx".                   *)
Convert(c) ==
  /\ pc[c] = "convert"
  /\ \/ \E w \in dir[name[c]].weights :
          /\ Converts(c, w)
          /\ temp' = [temp EXCEPT ![c] = Package(c, w)]
          /\ Go(c, "release")
     \/ /\ ~\E w \in dir[name[c]].weights : Converts(c, w)
        /\ Go(c, "failed") /\ UNCHANGED temp
  /\ UNCHANGED <<dir, exports, name, chosen, checked, snap, made, removed, faults>>

(* "gguf" and "ollama" refuse weights whose tensors are not the             *)
(* architecture's, and quantize the converted file on demand.               *)
ConvertGGUF(c) ==
  /\ pc[c] = "gguf"
  /\ \/ \E w \in dir[name[c]].weights :
          /\ Converts(c, w)
          /\ temp' = [temp EXCEPT ![c] = Package(c, w)]
          /\ \E place \in {"quantize", "release"} : Go(c, place)
     \/ /\ \A w \in dir[name[c]].weights : Converts(c, w) => w[1] # snap[c][1]
        /\ Go(c, "failed") /\ UNCHANGED temp
  /\ UNCHANGED <<dir, exports, name, chosen, checked, snap, made, removed, faults>>

(* The quantizer is a process that may fail or write nothing.               *)
Quantize(c) ==
  /\ pc[c] = "quantize"
  /\ \/ Go(c, "release") /\ UNCHANGED <<temp, faults>>
     \/ /\ faults < MaxFaults /\ faults' = faults + 1
        /\ temp' = [temp EXCEPT ![c] = Nothing]
        /\ Go(c, "failed")
  /\ UNCHANGED <<dir, exports, name, chosen, checked, snap, made, removed>>

Release(c) ==
  /\ pc[c] = "release"
  /\ exports' = [exports EXCEPT ![c] = temp[c]]
  /\ temp' = [temp EXCEPT ![c] = Nothing]
  /\ Go(c, "done")
  /\ UNCHANGED <<dir, name, chosen, checked, snap, made, removed, faults>>

(* Killed, a command leaves what it has written so far.                     *)
Kill(c) ==
  /\ pc[c] \notin {"idle", "done", "refused", "failed", "dead"} /\ faults < MaxFaults
  /\ faults' = faults + 1
  /\ Go(c, "dead")
  /\ UNCHANGED <<dir, exports, name, chosen, checked, snap, temp, made, removed>>

Command(c) ==
  \/ BeginCreate(c) \/ Download(c) \/ Describe(c) \/ Publish(c)
  \/ BeginTrain(c) \/ WriteWeights(c) \/ WriteRecord(c) \/ WriteBom(c)
  \/ BeginRemove(c) \/ (\E n \in Names : Check(c, n)) \/ (\E n \in Names : Delete(c, n))
  \/ Removed(c)
  \/ BeginExport(c) \/ CopyRecord(c) \/ CopyRuns(c) \/ Verify(c) \/ Convert(c)
  \/ ConvertGGUF(c) \/ Quantize(c) \/ Release(c) \/ Kill(c)

Next == \E c \in Commands : Command(c)

Spec == Init /\ [][Next]_vars

------------------------------------------------------------------------------
Gone == UNION {removed[c] : c \in Commands}

(* A model that nobody removes is whole from the instant its name exists:   *)
(* sound weights, a plan and a record of one model, whatever was killed and *)
(* whoever created, trained or exported it at the same time. (Its BOM may   *)
(* be one update behind its record; RunProgress is about that.)             *)
NamedModelIsWhole ==
  \A n \in Names \ Gone :
    dir[n] # None =>
      /\ dir[n].plan # 0 /\ dir[n].record # <<>> /\ dir[n].bom # <<>>
      /\ dir[n].plan = dir[n].record[1]
      /\ dir[n].record \in dir[n].weights
OnlySoundModels == \A c \in Commands : temp[c].flaw = "none"
CreatedWhole == NamedModelIsWhole /\ OnlySoundModels

(* A release holds one model: in the native format even if the model was    *)
(* trained, removed and replaced while it was copied, in the converted      *)
(* formats unless it was removed meanwhile (ExportPackage,                  *)
(* exportLlamaPackage, exportGGUFPackage).                                  *)
ReleaseIsOneModel ==
  \A c \in Commands :
    LET d == exports[c].files IN
    CASE exports[c].kind = "waldo" ->
           d.plan = d.record[1] /\ d.bom = d.record /\ d.record \in d.weights
      [] exports[c].kind = "package" -> name[c] \notin Gone => d.weights = {d.bom}
      [] OTHER -> TRUE

(* `model rm` deletes something only once every model it was given has been *)
(* inspected: one that cannot be leaves all of them in place (Remove).      *)
RefusedRemovesNothing ==
  \A c \in Commands : removed[c] # {} => checked[c] = chosen[c]
=============================================================================
