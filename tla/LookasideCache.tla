--------------------------- MODULE LookasideCache ---------------------------
(***************************************************************************)
(* The content-addressed object cache that every command of a user shares  *)
(* (src/internal/lookaside/cache.go, inspect.go).  No lock guards it: the  *)
(* commands meet only in the file system, where each of them looks up,     *)
(* repairs, downloads, prunes, reads and purges objects one call at a      *)
(* time.  `waldo lookaside cache clean' (src/internal/cli/lookaside.go) is *)
(* one more process, and any of them can be killed.                        *)
(*                                                                         *)
(* A command opens the cache, fetches the objects of its corpus one after  *)
(* the other (src/internal/corpus/materialize.go), later opens the paths   *)
(* it was given, and purges what it used once its result is committed.     *)
(***************************************************************************)
EXTENDS Naturals, Sequences, FiniteSets, FiniteSetsExt, SequencesExt

CONSTANTS
  Commands,         \* commands, one process each: some fetch, some clean the cache
  Digests,          \* objects, by the digest of their bytes
  Large,            \* objects of two units of size; the others have one
  MaxBytes,         \* lookaside.cache_max_bytes; 0 is unbounded
  Candidates,       \* number of places to fetch from: the manifest URL, then the mirrors
  Retaining,        \* commands that loaded lookaside.retain_completed = true
  Corpora,          \* the sets of objects a command may need
  Cached,           \* the sets of objects the cache may hold at first
  Offers,           \* the sets of candidates that may serve an object's true bytes
  MaxFaults         \* bound on kills and on objects damaged on the disk

None == "none"

ASSUME CacheAssumption ==
  /\ IsFiniteSet(Digests) /\ Large \subseteq Digests
  /\ MaxBytes \in Nat /\ Candidates \in Nat \ {0} /\ MaxFaults \in Nat
  /\ Retaining \subseteq Commands /\ Offers \subseteq SUBSET (1..Candidates)
  /\ Corpora \subseteq SUBSET Digests \ {{}} /\ Cached \subseteq SUBSET Digests
  /\ None \notin Digests

Size(d) == IF d \in Large THEN 2 ELSE 1

VARIABLES
  object,     \* [Digests -> {"absent", "good", "bad"}]: the file named by the digest
  age,        \* present objects by modification time, oldest first
  directory,  \* digests whose fan-out directory exists
  sibling,    \* [Commands -> digest of its .waldo-object-* file, or None]; a kill leaves it
  serves,     \* [Digests -> candidates that serve the object's true bytes]
  need,       \* [Commands -> digests of its corpus]
  pc,         \* [Commands -> where the process is]
  target,     \* [Commands -> digest being fetched, or None]
  candidate,  \* [Commands -> candidate to try next]
  used,       \* [Commands -> the used set of its Cache]
  unread,     \* [Commands -> paths it has yet to open]
  listed,     \* [Commands -> names its directory walk has read but not examined]
  queue,      \* [Commands -> objects its prune or clean may still remove, in order]
  total,      \* [Commands -> the bytes its prune still counts]
  spared,     \* [Commands -> digests its cleaning protects]
  recorded,   \* commands whose RUN.json says that the run is running
  faults,     \* faults so far
  damaged,    \* digests whose file was damaged on the disk since it was installed
  disturbed,  \* commands from which another process took a file, a directory or a name
  installed,  \* [Commands -> objects installed by others since its walk]
  gotBad      \* digests of which a consumer read wrong bytes

disk  == <<object, age, directory, sibling>>
local == <<target, candidate, used, unread, total, recorded>>
scan  == <<listed, queue, spared>>
ghost == <<damaged, disturbed, installed, gotBad>>
world == <<serves, need, faults>>
vars  == <<disk, local, scan, ghost, world, pc>>

Present == {d \in Digests : object[d] # "absent"}
Bytes(S) == MapThenSumSet(Size, S)
Ended == {"done", "failed", "killed"}

Init ==
  /\ \E kept \in Cached : object = [d \in Digests |-> IF d \in kept THEN "good" ELSE "absent"]
  /\ age \in Bijection(1 .. Cardinality(Present), Present)
  /\ directory = Present
  /\ sibling = [p \in Commands |-> None]
  /\ serves \in [Digests -> Offers]
  /\ need \in [Commands -> Corpora]
  /\ pc \in [Commands -> {"open", "records"}]
  /\ target = [p \in Commands |-> None]
  /\ candidate = [p \in Commands |-> 1]
  /\ used = [p \in Commands |-> {}]
  /\ unread = need
  /\ listed = [p \in Commands |-> {}]
  /\ queue = [p \in Commands |-> <<>>]
  /\ total = [p \in Commands |-> 0]
  /\ spared = [p \in Commands |-> {}]
  /\ recorded = {} /\ faults = 0 /\ damaged = {}
  /\ disturbed = {} /\ gotBad = {}
  /\ installed = [p \in Commands |-> {}]
-----------------------------------------------------------------------------
Goto(p, label) == pc' = [pc EXCEPT ![p] = label]

ObjectName(d) == <<"object", d>>
SiblingName(p) == <<"sibling", p>>
Names == {ObjectName(d) : d \in Present} \cup {SiblingName(p) : p \in {q \in Commands : sibling[q] # None}}

Without(s, d) ==
  IF d \in ToSet(s) THEN RemoveAt(s, CHOOSE i \in DOMAIN s : s[i] = d) ELSE s

(* os.Remove of an object's file, and the commands that may notice it or the
   removal of its directory. *)
RemoveFile(p, d) ==
  /\ object' = [object EXCEPT ![d] = "absent"]
  /\ age' = Without(age, d)
  /\ damaged' = damaged \ {d}
  /\ disturbed' = disturbed \cup {q \in Commands \ {p} : ObjectName(d) \in listed[q] \/ d \in need[q]}

(* os.Remove of the two fan-out directories, which succeeds when they are empty. *)
DropDirectory(d) ==
  directory' = IF \E q \in Commands : sibling[q] = d THEN directory
               ELSE directory \ {d}
-----------------------------------------------------------------------------
(* The directory walk that prune, Clean and the others begin with. filepath.Walk
   reads the names of a directory and then examines each one: a name that has
   gone in between is an error of the whole walk. *)
ReadNames(p, next) ==
  /\ listed' = [listed EXCEPT ![p] = Names]
  /\ installed' = [installed EXCEPT ![p] = {}]
  /\ Goto(p, next)
  /\ UNCHANGED <<disk, local, queue, spared, damaged, disturbed, gotBad, world>>

(* Where the walk and the removals of a prune are, by where it begins. *)
Walking(from) ==
  CASE from = "open" -> "walk-open"
    [] from = "fetch-prune" -> "walk-fetch-prune"
    [] from = "retain-prune" -> "walk-retain-prune"
Pruning(from) ==
  CASE from = "open" -> "prune-open"
    [] from = "fetch-prune" -> "prune-fetch-prune"
    [] from = "retain-prune" -> "prune-retain-prune"

Walked(p) == listed[p] \subseteq Names
Examined(p) == SelectSeq(age, LAMBDA d : ObjectName(d) \in listed[p])

(* NewCache and prune: with a bound, the walk. *)
StartPrune(p, from, unbounded) ==
  /\ pc[p] = from
  /\ IF MaxBytes = 0
     THEN /\ Goto(p, unbounded)
          /\ UNCHANGED <<disk, local, scan, ghost, world>>
     ELSE ReadNames(p, Walking(from))

(* The stat calls of the walk and the comparison with the bound. A failed walk
   fails NewCache and a retaining PurgeUsed; Fetch ignores it. *)
EndWalk(p, from, failed) ==
  /\ pc[p] = Walking(from)
  /\ listed' = [listed EXCEPT ![p] = {}]
  /\ IF Walked(p)
     THEN LET bytes == Bytes(ToSet(Examined(p))) IN
          /\ total' = [total EXCEPT ![p] = bytes]
          /\ queue' = [queue EXCEPT ![p] = IF bytes > MaxBytes THEN Examined(p) ELSE <<>>]
          /\ Goto(p, Pruning(from))
     ELSE /\ Goto(p, failed)
          /\ UNCHANGED <<total, queue>>
  /\ UNCHANGED <<disk, target, candidate, used, unread, recorded, spared, ghost, world>>

(* prune keeps what its own process uses, whatever the others do. *)
InUse(p) == used[p]

RemainingCountsKept(p, d) == total[p] - Size(d)  \* mutant: a kept entry counts as freed
Remaining(p, d) == IF d \in InUse(p) THEN total[p] ELSE total[p] - Size(d)

(* One round of prune's loop over the entries, oldest first. *)
PruneNext(p, from, after) ==
  /\ pc[p] = Pruning(from)
  /\ IF queue[p] = <<>> \/ total[p] <= MaxBytes
     THEN /\ Goto(p, after)
          /\ queue' = [queue EXCEPT ![p] = <<>>]
          /\ UNCHANGED <<disk, total, ghost>>
     ELSE LET d == Head(queue[p]) IN
          /\ queue' = [queue EXCEPT ![p] = Tail(@)]
          /\ total' = [total EXCEPT ![p] = Remaining(p, d)]
          /\ UNCHANGED <<pc, directory, sibling, installed, gotBad>>
          /\ IF d \in InUse(p)
             THEN UNCHANGED <<object, age, damaged, disturbed>>
             ELSE RemoveFile(p, d)
  /\ UNCHANGED <<target, candidate, used, unread, recorded, listed, spared, world>>

Prune(p, from, after, failed) ==
  \/ StartPrune(p, from, after)
  \/ EndWalk(p, from, failed)
  \/ PruneNext(p, from, after)
-----------------------------------------------------------------------------
(* FetchWithProgress: stat of the destination. Materialize fetches the objects
   of its corpus one at a time. *)
LookUp(p) ==
  /\ pc[p] = "fetch"
  /\ \E d \in need[p] \ used[p] :
       /\ target' = [target EXCEPT ![p] = d]
       /\ IF d \in Present
          THEN Goto(p, "verify") /\ UNCHANGED directory
          ELSE Goto(p, "download") /\ directory' = directory \cup {d}
  /\ candidate' = [candidate EXCEPT ![p] = 1]
  /\ UNCHANGED <<object, age, sibling, used, unread, total, recorded, scan, ghost, world>>

MarkUsed(p) ==
  /\ used' = [used EXCEPT ![p] = @ \cup {target[p]}]
  /\ target' = [target EXCEPT ![p] = None]

(* The entry is hashed: whole, it is touched and returned. *)
Verify(p) ==
  /\ pc[p] = "verify"
  /\ IF object[target[p]] = "good"
     THEN /\ age' = Append(Without(age, target[p]), target[p])
          /\ MarkUsed(p) /\ Goto(p, "fetch")
     ELSE Goto(p, "discard") /\ UNCHANGED <<age, used, target>>
  /\ UNCHANGED <<object, directory, sibling, candidate, unread, total, recorded,
                 scan, ghost, world>>

(* A corrupt entry is removed before it is fetched again; an entry that another
   process removed meanwhile makes that removal, and the fetch, fail. *)
Discard(p) ==
  /\ pc[p] = "discard"
  /\ IF object[target[p]] = "absent"
     THEN Goto(p, "failed") /\ UNCHANGED <<object, age, directory, damaged, disturbed>>
     ELSE /\ RemoveFile(p, target[p])
          /\ directory' = directory \cup {target[p]}
          /\ Goto(p, "download")
  /\ UNCHANGED <<sibling, local, scan, installed, gotBad, world>>

(* fetchCandidate up to the digest of the downloaded bytes. *)
AcceptedUnhashed(p) == TRUE  \* mutant: the digest of the download is not compared
Accepted(p) == candidate[p] \in serves[target[p]]

NextCandidate(p) ==
  IF candidate[p] < Candidates
  THEN /\ candidate' = [candidate EXCEPT ![p] = @ + 1]
       /\ Goto(p, "download")
  ELSE Goto(p, "failed") /\ UNCHANGED candidate

(* A verified download is copied to a temporary file next to the destination, in
   a directory that another process may have removed. *)
Download(p) ==
  /\ pc[p] = "download"
  /\ IF Accepted(p) /\ target[p] \in directory
     THEN /\ sibling' = [sibling EXCEPT ![p] = target[p]]
          /\ Goto(p, "install") /\ UNCHANGED candidate
     ELSE NextCandidate(p) /\ UNCHANGED sibling
  /\ UNCHANGED <<object, age, directory, target, used, unread, total, recorded, scan, ghost, world>>

(* The bytes a rename makes visible: those whose digest was compared. *)
InstalledBytes(p) == IF candidate[p] \in serves[target[p]] THEN "good" ELSE "bad"

Install(p) ==
  /\ pc[p] = "install"
  /\ object' = [object EXCEPT ![target[p]] = InstalledBytes(p)]
  /\ age' = Append(Without(age, target[p]), target[p])
  /\ sibling' = [sibling EXCEPT ![p] = None]
  /\ damaged' = damaged \ {target[p]}
  /\ disturbed' = disturbed \cup {q \in Commands \ {p} : SiblingName(p) \in listed[q]}
  /\ installed' = [q \in Commands |-> IF q = p THEN installed[q] ELSE installed[q] \cup {target[p]}]
  /\ MarkUsed(p)
  /\ Goto(p, "fetch-prune")
  /\ UNCHANGED <<directory, candidate, unread, total, recorded, scan, gotBad, world>>
-----------------------------------------------------------------------------
(* A training command saves RUN.json as running once its corpus is materialized. *)
Record(p) ==
  /\ pc[p] = "fetch" /\ need[p] \subseteq used[p]
  /\ recorded' = recorded \cup {p}
  /\ Goto(p, "read")
  /\ UNCHANGED <<disk, target, candidate, used, unread, total, scan, ghost, world>>

(* The consumer opens the paths that Fetch returned. *)
Read(p) ==
  /\ pc[p] = "read"
  /\ \E d \in unread[p] :
       IF d \in Present
       THEN /\ gotBad' = IF object[d] = "bad" /\ d \notin damaged THEN gotBad \cup {d} ELSE gotBad
            /\ unread' = [unread EXCEPT ![p] = @ \ {d}]
            /\ UNCHANGED <<pc, recorded>>
       ELSE /\ Goto(p, "failed") /\ recorded' = recorded \ {p}
            /\ UNCHANGED <<unread, gotBad>>
  /\ UNCHANGED <<disk, target, candidate, used, total, scan, damaged, disturbed, installed, world>>

Commit(p) ==
  /\ pc[p] = "read" /\ unread[p] = {}
  /\ recorded' = recorded \ {p}
  /\ used' = IF p \in Retaining THEN [used EXCEPT ![p] = {}] ELSE used
  /\ Goto(p, IF p \in Retaining THEN "retain-prune" ELSE "purge")
  /\ UNCHANGED <<disk, target, candidate, unread, total, scan, ghost, world>>

(* PurgeUsed removes the objects this Cache returned, used by others or not. *)
Purge(p) ==
  /\ pc[p] = "purge"
  /\ IF used[p] = {}
     THEN Goto(p, "done") /\ UNCHANGED <<object, age, directory, used, damaged, disturbed>>
     ELSE \E d \in used[p] :
            /\ RemoveFile(p, d) /\ DropDirectory(d)
            /\ used' = [used EXCEPT ![p] = @ \ {d}]
            /\ UNCHANGED pc
  /\ UNCHANGED <<sibling, target, candidate, unread, total, recorded, scan, installed,
                 gotBad, world>>
-----------------------------------------------------------------------------
(* `lookaside cache clean': the records of the models are read first, then the
   cache is walked, then what is not protected is removed. --all protects nothing. *)
Protected == UNION {need[p] : p \in recorded}

ReadRecords(c) ==
  /\ pc[c] = "records"
  /\ \E all \in BOOLEAN : spared' = [spared EXCEPT ![c] = IF all THEN {} ELSE Protected]
  /\ Goto(c, "list")
  /\ UNCHANGED <<disk, local, listed, queue, ghost, world>>

ListCache(c) == pc[c] = "list" /\ ReadNames(c, "walk")

WalkCache(c) ==
  /\ pc[c] = "walk"
  /\ listed' = [listed EXCEPT ![c] = {}]
  /\ IF Walked(c)
     THEN /\ queue' = [queue EXCEPT ![c] = SelectSeq(Examined(c), LAMBDA d : d \notin spared[c])]
          /\ Goto(c, "clean")
     ELSE Goto(c, "failed") /\ UNCHANGED queue
  /\ UNCHANGED <<disk, local, spared, ghost, world>>

CleanNext(c) ==
  /\ pc[c] = "clean"
  /\ IF queue[c] = <<>>
     THEN Goto(c, "done") /\ UNCHANGED <<object, age, directory, queue, damaged, disturbed>>
     ELSE LET d == Head(queue[c]) IN
          /\ queue' = [queue EXCEPT ![c] = Tail(@)]
          /\ RemoveFile(c, d) /\ DropDirectory(d)
          /\ UNCHANGED pc
  /\ UNCHANGED <<sibling, local, listed, spared, installed, gotBad, world>>
-----------------------------------------------------------------------------
Damage(d) ==
  /\ faults < MaxFaults /\ d \in Present
  /\ faults' = faults + 1
  /\ object' = [object EXCEPT ![d] = "bad"]
  /\ damaged' = damaged \cup {d}
  /\ UNCHANGED <<age, directory, sibling, local, scan, disturbed, installed,
                 gotBad, serves, need, pc>>

(* A killed process leaves its temporary file, and its run recorded as running. *)
Kill(p) ==
  /\ faults < MaxFaults /\ pc[p] \notin Ended
  /\ faults' = faults + 1
  /\ listed' = [listed EXCEPT ![p] = {}] /\ queue' = [queue EXCEPT ![p] = <<>>]
  /\ Goto(p, "killed")
  /\ UNCHANGED <<disk, local, spared, ghost, serves, need>>

Work(p) ==
  \/ Prune(p, "open", "fetch", "failed")
  \/ LookUp(p) \/ Verify(p) \/ Discard(p)
  \/ Download(p) \/ Install(p)
  \/ Prune(p, "fetch-prune", "fetch", "fetch")
  \/ Record(p) \/ Read(p) \/ Commit(p) \/ Purge(p)
  \/ Prune(p, "retain-prune", "done", "failed")

Tidy(c) == ReadRecords(c) \/ ListCache(c) \/ WalkCache(c) \/ CleanNext(c)

Next ==
  \/ \E p \in Commands : Work(p) \/ Tidy(p)
  \/ \E d \in Digests : Damage(d)
  \/ \E p \in Commands : Kill(p)

Spec == Init /\ [][Next]_vars
-----------------------------------------------------------------------------
Places == {"open", "fetch", "verify", "discard", "download", "install",
           "read", "purge", "records", "list", "walk", "clean"} \cup Ended
          \cup {"walk-open", "walk-fetch-prune", "walk-retain-prune", "fetch-prune",
                "prune-open", "prune-fetch-prune", "prune-retain-prune", "retain-prune"}

(* Every variable has its type; the age order lists exactly the present objects
   once, and a temporary file keeps its directory (the files under the cache root). *)
TypeOK ==
  /\ object \in [Digests -> {"absent", "good", "bad"}]
  /\ age \in Seq(Digests) /\ ToSet(age) = Present /\ IsInjective(age)
  /\ Present \subseteq directory
  /\ \A p \in Commands : sibling[p] # None => sibling[p] \in directory
  /\ pc \in [Commands -> Places]
  /\ used \in [Commands -> SUBSET Digests] /\ recorded \subseteq Commands
  /\ faults \in 0..MaxFaults

(* What a consumer reads at a path that Fetch returned is the object's true
   bytes, unless the file was damaged after it was installed: no order of
   lookups, repairs, downloads and removals of several commands shows one of
   them a partial or a wrong download (FetchWithProgress, fetchCandidate). *)
RightBytes == gotBad = {}

(* A command fails only because nobody serves one of its objects or because
   another process took a file, a directory or a name from under it: never by
   its own prune, its own purge or a damaged entry, which it repairs. *)
FailureHasCause ==
  \A p \in Commands :
    pc[p] = "failed" => p \in disturbed \/ \E d \in need[p] : serves[d] = {}

(* A command reads the right bytes, and fails only because nobody serves an
   object or another process took something from it (cache.go). *)
CacheIsSound == TypeOK /\ RightBytes /\ FailureHasCause

(* When a prune ends, the cache fits its bound again, or only objects in use by
   the pruning command and objects that others installed meanwhile are left. *)
PruneBounds ==
  [][\A p \in Commands :
       /\ pc[p] \in {"prune-open", "prune-fetch-prune", "prune-retain-prune"}
       /\ pc'[p] \notin {pc[p], "killed"}
       => LET old == Present \ installed[p] IN
          old \subseteq used[p] \/ Bytes(old) <= MaxBytes]_vars
=============================================================================
