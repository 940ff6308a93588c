--------------------------- MODULE IndexCheckout ---------------------------
(* The Git checkout of the corpus index that every command reads: how a     *)
(* command clones it when it is absent (git/managed.go: Ensure,             *)
(* cloneAtomic), refreshes it (PullManaged for the checkout WALDO manages,  *)
(* CheckoutPull for one the user configured), and then pins what it selects *)
(* in a bill of materials (corpus/bom.go: BuildBOM, index/load.go:          *)
(* WalkCorpora). Nothing locks the checkout: commands, its user and the     *)
(* upstream branch move independently, and a command may be killed between  *)
(* any two of its steps.                                                    *)
(*                                                                          *)
(* A commit is its history, a sequence of numbers; content[k] is the tree   *)
(* of the commit that ends in k, and a tree gives each file a version       *)
(* (0: the user's own). What git itself does (clone, fetch, hard reset) is  *)
(* the go-git library's, modelled from how managed.go uses it: a hard reset *)
(* moves HEAD and then rewrites the files one after another.                *)
EXTENDS Integers, Sequences, SequencesExt, FiniteSets

CONSTANTS Commands, Files, MaxCommits, MaxEdits, MaxFaults

Missing == -1                   \* a file git has not written yet
Mine == 0                       \* the version of a file its user edited

VARIABLES
  managed,      \* whether the selected checkout is WALDO's own
  remote,       \* the upstream branch
  content,      \* content[k]: the tree of commit k
  head, tree,   \* the checkout: HEAD (<<>> when absent) and the worktree
  tracked,      \* its remote-tracking reference
  temporary,    \* clones in a `.waldo-index-clone-*` directory
  pc, seen,     \* each command, and what its last status said
  target,       \* the commit it resets to
  todo,         \* the files it has yet to write or to read
  loaded,       \* the manifest version WalkCorpora handed to addManifest
  bom,          \* the bill of materials it builds
  since,        \* the commits the upstream has had since it began
  calm,         \* nobody else has changed the checkout since it last looked
  edits, faults

local == <<pc, seen, target, todo, loaded, bom, since, temporary>>
vars == <<managed, remote, content, head, tree, tracked, local, calm, edits, faults>>

Absent == <<>>
Blank == [commit |-> <<>>, dirty |-> FALSE, named |-> TRUE, fresh |-> TRUE,
          calm |-> TRUE, pins |-> {}]
Tree(k) == [f \in Files |-> k]
Size == Len(content)

Init ==
  /\ managed \in BOOLEAN
  /\ remote = <<1, 2>> /\ content = <<Tree(1), Tree(2)>>
  /\ head \in IF managed THEN {Absent, <<1>>} ELSE {<<1>>}
  /\ tree = IF head = Absent THEN [f \in Files |-> Missing] ELSE Tree(1)
  /\ tracked = head
  /\ temporary = [c \in Commands |-> Absent]
  /\ pc = [c \in Commands |-> "idle"]
  /\ seen = [c \in Commands |->
              [relation |-> "unknown", dirty |-> FALSE, upstream |-> Absent]]
  /\ target = [c \in Commands |-> <<>>]
  /\ todo = [c \in Commands |-> {}]
  /\ loaded = [c \in Commands |-> Missing]
  /\ bom = [c \in Commands |-> Blank]
  /\ since = [c \in Commands |-> {}]
  /\ calm = [c \in Commands |-> TRUE]
  /\ edits = 0 /\ faults = 0

(* What a status sees (manager.status, checkoutStatus).                     *)
Dirty == tree # content[Last(head)]
Relation(h, u) ==
  CASE u = Absent -> "unknown"
    [] h = u -> "current"
    [] h # u /\ IsPrefix(h, u) -> "behind"
    [] h # u /\ IsPrefix(u, h) -> "ahead"
    [] OTHER -> "diverged"
Status == [relation |-> Relation(head, tracked), dirty |-> Dirty, upstream |-> tracked]

Go(c, place) == pc' = [pc EXCEPT ![c] = place]
(* Whoever changes the checkout disturbs the commands that have looked.     *)
Disturb(c) == calm' = [d \in Commands |-> IF d = c THEN calm[d] ELSE FALSE]
Looks(c) == calm' = [calm EXCEPT ![c] = TRUE]

------------------------------------------------------------------------------
(* A command is given a logical path, and refreshes the selected checkout   *)
(* first, or an explicit filesystem path, which is read as it stands        *)
(* (resolveIndexSelection).                                                 *)
Resolve(c) ==
  /\ pc[c] = "idle"
  /\ since' = [since EXCEPT ![c] = {remote}]
  /\ \E named \in BOOLEAN :
       /\ named \/ head # Absent
       /\ bom' = [bom EXCEPT ![c] = [Blank EXCEPT !.named = named]]
       /\ Go(c, CASE ~named -> "identify"
                  [] named /\ managed -> "ensure"
                  [] OTHER -> "fetch")
  /\ UNCHANGED <<managed, remote, content, head, tree, tracked, temporary,
                 seen, target, todo, loaded, calm, edits, faults>>

(* Ensure: a checkout that exists is not cloned again.                      *)
Ensure(c) ==
  /\ pc[c] = "ensure"
  /\ Go(c, IF head = Absent THEN "clone" ELSE "status")
  /\ UNCHANGED <<managed, remote, content, head, tree, tracked, temporary, seen,
                 target, todo, loaded, bom, since, calm, edits, faults>>

(* A plausible bug: git clones where the checkout will be.                  *)
CloneInPlace(c) ==
  /\ head' = IF head = Absent THEN remote ELSE head
  /\ tracked' = head'
  /\ tree' = IF head = Absent THEN [f \in Files |-> Missing] ELSE tree
  /\ temporary' = [temporary EXCEPT ![c] = remote]
(* cloneAtomic: git clones into a temporary directory beside the            *)
(* destination, which the next step renames.                                *)
CloneInto(c) ==
  /\ temporary' = [temporary EXCEPT ![c] = remote]
  /\ UNCHANGED <<head, tree, tracked>>

Clone(c) ==
  /\ pc[c] = "clone"
  /\ CloneInto(c)
  /\ Go(c, "publish")
  /\ UNCHANGED <<managed, remote, content, seen, target, todo, loaded, bom, since,
                 calm, edits, faults>>

(* The rename publishes a whole checkout, or fails because another command  *)
(* published one first; the temporary is gone either way.                   *)
PublishClone(c) ==
  /\ pc[c] = "publish"
  /\ temporary' = [temporary EXCEPT ![c] = Absent]
  /\ \/ /\ head = Absent
        /\ head' = temporary[c] /\ tracked' = temporary[c]
        /\ tree' = content[Last(temporary[c])]
        /\ Go(c, "identify")
        /\ calm' = [d \in Commands |-> d = c]
     \/ /\ head # Absent
        /\ Go(c, "failed")
        /\ UNCHANGED <<head, tree, tracked, calm>>
  /\ UNCHANGED <<managed, remote, content, seen, target, todo, loaded, bom, since,
                 edits, faults>>

(* The network fails: the command does, and a clone's temporary is removed. *)
NetworkFails(c) ==
  /\ pc[c] \in {"clone", "fetch"} /\ faults < MaxFaults
  /\ faults' = faults + 1
  /\ Go(c, "failed")
  /\ UNCHANGED <<managed, remote, content, head, tree, tracked, temporary, seen,
                 target, todo, loaded, bom, since, calm, edits>>

(* PullManaged refuses a dirty worktree before it fetches.                  *)
StatusBefore(c) ==
  /\ pc[c] = "status"
  /\ seen' = [seen EXCEPT ![c] = Status]
  /\ Go(c, IF Dirty THEN "failed" ELSE "fetch")
  /\ UNCHANGED <<managed, remote, content, head, tree, tracked, temporary, target,
                 todo, loaded, bom, since, calm, edits, faults>>

Fetch(c) ==
  /\ pc[c] = "fetch"
  /\ tracked' = remote
  /\ Go(c, "decide")
  /\ UNCHANGED <<managed, remote, content, head, tree, temporary, seen, target,
                 todo, loaded, bom, since, calm, edits, faults>>

(* The status that decides is read again after the fetch.                   *)
StatusAfter(c) == Status

(* A plausible bug: the worktree is taken to be clean after the fetch.      *)
RefusedByRelation(status) ==
  \/ status.relation = "unknown"
  \/ ~managed /\ status.relation \in {"ahead", "diverged"}
(* A managed checkout is reset over whatever commits it has; a configured   *)
(* one is only fast-forwarded. Both refuse a dirty worktree.                *)
Refused(status) ==
  \/ status.dirty
  \/ status.relation = "unknown"
  \/ ~managed /\ status.relation \in {"ahead", "diverged"}

Decide(c) ==
  /\ pc[c] = "decide"
  /\ LET status == StatusAfter(c) IN
       /\ seen' = [seen EXCEPT ![c] = status]
       /\ Go(c, CASE Refused(status) -> "failed"
                  [] ~Refused(status) /\ status.relation = "current" -> "identify"
                  [] OTHER -> "upstream")
  /\ Looks(c)
  /\ UNCHANGED <<managed, remote, content, head, tree, tracked, temporary, target,
                 todo, loaded, bom, since, edits, faults>>

(* The upstream reference is resolved again for the reset.                  *)
ReadUpstream(c) ==
  /\ pc[c] = "upstream"
  /\ target' = [target EXCEPT ![c] = tracked]
  /\ Go(c, "reset")
  /\ UNCHANGED <<managed, remote, content, head, tree, tracked, temporary, seen,
                 todo, loaded, bom, since, calm, edits, faults>>

MoveHead(c) ==
  /\ pc[c] = "reset"
  /\ head' = target[c]
  /\ todo' = [todo EXCEPT ![c] = {f \in Files : tree[f] # content[Last(target[c])][f]}]
  /\ Go(c, "writing")
  /\ Disturb(c)
  /\ UNCHANGED <<managed, remote, content, tree, tracked, temporary, seen, target,
                 loaded, bom, since, edits, faults>>

WriteFile(c, f) ==
  /\ pc[c] = "writing" /\ f \in todo[c]
  /\ tree' = [tree EXCEPT ![f] = content[Last(target[c])][f]]
  /\ todo' = [todo EXCEPT ![c] = @ \ {f}]
  /\ Disturb(c)
  /\ UNCHANGED <<managed, remote, content, head, tracked, pc, temporary, seen,
                 target, loaded, bom, since, edits, faults>>

ResetDone(c) ==
  /\ pc[c] = "writing" /\ todo[c] = {}
  /\ Go(c, "identify")
  /\ UNCHANGED <<managed, remote, content, head, tree, tracked, temporary, seen,
                 target, todo, loaded, bom, since, calm, edits, faults>>

------------------------------------------------------------------------------
(* `index pull` is done here; the commands that read the index go on.       *)
PullReturns(c) ==
  /\ pc[c] = "identify" /\ bom[c].named
  /\ Go(c, "pulled")
  /\ UNCHANGED <<managed, remote, content, head, tree, tracked, temporary, seen,
                 target, todo, loaded, bom, since, calm, edits, faults>>

(* Inspect: the revision the bill names, and whether the worktree is as the *)
(* revision has it.                                                         *)
Inspected == [commit |-> head, dirty |-> Dirty]

Identify(c) ==
  /\ pc[c] = "identify"
  /\ bom' = [bom EXCEPT ![c].commit = Inspected.commit,
                        ![c].dirty = Inspected.dirty,
                        ![c].fresh = calm[c]]
  /\ todo' = [todo EXCEPT ![c] = Files]
  /\ Looks(c)
  /\ Go(c, "walk")
  /\ UNCHANGED <<managed, remote, content, head, tree, tracked, temporary, seen,
                 target, loaded, since, edits, faults>>

(* WalkCorpora loads each manifest the directory lists ...                  *)
NextEntry(c) == CHOOSE f \in todo[c] : \A g \in todo[c] : f <= g

LoadManifest(c) ==
  /\ pc[c] = "walk" /\ todo[c] # {}
  /\ loaded' = [loaded EXCEPT ![c] = tree[NextEntry(c)]]
  /\ Go(c, IF tree[NextEntry(c)] = Missing THEN "failed" ELSE "pin")
  /\ UNCHANGED <<managed, remote, content, head, tree, tracked, temporary, seen,
                 target, todo, bom, since, calm, edits, faults>>

(* ... and addManifest reads its file once more for the digest it pins      *)
(* beside the shards of the manifest that was loaded.                       *)
AddManifest(c) ==
  /\ pc[c] = "pin"
  /\ LET f == NextEntry(c) IN
       /\ bom' = [bom EXCEPT ![c].pins =
                    @ \cup {[file |-> f, shards |-> loaded[c], sha256 |-> tree[f]]}]
       /\ todo' = [todo EXCEPT ![c] = @ \ {f}]
  /\ Go(c, "walk")
  /\ UNCHANGED <<managed, remote, content, head, tree, tracked, temporary, seen,
                 target, loaded, since, calm, edits, faults>>

BomBuilt(c) ==
  /\ pc[c] = "walk" /\ todo[c] = {}
  /\ bom' = [bom EXCEPT ![c].calm = calm[c]]
  /\ Go(c, "built")
  /\ UNCHANGED <<managed, remote, content, head, tree, tracked, temporary, seen,
                 target, todo, loaded, since, calm, edits, faults>>

Kill(c) ==
  /\ pc[c] \in {"clone", "publish", "reset", "writing"} /\ faults < MaxFaults
  /\ faults' = faults + 1
  /\ Go(c, "dead")
  /\ UNCHANGED <<managed, remote, content, head, tree, tracked, temporary, seen,
                 target, todo, loaded, bom, since, calm, edits>>

------------------------------------------------------------------------------
(* The user of the checkout, and the maintainers of the upstream branch.    *)
Edit(f) ==
  /\ head # Absent /\ edits < MaxEdits
  /\ edits' = edits + 1
  /\ tree' = [tree EXCEPT ![f] = Mine]
  /\ calm' = [c \in Commands |-> FALSE]
  /\ UNCHANGED <<managed, remote, content, head, tracked, local, faults>>

CommitWork ==
  /\ head # Absent /\ Dirty /\ Size < MaxCommits
  /\ content' = Append(content, tree)
  /\ head' = Append(head, Size + 1)
  /\ calm' = [c \in Commands |-> FALSE]
  /\ UNCHANGED <<managed, remote, tree, tracked, local, edits, faults>>

RestoreWork ==
  /\ head # Absent /\ Dirty /\ edits < MaxEdits
  /\ edits' = edits + 1
  /\ tree' = content[Last(head)]
  /\ calm' = [c \in Commands |-> FALSE]
  /\ UNCHANGED <<managed, remote, content, head, tracked, local, faults>>

(* The upstream gains a commit, or its last one is rewritten.               *)
Push ==
  /\ Size < MaxCommits
  /\ content' = Append(content, Tree(Size + 1))
  /\ \/ remote' = Append(remote, Size + 1)
     \/ remote' = Append(Front(remote), Size + 1)
  /\ since' = [c \in Commands |-> since[c] \cup {remote'}]
  /\ UNCHANGED <<managed, head, tree, tracked, pc, seen, target, todo, loaded, bom,
                 temporary, calm, edits, faults>>

Command(c) ==
  \/ Resolve(c) \/ Ensure(c) \/ Clone(c) \/ PublishClone(c) \/ NetworkFails(c)
  \/ StatusBefore(c) \/ Fetch(c) \/ Decide(c) \/ ReadUpstream(c) \/ MoveHead(c)
  \/ (\E f \in Files : WriteFile(c, f)) \/ ResetDone(c) \/ PullReturns(c)
  \/ Identify(c) \/ LoadManifest(c) \/ AddManifest(c) \/ BomBuilt(c) \/ Kill(c)

Next ==
  \/ \E c \in Commands : Command(c)
  \/ \E f \in Files : Edit(f)
  \/ CommitWork \/ RestoreWork \/ Push

Spec == Init /\ [][Next]_vars

------------------------------------------------------------------------------
Versions == {Missing, Mine} \cup 1..MaxCommits
TypeOK ==
  /\ managed \in BOOLEAN
  /\ \A h \in {remote, head, tracked} : Range(h) \subseteq 1..Size
  /\ tree \in [Files -> Versions]
  /\ \A k \in 1..Size : content[k] \in [Files -> Versions]
  /\ calm \in [Commands -> BOOLEAN]
  /\ edits \in 0..MaxEdits /\ faults \in 0..MaxFaults

(* A checkout that exists is a whole one: no kill and no second command     *)
(* cloning at the same time leaves part of a clone where the next command   *)
(* would take it for the index (cloneAtomic).                               *)
CheckoutIsWhole == head # Absent => \A f \in Files : tree[f] # Missing

(* A refresh discards nothing the user had in the checkout when the command *)
(* looked at it: no uncommitted edit anywhere, and no commit of a checkout  *)
(* WALDO does not manage (PullManaged, CheckoutPull: "refused without       *)
(* changing the worktree"), as long as the reference it resolves for the    *)
(* reset is still the one its status judged.                                *)
WorkSurvives ==
  [][\A c \in Commands :
       (pc[c] = "reset" /\ pc'[c] = "writing" /\ calm[c]) =>
         /\ ~Dirty
         /\ head' = seen[c].upstream => managed \/ IsPrefix(head, head')]_vars

(* A bill that names a revision and calls its worktree clean pins, for      *)
(* every manifest, the digest and the shards that revision has, unless      *)
(* somebody else changed the checkout while it was built: no earlier kill   *)
(* in the middle of a reset shows in it (BuildBOM "resolves targets from    *)
(* one checkout into immutable manifest and shard pins").                   *)
BomIsItsRevision ==
  \A c \in Commands :
    (pc[c] = "built" /\ bom[c].calm /\ ~bom[c].dirty) =>
      \A p \in bom[c].pins :
        {p.sha256, p.shards} = {content[Last(bom[c].commit)][p.file]}

(* A command that refreshed the index works on a revision the upstream had  *)
(* while it ran, unless somebody else moved the checkout after it looked.   *)
BomIsFresh ==
  \A c \in Commands :
    (pc[c] \in {"walk", "pin", "built"} /\ bom[c].named /\ bom[c].fresh) =>
      bom[c].commit \in since[c]
=============================================================================
