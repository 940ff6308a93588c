------------------------ MODULE LookasideCacheProofs ------------------------
(* Proofs about the object cache: whatever commands share it, in whatever     *)
(* order they look up, repair, download, prune, purge and clean, a consumer    *)
(* reads the true bytes, and a command fails only for a cause outside it.      *)
(*                                                                             *)
(* The argument has two sides.  What a command does to the disk it does to an  *)
(* object it does not use itself, or gives up in the same step.  What it does  *)
(* to the objects, directories and names of others marks them as disturbed.    *)
(* So the invariant says of each command what it relies on, of its own state   *)
(* (Local) and, as long as it is not disturbed, of the disk (Undisturbed);     *)
(* the theorems take one step per action for the command that acts, and one    *)
(* argument for all the others.                                                *)
EXTENDS LookasideCache, TLAPS, SequenceTheorems, FiniteSetTheorems

WalkingPlaces == {"walk-open", "walk-fetch-prune", "walk-retain-prune", "walk"}
TidyPlaces == {"records", "list", "walk", "clean"}

\* The disk: TypeOK's part of it, and that a wrong file is one that was damaged
\* after it had been installed.
DiskOK ==
  /\ object \in [Digests -> {"absent", "good", "bad"}]
  /\ age \in Seq(Digests) /\ ToSet(age) = Present /\ IsInjective(age)
  /\ Present \subseteq directory /\ directory \subseteq Digests
  /\ sibling \in [Commands -> Digests \cup {None}]
  /\ \A p \in Commands : sibling[p] # None => sibling[p] \in directory
  /\ \A d \in Digests : object[d] = "bad" => d \in damaged
  /\ gotBad = {}

\* The commands: the rest of TypeOK, and the types it leaves out.
CommandsOK ==
  /\ pc \in [Commands -> Places]
  /\ used \in [Commands -> SUBSET Digests] /\ recorded \subseteq Commands
  /\ faults \in 0 .. MaxFaults
  /\ need \in [Commands -> SUBSET Digests] /\ unread \in [Commands -> SUBSET Digests]
  /\ serves \in [Digests -> SUBSET (1 .. Candidates)]
  /\ target \in [Commands -> Digests \cup {None}]
  /\ candidate \in [Commands -> 1 .. Candidates]
  /\ DOMAIN listed = Commands

\* What a command relies on in its own state.
Local(p) ==
  /\ used[p] \subseteq need[p] /\ unread[p] \subseteq need[p]
  /\ sibling[p] # None => pc[p] \in {"install", "killed"}
  /\ listed[p] # {} => pc[p] \in WalkingPlaces
  /\ pc[p] \in {"verify", "discard", "download", "install"} => target[p] \in need[p] \ used[p]
  /\ pc[p] \in {"verify", "discard"} => candidate[p] = 1
  /\ pc[p] = "install" => candidate[p] \in serves[target[p]] /\ sibling[p] = target[p]
  /\ pc[p] \in TidyPlaces => used[p] = {}
  /\ pc[p] = "read" => need[p] \subseteq used[p]

\* What it relies on of the disk, until another command takes something from it.
Undisturbed(p) ==
  /\ listed[p] \subseteq Names
  /\ used[p] \subseteq Present
  /\ pc[p] \in {"verify", "discard"} => target[p] \in Present
  /\ pc[p] = "download" =>
       target[p] \in directory /\ \A c \in 1 .. candidate[p] - 1 : c \notin serves[target[p]]
  /\ pc[p] = "failed" => \E d \in need[p] : serves[d] = {}

IInv ==
  /\ DiskOK /\ CommandsOK
  /\ \A p \in Commands : Local(p) /\ (p \in disturbed \/ Undisturbed(p))

-----------------------------------------------------------------------------
(* The order of the entries by age.                                            *)

LEMMA RemoveAtFacts ==
  ASSUME NEW S, NEW s \in Seq(S), NEW i \in 1 .. Len(s)
  PROVE  /\ RemoveAt(s, i) \in Seq(S)
         /\ Len(RemoveAt(s, i)) = Len(s) - 1
         /\ \A j \in 1 .. Len(s) - 1 : j < i => RemoveAt(s, i)[j] = s[j]
         /\ \A j \in 1 .. Len(s) - 1 : j >= i => RemoveAt(s, i)[j] = s[j + 1]
  <1> DEFINE a == SubSeq(s, 1, i - 1)
             b == SubSeq(s, i + 1, Len(s))
  <1>1. Len(s) \in Nat /\ i \in Nat /\ i >= 1 /\ i <= Len(s)
    OBVIOUS
  <1>2. a \in Seq(S) /\ Len(a) = i - 1
    BY <1>1
  <1>3. \A j \in 1 .. i - 1 : a[j] = s[j]
    BY <1>1
  <1>4. b \in Seq(S) /\ Len(b) = Len(s) - i
    BY <1>1
  <1>5. \A j \in 1 .. Len(s) - i : b[j] = s[i + j]
    BY <1>1
  <1> HIDE DEF a, b
  <1>6. a \o b \in Seq(S) /\ Len(a \o b) = Len(s) - 1
    <2>1. a \o b \in Seq(S) /\ Len(a \o b) = Len(a) + Len(b)
      BY <1>2, <1>4, ConcatProperties
    <2>q. QED BY <1>1, <1>2, <1>4, <2>1
  <1>7. \A j \in 1 .. Len(s) - 1 : j < i => (a \o b)[j] = s[j]
    <2> SUFFICES ASSUME NEW j \in 1 .. Len(s) - 1, j < i PROVE (a \o b)[j] = s[j]
      OBVIOUS
    <2>1. j \in 1 .. Len(a)
      BY <1>1, <1>2
    <2>2. (a \o b)[j] = a[j]
      BY <1>2, <1>4, <2>1
    <2>q. QED BY <1>2, <1>3, <2>1, <2>2
  <1>8. \A j \in 1 .. Len(s) - 1 : j >= i => (a \o b)[j] = s[j + 1]
    <2> SUFFICES ASSUME NEW j \in 1 .. Len(s) - 1, j >= i PROVE (a \o b)[j] = s[j + 1]
      OBVIOUS
    <2>1. (a \o b)[j] = b[j - (i - 1)]
      BY <1>1, <1>2, <1>4
    <2>2. j - (i - 1) \in 1 .. Len(s) - i
      BY <1>1
    <2>3. b[j - (i - 1)] = s[i + (j - (i - 1))]
      BY <2>2, <1>5
    <2>q. QED BY <1>1, <2>1, <2>3
  <1>q. QED BY <1>6, <1>7, <1>8 DEF RemoveAt, a, b

LEMMA WithoutFacts ==
  ASSUME NEW S, NEW s \in Seq(S), IsInjective(s), NEW d
  PROVE  /\ Without(s, d) \in Seq(S)
         /\ IsInjective(Without(s, d))
         /\ ToSet(Without(s, d)) = ToSet(s) \ {d}
  <1>0. DOMAIN s = 1 .. Len(s) /\ Len(s) \in Nat
    OBVIOUS
  <1>1. CASE d \notin ToSet(s)
    BY <1>1 DEF Without
  <1>2. CASE d \in ToSet(s)
    <2>1. \E k \in DOMAIN s : s[k] = d
      BY <1>2 DEF ToSet
    <2> DEFINE i == CHOOSE k \in DOMAIN s : s[k] = d
               r == RemoveAt(s, i)
    <2>2. i \in 1 .. Len(s) /\ s[i] = d
      BY <2>1, <1>0
    <2>3. Without(s, d) = r
      BY <1>2 DEF Without
    <2> HIDE DEF i
    <2>4. /\ r \in Seq(S) /\ Len(r) = Len(s) - 1
          /\ \A j \in 1 .. Len(s) - 1 : j < i => r[j] = s[j]
          /\ \A j \in 1 .. Len(s) - 1 : j >= i => r[j] = s[j + 1]
      BY <2>2, RemoveAtFacts
    <2> HIDE DEF r
    <2>5. DOMAIN r = 1 .. Len(s) - 1
      BY <2>4
    <2>6. \A j, k \in 1 .. Len(s) : s[j] = s[k] => j = k
      BY <1>0 DEF IsInjective
    <2>7. \A j, k \in 1 .. Len(s) - 1 : r[j] = r[k] => j = k
      <3> SUFFICES ASSUME NEW j \in 1 .. Len(s) - 1, NEW k \in 1 .. Len(s) - 1, r[j] = r[k]
                   PROVE  j = k
        OBVIOUS
      <3>1. j \in 1 .. Len(s) /\ j + 1 \in 1 .. Len(s) /\ k \in 1 .. Len(s) /\ k + 1 \in 1 .. Len(s)
        BY <1>0
      <3>2. CASE j < i /\ k < i
        BY <3>1, <3>2, <2>4, <2>6
      <3>3. CASE j < i /\ k >= i
        <4>1. s[j] = s[k + 1]
          BY <3>3, <2>4
        <4>2. j = k + 1
          BY <4>1, <3>1, <2>6
        <4>q. QED BY <4>2, <3>3, <2>2, <1>0
      <3>4. CASE j >= i /\ k < i
        <4>1. s[j + 1] = s[k]
          BY <3>4, <2>4
        <4>2. j + 1 = k
          BY <4>1, <3>1, <2>6
        <4>q. QED BY <4>2, <3>4, <2>2, <1>0
      <3>5. CASE j >= i /\ k >= i
        <4>1. s[j + 1] = s[k + 1]
          BY <3>5, <2>4
        <4>2. j + 1 = k + 1
          BY <4>1, <3>1, <2>6
        <4>q. QED BY <4>2, <1>0
      <3>q. QED BY <3>2, <3>3, <3>4, <3>5, <2>2, <1>0
    <2>8. ToSet(r) \subseteq ToSet(s) \ {d}
      <3> SUFFICES ASSUME NEW j \in 1 .. Len(s) - 1
                   PROVE  r[j] \in ToSet(s) /\ r[j] # d
        BY <2>5 DEF ToSet
      <3>1. j \in 1 .. Len(s) /\ j + 1 \in 1 .. Len(s)
        BY <1>0
      <3>2. CASE j < i
        <4>1. r[j] = s[j] /\ j # i
          BY <3>2, <2>4, <2>2, <1>0
        <4>q. QED BY <4>1, <3>1, <2>2, <2>6, <1>0 DEF ToSet
      <3>3. CASE j >= i
        <4>1. r[j] = s[j + 1] /\ j + 1 # i
          BY <3>3, <2>4, <2>2, <1>0
        <4>q. QED BY <4>1, <3>1, <2>2, <2>6, <1>0 DEF ToSet
      <3>q. QED BY <3>2, <3>3, <2>2, <1>0
    <2>9. ToSet(s) \ {d} \subseteq ToSet(r)
      <3> SUFFICES ASSUME NEW j \in 1 .. Len(s), s[j] # d
                   PROVE  \E k \in 1 .. Len(s) - 1 : r[k] = s[j]
        BY <2>5, <1>0 DEF ToSet
      <3>1. CASE j < i
        <4>1. j \in 1 .. Len(s) - 1
          BY <3>1, <2>2, <1>0
        <4>q. QED BY <4>1, <3>1, <2>4
      <3>2. CASE j > i
        <4>1. j - 1 \in 1 .. Len(s) - 1 /\ j - 1 >= i /\ (j - 1) + 1 = j
          BY <3>2, <2>2, <1>0
        <4>q. QED BY <4>1, <2>4
      <3>q. QED BY <3>1, <3>2, <2>2, <1>0
    <2>10. ToSet(r) = ToSet(s) \ {d}
      BY <2>8, <2>9
    <2>11. IsInjective(r)
      BY <2>5, <2>7 DEF IsInjective
    <2>q. QED BY <2>3, <2>4, <2>10, <2>11
  <1>q. QED BY <1>1, <1>2

\* The newest entry is the last one.
LEMMA AppendFacts ==
  ASSUME NEW S, NEW s \in Seq(S), IsInjective(s), NEW d \in S, d \notin ToSet(s)
  PROVE  /\ Append(s, d) \in Seq(S)
         /\ IsInjective(Append(s, d))
         /\ ToSet(Append(s, d)) = ToSet(s) \cup {d}
  <1> DEFINE r == Append(s, d)
  <1>1. /\ r \in Seq(S) /\ Len(s) \in Nat /\ DOMAIN s = 1 .. Len(s)
        /\ DOMAIN r = 1 .. Len(s) + 1 /\ r[Len(s) + 1] = d
        /\ \A j \in 1 .. Len(s) : r[j] = s[j]
    OBVIOUS
  <1> HIDE DEF r
  <1>2. \A j \in 1 .. Len(s) : s[j] # d
    BY <1>1 DEF ToSet
  <1>3. \A j \in 1 .. Len(s) + 1 : j \in 1 .. Len(s) \/ j = Len(s) + 1
    BY <1>1
  <1>4. \A j, k \in 1 .. Len(s) : s[j] = s[k] => j = k
    BY <1>1 DEF IsInjective
  <1>5. IsInjective(r)
    <2> SUFFICES ASSUME NEW j \in 1 .. Len(s) + 1, NEW k \in 1 .. Len(s) + 1, r[j] = r[k]
                 PROVE  j = k
      BY <1>1 DEF IsInjective
    <2>q. QED BY <1>1, <1>2, <1>3, <1>4
  <1>6. ToSet(r) = ToSet(s) \cup {d}
    <2>1. ToSet(r) \subseteq ToSet(s) \cup {d}
      BY <1>1, <1>3 DEF ToSet
    <2>2. ToSet(s) \subseteq ToSet(r)
      <3> SUFFICES ASSUME NEW j \in 1 .. Len(s) PROVE s[j] \in ToSet(r)
        BY <1>1 DEF ToSet
      <3>1. j \in 1 .. Len(s) + 1
        BY <1>1
      <3>q. QED BY <3>1, <1>1 DEF ToSet
    <2>3. d \in ToSet(r)
      <3>1. Len(s) + 1 \in 1 .. Len(s) + 1
        BY <1>1
      <3>q. QED BY <3>1, <1>1 DEF ToSet
    <2>q. QED BY <2>1, <2>2, <2>3
  <1>q. QED BY <1>1, <1>5, <1>6 DEF r

-----------------------------------------------------------------------------
(* The other commands.                                                         *)

\* A step changes only the variables of the command that takes it ...
OthersSame(p) ==
  \A q \in Commands \ {p} :
    /\ pc'[q] = pc[q] /\ target'[q] = target[q] /\ candidate'[q] = candidate[q]
    /\ used'[q] = used[q] /\ unread'[q] = unread[q]
    /\ listed'[q] = listed[q] /\ sibling'[q] = sibling[q]

\* ... and whatever it takes from the disk it takes from those it disturbs.
Takes(p) ==
  /\ disturbed \subseteq disturbed'
  /\ \A q \in Commands \ {p} : q \notin disturbed' =>
       /\ need[q] \cap Present \subseteq Present'
       /\ need[q] \cap directory \subseteq directory'
       /\ listed[q] \cap Names \subseteq Names'

LEMMA OthersKeep ==
  ASSUME IInv, NEW p \in Commands, OthersSame(p), Takes(p), UNCHANGED <<need, serves>>,
         NEW q \in Commands \ {p}
  PROVE  Local(q)' /\ (q \in disturbed' \/ Undisturbed(q)')
  <1>1. Local(q)
    BY DEF IInv
  <1>2. /\ pc'[q] = pc[q] /\ target'[q] = target[q] /\ candidate'[q] = candidate[q]
        /\ used'[q] = used[q] /\ unread'[q] = unread[q]
        /\ listed'[q] = listed[q] /\ sibling'[q] = sibling[q]
    BY DEF OthersSame
  <1>3. Local(q)'
    BY <1>1, <1>2 DEF Local
  <1>4. ASSUME q \notin disturbed' PROVE Undisturbed(q)'
    <2>1. /\ need[q] \cap Present \subseteq Present'
          /\ need[q] \cap directory \subseteq directory'
          /\ listed[q] \cap Names \subseteq Names'
      BY <1>4 DEF Takes
    <2>2. Undisturbed(q)
      BY <1>4 DEF Takes, IInv
    <2>3. used[q] \subseteq need[q]
      BY <1>1 DEF Local
    <2>4. pc[q] \in {"verify", "discard", "download"} => target[q] \in need[q]
      BY <1>1 DEF Local
    <2>5. listed'[q] \subseteq Names'
      BY <1>2, <2>1, <2>2 DEF Undisturbed
    <2>6. used'[q] \subseteq Present'
      BY <1>2, <2>1, <2>2, <2>3 DEF Undisturbed
    <2>7. pc'[q] \in {"verify", "discard"} => target'[q] \in Present'
      BY <1>2, <2>1, <2>2, <2>4 DEF Undisturbed
    <2>8. pc'[q] = "download" =>
            target'[q] \in directory'
              /\ \A c \in 1 .. candidate'[q] - 1 : c \notin serves'[target'[q]]
      BY <1>2, <2>1, <2>2, <2>4 DEF Undisturbed
    <2>9. pc'[q] = "failed" => \E d \in need'[q] : serves'[d] = {}
      BY <1>2, <2>2 DEF Undisturbed
    <2>q. QED BY <2>5, <2>6, <2>7, <2>8, <2>9 DEF Undisturbed
  <1>q. QED BY <1>3, <1>4

LEMMA StepOfOne ==
  ASSUME IInv, NEW p \in Commands, OthersSame(p), Takes(p), UNCHANGED <<need, serves>>,
         DiskOK', CommandsOK', Local(p)', p \in disturbed' \/ Undisturbed(p)'
  PROVE  IInv'
  <1>1. ASSUME NEW q \in Commands PROVE Local(q)' /\ (q \in disturbed' \/ Undisturbed(q)')
    <2>1. CASE q = p
      BY <2>1
    <2>2. CASE q # p
      BY <2>2, OthersKeep
    <2>q. QED BY <2>1, <2>2
  <1>q. QED BY <1>1 DEF IInv

-----------------------------------------------------------------------------
(* Steps that leave the disk as it is.                                         *)

LEMMA SameDisk ==
  ASSUME UNCHANGED <<object, sibling>>
  PROVE  Present' = Present /\ Names' = Names
  <1>1. Present' = Present
    BY DEF Present
  <1>q. QED BY <1>1 DEF Names

Quiet == UNCHANGED <<object, age, directory, sibling, damaged, disturbed, gotBad, need, serves>>

LEMMA QuietStep ==
  ASSUME IInv, NEW p \in Commands, Quiet, OthersSame(p), CommandsOK', Local(p)',
         p \in disturbed \/ Undisturbed(p)'
  PROVE  IInv'
  <1>1. Present' = Present /\ Names' = Names
    BY SameDisk DEF Quiet
  <1>2. DiskOK'
    BY <1>1 DEF Quiet, DiskOK, IInv
  <1>3. Takes(p)
    BY <1>1 DEF Quiet, Takes
  <1>4. UNCHANGED <<need, serves>> /\ disturbed' = disturbed
    BY DEF Quiet
  <1>q. QED BY <1>2, <1>3, <1>4, StepOfOne

\* A command moves on, and keeps what it relies on: nothing but its place and
\* what it read of the directory changes.
Moves(p, to) ==
  /\ Quiet /\ to \in Places /\ pc' = [pc EXCEPT ![p] = to]
  /\ UNCHANGED <<target, candidate, used, unread, recorded>>
  /\ faults' \in 0 .. MaxFaults /\ DOMAIN listed' = Commands
  /\ \A q \in Commands \ {p} : listed'[q] = listed[q]
  /\ listed'[p] = {} \/ (to \in WalkingPlaces /\ listed'[p] = Names)
  /\ to \notin {"verify", "discard", "download", "install", "read"}
  /\ to \in TidyPlaces => used[p] = {}
  /\ sibling[p] # None => to = "killed"
  /\ to = "failed" => p \in disturbed

LEMMA MoveOn ==
  ASSUME IInv, NEW p \in Commands, NEW to, Moves(p, to)
  PROVE  IInv'
  <1>0. /\ Quiet /\ to \in Places /\ pc' = [pc EXCEPT ![p] = to]
        /\ UNCHANGED <<target, candidate, used, unread, recorded>>
        /\ faults' \in 0 .. MaxFaults /\ DOMAIN listed' = Commands
        /\ \A q \in Commands \ {p} : listed'[q] = listed[q]
        /\ listed'[p] = {} \/ (to \in WalkingPlaces /\ listed'[p] = Names)
        /\ to \notin {"verify", "discard", "download", "install", "read"}
        /\ to \in TidyPlaces => used[p] = {}
        /\ sibling[p] # None => to = "killed"
        /\ to = "failed" => p \in disturbed
    BY DEF Moves
  <1>1. pc \in [Commands -> Places] /\ sibling \in [Commands -> Digests \cup {None}]
    BY DEF IInv, CommandsOK, DiskOK
  <1>2. pc'[p] = to /\ \A q \in Commands \ {p} : pc'[q] = pc[q]
    BY <1>0, <1>1
  <1>3. OthersSame(p)
    BY <1>0, <1>2 DEF OthersSame, Quiet
  <1>4. CommandsOK'
    BY <1>0, <1>1 DEF IInv, CommandsOK, Quiet
  <1>5. Local(p) /\ (p \in disturbed \/ Undisturbed(p))
    BY DEF IInv
  <1>6. Local(p)'
    BY <1>0, <1>2, <1>5 DEF Local, Quiet
  <1>7. Present' = Present /\ Names' = Names
    BY <1>0, SameDisk DEF Quiet
  <1>8. p \in disturbed \/ Undisturbed(p)'
    BY <1>0, <1>2, <1>5, <1>7 DEF Undisturbed, Quiet
  <1>q. QED BY <1>0, <1>3, <1>4, <1>6, <1>8, QuietStep

LEMMA Labels ==
  /\ \A from \in {"open", "fetch-prune", "retain-prune"} :
       /\ from \in Places /\ from \notin WalkingPlaces \cup TidyPlaces
       /\ from \notin {"verify", "discard", "download", "install", "read", "failed", "killed"}
       /\ Walking(from) \in WalkingPlaces /\ Walking(from) \in Places
       /\ Walking(from) \notin TidyPlaces
       /\ Walking(from) \notin
            {"verify", "discard", "download", "install", "read", "failed", "killed"}
       /\ Pruning(from) \in Places /\ Pruning(from) \notin WalkingPlaces \cup TidyPlaces
       /\ Pruning(from) \notin
            {"verify", "discard", "download", "install", "read", "failed", "killed"}
  /\ Ended \cup TidyPlaces \cup WalkingPlaces \subseteq Places
  /\ {"fetch", "verify", "discard", "download", "install", "read", "purge"} \subseteq Places
  BY DEF Places, Ended, WalkingPlaces, TidyPlaces, Walking, Pruning

\* Reading the names of the cache.
LEMMA ReadNamesKeeps ==
  ASSUME IInv, NEW p \in Commands, NEW to \in WalkingPlaces, ReadNames(p, to),
         to \in TidyPlaces => used[p] = {}, sibling[p] = None
  PROVE  IInv'
  <1>1. /\ Quiet /\ pc' = [pc EXCEPT ![p] = to] /\ listed' = [listed EXCEPT ![p] = Names]
        /\ UNCHANGED <<target, candidate, used, unread, faults, recorded>>
    BY DEF ReadNames, Goto, Quiet, disk, local, world
  <1>2. DOMAIN listed = Commands /\ recorded \subseteq Commands
    BY DEF IInv, CommandsOK
  <1>3. /\ DOMAIN listed' = Commands /\ listed'[p] = Names
        /\ \A q \in Commands \ {p} : listed'[q] = listed[q]
    BY <1>1, <1>2
  <1>4. to \in Places /\ to \notin {"verify", "discard", "download", "install", "read", "failed"}
    BY DEF WalkingPlaces, Places
  <1>5. Moves(p, to)
    BY <1>1, <1>2, <1>3, <1>4 DEF Moves, IInv, CommandsOK
  <1>q. QED BY <1>5, MoveOn

\* What a command that neither installs nor walks relies on.
LEMMA AtRest ==
  ASSUME IInv, NEW p \in Commands
  PROVE  /\ pc[p] \notin {"install", "killed"} => sibling[p] = None
         /\ pc[p] \notin WalkingPlaces => listed[p] = {}
         /\ pc[p] \in TidyPlaces => used[p] = {}
  BY DEF IInv, Local

LEMMA StartPruneKeeps ==
  ASSUME IInv, NEW p \in Commands, NEW from \in {"open", "fetch-prune", "retain-prune"},
         NEW unbounded \in {"fetch", "done"}, StartPrune(p, from, unbounded)
  PROVE  IInv'
  <1>1. pc[p] = from /\ sibling[p] = None /\ listed[p] = {}
    BY AtRest, Labels DEF StartPrune
  <1>2. CASE MaxBytes = 0
    <2>1. /\ Quiet /\ pc' = [pc EXCEPT ![p] = unbounded]
          /\ UNCHANGED <<target, candidate, used, unread, faults, recorded, listed>>
      BY <1>2 DEF StartPrune, Goto, Quiet, disk, local, scan, ghost, world
    <2>2. unbounded \in Places /\ unbounded \notin TidyPlaces /\ unbounded # "killed"
      BY DEF Places, TidyPlaces, Ended
    <2>3. Moves(p, unbounded)
      BY <1>1, <2>1, <2>2 DEF Moves, IInv, CommandsOK
    <2>q. QED BY <2>3, MoveOn
  <1>3. CASE MaxBytes # 0
    <2>1. ReadNames(p, Walking(from))
      BY <1>3 DEF StartPrune
    <2>2. Walking(from) \in WalkingPlaces /\ Walking(from) \notin TidyPlaces
      BY Labels
    <2>q. QED BY <1>1, <2>1, <2>2, ReadNamesKeeps
  <1>q. QED BY <1>2, <1>3

\* A walk fails only over a name that another command took.
LEMMA WalkFails ==
  ASSUME IInv, NEW p \in Commands, ~Walked(p)
  PROVE  p \in disturbed
  BY DEF IInv, Undisturbed, Walked

LEMMA EndWalkKeeps ==
  ASSUME IInv, NEW p \in Commands, NEW from \in {"open", "fetch-prune", "retain-prune"},
         NEW failed \in {"fetch", "failed"}, EndWalk(p, from, failed)
  PROVE  IInv'
  <1>1. pc[p] = Walking(from) /\ sibling[p] = None
    BY AtRest, Labels DEF EndWalk
  <1>2. /\ Quiet /\ listed' = [listed EXCEPT ![p] = {}]
        /\ UNCHANGED <<target, candidate, used, unread, faults, recorded>>
    BY DEF EndWalk, Quiet, disk, ghost, world
  <1>3. PICK to \in {Pruning(from), failed} :
            pc' = [pc EXCEPT ![p] = to] /\ (to = "failed" => ~Walked(p))
    <2>1. Pruning(from) # "failed"
      BY Labels
    <2>q. QED BY <2>1 DEF EndWalk, Goto
  <1>4. /\ DOMAIN listed' = Commands /\ listed'[p] = {}
        /\ \A q \in Commands \ {p} : listed'[q] = listed[q]
    BY <1>2 DEF IInv, CommandsOK
  <1>5. /\ to \in Places /\ to \notin TidyPlaces
        /\ to \notin {"verify", "discard", "download", "install", "read", "killed"}
    <2>1. failed \in Places /\ failed \notin TidyPlaces
      BY DEF Places, TidyPlaces, Ended
    <2>q. QED BY <2>1, Labels
  <1>6. to = "failed" => p \in disturbed
    BY <1>3, WalkFails
  <1>7. recorded' \subseteq Commands
    BY <1>2 DEF IInv, CommandsOK
  <1>8. Moves(p, to)
    BY <1>1, <1>2, <1>3, <1>4, <1>5, <1>6, <1>7 DEF Moves, IInv, CommandsOK
  <1>q. QED BY <1>8, MoveOn

LEMMA ReadRecordsKeeps ==
  ASSUME IInv, NEW p \in Commands, ReadRecords(p)
  PROVE  IInv'
  <1>1. /\ Quiet /\ pc' = [pc EXCEPT ![p] = "list"]
        /\ UNCHANGED <<target, candidate, used, unread, faults, recorded, listed>>
    BY DEF ReadRecords, Goto, Quiet, disk, local, ghost, world
  <1>2. pc[p] = "records"
    BY DEF ReadRecords
  <1>3. /\ "records" \in TidyPlaces /\ "records" \notin WalkingPlaces
        /\ "list" \in Places
    BY DEF TidyPlaces, WalkingPlaces, Places
  <1>4. sibling[p] = None /\ listed[p] = {} /\ used[p] = {}
    BY <1>2, <1>3, AtRest
  <1>5. Moves(p, "list")
    BY <1>1, <1>3, <1>4 DEF Moves, IInv, CommandsOK
  <1>q. QED BY <1>5, MoveOn

LEMMA ListCacheKeeps ==
  ASSUME IInv, NEW p \in Commands, ListCache(p)
  PROVE  IInv'
  <1>1. pc[p] = "list" /\ ReadNames(p, "walk")
    BY DEF ListCache
  <1>2. "walk" \in WalkingPlaces /\ "list" \in TidyPlaces
    BY DEF WalkingPlaces, TidyPlaces
  <1>3. sibling[p] = None /\ used[p] = {}
    BY <1>1, <1>2, AtRest
  <1>q. QED BY <1>1, <1>2, <1>3, ReadNamesKeeps

LEMMA WalkCacheKeeps ==
  ASSUME IInv, NEW p \in Commands, WalkCache(p)
  PROVE  IInv'
  <1>1. /\ Quiet /\ listed' = [listed EXCEPT ![p] = {}] /\ pc[p] = "walk"
        /\ UNCHANGED <<target, candidate, used, unread, faults, recorded>>
    BY DEF WalkCache, Quiet, disk, local, ghost, world
  <1>2. PICK to \in {"clean", "failed"} :
            pc' = [pc EXCEPT ![p] = to] /\ (to = "failed" => ~Walked(p))
    BY DEF WalkCache, Goto
  <1>3. "walk" \in TidyPlaces /\ to \in Places
    BY DEF TidyPlaces, Places, Ended
  <1>4. sibling[p] = None /\ used[p] = {}
    BY <1>1, <1>3, AtRest
  <1>5. /\ DOMAIN listed' = Commands /\ listed'[p] = {}
        /\ \A q \in Commands \ {p} : listed'[q] = listed[q]
    BY <1>1 DEF IInv, CommandsOK
  <1>6. to = "failed" => p \in disturbed
    BY <1>2, WalkFails
  <1>7. recorded' \subseteq Commands
    BY <1>1 DEF IInv, CommandsOK
  <1>8. Moves(p, to)
    BY <1>1, <1>2, <1>3, <1>4, <1>5, <1>6, <1>7 DEF Moves, IInv, CommandsOK
  <1>q. QED BY <1>8, MoveOn

LEMMA KillKeeps ==
  ASSUME IInv, NEW p \in Commands, Kill(p)
  PROVE  IInv'
  <1>1. /\ Quiet /\ listed' = [listed EXCEPT ![p] = {}] /\ pc' = [pc EXCEPT ![p] = "killed"]
        /\ UNCHANGED <<target, candidate, used, unread, recorded>>
        /\ faults < MaxFaults /\ faults' = faults + 1
    BY DEF Kill, Goto, Quiet, disk, local, ghost
  <1>2. DOMAIN listed = Commands /\ faults \in 0 .. MaxFaults
    BY DEF IInv, CommandsOK
  <1>3. faults' \in 0 .. MaxFaults
    BY <1>1, <1>2, CacheAssumption DEF CacheAssumption
  <1>4. "killed" \in Places /\ "killed" \notin TidyPlaces
    BY DEF Places, TidyPlaces, Ended
  <1>5. Moves(p, "killed")
    BY <1>1, <1>2, <1>3, <1>4 DEF Moves
  <1>q. QED BY <1>5, MoveOn

-----------------------------------------------------------------------------
(* Removals.                                                                   *)

\* Removing a file keeps the disk in order, and disturbs every other command that
\* needs the object or has read its name.
LEMMA Removal ==
  ASSUME IInv, NEW p \in Commands, NEW d, RemoveFile(p, d),
         UNCHANGED <<sibling, gotBad, need>>, directory' \subseteq Digests,
         directory \ {d} \subseteq directory',
         \A q \in Commands : sibling[q] # None => sibling[q] \in directory'
  PROVE  Present' = Present \ {d} /\ DiskOK' /\ Takes(p)
  <1>1. /\ object \in [Digests -> {"absent", "good", "bad"}]
        /\ age \in Seq(Digests) /\ ToSet(age) = Present /\ IsInjective(age)
        /\ Present \subseteq directory /\ gotBad = {}
        /\ sibling \in [Commands -> Digests \cup {None}]
        /\ \A e \in Digests : object[e] = "bad" => e \in damaged
    BY DEF IInv, DiskOK
  <1>2. /\ object' = [object EXCEPT ![d] = "absent"] /\ age' = Without(age, d)
        /\ damaged' = damaged \ {d}
        /\ disturbed' = disturbed \cup
             {q \in Commands \ {p} : ObjectName(d) \in listed[q] \/ d \in need[q]}
    BY DEF RemoveFile
  <1>3. Present' = Present \ {d}
    BY <1>1, <1>2 DEF Present
  <1>4. /\ age' \in Seq(Digests) /\ ToSet(age') = ToSet(age) \ {d} /\ IsInjective(age')
    BY <1>1, <1>2, WithoutFacts
  <1>5. DiskOK'
    <2>1. object' \in [Digests -> {"absent", "good", "bad"}]
      BY <1>1, <1>2
    <2>2. \A e \in Digests : object'[e] = "bad" => e \in damaged'
      BY <1>1, <1>2
    <2>3. Present' \subseteq directory'
      BY <1>1, <1>3
    <2>4. ToSet(age)' = Present'
      BY <1>1, <1>3, <1>4 DEF ToSet
    <2>5. IsInjective(age)'
      BY <1>4 DEF IsInjective
    <2>q. QED BY <1>1, <1>4, <2>1, <2>2, <2>3, <2>4, <2>5 DEF DiskOK
  <1>6. Takes(p)
    <2> SUFFICES ASSUME NEW q \in Commands \ {p}, q \notin disturbed'
                 PROVE  /\ need[q] \cap Present \subseteq Present'
                        /\ need[q] \cap directory \subseteq directory'
                        /\ listed[q] \cap Names \subseteq Names'
      BY <1>2 DEF Takes
    <2>1. d \notin need[q] /\ ObjectName(d) \notin listed[q]
      BY <1>2
    <2>2. need[q] \cap Present \subseteq Present' /\ need[q] \cap directory \subseteq directory'
      BY <2>1, <1>3
    <2>3. Names \ {ObjectName(d)} \subseteq Names'
      BY <1>3 DEF Names
    <2>q. QED BY <2>1, <2>2, <2>3
  <1>q. QED BY <1>3, <1>5, <1>6

\* A fan-out directory is dropped only when it is empty.
LEMMA Dropped ==
  ASSUME IInv, NEW d, DropDirectory(d)
  PROVE  /\ directory' \subseteq Digests /\ directory \ {d} \subseteq directory'
         /\ \A q \in Commands : sibling[q] # None => sibling[q] \in directory'
  BY DEF DropDirectory, IInv, DiskOK

\* A command that removes a file stays where it is, or goes to its download.
LEMMA RemovalStep ==
  ASSUME IInv, NEW p \in Commands, NEW d, RemoveFile(p, d), DiskOK', Takes(p),
         Present' = Present \ {d}, UNCHANGED <<sibling, need, serves, unread, candidate>>,
         faults' = faults, recorded' = recorded, listed' = listed, UNCHANGED <<pc, target>>,
         used' = [used EXCEPT ![p] = @ \ {d}],
         pc[p] \notin {"verify", "discard", "download", "install", "read", "failed"}
           \cup WalkingPlaces
  PROVE  IInv'
  <1>1. used \in [Commands -> SUBSET Digests] /\ DOMAIN listed = Commands
    BY DEF IInv, CommandsOK
  <1>2. used'[p] = used[p] \ {d} /\ \A q \in Commands \ {p} : used'[q] = used[q]
    BY <1>1
  <1>3. OthersSame(p)
    BY <1>2 DEF OthersSame
  <1>4. CommandsOK'
    BY <1>1 DEF IInv, CommandsOK
  <1>5. Local(p) /\ (p \in disturbed \/ Undisturbed(p))
    BY DEF IInv
  <1>6. Local(p)'
    BY <1>2, <1>5 DEF Local
  <1>7. listed[p] = {}
    BY AtRest
  <1>8. p \in disturbed' \/ Undisturbed(p)'
    <2>1. disturbed \subseteq disturbed'
      BY DEF Takes
    <2>q. QED BY <2>1, <1>2, <1>5, <1>7 DEF Undisturbed
  <1>q. QED BY <1>3, <1>4, <1>6, <1>8, StepOfOne

LEMMA PruneNextKeeps ==
  ASSUME IInv, NEW p \in Commands, NEW from \in {"open", "fetch-prune", "retain-prune"},
         NEW after \in {"fetch", "done"}, PruneNext(p, from, after)
  PROVE  IInv'
  <1>1. pc[p] = Pruning(from)
    BY DEF PruneNext
  <1>2. /\ pc[p] \in Places /\ pc[p] \notin WalkingPlaces \cup TidyPlaces
        /\ pc[p] \notin {"verify", "discard", "download", "install", "read", "failed", "killed"}
    BY <1>1, Labels
  <1>3. sibling[p] = None /\ listed[p] = {}
    BY <1>2, AtRest
  <1>4. /\ pc \in [Commands -> Places] /\ DOMAIN listed = Commands /\ faults \in 0 .. MaxFaults
        /\ used \in [Commands -> SUBSET Digests]
    BY DEF IInv, CommandsOK
  <1>5. UNCHANGED <<target, candidate, used, unread, recorded, listed, serves, need, faults>>
    BY DEF PruneNext, world
  <1>6. CASE queue[p] = <<>> \/ total[p] <= MaxBytes
    <2>1. Quiet /\ pc' = [pc EXCEPT ![p] = after]
      BY <1>6, <1>5 DEF PruneNext, Goto, Quiet, disk, ghost
    <2>2. after \in Places /\ after \notin TidyPlaces
      BY DEF Places, TidyPlaces, Ended
    <2>3. Moves(p, after)
      BY <1>3, <1>4, <1>5, <2>1, <2>2 DEF Moves
    <2>q. QED BY <2>3, MoveOn
  <1>7. CASE ~(queue[p] = <<>> \/ total[p] <= MaxBytes)
    <2> DEFINE d == Head(queue[p])
    <2>1. /\ UNCHANGED <<pc, directory, sibling, installed, gotBad>>
          /\ IF d \in InUse(p) THEN UNCHANGED <<object, age, damaged, disturbed>>
                               ELSE RemoveFile(p, d)
      BY <1>7 DEF PruneNext
    <2> HIDE DEF d
    <2>2. CASE d \in used[p]
      <3>1. Quiet
        BY <1>5, <2>1, <2>2 DEF Quiet, InUse
      <3>2. pc' = [pc EXCEPT ![p] = pc[p]]
        BY <1>4, <2>1
      <3>3. Moves(p, pc[p])
        BY <1>2, <1>3, <1>4, <1>5, <3>1, <3>2 DEF Moves
      <3>q. QED BY <3>3, MoveOn
    <2>3. CASE d \notin used[p]
      <3>1. RemoveFile(p, d)
        BY <2>1, <2>3 DEF InUse
      <3>2. /\ directory' \subseteq Digests /\ directory \ {d} \subseteq directory'
            /\ \A q \in Commands : sibling[q] # None => sibling[q] \in directory'
        BY <2>1 DEF IInv, DiskOK
      <3>3. DiskOK' /\ Takes(p) /\ Present' = Present \ {d}
        BY <3>1, <3>2, <1>5, <2>1, Removal
      <3>4. used' = [used EXCEPT ![p] = @ \ {d}]
        BY <1>4, <1>5, <2>3
      <3>q. QED BY <3>1, <3>3, <3>4, <1>2, <1>5, <2>1, RemovalStep
    <2>q. QED BY <2>2, <2>3
  <1>q. QED BY <1>6, <1>7

LEMMA PurgeKeeps ==
  ASSUME IInv, NEW p \in Commands, Purge(p)
  PROVE  IInv'
  <1>1. /\ pc[p] = "purge"
        /\ UNCHANGED <<sibling, target, candidate, unread, recorded, listed, gotBad,
                       serves, need, faults>>
    BY DEF Purge, world, scan
  <1>2. "purge" \notin WalkingPlaces \cup TidyPlaces
    BY DEF WalkingPlaces, TidyPlaces
  <1>3. sibling[p] = None /\ listed[p] = {}
    BY <1>1, <1>2, AtRest
  <1>4. CASE used[p] = {}
    <2>1. /\ Quiet /\ pc' = [pc EXCEPT ![p] = "done"] /\ used' = used
      BY <1>1, <1>4 DEF Purge, Goto, Quiet
    <2>2. "done" \in Places /\ "done" \notin TidyPlaces
      BY DEF Places, TidyPlaces, Ended
    <2>3. Moves(p, "done")
      BY <1>1, <1>3, <2>1, <2>2 DEF Moves, IInv, CommandsOK
    <2>q. QED BY <2>3, MoveOn
  <1>5. CASE used[p] # {}
    <2>1. PICK d \in used[p] :
              /\ RemoveFile(p, d) /\ DropDirectory(d)
              /\ used' = [used EXCEPT ![p] = @ \ {d}] /\ pc' = pc
      BY <1>5 DEF Purge
    <2>2. DiskOK' /\ Takes(p) /\ Present' = Present \ {d}
      BY <1>1, <2>1, Dropped, Removal
    <2>q. QED BY <1>1, <1>2, <2>1, <2>2, RemovalStep
  <1>q. QED BY <1>4, <1>5

LEMMA CleanNextKeeps ==
  ASSUME IInv, NEW p \in Commands, CleanNext(p)
  PROVE  IInv'
  <1>1. /\ pc[p] = "clean"
        /\ UNCHANGED <<sibling, target, candidate, used, unread, recorded, listed, gotBad,
                       serves, need, faults>>
    BY DEF CleanNext, world, local
  <1>2. "clean" \in TidyPlaces /\ "clean" \notin WalkingPlaces
    BY DEF WalkingPlaces, TidyPlaces
  <1>3. sibling[p] = None /\ listed[p] = {} /\ used[p] = {}
    BY <1>1, <1>2, AtRest
  <1>4. CASE queue[p] = <<>>
    <2>1. /\ Quiet /\ pc' = [pc EXCEPT ![p] = "done"]
      BY <1>1, <1>4 DEF CleanNext, Goto, Quiet
    <2>2. "done" \in Places /\ "done" \notin TidyPlaces
      BY DEF Places, TidyPlaces, Ended
    <2>3. Moves(p, "done")
      BY <1>1, <1>3, <2>1, <2>2 DEF Moves, IInv, CommandsOK
    <2>q. QED BY <2>3, MoveOn
  <1>5. CASE queue[p] # <<>>
    <2> DEFINE d == Head(queue[p])
    <2>1. RemoveFile(p, d) /\ DropDirectory(d) /\ pc' = pc
      BY <1>5 DEF CleanNext
    <2> HIDE DEF d
    <2>2. used' = [used EXCEPT ![p] = @ \ {d}]
      BY <1>1, <1>3 DEF IInv, CommandsOK
    <2>3. DiskOK' /\ Takes(p) /\ Present' = Present \ {d}
      BY <1>1, <2>1, Dropped, Removal
    <2>q. QED BY <1>1, <1>2, <2>1, <2>2, <2>3, RemovalStep
  <1>q. QED BY <1>4, <1>5

\* The target of a fetch is an object the command needs and has not fetched.
LEMMA TargetFacts ==
  ASSUME IInv, NEW p \in Commands, pc[p] \in {"verify", "discard", "download", "install"}
  PROVE  /\ target[p] \in need[p] /\ target[p] \notin used[p] /\ target[p] \in Digests
         /\ used[p] \subseteq need[p] /\ unread[p] \subseteq need[p]
         /\ need[p] \subseteq Digests /\ listed[p] = {}
  <1>1. pc[p] \notin WalkingPlaces
    BY DEF WalkingPlaces
  <1>2. listed[p] = {}
    BY <1>1, AtRest
  <1>q. QED BY <1>2 DEF IInv, Local, CommandsOK

\* A damaged entry makes way for its download; it is gone only if another
\* command took it.
LEMMA DiscardKeeps ==
  ASSUME IInv, NEW p \in Commands, Discard(p)
  PROVE  IInv'
  <1>1. /\ pc[p] = "discard"
        /\ UNCHANGED <<sibling, target, candidate, used, unread, recorded, listed, gotBad,
                       serves, need, faults>>
    BY DEF Discard, world, local, scan
  <1>2. "discard" \notin WalkingPlaces \cup TidyPlaces
    BY DEF WalkingPlaces, TidyPlaces
  <1>3. sibling[p] = None /\ listed[p] = {}
    BY <1>1, <1>2, AtRest
  <1>4. Local(p) /\ (p \in disturbed \/ Undisturbed(p))
    BY DEF IInv
  <1>5. target[p] \in need[p] /\ target[p] \notin used[p] /\ target[p] \in Digests
    BY <1>1, TargetFacts
  <1>6. CASE object[target[p]] = "absent"
    <2>1. /\ Quiet /\ pc' = [pc EXCEPT ![p] = "failed"]
      BY <1>1, <1>6 DEF Discard, Goto, Quiet
    <2>2. "failed" \in Places /\ "failed" \notin TidyPlaces
      BY DEF Places, TidyPlaces, Ended
    <2>3. p \in disturbed
      BY <1>1, <1>4, <1>6 DEF Undisturbed, Present
    <2>4. Moves(p, "failed")
      BY <1>1, <1>3, <2>1, <2>2, <2>3 DEF Moves, IInv, CommandsOK
    <2>q. QED BY <2>4, MoveOn
  <1>7. CASE object[target[p]] # "absent"
    <2>1. /\ RemoveFile(p, target[p]) /\ directory' = directory \cup {target[p]}
          /\ pc' = [pc EXCEPT ![p] = "download"]
      BY <1>7 DEF Discard, Goto
    <2>2. /\ directory' \subseteq Digests /\ directory \ {target[p]} \subseteq directory'
          /\ \A q \in Commands : sibling[q] # None => sibling[q] \in directory'
      BY <2>1, <1>5 DEF IInv, DiskOK
    <2>3. DiskOK' /\ Takes(p) /\ Present' = Present \ {target[p]}
      BY <1>1, <2>1, <2>2, Removal
    <2>4. "download" \in Places
      BY DEF Places
    <2>5. pc'[p] = "download" /\ \A q \in Commands \ {p} : pc'[q] = pc[q]
      BY <2>1 DEF IInv, CommandsOK
    <2>6. OthersSame(p)
      BY <1>1, <2>5 DEF OthersSame
    <2>7. CommandsOK'
      BY <1>1, <2>1, <2>4 DEF IInv, CommandsOK
    <2>8. Local(p)'
      BY <1>1, <1>2, <1>3, <1>4, <2>5 DEF Local, TidyPlaces
    <2>9. candidate[p] = 1
      BY <1>1, <1>4 DEF Local
    <2>10. 1 .. candidate[p] - 1 = {}
      BY <2>9
    <2>11. p \in disturbed' \/ Undisturbed(p)'
      <3>1. p \in disturbed => p \in disturbed'
        BY <2>3 DEF Takes
      <3>2. Undisturbed(p) => Undisturbed(p)'
        BY <1>1, <1>3, <1>5, <2>1, <2>3, <2>5, <2>10 DEF Undisturbed
      <3>q. QED BY <3>1, <3>2, <1>4
    <2>q. QED BY <1>1, <2>3, <2>6, <2>7, <2>8, <2>11, StepOfOne
  <1>q. QED BY <1>6, <1>7

-----------------------------------------------------------------------------
(* Fetching.                                                                   *)

\* A step that takes nothing from the disk.
LEMMA TakesNothing ==
  ASSUME NEW p \in Commands, disturbed \subseteq disturbed', Present \subseteq Present',
         directory \subseteq directory', Names \subseteq Names'
  PROVE  Takes(p)
  BY DEF Takes

LEMMA LookUpKeeps ==
  ASSUME IInv, NEW p \in Commands, LookUp(p)
  PROVE  IInv'
  <1>1. PICK d \in need[p] \ used[p] :
            /\ target' = [target EXCEPT ![p] = d]
            /\ IF d \in Present
               THEN Goto(p, "verify") /\ UNCHANGED directory
               ELSE Goto(p, "download") /\ directory' = directory \cup {d}
    BY DEF LookUp
  <1>2. /\ pc[p] = "fetch" /\ candidate' = [candidate EXCEPT ![p] = 1]
        /\ UNCHANGED <<object, age, sibling, used, unread, recorded, listed, damaged,
                       disturbed, gotBad, serves, need, faults>>
    BY DEF LookUp, scan, ghost, world
  <1>3. "fetch" \notin WalkingPlaces \cup TidyPlaces
    BY DEF WalkingPlaces, TidyPlaces
  <1>4. sibling[p] = None /\ listed[p] = {}
    BY <1>2, <1>3, AtRest
  <1>5. Local(p) /\ (p \in disturbed \/ Undisturbed(p))
    BY DEF IInv
  <1>6. d \in Digests
    BY DEF IInv, CommandsOK
  <1>7. PICK to \in {"verify", "download"} :
            /\ pc' = [pc EXCEPT ![p] = to]
            /\ to = "verify" => d \in Present
            /\ to = "download" => d \in directory'
            /\ directory \subseteq directory' /\ directory' \subseteq directory \cup {d}
    BY <1>1 DEF Goto
  <1>8. /\ pc'[p] = to /\ target'[p] = d /\ candidate'[p] = 1
        /\ \A q \in Commands \ {p} : /\ pc'[q] = pc[q] /\ target'[q] = target[q]
                                     /\ candidate'[q] = candidate[q]
    BY <1>1, <1>2, <1>7 DEF IInv, CommandsOK
  <1>9. Present' = Present /\ Names' = Names
    BY <1>2, SameDisk
  <1>10. OthersSame(p)
    BY <1>2, <1>8 DEF OthersSame
  <1>11. Takes(p)
    BY <1>2, <1>7, <1>9, TakesNothing
  <1>12. DiskOK'
    <2>1. Present \subseteq directory /\ directory \subseteq Digests
      BY DEF IInv, DiskOK
    <2>2. Present' \subseteq directory' /\ directory' \subseteq Digests
      BY <1>6, <1>7, <1>9, <2>1
    <2>3. \A q \in Commands : sibling'[q] # None => sibling'[q] \in directory'
      BY <1>2, <1>7 DEF IInv, DiskOK
    <2>q. QED BY <1>2, <1>9, <2>2, <2>3 DEF IInv, DiskOK
  <1>13. CommandsOK'
    <2>1. to \in Places
      BY DEF Places
    <2>2. 1 \in 1 .. Candidates
      BY CacheAssumption DEF CacheAssumption
    <2>q. QED BY <1>1, <1>2, <1>6, <1>7, <2>1, <2>2 DEF IInv, CommandsOK
  <1>14. Local(p)'
    BY <1>2, <1>4, <1>5, <1>8 DEF Local, TidyPlaces
  <1>15. 1 .. candidate'[p] - 1 = {}
    BY <1>8
  <1>16. p \in disturbed' \/ Undisturbed(p)'
    BY <1>2, <1>4, <1>5, <1>7, <1>8, <1>9, <1>15 DEF Undisturbed
  <1>q. QED BY <1>2, <1>10, <1>11, <1>12, <1>13, <1>14, <1>16, StepOfOne

\* What a fetch that returns its object leaves behind.
LEMMA Fetched ==
  ASSUME IInv, NEW p \in Commands, pc[p] \in {"verify", "install"}, MarkUsed(p),
         NEW to \in {"fetch", "fetch-prune"}, pc' = [pc EXCEPT ![p] = to],
         UNCHANGED <<candidate, unread, listed, recorded, serves, need, faults>>,
         DiskOK', Takes(p), sibling'[p] = None,
         \A q \in Commands \ {p} : sibling'[q] = sibling[q],
         Present' = Present \cup {target[p]}
  PROVE  IInv'
  <1>1. /\ target[p] \in need[p] /\ target[p] \in Digests
        /\ used[p] \subseteq need[p] /\ unread[p] \subseteq need[p] /\ listed[p] = {}
    BY TargetFacts
  <1>2. /\ used' = [used EXCEPT ![p] = @ \cup {target[p]}]
        /\ target' = [target EXCEPT ![p] = None]
    BY DEF MarkUsed
  <1>3. /\ pc'[p] = to /\ used'[p] = used[p] \cup {target[p]}
        /\ \A q \in Commands \ {p} : /\ pc'[q] = pc[q] /\ target'[q] = target[q]
                                     /\ used'[q] = used[q]
    BY <1>2 DEF IInv, CommandsOK
  <1>4. OthersSame(p)
    BY <1>3 DEF OthersSame
  <1>5. to \in Places /\ to \notin TidyPlaces
    BY DEF Places, TidyPlaces
  <1>6. CommandsOK'
    BY <1>1, <1>2, <1>5 DEF IInv, CommandsOK
  <1>7. Local(p)'
    BY <1>1, <1>3, <1>5 DEF Local
  <1>8. p \in disturbed' \/ Undisturbed(p)'
    <2>1. p \in disturbed \/ Undisturbed(p)
      BY DEF IInv
    <2>2. p \in disturbed => p \in disturbed'
      BY DEF Takes
    <2>q. QED BY <1>1, <1>3, <2>1, <2>2 DEF Undisturbed
  <1>q. QED BY <1>4, <1>6, <1>7, <1>8, StepOfOne

\* Touching an entry makes it the newest.
LEMMA Touched ==
  ASSUME IInv, NEW d \in Digests, age' = Append(Without(age, d), d)
  PROVE  age' \in Seq(Digests) /\ ToSet(age') = Present \cup {d} /\ IsInjective(age')
  <1>1. age \in Seq(Digests) /\ ToSet(age) = Present /\ IsInjective(age)
    BY DEF IInv, DiskOK
  <1>2. /\ Without(age, d) \in Seq(Digests) /\ IsInjective(Without(age, d))
        /\ ToSet(Without(age, d)) = Present \ {d}
    BY <1>1, WithoutFacts
  <1>3. d \notin ToSet(Without(age, d))
    BY <1>2
  <1>q. QED BY <1>2, <1>3, AppendFacts

LEMMA VerifyKeeps ==
  ASSUME IInv, NEW p \in Commands, Verify(p)
  PROVE  IInv'
  <1>1. /\ pc[p] = "verify"
        /\ UNCHANGED <<object, directory, sibling, candidate, unread, recorded, listed, damaged,
                       disturbed, gotBad, serves, need, faults>>
    BY DEF Verify, scan, ghost, world
  <1>2. "verify" \notin WalkingPlaces \cup TidyPlaces
    BY DEF WalkingPlaces, TidyPlaces
  <1>3. sibling[p] = None /\ listed[p] = {}
    BY <1>1, <1>2, AtRest
  <1>4. target[p] \in need[p] /\ target[p] \in Digests
    BY <1>1, TargetFacts
  <1>5. Present' = Present /\ Names' = Names
    BY <1>1, SameDisk
  <1>6. CASE object[target[p]] = "good"
    <2>1. /\ age' = Append(Without(age, target[p]), target[p])
          /\ MarkUsed(p) /\ pc' = [pc EXCEPT ![p] = "fetch"]
      BY <1>6 DEF Verify, Goto
    <2>2. target[p] \in Present
      BY <1>4, <1>6 DEF Present
    <2>3. age' \in Seq(Digests) /\ ToSet(age') = Present /\ IsInjective(age')
      BY <1>4, <2>1, <2>2, Touched
    <2>4. ToSet(age)' = Present' /\ IsInjective(age)'
      BY <1>5, <2>3 DEF ToSet, IsInjective
    <2>5. DiskOK'
      BY <1>1, <1>5, <2>3, <2>4 DEF IInv, DiskOK
    <2>6. Takes(p)
      BY <1>1, <1>5, TakesNothing
    <2>7. Present' = Present \cup {target[p]}
      BY <1>5, <2>2
    <2>q. QED BY <1>1, <1>3, <2>1, <2>5, <2>6, <2>7, Fetched
  <1>7. CASE object[target[p]] # "good"
    <2>1. pc' = [pc EXCEPT ![p] = "discard"] /\ UNCHANGED <<age, used, target>>
      BY <1>7 DEF Verify, Goto
    <2>2. pc'[p] = "discard" /\ \A q \in Commands \ {p} : pc'[q] = pc[q]
      BY <2>1 DEF IInv, CommandsOK
    <2>3. "discard" \in Places
      BY DEF Places
    <2>4. Quiet
      BY <1>1, <2>1 DEF Quiet
    <2>5. OthersSame(p)
      BY <1>1, <2>1, <2>2 DEF OthersSame
    <2>6. CommandsOK'
      BY <1>1, <2>1, <2>3 DEF IInv, CommandsOK
    <2>7. Local(p) /\ (p \in disturbed \/ Undisturbed(p))
      BY DEF IInv
    <2>8. Local(p)'
      BY <1>1, <1>3, <2>1, <2>2, <2>7 DEF Local, TidyPlaces
    <2>9. p \in disturbed \/ Undisturbed(p)'
      BY <1>1, <1>5, <2>1, <2>2, <2>7 DEF Undisturbed
    <2>q. QED BY <2>4, <2>5, <2>6, <2>8, <2>9, QuietStep
  <1>q. QED BY <1>6, <1>7

\* A verified download is put beside its destination, in a directory that is
\* there.
LEMMA DownloadedKeeps ==
  ASSUME IInv, NEW p \in Commands, Download(p), Accepted(p), target[p] \in directory
  PROVE  IInv'
  <1>1. /\ pc[p] = "download" /\ sibling' = [sibling EXCEPT ![p] = target[p]]
        /\ pc' = [pc EXCEPT ![p] = "install"]
        /\ UNCHANGED <<object, age, directory, target, candidate, used, unread, recorded, listed,
                       damaged, disturbed, gotBad, serves, need, faults>>
    BY DEF Download, Goto, scan, ghost, world
  <1>2. "download" \notin WalkingPlaces \cup TidyPlaces /\ "install" \in Places
    BY DEF WalkingPlaces, TidyPlaces, Places
  <1>3. sibling[p] = None /\ listed[p] = {}
    BY <1>1, <1>2, AtRest
  <1>4. target[p] \in need[p] /\ target[p] \notin used[p] /\ target[p] \in Digests
    BY <1>1, TargetFacts
  <1>5. /\ pc'[p] = "install" /\ \A q \in Commands \ {p} : pc'[q] = pc[q]
        /\ sibling'[p] = target[p] /\ \A q \in Commands \ {p} : sibling'[q] = sibling[q]
    BY <1>1 DEF IInv, CommandsOK, DiskOK
  <1>6. Local(p) /\ (p \in disturbed \/ Undisturbed(p))
    BY DEF IInv
  <1>7. Present' = Present
    BY <1>1 DEF Present
  <1>8. Names \subseteq Names'
    <2>1. \A q \in Commands : sibling[q] # None => sibling'[q] # None
      BY <1>3, <1>5
    <2>q. QED BY <1>7, <2>1 DEF Names
  <1>9. OthersSame(p)
    BY <1>1, <1>5 DEF OthersSame
  <1>10. Takes(p)
    BY <1>1, <1>7, <1>8, TakesNothing
  <1>11. DiskOK'
    <2>1. sibling' \in [Commands -> Digests \cup {None}]
      BY <1>1, <1>4 DEF IInv, DiskOK
    <2>2. \A q \in Commands : sibling'[q] # None => sibling'[q] \in directory'
      BY <1>1, <1>5 DEF IInv, DiskOK
    <2>q. QED BY <1>1, <1>7, <2>1, <2>2 DEF IInv, DiskOK
  <1>12. CommandsOK'
    BY <1>1, <1>2 DEF IInv, CommandsOK
  <1>13. candidate'[p] \in serves'[target'[p]]
    BY <1>1 DEF Accepted
  <1>14. Local(p)'
    BY <1>1, <1>3, <1>4, <1>5, <1>6, <1>13 DEF Local, TidyPlaces
  <1>15. p \in disturbed' \/ Undisturbed(p)'
    BY <1>1, <1>3, <1>5, <1>6, <1>7 DEF Undisturbed
  <1>q. QED BY <1>1, <1>9, <1>10, <1>11, <1>12, <1>14, <1>15, StepOfOne

\* A refused download goes on to the next candidate; after the last one, nobody
\* serves the object unless another command took its directory.
LEMMA RefusedKeeps ==
  ASSUME IInv, NEW p \in Commands, Download(p), ~(Accepted(p) /\ target[p] \in directory)
  PROVE  IInv'
  <1>1. /\ pc[p] = "download" /\ NextCandidate(p)
        /\ UNCHANGED <<object, age, directory, sibling, target, used, unread, recorded, listed,
                       damaged, disturbed, gotBad, serves, need, faults>>
    BY DEF Download, scan, ghost, world
  <1>2. "download" \notin WalkingPlaces \cup TidyPlaces
    BY DEF WalkingPlaces, TidyPlaces
  <1>3. sibling[p] = None /\ listed[p] = {}
    BY <1>1, <1>2, AtRest
  <1>4. target[p] \in need[p] /\ target[p] \notin used[p] /\ target[p] \in Digests
    BY <1>1, TargetFacts
  <1>5. Local(p) /\ (p \in disturbed \/ Undisturbed(p))
    BY DEF IInv
  <1>6. candidate \in [Commands -> 1 .. Candidates] /\ Candidates \in Nat
    BY CacheAssumption DEF IInv, CommandsOK, CacheAssumption
  <1>7. candidate[p] \in Nat /\ candidate[p] >= 1 /\ candidate[p] <= Candidates
    BY <1>6
  <1>8. Undisturbed(p) => \A c \in 1 .. candidate[p] : c \notin serves[target[p]]
    <2> SUFFICES ASSUME Undisturbed(p), NEW c \in 1 .. candidate[p]
                 PROVE  c \notin serves[target[p]]
      OBVIOUS
    <2>1. /\ target[p] \in directory
          /\ \A b \in 1 .. candidate[p] - 1 : b \notin serves[target[p]]
      BY <1>1 DEF Undisturbed
    <2>2. candidate[p] \notin serves[target[p]]
      BY <2>1 DEF Accepted
    <2>3. c = candidate[p] \/ c \in 1 .. candidate[p] - 1
      BY <1>7
    <2>q. QED BY <2>1, <2>2, <2>3
  <1>9. Quiet
    BY <1>1 DEF Quiet
  <1>10. Present' = Present /\ Names' = Names
    BY <1>1, SameDisk
  <1>11. CASE candidate[p] < Candidates
    <2>1. /\ candidate' = [candidate EXCEPT ![p] = @ + 1]
          /\ pc' = [pc EXCEPT ![p] = "download"]
      BY <1>1, <1>11 DEF NextCandidate, Goto
    <2>2. /\ candidate'[p] = candidate[p] + 1 /\ pc'[p] = "download"
          /\ \A q \in Commands \ {p} : candidate'[q] = candidate[q] /\ pc'[q] = pc[q]
      BY <2>1, <1>6 DEF IInv, CommandsOK
    <2>3. candidate[p] + 1 \in 1 .. Candidates /\ "download" \in Places
      BY <1>6, <1>7, <1>11 DEF Places
    <2>4. OthersSame(p)
      BY <1>1, <2>2 DEF OthersSame
    <2>5. CommandsOK'
      BY <1>1, <2>1, <2>3 DEF IInv, CommandsOK
    <2>6. Local(p)'
      BY <1>1, <1>3, <1>4, <1>5, <2>2 DEF Local, TidyPlaces
    <2>7. candidate'[p] - 1 = candidate[p]
      BY <1>7, <2>2
    <2>8. p \in disturbed \/ Undisturbed(p)'
      <3>1. ASSUME Undisturbed(p) PROVE Undisturbed(p)'
        <4>1. target'[p] \in directory'
          BY <1>1, <3>1 DEF Undisturbed
        <4>2. \A c \in 1 .. candidate'[p] - 1 : c \notin serves'[target'[p]]
          BY <1>1, <1>8, <2>7, <3>1
        <4>q. QED BY <1>1, <1>10, <2>2, <3>1, <4>1, <4>2 DEF Undisturbed
      <3>q. QED BY <3>1, <1>5
    <2>q. QED BY <1>9, <2>4, <2>5, <2>6, <2>8, QuietStep
  <1>12. CASE ~(candidate[p] < Candidates)
    <2>1. pc' = [pc EXCEPT ![p] = "failed"] /\ UNCHANGED candidate
      BY <1>1, <1>12 DEF NextCandidate, Goto
    <2>2. pc'[p] = "failed" /\ \A q \in Commands \ {p} : pc'[q] = pc[q]
      BY <2>1 DEF IInv, CommandsOK
    <2>3. "failed" \in Places
      BY DEF Places, Ended
    <2>4. OthersSame(p)
      BY <1>1, <2>1, <2>2 DEF OthersSame
    <2>5. CommandsOK'
      BY <1>1, <2>1, <2>3 DEF IInv, CommandsOK
    <2>6. Local(p)'
      BY <1>1, <1>3, <1>5, <2>1, <2>2 DEF Local, TidyPlaces
    <2>7. Undisturbed(p) => \E d \in need'[p] : serves'[d] = {}
      <3> SUFFICES ASSUME Undisturbed(p) PROVE serves[target[p]] = {}
        BY <1>1, <1>4
      <3>1. candidate[p] = Candidates
        BY <1>6, <1>7, <1>12
      <3>2. serves[target[p]] \subseteq 1 .. Candidates
        BY <1>4 DEF IInv, CommandsOK
      <3>q. QED BY <1>8, <3>1, <3>2
    <2>8. p \in disturbed \/ Undisturbed(p)'
      BY <1>1, <1>5, <1>10, <2>1, <2>2, <2>7 DEF Undisturbed
    <2>q. QED BY <1>9, <2>4, <2>5, <2>6, <2>8, QuietStep
  <1>q. QED BY <1>11, <1>12

\* The rename that makes a verified download visible.
LEMMA InstallKeeps ==
  ASSUME IInv, NEW p \in Commands, Install(p)
  PROVE  IInv'
  <1> DEFINE d == target[p]
  <1>1. /\ pc[p] = "install" /\ object' = [object EXCEPT ![d] = InstalledBytes(p)]
        /\ age' = Append(Without(age, d), d)
        /\ sibling' = [sibling EXCEPT ![p] = None] /\ damaged' = damaged \ {d}
        /\ disturbed' = disturbed \cup {q \in Commands \ {p} : SiblingName(p) \in listed[q]}
        /\ MarkUsed(p) /\ pc' = [pc EXCEPT ![p] = "fetch-prune"]
        /\ UNCHANGED <<directory, candidate, unread, recorded, listed, gotBad, serves, need, faults>>
    BY DEF Install, Goto, scan, world
  <1>2. d \in need[p] /\ d \in Digests
    BY <1>1, TargetFacts
  <1>3. candidate[p] \in serves[d] /\ sibling[p] = d
    BY <1>1 DEF IInv, Local
  <1>4. InstalledBytes(p) = "good"
    BY <1>3 DEF InstalledBytes
  <1>5. d # None
    BY <1>2, CacheAssumption DEF CacheAssumption
  <1>6. d \in directory
    BY <1>3, <1>5 DEF IInv, DiskOK
  <1>7. age' \in Seq(Digests) /\ ToSet(age') = Present \cup {d} /\ IsInjective(age')
    BY <1>1, <1>2, Touched
  <1> HIDE DEF d
  <1>8. /\ sibling'[p] = None /\ \A q \in Commands \ {p} : sibling'[q] = sibling[q]
        /\ \A e \in Digests : object'[e] = IF e = d THEN "good" ELSE object[e]
    BY <1>1, <1>4 DEF IInv, DiskOK
  <1>9. Present' = Present \cup {d}
    BY <1>2, <1>8 DEF Present
  <1>10. DiskOK'
    <2>1. object' \in [Digests -> {"absent", "good", "bad"}]
      BY <1>1, <1>4 DEF IInv, DiskOK
    <2>2. \A e \in Digests : object'[e] = "bad" => e \in damaged'
      BY <1>1, <1>8 DEF IInv, DiskOK
    <2>3. Present' \subseteq directory' /\ directory' \subseteq Digests
      BY <1>1, <1>6, <1>9 DEF IInv, DiskOK
    <2>4. ToSet(age)' = Present' /\ IsInjective(age)'
      BY <1>7, <1>9 DEF ToSet, IsInjective
    <2>5. sibling' \in [Commands -> Digests \cup {None}]
      BY <1>1 DEF IInv, DiskOK
    <2>6. \A q \in Commands : sibling'[q] # None => sibling'[q] \in directory'
      BY <1>1, <1>8 DEF IInv, DiskOK
    <2>7. gotBad' = {}
      BY <1>1 DEF IInv, DiskOK
    <2>q. QED BY <1>7, <2>1, <2>2, <2>3, <2>4, <2>5, <2>6, <2>7 DEF DiskOK
  <1>11. Takes(p)
    <2>1. Names \ {SiblingName(p)} \subseteq Names'
      <3>1. \A q \in Commands : sibling[q] # None /\ q # p => sibling'[q] # None
        BY <1>8
      <3>q. QED BY <1>9, <3>1 DEF Names
    <2> SUFFICES ASSUME NEW q \in Commands \ {p}, q \notin disturbed'
                 PROVE  /\ need[q] \cap Present \subseteq Present'
                        /\ need[q] \cap directory \subseteq directory'
                        /\ listed[q] \cap Names \subseteq Names'
      BY <1>1 DEF Takes
    <2>2. SiblingName(p) \notin listed[q]
      BY <1>1
    <2>q. QED BY <1>1, <1>9, <2>1, <2>2
  <1>12. Present' = Present \cup {target[p]}
    BY <1>9 DEF d
  <1>q. QED BY <1>1, <1>8, <1>10, <1>11, <1>12, Fetched

-----------------------------------------------------------------------------
(* Using what was fetched.                                                     *)

LEMMA RecordKeeps ==
  ASSUME IInv, NEW p \in Commands, Record(p)
  PROVE  IInv'
  <1>1. /\ pc[p] = "fetch" /\ need[p] \subseteq used[p] /\ recorded' = recorded \cup {p}
        /\ pc' = [pc EXCEPT ![p] = "read"]
        /\ UNCHANGED <<object, age, directory, sibling, target, candidate, used, unread, listed,
                       damaged, disturbed, gotBad, serves, need, faults>>
    BY DEF Record, Goto, disk, scan, ghost, world
  <1>2. "fetch" \notin WalkingPlaces \cup TidyPlaces /\ "read" \in Places
    BY DEF WalkingPlaces, TidyPlaces, Places
  <1>3. sibling[p] = None /\ listed[p] = {}
    BY <1>1, <1>2, AtRest
  <1>4. pc'[p] = "read" /\ \A q \in Commands \ {p} : pc'[q] = pc[q]
    BY <1>1 DEF IInv, CommandsOK
  <1>5. Quiet
    BY <1>1 DEF Quiet
  <1>6. OthersSame(p)
    BY <1>1, <1>4 DEF OthersSame
  <1>7. CommandsOK'
    BY <1>1, <1>2 DEF IInv, CommandsOK
  <1>8. Local(p) /\ (p \in disturbed \/ Undisturbed(p))
    BY DEF IInv
  <1>9. Local(p)'
    BY <1>1, <1>3, <1>4, <1>8 DEF Local, TidyPlaces
  <1>10. Present' = Present /\ Names' = Names
    BY <1>1, SameDisk
  <1>11. p \in disturbed \/ Undisturbed(p)'
    BY <1>1, <1>4, <1>8, <1>10 DEF Undisturbed
  <1>q. QED BY <1>5, <1>6, <1>7, <1>9, <1>11, QuietStep

\* What is read is what was installed; it is gone only if another command took it.
LEMMA ReadKeeps ==
  ASSUME IInv, NEW p \in Commands, Read(p)
  PROVE  IInv'
  <1>1. /\ pc[p] = "read"
        /\ UNCHANGED <<object, age, directory, sibling, target, candidate, used, listed,
                       damaged, disturbed, serves, need, faults>>
    BY DEF Read, disk, scan, world
  <1>2. "read" \notin WalkingPlaces \cup TidyPlaces
    BY DEF WalkingPlaces, TidyPlaces
  <1>3. sibling[p] = None /\ listed[p] = {}
    BY <1>1, <1>2, AtRest
  <1>4. PICK d \in unread[p] :
            IF d \in Present
            THEN /\ gotBad' = IF object[d] = "bad" /\ d \notin damaged THEN gotBad \cup {d} ELSE gotBad
                 /\ unread' = [unread EXCEPT ![p] = @ \ {d}]
                 /\ UNCHANGED <<pc, recorded>>
            ELSE /\ pc' = [pc EXCEPT ![p] = "failed"] /\ recorded' = recorded \ {p}
                 /\ UNCHANGED <<unread, gotBad>>
    BY DEF Read, Goto
  <1>5. Local(p) /\ (p \in disturbed \/ Undisturbed(p))
    BY DEF IInv
  <1>6. d \in Digests
    BY DEF IInv, CommandsOK
  <1>7. Present' = Present /\ Names' = Names
    BY <1>1, SameDisk
  <1>8. CASE d \in Present
    <2>1. ~(object[d] = "bad" /\ d \notin damaged)
      BY <1>6 DEF IInv, DiskOK
    <2>2. gotBad' = gotBad /\ unread' = [unread EXCEPT ![p] = @ \ {d}] /\ UNCHANGED <<pc, recorded>>
      BY <1>4, <1>8, <2>1
    <2>3. unread'[p] = unread[p] \ {d} /\ \A q \in Commands \ {p} : unread'[q] = unread[q]
      BY <2>2 DEF IInv, CommandsOK
    <2>4. Quiet
      BY <1>1, <2>2 DEF Quiet
    <2>5. OthersSame(p)
      BY <1>1, <2>2, <2>3 DEF OthersSame
    <2>6. CommandsOK'
      BY <1>1, <2>2 DEF IInv, CommandsOK
    <2>7. Local(p)'
      BY <1>1, <1>5, <2>2, <2>3 DEF Local
    <2>8. p \in disturbed \/ Undisturbed(p)'
      BY <1>1, <1>5, <1>7, <2>2 DEF Undisturbed
    <2>q. QED BY <2>4, <2>5, <2>6, <2>7, <2>8, QuietStep
  <1>9. CASE d \notin Present
    <2>1. /\ pc' = [pc EXCEPT ![p] = "failed"] /\ recorded' = recorded \ {p}
          /\ UNCHANGED <<unread, gotBad>>
      BY <1>4, <1>9
    <2>2. pc'[p] = "failed" /\ \A q \in Commands \ {p} : pc'[q] = pc[q]
      BY <2>1 DEF IInv, CommandsOK
    <2>3. "failed" \in Places
      BY DEF Places, Ended
    <2>4. Quiet
      BY <1>1, <2>1 DEF Quiet
    <2>5. OthersSame(p)
      BY <1>1, <2>1, <2>2 DEF OthersSame
    <2>6. CommandsOK'
      BY <1>1, <2>1, <2>3 DEF IInv, CommandsOK
    <2>7. Local(p)'
      BY <1>1, <1>3, <1>5, <2>1, <2>2 DEF Local, TidyPlaces
    <2>8. p \in disturbed
      BY <1>1, <1>5, <1>9 DEF Local, Undisturbed
    <2>q. QED BY <2>4, <2>5, <2>6, <2>7, <2>8, QuietStep
  <1>q. QED BY <1>8, <1>9

LEMMA CommitKeeps ==
  ASSUME IInv, NEW p \in Commands, Commit(p)
  PROVE  IInv'
  <1>1. /\ pc[p] = "read" /\ recorded' = recorded \ {p}
        /\ UNCHANGED <<object, age, directory, sibling, target, candidate, unread, listed,
                       damaged, disturbed, gotBad, serves, need, faults>>
    BY DEF Commit, disk, scan, ghost, world
  <1>2. PICK to \in {"retain-prune", "purge"} : pc' = [pc EXCEPT ![p] = to]
    BY DEF Commit, Goto
  <1>3. PICK kept \in SUBSET used[p] : used' = [used EXCEPT ![p] = kept]
    <2>1. CASE p \in Retaining
      BY <2>1 DEF Commit
    <2>2. CASE p \notin Retaining
      <3>1. used' = [used EXCEPT ![p] = used[p]]
        BY <2>2 DEF Commit, IInv, CommandsOK
      <3>q. QED BY <3>1
    <2>q. QED BY <2>1, <2>2
  <1>4. "read" \notin WalkingPlaces \cup TidyPlaces /\ to \in Places /\ to \notin TidyPlaces
    BY DEF WalkingPlaces, TidyPlaces, Places
  <1>5. sibling[p] = None /\ listed[p] = {}
    BY <1>1, <1>4, AtRest
  <1>6. /\ pc'[p] = to /\ used'[p] = kept
        /\ \A q \in Commands \ {p} : pc'[q] = pc[q] /\ used'[q] = used[q]
    BY <1>2, <1>3 DEF IInv, CommandsOK
  <1>7. Quiet
    BY <1>1 DEF Quiet
  <1>8. OthersSame(p)
    BY <1>1, <1>6 DEF OthersSame
  <1>9. CommandsOK'
    <2>1. used' \in [Commands -> SUBSET Digests]
      BY <1>3 DEF IInv, CommandsOK
    <2>2. pc' \in [Commands -> Places]
      BY <1>2, <1>4 DEF IInv, CommandsOK
    <2>q. QED BY <1>1, <2>1, <2>2 DEF IInv, CommandsOK
  <1>10. Local(p) /\ (p \in disturbed \/ Undisturbed(p))
    BY DEF IInv
  <1>11. Local(p)'
    BY <1>1, <1>4, <1>5, <1>6, <1>10 DEF Local
  <1>12. Present' = Present /\ Names' = Names
    BY <1>1, SameDisk
  <1>13. p \in disturbed \/ Undisturbed(p)'
    BY <1>1, <1>5, <1>6, <1>10, <1>12 DEF Undisturbed
  <1>q. QED BY <1>7, <1>8, <1>9, <1>11, <1>13, QuietStep

-----------------------------------------------------------------------------
(* Damage, and the theorems.                                                   *)

LEMMA DamageKeeps ==
  ASSUME IInv, NEW d \in Digests, Damage(d)
  PROVE  IInv'
  <1>1. /\ d \in Present /\ object' = [object EXCEPT ![d] = "bad"] /\ damaged' = damaged \cup {d}
        /\ faults < MaxFaults /\ faults' = faults + 1
        /\ UNCHANGED <<age, directory, sibling, pc, target, candidate, used, unread, recorded,
                       listed, disturbed, gotBad, serves, need>>
    BY DEF Damage, local, scan
  <1>2. \A e \in Digests : object'[e] = IF e = d THEN "bad" ELSE object[e]
    BY <1>1 DEF IInv, DiskOK
  <1>3. Present' = Present
    BY <1>1, <1>2 DEF Present
  <1>4. Names' = Names
    BY <1>1, <1>3 DEF Names
  <1>5. DiskOK'
    <2>1. object' \in [Digests -> {"absent", "good", "bad"}]
      BY <1>1 DEF IInv, DiskOK
    <2>2. \A e \in Digests : object'[e] = "bad" => e \in damaged'
      BY <1>1, <1>2 DEF IInv, DiskOK
    <2>q. QED BY <1>1, <1>3, <2>1, <2>2 DEF IInv, DiskOK
  <1>6. CommandsOK'
    <2>1. faults' \in 0 .. MaxFaults
      BY <1>1, CacheAssumption DEF CacheAssumption, IInv, CommandsOK
    <2>q. QED BY <1>1, <2>1 DEF IInv, CommandsOK
  <1>7. ASSUME NEW p \in Commands PROVE Local(p)' /\ (p \in disturbed' \/ Undisturbed(p)')
    <2>1. Local(p) /\ (p \in disturbed \/ Undisturbed(p))
      BY DEF IInv
    <2>2. Local(p)'
      BY <1>1, <2>1 DEF Local
    <2>3. p \in disturbed' \/ Undisturbed(p)'
      BY <1>1, <1>3, <1>4, <2>1 DEF Undisturbed
    <2>q. QED BY <2>2, <2>3
  <1>q. QED BY <1>5, <1>6, <1>7 DEF IInv

LEMMA StepKeeps == IInv /\ [Next]_vars => IInv'
  <1> SUFFICES ASSUME IInv, [Next]_vars PROVE IInv'
    OBVIOUS
  <1>1. ASSUME NEW p \in Commands, Work(p) PROVE IInv'
    <2>1. CASE Prune(p, "open", "fetch", "failed")
      BY <2>1, StartPruneKeeps, EndWalkKeeps, PruneNextKeeps DEF Prune
    <2>2. CASE Prune(p, "fetch-prune", "fetch", "fetch")
      BY <2>2, StartPruneKeeps, EndWalkKeeps, PruneNextKeeps DEF Prune
    <2>3. CASE Prune(p, "retain-prune", "done", "failed")
      BY <2>3, StartPruneKeeps, EndWalkKeeps, PruneNextKeeps DEF Prune
    <2>4. CASE LookUp(p) \/ Verify(p) \/ Discard(p)
      BY <2>4, LookUpKeeps, VerifyKeeps, DiscardKeeps
    <2>5. CASE Download(p) \/ Install(p)
      BY <2>5, DownloadedKeeps, RefusedKeeps, InstallKeeps
    <2>6. CASE Record(p) \/ Read(p) \/ Commit(p) \/ Purge(p)
      BY <2>6, RecordKeeps, ReadKeeps, CommitKeeps, PurgeKeeps
    <2>q. QED BY <1>1, <2>1, <2>2, <2>3, <2>4, <2>5, <2>6 DEF Work
  <1>2. ASSUME NEW p \in Commands, Tidy(p) PROVE IInv'
    BY <1>2, ReadRecordsKeeps, ListCacheKeeps, WalkCacheKeeps, CleanNextKeeps DEF Tidy
  <1>3. ASSUME NEW d \in Digests, Damage(d) PROVE IInv'
    BY <1>3, DamageKeeps
  <1>4. ASSUME NEW p \in Commands, Kill(p) PROVE IInv'
    BY <1>4, KillKeeps
  <1>5. CASE UNCHANGED vars
    <2>1. UNCHANGED <<object, age, directory, sibling, target, candidate, used, unread, recorded,
                      listed, damaged, disturbed, gotBad, serves, need, faults, pc>>
      BY <1>5 DEF vars, disk, local, scan, ghost, world
    <2>2. Present' = Present /\ Names' = Names
      BY <2>1, SameDisk
    <2>3. DiskOK' /\ CommandsOK'
      BY <2>1, <2>2 DEF IInv, DiskOK, CommandsOK
    <2>4. ASSUME NEW p \in Commands PROVE Local(p)' /\ (p \in disturbed' \/ Undisturbed(p)')
      BY <2>1, <2>2 DEF IInv, Local, Undisturbed
    <2>q. QED BY <2>3, <2>4 DEF IInv
  <1>q. QED BY <1>1, <1>2, <1>3, <1>4, <1>5 DEF Next

LEMMA InitIInv == Init => IInv
  <1> SUFFICES ASSUME Init PROVE IInv
    OBVIOUS
  <1>1. /\ object \in [Digests -> {"absent", "good", "bad"}]
        /\ \A d \in Digests : object[d] # "bad"
    BY DEF Init
  <1>2. IsFiniteSet(Present) /\ Present \subseteq Digests
    BY CacheAssumption, FS_Subset DEF CacheAssumption, Present
  <1>3. Cardinality(Present) \in Nat
    BY <1>2, FS_CardinalityType
  <1>4. /\ age \in [1 .. Cardinality(Present) -> Present] /\ IsInjective(age)
        /\ \A d \in Present : \E i \in 1 .. Cardinality(Present) : age[i] = d
    BY DEF Init, Bijection, Injection, Surjection
  <1>5. age \in Seq(Digests)
    BY <1>2, <1>3, <1>4, SeqDef
  <1>6. ToSet(age) = Present
    BY <1>4 DEF ToSet
  <1>7. DiskOK
    BY <1>1, <1>2, <1>4, <1>5, <1>6 DEF DiskOK, Init
  <1>8. CommandsOK
    <2>1. pc \in [Commands -> Places]
      BY DEF Init, Places
    <2>2. /\ need \in [Commands -> SUBSET Digests] /\ unread \in [Commands -> SUBSET Digests]
          /\ serves \in [Digests -> SUBSET (1 .. Candidates)]
      BY CacheAssumption DEF Init, CacheAssumption
    <2>3. candidate \in [Commands -> 1 .. Candidates]
      BY CacheAssumption DEF Init, CacheAssumption
    <2>4. faults \in 0 .. MaxFaults
      BY CacheAssumption DEF Init, CacheAssumption
    <2>q. QED BY <2>1, <2>2, <2>3, <2>4 DEF CommandsOK, Init
  <1>9. ASSUME NEW p \in Commands PROVE Local(p) /\ Undisturbed(p)
    <2>1. pc[p] \in {"open", "records"} /\ used[p] = {} /\ listed[p] = {} /\ sibling[p] = None
            /\ unread[p] = need[p]
      BY DEF Init
    <2>q. QED BY <2>1 DEF Local, Undisturbed
  <1>q. QED BY <1>7, <1>8, <1>9 DEF IInv

\* Whatever commands share the cache, in whatever order they take their steps and
\* whichever of them are killed, each one finds what it relies on (cache.go,
\* inspect.go).
THEOREM CacheInvariant == Spec => []IInv
  BY InitIInv, StepKeeps, PTL DEF Spec

\* A consumer reads the true bytes of an object, and a command fails only because
\* nobody serves one of its objects or because another command took something
\* from it (FetchWithProgress, fetchCandidate, prune, PurgeUsed, Clean).
THEOREM CommandsShareTheCache == Spec => []CacheIsSound
  <1>1. IInv => TypeOK
    BY DEF IInv, DiskOK, CommandsOK, TypeOK
  <1>2. IInv => RightBytes
    BY DEF IInv, DiskOK, RightBytes
  <1>3. IInv => FailureHasCause
    BY DEF IInv, Undisturbed, FailureHasCause
  <1>4. IInv => CacheIsSound
    BY <1>1, <1>2, <1>3 DEF CacheIsSound
  <1>q. QED BY <1>4, CacheInvariant, PTL
=============================================================================
