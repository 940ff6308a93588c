---------------------- MODULE IndexContributionProofs ----------------------
(* Proofs about the contributions of `waldo index ingest`: whatever the tree *)
(* of directories, the destinations and the names, and however many commands *)
(* fail or are killed one after another.                                     *)
(*                                                                           *)
(* A command reads, decides, and then writes a file at a time; in between    *)
(* the checkout is neither what it was nor what the command makes of it.     *)
(* The invariant says how the two are mixed, and what one contribution       *)
(* replaces on the paths that other corpora are listed on.                   *)
EXTENDS IndexContribution, FiniteSetTheorems, WellFoundedInduction, TLAPS

-----------------------------------------------------------------------------
(* The tree of directories.                                                   *)

LEMMA AboveTyped ==
    ASSUME NEW d \in Dirs
    PROVE  /\ Above[d] \in SUBSET Dirs /\ d \in Above[d] /\ Root \in Above[d]
           /\ IsFiniteSet(Above[d])
<1>1. Above[d] \in SUBSET Dirs /\ d \in Above[d]
  BY DEF Above
<1>2. QED
  BY <1>1, DirsAssumption, FS_Subset

\* Whatever holds of d and is handed on to parents holds of the whole path.
LEMMA AboveLeast ==
    ASSUME NEW d \in Dirs, NEW S \in SUBSET Dirs, d \in S, Upward(S)
    PROVE  Above[d] \subseteq S
  BY DEF Above

LEMMA AboveUpward ==
    ASSUME NEW d \in Dirs
    PROVE  Upward(Above[d])
<1> SUFFICES ASSUME NEW x \in Above[d], x # Root
             PROVE  ParentOf[x] \in Above[d]
  BY DEF Upward
<1>1. x \in Dirs /\ ParentOf[x] \in Dirs
  BY AboveTyped, DirsAssumption
<1>2. ASSUME NEW S \in SUBSET Dirs, d \in S, Upward(S)
      PROVE  ParentOf[x] \in S
  <2>1. x \in S
    BY <1>2, AboveLeast
  <2>2. QED
    BY <2>1, <1>2 DEF Upward
<1>3. QED
  BY <1>1, <1>2 DEF Above

LEMMA AboveTransitive ==
    ASSUME NEW d \in Dirs, NEW e \in Above[d]
    PROVE  e \in Dirs /\ Above[e] \subseteq Above[d]
<1>1. e \in Dirs /\ Above[d] \in SUBSET Dirs
  BY AboveTyped
<1>2. QED
  BY <1>1, AboveUpward, AboveLeast

LEMMA AboveRoot == Above[Root] = {Root}
<1>1. Root \in Dirs /\ {Root} \in SUBSET Dirs /\ Upward({Root})
  BY DirsAssumption DEF Upward
<1>2. QED
  BY <1>1, AboveLeast, AboveTyped

\* A path is a directory and the path of its parent.
LEMMA AboveStep ==
    ASSUME NEW d \in Dirs \ {Root}
    PROVE  /\ ParentOf[d] \in Dirs
           /\ Above[d] = {d} \cup Above[ParentOf[d]]
<1>1. ParentOf[d] \in Dirs /\ d \in Dirs
  BY DirsAssumption
<1> DEFINE S == {d} \cup Above[ParentOf[d]]
<1>2. S \in SUBSET Dirs
  BY <1>1, AboveTyped
<1>3. Upward(S)
  BY <1>1, AboveTyped, AboveUpward DEF Upward
<1>4. Above[d] \subseteq S
  BY <1>1, <1>2, <1>3, AboveLeast
<1>5. d \in Above[d] /\ ParentOf[d] \in Above[d]
  BY <1>1, AboveTyped, AboveUpward DEF Upward
<1>6. S \subseteq Above[d]
  BY <1>1, <1>5, AboveTransitive
<1>7. QED
  BY <1>1, <1>4, <1>6

\* No directory is above its parent: every path would stay in the cycle and
\* miss the root.
LEMMA NoCycle ==
    ASSUME NEW d \in Dirs \ {Root}
    PROVE  d \notin Above[ParentOf[d]]
<1> DEFINE Cyclic == {e \in Dirs \ {Root} : e \in Above[ParentOf[e]]}
<1>1. Upward(Cyclic)
  <2> SUFFICES ASSUME NEW e \in Cyclic
               PROVE  ParentOf[e] \in Cyclic
    BY DEF Upward
  <2> DEFINE p == ParentOf[e]
  <2>1. e \in Dirs \ {Root} /\ e \in Above[p] /\ p \in Dirs
    BY DirsAssumption
  <2>2. p # Root
    BY <2>1, AboveRoot
  <2>3. CASE e = p
    BY <2>1, <2>3
  <2>4. CASE e # p
    <3>1. ParentOf[p] \in Dirs /\ Above[p] = {p} \cup Above[ParentOf[p]]
      BY <2>1, <2>2, AboveStep
    <3>2. e \in Above[ParentOf[p]]
      BY <2>1, <2>4, <3>1
    <3>3. p \in Above[e]
      BY <2>1, AboveStep, AboveTyped
    <3>4. p \in Above[ParentOf[p]]
      BY <3>1, <3>2, <3>3, AboveTransitive
    <3>5. QED
      BY <2>1, <2>2, <3>4
  <2>5. QED
    BY <2>3, <2>4
<1>2. Cyclic \in SUBSET Dirs /\ Root \notin Cyclic
  OBVIOUS
<1>3. ASSUME d \in Cyclic PROVE FALSE
  BY <1>1, <1>2, <1>3, AboveLeast, AboveTyped
<1>4. QED
  BY <1>3

LEMMA AboveAntisymmetric ==
    ASSUME NEW d \in Dirs, NEW e \in Dirs, d \in Above[e], e \in Above[d]
    PROVE  d = e
<1> SUFFICES ASSUME d # e PROVE FALSE
  OBVIOUS
<1>1. e # Root
  BY AboveRoot
<1>2. d \in Above[ParentOf[e]] /\ ParentOf[e] \in Dirs
  BY <1>1, AboveStep
<1>3. e \in Above[ParentOf[e]]
  BY <1>2, AboveTransitive
<1>4. QED
  BY <1>1, <1>3, NoCycle

\* Of two directories on a path one is above the other.
LEMMA AboveLinear ==
    ASSUME NEW d \in Dirs, NEW x \in Above[d], NEW y \in Above[d]
    PROVE  x \in Above[y] \/ y \in Above[x]
<1> DEFINE S == {e \in Above[d] : e \in Above[y] \/ y \in Above[e]}
<1>0. y \in Dirs /\ Above[d] \in SUBSET Dirs
  BY AboveTyped
<1>1. d \in S
  BY AboveTyped
<1>2. Upward(S)
  <2> SUFFICES ASSUME NEW e \in S, e # Root
               PROVE  ParentOf[e] \in S
    BY DEF Upward
  <2>1. e \in Dirs /\ ParentOf[e] \in Dirs /\ Above[e] = {e} \cup Above[ParentOf[e]]
    BY <1>0, AboveStep
  <2>2. ParentOf[e] \in Above[d]
    BY AboveUpward DEF Upward
  <2>3. ParentOf[e] \in Above[e]
    BY <2>1, AboveTyped
  <2>4. CASE e \in Above[y]
    BY <1>0, <2>2, <2>3, <2>4, AboveTransitive
  <2>5. CASE y \in Above[e] /\ e \notin Above[y]
    <3>1. y # e
      BY <1>0, <2>5, AboveTyped
    <3>2. QED
      BY <2>1, <2>2, <2>5, <3>1
  <2>6. QED
    BY <2>4, <2>5
<1>3. S \in SUBSET Dirs
  BY <1>0
<1>4. Above[d] \subseteq S
  BY <1>1, <1>2, <1>3, AboveLeast
<1>5. QED
  BY <1>4

\* Below every other directory of its path there is one more of the path.
LEMMA ChildExists ==
    ASSUME NEW c \in Dirs, NEW d \in Above[c], d # c
    PROVE  Child(d, c) \in Above[c] \ {Root} /\ ParentOf[Child(d, c)] = d
<1> DEFINE S == {x \in Above[c] : x = c \/ \E e \in Above[c] \ {Root} : ParentOf[e] = x}
<1>1. c \in S /\ S \in SUBSET Dirs
  BY AboveTyped
<1>2. Upward(S)
  BY AboveUpward DEF Upward
<1>3. Above[c] \subseteq S
  BY <1>1, <1>2, AboveLeast
<1>4. \E e \in Above[c] \ {Root} : ParentOf[e] = d
  BY <1>3
<1>5. QED
  BY <1>4 DEF Child

LEMMA ChildUnique ==
    ASSUME NEW c \in Dirs, NEW d \in Above[c], d # c,
           NEW e \in Above[c] \ {Root}, ParentOf[e] = d
    PROVE  e = Child(d, c)
<1> DEFINE x == Child(d, c)
<1>1. x \in Above[c] \ {Root} /\ ParentOf[x] = d
  BY ChildExists
<1> HIDE DEF x
<1>2. x \in Dirs /\ e \in Dirs
  BY <1>1, AboveTyped
<1>3. Above[x] = {x} \cup Above[d] /\ Above[e] = {e} \cup Above[d]
  BY <1>1, <1>2, AboveStep
<1>4. x \notin Above[d] /\ e \notin Above[d]
  BY <1>1, <1>2, NoCycle
<1>5. x \in Above[e] \/ e \in Above[x]
  BY <1>1, AboveLinear
<1>6. x = e
  BY <1>3, <1>4, <1>5
<1>7. QED
  BY <1>6 DEF x

\* Nothing is below a destination.
LEMMA LeavesAreApart ==
    ASSUME NEW c \in Destinations, NEW b \in Destinations, b # c
    PROVE  c \notin Above[b]
<1>1. c \in Dirs /\ b \in Dirs
  BY LeavesAssumption
<1>2. QED
  BY <1>1, ChildExists, AboveTyped, LeavesAssumption

\* The paths of two destinations that share a directory part below it.
LEMMA PathsPart ==
    ASSUME NEW c \in Destinations, NEW b \in Destinations, b # c,
           NEW a \in Above[c], a \in Above[b]
    PROVE  \E d \in Above[b] \cap Above[c] :
               a \in Above[d] /\ d # c /\ d # b /\ Child(d, b) # Child(d, c)
<1>0. b \in Dirs /\ c \in Dirs /\ a \in Dirs /\ Above[b] \in SUBSET Dirs
  BY LeavesAssumption, AboveTyped
<1>1. b \notin Above[c] /\ c \notin Above[b]
  BY LeavesAreApart
<1> SUFFICES ASSUME \A d \in Above[b] \cap Above[c] :
                        a \in Above[d] /\ d # c /\ d # b => Child(d, b) = Child(d, c)
             PROVE  FALSE
  OBVIOUS
<1> DEFINE S == {x \in Above[b] : ~(x \in Above[c] /\ a \in Above[x])}
<1>2. b \in S /\ S \in SUBSET Dirs
  BY <1>0, <1>1, AboveTyped
<1>3. Upward(S)
  <2> SUFFICES ASSUME NEW x \in S, x # Root, ParentOf[x] \notin S
               PROVE  FALSE
    BY DEF Upward
  <2> DEFINE p == ParentOf[x]
  <2>1. x \in Dirs /\ p \in Dirs /\ p \in Above[b] /\ p \in Above[c] /\ a \in Above[p]
    BY <1>0, AboveUpward, DirsAssumption DEF Upward
  <2>2. p # c /\ p # b
    BY <1>1, <2>1
  <2>3. x = Child(p, b)
    BY <1>0, <2>1, <2>2, ChildUnique
  <2>4. Child(p, c) \in Above[c]
    BY <1>0, <2>1, <2>2, ChildExists
  <2>5. x \in Above[c]
    BY <2>1, <2>2, <2>3, <2>4
  <2>6. a \in Above[x]
    BY <2>1, AboveStep
  <2>7. QED
    BY <2>5, <2>6
<1>4. a \in S
  BY <1>0, <1>2, <1>3, AboveLeast
<1>5. QED
  BY <1>0, <1>4, AboveTyped

-----------------------------------------------------------------------------
(* The invariant.                                                             *)

\* One command at a time: what follows is about the checkout as one command
\* finds it and changes it.
Alone == \A b, c \in Destinations : ~At(b, "idle") /\ ~At(c, "idle") => b = c

\* An index.json is only ever the empty one of the beginning.
JsonIsEmpty ==
    \A d \in Dirs :
        /\ tree[Json(d)] \in {{}, Absent}
        /\ \A c \in Destinations :
              overlay[c][Json(d)] = Absent /\ cmd[c].old[Json(d)] \in {{}, Absent}

FilesAreHoused == \A f \in Files : tree[f] # Absent => f.dir \in dirs

AppliedExist == applied \subseteq dirs

\* A command is not about a corpus that is there already.
NotApplied ==
    \A c \in Destinations :
        /\ cmd[c].pc \in {"checked", "staged"} => c \notin dirs
        /\ cmd[c].pc \in {"applying", "rollback", "failed"} => c \notin applied

\* The contribution O of c to the files T, below the directory a: it adds to a
\* the child towards c, and makes everything from there to c.
PlanOf(c, a, T, O, targets) ==
    /\ a \in Ancestors(c)
    /\ T[Nav(a)] = Absent \/ T[Json(a)] = Absent
    /\ Child(a, c) \notin T[Nav(a)]
    /\ O[Nav(a)] = (IF T[Nav(a)] = Absent THEN {} ELSE T[Nav(a)]) \cup {Child(a, c)}
    /\ \A d \in Above[c] \ {a} : a \in Above[d] =>
          T[Nav(d)] = Absent /\ T[Json(d)] = Absent /\ O[Nav(d)] = {Child(d, c)}
    /\ O[Manifest(c)] = {}
    /\ targets = {Nav(d) : d \in {d \in Above[c] : a \in Above[d]}} \cup {Manifest(c)}
                     \cup {f \in {Json(a)} : T[f] # Absent}

PlannedAt(c, a, T) == PlanOf(c, a, T, overlay[c], cmd[c].targets)

PlanStands(c) ==
    /\ At(c, "staged") => \E a \in Dirs : PlannedAt(c, a, tree)
    /\ cmd[c].pc \in {"applying", "rollback"} => \E a \in Dirs : PlannedAt(c, a, cmd[c].old)

\* While a command applies its files or takes them back, every target is what
\* it was or what it will be, and every other file is what it was.
MixOf(c, T) ==
    \A f \in Files : T[f] = cmd[c].old[f] \/ (f \in cmd[c].targets /\ T[f] = overlay[c][f])

Mixed(c) ==
    cmd[c].pc \in {"applying", "rollback"} =>
        cmd[c].left \subseteq cmd[c].targets /\ MixOf(c, tree)

Progressed(c) ==
    /\ At(c, "applying") => \A f \in cmd[c].targets \ cmd[c].left : tree[f] = overlay[c][f]
    /\ At(c, "rollback") /\ ~cmd[c].botched =>
          \A f \in cmd[c].targets \ cmd[c].left : tree[f] = cmd[c].old[f]
    /\ At(c, "failed") /\ ~cmd[c].botched => tree = cmd[c].old
    /\ At(c, "done") => Walkable /\ Loads(c) /\ tree[Manifest(c)] # Absent

IInv ==
    /\ TypeOK /\ Alone /\ JsonIsEmpty /\ FilesAreHoused /\ AppliedExist /\ NotApplied
    /\ \A c \in Destinations : PlanStands(c) /\ Mixed(c) /\ Progressed(c)

-----------------------------------------------------------------------------
(* Files, contents and commands.                                              *)

LEMMA FileKinds ==
    /\ \A d \in Dirs : Nav(d) \in Files /\ Json(d) \in Files /\ Manifest(d) \in Files
    /\ \A d, e : /\ Nav(d) = Nav(e) => d = e
                 /\ Json(d) = Json(e) => d = e
                 /\ Manifest(d) = Manifest(e) => d = e
                 /\ Nav(d) # Json(e) /\ Nav(d) # Manifest(e) /\ Json(d) # Manifest(e)
    /\ \A d : Nav(d).dir = d /\ Json(d).dir = d /\ Manifest(d).dir = d
    /\ \A f \in Files : f.dir \in Dirs /\ f \in {Nav(f.dir), Json(f.dir), Manifest(f.dir)}
  BY DEF Files, Documents, Nav, Json, Manifest

LEMMA Contents ==
    /\ Absent \in Content
    /\ \A S \in SUBSET Dirs : S \in Content /\ S # Absent
    /\ \A S \in Content : S # Absent => S \in SUBSET Dirs
  BY AbsentAssumption DEF Content, Absent

LEMMA DocumentsAre ==
    ASSUME NEW d
    PROVE  /\ "yaml" \in DocumentsOf(d) <=> tree[Nav(d)] # Absent
           /\ "json" \in DocumentsOf(d) <=> tree[Json(d)] # Absent
           /\ DocumentsOf(d) \in SUBSET {"yaml", "json"}
  BY DEF DocumentsOf, Documents, Nav, Json

\* A directory loads that has one navigation document.
LEMMA LoadsOne ==
    ASSUME NEW d
    PROVE  Loads(d) <=> \/ tree[Nav(d)] # Absent /\ tree[Json(d)] = Absent
                        \/ tree[Nav(d)] = Absent /\ tree[Json(d)] # Absent
<1>1. IsFiniteSet(DocumentsOf(d))
  <2>1. IsFiniteSet({"yaml"})
    BY FS_Singleton
  <2>2. IsFiniteSet({"yaml"} \cup {"json"})
    BY <2>1, FS_AddElement
  <2>3. DocumentsOf(d) \in SUBSET ({"yaml"} \cup {"json"})
    BY DocumentsAre
  <2>4. QED
    BY <2>2, <2>3, FS_Subset
<1>2. Loads(d) <=> \E doc : DocumentsOf(d) = {doc}
  BY <1>1, FS_Singleton DEF Loads
<1>3. (\E doc : DocumentsOf(d) = {doc}) <=>
        \/ "yaml" \in DocumentsOf(d) /\ "json" \notin DocumentsOf(d)
        \/ "yaml" \notin DocumentsOf(d) /\ "json" \in DocumentsOf(d)
  <2>1. DocumentsOf(d) \in SUBSET {"yaml", "json"}
    BY DocumentsAre
  <2> HIDE DEF DocumentsOf
  <2>2. QED
    BY <2>1
<1>4. QED
  BY <1>2, <1>3, DocumentsAre

LEMMA Commands ==
    ASSUME TypeOK, NEW c \in Destinations
    PROVE  /\ c \in Dirs /\ c # Root
           /\ cmd[c] \in Command
           /\ cmd[c].targets \in SUBSET Files /\ cmd[c].left \in SUBSET Files
           /\ cmd[c].old \in [Files -> Content] /\ cmd[c].botched \in BOOLEAN
           /\ overlay[c] \in [Files -> Content]
  BY LeavesAssumption DEF TypeOK, Command

LEMMA IdleCommand == Idle \in Command
  BY Contents DEF Idle, Command, NoFiles

LEMMA Putting ==
    ASSUME TypeOK, FilesAreHoused, NEW f \in Files, NEW content \in Content, Put(f, content)
    PROVE  /\ tree' \in [Files -> Content] /\ dirs' \in SUBSET Dirs
           /\ dirs \subseteq dirs'
           /\ tree'[f] = content
           /\ \A g \in Files : g # f => tree'[g] = tree[g]
           /\ FilesAreHoused'
<1>1. f.dir \in Dirs /\ Above[f.dir] \in SUBSET Dirs /\ f.dir \in Above[f.dir]
  BY FileKinds, AboveTyped
<1>2. tree' \in [Files -> Content] /\ tree'[f] = content
      /\ \A g \in Files : g # f => tree'[g] = tree[g]
  BY DEF Put, TypeOK
<1>3. dirs' \in SUBSET Dirs /\ dirs \subseteq dirs' /\ (content # Absent => f.dir \in dirs')
  BY <1>1 DEF Put, MadeFor, TypeOK
<1>4. FilesAreHoused'
  BY <1>2, <1>3 DEF FilesAreHoused
<1>5. QED
  BY <1>2, <1>3, <1>4

-----------------------------------------------------------------------------
(* What a command plans.                                                      *)

\* The anchor is the lowest directory above the destination that can be read;
\* nothing between it and the destination can.
LEMMA AnchorExists ==
    ASSUME NEW c \in Destinations, DocumentsOf(Root) # {}
    PROVE  /\ Anchor(c) \in Ancestors(c) /\ DocumentsOf(Anchor(c)) # {}
           /\ \A d \in Ancestors(c) \ {Anchor(c)} :
                 Anchor(c) \in Above[d] => DocumentsOf(d) = {}
<1> DEFINE Low(d) == /\ DocumentsOf(d) # {}
                     /\ \A e \in Ancestors(c) : DocumentsOf(e) # {} => e \in Above[d]
<1>0. c \in Dirs /\ c # Root /\ Above[c] \in SUBSET Dirs /\ Root \in Above[c]
  BY LeavesAssumption, AboveTyped
<1>1. \E d \in Ancestors(c) : Low(d)
  <2> SUFFICES ASSUME \A d \in Ancestors(c) : ~Low(d)
               PROVE  FALSE
    OBVIOUS
  <2> DEFINE S == {x \in Above[c] :
                     \A e \in Ancestors(c) : DocumentsOf(e) # {} => e \in Above[x]}
  <2>1. c \in S /\ S \in SUBSET Dirs
    BY <1>0, AboveTyped DEF Ancestors
  <2>2. Upward(S)
    <3> SUFFICES ASSUME NEW x \in S, x # Root
                 PROVE  ParentOf[x] \in S
      BY DEF Upward
    <3>1. x \in Dirs /\ ParentOf[x] \in Above[c] /\ Above[x] = {x} \cup Above[ParentOf[x]]
      BY <1>0, AboveUpward, AboveStep DEF Upward
    <3>2. x \notin Ancestors(c) \/ DocumentsOf(x) = {}
      OBVIOUS
    <3>3. ASSUME NEW e \in Ancestors(c), DocumentsOf(e) # {}
          PROVE  e \in Above[ParentOf[x]]
      BY <3>1, <3>2, <3>3
    <3>4. QED
      BY <3>1, <3>3
  <2>3. Root \in S
    BY <1>0, <2>1, <2>2, AboveLeast
  <2>4. Low(Root) /\ Root \in Ancestors(c)
    BY <1>0, <2>3 DEF Ancestors
  <2>5. QED
    BY <2>4
<1>2. Anchor(c) \in Ancestors(c) /\ Low(Anchor(c))
  BY <1>1 DEF Anchor
<1>3. ASSUME NEW d \in Ancestors(c) \ {Anchor(c)}, Anchor(c) \in Above[d]
      PROVE  DocumentsOf(d) = {}
  <2>1. d \in Dirs /\ Anchor(c) \in Dirs
    BY <1>0, <1>2 DEF Ancestors
  <2>2. d \notin Above[Anchor(c)]
    BY <1>3, <2>1, AboveAntisymmetric
  <2>3. QED
    BY <1>2, <2>2
<1>4. QED
  BY <1>2, <1>3

\* A contribution to the checkout as it is.
LEMMA Contributed ==
    ASSUME TypeOK, JsonIsEmpty, FilesAreHoused, NEW c \in Destinations, Stageable(c)
    PROVE  /\ Anchor(c) \in Dirs /\ c \notin dirs
           /\ PlanOf(c, Anchor(c), tree, Contribution(c), Targets(c))
           /\ Contribution(c) \in [Files -> Content]
           /\ Targets(c) \in SUBSET Files
           /\ \A d \in Dirs : Contribution(c)[Json(d)] = Absent
<1> DEFINE a == Anchor(c)
<1>0. c \in Dirs /\ Above[c] \in SUBSET Dirs /\ c \in Above[c] /\ c \notin dirs
  BY Commands, AboveTyped DEF Stageable, DestinationFree
<1>1. Loads(Root) /\ Loads(a) /\ Child(a, c) \notin Entries(a)
  BY DEF Stageable, DestinationFree
<1>2. /\ a \in Ancestors(c) /\ a \in Dirs
      /\ \A d \in Ancestors(c) \ {a} : a \in Above[d] => DocumentsOf(d) = {}
  <2>1. DocumentsOf(Root) # {}
    BY <1>1, LoadsOne, DocumentsAre
  <2>2. QED
    BY <1>0, <2>1, AnchorExists DEF Ancestors
<1>3. a # c /\ a \in Above[c] /\ a \in Above[a]
  BY <1>2, AboveTyped DEF Ancestors
<1>4. /\ \/ tree[Nav(a)] # Absent /\ tree[Json(a)] = Absent
         \/ tree[Nav(a)] = Absent /\ tree[Json(a)] = {}
      /\ Child(a, c) \in Dirs
  BY <1>0, <1>1, <1>2, <1>3, LoadsOne, ChildExists DEF JsonIsEmpty
<1>5. Entries(a) = (IF tree[Nav(a)] = Absent THEN {} ELSE tree[Nav(a)])
  <2>1. tree[Nav(a)] # Absent =>  DocumentsOf(a) = {"yaml"}
    BY <1>4, DocumentsAre
  <2>2. tree[Nav(a)] = Absent => DocumentsOf(a) = {"json"}
    BY <1>4, Contents, DocumentsAre
  <2>3. Entries(a) = UNION {tree[[dir |-> a, doc |-> doc]] : doc \in DocumentsOf(a)}
    BY DEF Entries
  <2> HIDE DEF a
  <2>4. {tree[[dir |-> a, doc |-> doc]] : doc \in {"yaml"}} = {tree[Nav(a)]}
    BY DEF Nav
  <2>5. {tree[[dir |-> a, doc |-> doc]] : doc \in {"json"}} = {tree[Json(a)]}
    BY DEF Json
  <2>6. CASE tree[Nav(a)] # Absent
    <3>1. Entries(a) = UNION {tree[Nav(a)]}
      BY <2>1, <2>3, <2>4, <2>6
    <3>2. QED
      BY <2>6, <3>1
  <2>7. CASE tree[Nav(a)] = Absent
    <3>1. Entries(a) = UNION {tree[Json(a)]}
      BY <2>2, <2>3, <2>5, <2>7
    <3>2. QED
      BY <1>4, <2>7, <3>1
  <2>8. QED
    BY <2>6, <2>7
<1>6. \A d \in Above[c] \ {a} :
         a \in Above[d] => tree[Nav(d)] = Absent /\ tree[Json(d)] = Absent
  <2> SUFFICES ASSUME NEW d \in Above[c] \ {a}, a \in Above[d]
               PROVE  tree[Nav(d)] = Absent /\ tree[Json(d)] = Absent
    OBVIOUS
  <2>1. CASE d = c
    BY <1>0, <2>1, FileKinds DEF FilesAreHoused
  <2>2. CASE d # c
    BY <1>2, <2>2, DocumentsAre DEF Ancestors
  <2>3. QED
    BY <2>1, <2>2
<1>7. Contribution(c) \in [Files -> Content]
  <2>1. \A d \in Touched(c) : d \in Dirs /\ Child(d, c) \in Dirs
    BY <1>0, ChildExists DEF Touched, Child
  <2>2. tree[Nav(a)] \in Content
    BY <1>2, FileKinds DEF TypeOK
  <2>3. \A d \in Touched(c) : NewEntries(d, c) \in SUBSET Dirs
    BY <1>5, <2>1, <2>2, Contents DEF NewEntries
  <2>4. \A f \in Files : Contribution(c)[f] \in Content
    BY <2>3, Contents DEF Contribution
  <2>5. QED
    BY <2>4 DEF Contribution
<1>8. \A d \in Above[c] : a \in Above[d] => Contribution(c)[Nav(d)] = NewEntries(d, c)
  BY <1>0, FileKinds DEF Contribution, Touched
<1>9. /\ Contribution(c)[Manifest(c)] = {}
      /\ \A f \in Files : Contribution(c)[f] # Absent =>
            f = Manifest(c) \/ (f = Nav(f.dir) /\ f.dir \in Above[c] /\ a \in Above[f.dir])
  BY <1>0, FileKinds DEF Contribution, Touched
<1>10. Child(a, c) \notin tree[Nav(a)]
  BY <1>1, <1>4, <1>5, AbsentAssumption DEF Absent
<1>11. Targets(c) = {Nav(d) : d \in {d \in Above[c] : a \in Above[d]}} \cup {Manifest(c)}
                        \cup {f \in {Json(a)} : tree[f] # Absent}
  <2>1. ASSUME NEW d \in Above[c], a \in Above[d]
        PROVE  Contribution(c)[Nav(d)] # Absent
    <3>1. Child(d, c) \in NewEntries(d, c) /\ Child(d, c) \in Dirs
      BY <1>0, ChildExists DEF NewEntries, Child
    <3>2. QED
      BY <1>8, <2>1, <3>1, AbsentAssumption DEF Absent
  <2>2. {f \in Files : Contribution(c)[f] # Absent}
           = {Nav(d) : d \in {d \in Above[c] : a \in Above[d]}} \cup {Manifest(c)}
    BY <1>0, <1>9, <2>1, FileKinds, Contents
  <2>3. QED
    BY <2>2 DEF Targets, Superseded
<1>12. Contribution(c)[Nav(a)]
          = (IF tree[Nav(a)] = Absent THEN {} ELSE tree[Nav(a)]) \cup {Child(a, c)}
  BY <1>3, <1>5, <1>8 DEF NewEntries
<1>13. \A d \in Above[c] \ {a} : a \in Above[d] => Contribution(c)[Nav(d)] = {Child(d, c)}
  BY <1>8 DEF NewEntries
<1>14. Targets(c) \in SUBSET Files
  BY <1>2, FileKinds DEF Targets, Superseded
<1>15. \A d \in Dirs : Contribution(c)[Json(d)] = Absent
  BY FileKinds DEF Contribution
<1> HIDE DEF a
<1>16. PlanOf(c, a, tree, Contribution(c), Targets(c))
  BY <1>2, <1>4, <1>6, <1>9, <1>10, <1>11, <1>12, <1>13 DEF PlanOf
<1>17. QED
  BY <1>0, <1>2, <1>7, <1>14, <1>15, <1>16 DEF a

-----------------------------------------------------------------------------
(* The order in which files are written.                                      *)

Less == {p \in Nat \X Nat : p[1] < p[2]}

\* A number is least among those of a set of files.
LEMMA LeastExists ==
    ASSUME NEW S, S # {}, NEW rank \in [S -> Nat]
    PROVE  \E f \in S : \A g \in S : rank[f] <= rank[g]
<1> DEFINE N == {rank[f] : f \in S}
<1>1. N # {} /\ N \in SUBSET Nat
  OBVIOUS
<1>2. IsWellFoundedOn(Less, Nat)
  BY NatLessThanWellFounded DEF Less, OpToRel
<1> HIDE DEF N
<1>3. PICK n \in N : \A m \in N : ~(<<m, n>> \in Less)
  BY <1>1, <1>2, WFMin
<1>4. \A m \in N : n <= m
  <2>1. \A m \in N : ~(m < n)
    BY <1>1, <1>3 DEF Less
  <2>2. QED
    BY <1>1, <1>3, <2>1
<1> USE DEF N
<1>5. PICK f \in S : n = rank[f]
  BY <1>3
<1>6. \A g \in S : rank[f] <= rank[g]
  BY <1>4, <1>5
<1>7. QED
  BY <1>6

\* The targets of a plan are files on the path of its destination.
LEMMA TargetsHoused ==
    ASSUME TypeOK, NEW c \in Destinations, NEW a, NEW T, PlannedAt(c, a, T)
    PROVE  \A f \in cmd[c].targets :
              /\ f \in Files /\ f.dir \in Above[c]
              /\ f \in {Nav(f.dir), Manifest(c), Json(a)}
<1>1. c \in Dirs /\ Above[c] \in SUBSET Dirs /\ c \in Above[c] /\ a \in Above[c]
  BY Commands, AboveTyped DEF PlannedAt, PlanOf, Ancestors
<1>2. cmd[c].targets = {Nav(d) : d \in {d \in Above[c] : a \in Above[d]}} \cup {Manifest(c)}
                          \cup {f \in {Json(a)} : T[f] # Absent}
  BY DEF PlannedAt, PlanOf
<1>3. \A d \in Dirs : Nav(d).dir = d /\ Json(d).dir = d /\ Manifest(d).dir = d
  BY FileKinds
<1>4. \A d \in Dirs : Nav(d) \in Files /\ Json(d) \in Files /\ Manifest(d) \in Files
  BY FileKinds
<1> SUFFICES ASSUME NEW f \in cmd[c].targets
             PROVE  f \in Files /\ f.dir \in Above[c] /\ f \in {Nav(f.dir), Manifest(c), Json(a)}
  OBVIOUS
<1>5. CASE f \in {Nav(d) : d \in {d \in Above[c] : a \in Above[d]}}
  <2>1. PICK d \in Above[c] : f = Nav(d)
    BY <1>5
  <2>2. QED
    BY <1>1, <1>3, <1>4, <2>1
<1>6. CASE f = Manifest(c) \/ f = Json(a)
  BY <1>1, <1>3, <1>4, <1>6
<1>7. QED
  BY <1>2, <1>5, <1>6

\* The next file exists while one is left.
LEMMA TargetChosen ==
    ASSUME TypeOK, NEW c \in Destinations, NEW a, NEW T, PlannedAt(c, a, T),
           cmd[c].left \subseteq cmd[c].targets, Pending(c)
    PROVE  Target(c) \in cmd[c].left
<1>1. c \in Dirs /\ IsFiniteSet(Above[c]) /\ Depth(c) \in Nat
  BY Commands, AboveTyped, FS_CardinalityType DEF Depth
<1>2. ASSUME NEW d \in Above[c]
      PROVE  Depth(d) \in Nat /\ Depth(d) <= Depth(c)
  <2>1. Above[d] \subseteq Above[c]
    BY <1>1, AboveTransitive
  <2>2. QED
    BY <1>1, <2>1, FS_Subset, FS_CardinalityType DEF Depth
<1>3. \A f \in cmd[c].left : Rank(c, f) \in Nat
  <2> SUFFICES ASSUME NEW f \in cmd[c].left
               PROVE  Rank(c, f) \in Nat
    OBVIOUS
  <2>1. f \in Files /\ f.dir \in Above[c]
    BY TargetsHoused
  <2>2. f.doc \in {"yaml", "json", "manifest"}
    BY <2>1 DEF Files, Documents
  <2>3. Depth(f.dir) \in Nat /\ Depth(f.dir) <= Depth(c)
    BY <1>2, <2>1
  <2> HIDE DEF Depth
  <2>4. CASE f.doc = "manifest"
    BY <1>1, <2>4 DEF Rank
  <2>5. CASE f.doc = "json"
    BY <1>1, <2>5 DEF Rank
  <2>6. CASE f.doc = "yaml"
    BY <1>1, <2>3, <2>6 DEF Rank
  <2>7. QED
    BY <2>2, <2>4, <2>5, <2>6
<1> DEFINE rank == [f \in cmd[c].left |-> Rank(c, f)]
<1>4. \E f \in cmd[c].left : \A g \in cmd[c].left : rank[f] <= rank[g]
  <2>1. rank \in [cmd[c].left -> Nat]
    BY <1>3
  <2> HIDE DEF rank
  <2>2. QED
    BY <2>1, LeastExists DEF Pending
<1>5. \E f \in cmd[c].left : \A g \in cmd[c].left : Rank(c, f) <= Rank(c, g)
  BY <1>4
<1>6. QED
  BY <1>5 DEF Target

-----------------------------------------------------------------------------
(* What one contribution replaces on the path of another.                     *)

ListedIn(c, T) ==
    /\ T[Manifest(c)] # Absent
    /\ \A d \in Above[c] :
        /\ T[Nav(d)] # Absent \/ T[Json(d)] # Absent
        /\ T[Nav(d)] # Absent => Child(d, c) \in T[Nav(d)]
        /\ T[Json(d)] # Absent => Child(d, c) \in T[Json(d)]

LEMMA ListedFiles ==
    ASSUME NEW c
    PROVE  (Listed(c) <=> ListedIn(c, tree)) /\ (Listed(c)' <=> ListedIn(c, tree'))
<1>1. \A d : /\ DocumentsOf(d) # {} <=> tree[Nav(d)] # Absent \/ tree[Json(d)] # Absent
             /\ (\A doc \in DocumentsOf(d) : Child(d, c) \in tree[[dir |-> d, doc |-> doc]])
                  <=> /\ tree[Nav(d)] # Absent => Child(d, c) \in tree[Nav(d)]
                      /\ tree[Json(d)] # Absent => Child(d, c) \in tree[Json(d)]
  BY DEF DocumentsOf, Documents, Nav, Json
<1>2. \A d : /\ DocumentsOf(d)' # {} <=> tree'[Nav(d)] # Absent \/ tree'[Json(d)] # Absent
             /\ (\A doc \in DocumentsOf(d)' : Child(d, c) \in tree'[[dir |-> d, doc |-> doc]])
                  <=> /\ tree'[Nav(d)] # Absent => Child(d, c) \in tree'[Nav(d)]
                      /\ tree'[Json(d)] # Absent => Child(d, c) \in tree'[Json(d)]
  BY DEF DocumentsOf, Documents, Nav, Json
<1>3. Listed(c) <=> ListedIn(c, tree)
  BY <1>1 DEF Listed, ListedIn
<1>4. Listed(c)' <=> ListedIn(c, tree')
  BY <1>2 DEF Listed, ListedIn
<1>5. QED
  BY <1>3, <1>4

\* Which files of a directory a plan is about.
LEMMA TargetFiles ==
    ASSUME TypeOK, NEW c \in Destinations, NEW a, NEW T, PlannedAt(c, a, T), NEW d \in Dirs
    PROVE  /\ Nav(d) \in cmd[c].targets <=> d \in Above[c] /\ a \in Above[d]
           /\ Json(d) \in cmd[c].targets <=> d = a /\ T[Json(a)] # Absent
           /\ Manifest(d) \in cmd[c].targets <=> d = c
<1>1. cmd[c].targets = {Nav(e) : e \in {e \in Above[c] : a \in Above[e]}} \cup {Manifest(c)}
                          \cup {f \in {Json(a)} : T[f] # Absent}
  BY DEF PlannedAt, PlanOf
<1>2. QED
  BY <1>1, FileKinds

\* Another corpus that is listed leaves the path of c at the anchor of c or
\* above it: the files that would have to list it below are new.
LEMMA PathsPartAbove ==
    ASSUME TypeOK, JsonIsEmpty, NEW c \in Destinations, NEW b \in Destinations, b # c,
           NEW a \in Dirs, PlannedAt(c, a, cmd[c].old), NEW T, MixOf(c, T), ListedIn(b, T),
           NEW d \in Above[b], d \in Above[c], a \in Above[d]
    PROVE  d = a /\ a # b /\ Child(a, b) # Child(a, c)
<1>0. c \in Dirs /\ b \in Dirs /\ d \in Dirs
  BY Commands, AboveTyped
<1>1. PICK e \in Above[b] \cap Above[c] :
          d \in Above[e] /\ e # c /\ e # b /\ Child(e, b) # Child(e, c)
  BY PathsPart
<1>2. e \in Dirs /\ a \in Above[e]
  BY <1>0, <1>1, AboveTyped, AboveTransitive
<1>3. ASSUME e # a PROVE FALSE
  <2>1. /\ cmd[c].old[Nav(e)] = Absent /\ cmd[c].old[Json(e)] = Absent
        /\ overlay[c][Nav(e)] = {Child(e, c)}
    BY <1>1, <1>2, <1>3 DEF PlannedAt, PlanOf
  <2>2. Json(e) \notin cmd[c].targets
    BY <1>2, <1>3, TargetFiles
  <2>3. T[Json(e)] = Absent /\ T[Nav(e)] \in {Absent, {Child(e, c)}}
    BY <1>2, <2>1, <2>2, FileKinds DEF MixOf
  <2>4. Child(e, b) \in T[Nav(e)] /\ T[Nav(e)] # Absent
    BY <1>1, <2>3 DEF ListedIn
  <2>5. QED
    BY <1>1, <2>3, <2>4
<1>4. d = a
  BY <1>0, <1>1, <1>3, AboveAntisymmetric
<1>5. QED
  BY <1>1, <1>3, <1>4

\* Whatever part of a contribution is in place, what is listed stays listed.
LEMMA ListedKept ==
    ASSUME TypeOK, JsonIsEmpty, NEW c \in Destinations, NEW b \in Destinations, b # c,
           NEW a \in Dirs, PlannedAt(c, a, cmd[c].old),
           NEW T, NEW U, MixOf(c, T), MixOf(c, U), ListedIn(b, T)
    PROVE  ListedIn(b, U)
<1> DEFINE Was == cmd[c].old
<1>0. c \in Dirs /\ b \in Dirs /\ Above[b] \in SUBSET Dirs
  BY Commands, AboveTyped
<1>1. U[Manifest(b)] # Absent
  <2>1. Manifest(b) \in Files /\ Manifest(b) \notin cmd[c].targets
    BY <1>0, TargetFiles, FileKinds
  <2>2. QED
    BY <2>1 DEF MixOf, ListedIn
<1> SUFFICES ASSUME NEW d \in Above[b]
             PROVE  /\ U[Nav(d)] # Absent \/ U[Json(d)] # Absent
                    /\ U[Nav(d)] # Absent => Child(d, b) \in U[Nav(d)]
                    /\ U[Json(d)] # Absent => Child(d, b) \in U[Json(d)]
  BY <1>1 DEF ListedIn
<1>2. d \in Dirs /\ Nav(d) \in Files /\ Json(d) \in Files
  BY <1>0, FileKinds
<1>3. /\ T[Nav(d)] # Absent \/ T[Json(d)] # Absent
      /\ T[Nav(d)] # Absent => Child(d, b) \in T[Nav(d)]
      /\ T[Json(d)] # Absent => Child(d, b) \in T[Json(d)]
  BY DEF ListedIn
<1>4. CASE ~(d \in Above[c] /\ a \in Above[d])
  <2>1. d # a
    BY <1>2, <1>4, AboveTyped DEF PlannedAt, PlanOf, Ancestors
  <2>2. Nav(d) \notin cmd[c].targets /\ Json(d) \notin cmd[c].targets
    BY <1>2, <1>4, <2>1, TargetFiles
  <2>3. U[Nav(d)] = T[Nav(d)] /\ U[Json(d)] = T[Json(d)]
    BY <1>2, <2>2 DEF MixOf
  <2>4. QED
    BY <1>3, <2>3
<1>5. CASE d \in Above[c] /\ a \in Above[d]
  <2>1. d = a /\ a # b /\ Child(a, b) # Child(a, c)
    BY <1>5, PathsPartAbove
  <2> DEFINE x == Child(a, b)
  <2>2. x \in Dirs /\ x \notin Absent
    BY <1>0, <2>1, ChildExists, AbsentAssumption DEF Absent
  <2>3. Was[Json(a)] \in {{}, Absent} /\ overlay[c][Json(a)] = Absent
    BY DEF JsonIsEmpty
  <2>4. T[Json(a)] = Absent
    BY <1>2, <1>3, <2>1, <2>3 DEF MixOf
  <2>5. overlay[c][Nav(a)]
           = (IF Was[Nav(a)] = Absent THEN {} ELSE Was[Nav(a)]) \cup {Child(a, c)}
    BY DEF PlannedAt, PlanOf
  <2>6. T[Nav(a)] # Absent /\ x \in T[Nav(a)]
    BY <1>3, <2>1, <2>4
  <2>7. T[Nav(a)] = Was[Nav(a)] \/ T[Nav(a)] = overlay[c][Nav(a)]
    BY <1>2, <2>1 DEF MixOf
  <2> HIDE DEF x
  <2>8. Was[Nav(a)] # Absent /\ x \in Was[Nav(a)] /\ x \in overlay[c][Nav(a)]
    BY <2>1, <2>5, <2>6, <2>7 DEF x
  <2>9. Was[Json(a)] = Absent
    BY <2>8 DEF PlannedAt, PlanOf
  <2>10. U[Json(a)] = Absent /\ U[Nav(a)] \in {Was[Nav(a)], overlay[c][Nav(a)]}
    BY <1>2, <2>1, <2>3, <2>9 DEF MixOf
  <2>11. U[Nav(a)] # Absent /\ x \in U[Nav(a)]
    BY <2>2, <2>8, <2>10
  <2>12. QED
    BY <2>1, <2>10, <2>11 DEF x
<1>6. QED
  BY <1>4, <1>5

-----------------------------------------------------------------------------
(* Steps of a command.                                                        *)

\* The command of c has now these parts; no other has changed.
Now(c, pc, targets, left, old, botched) ==
    /\ cmd' \in [Destinations -> Command]
    /\ \A b \in Destinations : b # c => cmd'[b] = cmd[b]
    /\ cmd'[c].pc = pc /\ cmd'[c].targets = targets /\ cmd'[c].left = left
    /\ cmd'[c].old = old /\ cmd'[c].botched = botched

LEMMA NowIs ==
    ASSUME TypeOK, NEW c \in Destinations, NEW r \in Command,
           cmd' = [cmd EXCEPT ![c] = r]
    PROVE  Now(c, r.pc, r.targets, r.left, r.old, r.botched)
  BY DEF TypeOK, Now

LEMMA NowIdle ==
    ASSUME TypeOK, NEW c \in Destinations, cmd' = [cmd EXCEPT ![c] = Idle]
    PROVE  Now(c, "idle", {}, {}, NoFiles, FALSE)
  BY IdleCommand, NowIs DEF Idle

LEMMA NowAt ==
    ASSUME TypeOK, NEW c \in Destinations,
           NEW pc \in {"idle", "checked", "staged", "applying", "rollback", "done", "failed"},
           Goto(c, pc)
    PROVE  Now(c, pc, cmd[c].targets, cmd[c].left, cmd[c].old, cmd[c].botched)
<1> DEFINE r == [cmd[c] EXCEPT !.pc = pc]
<1>1. cmd[c] \in Command
  BY Commands
<1>2. r \in Command /\ r.pc = pc /\ r.targets = cmd[c].targets /\ r.left = cmd[c].left
      /\ r.old = cmd[c].old /\ r.botched = cmd[c].botched
  BY <1>1 DEF Command
<1>3. cmd' = [cmd EXCEPT ![c] = r]
  BY DEF Goto
<1> HIDE DEF r
<1>4. Now(c, r.pc, r.targets, r.left, r.old, r.botched)
  BY <1>2, <1>3, NowIs
<1>5. QED
  BY <1>2, <1>4

LEMMA NowStaged ==
    ASSUME TypeOK, NEW c \in Destinations, NEW targets \in SUBSET Files,
           cmd' = [cmd EXCEPT ![c].pc = "staged", ![c].targets = targets]
    PROVE  Now(c, "staged", targets, cmd[c].left, cmd[c].old, cmd[c].botched)
<1> DEFINE r == [cmd[c] EXCEPT !.pc = "staged", !.targets = targets]
<1>1. cmd[c] \in Command
  BY Commands
<1>2. r \in Command /\ r.pc = "staged" /\ r.targets = targets /\ r.left = cmd[c].left
      /\ r.old = cmd[c].old /\ r.botched = cmd[c].botched
  BY <1>1 DEF Command
<1>3. cmd' = [cmd EXCEPT ![c] = r]
  BY DEF TypeOK
<1> HIDE DEF r
<1>4. Now(c, r.pc, r.targets, r.left, r.old, r.botched)
  BY <1>2, <1>3, NowIs
<1>5. QED
  BY <1>2, <1>4

LEMMA NowApplying ==
    ASSUME TypeOK, NEW c \in Destinations, Snapshot(c)
    PROVE  Now(c, "applying", cmd[c].targets, cmd[c].targets, tree, cmd[c].botched)
<1> DEFINE r == [cmd[c] EXCEPT !.pc = "applying", !.left = cmd[c].targets, !.old = tree]
<1>1. cmd[c] \in Command /\ cmd[c].targets \in SUBSET Files /\ tree \in [Files -> Content]
  BY Commands DEF TypeOK
<1>2. r \in Command /\ r.pc = "applying" /\ r.targets = cmd[c].targets
      /\ r.left = cmd[c].targets /\ r.old = tree /\ r.botched = cmd[c].botched
  BY <1>1 DEF Command
<1>3. cmd' = [cmd EXCEPT ![c] = r]
  BY DEF TypeOK, Snapshot
<1> HIDE DEF r
<1>4. Now(c, r.pc, r.targets, r.left, r.old, r.botched)
  BY <1>2, <1>3, NowIs
<1>5. QED
  BY <1>2, <1>4

LEMMA NowRollback ==
    ASSUME TypeOK, NEW c \in Destinations, RollsBack(c)
    PROVE  Now(c, "rollback", cmd[c].targets, cmd[c].targets, cmd[c].old, cmd[c].botched)
<1> DEFINE r == [cmd[c] EXCEPT !.pc = "rollback", !.left = cmd[c].targets]
<1>1. cmd[c] \in Command /\ cmd[c].targets \in SUBSET Files
  BY Commands
<1>2. r \in Command /\ r.pc = "rollback" /\ r.targets = cmd[c].targets
      /\ r.left = cmd[c].targets /\ r.old = cmd[c].old /\ r.botched = cmd[c].botched
  BY <1>1 DEF Command
<1>3. cmd' = [cmd EXCEPT ![c] = r]
  BY DEF TypeOK, RollsBack
<1> HIDE DEF r
<1>4. Now(c, r.pc, r.targets, r.left, r.old, r.botched)
  BY <1>2, <1>3, NowIs
<1>5. QED
  BY <1>2, <1>4

LEMMA NowLeft ==
    ASSUME TypeOK, NEW c \in Destinations, NEW f,
           cmd' = [cmd EXCEPT ![c].left = @ \ {f}]
    PROVE  Now(c, cmd[c].pc, cmd[c].targets, cmd[c].left \ {f}, cmd[c].old, cmd[c].botched)
<1> DEFINE r == [cmd[c] EXCEPT !.left = @ \ {f}]
<1>1. cmd[c] \in Command /\ cmd[c].left \in SUBSET Files
  BY Commands
<1>2. r \in Command /\ r.pc = cmd[c].pc /\ r.targets = cmd[c].targets
      /\ r.left = cmd[c].left \ {f} /\ r.old = cmd[c].old /\ r.botched = cmd[c].botched
  BY <1>1 DEF Command
<1>3. cmd' = [cmd EXCEPT ![c] = r]
  BY DEF TypeOK
<1> HIDE DEF r
<1>4. Now(c, r.pc, r.targets, r.left, r.old, r.botched)
  BY <1>2, <1>3, NowIs
<1>5. QED
  BY <1>2, <1>4

LEMMA NowBotched ==
    ASSUME TypeOK, NEW c \in Destinations, NEW f,
           cmd' = [cmd EXCEPT ![c].left = @ \ {f}, ![c].botched = TRUE]
    PROVE  Now(c, cmd[c].pc, cmd[c].targets, cmd[c].left \ {f}, cmd[c].old, TRUE)
<1> DEFINE r == [cmd[c] EXCEPT !.left = @ \ {f}, !.botched = TRUE]
<1>1. cmd[c] \in Command /\ cmd[c].left \in SUBSET Files
  BY Commands
<1>2. r \in Command /\ r.pc = cmd[c].pc /\ r.targets = cmd[c].targets
      /\ r.left = cmd[c].left \ {f} /\ r.old = cmd[c].old /\ r.botched = TRUE
  BY <1>1 DEF Command
<1>3. cmd' = [cmd EXCEPT ![c] = r]
  BY DEF TypeOK
<1> HIDE DEF r
<1>4. Now(c, r.pc, r.targets, r.left, r.old, r.botched)
  BY <1>2, <1>3, NowIs
<1>5. QED
  BY <1>2, <1>4

\* What the invariant says of one command.
Own(c) ==
    /\ PlanStands(c) /\ Mixed(c) /\ Progressed(c)
    /\ cmd[c].pc \in {"checked", "staged"} => c \notin dirs
    /\ cmd[c].pc \in {"applying", "rollback", "failed"} => c \notin applied

\* The only command makes a step: nothing is to be said of the others.
LEMMA OneSteps ==
    ASSUME NEW c \in Destinations, \A b \in Destinations : b # c => cmd[b].pc = "idle",
           NEW pc, NEW targets, NEW left, NEW old, NEW botched,
           Now(c, pc, targets, left, old, botched),
           TypeOK', JsonIsEmpty', FilesAreHoused', AppliedExist', Own(c)'
    PROVE  IInv'
<1>1. \A b \in Destinations : b # c => cmd'[b].pc = "idle"
  BY DEF Now
<1>2. Alone'
  BY <1>1 DEF Alone, At
<1>3. ASSUME NEW b \in Destinations
      PROVE  Own(b)'
  BY <1>1 DEF Own, PlanStands, Mixed, Progressed, At
<1>4. NotApplied'
  BY <1>3 DEF NotApplied, Own
<1>5. \A b \in Destinations : (PlanStands(b) /\ Mixed(b) /\ Progressed(b))'
  BY <1>3 DEF Own
<1>6. QED
  BY <1>2, <1>4, <1>5 DEF IInv

LEMMA OthersIdle ==
    ASSUME IInv, NEW c \in Destinations, ~At(c, "idle")
    PROVE  \A b \in Destinations : b # c => cmd[b].pc = "idle"
  BY DEF IInv, Alone, At

LEMMA OwnHolds ==
    ASSUME IInv, NEW c \in Destinations
    PROVE  Own(c)
  BY DEF IInv, Own, NotApplied

-----------------------------------------------------------------------------
(* Files are written, or restored, one at a time.                             *)

\* What a write, a restoration, or either of them failing does to the files.
FileStep(c) ==
    \/ UNCHANGED <<dirs, tree>>
    \/ dirs' = MadeFor(Target(c)) /\ UNCHANGED tree
    \/ Put(Target(c), New(c))
    \/ Put(Target(c), Old(c))

LEMMA FileSteps ==
    ASSUME IInv, NEW c \in Destinations, cmd[c].pc \in {"applying", "rollback"}, Pending(c),
           FileStep(c)
    PROVE  /\ Target(c) \in cmd[c].left /\ Target(c) \in cmd[c].targets
           /\ tree' \in [Files -> Content] /\ dirs' \in SUBSET Dirs /\ dirs \subseteq dirs'
           /\ FilesAreHoused'
           /\ \A f \in Files : f # Target(c) => tree'[f] = tree[f]
           /\ Put(Target(c), New(c)) => tree'[Target(c)] = overlay[c][Target(c)]
           /\ Put(Target(c), Old(c)) => tree'[Target(c)] = cmd[c].old[Target(c)]
           /\ \A d \in Dirs : tree'[Json(d)] \in {{}, Absent}
           /\ MixOf(c, tree')
<1> DEFINE t == Target(c)
<1>0. /\ TypeOK /\ JsonIsEmpty /\ FilesAreHoused /\ cmd[c].left \subseteq cmd[c].targets
      /\ MixOf(c, tree)
  BY DEF IInv, Mixed
<1>1. PICK a \in Dirs : PlannedAt(c, a, cmd[c].old)
  BY DEF IInv, PlanStands
<1>2. t \in cmd[c].left /\ t \in cmd[c].targets /\ t \in Files
  BY <1>0, <1>1, TargetChosen, TargetsHoused
<1>3. New(c) = overlay[c][t] /\ Old(c) = cmd[c].old[t]
  BY DEF New, Old
<1>4. New(c) \in Content /\ Old(c) \in Content
  BY <1>0, <1>2, <1>3, Commands
<1> HIDE DEF t
<1> DEFINE P == /\ tree' \in [Files -> Content] /\ dirs' \in SUBSET Dirs /\ dirs \subseteq dirs'
                /\ FilesAreHoused'
                /\ \A f \in Files : f # t => tree'[f] = tree[f]
<1>5. ASSUME UNCHANGED <<dirs, tree>>
      PROVE  P /\ tree'[t] = tree[t]
  BY <1>0, <1>5 DEF TypeOK, FilesAreHoused
<1>6. ASSUME dirs' = MadeFor(t), UNCHANGED tree
      PROVE  P /\ tree'[t] = tree[t]
  <2>1. t.dir \in Dirs /\ Above[t.dir] \in SUBSET Dirs
    BY <1>2, FileKinds, AboveTyped
  <2>2. QED
    BY <1>0, <1>6, <2>1 DEF TypeOK, FilesAreHoused, MadeFor
<1>7. ASSUME Put(t, New(c))
      PROVE  P /\ tree'[t] = overlay[c][t]
  BY <1>0, <1>2, <1>3, <1>4, <1>7, Putting
<1>8. ASSUME Put(t, Old(c))
      PROVE  P /\ tree'[t] = cmd[c].old[t]
  BY <1>0, <1>2, <1>3, <1>4, <1>8, Putting
<1>9. P /\ tree'[t] \in {tree[t], overlay[c][t], cmd[c].old[t]}
  BY <1>5, <1>6, <1>7, <1>8 DEF FileStep, t
<1>10. MixOf(c, tree')
  BY <1>0, <1>2, <1>9 DEF MixOf
<1>11. ASSUME NEW d \in Dirs
       PROVE  tree'[Json(d)] \in {{}, Absent}
  <2>1. /\ tree[Json(d)] \in {{}, Absent} /\ overlay[c][Json(d)] = Absent
        /\ cmd[c].old[Json(d)] \in {{}, Absent}
    BY <1>0 DEF JsonIsEmpty
  <2>2. Json(d) \in Files
    BY FileKinds
  <2>3. QED
    BY <1>9, <2>1, <2>2
<1>12. QED
  BY <1>2, <1>7, <1>8, <1>9, <1>10, <1>11 DEF t

\* After such a step, the parts of the invariant that are about the checkout.
LEMMA CheckoutAfter ==
    ASSUME IInv, NEW c \in Destinations, cmd[c].pc \in {"applying", "rollback"}, Pending(c),
           FileStep(c), UNCHANGED <<late, overlay, applied>>, faults' \in 0..MaxFaults,
           NEW pc, NEW left, NEW botched,
           Now(c, pc, cmd[c].targets, left, cmd[c].old, botched)
    PROVE  TypeOK' /\ JsonIsEmpty' /\ FilesAreHoused' /\ AppliedExist'
<1>1. /\ tree' \in [Files -> Content] /\ dirs' \in SUBSET Dirs /\ dirs \subseteq dirs'
      /\ FilesAreHoused' /\ \A d \in Dirs : tree'[Json(d)] \in {{}, Absent}
  BY FileSteps
<1>2. TypeOK /\ JsonIsEmpty /\ AppliedExist
  BY DEF IInv
<1>3. TypeOK'
  BY <1>1, <1>2 DEF TypeOK, Now
<1>4. JsonIsEmpty'
  <2>1. \A b \in Destinations : cmd'[b].old = cmd[b].old
    BY DEF Now
  <2>2. QED
    BY <1>1, <1>2, <2>1 DEF JsonIsEmpty
<1>5. AppliedExist'
  BY <1>1, <1>2 DEF AppliedExist
<1>6. QED
  BY <1>1, <1>3, <1>4, <1>5

LEMMA PlanKept ==
    ASSUME NEW c \in Destinations, NEW a \in Dirs, PlannedAt(c, a, cmd[c].old),
           overlay'[c] = overlay[c], cmd'[c].targets = cmd[c].targets,
           cmd'[c].old = cmd[c].old
    PROVE  \E d \in Dirs : PlannedAt(c, d, cmd[c].old)'
<1>1. PlannedAt(c, a, cmd[c].old)'
  BY DEF PlannedAt, PlanOf, Ancestors
<1>2. QED
  BY <1>1

LEMMA PlanTaken ==
    ASSUME NEW c \in Destinations, NEW a \in Dirs, PlannedAt(c, a, tree),
           overlay'[c] = overlay[c], cmd'[c].targets = cmd[c].targets, cmd'[c].old = tree
    PROVE  \E d \in Dirs : PlannedAt(c, d, cmd[c].old)'
<1>1. PlannedAt(c, a, cmd[c].old)'
  BY DEF PlannedAt, PlanOf, Ancestors
<1>2. QED
  BY <1>1

-----------------------------------------------------------------------------
(* Every action preserves the invariant.                                      *)

\* The checkout and what is staged for it are left alone.
LEMMA CheckoutKept ==
    ASSUME IInv, NEW c \in Destinations, UNCHANGED <<late, durable>>,
           applied' \in SUBSET Destinations, applied' \subseteq dirs, faults' \in 0..MaxFaults,
           NEW pc, NEW targets, NEW left, NEW old, NEW botched,
           Now(c, pc, targets, left, old, botched),
           \A d \in Dirs : old[Json(d)] \in {{}, Absent}
    PROVE  TypeOK' /\ JsonIsEmpty' /\ FilesAreHoused' /\ AppliedExist'
<1>1. /\ late' = late /\ dirs' = dirs /\ tree' = tree /\ overlay' = overlay
      /\ TypeOK /\ JsonIsEmpty /\ FilesAreHoused
  BY DEF IInv, durable
<1>2. TypeOK'
  BY <1>1 DEF TypeOK, Now
<1>3. JsonIsEmpty'
  <2>1. \A b \in Destinations, d \in Dirs : cmd'[b].old[Json(d)] \in {{}, Absent}
    BY <1>1 DEF Now, JsonIsEmpty
  <2>2. QED
    BY <1>1, <2>1 DEF JsonIsEmpty
<1>4. FilesAreHoused' /\ AppliedExist'
  BY <1>1 DEF FilesAreHoused, AppliedExist
<1>5. QED
  BY <1>2, <1>3, <1>4

LEMMA NoFilesAreEmpty == \A d \in Dirs : NoFiles[Json(d)] \in {{}, Absent}
  BY FileKinds DEF NoFiles

LEMMA OldIsEmpty ==
    ASSUME IInv, NEW c \in Destinations
    PROVE  /\ \A d \in Dirs : cmd[c].old[Json(d)] \in {{}, Absent}
           /\ \A d \in Dirs : tree[Json(d)] \in {{}, Absent}
           /\ applied \in SUBSET Destinations /\ applied \subseteq dirs /\ faults \in 0..MaxFaults
  BY DEF IInv, JsonIsEmpty, AppliedExist, TypeOK

LEMMA FaultCounts ==
    ASSUME TypeOK, Fault
    PROVE  faults' \in 0..MaxFaults
  BY LimitsAssumption DEF TypeOK, Fault

\* A command that ends leaves nothing to say of it.
LEMMA OwnIdle ==
    ASSUME NEW c \in Destinations, cmd'[c].pc = "idle"
    PROVE  Own(c)'
  BY DEF Own, PlanStands, Mixed, Progressed, At

\* With one command at a time, none is running when one begins.
LEMMA NoneRuns ==
    ASSUME AtOnce = 1, Cardinality({d \in Destinations : ~At(d, "idle")}) < AtOnce
    PROVE  \A d \in Destinations : cmd[d].pc = "idle"
<1> DEFINE R == {d \in Destinations : ~At(d, "idle")}
<1>1. IsFiniteSet(R)
  <2>1. IsFiniteSet(Dirs) /\ R \in SUBSET Dirs
    BY DirsAssumption, LeavesAssumption
  <2>2. QED
    BY <2>1, FS_Subset
<1>2. Cardinality(R) = 0
  BY <1>1, FS_CardinalityType
<1>3. R = {}
  BY <1>1, <1>2, FS_EmptySet
<1>4. QED
  BY <1>3 DEF At

LEMMA CheckPreserves ==
    ASSUME AtOnce = 1, IInv, NEW c \in Destinations, Check(c)
    PROVE  IInv'
<1>1. TypeOK /\ \A d \in Destinations : cmd[d].pc = "idle"
  BY NoneRuns DEF Check, IInv
<1>2. Now(c, "checked", cmd[c].targets, cmd[c].left, cmd[c].old, cmd[c].botched)
  BY <1>1, NowAt DEF Check
<1>3. TypeOK' /\ JsonIsEmpty' /\ FilesAreHoused' /\ AppliedExist'
  BY <1>2, OldIsEmpty, CheckoutKept DEF Check
<1>4. Own(c)'
  BY <1>2 DEF Own, PlanStands, Mixed, Progressed, At, Now, Check, DestinationFree, durable
<1>5. QED
  BY <1>1, <1>2, <1>3, <1>4, OneSteps

LEMMA RefusePreserves ==
    ASSUME IInv, NEW c \in Destinations, Refuse(c) \/ Return(c)
    PROVE  IInv'
<1>1. TypeOK /\ ~At(c, "idle")
  BY DEF IInv, Refuse, Return, At
<1>2. Now(c, "idle", {}, {}, NoFiles, FALSE)
  BY <1>1, NowIdle DEF Refuse, Return
<1>3. TypeOK' /\ JsonIsEmpty' /\ FilesAreHoused' /\ AppliedExist'
  <2>1. UNCHANGED <<late, durable, applied, faults>>
    BY DEF Refuse, Return
  <2>2. QED
    BY <1>2, <2>1, OldIsEmpty, NoFilesAreEmpty, CheckoutKept
<1>4. Own(c)'
  BY <1>2, OwnIdle DEF Now
<1>5. QED
  BY <1>1, <1>2, <1>3, <1>4, OneSteps, OthersIdle

LEMMA KillPreserves ==
    ASSUME IInv, NEW c \in Destinations, Kill(c)
    PROVE  IInv'
<1>1. TypeOK /\ ~At(c, "idle")
  BY DEF IInv, Kill
<1>2. Now(c, "idle", {}, {}, NoFiles, FALSE)
  BY <1>1, NowIdle DEF Kill
<1>3. faults' \in 0..MaxFaults /\ late' = late /\ tree' = tree /\ overlay' = overlay
      /\ applied' = applied
  BY <1>1, FaultCounts DEF Kill
<1>4. dirs' \in SUBSET Dirs /\ dirs \subseteq dirs'
  <2>1. CASE UNCHANGED dirs
    BY <1>1, <2>1 DEF TypeOK
  <2>2. CASE /\ At(c, "applying")
             /\ Pending(c)
             /\ New(c) # Absent
             /\ dirs' = MadeFor(Target(c))
    <3>1. FileStep(c) /\ cmd[c].pc \in {"applying", "rollback"}
      BY <1>3, <2>2 DEF FileStep, At
    <3>2. QED
      BY <2>2, <3>1, FileSteps
  <2>3. QED
    BY <2>1, <2>2 DEF Kill
<1>5. TypeOK'
  BY <1>1, <1>2, <1>3, <1>4 DEF TypeOK, Now
<1>6. JsonIsEmpty'
  <2>1. \A b \in Destinations, d \in Dirs : cmd'[b].old[Json(d)] \in {{}, Absent}
    BY <1>2, NoFilesAreEmpty, OldIsEmpty DEF Now
  <2>2. QED
    BY <1>3, <2>1 DEF JsonIsEmpty, IInv
<1>7. FilesAreHoused' /\ AppliedExist'
  BY <1>3, <1>4 DEF FilesAreHoused, AppliedExist, IInv
<1>8. Own(c)'
  BY <1>2, OwnIdle DEF Now
<1>9. QED
  BY <1>1, <1>2, <1>5, <1>6, <1>7, <1>8, OneSteps, OthersIdle

LEMMA StagePreserves ==
    ASSUME IInv, NEW c \in Destinations, Stage(c)
    PROVE  IInv'
<1>1. /\ TypeOK /\ JsonIsEmpty /\ FilesAreHoused /\ ~At(c, "idle") /\ Stageable(c)
      /\ UNCHANGED <<late, dirs, tree, applied, faults>>
  BY DEF IInv, Stage, At
<1> DEFINE O == Contribution(c)
<1>2. /\ Anchor(c) \in Dirs /\ c \notin dirs
      /\ PlanOf(c, Anchor(c), tree, O, Targets(c))
      /\ O \in [Files -> Content]
      /\ Targets(c) \in SUBSET Files
      /\ \A d \in Dirs : O[Json(d)] = Absent
  BY <1>1, Contributed
<1>3. Now(c, "staged", Targets(c), cmd[c].left, cmd[c].old, cmd[c].botched)
  BY <1>1, <1>2, NowStaged DEF Stage
<1> HIDE DEF O
<1>4. /\ overlay' \in [Destinations -> [Files -> Content]]
      /\ overlay'[c] = O
      /\ \A b \in Destinations : b # c => overlay'[b] = overlay[b]
  BY <1>1, <1>2 DEF Stage, OverlayAgrees, TypeOK, O
<1>5. TypeOK'
  BY <1>1, <1>3, <1>4 DEF TypeOK, Now
<1>6. JsonIsEmpty'
  <2>1. \A b \in Destinations, d \in Dirs : cmd'[b].old[Json(d)] \in {{}, Absent}
    BY <1>3, OldIsEmpty DEF Now
  <2>2. \A b \in Destinations, d \in Dirs : overlay'[b][Json(d)] = Absent
    BY <1>1, <1>2, <1>4 DEF JsonIsEmpty
  <2>3. QED
    BY <1>1, <2>1, <2>2 DEF JsonIsEmpty
<1>7. FilesAreHoused' /\ AppliedExist'
  BY <1>1 DEF FilesAreHoused, AppliedExist, IInv
<1>8. Own(c)'
  <2> DEFINE anchor == Anchor(c)
  <2>1. anchor \in Dirs /\ PlanOf(c, anchor, tree, O, Targets(c))
    BY <1>2
  <2> HIDE DEF anchor
  <2>2. PICK a \in Dirs : PlanOf(c, a, tree, O, Targets(c))
    BY <2>1
  <2>3. PlanOf(c, a, tree, O, Targets(c))
          => PlanOf(c, a, tree', overlay'[c], cmd'[c].targets)
    BY <1>1, <1>3, <1>4 DEF Now
  <2>4. PlanOf(c, a, tree, overlay[c], cmd[c].targets)'
    BY <2>2, <2>3 DEF PlanOf, Ancestors
  <2>5. \E d \in Dirs : PlannedAt(c, d, tree)'
    BY <2>4 DEF PlannedAt
  <2>6. cmd'[c].pc = "staged" /\ c \notin dirs'
    BY <1>1, <1>2, <1>3 DEF Now
  <2>7. QED
    BY <2>5, <2>6 DEF Own, PlanStands, Mixed, Progressed, At
<1>9. QED
  BY <1>1, <1>3, <1>5, <1>6, <1>7, <1>8, OneSteps, OthersIdle

LEMMA SnapshotPreserves ==
    ASSUME IInv, NEW c \in Destinations, Snapshot(c)
    PROVE  IInv'
<1>1. /\ TypeOK /\ ~At(c, "idle") /\ cmd[c].pc = "staged"
      /\ UNCHANGED <<late, durable, applied, faults>>
  BY DEF IInv, Snapshot, At
<1>2. Now(c, "applying", cmd[c].targets, cmd[c].targets, tree, cmd[c].botched)
  BY <1>1, NowApplying
<1>3. TypeOK' /\ JsonIsEmpty' /\ FilesAreHoused' /\ AppliedExist'
  <2>1. PICK old : old = tree
    OBVIOUS
  <2>2. applied' \in SUBSET Destinations /\ applied' \subseteq dirs /\ faults' \in 0..MaxFaults
    BY <1>1, OldIsEmpty
  <2>3. \A d \in Dirs : old[Json(d)] \in {{}, Absent}
    BY <2>1, OldIsEmpty
  <2>4. Now(c, "applying", cmd[c].targets, cmd[c].targets, old, cmd[c].botched)
    BY <1>2, <2>1
  <2>5. QED
    BY <1>1, <2>2, <2>3, <2>4, CheckoutKept
<1>4. Own(c)'
  <2>1. PICK a \in Dirs : PlannedAt(c, a, tree)
    BY <1>1 DEF IInv, PlanStands, At
  <2>2. overlay'[c] = overlay[c] /\ tree' = tree /\ dirs' = dirs /\ applied' = applied
    BY <1>1 DEF durable
  <2>3. /\ cmd'[c].targets = cmd[c].targets /\ cmd'[c].old = tree /\ cmd'[c].pc = "applying"
        /\ cmd'[c].left = cmd[c].targets
    BY <1>2 DEF Now
  <2>4. \E d \in Dirs : PlannedAt(c, d, cmd[c].old)'
    BY <2>1, <2>2, <2>3, PlanTaken
  <2>5. c \notin applied'
    BY <1>1, <2>2 DEF IInv, NotApplied, AppliedExist
  <2>6. Mixed(c)'
    BY <2>2, <2>3 DEF Mixed, MixOf
  <2>7. Progressed(c)'
    BY <2>3 DEF Progressed, At
  <2>8. QED
    BY <2>3, <2>4, <2>5, <2>6, <2>7 DEF Own, PlanStands, At
<1>5. QED
  BY <1>1, <1>2, <1>3, <1>4, OneSteps, OthersIdle

\* The plan and the mix outlive every step on the files.
LEMMA MixKept ==
    ASSUME IInv, NEW c \in Destinations, cmd[c].pc \in {"applying", "rollback"},
           UNCHANGED <<overlay, applied>>, MixOf(c, tree'),
           NEW pc \in {"applying", "rollback"}, NEW left, left \subseteq cmd[c].targets,
           NEW botched,
           Now(c, pc, cmd[c].targets, left, cmd[c].old, botched),
           Progressed(c)'
    PROVE  Own(c)'
<1>1. /\ cmd'[c].targets = cmd[c].targets /\ cmd'[c].old = cmd[c].old
      /\ cmd'[c].left = left /\ cmd'[c].pc = pc
  BY DEF Now
<1>2. PICK a \in Dirs : PlannedAt(c, a, cmd[c].old)
  BY DEF IInv, PlanStands
<1>3. \E d \in Dirs : PlannedAt(c, d, cmd[c].old)'
  BY <1>1, <1>2, PlanKept
<1>4. Mixed(c)'
  BY <1>1 DEF Mixed, MixOf
<1>5. c \notin applied'
  BY DEF IInv, NotApplied
<1>6. QED
  BY <1>1, <1>3, <1>4, <1>5 DEF Own, PlanStands, At

LEMMA WritePreserves ==
    ASSUME IInv, NEW c \in Destinations, WriteNext(c)
    PROVE  IInv'
<1>1. /\ TypeOK /\ ~At(c, "idle") /\ cmd[c].pc = "applying" /\ Pending(c) /\ FileStep(c)
      /\ UNCHANGED <<late, overlay, applied>> /\ faults' \in 0..MaxFaults
  BY DEF IInv, WriteNext, At, FileStep, TypeOK
<1>2. Now(c, "applying", cmd[c].targets, cmd[c].left \ {Target(c)}, cmd[c].old, cmd[c].botched)
  BY <1>1, NowLeft DEF WriteNext
<1>3. TypeOK' /\ JsonIsEmpty' /\ FilesAreHoused' /\ AppliedExist'
  BY <1>1, <1>2, CheckoutAfter
<1>4. /\ MixOf(c, tree')
      /\ \A f \in Files : f # Target(c) => tree'[f] = tree[f]
      /\ tree'[Target(c)] = overlay[c][Target(c)]
  BY <1>1, FileSteps DEF WriteNext
<1>5. cmd[c].left \subseteq cmd[c].targets /\ cmd[c].targets \in SUBSET Files
  BY <1>1, Commands DEF IInv, Mixed
<1>6. Progressed(c)'
  <2>1. \A f \in cmd[c].targets \ (cmd[c].left \ {Target(c)}) : tree'[f] = overlay[c][f]
    <3>1. \A f \in cmd[c].targets \ cmd[c].left : tree[f] = overlay[c][f]
      BY <1>1 DEF IInv, Progressed, At
    <3> HIDE DEF Target
    <3>2. QED
      BY <1>4, <1>5, <3>1
  <2>2. QED
    BY <1>1, <1>2, <2>1 DEF Progressed, Now, At
<1>7. Own(c)'
  BY <1>1, <1>2, <1>4, <1>5, <1>6, MixKept
<1>8. QED
  BY <1>1, <1>2, <1>3, <1>7, OneSteps, OthersIdle

LEMMA WriteFailsPreserves ==
    ASSUME IInv, NEW c \in Destinations, WriteFails(c)
    PROVE  IInv'
<1>1. /\ TypeOK /\ ~At(c, "idle") /\ cmd[c].pc = "applying" /\ Pending(c) /\ FileStep(c)
      /\ UNCHANGED <<late, overlay, applied>> /\ faults' \in 0..MaxFaults
  <2>1. FileStep(c)
    BY DEF WriteFails, FileStep
  <2>2. QED
    BY <2>1, FaultCounts DEF IInv, WriteFails, At
<1>2. Now(c, "rollback", cmd[c].targets, cmd[c].targets, cmd[c].old, cmd[c].botched)
  BY <1>1, NowRollback DEF WriteFails
<1>3. TypeOK' /\ JsonIsEmpty' /\ FilesAreHoused' /\ AppliedExist'
  BY <1>1, <1>2, CheckoutAfter
<1>4. MixOf(c, tree')
  BY <1>1, FileSteps
<1>5. Progressed(c)'
  BY <1>2 DEF Progressed, Now, At
<1>6. Own(c)'
  BY <1>1, <1>2, <1>4, <1>5, MixKept
<1>7. QED
  BY <1>1, <1>2, <1>3, <1>6, OneSteps, OthersIdle

LEMMA ValidateFailsPreserves ==
    ASSUME IInv, NEW c \in Destinations, ValidateFails(c)
    PROVE  IInv'
<1>1. /\ TypeOK /\ ~At(c, "idle") /\ cmd[c].pc = "applying"
      /\ UNCHANGED <<late, durable, applied>> /\ faults' \in 0..MaxFaults
  <2>1. TypeOK
    BY DEF IInv
  <2>2. faults' \in 0..MaxFaults
    BY <2>1, FaultCounts DEF ValidateFails, TypeOK
  <2>3. QED
    BY <2>1, <2>2 DEF ValidateFails, At
<1>2. Now(c, "rollback", cmd[c].targets, cmd[c].targets, cmd[c].old, cmd[c].botched)
  BY <1>1, NowRollback DEF ValidateFails
<1>3. TypeOK' /\ JsonIsEmpty' /\ FilesAreHoused' /\ AppliedExist'
  BY <1>1, <1>2, OldIsEmpty, CheckoutKept
<1>4. MixOf(c, tree') /\ overlay' = overlay /\ applied' = applied
  BY <1>1 DEF IInv, Mixed, durable
<1>5. Progressed(c)'
  BY <1>2 DEF Progressed, Now, At
<1>6. Own(c)'
  BY <1>1, <1>2, <1>4, <1>5, MixKept
<1>7. QED
  BY <1>1, <1>2, <1>3, <1>6, OneSteps, OthersIdle

LEMMA UndoPreserves ==
    ASSUME IInv, NEW c \in Destinations, Undo(c)
    PROVE  IInv'
<1>1. /\ TypeOK /\ ~At(c, "idle") /\ cmd[c].pc = "rollback" /\ Pending(c) /\ FileStep(c)
      /\ UNCHANGED <<late, overlay, applied>> /\ faults' \in 0..MaxFaults
  BY DEF IInv, Undo, At, FileStep, TypeOK
<1>2. Now(c, "rollback", cmd[c].targets, cmd[c].left \ {Target(c)}, cmd[c].old, cmd[c].botched)
  BY <1>1, NowLeft DEF Undo
<1>3. TypeOK' /\ JsonIsEmpty' /\ FilesAreHoused' /\ AppliedExist'
  BY <1>1, <1>2, CheckoutAfter
<1>4. /\ MixOf(c, tree')
      /\ \A f \in Files : f # Target(c) => tree'[f] = tree[f]
      /\ tree'[Target(c)] = cmd[c].old[Target(c)]
  BY <1>1, FileSteps DEF Undo
<1>5. cmd[c].left \subseteq cmd[c].targets /\ cmd[c].targets \in SUBSET Files
  BY <1>1, Commands DEF IInv, Mixed
<1>6. Progressed(c)'
  <2>1. ASSUME ~cmd[c].botched
        PROVE  \A f \in cmd[c].targets \ (cmd[c].left \ {Target(c)}) : tree'[f] = cmd[c].old[f]
    <3>1. \A f \in cmd[c].targets \ cmd[c].left : tree[f] = cmd[c].old[f]
      BY <1>1, <2>1 DEF IInv, Progressed, At
    <3> HIDE DEF Target
    <3>2. QED
      BY <1>4, <1>5, <3>1
  <2>2. QED
    BY <1>1, <1>2, <2>1 DEF Progressed, Now, At
<1>7. Own(c)'
  BY <1>1, <1>2, <1>4, <1>5, <1>6, MixKept
<1>8. QED
  BY <1>1, <1>2, <1>3, <1>7, OneSteps, OthersIdle

LEMMA UndoFailsPreserves ==
    ASSUME IInv, NEW c \in Destinations, UndoFails(c)
    PROVE  IInv'
<1>1. /\ TypeOK /\ ~At(c, "idle") /\ cmd[c].pc = "rollback" /\ Pending(c) /\ FileStep(c)
      /\ UNCHANGED <<late, overlay, applied>> /\ faults' \in 0..MaxFaults
  <2>1. FileStep(c)
    BY DEF UndoFails, FileStep
  <2>2. QED
    BY <2>1, FaultCounts DEF IInv, UndoFails, At
<1>2. Now(c, "rollback", cmd[c].targets, cmd[c].left \ {Target(c)}, cmd[c].old, TRUE)
  BY <1>1, NowBotched DEF UndoFails
<1>3. TypeOK' /\ JsonIsEmpty' /\ FilesAreHoused' /\ AppliedExist'
  BY <1>1, <1>2, CheckoutAfter
<1>4. MixOf(c, tree') /\ cmd[c].left \ {Target(c)} \subseteq cmd[c].targets
  BY <1>1, FileSteps DEF IInv, Mixed
<1>5. Progressed(c)'
  BY <1>2 DEF Progressed, Now, At
<1>6. Own(c)'
  BY <1>1, <1>2, <1>4, <1>5, MixKept
<1>7. QED
  BY <1>1, <1>2, <1>3, <1>6, OneSteps, OthersIdle

LEMMA RolledBackPreserves ==
    ASSUME IInv, NEW c \in Destinations, RolledBack(c)
    PROVE  IInv'
<1>1. /\ TypeOK /\ ~At(c, "idle") /\ cmd[c].pc = "rollback" /\ cmd[c].left = {}
      /\ UNCHANGED <<late, durable, applied, faults>>
  BY DEF IInv, RolledBack, At, Pending
<1>2. Now(c, "failed", cmd[c].targets, cmd[c].left, cmd[c].old, cmd[c].botched)
  BY <1>1, NowAt DEF RolledBack
<1>3. TypeOK' /\ JsonIsEmpty' /\ FilesAreHoused' /\ AppliedExist'
  BY <1>1, <1>2, OldIsEmpty, CheckoutKept
<1>4. Progressed(c)'
  <2>1. ASSUME ~cmd[c].botched
        PROVE  tree' = cmd[c].old
    <3>1. \A f \in cmd[c].targets : tree[f] = cmd[c].old[f]
      BY <1>1, <2>1 DEF IInv, Progressed, At
    <3>2. \A f \in Files : tree[f] = cmd[c].old[f]
      BY <1>1, <3>1 DEF IInv, Mixed, MixOf
    <3>3. tree \in [Files -> Content] /\ cmd[c].old \in [Files -> Content]
      BY <1>1, Commands DEF TypeOK
    <3>4. QED
      BY <1>1, <3>2, <3>3 DEF durable
  <2>2. QED
    BY <1>2, <2>1 DEF Progressed, Now, At
<1>5. Own(c)'
  <2>1. c \notin applied'
    BY <1>1 DEF IInv, NotApplied
  <2>2. QED
    BY <1>2, <1>4, <2>1 DEF Own, PlanStands, Mixed, Now, At
<1>6. QED
  BY <1>1, <1>2, <1>3, <1>5, OneSteps, OthersIdle

\* When every file is in place, what the walk visits and the command's own
\* files are there, and its directory with them.
LEMMA ValidatePreserves ==
    ASSUME IInv, NEW c \in Destinations, Validate(c)
    PROVE  IInv'
<1>1. /\ TypeOK /\ ~At(c, "idle") /\ cmd[c].pc = "applying" /\ cmd[c].left = {} /\ Walkable
      /\ UNCHANGED <<late, durable, faults>> /\ applied' = applied \cup {c}
  BY DEF IInv, Validate, At, Pending
<1>2. Now(c, "done", cmd[c].targets, cmd[c].left, cmd[c].old, cmd[c].botched)
  BY <1>1, NowAt DEF Validate
<1>3. c \in Dirs /\ c \in Above[c] /\ Nav(c) \in Files /\ Json(c) \in Files /\ Manifest(c) \in Files
  BY <1>1, Commands, AboveTyped, FileKinds
<1>4. /\ \A f \in cmd[c].targets : tree[f] = overlay[c][f]
      /\ MixOf(c, tree)
  BY <1>1 DEF IInv, Progressed, Mixed, At
<1>5. PICK a \in Dirs : PlannedAt(c, a, cmd[c].old)
  BY <1>1 DEF IInv, PlanStands
<1>6. a # c /\ a \in Above[c]
  BY <1>5 DEF PlannedAt, PlanOf, Ancestors
<1>7. /\ cmd[c].old[Json(c)] = Absent /\ overlay[c][Nav(c)] = {Child(c, c)}
      /\ overlay[c][Manifest(c)] = {}
  BY <1>3, <1>5, <1>6 DEF PlannedAt, PlanOf
<1>8. Nav(c) \in cmd[c].targets /\ Manifest(c) \in cmd[c].targets /\ Json(c) \notin cmd[c].targets
  BY <1>1, <1>3, <1>5, <1>6, TargetFiles
<1>9. tree[Json(c)] = Absent /\ tree[Nav(c)] = {c} /\ tree[Manifest(c)] = {}
  BY <1>3, <1>4, <1>7, <1>8 DEF MixOf, Child
<1>10. {c} # Absent /\ {} # Absent
  BY <1>3, Contents
<1>11. Loads(c) /\ tree[Manifest(c)] # Absent /\ c \in dirs
  <2>1. Loads(c)
    BY <1>9, <1>10, LoadsOne
  <2>2. Manifest(c).dir = c
    BY FileKinds
  <2>3. QED
    BY <1>3, <1>9, <1>10, <2>1, <2>2 DEF IInv, FilesAreHoused
<1>12. applied' \in SUBSET Destinations /\ applied' \subseteq dirs
  BY <1>1, <1>11, OldIsEmpty
<1>13. TypeOK' /\ JsonIsEmpty' /\ FilesAreHoused' /\ AppliedExist'
  BY <1>1, <1>2, <1>12, OldIsEmpty, CheckoutKept DEF TypeOK
<1>14. Progressed(c)'
  <2>1. tree' = tree
    BY <1>1 DEF durable
  <2>2. Walkable' /\ Loads(c)' /\ tree'[Manifest(c)] # Absent
    BY <1>1, <1>11, <2>1 DEF Walkable, Linked, Loads, Entries, DocumentsOf
  <2>3. QED
    BY <1>2, <2>2 DEF Progressed, Now, At
<1>15. Own(c)'
  BY <1>2, <1>14 DEF Own, PlanStands, Mixed, Now, At
<1>16. QED
  BY <1>1, <1>2, <1>13, <1>15, OneSteps, OthersIdle

-----------------------------------------------------------------------------
(* The theorems.                                                              *)

LEMMA InitInv == Init => IInv
<1> SUFFICES ASSUME Init
             PROVE  IInv
  OBVIOUS
<1>1. PICK doc \in Documents :
          tree = [f \in Files |-> IF f = [dir |-> Root, doc |-> doc] THEN {} ELSE Absent]
  BY DEF Init
<1>2. /\ dirs = {Root} /\ applied = {} /\ faults = 0
      /\ \A c \in Destinations : cmd[c] = Idle /\ overlay[c] = NoFiles
  BY DEF Init
<1>3. \A f \in Files : tree[f] \in {{}, Absent} /\ (tree[f] # Absent => f.dir = Root)
  BY <1>1
<1>4. TypeOK
  <2>1. NoFiles \in [Files -> Content] /\ tree \in [Files -> Content]
    BY <1>1, Contents DEF NoFiles
  <2>2. late \in SUBSET Dirs /\ dirs \in SUBSET Dirs /\ faults \in 0..MaxFaults
    BY <1>2, DirsAssumption, LimitsAssumption DEF Init
  <2>3. /\ overlay \in [Destinations -> [Files -> Content]]
        /\ cmd \in [Destinations -> Command]
    BY <2>1, IdleCommand DEF Init
  <2>4. QED
    BY <1>2, <2>1, <2>2, <2>3 DEF TypeOK
<1>5. JsonIsEmpty
  <2>1. \A d \in Dirs : Json(d) \in Files /\ NoFiles[Json(d)] = Absent
    BY FileKinds DEF NoFiles
  <2>2. Idle.old = NoFiles
    BY DEF Idle
  <2>3. QED
    BY <1>2, <1>3, <2>1, <2>2 DEF JsonIsEmpty
<1>6. FilesAreHoused
  BY <1>2, <1>3 DEF FilesAreHoused
<1>7. \A c \in Destinations : cmd[c].pc = "idle"
  BY <1>2 DEF Idle
<1>8. Alone /\ NotApplied
      /\ \A c \in Destinations : PlanStands(c) /\ Mixed(c) /\ Progressed(c)
  BY <1>7 DEF Alone, NotApplied, PlanStands, Mixed, Progressed, At
<1>9. QED
  BY <1>2, <1>4, <1>5, <1>6, <1>8 DEF IInv, AppliedExist

LEMMA NextInv ==
    ASSUME AtOnce = 1, IInv, [Next]_vars
    PROVE  IInv'
<1>1. CASE UNCHANGED vars
  <2>1. /\ UNCHANGED <<dirs, tree, overlay, cmd, applied, late, faults>>
    BY <1>1 DEF vars, durable
  <2>2. TypeOK' /\ Alone' /\ JsonIsEmpty' /\ FilesAreHoused' /\ AppliedExist' /\ NotApplied'
    BY <2>1 DEF IInv, TypeOK, Alone, JsonIsEmpty, FilesAreHoused, AppliedExist, NotApplied, At
  <2>3. ASSUME NEW c \in Destinations
        PROVE  (PlanStands(c) /\ Mixed(c) /\ Progressed(c))'
    <3>1. PlanStands(c) /\ Mixed(c) /\ Progressed(c)
      BY DEF IInv
    <3>2. PlanStands(c)'
      BY <2>1, <3>1 DEF PlanStands, At, PlannedAt, PlanOf, Ancestors
    <3>3. Mixed(c)'
      BY <2>1, <3>1 DEF Mixed, MixOf
    <3>4. Walkable' = Walkable /\ Loads(c)' = Loads(c)
      BY <2>1 DEF Walkable, Linked, Loads, Entries, DocumentsOf
    <3>5. Progressed(c)'
      BY <2>1, <3>1, <3>4 DEF Progressed, At
    <3>6. QED
      BY <3>2, <3>3, <3>5
  <2>4. QED
    BY <2>2, <2>3 DEF IInv
<1>2. ASSUME NEW c \in Destinations,
             Check(c) \/ Stage(c) \/ Refuse(c) \/ Apply(c) \/ Return(c) \/ Kill(c)
      PROVE  IInv'
  <2>1. CASE Check(c)
    BY <2>1, CheckPreserves
  <2>2. CASE Stage(c)
    BY <2>2, StagePreserves
  <2>3. CASE Refuse(c) \/ Return(c)
    BY <2>3, RefusePreserves
  <2>4. CASE Kill(c)
    BY <2>4, KillPreserves
  <2>5. CASE Snapshot(c)
    BY <2>5, SnapshotPreserves
  <2>6. CASE WriteNext(c)
    BY <2>6, WritePreserves
  <2>7. CASE WriteFails(c)
    BY <2>7, WriteFailsPreserves
  <2>8. CASE Validate(c)
    BY <2>8, ValidatePreserves
  <2>9. CASE ValidateFails(c)
    BY <2>9, ValidateFailsPreserves
  <2>10. CASE Undo(c)
    BY <2>10, UndoPreserves
  <2>11. CASE UndoFails(c)
    BY <2>11, UndoFailsPreserves
  <2>12. CASE RolledBack(c)
    BY <2>12, RolledBackPreserves
  <2>13. QED
    BY <1>2, <2>1, <2>2, <2>3, <2>4, <2>5, <2>6, <2>7, <2>8, <2>9, <2>10, <2>11, <2>12
       DEF Apply
<1>3. QED
  BY <1>1, <1>2 DEF Next

\* With one command at a time the invariant holds in every state, from whatever
\* the killed and failed commands before it left in the checkout.
THEOREM Invariant ==
    ASSUME AtOnce = 1
    PROVE  Spec => []IInv
<1>1. Init => IInv
  BY InitInv
<1>2. IInv /\ [Next]_vars => IInv'
  BY NextInv
<1>3. QED
  BY <1>1, <1>2, PTL DEF Spec

\* The types of the checkout, the staged overlays and the commands.
THEOREM TypeCorrect ==
    ASSUME AtOnce = 1
    PROVE  Spec => []TypeOK
<1>1. IInv => TypeOK
  BY DEF IInv
<1>2. QED
  BY <1>1, Invariant, PTL

\* A failed command, none of whose rollback failed, leaves every file as it
\* found it: ApplyContribution's deferred rollback (stage_contribution.go:113-123).
THEOREM RollbackRestores ==
    ASSUME AtOnce = 1
    PROVE  Spec => []FilesRestored
<1>1. IInv => FilesRestored
  BY DEF IInv, Progressed, FilesRestored
<1>2. QED
  BY <1>1, Invariant, PTL

\* A command that reports success leaves a checkout that can be walked and the
\* files of its corpus in it, also past what killed commands left half applied.
THEOREM SuccessWalks ==
    ASSUME AtOnce = 1
    PROVE  Spec => []SuccessIsWalkable
<1>1. IInv => SuccessIsWalkable
  BY DEF IInv, Progressed, SuccessIsWalkable
<1>2. QED
  BY <1>1, Invariant, PTL

\* No step takes a listed corpus out of the index.
LEMMA StepKeepsListed ==
    ASSUME IInv, [Next]_vars, NEW b \in applied, Listed(b)
    PROVE  Listed(b)'
<1>1. ListedIn(b, tree) /\ b \in Destinations
  BY ListedFiles DEF IInv, TypeOK
<1>2. CASE tree' = tree
  <2>1. ListedIn(b, tree')
    BY <1>1, <1>2
  <2>2. QED
    BY <2>1, ListedFiles
<1>3. CASE tree' # tree
  <2>1. PICK c \in Destinations :
            WriteNext(c) \/ WriteFails(c) \/ Undo(c) \/ UndoFails(c)
    <3>1. PICK c \in Destinations :
              Check(c) \/ Stage(c) \/ Refuse(c) \/ Apply(c) \/ Return(c) \/ Kill(c)
      BY <1>3 DEF Next, vars, durable
    <3>2. ~(Check(c) \/ Stage(c) \/ Refuse(c) \/ Return(c) \/ Kill(c))
      BY <1>3 DEF Check, Stage, Refuse, Return, Kill, durable
    <3>3. ~(Snapshot(c) \/ Validate(c) \/ ValidateFails(c) \/ RolledBack(c))
      BY <1>3 DEF Snapshot, Validate, ValidateFails, RolledBack, durable
    <3>4. QED
      BY <3>1, <3>2, <3>3 DEF Apply
  <2>2. cmd[c].pc \in {"applying", "rollback"} /\ Pending(c) /\ FileStep(c)
    BY <2>1 DEF WriteNext, WriteFails, Undo, UndoFails, At, FileStep
  <2>3. MixOf(c, tree')
    BY <2>2, FileSteps
  <2>4. MixOf(c, tree) /\ b # c /\ TypeOK /\ JsonIsEmpty
    BY <2>2 DEF IInv, Mixed, NotApplied
  <2>5. PICK a \in Dirs : PlannedAt(c, a, cmd[c].old)
    BY <2>2 DEF IInv, PlanStands
  <2>6. ListedIn(b, tree')
    BY <1>1, <2>3, <2>4, <2>5, ListedKept
  <2>7. QED
    BY <2>6, ListedFiles
<1>4. QED
  BY <1>2, <1>3

\* A corpus that was reported as applied and is in the index stays there,
\* whatever later commands write, take back, botch or are killed in.
THEOREM AppliedStays ==
    ASSUME AtOnce = 1
    PROVE  Spec => AppliedStaysListed
<1>1. IInv /\ [Next]_vars => [\A c \in applied : Listed(c) => Listed(c)']_vars
  BY StepKeepsListed
<1>2. QED
  BY <1>1, Invariant, PTL DEF Spec, AppliedStaysListed
=============================================================================
