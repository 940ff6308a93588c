--------------------------- MODULE BillOfMaterials ---------------------------
(* The OpenWALDO bill of materials of a selection (internal/corpus/bom.go,     *)
(* bom_validate.go, policy.go, materialize.go, attestation.go): the selected   *)
(* paths are walked, every manifest under them is pinned once with the shards  *)
(* its license policy allows, rollups are expanded through their sub-manifest  *)
(* tree, the result is validated, its objects are materialized and their       *)
(* attestations attached.  The index is one that `waldo index verify` accepts; *)
(* objects and sub-manifests may be lost, repeated or declare wrong totals.    *)
(*                                                                             *)
(* A shard holds one record per license expression; that is its size in every  *)
(* total.  IndexCheckout has the checkout change under a build.                *)
EXTENDS LicensePolicy, Integers, Sequences, FiniteSets, SequencesExt

CONSTANTS
    Shards,      \* what a manifest may list: [object, bytes, licenses, emails]
    Manifests,   \* their numbers, in the order the index walks them
    Rollups,     \* those that may be rollups
    MaxListed,   \* shards listed by all manifests together
    Policies,    \* license policies: [include, exclude], sets of patterns
    MaxFaults    \* objects that cannot be fetched over the build

VARIABLES
    catalog,     \* the index: manifest -> what it lists
    targets,     \* the selected paths, each the manifests under it
    policy,
    bom,         \* the document
    work,        \* manifests and sub-manifests still to visit, in order
    expanded,    \* per expansion: sub-manifests seen
    fetched,     \* objects on disk, with the size they were fetched under
    phase,       \* "select", "walk", "fetch", "attached", "done", "failed"
    faults

vars == <<catalog, targets, policy, bom, work, expanded, fetched, phase, faults>>

SumOver(seq, Value(_)) == FoldLeft(LAMBDA sum, x : sum + Value(x), 0, seq)

-----------------------------------------------------------------------------
(* Licenses.                                                                   *)

Allows(license) ==
    /\ ~Excluded(policy.exclude, license)
    /\ policy.include = {} \/ Included(policy.include, license)

\* A shard is selected when all its licenses are.
Selected(shard) == \A license \in shard.licenses : Allows(license)

-----------------------------------------------------------------------------
(* The index.  A rollup's root lists `top`, its child `below`.                 *)

Lists == UNION {[1 .. n -> Shards] : n \in 0 .. MaxListed - Cardinality(Manifests) + 1}

\* "twice": a child is referenced twice; "totals": the child's declared totals
\* are not those of what it lists.
Flaws == {"none", "twice", "totals"}

Catalogs ==
    {c \in [rollup : BOOLEAN, assessed : BOOLEAN, top : Lists, below : Lists, flaw : Flaws] :
        /\ Len(c.top) + Len(c.below) \in 1 .. MaxListed - Cardinality(Manifests) + 1
        /\ ~c.rollup => c.below = << >> /\ c.flaw = "none"
        /\ c.flaw # "none" => c.below # << >>}

Listed(m) == catalog[m].top \o catalog[m].below

Docs(shard) == Cardinality(shard.licenses)

Measures(seq) == [shards |-> Len(seq), docs |-> SumOver(seq, Docs)]

Emails(seq) == SumOver(seq, LAMBDA s : s.emails)

\* The licenses of a selection with the records each accounts for: a mixed
\* shard is counted by the usage of each of its licenses.
LicenseMeasures(seq) ==
    [l \in UNION {seq[i].licenses : i \in DOMAIN seq} |->
        [shards |-> SumOver(seq, LAMBDA s : IF l \in s.licenses THEN 1 ELSE 0),
         docs |-> SumOver(seq, LAMBDA s : IF l \in s.licenses THEN 1 ELSE 0)]]

-----------------------------------------------------------------------------
(* The document.                                                               *)

NoMeasures == [shards |-> 0, docs |-> 0]

Empty == [manifests |-> << >>, pins |-> << >>, subs |-> << >>,
          totals |-> NoMeasures, licenses |-> << >>]

Add(a, b) == [shards |-> a.shards + b.shards, docs |-> a.docs + b.docs]

AddLicenses(licenses, shard) ==
    [l \in DOMAIN licenses \union shard.licenses |->
        LET old == IF l \in DOMAIN licenses THEN licenses[l] ELSE NoMeasures
        IN  IF l \in shard.licenses THEN Add(old, [shards |-> 1, docs |-> 1]) ELSE old]

\* The pins of one manifest's shards, and the totals they add up to.
AddShard(b, m, sub, shard) ==
    IF ~Selected(shard) THEN b
    ELSE LET one == [shards |-> 1, docs |-> Docs(shard)]
             last == Len(b.manifests)
         IN  [b EXCEPT !.pins = Append(@, [manifest |-> m, sub |-> sub, shard |-> shard,
                                           evidence |-> {}]),
                       !.totals = Add(@, one),
                       !.licenses = AddLicenses(@, shard),
                       !.manifests[last].totals = Add(@, one),
                       !.manifests[last].licenses = AddLicenses(@, shard)]

AddShards(b, m, sub, seq) == FoldLeft(LAMBDA d, s : AddShard(d, m, sub, s), b, seq)

\* The pin takes the manifest's own claims over.
ManifestPin(m) ==
    [path |-> m, assessed |-> catalog[m].assessed, emails |-> Emails(Listed(m)),
     totals |-> NoMeasures, licenses |-> << >>]

AddManifest(m) ==
    LET pinned == [bom EXCEPT !.manifests = Append(@, ManifestPin(m))]
    IN  IF catalog[m].rollup THEN pinned ELSE AddShards(pinned, m, "", catalog[m].top)

-----------------------------------------------------------------------------
(* Validate: the claims of the document are recomputed from its pins.          *)

PinsOf(m) == SelectSeq(bom.pins, LAMBDA p : p.manifest = m)
ShardsOf(pins) == [i \in DOMAIN pins |-> pins[i].shard]

\* Every sub-manifest hangs below one that is pinned, and there is one root.
SubManifestsValid ==
    /\ \A i, j \in DOMAIN bom.subs : i # j => bom.subs[i] # bom.subs[j]
    /\ \A i \in DOMAIN bom.subs :
          bom.subs[i].parent # "" =>
              \E j \in DOMAIN bom.subs :
                  bom.subs[j] = [manifest |-> bom.subs[i].manifest, node |-> "root", parent |-> ""]

AssessmentValid(pin) ==
    pin.assessed =>
        /\ pin.emails <= pin.totals.docs
        /\ pin.emails = Emails(ShardsOf(PinsOf(pin.path)))

ManifestValid(pin) ==
    /\ pin.totals = Measures(ShardsOf(PinsOf(pin.path)))
    /\ pin.licenses = LicenseMeasures(ShardsOf(PinsOf(pin.path)))

DocumentValid ==
    /\ \A i, j \in DOMAIN bom.manifests : i # j => bom.manifests[i].path # bom.manifests[j].path
    /\ SubManifestsValid
    /\ \A i \in DOMAIN bom.pins :
          /\ \E j \in DOMAIN bom.manifests : bom.manifests[j].path = bom.pins[i].manifest
          /\ bom.pins[i].sub # "" =>
                \E j \in DOMAIN bom.subs :
                    bom.subs[j].manifest = bom.pins[i].manifest /\ bom.subs[j].node = bom.pins[i].sub
          /\ Selected(bom.pins[i].shard)
    /\ bom.totals = Measures(ShardsOf(bom.pins))
    /\ bom.licenses = LicenseMeasures(ShardsOf(bom.pins))
    /\ \A i \in DOMAIN bom.manifests :
          ManifestValid(bom.manifests[i]) /\ AssessmentValid(bom.manifests[i])

-----------------------------------------------------------------------------
(* Steps.                                                                      *)

Init ==
    /\ catalog \in {c \in [Manifests -> Catalogs] :
                      /\ \A m \in Manifests : c[m].rollup => m \in Rollups
                      /\ FoldFunction(LAMBDA one, n : Len(one.top) + Len(one.below) + n, 0, c)
                            <= MaxListed}
    /\ targets \in {s \in SUBSET (SUBSET Manifests \ {{}}) : Cardinality(s) \in 1 .. 2}
    /\ policy \in Policies
    /\ bom = Empty
    /\ work = << >> /\ expanded = {} /\ fetched = << >>
    /\ phase = "select" /\ faults = 0

Least(S) == CHOOSE x \in S : \A y \in S : x <= y

Visit(m) == [kind |-> "manifest", manifest |-> m]
Sub(m, node, parent) == [kind |-> "sub", manifest |-> m, node |-> node, parent |-> parent]

\* The manifests under the selected paths, each at its first visit.
Walked == SetToSortSeq(UNION targets, <)

\* The targets are resolved and walked.
Select ==
    /\ phase = "select"
    /\ work' = [i \in DOMAIN Walked |-> Visit(Walked[i])]
    /\ phase' = "walk"
    /\ UNCHANGED <<catalog, targets, policy, bom, expanded, fetched, faults>>

Pin ==
    /\ phase = "walk" /\ work # << >> /\ Head(work).kind = "manifest"
    /\ bom' = AddManifest(Head(work).manifest)
    /\ work' = (IF catalog[Head(work).manifest].rollup
                THEN <<Sub(Head(work).manifest, "root", "")>> ELSE << >>) \o Tail(work)
    /\ expanded' = {}
    /\ UNCHANGED <<catalog, targets, policy, fetched, phase, faults>>

\* The shards and the references of one sub-manifest.
Own(s) == IF s.node = "root" THEN catalog[s.manifest].top ELSE catalog[s.manifest].below

Children(s) ==
    IF s.node # "root" \/ catalog[s.manifest].below = << >> THEN << >>
    ELSE IF catalog[s.manifest].flaw = "twice"
         THEN <<Sub(s.manifest, "child", "root"), Sub(s.manifest, "child", "root")>>
         ELSE <<Sub(s.manifest, "child", "root")>>

\* What a reference must declare: all that hangs below it.
TotalsHold(s) == s.node = "child" => catalog[s.manifest].flaw # "totals"

\* One sub-manifest is fetched, pinned and its shards are added.
Expand ==
    /\ phase = "walk" /\ work # << >> /\ Head(work).kind = "sub"
    /\ LET s == Head(work) IN
       IF s.node \in expanded \/ ~TotalsHold(s)
       THEN /\ phase' = "failed"
            /\ UNCHANGED <<bom, work, expanded>>
       ELSE /\ bom' = AddShards(
                        [bom EXCEPT !.subs = Append(@, [manifest |-> s.manifest, node |-> s.node,
                                                        parent |-> s.parent])],
                        s.manifest, s.node, Own(s))
            /\ expanded' = expanded \union {s.node}
            /\ work' = Children(s) \o Tail(work)
            /\ UNCHANGED phase
    /\ UNCHANGED <<catalog, targets, policy, fetched, faults>>

Validate ==
    /\ phase \in {"walk", "attached"} /\ work = << >>
    /\ phase' = CASE ~DocumentValid -> "failed"
                  [] DocumentValid /\ phase = "walk" -> "fetch"
                  [] DocumentValid /\ phase = "attached" -> "done"
    /\ UNCHANGED <<catalog, targets, policy, bom, work, expanded, fetched, faults>>

Objects == {fetched[i].object : i \in DOMAIN fetched}

Unfetched == {i \in DOMAIN bom.pins : i > Len(fetched)}

\* Each pin in turn: an object already on disk must have been of the same size.
Materialize ==
    /\ phase = "fetch" /\ Unfetched # {}
    /\ LET shard == bom.pins[Least(Unfetched)].shard
           clash == \E i \in DOMAIN fetched :
                       fetched[i].object = shard.object /\ fetched[i].bytes # shard.bytes
       IN  IF clash THEN phase' = "failed" /\ UNCHANGED fetched
           ELSE fetched' = Append(fetched, [object |-> shard.object, bytes |-> shard.bytes])
                /\ UNCHANGED phase
    /\ UNCHANGED <<catalog, targets, policy, bom, work, expanded, faults>>

\* An object, or a sub-manifest, no candidate of the lookaside serves.
Lost ==
    /\ faults < MaxFaults
    /\ \/ phase = "fetch" /\ Unfetched # {}
             /\ bom.pins[Least(Unfetched)].shard.object \notin Objects
       \/ phase = "walk" /\ work # << >> /\ Head(work).kind = "sub"
    /\ phase' = "failed"
    /\ faults' = faults + 1
    /\ UNCHANGED <<catalog, targets, policy, bom, work, expanded, fetched>>

\* The evidence of one object goes to every pin of it.
Attached(pins, object) ==
    [i \in DOMAIN pins |-> IF pins[i].shard.object = object
                           THEN [pins[i] EXCEPT !.evidence = {object}] ELSE pins[i]]

\* AttachShardAttestations reads every materialized object and then refuses a
\* pin without evidence.
Attach ==
    /\ phase = "fetch" /\ Unfetched = {}
    /\ bom' = [bom EXCEPT !.pins = FoldLeft(LAMBDA pins, f : Attached(pins, f.object), @, fetched)]
    /\ phase' = IF \E i \in DOMAIN bom.pins : bom'.pins[i].evidence = {}
                THEN "failed" ELSE "attached"
    /\ UNCHANGED <<catalog, targets, policy, work, expanded, fetched, faults>>

Next == Select \/ Pin \/ Expand \/ Validate \/ Materialize \/ Lost \/ Attach

Spec == Init /\ [][Next]_vars

-----------------------------------------------------------------------------
(* Properties.                                                                 *)

\* What the selection asks for, said without the walk: the shards under the
\* targets none of whose licenses has an excluded or an unlisted term.
Wanted(shard) ==
    \A l \in shard.licenses :
        /\ policy.exclude # {} => /\ Terms(l) # {}
                                  /\ ~Matches(policy.exclude, l)
                                  /\ \A t \in Terms(l) : ~Matches(policy.exclude, t)
        /\ policy.include # {} =>
              /\ Terms(l) # {}
              /\ \/ \A t \in Terms(l) : Matches(policy.include, t)
                 \/ \E p \in policy.include : p.compound /\ l \in p.hits

\* A document that was accepted pins every manifest under the selected paths
\* once, however the paths overlap, and of each exactly the listings the policy
\* wants, with the rollups expanded; its totals and the records it ascribes to
\* every license are theirs.
BomIsExact ==
    phase \in {"fetch", "attached", "done"} =>
        /\ {bom.manifests[i].path : i \in DOMAIN bom.manifests} = UNION targets
        /\ \A m \in UNION targets :
              ShardsOf(PinsOf(m)) = SelectSeq(Listed(m), Wanted)
        /\ bom.totals.docs = SumOver(bom.pins, LAMBDA p : Docs(p.shard))
        /\ \A l \in DOMAIN bom.licenses :
              bom.licenses[l].docs = SumOver(bom.pins, LAMBDA p : IF l \in p.shard.licenses THEN 1 ELSE 0)

\* The policy left some assessed manifest without records that its claim counts.
ClaimsExcluded ==
    \E i \in DOMAIN bom.manifests :
        bom.manifests[i].assessed
            /\ bom.manifests[i].emails # Emails(ShardsOf(PinsOf(bom.manifests[i].path)))

HasCause ==
    \/ faults > 0
    \/ \E m \in UNION targets : catalog[m].flaw # "none"
    \/ \E i, j \in DOMAIN bom.pins :
          bom.pins[i].shard.object = bom.pins[j].shard.object
              /\ bom.pins[i].shard.bytes # bom.pins[j].shard.bytes

\* A verified index whose objects are all there gives a document: nothing the
\* builder writes is refused by the validation, before or after the evidence is
\* attached.  (Claims of excluded records are the exception, see PolicyIsExplained.)
FailureHasCause == phase = "failed" => HasCause \/ ClaimsExcluded

\* bom.go:228-231: "A selected manifest stays in the OpenWALDO BOM even when policy
\* excludes all of its shards. That makes an empty policy result explainable
\* rather than silently pretending the path was never considered."
PolicyIsExplained == phase = "failed" => HasCause
=============================================================================
