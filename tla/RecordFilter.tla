---------------------------- MODULE RecordFilter ----------------------------
(* The selection of single records by a stage or a tokenizer (internal/        *)
(* corpus/record_filter.go and distribution.go, model/recipe.go, cli/model.go, *)
(* cli/tokenizer.go, training/stream.go).  The declared filters are resolved   *)
(* to the selected paths and validated; a distributable selection has its      *)
(* licenses and sources reviewed before any record is read; filters that the   *)
(* rows of old shards cannot answer are announced; then every object is read   *)
(* and each of its records kept or skipped.                                    *)
(*                                                                             *)
(* A field that may be unset is a set of at most one value.  A date is the     *)
(* interval it stands for, <<>> when malformed.  Metadata is a set of at most  *)
(* one map (none: not an object) from keys to values ({}: not a string).       *)
EXTENDS LicensePolicy, Integers, Sequences

CONSTANTS
    Requests,       \* [kind, global, corpora, distributable]; corpora: [path, filter]
    Bills,          \* [paths, manifests, pins]
    Distributable   \* the licenses that may be redistributed

VARIABLES
    request,
    bill,        \* of materials: selected paths, manifests, shards in order
    policy,      \* [global, corpora, distributable], or {} for none
    reviewed,    \* licenses the review accepted
    announced,   \* fields the warning names
    pending,     \* objects still to read
    streamed,    \* records kept, [pin, row]
    phase        \* "plan", "review", "warn", "scan", "done", "refused"

vars == <<request, bill, policy, reviewed, announced, pending, streamed, phase>>

Refuse == phase' = "refused"

-----------------------------------------------------------------------------
(* Filters.                                                                    *)

PatternsValid(patterns) == \A p \in patterns : p.ok

ValueValid(v) ==
    /\ v.include # {} \/ v.exclude # {}
    /\ v.unset => v.include # {}
    /\ PatternsValid(v.include \union v.exclude)
    /\ v.include \intersect v.exclude = {}

DateValid(d) ==
    /\ d.from \union d.to # {}
    /\ << >> \notin d.from \union d.to
    /\ \A from \in d.from, to \in d.to : from[1] <= to[2]

ExclusionValid(x, f) ==
    /\ x.repetitive \union x.boilerplate # {} \/ x.licenses # {}
    /\ PatternsValid(x.licenses)
    /\ x.licenses # {} => f.licenses = {}

FilterValid(f) ==
    /\ \A x \in f.exclude : ExclusionValid(x, f)
    /\ \A v \in f.licenses \union f.sources : ValueValid(v) /\ ~v.unset
    /\ \A v \in f.languages : ValueValid(v)
    /\ \A k \in DOMAIN f.metadata : k # "" /\ ValueValid(f.metadata[k])
    /\ \A d \in f.date : DateValid(d)
    /\ \/ f.main # {} \/ f.exclude # {} \/ f.licenses # {} \/ f.languages # {}
       \/ f.sources # {} \/ DOMAIN f.metadata # {} \/ f.date # {}

\* ValueFilter.AllowsAny: any excluded value rejects, any included one suffices.
ValueAllows(v, values) ==
    /\ ~\E x \in values : Matches(v.exclude, x)
    /\ \/ v.unset /\ "" \in values
       \/ v.include = {}
       \/ \E x \in values : Matches(v.include, x)

\* ValueFilter.AllowsLicense: by the terms of the expression.
LicenseAllows(v, license) ==
    ~Excluded(v.exclude, license) /\ (v.include = {} \/ Included(v.include, license))

\* allowsMetadata: a key that is missing reads as the empty string.
MetadataAllows(constraints, metadata) ==
    DOMAIN constraints # {} =>
        /\ metadata # {}
        /\ \A m \in metadata : \A k \in DOMAIN constraints :
              LET value == IF k \in DOMAIN m THEN m[k] ELSE {""}
              IN  value # {} /\ ValueAllows(constraints[k], value)

DateAllows(d, date) ==
    /\ date # << >>
    /\ \A from \in d.from : date[2] >= from[1]
    /\ \A to \in d.to : date[1] <= to[2]

\* ExclusionFilter.Matches: an assessment that is not set matches nothing.
Hidden(x, view) ==
    \/ x.repetitive \intersect view.repetitive # {}
    \/ x.boilerplate \intersect view.boilerplate # {}
    \/ Excluded(x.licenses, view.license)

FilterAllows(f, view) ==
    /\ \A main \in f.main : view.main = main
    /\ \A x \in f.exclude : ~Hidden(x, view)
    /\ \A v \in f.licenses : LicenseAllows(v, view.license)
    /\ \A v \in f.languages : ValueAllows(v, {view.language})
    /\ \A v \in f.sources : ValueAllows(v, {view.source, view.sourceName})
    /\ MetadataAllows(f.metadata, view.metadata)
    /\ \A d \in f.date : DateAllows(d, view.date)

\* The global filter, and the one of the group if it has one.
FiltersOf(p, group) ==
    p.global \union (IF group \in DOMAIN p.corpora THEN {p.corpora[group]} ELSE {})

DistributableLicense(license) == license \in Distributable

\* RecordFilterPolicy.Allows.
PolicyAllows(p, group, view) ==
    /\ p.distributable => DistributableLicense(view.license)
    /\ \A f \in FiltersOf(p, group) : FilterAllows(f, view)

\* AllowsLicense: the license facets alone, of the whole expression.
ReviewAllows(p, group, license) ==
    /\ p.distributable => DistributableLicense(license)
    /\ \A f \in FiltersOf(p, group) :
          /\ \A x \in f.exclude : ~Matches(x.licenses, license)
          /\ \A v \in f.licenses : ValueAllows(v, {license})

-----------------------------------------------------------------------------
(* Paths.  [logical, suffix]: the names down from the root, and the suffix of  *)
(* a manifest's document ("" for a directory).                                 *)

\* A selected path is declared in full, or without its suffix.
Named(declared, paths) ==
    {i \in DOMAIN paths : declared \in {paths[i], [paths[i] EXCEPT !.suffix = ""]}}

Covers(path, manifest) ==
    /\ Len(path.logical) <= Len(manifest.logical)
    /\ path.logical = SubSeq(manifest.logical, 1, Len(path.logical))

\* selectedCorpusGroup: the longest path above the manifest, the first of two.
Group(manifest, paths) ==
    LET above == {i \in DOMAIN paths : Covers(paths[i], manifest)}
        longer(i, j) == Len(paths[i].logical) > Len(paths[j].logical)
    IN  paths[CHOOSE i \in above : \A j \in above : longer(i, j) \/ (~longer(j, i) /\ i <= j)]

GroupOf(pin) == Group(pin.manifest, bill.paths)

-----------------------------------------------------------------------------
(* Steps.                                                                      *)

Init ==
    /\ request \in Requests /\ bill \in Bills
    /\ policy = {} /\ reviewed = {} /\ announced = {} /\ pending = {} /\ streamed = {}
    /\ phase = "plan"

\* recordFilterPolicy: the filters by the path each was declared for; of two
\* declarations of one path, the later.
MeantBy(n) == {bill.paths[i] : i \in Named(request.corpora[n].path, bill.paths)}

Declared ==
    LET last(path) == CHOOSE n \in DOMAIN request.corpora :
                         /\ path \in MeantBy(n)
                         /\ \A later \in n + 1 .. Len(request.corpora) : path \notin MeantBy(later)
    IN  [path \in UNION {MeantBy(n) : n \in DOMAIN request.corpora} |->
            request.corpora[last(path)].filter]

\* A declared path that names none, or more than one, of the selected is refused.
DeclarationsValid ==
    /\ \A f \in request.global : FilterValid(f)
    /\ \A n \in DOMAIN request.corpora : Cardinality(MeantBy(n)) = 1
    /\ \A path \in DOMAIN Declared : FilterValid(Declared[path])

Configured == request.global # {} \/ request.corpora # << >>

\* A tokenizer is always trained on distributable records.
Restricted == request.distributable \/ request.kind = "tokenizer"

Plan ==
    /\ phase = "plan"
    /\ IF ~DeclarationsValid THEN Refuse /\ UNCHANGED policy
       ELSE /\ policy' = IF Configured \/ Restricted
                         THEN {[global |-> request.global, corpora |-> Declared,
                                distributable |-> Restricted]}
                         ELSE {}
            /\ phase' = IF Restricted THEN "review" ELSE "warn"
    /\ UNCHANGED <<request, bill, reviewed, announced, pending, streamed>>

\* The licenses of a manifest; of the whole bill if it pins none.
LicensesOf(manifest) ==
    LET own == {i \in DOMAIN bill.pins : bill.pins[i].manifest = manifest.path}
    IN  UNION {bill.pins[i].licenses : i \in IF own = {} THEN DOMAIN bill.pins ELSE own}

Approved(manifest) ==
    {l \in LicensesOf(manifest) :
        DistributableLicense(l) /\ \A p \in policy : ReviewAllows(p, manifest.path, l)}

\* Every source of a manifest with an approved license is pinned and evidenced.
Evidenced(manifest) == \A s \in manifest.sources : s.pinned /\ s.evidence

\* ReviewDistributable.
Review ==
    LET approved == UNION {Approved(m) : m \in bill.manifests}
    IN
    /\ phase = "review"
    /\ IF approved = {} \/ \E m \in bill.manifests : Approved(m) # {} /\ ~Evidenced(m)
       THEN Refuse /\ UNCHANGED reviewed
       ELSE reviewed' = approved /\ phase' = "warn"
    /\ UNCHANGED <<request, bill, policy, announced, pending, streamed>>

\* Conversations and the rows of the current schemas have assessments.
Unassessed(pin) == pin.format = "v1"

\* ContentAssessmentExclusions.
AssessmentsAsked(group) ==
    UNION {UNION {(IF x.repetitive # {} THEN {"repetitive_content"} ELSE {})
                  \union (IF x.boilerplate # {} THEN {"boilerplate_content"} ELSE {})
                  : x \in f.exclude}
           : f \in UNION {FiltersOf(p, group) : p \in policy}}

\* The objects are materialized each once, as the first shard that pins it.
Inputs == {i \in DOMAIN bill.pins :
              \A j \in 1 .. i - 1 : bill.pins[j].object # bill.pins[i].object}

\* emitUnassessedFilterWarning.
Warn ==
    /\ phase = "warn"
    /\ announced' = UNION {AssessmentsAsked(GroupOf(bill.pins[i])) :
                              i \in {j \in DOMAIN bill.pins : Unassessed(bill.pins[j])}}
    /\ pending' = Inputs
    /\ phase' = "scan"
    /\ UNCHANGED <<request, bill, policy, reviewed, streamed>>

\* A record as its shard's format shows it.
View(row, format) ==
    CASE format = "v1" -> [row EXCEPT !.repetitive = {}, !.boilerplate = {}, !.main = TRUE]
      [] format = "v2" -> [row EXCEPT !.main = TRUE]
      [] OTHER -> row

Kept(pin, row) == \A p \in policy : PolicyAllows(p, GroupOf(pin), View(row, pin.format))

\* One object is read, in whatever order the workers take them.
Scan ==
    /\ phase = "scan"
    /\ \E i \in pending :
          /\ streamed' = streamed \union
                {[pin |-> i, row |-> r] : r \in {r \in bill.pins[i].rows : Kept(bill.pins[i], r)}}
          /\ pending' = pending \ {i}
          /\ phase' = IF pending' = {} THEN "done" ELSE "scan"
    /\ UNCHANGED <<request, bill, policy, reviewed, announced>>

Next == Plan \/ Review \/ Warn \/ Scan

Spec == Init /\ [][Next]_vars

-----------------------------------------------------------------------------
(* Properties.                                                                 *)

\* The review reads the licenses that manifests declare and looks filters up by
\* manifest, the stream the licenses of the rows and filters by selected path.
\* Still no record of a distributable selection is kept under a license that
\* was not reviewed, or from a manifest whose sources nobody had to evidence.
ReviewCoversStream ==
    request.kind = "tokenizer" \/ request.distributable =>
        \A kept \in streamed :
            /\ kept.row.license \in Distributable \intersect reviewed
            /\ \E m \in bill.manifests :
                  /\ m.path = bill.pins[kept.pin].manifest
                  /\ \A s \in m.sources : s.pinned /\ s.evidence

\* What the row itself says of the assessments, had its shard recorded them.
Escapes(kept, field) ==
    LET pin == bill.pins[kept.pin]
    IN  \E p \in policy : \E f \in FiltersOf(p, GroupOf(pin)) : \E x \in f.exclude :
            IF field = "repetitive_content" THEN x.repetitive \intersect kept.row.repetitive # {}
            ELSE x.boilerplate \intersect kept.row.boilerplate # {}

\* A record that a filter is meant to exclude is kept only because its shard
\* predates the assessment, and then the warning named the filter.
EscapesAreAnnounced ==
    \A kept \in streamed : \A field \in {"repetitive_content", "boilerplate_content"} :
        Escapes(kept, field) =>
            Unassessed(bill.pins[kept.pin]) /\ field \in announced

\* The filter of the most specific selected path is the one that counts, and no
\* other: a record is kept exactly when the filters declared for all corpora and
\* for that path, and the distribution policy, let it through.  (Two selected
\* manifests that differ in their suffix alone share one group, see README.)
SelectionIsSpecific ==
    phase = "done" /\ (\A k, l \in DOMAIN bill.paths :
                          bill.paths[k].logical = bill.paths[l].logical => k = l) =>
        \A i \in Inputs : \A row \in bill.pins[i].rows :
            LET manifest == bill.pins[i].manifest
                view == View(row, bill.pins[i].format)
            IN  [pin |-> i, row |-> row] \in streamed <=>
                    /\ request.kind = "tokenizer" \/ request.distributable
                          => row.license \in Distributable
                    /\ \A f \in request.global : FilterAllows(f, view)
                    /\ \A k \in DOMAIN bill.paths :
                          /\ bill.paths[k] \in DOMAIN Declared
                          /\ Covers(bill.paths[k], manifest)
                          /\ ~\E l \in DOMAIN bill.paths :
                                /\ Covers(bill.paths[l], manifest)
                                /\ Len(bill.paths[l].logical) > Len(bill.paths[k].logical)
                          => FilterAllows(Declared[bill.paths[k]], view)

SelectionIsSound == ReviewCoversStream /\ EscapesAreAnnounced /\ SelectionIsSpecific
=============================================================================
