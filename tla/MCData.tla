-------------------------------- MODULE MCData --------------------------------
(* The way of the data from a file to a training sequence, one station after *)
(* the other: a corpus's files are read (`Input`), the corpus is entered     *)
(* into a checkout (the extended module), the bill of materials of a stage   *)
(* is built from checkouts (`Bill`), its records are filtered (`Choice`) and *)
(* some of them held out (`Preflight`), and its sequences are counted and    *)
(* packed (`Packing`). The stations hand over files and share no state, so   *)
(* each behaviour is of one of them, and the variables of the others hold    *)
(* nothing.                                                                  *)
EXTENDS IndexContribution

CONSTANTS root, group, inGroup1, inGroup2, alone

\* A checkout with a group of two destinations that does not exist yet, and a
\* third destination directly below the root.
MCDirs == {root, group, inGroup1, inGroup2, alone}
MCDestinations == {inGroup1, inGroup2, alone}
MCParentOf == [d \in MCDirs \ {root} |-> IF d \in {inGroup1, inGroup2} THEN group ELSE root]

-----------------------------------------------------------------------------
(* Command lines and manifests of one or two sources.                        *)

Plain == [type |-> "", format |-> ""]
Mapping(type, format) == [type |-> type, format |-> format]
Direct(profile, forced, column) ==
  [manifest |-> FALSE, source |-> <<"s", "s">>, profile |-> [s |-> profile], forced |-> forced,
   code |-> FALSE, column |-> column, excluded |-> {}]
FromManifest(source, profiles, code, excluded) ==
  [manifest |-> TRUE, source |-> source, profile |-> profiles, forced |-> "",
   code |-> code, column |-> FALSE, excluded |-> excluded]

MCRequests ==
  {Direct(p, "", FALSE) : p \in {Plain, Mapping("record-map", ""), Mapping("bounded-text", ""),
                                 Mapping("separated-text", ""), Mapping("xml-record", "")}}
  \union {Direct(Plain, f, FALSE) : f \in {"text", "mbox", "parquet"}}
  \union {Direct(Plain, "", TRUE)}
  \union {FromManifest(<<"s", "s">>, [s |-> p], FALSE, {}) :
            p \in {Mapping("", "text"), Mapping("", "pdf"), Mapping("record-map", "jsonl")}}
  \union {FromManifest(<<"s", "s">>, [s |-> Mapping("", "text")], TRUE, {})}
  \union {FromManifest(<<"s", "s">>, [s |-> p], FALSE, {"old"}) :
            p \in {Mapping("record-map", "jsonl"), Mapping("xml-record", "xml"),
                   Mapping("separated-text", "text")}}
  \union {FromManifest(<<"s", "t">>, [s |-> p, t |-> Mapping("", "text")], FALSE, {}) :
            p \in {Mapping("record-map", "jsonl"), Mapping("", "text")}}
  \union {FromManifest(<<"s", "t">>, [s |-> Mapping("record-map", "jsonl"),
                                      t |-> Mapping("dialogue-pair", "jsonl")], FALSE, {})}

MCKinds == {"empty", "text", "large", "ragged", "mbox", "jsonl", "parquet", "xml", "pdf",
            "compressed"}
\* The characters of a large text, by their bytes: the second has one that
\* straddles the end of a chunk.
MCWidths == [large |-> <<1, 1, 1, 1, 1, 1, 1>>, ragged |-> <<1, 1, 1, 3, 1, 1>>]

(* Shards with one license, with a compound one, with a malformed one, and   *)
(* two that disagree on the size of their object.                            *)
ShardOf(object, bytes, licenses, emails) ==
  [object |-> object, bytes |-> bytes, licenses |-> licenses, emails |-> emails]
MCShards == {ShardOf("o", 1, {"A"}, 0), ShardOf("o", 2, {"A"}, 0),
             ShardOf("q", 1, {"A", "AorB"}, 1), ShardOf("r", 1, {"(A"}, 0)}
MCTerms(license) == CASE license = "A" -> {"A"} [] license = "AorB" -> {"A", "B"} [] OTHER -> {}
Pattern(hits, compound) == [hits |-> hits, compound |-> compound]
PolicyOf(include, exclude) == [include |-> include, exclude |-> exclude]
MCPolicies ==
  LET A == Pattern({"A"}, FALSE)
  IN  {PolicyOf({}, {}), PolicyOf({A, Pattern({"AorB"}, TRUE)}, {}),
       PolicyOf({Pattern({"A", "B", "AorB"}, FALSE)}, {}), PolicyOf({}, {Pattern({"B"}, FALSE)})}

(* Filters of records, over rows of three licenses, one of them malformed.   *)
Hits(values) == [hits |-> values, compound |-> FALSE, ok |-> TRUE]
Values(include, exclude, unset) == [include |-> include, exclude |-> exclude, unset |-> unset]
NoFilter == [main |-> {}, exclude |-> {}, licenses |-> {}, languages |-> {}, sources |-> {},
             metadata |-> << >>, date |-> {}]
Without(repetitive, boilerplate, unwanted) ==
  [NoFilter EXCEPT !.exclude = {[repetitive |-> repetitive, boilerplate |-> boilerplate,
                                 licenses |-> unwanted]}]
OnlyA == [NoFilter EXCEPT !.licenses = {Values({Hits({"A"})}, {}, FALSE)}]
NoB == Without({}, {}, {Hits({"B"})})
NoRepetition == Without({TRUE}, {}, {})
MCFilters ==
  {OnlyA, NoB, NoRepetition, Without({}, {FALSE}, {}),
   [NoFilter EXCEPT !.main = {TRUE}], [NoB EXCEPT !.licenses = OnlyA.licenses],
   [NoFilter EXCEPT !.languages = {Values({Hits({"en"})}, {}, TRUE)}],
   [NoFilter EXCEPT !.sources = {Values({}, {Hits({"s1", "n2"})}, FALSE)}],
   [NoFilter EXCEPT !.metadata = [k |-> Values({}, {Hits({"x"})}, FALSE)]],
   [NoFilter EXCEPT !.date = {[from |-> {<<15, 15>>}, to |-> {}]}],
   [NoFilter EXCEPT !.date = {[from |-> {}, to |-> {<<15, 15>>}]}],
   [NoFilter EXCEPT !.date = {[from |-> {<< >>}, to |-> {}]}]}

Path(logical, suffix) == [logical |-> logical, suffix |-> suffix]
DirA == Path(<<"a">>, "")
FileB == Path(<<"a", "b">>, ".yaml")
TwinB == Path(<<"a", "b">>, ".json")
FileC == Path(<<"a", "c">>, ".yaml")
NameB == Path(<<"a", "b">>, "")
For(path, conditions) == [path |-> path, filter |-> conditions]
MCRecordRequests ==
  [kind : {"stage", "tokenizer"}, distributable : BOOLEAN,
   global : {{}} \union {{f} : f \in MCFilters},
   corpora : {<< >>, <<For(DirA, OnlyA)>>, <<For(NameB, NoRepetition)>>, <<For(FileC, NoB)>>,
              <<For(DirA, NoRepetition), For(FileB, NoB)>>,
              <<For(NameB, OnlyA), For(FileB, NoFilter)>>,
              <<For(NameB, NoRepetition), For(FileB, NoB)>>}]

RowOf(license, language, source, name, metadata, date, repetitive, main) ==
  [license |-> license, language |-> language, source |-> source, sourceName |-> name,
   metadata |-> metadata, date |-> date, repetitive |-> {repetitive},
   boilerplate |-> {~repetitive}, main |-> main]
MCRows == {RowOf("A", "en", "s1", "n1", {[k |-> {"x"}]}, <<10, 20>>, FALSE, TRUE),
           RowOf("A", "", "s2", "n1", {[j |-> {}]}, <<20, 30>>, TRUE, FALSE),
           RowOf("AorB", "fr", "s2", "n2", {[k |-> {}]}, <<10, 14>>, TRUE, TRUE),
           RowOf("(A", "en", "s2", "", {}, << >>, FALSE, TRUE)}
PinOf(manifest, object, format, rows) ==
  [manifest |-> manifest, object |-> object, format |-> format, rows |-> rows,
   licenses |-> {row.license : row \in rows}]
FromSource(path, sourced, evidence) ==
  [path |-> path, sources |-> {[pinned |-> sourced, evidence |-> evidence]}]
MCBills ==
  LET pair(paths, m, n, pins) ==
        {[paths |-> paths, manifests |-> {FromSource(m, TRUE, e), FromSource(n, p, TRUE)},
          pins |-> pins] : e \in BOOLEAN, p \in BOOLEAN}
      licensed == {row \in MCRows : row.license = "A"}
      contents(m, n) == {<<PinOf(m, "o", format, MCRows)>> : format \in {"v1", "v2", "v4", "conversation"}}
        \union {<<PinOf(m, "o", "v1", MCRows), PinOf(n, "q", "v4", licensed)>>,
                <<PinOf(m, "o", "v4", licensed), PinOf(n, "o", "v4", licensed)>>,
                <<PinOf(n, "q", "v2", MCRows \ licensed)>>}
  IN  UNION ({pair(paths, FileB, FileC, pins) :
                 paths \in {<<DirA>>, <<DirA, FileB>>, <<FileB, FileC>>}, pins \in contents(FileB, FileC)}
             \union {pair(<<TwinB, FileB>>, TwinB, FileB, <<PinOf(FileB, "o", "v4", licensed)>>)})

-----------------------------------------------------------------------------
VARIABLES
  station,
  wanted, chosen, rpolicy, reviewed, announced, pending, streamed, rphase,
  request, files, file, inode, iphase, why, listed, pinned, plan, reader, irows, rejected, edits,
  catalog, targets, licenses, bom, work, expanded, fetched, bphase, bfaults,
  policy, filter, attempt, pc, stage, cancelled, next, worker, results, heaps, scanned, part,
  planned, verified, selections, runs, pfaults,
  length, batch, records, question, requested, epochs, epoch, row, packer, supervised, steps,
  phase, buffer, ordinal

choice == <<wanted, chosen, rpolicy, reviewed, announced, pending, streamed, rphase>>
input == <<request, files, file, inode, iphase, why, listed, pinned, plan, reader, irows,
           rejected, edits>>
bill == <<catalog, targets, licenses, bom, work, expanded, fetched, bphase, bfaults>>
preflight == <<policy, filter, attempt, pc, stage, cancelled, next, worker, results, heaps,
               scanned, part, planned, verified, selections, runs, pfaults>>
packing == <<length, batch, records, question, requested, epochs, epoch, row, packer, supervised,
             steps, phase, buffer, ordinal>>

Input == INSTANCE InputConversion WITH
  Paths <- {1, 2}, Kinds <- MCKinds, Requests <- MCRequests, Widths <- MCWidths,
  ChunkSize <- 4, MaxEdits <- 1,
  tree <- files, phase <- iphase, rows <- irows
Bill == INSTANCE BillOfMaterials WITH
  Shards <- MCShards, Manifests <- {1, 2}, Rollups <- {2}, MaxListed <- 3, Policies <- MCPolicies,
  Terms <- MCTerms, MaxFaults <- 1,
  policy <- licenses, phase <- bphase, faults <- bfaults
Choice == INSTANCE RecordFilter WITH
  Requests <- MCRecordRequests, Bills <- MCBills, Distributable <- {"A"}, Terms <- MCTerms,
  request <- wanted, bill <- chosen, policy <- rpolicy, phase <- rphase
Preflight == INSTANCE StagePreflight WITH
  Workers <- {1, 2}, Fraction <- 2, Caps <- {2}, Budgets <- {2}, Seeds <- {3},
  Policies <- {"none", "lowest", "stratified", "tail", "indexed", "stratified-indexed"},
  Requested <- 3, MaxAttempts <- 2, MaxFaults <- 1,
  steps <- planned, faults <- pfaults
Packing == INSTANCE SequencePacking WITH
  Lengths <- {1, 2, 3}, Batches <- {1, 2}, Requests <- {1, 2, 3}, MaxRecords <- 3,
  MaxEpochs <- 3, targets <- supervised

-----------------------------------------------------------------------------
NoInput ==
  /\ request = 0 /\ files = 0 /\ file = 0 /\ inode = 0 /\ iphase = 0 /\ why = 0 /\ listed = 0
  /\ pinned = 0 /\ plan = 0 /\ reader = 0 /\ irows = 0 /\ rejected = 0 /\ edits = 0
NoBill ==
  /\ catalog = 0 /\ targets = 0 /\ licenses = 0 /\ bom = 0 /\ work = 0 /\ expanded = 0
  /\ fetched = 0 /\ bphase = 0 /\ bfaults = 0
NoChoice ==
  /\ wanted = 0 /\ chosen = 0 /\ rpolicy = 0 /\ reviewed = 0 /\ announced = 0 /\ pending = 0
  /\ streamed = 0 /\ rphase = 0
NoPreflight ==
  /\ policy = 0 /\ filter = 0 /\ attempt = 0 /\ pc = 0 /\ stage = 0 /\ cancelled = 0 /\ next = 0
  /\ worker = 0 /\ results = 0 /\ heaps = 0 /\ scanned = 0 /\ part = 0 /\ planned = 0
  /\ verified = 0 /\ selections = 0 /\ runs = 0 /\ pfaults = 0
NoPacking ==
  /\ length = 0 /\ batch = 0 /\ records = 0 /\ question = 0 /\ requested = 0 /\ epochs = 0
  /\ epoch = 0 /\ row = 0 /\ packer = 0 /\ supervised = 0 /\ steps = 0 /\ phase = 0
  /\ buffer = 0 /\ ordinal = 0
NoCheckout ==
  /\ late = {} /\ dirs = {} /\ tree = 0 /\ overlay = 0
  /\ cmd = [c \in Destinations |-> Idle] /\ applied = {} /\ faults = 0

MCInit ==
  \/ station = "checkout" /\ Init /\ NoInput /\ NoBill /\ NoChoice /\ NoPreflight /\ NoPacking
  \/ station = "input" /\ Input!Init /\ NoCheckout /\ NoBill /\ NoChoice /\ NoPreflight /\ NoPacking
  \/ station = "bill" /\ Bill!Init /\ NoCheckout /\ NoInput /\ NoChoice /\ NoPreflight /\ NoPacking
  \/ station = "choice" /\ Choice!Init /\ NoCheckout /\ NoInput /\ NoBill /\ NoPreflight /\ NoPacking
  \/ station = "preflight" /\ Preflight!Init /\ NoCheckout /\ NoInput /\ NoBill /\ NoChoice /\ NoPacking
  \/ station = "packing" /\ Packing!Init /\ NoCheckout /\ NoInput /\ NoBill /\ NoChoice /\ NoPreflight

MCNext ==
  \/ station = "checkout" /\ Next /\ UNCHANGED <<station, input, bill, choice, preflight, packing>>
  \/ station = "input" /\ Input!Next /\ UNCHANGED <<station, vars, bill, choice, preflight, packing>>
  \/ station = "bill" /\ Bill!Next /\ UNCHANGED <<station, vars, input, choice, preflight, packing>>
  \/ station = "choice" /\ Choice!Next /\ UNCHANGED <<station, vars, input, bill, preflight, packing>>
  \/ station = "preflight" /\ Preflight!Next /\ UNCHANGED <<station, vars, input, bill, choice, packing>>
  \/ station = "packing" /\ Packing!Next /\ UNCHANGED <<station, vars, input, bill, choice, preflight>>

MCSpec == MCInit /\ [][MCNext]_<<station, vars, input, bill, choice, preflight, packing>>

-----------------------------------------------------------------------------
(* Whatever is edited while files are listed, probed, verified and read, an  *)
(* ingestion that succeeds converted the pinned bytes, each once and in      *)
(* order (InputConversion, record_map.go and the adapters).                  *)
IngestedIsPinned == station = "input" => Input!IngestedIsPinned

(* An ingestion nobody disturbs and a bill of a sound index are not refused, *)
(* but for the causes the two modules name (plan.go, bom_validate.go).       *)
RefusalHasCause ==
  /\ station = "input" => Input!FailureHasCause
  /\ station = "bill" => Bill!FailureHasCause

(* A bill pins every selected manifest once, and of each exactly the shards  *)
(* the license policy wants (BillOfMaterials, bom.go); of its records exactly *)
(* those the filters ask for are read, none under a license that was not      *)
(* reviewed or by a filter ignored in silence (RecordFilter, record_filter.go). *)
BomIsExact ==
  /\ station = "bill" => Bill!BomIsExact
  /\ station = "choice" => Choice!SelectionIsSound

(* The held-out records are those the corpus and the policy determine,       *)
(* whatever order they are scanned in and whatever cache they come from; the *)
(* rest is what is trained on and counted (StagePreflight, stream.go).       *)
HoldoutIsDetermined ==
  station = "preflight" =>
    Preflight!HoldoutIsDetermined /\ Preflight!TrainingIsTheRest /\ Preflight!StepsAreEarned

(* The sequences that the plan counts are those the trainer packs, and no    *)
(* accepted plan runs out of them (SequencePacking, stream.go).              *)
PlanIsExact == station = "packing" => Packing!PackerCountsTheStream /\ Packing!PlanIsExact

(* What the comment above StreamTextBatches says of its revalidation: an     *)
(* artifact reported as changed was changed (text.go).                       *)
ChangedMeansChanged == station = "input" => Input!ChangedMeansChanged
===============================================================================
