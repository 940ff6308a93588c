--------------------------- MODULE InputConversion ---------------------------
(* How `index ingest` turns acquired files into records: the manifest of a     *)
(* corpus directory is loaded (internal/ingest/corpus_directory.go), every     *)
(* file is hashed and its format detected (probe.go), the plan pins each file  *)
(* with the adapter that will read it (plan.go), and the adapters convert the  *)
(* files in path order (pipeline.go, text.go, record_map.go, ...).  Somebody   *)
(* may edit, truncate, replace, add or remove files at any moment.             *)
(*                                                                             *)
(* A file's bytes are its kind, which its first half shows, and a tail, read   *)
(* later.  An adapter that holds a file open keeps reading the same inode when *)
(* the path is replaced.  The workers of the probe are one here: they share no *)
(* file, and edits of different files commute.                                 *)
EXTENDS Integers, FiniteSets, SequencesExt

CONSTANTS
    Paths,      \* file names, in path order: 1 .. n
    Kinds,      \* kinds of content files may have at the start
    Requests,   \* the user's command lines and manifests
    Widths,     \* per kind of large text: the bytes of its characters
    ChunkSize,  \* bytes of a chunk of large text
    MaxEdits

VARIABLES
    request,    \* what the command was asked
    tree,       \* the content the manifest vouches for, per path
    file,       \* per path: its inode, 0 when there is no such file
    inode,      \* contents and modification stamp of every inode
    phase, why, \* progress of the command, and why it failed
    listed,     \* paths to ingest
    pinned,     \* per path: what the probe found
    plan,       \* accepted inputs, in path order
    reader,     \* the file being read
    rows,       \* tokens converted so far
    rejected,   \* tokens refused by the license policy
    edits

vars == <<request, tree, file, inode, phase, why, listed, pinned, plan, reader, rows, rejected, edits>>
disk == <<tree, file, inode, edits>>

-----------------------------------------------------------------------------
(* Contents, and large text read chunk by chunk.                               *)

Nothing == [kind |-> "none", tail |-> ""]
Empty == [kind |-> "empty", tail |-> ""]

IsLarge(kind) == kind \in DOMAIN Widths

\* detect: large text is text.
Format(kind) == IF IsLarge(kind) THEN "text" ELSE kind

Sum(ws) == FoldSeq(LAMBDA w, n : w + n, 0, ws)
Boundary(ws, at) == Sum(SubSeq(ws, 1, CHOOSE n \in 0 .. Len(ws) :
    Sum(SubSeq(ws, 1, n)) <= at /\ (n < Len(ws) => Sum(SubSeq(ws, 1, n + 1)) > at)))

\* Bytes delivered after k chunks: each starts with what its predecessor could
\* not complete, and so reads that much less.
Delivered(ws) ==
    LET bytes == Sum(ws)
        after[k \in Nat] == IF k = 0 THEN 0
                            ELSE Boundary(ws, IF after[k - 1] + ChunkSize > bytes THEN bytes
                                              ELSE after[k - 1] + ChunkSize)
    IN  after[(bytes + ChunkSize - 1) \div ChunkSize]

\* streamLargeTextInput reads as many chunks as the size needs.
AllRead(kind) == IsLarge(kind) => Delivered(Widths[kind]) = Sum(Widths[kind])

-----------------------------------------------------------------------------
(* Planning one input.                                                         *)

ConversationTypes == {"dialogue-pair"}
RecordTypes == {"record-map"} \union ConversationTypes
CodeFormats == {"text", "markdown", "jsonl", "xml", "mbox"}

SourceOf(path) == request.source[path]
Profile(path) == request.profile[SourceOf(path)]

DeclaredFormatMatches(declared, format) ==
    \/ declared = format
    \/ declared = "text" /\ (format = "markdown" \/ (request.code /\ format \in CodeFormats))
    \/ declared = "markdown" /\ format = "text"

\* The format an artifact is planned as, "" when the manifest disagrees.
PlannedFormat(path, format) ==
    LET declared == Profile(path).format
    IN  CASE request.forced # "" -> request.forced
          [] request.forced = "" /\ declared # "" ->
                IF DeclaredFormatMatches(declared, format) THEN declared ELSE ""
          [] request.forced = "" /\ declared = "" ->
                IF request.code /\ format \in CodeFormats THEN "text" ELSE format

\* The adapter of a planned format, "" when there is none.
Adapter(path, kind) ==
    LET format == PlannedFormat(path, Format(kind))
        type == Profile(path).type
    IN  CASE type \in RecordTypes -> IF format \in {"jsonl", "parquet"} THEN format ELSE ""
          [] type \in {"bounded-text", "separated-text"} -> IF format = "text" THEN type ELSE ""
          [] type = "xml-record" -> IF format = "xml" THEN type ELSE ""
          [] type = "" /\ format = "parquet" -> IF request.column /\ kind = "parquet" THEN format ELSE ""
          [] type = "" /\ format # "parquet" ->
                IF format \in {"text", "markdown", "mbox", "pdf"} THEN format ELSE ""

\* Plan.Validate knows every detected format but images, and mbox only plain
\* or in a compression it can open.
InputValid(kind) ==
    /\ request.forced # "" => kind # "image"
    /\ ~(request.forced = "mbox" /\ Profile(1).type = "" /\ kind = "compressed")

\* Mutant: an empty file of a manifest-backed tree is planned like any other.
IncludedWithEmpty(path) == pinned[path] # Nothing

\* Manifest-backed trees may hold empty files; they are left out.
Included(path) == pinned[path] # Nothing /\ ~(request.manifest /\ pinned[path] = Empty)

Inputs == SetToSortSeq({p \in Paths : Included(p)}, <)

\* One plan writes plain text or conversations.
Mixed ==
    \E p, q \in {r \in Paths : Included(r)} :
        Profile(p).type \in ConversationTypes /\ Profile(q).type \notin ConversationTypes

-----------------------------------------------------------------------------
(* Reading one file.  "verify" hashes it, "convert" hands out its tokens.      *)

NoReader == [at |-> "closed"]

Open(path, pass) ==
    [at |-> "head", path |-> path, pass |-> pass, inode |-> file[path],
     stamp |-> inode[file[path]].stamp, size |-> inode[file[path]].bytes # Empty,
     head |-> "", tail |-> ""]

Held == inode[reader.inode]

\* Text and Markdown are hashed while they are converted, every other adapter
\* hashes the file first and then reads it again.
OnePass(adapter) == adapter \in {"text", "markdown"}

\* Adapters that hand out records before they have read the whole file.
Streams(adapter, kind) ==
    adapter \in {"jsonl", "parquet", "mbox", "separated-text"} \/ (OnePass(adapter) /\ IsLarge(kind))

\* What an adapter can parse.
Parses(adapter, kind) ==
    CASE adapter \in {"text", "markdown"} -> Format(kind) \in CodeFormats
      [] adapter = "separated-text" -> Format(kind) \in CodeFormats
      [] adapter = "bounded-text" -> Format(kind) \in CodeFormats /\ ~IsLarge(kind)
      [] adapter = "xml-record" -> kind = "xml"
      [] OTHER -> Format(kind) = adapter

Read == [kind |-> reader.head, tail |-> reader.tail]

Pinned == pinned[reader.path]

Unchanged == Held.stamp = reader.stamp /\ (Held.bytes # Empty) = reader.size

\* verifyPlannedArtifact, and the check at the end of a one-pass adapter.
DigestHolds == Read = Pinned /\ Unchanged

Excluded(tail) == tail \in request.excluded

Row(token) == [path |-> reader.path, source |-> SourceOf(reader.path), token |-> token]

Current == plan[1]

Goto(next) == phase' = next /\ UNCHANGED why
Fail(cause) == phase' = "failed" /\ why' = cause

-----------------------------------------------------------------------------
(* The command.                                                                *)

Contents == [kind : Kinds, tail : {"old"}] \union (IF "empty" \in Kinds THEN {Empty} ELSE {})

Init ==
    /\ request \in Requests
    /\ \E content \in [Paths -> (Contents \ [kind : {"empty"}, tail : {"old"}]) \union {Nothing}],
          known \in BOOLEAN :
          /\ content[1] # Nothing
          /\ file = [p \in Paths |-> IF content[p] = Nothing THEN 0 ELSE p]
          /\ inode = [p \in Paths |-> [bytes |-> content[p], stamp |-> 0]]
          /\ tree = IF known THEN content ELSE [content EXCEPT ![1].tail = "other"]
    /\ phase = "load" /\ why = "" /\ listed = {} /\ plan = <<>>
    /\ pinned = [p \in Paths |-> Nothing]
    /\ reader = NoReader /\ rows = <<>> /\ rejected = 0 /\ edits = 0

Present == {p \in Paths : file[p] # 0}

\* LoadCorpusDirectory lists the files of every source; a source without files
\* is refused.  A direct input is listed by the probe.
Load ==
    /\ phase = "load"
    /\ listed' = Present
    /\ IF \A s \in DOMAIN request.profile : request.manifest =>
              \E p \in Present : SourceOf(p) = s
       THEN Goto("walk") ELSE Fail("missing")
    /\ UNCHANGED <<disk, request, pinned, plan, reader, rows, rejected>>

\* regularFiles: the files of a manifest must still be there.
Walk ==
    /\ phase = "walk"
    /\ listed' = IF request.manifest THEN listed ELSE Present
    /\ IF request.manifest /\ ~(listed \subseteq Present) THEN Fail("missing")
       ELSE IF listed' = {} THEN Fail("missing") ELSE Goto("probe")
    /\ UNCHANGED <<disk, request, pinned, plan, reader, rows, rejected>>

Unprobed == {p \in listed : pinned[p] = Nothing}

Probe ==
    /\ phase = "probe" /\ reader = NoReader /\ Unprobed # {}
    /\ LET p == CHOOSE q \in Unprobed : \A r \in Unprobed : q <= r
       IN  IF file[p] = 0 THEN Fail("missing") /\ UNCHANGED reader
           ELSE reader' = Open(p, "probe") /\ UNCHANGED <<phase, why>>
    /\ UNCHANGED <<disk, request, listed, pinned, plan, rows, rejected>>

\* probeFile: a file that changed while it was hashed is refused.
Probed ==
    /\ phase = "probe" /\ reader.at = "done"
    /\ reader' = NoReader
    /\ IF Unchanged
       THEN /\ pinned' = [pinned EXCEPT ![reader.path] = Read]
            /\ UNCHANGED <<phase, why>>
       ELSE Fail("changed") /\ UNCHANGED pinned
    /\ UNCHANGED <<disk, request, listed, plan, rows, rejected>>

\* VerifyProbe: the probed files are those the manifest vouches for.
VerifyProbe ==
    /\ phase = "probe" /\ reader = NoReader /\ Unprobed = {}
    /\ IF request.manifest /\ pinned # tree THEN Fail("tree") ELSE Goto("plan")
    /\ UNCHANGED <<disk, request, listed, pinned, plan, reader, rows, rejected>>

\* Every input has an adapter, and every source of a manifest an input.
Supported == \A p \in Paths : Included(p) => Adapter(p, pinned[p].kind) # ""

Served == request.manifest =>
    \A s \in DOMAIN request.profile : \E p \in Paths : Included(p) /\ SourceOf(p) = s

Refusal ==
    CASE ~Supported -> "unsupported"
      [] Supported /\ ~Served -> "empty"
      [] Supported /\ Served /\ Mixed -> "mixed"
      [] Supported /\ Served /\ ~Mixed ->
            IF \A p \in Paths : Included(p) => InputValid(pinned[p].kind) THEN "" ELSE "invalid"

\* NewPlan, and the validation it ends with.
NewPlan ==
    /\ phase = "plan"
    /\ IF Refusal # "" THEN Fail(Refusal) /\ UNCHANGED plan
       ELSE /\ plan' = [i \in 1 .. Len(Inputs) |->
                           [path |-> Inputs[i], adapter |-> Adapter(Inputs[i], pinned[Inputs[i]].kind)]]
            /\ Goto("convert")
    /\ UNCHANGED <<disk, request, listed, pinned, reader, rows, rejected>>

-----------------------------------------------------------------------------
(* Conversion, one input after the other.                                      *)

OpenInput ==
    /\ phase = "convert" /\ reader = NoReader /\ plan # <<>>
    /\ IF file[Current.path] = 0 THEN Fail("missing") /\ UNCHANGED reader
       ELSE /\ reader' = Open(Current.path, IF OnePass(Current.adapter) THEN "only" ELSE "verify")
            /\ UNCHANGED <<phase, why>>
    /\ UNCHANGED <<disk, request, listed, pinned, plan, rows, rejected>>

\* Streaming adapters hand a token out as soon as it is read.
HandsOut == phase = "convert" /\ reader.pass # "verify" /\ Streams(Current.adapter, Pinned.kind)

\* The rows a token becomes: none when the license policy excludes it.
HandOut(token) ==
    IF Excluded(token) THEN rejected' = rejected + 1 /\ UNCHANGED rows
    ELSE rows' = Append(rows, Row(token)) /\ UNCHANGED rejected

ReadHead ==
    /\ reader.at = "head"
    /\ reader' = [reader EXCEPT !.at = "tail", !.head = Held.bytes.kind]
    /\ IF HandsOut THEN HandOut(Held.bytes.kind) ELSE UNCHANGED <<rows, rejected>>
    /\ UNCHANGED <<disk, request, phase, why, listed, pinned, plan>>

ReadTail ==
    /\ reader.at = "tail"
    /\ reader' = [reader EXCEPT !.at = "done", !.tail = Held.bytes.tail]
    /\ IF HandsOut THEN HandOut(Held.bytes.tail) ELSE UNCHANGED <<rows, rejected>>
    /\ UNCHANGED <<disk, request, phase, why, listed, pinned, plan>>

\* The digest is the planned one: read the same open file again, from its start.
Verified ==
    /\ phase = "convert" /\ reader.at = "done" /\ reader.pass = "verify"
    /\ IF ~DigestHolds THEN Fail("changed") /\ reader' = NoReader
       ELSE IF ~Parses(Current.adapter, Read.kind) THEN Fail("unreadable") /\ reader' = NoReader
       ELSE reader' = [reader EXCEPT !.at = "head", !.pass = "again"] /\ UNCHANGED <<phase, why>>
    /\ UNCHANGED <<disk, request, listed, pinned, plan, rows, rejected>>

\* Mutant: a second reading is not followed by a look at the file.
AcceptedWithoutLooking == IF reader.pass = "only" THEN DigestHolds ELSE TRUE

\* The last check of an input: the digest for text, an unchanged size and
\* modification time (unchangedInput) for what was hashed before.
Accepted == IF reader.pass = "only" THEN DigestHolds /\ AllRead(Pinned.kind) ELSE Unchanged

\* Whole-file adapters hand out their record last.  A license their policy
\* excludes fails them: the rejection is expected from the wrong call.
Converted ==
    /\ phase = "convert" /\ reader.at = "done" /\ reader.pass \in {"only", "again"}
    /\ reader' = NoReader
    /\ IF ~Accepted
       THEN Fail("changed") /\ UNCHANGED <<plan, rows>>
       ELSE IF ~Parses(Current.adapter, Read.kind)
       THEN Fail("unreadable") /\ UNCHANGED <<plan, rows>>
       ELSE IF Current.adapter \in {"bounded-text", "xml-record"} /\ Excluded(Read.tail)
       THEN Fail("license") /\ UNCHANGED <<plan, rows>>
       ELSE /\ plan' = Tail(plan)
            /\ rows' = IF Streams(Current.adapter, Pinned.kind) THEN rows
                       ELSE rows \o <<Row(Read.kind), Row(Read.tail)>>
            /\ UNCHANGED <<phase, why>>
    /\ UNCHANGED <<disk, request, listed, pinned, rejected>>

Finish ==
    /\ phase = "convert" /\ reader = NoReader /\ plan = <<>>
    /\ Goto("done")
    /\ UNCHANGED <<disk, request, listed, pinned, plan, reader, rows, rejected>>

-----------------------------------------------------------------------------
(* Somebody else at the files.                                                 *)

Idle == UNCHANGED <<request, tree, phase, why, listed, pinned, plan, reader, rows, rejected>>

Edited(bytes) == {[bytes EXCEPT !.tail = "new"], Empty} \ {bytes}

WriteInPlace(p) ==
    /\ edits < MaxEdits /\ file[p] # 0 /\ phase \notin {"done", "failed"}
    /\ \E bytes \in Edited(inode[file[p]].bytes) :
          inode' = [inode EXCEPT ![file[p]] = [bytes |-> bytes, stamp |-> @.stamp + 1]]
    /\ edits' = edits + 1
    /\ UNCHANGED file /\ Idle

Replace(p) ==
    /\ edits < MaxEdits /\ phase \notin {"done", "failed"}
    /\ LET old == IF file[p] = 0 THEN [kind |-> "text", tail |-> "old"] ELSE inode[file[p]].bytes
       IN  \E bytes \in Edited(old) : inode' = Append(inode, [bytes |-> bytes, stamp |-> 0])
    /\ file' = [file EXCEPT ![p] = Len(inode) + 1]
    /\ edits' = edits + 1
    /\ Idle

Delete(p) ==
    /\ edits < MaxEdits /\ file[p] # 0 /\ phase \notin {"done", "failed"}
    /\ file' = [file EXCEPT ![p] = 0]
    /\ edits' = edits + 1
    /\ UNCHANGED inode /\ Idle

Next ==
    \/ Load \/ Walk \/ Probe \/ Probed \/ VerifyProbe \/ NewPlan
    \/ OpenInput \/ ReadHead \/ ReadTail \/ Verified \/ Converted \/ Finish
    \/ \E p \in Paths : WriteInPlace(p) \/ Replace(p) \/ Delete(p)

Spec == Init /\ [][Next]_vars

-----------------------------------------------------------------------------
(* Properties.                                                                 *)

\* The tokens of a path's content that the policy lets through.
TokensOf(path, content) ==
    LET tokens == SelectSeq(<<content.kind, content.tail>>, LAMBDA t : ~Excluded(t))
    IN  [i \in 1 .. Len(tokens) |-> [path |-> path, source |-> SourceOf(path), token |-> tokens[i]]]

Whole(content) ==
    FlattenSeq([p \in Paths |-> IF content[p] \in {Nothing, Empty} THEN <<>> ELSE TokensOf(p, content[p])])

\* An ingestion that succeeds has converted, in path order, each token of each
\* file once and for the source that holds it, and for a manifest-backed tree
\* these are the very bytes the manifest vouches for: whatever is edited,
\* replaced, added or removed between the listing, the probe, the verification
\* and the last read, no other byte becomes a record.
IngestedIsPinned ==
    phase = "done" =>
        /\ rows = Whole(pinned)
        /\ request.manifest => rows = Whole(tree)
        /\ Len(rows) + rejected = 2 * Cardinality({p \in Paths : pinned[p] \notin {Nothing, Empty}})

\* Formats and mappings that go together without being forced.
Natural(path, kind) ==
    LET p == Profile(path)
    IN  /\ request.forced = ""
        /\ p.format \in {"", Format(kind)}
        /\ \/ p.type = "" /\ Format(kind) \in {"text", "markdown", "mbox", "pdf"}
           \/ p.type = "" /\ request.code /\ Format(kind) \in CodeFormats
           \/ p.type = "" /\ kind = "parquet" /\ request.column
           \/ p.type \in RecordTypes /\ kind \in {"jsonl", "parquet"}
           \/ p.type = "bounded-text" /\ kind = "text"
           \/ p.type = "separated-text" /\ Format(kind) = "text"
           \/ p.type = "xml-record" /\ kind = "xml"

\* An ingestion of files nobody touches, whose mapping suits them and whose
\* manifest describes them, succeeds - unless a chunk of large text ends
\* inside a character where no byte is to spare, or a whole-file record has an
\* excluded license.
FailureHasCause ==
    phase = "failed" =>
        \/ edits > 0
        \/ why = "license" \/ Mixed
        \/ request.manifest /\ (tree # pinned \/ why \in {"missing", "empty"})
        \/ \E p \in Paths :
              /\ pinned[p] # Nothing /\ (pinned[p] = Empty => ~request.manifest)
              /\ ~Natural(p, pinned[p].kind)
        \/ \E p \in Paths : ~AllRead(pinned[p].kind)

\* "artifact changed after the ingestion plan was accepted" is reported only of
\* a file somebody has changed.
ChangedMeansChanged == why = "changed" => edits > 0
=============================================================================
