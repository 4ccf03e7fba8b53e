----------------------- MODULE NegativeListCollection -----------------------
(***************************************************************************)
(* The resumable collection of the financial negative list                 *)
(* (app/providers/tushare_financial_negative_list_collection.py), with the *)
(* response-boundary policy it applies to every row                        *)
(* (app/research/layer_two_financial_negative_list_response_boundary_      *)
(* policy.py).                                                             *)
(*                                                                         *)
(* A collector walks over the partitions (an endpoint and a symbol each)   *)
(* in order.  One that is on disk is validated and reused; otherwise the   *)
(* provider is asked, its rows are split by the boundary policy into those *)
(* that are stored and those that are quarantined, a receipt is written    *)
(* per quarantined row, and then the partition.  At the end the source     *)
(* manifest, the quality report and, last, the collection manifest are     *)
(* written, each from what is then on disk.                                *)
(*                                                                         *)
(* A collector may be killed between any two steps and started again, and  *)
(* the provider may answer the same question differently.  Nothing locks   *)
(* the staging directory: the model has the one collector the code is      *)
(* written for.  A kill may leave a temporary file behind, which only the  *)
(* directory of the receipts is scanned for.                               *)
(***************************************************************************)
EXTENDS StagingFiles, Integers, SequencesExt

CONSTANTS
    Walk,           \* the partitions in the order they are collected
    Endpoint,       \* per partition its endpoint
    PostWindow,     \* partitions of stocks listed after the window
    Worlds,         \* what the provider may answer, per partition
    RowLimit,       \* _ROW_LIMITS: answers this long may be truncated
    Own,            \* the request of this collection
    Requests        \* the requests collectors are started with

Partitions == ToSet(Walk)
Statements == {"balancesheet", "income"}
Reports == {"fina_indicator", "fina_audit"}

ASSUME CollectionConstants ==
    /\ Endpoint \in [Partitions -> Statements \cup Reports]
    /\ PostWindow \subseteq Partitions
    /\ Walk \in Seq(Partitions) /\ IsInjective(Walk)
    /\ Own \in Requests /\ Missing \notin Requests
    /\ MaxKills \in Nat

\* Dates matter by their place relative to the collection window.
Dates == {"before", "inside", "after"}

\* ann, f_ann: announcement dates or "none"; end: the reporting period;
\* meta: the other fields of a receipt ("untyped" has no end_type, "broken" one
\* no receipt may have); payload: the figures.
RowOK(row) ==
    /\ {row.ann, row.f_ann} \subseteq Dates \cup {"none"}
    /\ row.end \in Dates
    /\ row.meta \in {"full", "untyped", "broken"}

ASSUME CollectionAnswers ==
    \A w \in Worlds, p \in Partitions : \A a \in w[p] :
        a \in Seq(ToSet(a)) /\ \A row \in ToSet(a) : RowOK(row)

VARIABLES
    world,          \* what the provider may answer in this history
    request,        \* collection_request.json
    partition,      \* per partition the rows of its file
    receipts,       \* per partition the receipts of its quarantined rows
    strayTemp,      \* a temporary file is left among the receipts
    authorized,     \* the finalization authorization is committed
    sourceManifest,
    qualityReport,
    manifest,       \* collection_manifest.json
    worker,         \* the collector
    source,         \* (history) per partition the answer it was built from
    kills

staging == <<request, partition, receipts, strayTemp>>
seals == <<sourceManifest, qualityReport, manifest>>
negativeVars == <<world, staging, authorized, seals, worker, source, kills>>

Off == [pc |-> "off", request |-> Own, at |-> 1, answer |-> << >>, toWrite |-> {}, rows |-> 0]

-----------------------------------------------------------------------------
(* evaluate_response_boundary *)

\* A rule that looks at the announcement date alone.
BoundaryByAnnDate(endpoint, row) ==
    IF row.end = "after" \/ row.ann = "before" THEN "reject"
    ELSE IF row.ann # "after" THEN "allow"
    ELSE IF endpoint \in Reports /\ row.f_ann = "none" THEN "quarantine" ELSE "reject"

Boundary(endpoint, row) ==
    IF row.end = "after" \/ row.ann = "before" THEN "reject"
    ELSE IF row.ann = "after"
         THEN IF endpoint \in Reports /\ row.f_ann = "none" THEN "quarantine" ELSE "reject"
    ELSE IF row.f_ann # "after" THEN "allow"
    ELSE IF row.ann # "none" /\ endpoint \in Statements THEN "quarantine" ELSE "reject"

Quarantined(p, answer) == {row \in ToSet(answer) : Boundary(Endpoint[p], row) = "quarantine"}
Kept(p, answer) == {row \in ToSet(answer) : Boundary(Endpoint[p], row) = "allow"}

\* The identity of a receipt and the semantic key of a stored row: all but the payload.
SameKey(r, s) == [r EXCEPT !.payload = s.payload] = s
Conflict(rows) == \E r, s \in rows : r # s /\ SameKey(r, s)

\* _build_canonical_partition refuses the whole answer for one bad row.
Acceptable(p, answer) ==
    /\ Len(answer) < RowLimit
    /\ \A row \in ToSet(answer) : Boundary(Endpoint[p], row) # "reject"
    /\ IsInjective(answer)
    /\ ~Conflict(Quarantined(p, answer))
    /\ ~Conflict(Kept(p, answer))

\* _validate_canonical_partition_frame, of a file that is reused
CanonicalPartition(p) ==
    IF p \in PostWindow THEN partition[p] = {}
    ELSE /\ \A row \in partition[p] : row.end # "after" /\ row.ann \in {"none", "inside"}
         /\ ~Conflict(partition[p])

-----------------------------------------------------------------------------
(* What is computed from the staging directory *)

TotalRows == Cardinality(UNION {{p} \X partition[p] : p \in Partitions})

\* _optional_finalization_bindings: the authorization is for one request.
Finalized == authorized /\ request = Own

\* _response_boundary_receipt_hashes and _response_boundary_receipt_summary
\* refuse temporary files, receipts with unusable fields and, unless the
\* finalization is authorized, those of statements without an end_type.
\* SummaryOfTyped would refuse the latter in any case.
SummaryOfTyped ==
    /\ ~strayTemp
    /\ \A p \in Partitions : \A row \in receipts[p] :
         row.meta = "full" \/ (row.meta = "untyped" /\ Endpoint[p] \in Reports)
SummaryAccepts ==
    /\ ~strayTemp
    /\ \A p \in Partitions : \A row \in receipts[p] :
         \/ row.meta = "full"
         \/ row.meta = "untyped" /\ (Endpoint[p] \in Reports \/ Finalized)

SourceManifest(instant) ==
    [request |-> request, data |-> partition, receipts |-> receipts, finalized |-> Finalized, at |-> instant]
QualityReport(rows) == [rows |-> rows, receipts |-> receipts, finalized |-> Finalized]
CollectionManifest == [source |-> sourceManifest, quality |-> qualityReport, data |-> partition, receipts |-> receipts]

\* verify_financial_negative_list_collection
Verified ==
    /\ \A p \in Partitions : partition[p] # Missing /\ CanonicalPartition(p)
    /\ SummaryAccepts
    /\ \E instant \in Instants : sourceManifest = SourceManifest(instant)
    /\ qualityReport = QualityReport(TotalRows)
    /\ manifest = CollectionManifest

-----------------------------------------------------------------------------
(* collect_tushare_financial_negative_list *)

\* An error ends the run; the operator starts it again.
Stop == worker' = Off

\* Having handled a partition: its rows are counted.
GoOn(rows) ==
    worker' = [worker EXCEPT !.pc = "walking", !.at = @ + 1, !.answer = << >>, !.toWrite = {},
                             !.rows = @ + Cardinality(rows)]

\* The request is compared with the one on disk, or written; a collection that
\* has its manifest is verified and returned as it is.
OpenStaging(r) ==
    /\ worker.pc = "off"
    /\ IF request \in {Missing, r}
       THEN /\ request' = r
            /\ worker' = IF manifest = Missing THEN [Off EXCEPT !.pc = "walking", !.request = r] ELSE Off
       ELSE Stop /\ UNCHANGED request
    /\ UNCHANGED <<world, partition, receipts, strayTemp, authorized, seals, source, kills>>

At == Walk[worker.at]
Walking == worker.pc = "walking" /\ worker.at <= Len(Walk)

\* partition_path.exists(); a file without rows must not count as missing.
OnDisk(p) == partition[p] # Missing

\* What a reused partition holds belongs in the report as well.
Reuse ==
    /\ Walking
    /\ OnDisk(At)
    /\ IF CanonicalPartition(At) THEN GoOn(partition[At]) ELSE Stop
    /\ UNCHANGED <<world, staging, authorized, seals, source, kills>>

\* A stock listed after the window is not asked for.
WritePostWindow ==
    /\ Walking
    /\ ~OnDisk(At) /\ At \in PostWindow
    /\ partition' = [partition EXCEPT ![At] = {}]
    /\ GoOn({})
    /\ UNCHANGED <<world, request, receipts, strayTemp, authorized, seals, source, kills>>

\* client.query and _build_canonical_partition
Query ==
    /\ Walking
    /\ ~OnDisk(At) /\ At \notin PostWindow
    /\ \E answer \in world[At] :
         IF Acceptable(At, answer)
         THEN worker' = [worker EXCEPT
                    !.pc = "answered", !.answer = answer,
                    !.toWrite = {i \in DOMAIN answer : answer[i] \in Quarantined(At, answer)}]
         ELSE Stop
    /\ UNCHANGED <<world, staging, authorized, seals, source, kills>>

\* _write_response_boundary_receipts, in the order of the answer; a receipt that
\* is there must be the same one.
WriteReceipt ==
    LET next == CHOOSE i \in worker.toWrite : \A j \in worker.toWrite : i <= j
        row == worker.answer[next]
    IN
    /\ worker.pc = "answered"
    /\ worker.toWrite # {}
    /\ IF \E r \in receipts[At] : r # row /\ SameKey(r, row)
       THEN Stop /\ UNCHANGED receipts
       ELSE /\ receipts' = [receipts EXCEPT ![At] = @ \cup {row}]
            /\ worker' = [worker EXCEPT !.toWrite = @ \ {next}]
    /\ UNCHANGED <<world, request, partition, strayTemp, authorized, seals, source, kills>>

\* A partition that is on disk is never asked for again: its receipts have to
\* be there.  WritePartitionEarly writes it as soon as it is built.
WritePartitionEarly ==
    LET rows == Kept(At, worker.answer) IN
    /\ worker.pc = "answered"
    /\ partition' = [partition EXCEPT ![At] = rows]
    /\ source' = [source EXCEPT ![At] = worker.answer]
    /\ GoOn(rows)
    /\ UNCHANGED <<world, request, receipts, strayTemp, authorized, seals, kills>>
WritePartition ==
    LET rows == Kept(At, worker.answer) IN
    /\ worker.pc = "answered"
    /\ worker.toWrite = {}
    /\ partition' = [partition EXCEPT ![At] = rows]
    /\ source' = [source EXCEPT ![At] = worker.answer]
    /\ GoOn(rows)
    /\ UNCHANGED <<world, request, receipts, strayTemp, authorized, seals, kills>>

WriteSourceManifest ==
    /\ worker.pc = "walking" /\ worker.at > Len(Walk)
    /\ IF SummaryAccepts
       THEN /\ \E instant \in Instants : sourceManifest' = SourceManifest(instant)
            /\ worker' = [worker EXCEPT !.pc = "quality"]
       ELSE Stop /\ UNCHANGED sourceManifest
    /\ UNCHANGED <<world, staging, authorized, qualityReport, manifest, source, kills>>

WriteQualityReport ==
    /\ worker.pc = "quality"
    /\ qualityReport' = QualityReport(worker.rows)
    /\ worker' = [worker EXCEPT !.pc = "manifest"]
    /\ UNCHANGED <<world, staging, authorized, sourceManifest, manifest, source, kills>>

WriteManifest ==
    /\ worker.pc = "manifest"
    /\ manifest' = CollectionManifest
    /\ Stop
    /\ UNCHANGED <<world, staging, authorized, sourceManifest, qualityReport, source, kills>>

\* The process is killed, perhaps before the rename of a receipt it has written.
Kill ==
    /\ worker.pc # "off"
    /\ kills < MaxKills
    /\ kills' = kills + 1
    /\ strayTemp' \in {strayTemp, strayTemp \/ (worker.pc = "answered" /\ worker.toWrite # {})}
    /\ Stop
    /\ UNCHANGED <<world, request, partition, receipts, authorized, seals, source>>

\* The owner authorizes the finalization, between two runs and before the seal.
AuthorizeFinalization ==
    /\ worker.pc = "off" /\ manifest = Missing
    /\ ~authorized
    /\ authorized' = TRUE
    /\ UNCHANGED <<world, staging, seals, worker, source, kills>>

-----------------------------------------------------------------------------

NegativeInit ==
    /\ world \in Worlds
    /\ request = Missing
    /\ partition = [p \in Partitions |-> Missing]
    /\ receipts = [p \in Partitions |-> {}]
    /\ strayTemp = FALSE
    /\ authorized = FALSE
    /\ sourceManifest = Missing /\ qualityReport = Missing /\ manifest = Missing
    /\ worker = Off
    /\ source = [p \in Partitions |-> << >>]
    /\ kills = 0

WorkerStep ==
    \/ Reuse \/ WritePostWindow \/ Query \/ WriteReceipt \/ WritePartition
    \/ WriteSourceManifest \/ WriteQualityReport \/ WriteManifest

NegativeNext ==
    \/ \E r \in Requests : OpenStaging(r)
    \/ WorkerStep
    \/ Kill
    \/ AuthorizeFinalization

-----------------------------------------------------------------------------
(* Properties *)

\* The rows a run has counted so far, reused ones included, are those of the
\* partitions it has passed; and it holds an answer only to write it.
CollectionTypeOK ==
    /\ request \in Requests \cup {Missing}
    /\ worker.pc \in {"off", "walking", "answered", "quality", "manifest"}
    /\ worker.at \in 1..(Len(Walk) + 1)
    /\ worker.pc # "off" =>
         /\ request = worker.request
         /\ \A i \in 1..(worker.at - 1) : OnDisk(Walk[i])
         /\ worker.rows = Cardinality(UNION {{Walk[i]} \X partition[Walk[i]] : i \in 1..(worker.at - 1)})
    /\ \A p \in Partitions : OnDisk(p) => CanonicalPartition(p)

\* Whatever runs were killed before or start after it, a collection that has
\* its manifest is one the verifier accepts.
SealedMeansVerified == manifest # Missing => Verified

\* A partition that is on disk will not be asked for again, so by then every
\* row of the answer it was built from is stored in it or has its receipt, and
\* not both; there are no other receipts unless the provider changed its
\* answer after a run had written some.
RowsAccountedFor ==
    \A p \in Partitions \ PostWindow : OnDisk(p) =>
        LET answered == ToSet(source[p]) IN
        /\ answered \subseteq partition[p] \cup receipts[p]
        /\ partition[p] \cap receipts[p] = {}
        /\ (\A answer \in world[p] : answer = source[p]) => answered = partition[p] \cup receipts[p]

\* No row disclosed after the window is stored, by whichever of its dates, and
\* only such rows are quarantined (the policy's purpose).
WindowSplitsTheRows ==
    \A p \in Partitions :
        /\ OnDisk(p) => \A row \in partition[p] : "after" \notin {row.ann, row.f_ann, row.end}
        /\ \A row \in receipts[p] : row.end # "after" /\ "after" \in {row.ann, row.f_ann}

\* Parts are held once and sealed as they are, over any kills and restarts.
Collection == INSTANCE StagedCollection
    WITH Parts <- Partitions,
         held <- partition,
         sealed <- IF manifest = Missing THEN Missing ELSE manifest.data
RefinesStaged == Collection!Spec

\* What can keep a collection from being sealed: another request owns the
\* directory, a killed run left a temporary file among the receipts, a receipt
\* has unusable fields, or the provider may answer with what is refused.
Blocked ==
    \/ request \notin {Missing, Own}
    \/ strayTemp
    \/ \E p \in Partitions : \E row \in receipts[p] :
         row.meta = "broken" \/ (row.meta = "untyped" /\ Endpoint[p] \in Statements /\ ~authorized)
    \/ \E p \in Partitions \ PostWindow : ~OnDisk(p) /\ \E answer \in world[p] :
         \/ ~Acceptable(p, answer)
         \/ \E row \in Quarantined(p, answer), r \in receipts[p] : r # row /\ SameKey(r, row)
=============================================================================
