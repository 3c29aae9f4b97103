------------------------------- MODULE Ingest -------------------------------
(***************************************************************************)
(* The import engine of uste-ingest (state.rs, model.rs): one reducer over *)
(* the graph (GraphState), the spatial catalog (Spatial) and the import    *)
(* jobs.  A transaction is a graph request, the start of a job or a batch  *)
(* of a job; its parts are prepared against one base, checked against the  *)
(* graph they leave behind, and published together.                        *)
(*                                                                         *)
(* The clients are importers that submit any batch of their plans with any *)
(* checkpoint a job ever had, so that retries, late batches and importers  *)
(* that race are all among the submissions.  A binding names evidence with *)
(* a version and a blob; evidence is immutable, so the digest it was       *)
(* created with is a constant of its id.  A checkpoint's chain digest is   *)
(* the sequence of the requests and revisions it commits to.               *)
(***************************************************************************)
EXTENDS GraphState

CONSTANTS
    MaxBatchRecords, MaxEntries, MaxFrameDepth,
    MaxJobs,          \* MAX_IMPORT_JOBS
    MaxBatches,       \* MAX_IMPORT_BATCHES
    MaxRows,          \* MAX_IMPORT_ROWS
    MaxBatchRows,     \* MAX_ROWS_PER_BATCH
    EvidenceDigest,   \* the content digest of the evidence created under an id
    GraphRequests,    \* the graph requests submitted on their own
    Starts,           \* the jobs that are started: [job, source, mapping, graph, inventory]
    Plans,            \* the batches: [job, sequence, rows, graph, spatial, final, inventory]
    MaxLog            \* bound: how many transactions are committed

S == INSTANCE Spatial

VARIABLES
    engine,     \* the reducer's state
    log         \* the committed requests, by revision

ingestVars == <<engine, log>>

EmptyEngine ==
    [revision |-> 0, graph |-> EmptySnapshot, spatial |-> S!EmptySpatial, jobs |-> NoEntries,
     source_events |-> NoEntries, batch_count |-> 0]

(***************************************************************************)
(* What a request needs of the graph.                                      *)
(***************************************************************************)
IsBound(records, binding) ==
    /\ binding.evidence \in DOMAIN records
    /\ records[binding.evidence].kind = "evidence"
    /\ records[binding.evidence].version = binding.version
    /\ EvidenceDigest[binding.evidence] = binding.blob.digest

\* The records an entry of the catalog rests on, besides itself.
EntitiesOf(r) ==
    CASE r.kind = "world" -> {r.root_frame[1]}
      [] r.kind = "frame" ->
            {r.world} \cup UNION {{p.frame[1], p.transform[1]} : p \in Range(r.parent)}
      [] r.kind = "geometry" ->
            {r.world, r.frame[1]} \cup {p[1] : p \in Range(r.predecessor)}
      [] r.kind = "observation" ->
            {r.entity, r.world, r.frame[1], r.source} \cup Range(r.correction_of)

EvidenceOf(r) == IF r.kind = "observation" THEN {r.evidence} ELSE {}

ValidateExternalRecord(records, r) ==
    /\ \A id \in {r.id} \cup EntitiesOf(r) : RequireActiveEntity(records, id)
    /\ \A id \in EvidenceOf(r) : id \in DOMAIN records /\ records[id].kind = "evidence"

ValidateCatalogClosure(records, catalog) ==
    \A e \in catalog.entries : ValidateExternalRecord(records, e.value)

ValidateJob(records, id, checkpoint) ==
    /\ RequireActiveEntity(records, id)
    /\ IsBound(records, checkpoint.source)
    /\ IsBound(records, checkpoint.mapping)

\* The bindings alone are looked at.
ValidateBindingClosure(records, jobs) ==
    \A id \in DOMAIN jobs :
        IsBound(records, jobs[id].checkpoint.source) /\ IsBound(records, jobs[id].checkpoint.mapping)

ValidateJobClosure(records, jobs) ==
    \A id \in DOMAIN jobs : ValidateJob(records, id, jobs[id].checkpoint)

\* The inventory is exactly the two bound blobs, and one id names one blob.
ValidateInventory(inventory, source, mapping) ==
    /\ inventory = <<{source, mapping}>>
    /\ source.id = mapping.id => source = mapping

\* Only the rows of the batch itself are compared.
ValidateBatchRows(rows, start, existing) ==
    /\ Cardinality({rows[i].event : i \in DOMAIN rows}) = Len(rows)
    /\ start + Len(rows) <= MaxRows

\* Rows are distinct and none was ever accepted, by this or another job.
ValidateRows(rows, start, existing) ==
    /\ Cardinality({rows[i].event : i \in DOMAIN rows}) = Len(rows)
    /\ \A i \in DOMAIN rows : rows[i].event \notin existing
    /\ start + Len(rows) <= MaxRows

(***************************************************************************)
(* The import checkpoint of a job.                                         *)
(***************************************************************************)
Started(t, revision) ==
    [job |-> t.job, version |-> 1, source |-> t.source, mapping |-> t.mapping,
     next_batch |-> 1, cursor |-> 0, accepted_rows |-> 0, first_revision |-> revision,
     last_revision |-> revision, status |-> "open", chain |-> <<<<revision, t.graph>>>>]

Advanced(c, t, revision) ==
    [c EXCEPT !.version = @ + 1, !.next_batch = @ + 1, !.cursor = @ + Len(t.rows),
              !.accepted_rows = @ + Len(t.rows), !.last_revision = revision,
              !.status = IF t.final THEN "completed" ELSE "open",
              !.chain = Append(@, <<revision, t.graph>>)]

(***************************************************************************)
(* Preparation.  Every part is admitted before anything is published.      *)
(***************************************************************************)
PrepareGraph(e, t, revision, allow_policy) ==
    IF ~allow_policy /\ (t.policy # <<>> \/ \E i \in DOMAIN t.ops : t.ops[i].op = "delete")
    THEN <<>> ELSE PrepareTransaction(e.graph, t, revision)

\* prepared_view: the records as the prepared graph leaves them.
PreparedView(e, p) == [id \in DOMAIN p.changes |-> p.changes[id].after] @@ e.graph.records

Prepared(graph, spatial, t) == <<[graph |-> graph, spatial |-> spatial, request |-> t]>>

PrepareGraphOnly(e, t, inventory, p) ==
    IF /\ inventory = <<>> /\ p # <<>>
       /\ ValidateCatalogClosure(PreparedView(e, p[1]), e.spatial.catalog)
       /\ ValidateJobClosure(PreparedView(e, p[1]), e.jobs)
    THEN Prepared(p[1], <<>>, t) ELSE <<>>

PrepareStart(e, t, inventory, p) ==
    IF /\ t.job \notin DOMAIN e.jobs
       /\ Cardinality(DOMAIN e.jobs) < MaxJobs
       /\ ValidateInventory(inventory, t.source.blob, t.mapping.blob)
       /\ p # <<>>
       /\ ValidateJob(PreparedView(e, p[1]), t.job, t)
    THEN Prepared(p[1], <<>>, t) ELSE <<>>

\* A batch continues exactly the checkpoint its job has now.
ContinuesJob(c, t) ==
    /\ t.expected.source = c.source /\ t.expected.mapping = c.mapping
    /\ t.sequence = c.next_batch
    /\ t.expected = c /\ t.start = c.cursor
    /\ c.status = "open"

AdmitsBatch(e, t, inventory) ==
    /\ inventory \in {<<>>, <<{}>>}
    /\ t.job \in DOMAIN e.jobs
    /\ ValidateJob(e.graph.records, t.job, e.jobs[t.job].checkpoint)
    /\ ContinuesJob(e.jobs[t.job].checkpoint, t)
    /\ e.batch_count < MaxBatches
    /\ ValidateRows(t.rows, t.start, DOMAIN e.source_events)

PrepareSpatialPart(e, t, revision) ==
    IF t.spatial = <<>> THEN <<>> ELSE S!PrepareSpatial(e.spatial, t.spatial[1], revision)

PrepareBatch(e, t, p, spatial) ==
    IF /\ p # <<>>
       /\ Len(spatial) = Len(t.spatial)
       /\ IsBound(PreparedView(e, p[1]), t.expected.source)
       /\ IsBound(PreparedView(e, p[1]), t.expected.mapping)
       /\ \A records \in Range(t.spatial) :
            \A i \in DOMAIN records : ValidateExternalRecord(PreparedView(e, p[1]), records[i])
    THEN Prepared(p[1], spatial, t) ELSE <<>>

\* prepare_domain at the engine's next revision.
PrepareDomain(e, t, inventory) ==
    CASE t.kind = "graph" ->
            PrepareGraphOnly(e, t, inventory, PrepareGraph(e, t.graph, e.revision + 1, TRUE))
      [] t.kind = "start" ->
            PrepareStart(e, t, inventory, PrepareGraph(e, t.graph, e.revision + 1, FALSE))
      [] t.kind = "batch" ->
            IF ~AdmitsBatch(e, t, inventory) THEN <<>>
            ELSE PrepareBatch(e, t, PrepareGraph(e, t.graph, e.revision + 1, FALSE),
                              PrepareSpatialPart(e, t, e.revision + 1))

(***************************************************************************)
(* Publication of the graph, the catalog and the job.                      *)
(***************************************************************************)
Receipt(t, revision, checkpoint) ==
    [request |-> <<t.graph, t.spatial, t.final>>, revision |-> revision,
     row_count |-> Len(t.rows), checkpoint |-> checkpoint]

\* Rows are kept with the payload digest their importer declared.
RowDigests(rows) ==
    [event \in {rows[i].event : i \in DOMAIN rows} |->
        (CHOOSE row \in Range(rows) : row.event = event).digest]

AdvanceJob(job, t, revision) ==
    LET checkpoint == Advanced(job.checkpoint, t, revision)
    IN  [checkpoint |-> checkpoint,
         batches |-> Append(job.batches, Receipt(t, revision, checkpoint)),
         source_events |-> RowDigests(t.rows) @@ job.source_events]

PublishJob(e, t, revision) ==
    CASE t.kind = "graph" -> e
      [] t.kind = "start" ->
            [e EXCEPT !.jobs = (t.job :> [checkpoint |-> Started(t, revision),
                                          batches |-> <<>>, source_events |-> NoEntries]) @@ @]
      [] t.kind = "batch" ->
            [e EXCEPT !.jobs[t.job] = AdvanceJob(@, t, revision),
                      !.source_events = [event \in DOMAIN RowDigests(t.rows) |-> t.job] @@ @,
                      !.batch_count = @ + 1]

CanPublishEngine(e, p) ==
    /\ p.graph.base_revision = e.revision
    /\ CanPublish(e.graph, p.graph)
    /\ \A spatial \in Range(p.spatial) : S!CanPublishSpatial(e.spatial, spatial)

PublishEngine(e, p) ==
    [PublishJob(e, p.request, p.graph.revision) EXCEPT
        !.revision = p.graph.revision,
        !.graph = Publish(@, p.graph),
        !.spatial = IF p.spatial = <<>> THEN @ ELSE S!PublishSpatial(@, p.spatial[1])]

(***************************************************************************)
(* What the importer must be allowed to do.                                *)
(***************************************************************************)
CollectSpatialRequirements(r) ==
    {<<"commit", r.id>>} \cup Reads({r.id} \cup EntitiesOf(r) \cup EvidenceOf(r))

\* A batch names its bindings through the checkpoint it expects.
CollectImportRequirements(job, source, mapping, graph, spatial) ==
    {<<"commit", job>>} \cup Reads({job, source.evidence, mapping.evidence})
        \cup AuthorizationRequirements(graph)
        \cup UNION {CollectSpatialRequirements(r) : r \in UNION {Range(x) : x \in Range(spatial)}}

EngineRequirements(t) ==
    CASE t.kind = "graph" -> AuthorizationRequirements(t.graph)
      [] t.kind = "start" ->
            {<<"import", 0>>, <<"commit", 0>>}
                \cup CollectImportRequirements(t.job, t.source, t.mapping, t.graph, <<>>)
      [] t.kind = "batch" ->
            {<<"import", 0>>, <<"commit", 0>>}
                \cup CollectImportRequirements(t.job, t.expected.source, t.expected.mapping,
                                               t.graph, t.spatial)

(***************************************************************************)
(* The engine's checkpoint.                                                *)
(***************************************************************************)
EncodeIngestCheckpoint(e) ==
    IF e.revision = 0 \/ Cardinality(DOMAIN e.jobs) > MaxJobs \/ e.batch_count > MaxBatches
    THEN <<>>
    ELSE <<[revision |-> e.revision, graph |-> EncodeCheckpoint(e.graph),
            spatial_revision |-> e.spatial.revision,
            spatial |-> S!EncodeSpatialCheckpoint(e.spatial),
            jobs |-> e.jobs, batch_count |-> e.batch_count]>>

RecordsAt(graph, revision) ==
    [id \in {x \in DOMAIN graph.history : RecordAt(graph.history, x, revision) # <<>>} |->
        RecordAt(graph.history, id, revision)[1]]

\* from_parts: what a decoded checkpoint satisfies by itself.
IsCheckpoint(c) ==
    /\ c.accepted_rows <= MaxRows /\ c.accepted_rows = c.cursor
    /\ c.first_revision <= c.last_revision

\* The i-th receipt of a job continues the one before it.
ValidateReceipt(job, i, revision) ==
    LET r == job.batches[i]
        before == IF i = 1 THEN job.checkpoint.first_revision ELSE job.batches[i - 1].revision
        rows == FoldLeft(LAMBDA n, b : n + b.row_count, 0, SubSeq(job.batches, 1, i))
    IN  /\ r.row_count \in 1..MaxBatchRows
        /\ before < r.revision /\ r.revision <= revision
        /\ IsCheckpoint(r.checkpoint)
        /\ \A f \in {"job", "source", "mapping", "first_revision"} :
                r.checkpoint[f] = job.checkpoint[f]
        /\ r.checkpoint.version = i + 1 /\ r.checkpoint.next_batch = i + 1
        /\ r.checkpoint.accepted_rows = rows
        /\ r.checkpoint.last_revision = r.revision
        /\ i < Len(job.batches) => r.checkpoint.status = "open"

ValidateLastReceipt(job) ==
    IF job.batches # <<>> THEN Last(job.batches).checkpoint = job.checkpoint
    ELSE /\ job.checkpoint.version = 1 /\ job.checkpoint.next_batch = 1
         /\ job.checkpoint.accepted_rows = 0
         /\ job.checkpoint.first_revision = job.checkpoint.last_revision
         /\ job.checkpoint.status = "open"

ValidateDecodedJob(graph, id, job, revision) ==
    /\ IsCheckpoint(job.checkpoint)
    /\ job.checkpoint.job = id /\ job.checkpoint.last_revision <= revision
    /\ ValidateJob(graph.records, id, job.checkpoint)
    /\ ValidateJob(RecordsAt(graph, job.checkpoint.first_revision), id, job.checkpoint)
    /\ \A i \in DOMAIN job.batches : ValidateReceipt(job, i, revision)
    /\ ValidateLastReceipt(job)
    /\ Cardinality(DOMAIN job.source_events) = job.checkpoint.accepted_rows

BatchRevisions(job) == {job.batches[i].revision : i \in DOMAIN job.batches}

\* A transaction starts one job or applies one batch, and an event belongs to one job.
JobsAreDisjoint(jobs) ==
    \A a, b \in DOMAIN jobs : a # b =>
        /\ DOMAIN jobs[a].source_events \cap DOMAIN jobs[b].source_events = {}
        /\ ({jobs[a].checkpoint.first_revision} \cup BatchRevisions(jobs[a]))
            \cap ({jobs[b].checkpoint.first_revision} \cup BatchRevisions(jobs[b])) = {}

\* Every entry came with a batch, and was closed in the graph then and is now.
ValidateRestoredCatalog(graph, catalog, revisions) ==
    \A e \in catalog.entries :
        /\ e.recorded \in revisions
        /\ ValidateExternalRecord(graph.records, e.value)
        /\ ValidateExternalRecord(RecordsAt(graph, e.recorded), e.value)

DecodeSpatial(c) ==
    IF c.spatial_revision = 0 THEN IF c.spatial = <<>> THEN <<S!EmptySpatial>> ELSE <<>>
    ELSE IF c.spatial = <<>> THEN <<>>
    ELSE S!DecodeSpatialCheckpoint(c.spatial_revision, c.spatial[1])

RestoredEngine(c, graph, spatial) ==
    IF /\ graph # <<>> /\ spatial # <<>>
       /\ \A id \in DOMAIN c.jobs : ValidateDecodedJob(graph[1], id, c.jobs[id], c.revision)
       /\ JobsAreDisjoint(c.jobs)
       /\ c.batch_count = FoldSet(LAMBDA id, n : n + Len(c.jobs[id].batches), 0, DOMAIN c.jobs)
       /\ ValidateRestoredCatalog(graph[1], spatial[1].catalog,
                                  UNION {BatchRevisions(c.jobs[id]) : id \in DOMAIN c.jobs})
    THEN <<[revision |-> c.revision, graph |-> graph[1], spatial |-> spatial[1], jobs |-> c.jobs,
            source_events |->
                FoldSet(LAMBDA id, acc : [event \in DOMAIN c.jobs[id].source_events |-> id] @@ acc,
                        NoEntries, DOMAIN c.jobs),
            batch_count |-> c.batch_count]>>
    ELSE <<>>

DecodeIngestCheckpoint(c, revision) ==
    IF c.revision # revision \/ c.spatial_revision > revision THEN <<>>
    ELSE RestoredEngine(c, FromPersistedParts(c.graph), DecodeSpatial(c))

Restored(e) ==
    LET c == EncodeIngestCheckpoint(e)
    IN  IF c = <<>> THEN <<>> ELSE DecodeIngestCheckpoint(c[1], e.revision)

(***************************************************************************)
(* The engine and its importers.                                           *)
(***************************************************************************)
IngestInit == engine = EmptyEngine /\ log = <<>>

\* The coordinator prepares a request, appends it to the journal and publishes it.
Submit(t, inventory) ==
    /\ Len(log) < MaxLog
    /\ \E p \in Range(PrepareDomain(engine, t, inventory)) :
        /\ CanPublishEngine(engine, p)
        /\ engine' = PublishEngine(engine, p)
    /\ log' = Append(log, t)

SubmitGraph == \E t \in GraphRequests : Submit([kind |-> "graph", graph |-> t], <<>>)

SubmitStart ==
    \E s \in Starts :
        Submit([kind |-> "start", job |-> s.job, source |-> s.source, mapping |-> s.mapping,
                graph |-> s.graph], s.inventory)

\* The checkpoints a job has had: the start's and those of its receipts.
IssuedCheckpoints(id) ==
    LET job == engine.jobs[id]
        first == [job.checkpoint EXCEPT !.version = 1, !.next_batch = 1, !.cursor = 0,
                    !.accepted_rows = 0, !.last_revision = job.checkpoint.first_revision,
                    !.status = "open", !.chain = SubSeq(@, 1, 1)]
    IN  {first} \cup {job.batches[i].checkpoint : i \in DOMAIN job.batches}

SubmitBatch ==
    \E plan \in {x \in Plans : x.job \in DOMAIN engine.jobs} :
        \E expected \in IssuedCheckpoints(plan.job) :
            Submit([kind |-> "batch", job |-> plan.job, sequence |-> plan.sequence,
                    expected |-> expected, start |-> expected.cursor, rows |-> plan.rows,
                    graph |-> plan.graph, spatial |-> plan.spatial, final |-> plan.final],
                   plan.inventory)

\* The engine is opened again from the checkpoint of its newest state.
OpenFromCheckpoint ==
    /\ \E e \in Range(Restored(engine)) : engine' = e
    /\ UNCHANGED log

IngestNext == SubmitGraph \/ SubmitStart \/ SubmitBatch \/ OpenFromCheckpoint

IngestSpec == IngestInit /\ [][IngestNext]_ingestVars

(***************************************************************************)
(* Properties.                                                             *)
(***************************************************************************)
CommittedBatches(id) == SelectSeq(log, LAMBDA t : t.kind = "batch" /\ t.job = id)

RowsBefore(batches, i) == FoldLeft(LAMBDA n, t : n + Len(t.rows), 0, SubSeq(batches, 1, i - 1))

\* A job's committed batches are 1, 2, ... without a gap, the last of them alone may be final, and
\* its checkpoint and its rows are theirs.
JobIsExact(id, job, batches) ==
    /\ \A i \in DOMAIN batches :
        /\ batches[i].sequence = i
        /\ batches[i].start = RowsBefore(batches, i)
        /\ batches[i].final => i = Len(batches)
    /\ job.checkpoint.cursor = RowsBefore(batches, Len(batches) + 1)
    /\ job.checkpoint.status = "completed" <=> batches # <<>> /\ Last(batches).final
    /\ DOMAIN job.source_events
        = UNION {DOMAIN RowDigests(batches[i].rows) : i \in DOMAIN batches}

\* What the engine holds was recorded by a request that was authorized for it.
WasAuthorized(revision, needed) == needed \subseteq EngineRequirements(log[revision])

\* Whatever is retried, arrives late or races, every row is accepted once and in order
\* (prepare_batch), and every record, entry and job is there by a request whose authorization
\* covered it (collect_import_requirements).
ImportIsExact ==
    /\ \A id \in DOMAIN engine.jobs : JobIsExact(id, engine.jobs[id], CommittedBatches(id))
    /\ Cardinality(DOMAIN engine.source_events)
        = FoldLeft(LAMBDA n, t : n + (IF t.kind = "batch" THEN Len(t.rows) ELSE 0), 0, log)
    /\ \A id \in DOMAIN engine.graph.history :
        \A i \in DOMAIN engine.graph.history[id] :
            WasAuthorized(engine.graph.history[id][i].modified, {<<"commit", id>>})
    /\ \A e \in engine.spatial.catalog.entries :
        WasAuthorized(e.recorded, {<<"commit", e.value.id>>}
                                    \cup Reads(EntitiesOf(e.value) \cup EvidenceOf(e.value)))
    /\ \A id \in DOMAIN engine.jobs :
        \A revision \in {engine.jobs[id].checkpoint.first_revision}
                            \cup BatchRevisions(engine.jobs[id]) :
            WasAuthorized(revision, {<<"import", 0>>, <<"commit", id>>}
                                        \cup Reads({engine.jobs[id].checkpoint.source.evidence}))

\* Every state the engine reaches can be restored from its checkpoint and is the same then, up to
\* the catalog's own revision after a batch of nothing but repeated observations
\* (encode_ingest_checkpoint, decode_ingest_checkpoint): no admitted request leaves a job, a
\* binding or a spatial record without the graph records it rests on.
EngineRestores ==
    engine.revision > 0 =>
        \E e \in Range(Restored(engine)) :
            /\ [e EXCEPT !.spatial.catalog.last_revision = engine.spatial.catalog.last_revision]
                = engine
            /\ e.spatial.catalog.last_revision <= engine.spatial.catalog.last_revision
=============================================================================
