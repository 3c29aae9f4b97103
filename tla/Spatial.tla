------------------------------- MODULE Spatial -------------------------------
(***************************************************************************)
(* The spatial catalog of uste-spatial (catalog.rs, model.rs, state.rs):   *)
(* immutable versions of worlds, frames and geometries, and observations   *)
(* that are idempotent by identity and by source event.  A batch is staged *)
(* and validated against the borrowed catalog, published on exactly that   *)
(* base, and replayed from a checkpoint in canonical order.                *)
(*                                                                         *)
(* The catalog's four maps and its source-event index are one set of       *)
(* entries, each a record with the revision it was recorded at: a category *)
(* owns an id (ensure_category) and the versions of an id are 1, 2, ...    *)
(* The set is also what the xor anchor of the entries stands for.  A       *)
(* reference is a pair <<record, version>>, an optional value a sequence   *)
(* of length at most one, and a refusal the empty sequence.  Positions,    *)
(* shapes and precisions are abstracted to the coordinate system they need,*)
(* and the catalog's byte bound is left out beside its entry bound.        *)
(***************************************************************************)
EXTENDS Integers, Sequences, FiniteSets, SequencesExt, FiniteSetsExt

CONSTANTS
    MaxBatchRecords,    \* MAX_SPATIAL_BATCH_RECORDS
    MaxEntries,         \* MAX_SPATIAL_CATALOG_ENTRIES
    MaxFrameDepth       \* MAX_FRAME_DEPTH

(***************************************************************************)
(* Records.                                                                *)
(***************************************************************************)
\* WorldDefinition, FrameDefinition, GeometryVersion and PositionObservation.
World(id, version, root) ==
    [kind |-> "world", id |-> id, version |-> version, root_frame |-> root]

Frame(id, version, world, system, parent) ==
    [kind |-> "frame", id |-> id, version |-> version, world |-> world, system |-> system,
     parent |-> parent]

Geometry(id, version, world, frame, system, predecessor) ==
    [kind |-> "geometry", id |-> id, version |-> version, world |-> world, frame |-> frame,
     system |-> system, predecessor |-> predecessor]

Observation(id, entity, world, frame, source, event, evidence, position, correction_of) ==
    [kind |-> "observation", id |-> id, version |-> 0, entity |-> entity, world |-> world,
     frame |-> frame, source |-> source, event |-> event, evidence |-> evidence,
     system |-> position, correction_of |-> correction_of]

\* What the constructors refuse, and so the decoder of a request.
IsConstructible(r) ==
    CASE r.kind = "world" -> TRUE
      [] r.kind = "frame" -> \A p \in Range(r.parent) : p.frame[1] # r.id
      [] r.kind = "geometry" ->
            \A p \in Range(r.predecessor) : p[1] = r.id /\ p[2] < r.version
      [] r.kind = "observation" -> r.id \notin Range(r.correction_of)

\* order_key: worlds, frames, geometries and observations, by id and version.
Rank == [world |-> 0, frame |-> 1, geometry |-> 2, observation |-> 3]

OrderKey(r) == <<Rank[r.kind], r.id, r.version>>

KeyBefore(a, b) ==
    \E i \in DOMAIN a : a[i] < b[i] /\ \A j \in 1..i - 1 : a[j] = b[j]

(***************************************************************************)
(* Looking up the base and what the batch has staged so far.               *)
(***************************************************************************)
EmptyCatalog == [entries |-> {}, last_revision |-> 0]

Entry(revision, r) == [recorded |-> revision, value |-> r]

EntriesOf(entries, kind, id) == {e \in entries : e.value.kind = kind /\ e.value.id = id}

EnsureCategory(entries, r) ==
    \A e \in entries : e.value.id = r.id => e.value.kind = r.kind

\* latest_world, latest_frame, latest_geometry.
Latest(entries, kind, id) ==
    {e.value : e \in {x \in EntriesOf(entries, kind, id) :
                        \A y \in EntriesOf(entries, kind, id) : y.value.version <= x.value.version}}

VersionAt(entries, kind, reference) ==
    {e.value : e \in {x \in EntriesOf(entries, kind, reference[1]) :
                        x.value.version = reference[2]}}

FrameAt(entries, reference) == VersionAt(entries, "frame", reference)

SourceEvent(entries, r) ==
    {e \in entries : /\ e.value.kind = "observation"
                     /\ e.value.source = r.source /\ e.value.event = r.event}

(***************************************************************************)
(* Staging.  acc holds the entries seen so far, what the batch inserts and *)
(* the revision of every record's effect.                                  *)
(***************************************************************************)
CheckNextValue(previous, version) ==
    IF previous = {} THEN version = 1 ELSE \A p \in previous : version = p.version + 1

StagesVersion(previous, r) ==
    CASE r.kind = "world" -> \A p \in previous : p.root_frame[1] = r.root_frame[1]
      [] r.kind = "frame" -> \A p \in previous : p.world = r.world /\ p.system = r.system
      [] r.kind = "geometry" ->
            r.predecessor = (IF previous = {} THEN <<>> ELSE <<<<r.id, r.version - 1>>>>)

Charge(acc, revision, r) ==
    IF Cardinality(acc.entries) >= MaxEntries THEN [acc EXCEPT !.ok = FALSE]
    ELSE [acc EXCEPT !.entries = @ \cup {Entry(revision, r)},
                     !.inserted = @ \cup {r}, !.effects = Append(@, revision)]

StageVersion(acc, revision, r, previous) ==
    IF CheckNextValue(previous, r.version) /\ StagesVersion(previous, r)
    THEN Charge(acc, revision, r) ELSE [acc EXCEPT !.ok = FALSE]

\* An observation already recorded, by its identity or by its source event.
StageDuplicate(acc, existing, r) ==
    IF \E e \in existing : e.value # r THEN [acc EXCEPT !.ok = FALSE]
    ELSE [acc EXCEPT !.effects = Append(@, Max({e.recorded : e \in existing}))]

StageObservation(acc, revision, r, same, event) ==
    IF same # {} THEN StageDuplicate(acc, same, r)
    ELSE IF event # {} THEN StageDuplicate(acc, event, r)
    ELSE Charge(acc, revision, r)

Stage(acc, revision, r) ==
    IF ~acc.ok \/ ~EnsureCategory(acc.entries, r) THEN [acc EXCEPT !.ok = FALSE]
    ELSE IF r.kind = "observation"
    THEN StageObservation(acc, revision, r, EntriesOf(acc.entries, r.kind, r.id),
                          SourceEvent(acc.entries, r))
    ELSE StageVersion(acc, revision, r, Latest(acc.entries, r.kind, r.id))

StageAll(catalog, revision, records) ==
    FoldLeft(LAMBDA acc, r : Stage(acc, revision, r),
             [ok |-> TRUE, entries |-> catalog.entries, inserted |-> {}, effects |-> <<>>],
             records)

(***************************************************************************)
(* Validation of every record of the batch against what is staged.         *)
(***************************************************************************)
\* One step from a frame to its exact parent version, which must be new to the chain.
Climb(entries, world, acc) ==
    IF ~acc.ok \/ acc.at.parent = <<>> THEN acc
    ELSE LET up == acc.at.parent[1].frame
             next == {f \in FrameAt(entries, up) : f.world = world /\ f.id \notin acc.seen}
         IN  IF next = {} THEN [acc EXCEPT !.ok = FALSE]
             ELSE [ok |-> TRUE, at |-> CHOOSE f \in next : TRUE, seen |-> acc.seen \cup {up[1]}]

\* A frame's parents lead, without repeating a record, to its world's root frame.
ChainReachesRoot(entries, frame, root) ==
    LET top == FoldLeft(LAMBDA acc, depth : Climb(entries, frame.world, acc),
                        [ok |-> TRUE, at |-> frame, seen |-> {frame.id}],
                        [depth \in 1..MaxFrameDepth |-> depth])
    IN  top.ok /\ top.at.parent = <<>> /\ top.at.id = root

ValidateFrame(entries, frame) ==
    \E world \in Latest(entries, "world", frame.world) :
        IF world.root_frame[1] = frame.id THEN frame.parent = <<>>
        ELSE frame.parent # <<>> /\ ChainReachesRoot(entries, frame, world.root_frame[1])

\* A correction names an observation of an earlier revision about the same entity and world.
ValidateCorrection(entries, revision, r) ==
    \A previous \in Range(r.correction_of) :
        \E e \in EntriesOf(entries, "observation", previous) :
            /\ e.recorded < revision
            /\ e.value.entity = r.entity /\ e.value.world = r.world

ValidateFrameUse(entries, r) ==
    /\ Latest(entries, "world", r.world) # {}
    /\ \E frame \in FrameAt(entries, r.frame) :
            frame.world = r.world /\ frame.system = r.system

ValidateRecord(entries, revision, r) ==
    CASE r.kind = "world" ->
            \E root \in FrameAt(entries, r.root_frame) : root.world = r.id /\ root.parent = <<>>
      [] r.kind = "frame" -> ValidateFrame(entries, r)
      [] r.kind = "geometry" -> ValidateFrameUse(entries, r)
      [] r.kind = "observation" ->
            ValidateFrameUse(entries, r) /\ ValidateCorrection(entries, revision, r)

(***************************************************************************)
(* Preparation and publication.                                            *)
(***************************************************************************)
PreparedBatch(catalog, revision, records, acc) ==
    IF acc.ok /\ \A i \in DOMAIN records : ValidateRecord(acc.entries, revision, records[i])
    THEN <<[base |-> catalog, revision |-> revision, inserted |-> acc.inserted,
            effects |-> acc.effects]>>
    ELSE <<>>

PrepareBatch(catalog, revision, records) ==
    IF Len(records) \notin 1..MaxBatchRecords \/ revision <= catalog.last_revision THEN <<>>
    ELSE PreparedBatch(catalog, revision, records, StageAll(catalog, revision, records))

CanPublishCatalog(catalog, p) == p.base = catalog

PublishPrepared(catalog, p) ==
    [entries |-> catalog.entries \cup {Entry(p.revision, r) : r \in p.inserted},
     last_revision |-> p.revision]

(***************************************************************************)
(* The reducer's snapshot and its checkpoint.                              *)
(***************************************************************************)
EmptySpatial == [revision |-> 0, catalog |-> EmptyCatalog]

\* decode_transaction and SpatialTransaction::new, then the reducer's own guards.
PrepareSpatial(s, records, revision) ==
    IF \/ ~(\A i \in DOMAIN records : IsConstructible(records[i]))
       \/ revision <= s.revision
    THEN <<>> ELSE PrepareBatch(s.catalog, revision, records)

CanPublishSpatial(s, p) == p.revision > s.revision /\ CanPublishCatalog(s.catalog, p)

PublishSpatial(s, p) == [revision |-> p.revision, catalog |-> PublishPrepared(s.catalog, p)]

SortedEntries(entries) ==
    SetToSortSeq(entries, LAMBDA a, b : KeyBefore(OrderKey(a.value), OrderKey(b.value)))

EncodeSpatialCheckpoint(s) ==
    IF s.revision = 0 \/ s.catalog.entries = {} THEN <<>>
    ELSE <<[revision |-> s.revision, entries |-> SortedEntries(s.catalog.entries)]>>

BatchOf(entries, revision) ==
    LET batch == SelectSeq(entries, LAMBDA e : e.recorded = revision)
    IN  [i \in DOMAIN batch |-> batch[i].value]

\* One recorded revision is replayed as one batch; a refusal refuses the checkpoint.
ReplayBatch(catalogs, records, revision) ==
    IF catalogs = <<>> THEN <<>>
    ELSE LET p == PrepareBatch(catalogs[1], revision, records)
         IN  IF p = <<>> THEN <<>> ELSE <<PublishPrepared(catalogs[1], p[1])>>

ReplayEntries(entries) ==
    FoldLeft(LAMBDA acc, revision : ReplayBatch(acc, BatchOf(entries, revision), revision),
             <<EmptyCatalog>>,
             SetToSortSeq({entries[i].recorded : i \in DOMAIN entries}, <))

DecodeSpatialCheckpoint(revision, c) ==
    IF \/ c.revision # revision
       \/ Len(c.entries) \notin 1..MaxEntries
       \/ \E i \in DOMAIN c.entries :
            \/ c.entries[i].recorded > revision
            \/ ~IsConstructible(c.entries[i].value)
            \/ i > 1 /\ ~KeyBefore(OrderKey(c.entries[i - 1].value), OrderKey(c.entries[i].value))
    THEN <<>>
    ELSE LET catalogs == ReplayEntries(c.entries)
         IN  IF catalogs = <<>> \/ Cardinality(catalogs[1].entries) # Len(c.entries) THEN <<>>
             ELSE <<[revision |-> revision, catalog |-> catalogs[1]]>>
=============================================================================
