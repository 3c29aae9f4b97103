# TLA+ specifications of USTE

USTE is an embedded, single-owner, encrypted database. Its commit authority is an
append-only certificate log; everything else on disk is either named by a
certificate or a cache that can be rebuilt. These modules model the code under
`src/crates`, check the models with TLC on small instances, and prove the safety of
the journal, the transaction coordinator, the authorization facades, the disk
coordinator and the checkpoint slots with TLAPS, for all values of their constants.

* [1. The system](#1-the-system): the parts, their state, how they interact
* [2. The modules](#2-the-modules): which module models what, and how
* [3. The runs](#3-the-runs): what TLC checks, bounds, fairness
* [4. The proofs](#4-the-proofs): what TLAPS proves, and the argument
* [5. Findings](#5-findings): where the code and a document disagree
* [6. What is not modelled](#6-what-is-not-modelled)

## 1. The system

One process owns a database directory. A call runs to its end under `&mut self`,
so two calls never overlap in one process. What makes the code hard is therefore
not thread interleaving but the file system and the callers: each call is a sequence
of file operations, every one of which can fail, leave a partial write, or be the last
one before the process or the machine stops; and a caller that lost an answer comes
back with the same request, an older handle or an older checkpoint.

```
 memory adapter, research producer, importers        (callers with retries of their own)
            |
 graph, memory, spatial and import reducers          (prepare, publish, read at a revision)
            |  commit(request) / read_view / outcome
            v
 authorized facades --- policy kernel                (grants, leases, quotas, ledger)
            |
 transaction coordinator, disk coordinator           (idempotency, quarantine, replay)
            |  append_group        |  publish / rebase / open
            v                      v
 journal (segments, certificates, inventories)   checkpoints, index and packed roots
            |                      |
            |   blob store (chunks, witnesses, manifests)
            v                      v
 file system adapter: Linux, in-memory, fault-injecting
```

| part | state | hard behaviour | what makes it correct |
|---|---|---|---|
| file systems (`adapter.rs`, `memory.rs`, `linux.rs`, `fault.rs`) | bytes and directory entries, visible and durable | lost and torn writes, entries that outlive or predate their file | a successful synchronisation persists; rename is atomic |
| journal (`journal.rs`) | segments, certificate log, inventories, frontier, poisoned flag | a crash between any two calls, torn tails, interrupted recovery | write order, durability of acknowledged commits, recovery accepts what the journal left |
| blob store (`blob.rs`) | staged and final chunks, witnesses, manifests in two copies | failure between rename and manifest, abort against finish | an upload is one blob or none; durable bytes are kept |
| checkpoints (`checkpoint.rs`) | two slots of manifest and chunks | replacement cut anywhere, a candidate kept too long | one complete slot survives; a manifest is terminal |
| transaction coordinator (`uste-txn/src/lib.rs`, `commit_admission.rs`) | outcomes, transactions, blob owners, reducer, uncertain flag | lost answers, ambiguous append, clock moving back, seeded replay | exactly once; truthful answers; memory equals log |
| disk coordinator (`disk_coordinator.rs`, `disk_metadata/`) | two index roots, overlay, barrier | a pair of roots that is not atomic, failed and repeated rebases | a pair survives; lookups equal the log; recovery fits |
| authorized facades and policy (`authorized*`, `uste-policy`) | kernel, handles, charges, durable policy | revocation between grant and use, failed writes, reopening with staged bytes | the certified policy is enforced; the ledger covers the disk; quotas hold |
| graph reducer and its owners (`uste-graph`) | records, history, indexes; families in runs or packed trees | preparation from a few proved records, publication and recovery of roots | every representation answers as the reducer would |
| memory, spatial, import (`uste-memory`, `uste-spatial`, `uste-ingest`) | sources, claims, worlds, import jobs | reads of the past after a revocation, repeated and late batches | reads as known; each row once; restorable checkpoints |
| memory adapter (`uste-memory-adapter`) | consumer's outbox, uploads, receipts | repeated delivery after a crash at any step | one commit per delivery; what is pending is settled |
| index runs, packed trees (`index*.rs`, `packed_*.rs`) | immutable pages, commitments, caches | values across pages, splits and merges of nodes, stale caches | canonical form; exact reads |
| codecs, times (`uste-types`, `uste-time`, codecs) | bytes, envelopes, zones | two spellings of one value, gaps and folds | one encoding per value; the right instant |

The hazards these parts are exposed to are listed with their source line in
`PROJECT.json` under `hazards`; each names the properties that would catch it.

## 2. The modules

| module | models | checked by |
|---|---|---|
| `FileStore` | the two views of a file and what a crash leaves | all below |
| `FileOps` | one directory; publications as sequences of file calls | `MCStores`, `MCDisk` |
| `CommitLog` | what the journal promises (abstract) | refined by `Journal`, used by `TxnCoordinator` |
| `Journal` | `journal.rs`: append, rollover, inventories, recovery | `MCJournal`, `JournalProofs` |
| `TxnCoordinator` | `uste-txn/src/lib.rs`, `commit_admission.rs` | `MCTxn`, `TxnProofs` |
| `BlobUpload` | `blob.rs`: one upload | `MCStores` |
| `Checkpoint` | `checkpoint.rs`: the two-slot cache | `MCStores`, `CheckpointProofs` |
| `DiskCoordinator` | two-slot roots of `index.rs`; `disk_coordinator.rs`, `disk_metadata/` | `MCDisk`, `DiskInvariant`, `DiskProofs` |
| `UploadStore` | what an upload call leaves, as operators | `Authorized` |
| `Authorized` | `uste-policy`; the in-memory, disk and packed facades | `MCAuthorized`, `AuthorizedProofs` |
| `GraphState` | the graph reducer: `state.rs`, `record.rs`, `query.rs` | `GraphDisk`, `Ingest` |
| `GraphDisk` | the families of index entries and the disk and packed owners of the graph | `MCGraph` |
| `MemoryPilot`, `ResearchMemory`, `MemoryService` | both memory reducers, their reads, and snapshots held across commits | `MCApplications` |
| `MemoryAdapter`, `ResearchProducer` | the adapter's outbox, the producer's retries | `MCApplications` |
| `Spatial`, `Ingest` | the spatial catalog; the import engine over graph and catalog | `MCApplications` |
| `IndexRun` | writing, merging and reading of sorted runs | `MCAlgorithms` |
| `PackedTree`, `PackedStore` | copy-on-write trees over packed pages; caches and cursors | `MCAlgorithms` |
| `ValueCodec`, `Forms`, `RecordCodec`, `GraphCodec`, `SpatialCodec`, `RequestCodecs`, `Codecs` | canonical values, typed records, requests; each encoder with its decoders | `MCAlgorithms` |
| `TimeEnvelope`, `TimeNormalizer` | envelopes and their codec; normalization and presentation | `MCAlgorithms` |

`FileOpsProofs` holds the facts about file calls that `CheckpointProofs`,
`DiskInvariant` and `DiskProofs` share. Two refinements join the lower half: `Journal`
implements `CommitLog` (`ImplementsCommitLog`), and what the coordinator does to its
journal is a behaviour of the same `CommitLog` (`UsesCommitLog`), so the interface of
the two crates is one module. Both are checked and proved. In the upper half the lower
parts appear through what they promise: `DiskCoordinator` and `Authorized` commit in
one step with the outcomes certified, refused and in doubt, and `Authorized` uses the
results of `BlobUpload` as the operators of `UploadStore`.

### FileStore, FileOps

A file is a function from slots to contents. A slot is one unit of the format (a
header, a group, a certificate, a chunk) and holds its content, `Hole` (the file
does not reach it) or `Torn` (an incomplete write). Each file and directory has a
visible view, used by every read, and a durable view. A synchronisation copies the
visible view to the durable one. At a crash each slot whose views differ keeps the old
content, takes the new one or is torn. `memory.rs` always keeps the old one; a
real disk writes back what it likes, so the model allows all three.

A publication in the code is a straight line of file calls. `FileOps` writes such a
line as a sequence of commands (`New`, `Sync`, `Move`, `Rm`, `DirSync`, `Fail`) and
says what each does to the directory (`Apply`), what a failed one may leave (`Failed`)
and what a crash leaves (`Crashed`). A component's operator (`Flush`, `Seal`,
`PublishChunk`, `PublishRoot`, ...) computes the sequence from the directory at the
point where the code decides, and `Step`, `StepFails` and `Crash` run it one command at
a time.

Assumptions about the platform:

* a synchronisation that returns success persisted the file; one that fails persisted
  nothing certain (the views stay as they are, and a later crash chooses);
* a torn write is recognisable (it fails authentication or length): a complete
  record of other bytes is outside the model and fails closed in the code;
* a rename is atomic at a crash; other changes of a directory survive one by one.

### Journal

State: `dirV/dirD` the directory, `hdrV/hdrD` segment headers, `segV/segD` groups,
`invV/invD` inventory files, `certV/certD` the certificate log (a slot per
revision); `seg, off, frontier, prev, cinv, poisoned` are the fields of
`JournalStore`. `pc` says between which two file calls the owner is. An append
attempt is a number that stands for the group's bytes and digest and for its
certificate's digest.

| code | actions |
|---|---|
| `append_group`, `append_group_with_inventory` | `AppendGroup` |
| `publish_blob_inventory` | `InvReuse`, `InvRewrite`, `InvCreate`, `InvWrite`, `InvSync`, `InvDirSync` |
| `append_group_internal` | `Admit`, `GrpWrite`, `GrpSync`, `CertWrite`, `CertSync` |
| `rollover` | `SegCreate`, `SegHeader`, `SegSync`, `SegDirSync` |
| `open`: `scan_certificates`, tail repair, replay | `Open`, `FirstPass`, `CertTrunc`, `CertResync`, `TailTrunc`, `TailSync`, `Replay` |
| errors and partial writes | `AppendFails`, `InvTorn`, `SegTorn`, `CertTorn`, `OpenFails` |
| drop, loss of the machine | `Close`, `Crash` |

Groups have one size (`SegCap` of them fill a segment). `create` builds its
directory aside and renames it, which is the initial state. `RetryPoisoned` says
whether the caller appends to a store that reported an ambiguous append; the
coordinator does not.

### TxnCoordinator

State: the fields of `CommitCoordinator` (`outcomes`, `transactions`, `owners`,
`state`, `uncertain`), the certified groups `log` and the attempt the journal holds
open. A call is one action, except a commit that reaches the journal (`Submit`,
`JournalWrites`, then `JournalAcks`, `JournalRefuses` or `JournalFails`), which the
process may not survive. `AnswerKnown`, `RefuseFresh` and `Fresh` are the checks of
`admit_commit` in their order. `Reopen` resolves the open attempt either way;
`ReplayGroup` and `ReplayMetadata` are the two replay visitors. The reducer is a
trait in the code; the model's keeps the bodies applied and refuses a repeated one.
The wall clock jumps both ways.

### BlobUpload, Checkpoint

`BlobUpload` is one upload token: `up` is the `BlobUpload` handle, `AfterWrite`,
`AfterFinish`, `AfterAbort` and `AfterResume` are the four calls after their common
prefix `recover_terminal_state`. A full or partial chunk is one piece; a reference
is the sequence of its pieces. `damaged` records that the code reported
`IntegrityFailure`.

`Checkpoint` has the two slots, publications with a fresh object identity that all
chunks are bound to (`Publish`, `NextPart`, `Published`; `ProducerFails` when the payload
stream ends early), and a reader that keeps a candidate across publications (`Discover`,
`Stream`). `faults` says which passing errors a behaviour may have: reads of a slot,
synchronisations.

### DiskCoordinator

The first part gives the index store's publications as `FileOps` sequences: a run
(`PublishRun`), a root manifest in the slot that does not hold the newest one
(`PublishRoot`), the resynchronisation of a visible root (`ResyncRoot`), and the
removal of runs no root names (`Referenced`, `WithoutOrphans`).

The coordinator keeps its answers in two such roots, one for the metadata and one for
the transactions, which recovery uses only as a pair at one revision (`base`). Commits
since then are an overlay of at most `MaxOverlay` outcomes, after which a commit is
refused until a rebase. `Rebase` publishes the two roots one after the other
(`RebaseMetadata`, `RebaseTransactions`, `RebaseDone`), and `Open` takes a pair at one
revision and replays the journal behind it. `world` says what else may happen in a
behaviour: failing synchronisations, another coordinator that commits while this one is
down, a process that stops with the machine still up and what it wrote visible but
not synchronised.

### UploadStore, Authorized

`Authorized` has the kernel's operators (grants, denials, quotas, leases, policy
replacement), the upload handles, the ledger of charges (`staged`, `committed`), what is
on disk (`files`, `owners`), the certified and the enforced policy (`dpol`, `pol`), and the
outbox of tokens a caller recorded. `kind` is the facade a behaviour is about: the
in-memory coordinator, the disk uploads and writer, the packed ones, and the in-memory one
without a durable policy. An upload call has every outcome `UploadStore` lists, commits
may stay in doubt, and `Reopen` drops the facade with or without the process.

A handle's part of the blob store is `io`: accepted and durable bytes, what it knows of
the upload's end, and its `UploadLease`, one of the database's `ACTIVE_UPLOADS`. The calls of
`blob.rs` release the lease where they learn that the upload has ended, each at its own
place (a finish, an abort, a resumption or a write that meets a manifest), and a handle
that outlives its facade keeps it. `UploadsAreCounted` relates that counter, the handles, the
files and the ledger: the counter is the number of handles that do not know of an end, a
handle that knows of one is right and buffers nothing, the others buffer at most a chunk,
and a token still being uploaded has one open handle, the one its charge counts.

### GraphState, GraphDisk

`GraphState` is the reducer as operators: preparation of a transaction against a
snapshot, publication, indexes, the checkpoint's restore checks, authorized reads.
`GraphDisk` first gives the families of index entries a state stands for, the deltas of
a transaction and their merge; then the owners that keep those families in runs or in
packed trees: publication of roots, live owners that prepare from partial proofs
(`LiveCommit`, `Hold`, `CommitHeld`), base publication, crashes before and after a root is
installed, and the four recoveries (from a suffix and from the origin, for both owners).

### Applications and algorithms

`MCApplications` runs `MemoryService`, `MemoryAdapter`, `ResearchProducer` and `Ingest`
each on its own; `MCAlgorithms` does so with `IndexRun`, `PackedStore`, `Codecs` and
`TimeNormalizer`. The header of each module says what stands for what: a digest stands
for what it is taken over, a refusal is an empty result, bytes have few values and
limits are close by.

The answers `ReadsAsKnown` compares are what one reader gets of every fact: a reader is the
records it may read, the records whose blobs it may read and its output limit. A citation
(`ResolveCitation`) is refused without `ReadBlob` of the source, beyond the output limit, and
where the locator cuts a character of the text (`IntegrityFailure`: a byte locator is
validated against the length only); an opaque source is cited without an excerpt. The byte
budget of searches and one-hop reads (`fact_view_bytes`) is not kept apart from their
result limit, which cuts the ordered answer likewise; nor is the refusal of a single
lookup beyond it.

## 3. The runs

| run | configuration | what it shows |
|---|---|---|
| `journal_safety` | `MCJournal.cfg` | safety of the journal and `ImplementsCommitLog` |
| `journal_live` | `MCJournalLive.cfg` | recovery ends with a ready store |
| `journal_retry_poisoned` | `MCJournalRetry.cfg` | finding 1 (violation) |
| `txn` | `MCTxn.cfg` | exactly once, truthful answers, memory equals log, replay accepts, `UsesCommitLog`, a reopening ends |
| `stores` | `MCStores.cfg` | an upload becomes one blob or none and keeps its durable bytes; checkpoints survive, are terminal and are streamed as discovered |
| `disk_rebase` | `MCDisk.cfg` | a complete pair survives at every step of a rebase, lookups equal the log, recovery fits the overlay |
| `disk_rebase_restart` | `MCDiskRestart.cfg` | finding 2 (violation) |
| `authorized` | `MCAuthorized.cfg` | ledger, quotas, counted uploads, enforced policy, and no effect the policy of the moment forbids |
| `graph` | `MCGraph.cfg` | restorable states, partial proofs, roots against the journal, equal reads, authorized effects |
| `applications` | `MCApplications.cfg` | reads of the past, rebuilt mappings, exact retries and imports, restorable engine, settled outbox |
| `algorithms` | `MCAlgorithms.cfg` | canonical indexes and encodings, exact reads, settled times |
| `time_presentation` | `MCPresentation.cfg` (module `MCAlgorithms`) | finding 3 (violation) |

Run one with `tlc -config MCJournal.cfg MCJournal`.

**Bounds.** *Journal*: 3 revisions in segments of 2 groups give an append into a
fresh segment, into a started one and over a full one; 4 attempts leave room for one
that fails and is retried after each of them; 4 segment names leave orphans of
failed rollovers; two inventories allow one to be shared by two certificates while
the other is in doubt. *Coordinator*: the requests collide pairwise on key,
transaction id, body and blob; retention 1 and a clock over 0..1 reach the expiry
boundary from both sides. *Stores*: two chunks, so that a full chunk is followed by a
partial one, a full one or none, and a shorter checkpoint follows a longer one; three
publications replace both slots and one of them twice; with and without failing reads and
synchronisations. *Disk coordinator*: four requests and an overlay of two give two
full rebases over one another; 6 runs and 10 files leave room for the orphans of
interrupted ones (8 and 14 where a process also restarts on them). *Authorized*: a
manager and a user, two uploads and two handles in a quota that one and a half of them
fill, a second policy that takes rights and lowers quotas; each kind of facade. With two
handles the limit on concurrent uploads refuses no new one, only resumptions of a
reconciliation (a third handle makes the run several times longer), so no property of the
run is about that limit.
*Graph*: six records of every kind, three revisions, transactions that create, accept,
correct, retract, replace and delete them. *Applications*: eight memory revisions, two
uploads, two faults, plans of two jobs with late and repeated batches. *Algorithms*: pages
so small that a value of the largest size spans two, trees of every shape up to three
entries a page of two, every valid record with one edit, every input kind around the
changes of a zone. Segment identities, full pieces, tokens, handles and all
requests but the first are symmetric: no definition tells them apart.

**Deadlock** is checked except in `authorized`, `applications` and `algorithms`, whose
callers run out of requests. In the others a crash and a reopening are always possible,
or, in `graph`, a refused or repeated transaction is.

**Fairness.** `journal_live` and `txn` assume weak fairness of the recovery steps
only: an opener that is running takes its next step, since `open` is a loop without
waiting. `ReopenCompletes` and `ReopenSettles` are conditional on faults (process losses)
eventually stopping, which is stated in the property and not assumed of the system.
`applications` assumes that an adapter in the middle of a call goes on, that a closed
adapter is opened, and that a consumer whose outbox is not empty closes and opens it again
(the code works the outbox off only in `open`); failed calls and crashes are at most
`MaxFaults`.

**Mutants.** Every property has a mutant of a mapped definition (a dropped
synchronisation, a missing guard, a swapped order) under which TLC finds it
violated; the mutants stand before the definitions they change.

## 4. The proofs

Every theorem is proved for every value of the constants that satisfies the named
assumptions of its modules: any number of revisions, segments, requests, principals,
tokens, handles, runs, files and chunks. TLC evaluates the assumptions in each run of a
module that extends them.

| module | theorem | property |
|---|---|---|
| `JournalProofs` | `TypeCorrect` | `TypeOK` |
| | `CertificatesAreBacked` | `CertifiedIsDurable` |
| | `CommitsAreDurable` | `AckedIsDurable` |
| | `RecoveryNeverRejects` | `RecoveryAccepts` |
| | `MemoryFollowsDisk` | `MemoryMatchesDisk` |
| | `Refinement` | `ImplementsCommitLog` |
| `TxnProofs` | `CommitsOnce` | `ExactlyOnce` |
| | `AnswersStayTrue` | `RepliesAreTrue` |
| | `MemoryIsTheLog` | `MemoryMatchesLog` |
| | `ReplayNeverRefuses` | `ReplayAccepts` |
| | `JournalIsACommitLog` | `UsesCommitLog` |
| `AuthorizedProofs` | `KernelEnforcesCertified` | `KernelIsCertified` |
| | `RevocationIsImmediate` | `RevocationHolds` (an action property) |
| | `LedgerStaysExact` | `LedgerIsExact` |
| | `UploadsStayCounted` | `UploadsAreCounted` |
| `DiskProofs` | `LookupsMatchTheLog` | `LookupMatchesLog` |
| | `PairsSurvive` | `PairSurvives`, where no process restarts on unsynchronised files |
| | `RecoveryAlwaysFits` | `RecoveryFits`, likewise |
| `CheckpointProofs` | `ManifestsAreTerminal` | `ManifestIsTerminal` |
| | `StreamsAreExact` | `StreamedIsHeld` |
| | `PublicationsSurvive` | `PublishedSurvives` |

None of the properties is inductive. In each module the theorems follow from one
inductive invariant and a lemma per action.

### JournalProofs

For a caller that does not append to a store it knows is poisoned (`~RetryPoisoned`; with
it the first property fails, finding 1). A crash turns visible content into durable
content, so a statement about the durable view alone says nothing about the state after
it. `IInv` therefore relates the two views and the store's memory:

* `Steps`: what each `pc` implies (poisoned, in doubt, below the limits);
* `Log`: the log is the acknowledged certificates, then at most one in doubt, then
  nothing, in both views;
* `Certified`: every visible certificate is valid and complete in the visible *and*
  the durable view, and the two agree on its segment's header, so that any mixture
  a crash produces keeps it valid;
* `Bases`: the first segment is there in both views;
* `Ordered`: certificates of one segment name increasing slots, so the slot an
  append writes is named by none of them;
* `Current`: the memory of an unpoisoned or appending store is what the log says;
* `Fresh`: a segment being prepared belongs to no certificate;
* `Prepared`: how much of the inventory and the group of the append in progress is
  visible and durable at each step;
* `Reopening`: what the passes of a reopening established;
* `Attempted`: attempts have fresh identities and commit at most once.

The steps that need an argument are `CertWrite` (the new certificate is valid in both
views, from `Prepared` and `Current`), `CertSync`, `Replay` (what the second pass computes
is what the log says), `FirstPass` and `Crash`. `Refinement` maps `AppendGroup` to
`Propose`, `Admit` to `Start`, `CertSync` to `Acknowledge`, `Replay` to `Resolve`, and every
other step to a stuttering step.
`MemoryFollowsDisk` needs more (`Kept`): an idle
store's segment has nothing behind its last certified group and the inventories it
remembers are those of its certificates (`Ends`), a segment being prepared has no groups
(`Blank`), and a reopening has every uncertified tail on its list until it is cut (`Tails`).

### TxnProofs

One fact makes the four properties inductive: whatever the coordinator holds (its memory,
the part a replay has rebuilt, the published checkpoint, what a seeded replay has yet
to confirm) is the record of an interval of the log (`Recorded`, `Owned`, `Reduced`), and
the group whose fate is open fits the end of it (`Pending`). Replay from a seed then
meets in each group what the seed says of it, and ends where replay from the start does.
`JournalIsACommitLog` maps the coordinator's use of its journal to `CommitLog`, the
module `Refinement` shows the journal to implement.

### AuthorizedProofs

`PolicyInv` (the kernel's policy is the certified one, also while a commit is in doubt)
gives the first two theorems: each guard of an effect is evaluated on the kernel, so with
`pol = dpol` it is the certified policy that allowed it. `LedgerInv` and `HandlesInv`
tie the ledger to the disk: until a token's files are final or aborted, at most one live
handle of the current facade has it, the token's charge is that handle's and is not below
what it accepted; a charge or a commit in doubt that counts a token as final has final
files; an uncharged token outside the outbox has no bytes. `IoInv` ties each handle to the
files of its token (`IoFits`: a lease until the handle knows of an end, an end it knows of is
the one on disk, no more than a chunk buffered, nothing without a lease): every release
point of `blob.rs` keeps it for its own handle, and the others of the token keep it because
an end is never undone (`CallKeepsIo`). With the count of leases (`ActiveIs`) and `HandlesInv`
it gives `UploadsAreCounted`. The lemmas on each operator of
`UploadStore` say what every outcome of a write, finish, resume and abort leaves.

### FileOpsProofs, DiskInvariant, DiskProofs, CheckpointProofs

A crash makes either of two directory entries and either of two contents the only one.
The invariants are therefore about everything a name may hold after a crash
(`Contents`), and about how far a name is written: `Written` (visible), `Flushed` (its
bytes are synchronised), `Solid` (its entry too). `FileOpsProofs` proves for every file
call, failed call and crash what it does to these four on the name it touches and that
it leaves the other names alone.

*Disk coordinator.* `RootsInv`: every manifest a root name may hold is of a revision of
the log, has that revision's outcomes and a durable run; one name has one manifest; the
two slots of a profile are ordered alike by revision and by generation. `HiddenInv`: a
manifest readers do not find is older than the one they find. `OpenInv`: base and overlay
are the log, and the calls a rebase has left to make say what the earlier ones achieved
(`RunsPhase`, `PublishPhase`, `ReusePhase`). `DurableInv` adds that the base of an
open coordinator is durable as a pair, `FitInv` that some durable pair is at most an overlay
behind the frontier with no root in between. The premise of the last two theorems is that
no process stops on unsynchronised files and a successor takes them as its base: finding 2
is exactly that case, and there the property fails.

*Checkpoints.* `SlotsInv`: a slot's manifest name holds at most one manifest, whose
chunks are `Solid`, and no generation is in both slots. `PhaseInv` says what the calls of a
publication have left (old manifest gone, chunks written one by one, manifest last).
`DurableInv` is for behaviours without failing reads and synchronisations, as the property
is: a failed synchronisation of a manifest leaves a readable one that a crash may take,
and a failed read restarts the generations.

### What stays with TLC

* liveness (`ReopenCompletes`, `ReopenSettles`, `PendingIsSettled`): the prover has no
  rules for fairness;
* `QuotasHold`: a sum over charges, which needs an induction over finite sets;
* `ReferenceIsFinal`, `DurableBytesSurvive`: an upload's terminal state is recovered by
  loops over its chunks with renames between three names a chunk; the phases of a
  repaired seal are many more than those of a root, and their invariant is not worked out;
* everything about `GraphDisk`, the applications and the algorithms: recursive
  definitions and folds over sequences, whose values for every input need an induction
  over data.

Leaves name the prover that finds them (`Zenon`, or `SMTT(n)` where arithmetic or a
solver is needed): the time tlapm spends on translating a leaf for the solver grows
with the module, and would otherwise count against the default limit.

## 5. Findings

1. `journal_retry_poisoned`. `append_group_with_inventory` publishes the inventory
   before the poisoned flag is tested. On a store with an ambiguous certificate, a
   second call with the same inventory, whose read of the existing file fails,
   truncates a file a durable certificate may name. The coordinator's `uncertain`
   flag keeps its callers from doing so; a direct caller of the journal can.
2. `disk_rebase_restart`. A rebase resynchronises a visible root before it relies on
   it, but recovery takes a visible pair as its base without doing so. If the process
   stops after writing the transaction root and before its synchronisation, the next
   one opens on that pair and its own rebase removes the older, durable one; a loss of
   power then leaves no complete pair. The journal still has everything.
3. `time_presentation`. Presenting an instant accepts any offset near it whose local
   reading resolves back to the instant. A reading inside a gap resolves with the offset
   of before the gap, so shortly after a forward change the stale offset is accepted: the
   instant is right, the wall-clock time shown is one the zone never had.

Two facts about checkpoints are conditions of `PublishedSurvives` rather than findings,
since no document promises more: a publication whose manifest could not be synchronised
leaves a readable one, and the retry then replaces the only durable slot; and a slot whose
read fails is not a candidate, so a publication at that moment restarts at generation 1.

Smaller disagreements met while modelling; the models follow the code, and the properties
state what holds:

* `docs/decisions/0056-bounded-memory-write-query-lifecycle.md` (39): a citation has the "exact
  UTF-8 slice when one exists"; for a locator inside a character there is none, and the
  whole citation is an `IntegrityFailure` (`uste-memory/src/query.rs`, 456-458);
* `docs/decisions/0057-local-memory-consumer-adapter.md` (33-36): "A generation can advance
  only by one through `begin_rebuild`", while `open` serves whatever generation the
  consumer's checkpoint names (`lib.rs`, 277);
* `docs/decisions/0279-memory-pilot-to-research-mapping.md` (14): replaying the plan after
  `BeginRebuild` "rebuilds the same lifecycle"; a pilot that exceeds a limit of the research
  contract has a plan, and the replay refuses it (`MappingRebuilds` says when);
* `docs/memory-consumer-contract.md` (72): "Replaying the same request returns the" original
  receipt; a source write repeated after a new generation began is a `Conflict`;
* an outbox record that the database refuses stays pending, and every later `open`
  returns its error (`PendingIsSettled` is about the others);
* `docs/decisions/0018-authorization-and-quota-profile.md` (86) has the facade track live
  handles; a second finish of a finished handle takes one off the count of another handle
  of the token (`authorized.rs`, 913).

## 6. What is not modelled

`PROJECT.json` lists every part with what is left out. In short:

* encryption: a ciphertext that authenticates is its content; digests are what they cover;
* certificate proofs, windowed and streaming readers of the journal, and the disk-blob
  branch of its recovery; group sizes other than uniform;
* the first-reference and usage roots, the rebuild of the disk coordinator from a private
  genesis, and the packed coordinator (its roots are published as those of
  `DiskCoordinator`);
* the page cache of index runs, private staging of runs, page layout of packed trees;
* the blob store's range reads and inventories' encoding;
* metered reads, exports and the authorized rebase of the facades;
* the Linux adapter's system calls, the ownership lock, the replay tool, the test kit,
  fuzz targets and experiments.
