--------------------------- MODULE DiskCoordinator --------------------------
(***************************************************************************)
(* The disk-backed commit coordinator of crates/uste-txn/src:              *)
(* disk_coordinator.rs, with commit_admission.rs and disk_metadata/        *)
(* (admission.rs, rebase.rs).  Outcomes up to a base revision are in two   *)
(* index roots, by retry key (metadata) and by transaction identity        *)
(* (transactions); later ones are in a bounded overlay in memory.          *)
(* rebase_metadata merges the overlay into new runs and publishes the two  *)
(* roots, one after the other: the pair is not atomic.                     *)
(*                                                                         *)
(* The journal is the one of module CommitLog: a commit is durable when it *)
(* returns, or its outcome stays open until the store is reopened.  A      *)
(* request stands for a retry key with its transaction identity.           *)
(***************************************************************************)
EXTENDS FileOps

(***************************************************************************)
(* The two-slot index roots of crates/uste-storage/src/index.rs.  A run is *)
(* an immutable sorted file under a fresh object identity; a root is a     *)
(* manifest that names its runs, in one of two slots per index profile.    *)
(* This part has no state: it says which roots a directory holds and what  *)
(* file calls a publication makes.  A root here has one run, which stands  *)
(* for its families: all of them are written before the root and in the    *)
(* same way.                                                               *)
(***************************************************************************)

CONSTANTS
  Profiles,   \* the index profiles
  MaxRuns     \* bound: run files referenced at once

Slots == 1..2                  \* Slot::A and Slot::B
Root(p, s) == <<p, s>>
Run(o) == <<"run", o>>

RootNames == Profiles \X Slots
RunNames == {"run"} \X (1..MaxRuns)

ASSUME RootsAssumption ==
  /\ MaxRuns \in Nat /\ MaxRuns >= 2 /\ MaxFiles >= 4 /\ "run" \notin Profiles
  /\ Names = RootNames \cup RunNames

\* A run: the revision it is bound to and its entries.  A manifest: the input's
\* revision, the generation, the run's object and logical digest.
RunOf(rev, entries) == [rev |-> rev, entries |-> entries]
ManifestOf(rev, gen, o, entries) ==
  [rev |-> rev, gen |-> gen, run |-> o, digest |-> entries]

-----------------------------------------------------------------------------
\* load_slot: the manifest decodes and its run file has the right length.
LoadSlot(f, p, s) ==
  LET m == Read(f, Root(p, s)) IN
  /\ m \notin {Hole, Torn}
  /\ Read(f, Run(m.run)) # Hole

\* load_manifest_candidates; load_manifests hands these out unscrubbed.
ManifestSlots(f, p) == {s \in Slots : LoadSlot(f, p, s)}
Manifest(f, p, s) == Read(f, Root(p, s))

\* scrub, visit_run: the run authenticates and has the digest of the manifest.
Intact(f, m) == Read(f, Run(m.run)) = RunOf(m.rev, m.digest)

\* load_candidates, load_candidates_bounded.
Usable(f, p) == {s \in ManifestSlots(f, p) : Intact(f, Manifest(f, p, s))}

\* validate_candidate_generations refuses two roots of one generation.
Ambiguous(f, p, cands) ==
  \E s, t \in cands : /\ Manifest(f, p, s).gen = Manifest(f, p, t).gen
                      /\ Manifest(f, p, s) # Manifest(f, p, t)

NewestSlot(f, p, cands) ==
  CHOOSE s \in cands : \A t \in cands : Manifest(f, p, t).gen <= Manifest(f, p, s).gen

RootGeneration(f, p, cands) ==
  IF cands = {} THEN 1 ELSE Manifest(f, p, NewestSlot(f, p, cands)).gen + 1

\* The slot publish_root replaces: A, the free one, or the older one.
RootSlot(f, p, cands) ==
  IF cands = {} THEN 1 ELSE CHOOSE s \in Slots : s # NewestSlot(f, p, cands)

-----------------------------------------------------------------------------
\* publish_run, merge_run: write the pages, sync the file, then the directory.
PublishRun(o, run) == <<New(Run(o), run), Sync(Run(o)), DirSync(Run(o))>>

\* publish_root.
PublishRoot(f, p, rev, o, entries) ==
  LET cands == Usable(f, p)
      name == Root(p, RootSlot(f, p, cands))
      m == ManifestOf(rev, RootGeneration(f, p, cands), o, entries)
  IN IF Ambiguous(f, p, cands) THEN <<Fail(name)>>
     ELSE (IF Exists(f, name) THEN <<Rm(name)>> ELSE <<>>)
          \o <<DirSync(name), New(name, m), Sync(name), DirSync(name)>>

\* resync_root: authenticate and sync every run, sync the manifest and the
\* directory; no slot is replaced.
ResyncRoot(f, p, s) ==
  LET m == Manifest(f, p, s)  name == Root(p, s) IN
  IF Intact(f, m) THEN <<Sync(Run(m.run)), Sync(name), DirSync(name)>>
  ELSE <<Fail(name)>>

-----------------------------------------------------------------------------
\* The objects a manifest on disk refers to, or may refer to after a crash.
Referenced(f) ==
  {o \in 1..MaxRuns : \E n \in RootNames : \E g \in {f.vis[n], f.dur[n]} \ {0} :
     \E m \in {f.data[g], f.safe[g]} \ {Hole, Torn} : m.run = o}

\* A run no root refers to is an orphan: nothing reads it again, and a new run
\* has a new identity.  Its name is used again here, to keep the names few.
WithoutOrphans(f, used) ==
  LET lost == {Run(o) : o \in (1..MaxRuns) \ (Referenced(f) \cup used)}
      cut(dir) == [n \in Names |-> IF n \in lost THEN 0 ELSE dir[n]]
  IN Tidy([vis |-> cut(f.vis), dur |-> cut(f.dur), data |-> f.data, safe |-> f.safe])

FreeObjects(f) == {o \in 1..MaxRuns : f.vis[Run(o)] = 0 /\ f.dur[Run(o)] = 0}

-----------------------------------------------------------------------------
CONSTANTS
  Requests,    \* the requests that can be committed
  First,       \* the request of the first revision
  NoBase,      \* no base admitted
  MaxOverlay,  \* overlay_limits.maximum_outcomes
  Worlds       \* what else may happen in a behaviour, see world

RunType == [rev : Nat, entries : SUBSET (Requests \X Nat)]
ManifestType ==
  [rev : Nat, gen : Nat, run : 1..MaxRuns, digest : SUBSET (Requests \X Nat)]

\* What authenticates as a run or a manifest is neither absent nor torn.
ASSUME MarksAssumption ==
  Hole \notin RunType /\ \A x \in {Hole, Torn} : x \notin ManifestType

ASSUME DiskAssumption ==
  /\ First \in Requests /\ MaxOverlay \in Nat \ {0}
  /\ Worlds \subseteq SUBSET {"sync", "legacy", "restart"}
  /\ Profiles = {"metadata", "transactions"}

VARIABLES
  world,       \* "sync": a file or directory sync may fail; "legacy": another
               \* writer commits while this one is down; "restart": the process
               \* may stop with the machine still up
  fs,          \* the database directory, its index files
  log,         \* the committed requests, in revision order
  mode,        \* "down", "open", or "uncertain" after an ambiguous append
  base,        \* the admitted base: its revision and its runs, or NoBase
  overlay,     \* the outcomes after the base
  required,    \* rebase_required
  phase,       \* where rebase_metadata is: "idle", "runs" or a profile
  merged,      \* the objects of the runs it merged
  todo,        \* the file calls it still makes
  rebased      \* history: the revision of the last rebase that returned

vars == <<world, fs, log, mode, base, overlay, required, phase, merged, todo, rebased>>

Frontier == Len(log)
Outcomes(from, to) == {<<log[r], r>> : r \in from..to}
Committed(q) == \E r \in 1..Frontier : log[r] = q

\* The directory that publishing the pair at the first revision leaves: a file
\* for each run and each root, in the order in which they are written.
FirstNames ==
  [n \in Names |-> CASE n = Run(1) -> 1 [] n = Root("metadata", 1) -> 2
                     [] n = Run(2) -> 3 [] n = Root("transactions", 1) -> 4
                     [] OTHER -> 0]
FirstContents ==
  [f \in Files |-> CASE f \in {1, 3} -> RunOf(1, Outcomes(1, 1))
                     [] f = 2 -> ManifestOf(1, 1, 1, Outcomes(1, 1))
                     [] f = 4 -> ManifestOf(1, 1, 2, Outcomes(1, 1))
                     [] OTHER -> Hole]

\* The pair published at the first revision and reopened.
Init ==
  /\ world \in Worlds
  /\ log = <<First>>
  /\ fs = [vis |-> FirstNames, dur |-> FirstNames,
           data |-> FirstContents, safe |-> FirstContents]
  /\ mode = "down" /\ base = NoBase /\ overlay = {} /\ required = FALSE
  /\ phase = "idle" /\ merged = [p \in Profiles |-> 0] /\ todo = <<>> /\ rebased = 1

-----------------------------------------------------------------------------
\* The slot that holds the usable root of a profile at a revision, if any.
SlotsAt(f, p, r) ==
  {s \in Usable(f, p) : Manifest(f, p, s).rev = r
                        /\ Manifest(f, p, s).digest = Outcomes(1, r)}

\* The revisions at which both roots can be admitted: admit_base and
\* admit_coordinator_transaction_index_for_recovery compare them with the log.
Pairs(f) == {r \in 1..Frontier : \A p \in Profiles : SlotsAt(f, p, r) # {}}

BaseAt(f, r) ==
  [rev |-> r, runs |-> [p \in Profiles |->
     LET s == CHOOSE s \in SlotsAt(f, p, r) : TRUE IN Manifest(f, p, s).run]]

NewerRoot(f, r) ==
  \E p \in Profiles : \E s \in ManifestSlots(f, p) : Manifest(f, p, s).rev > r

\* from_admitted_base, recover_with_domain_replay: the caller has admitted a
\* pair; the suffix must fit in the overlay.
Open ==
  /\ mode = "down"
  /\ \E r \in Pairs(fs) :
       /\ Frontier - r <= MaxOverlay
       /\ base' = BaseAt(fs, r)
       /\ overlay' = Outcomes(r + 1, Frontier)
       /\ required' = NewerRoot(fs, r)
  /\ mode' = "open"
  /\ UNCHANGED <<world, fs, log, phase, merged, todo, rebased>>

\* outcome, transaction_outcome: the overlay, then the run of the base.
Lookup(p, q) ==
  {r \in 1..Frontier :
     \/ <<q, r>> \in overlay
     \/ /\ ~\E later \in 1..Frontier : <<q, later>> \in overlay
        /\ <<q, r>> \in Read(fs, Run(base.runs[p])).entries}

\* Mutant: the overlay may grow by one too many.
AdmitsOneMore(q) ==
  /\ \A p \in Profiles : Lookup(p, q) = {}
  /\ ~required /\ Cardinality(overlay) <= MaxOverlay

\* admit_commit with admitted_overlay_limits: the request is new by both
\* identities, and the overlay has room; it has none while a rebase is due.
Admits(q) ==
  /\ \A p \in Profiles : Lookup(p, q) = {}
  /\ ~required /\ Cardinality(overlay) < MaxOverlay

\* commit that returns an outcome.
Commit(q) ==
  /\ mode = "open" /\ phase = "idle" /\ Admits(q)
  /\ log' = Append(log, q) /\ overlay' = overlay \cup {<<q, Frontier + 1>>}
  /\ UNCHANGED <<world, fs, mode, base, required, phase, merged, todo, rebased>>

\* commit that returns OutcomeUnknown: every later call does, until reopened.
CommitUncertain(q) ==
  /\ mode = "open" /\ phase = "idle" /\ Admits(q)
  /\ log' \in {log, Append(log, q)} /\ mode' = "uncertain"
  /\ base' = NoBase /\ overlay' = {} /\ required' = FALSE
  /\ UNCHANGED <<world, fs, phase, merged, todo, rebased>>

\* Another coordinator opens the store, commits and closes it again.
LegacyCommit(q) ==
  /\ "legacy" \in world /\ mode = "down" /\ ~Committed(q)
  /\ log' = Append(log, q)
  /\ UNCHANGED <<world, fs, mode, base, overlay, required, phase, merged, todo, rebased>>

-----------------------------------------------------------------------------
\* rebase_metadata has something to do.
Rebasable == mode = "open" /\ phase = "idle" /\ (overlay # {} \/ required)

\* publish_overlay_base refuses when a root lies between base and frontier.
Refused(f, r) ==
  \E p \in Profiles : \E s \in ManifestSlots(f, p) :
    Manifest(f, p, s).rev > r /\ Manifest(f, p, s).rev # Frontier

\* The merged outcomes: the run of the base with the overlay.
Merged(p) == Read(fs, Run(base.runs[p])).entries \cup overlay

RebaseRefused ==
  /\ Rebasable /\ Refused(fs, base.rev)
  /\ required' = TRUE
  /\ UNCHANGED <<world, fs, log, mode, base, overlay, phase, merged, todo, rebased>>

\* The merges: new runs under two fresh identities.
MergeRuns ==
  \E a, b \in FreeObjects(fs) :
    /\ a < b /\ \A o \in FreeObjects(fs) : o >= b \/ o = a
    /\ merged' = [p \in Profiles |-> IF p = "metadata" THEN a ELSE b]
    /\ todo' = PublishRun(a, RunOf(Frontier, Merged("metadata")))
               \o PublishRun(b, RunOf(Frontier, Merged("transactions")))

\* Mutant: the overlay is given up at the start.
RebaseClearsEarly ==
  /\ Rebasable /\ ~Refused(fs, base.rev) /\ MergeRuns /\ phase' = "runs"
  /\ required' = TRUE /\ overlay' = {}
  /\ UNCHANGED <<world, fs, log, mode, base, rebased>>

\* rebase_metadata_internal, and publish_overlay_base up to the merges.
Rebase ==
  /\ Rebasable /\ ~Refused(fs, base.rev) /\ MergeRuns /\ phase' = "runs"
  /\ required' = TRUE
  /\ UNCHANGED <<world, fs, log, mode, base, overlay, rebased>>

\* Mutant: a root of this revision is published again.
PublishAgain(p) ==
  PublishRoot(fs, p, Frontier, merged[p], Merged(p))

\* publish_or_reuse: a root of this revision must have the same content, and
\* is synchronised again; otherwise a new root is published.
PublishOrReuse(p) ==
  LET same == {s \in ManifestSlots(fs, p) : Manifest(fs, p, s).rev = Frontier} IN
  IF same = {} THEN PublishRoot(fs, p, Frontier, merged[p], Merged(p))
  ELSE LET s == NewestSlot(fs, p, same) IN
       IF Manifest(fs, p, s).digest = Merged(p) THEN ResyncRoot(fs, p, s)
       ELSE <<Fail(Root(p, s))>>

\* The runs are written, then the metadata root, then the transaction root.
RebaseMetadata ==
  /\ phase = "runs" /\ todo = <<>>
  /\ phase' = "metadata" /\ todo' = PublishOrReuse("metadata")
  /\ UNCHANGED <<world, fs, log, mode, base, overlay, required, merged, rebased>>

RebaseTransactions ==
  /\ phase = "metadata" /\ todo = <<>>
  /\ phase' = "transactions" /\ todo' = PublishOrReuse("transactions")
  /\ UNCHANGED <<world, fs, log, mode, base, overlay, required, merged, rebased>>

\* Both publications returned: the new base replaces the old one.
RebaseDone ==
  /\ phase = "transactions" /\ todo = <<>>
  /\ base' = BaseAt(fs, Frontier) /\ overlay' = {} /\ required' = FALSE
  /\ fs' = WithoutOrphans(fs, {})
  /\ phase' = "idle" /\ merged' = [p \in Profiles |-> 0] /\ rebased' = Frontier
  /\ UNCHANGED <<world, log, mode, todo>>

Step ==
  /\ todo # <<>> /\ Possible(fs, Head(todo))
  /\ fs' = Apply(fs, Head(todo)) /\ todo' = Tail(todo)
  /\ UNCHANGED <<world, log, mode, base, overlay, required, phase, merged, rebased>>

\* A file call or a limit fails: rebase_metadata returns early and the
\* coordinator keeps its base, its overlay and the barrier.
StepFails ==
  /\ todo # <<>>
  /\ Head(todo).op \in {"sync", "dirsync"} => "sync" \in world
  /\ \E f \in Failed(fs, Head(todo)) :
       fs' = WithoutOrphans(f, {base.runs[p] : p \in Profiles})
  /\ todo' = <<>> /\ phase' = "idle" /\ merged' = [p \in Profiles |-> 0]
  /\ UNCHANGED <<world, log, mode, base, overlay, required, rebased>>

\* Nothing is left of the process.
Stopped ==
  /\ mode' = "down" /\ base' = NoBase /\ overlay' = {} /\ required' = FALSE
  /\ phase' = "idle" /\ merged' = [p \in Profiles |-> 0] /\ todo' = <<>>
  /\ UNCHANGED <<world, log, rebased>>

\* The machine stops.
Crash ==
  /\ \E f \in Crashed(fs) : fs' = WithoutOrphans(f, {})
  /\ Stopped

\* The process stops, and what it wrote stays visible to the next one: after a
\* call that returned, or ("restart") whatever was not yet synchronised.
Settled == fs.vis = fs.dur /\ fs.data = fs.safe

Stop ==
  /\ mode # "down" /\ ("restart" \in world \/ (phase = "idle" /\ Settled))
  /\ fs' = WithoutOrphans(fs, {})
  /\ Stopped

Next ==
  \/ Open \/ \E q \in Requests : Commit(q) \/ CommitUncertain(q) \/ LegacyCommit(q)
  \/ Rebase \/ RebaseRefused \/ RebaseMetadata \/ RebaseTransactions \/ RebaseDone
  \/ Step \/ StepFails \/ Crash \/ Stop

Spec == Init /\ [][Next]_vars

-----------------------------------------------------------------------------
(***************************************************************************)
(* Properties.                                                             *)
(***************************************************************************)

\* However often a rebase is interrupted and repeated, the directory holds a
\* complete pair that recovery can admit, at the revision of the last rebase
\* that returned or later (rebase.rs:75-78 and 417-418).
PairSurvives == \E r \in Pairs(fs) : r >= rebased

\* The suffix that recovery has to replay always fits in the overlay, so the
\* limit that admits a commit never locks the store (disk_coordinator.rs:363).
\* Opened on the newest pair, the coordinator is never refused a rebase: no
\* partial rebase is left behind the frontier (disk_coordinator.rs:745-755).
RecoveryFits ==
  "legacy" \notin world =>
    /\ \E r \in Pairs(fs) : Frontier - r <= MaxOverlay
    /\ mode = "open" /\ (\A r \in Pairs(fs) : r <= base.rev) => ~Refused(fs, base.rev)

\* A lookup by either identity finds a request exactly at its revision, before,
\* during and after a rebase, whatever became of it: no commit is forgotten and
\* none is done twice (disk_coordinator.rs:868-944).
LookupMatchesLog ==
  mode = "open" =>
    \A p \in Profiles, q \in Requests :
      Lookup(p, q) = {r \in 1..Frontier : log[r] = q}
=============================================================================
