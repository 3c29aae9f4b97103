------------------------------ MODULE GraphDisk -----------------------------
(***************************************************************************)
(* The graph reducer served by its three owners: the in-memory reducer,    *)
(* the disk-live state over a run root and the packed-live state over      *)
(* packed trees (uste-graph state_disk.rs and its submodules).  A live     *)
(* owner keeps a base (one admitted root with its counts and policy),      *)
(* prepares every transaction from partial proofs of that base, and after  *)
(* a commit holds the pending change until the successor root is merged,   *)
(* published and installed.                                                *)
(*                                                                         *)
(* The journal is the sequence log of committed transactions.  memory is   *)
(* the snapshot an in-memory replay of the log holds: it is the reducer of *)
(* the "memory" owner and the reference the live owners are compared with. *)
(***************************************************************************)
EXTENDS GraphState

(***************************************************************************)
(* The derived disk representation of a graph snapshot (uste-graph,        *)
(* state_disk.rs and its submodules, disk.rs): eight sorted families of    *)
(* entries, the exact change of each family for one prepared transaction,  *)
(* the merge that applies it, the checks on a merged or loaded root, the   *)
(* partial proofs a transaction is prepared from, and the authorized reads *)
(* answered from the families.                                             *)
(*                                                                         *)
(* A family is a function from its keys to its values.  The run format and *)
(* the packed trees store the same eight families; their logical digests   *)
(* are injective in the entries they cover.  Work limits (pages, bytes,    *)
(* visits) are taken large enough for every request.                       *)
(***************************************************************************)

SecondaryNames == {"outgoing", "incoming", "provenance", "reverse"}

FamilyNames == {"metadata", "current", "history", "policy"} \cup SecondaryNames

MetadataKey == "graph-state-v1"

(***************************************************************************)
(* The families of a snapshot.                                             *)
(***************************************************************************)
MetadataValue(revision, counts) == MetadataKey :> [revision |-> revision, counts |-> counts]

IndexKeys(index) == UNION {{<<k, v>> : v \in index[k]} : k \in DOMAIN index}

RelationshipNeighbor(records, entity, id) ==
    IF records[id].ends[1] = entity THEN records[id].ends[2] ELSE records[id].ends[1]

HistoryKeys(history) ==
    UNION {{<<id, r.modified>> : r \in Range(history[id])} : id \in DOMAIN history}

ReverseKeys(reverse) == UNION {{<<t, o>> : o \in DOMAIN reverse[t]} : t \in DOMAIN reverse}

PolicyEntries(policy, policy_history) ==
    [k \in {<<0>> : x \in Range(policy)} |-> policy[1]]
        @@ [k \in {<<1, r>> : r \in DOMAIN policy_history} |-> policy_history[k[2]]]

MetadataCounts(s) ==
    [current |-> Cardinality(DOMAIN s.records),
     history |-> Cardinality(HistoryKeys(s.history)),
     outgoing |-> Cardinality(IndexKeys(s.outgoing)),
     incoming |-> Cardinality(IndexKeys(s.incoming)),
     provenance |-> Cardinality(IndexKeys(s.provenance)),
     reverse |-> Cardinality(ReverseKeys(s.reverse)),
     policy_history |-> Cardinality(DOMAIN s.policy_history),
     current_policy |-> Len(s.policy)]

FamilyEntries(s) ==
    LET neighbors(index) == [k \in IndexKeys(index) |->
                                RelationshipNeighbor(s.records, k[1], k[2])]
    IN  [metadata |-> MetadataValue(s.revision, MetadataCounts(s)),
         current |-> s.records,
         history |-> [k \in HistoryKeys(s.history) |-> RecordAt(s.history, k[1], k[2])[1]],
         outgoing |-> neighbors(s.outgoing),
         incoming |-> neighbors(s.incoming),
         provenance |-> [k \in IndexKeys(s.provenance) |-> 0],
         reverse |-> [k \in ReverseKeys(s.reverse) |-> s.reverse[k[1]][k[2]]],
         policy |-> PolicyEntries(s.policy, s.policy_history)]

\* The entries a root's runs must hold for each count of the metadata.
FamilyCounts(counts) ==
    [n \in FamilyNames |->
        CASE n = "metadata" -> 1
          [] n = "policy" -> counts.policy_history + counts.current_policy
          [] OTHER -> counts[n]]

\* The logical state digest covers records, history and policy, not the indexes.
LogicalStateDigest(f, revision) ==
    [revision |-> revision, current |-> f.current, history |-> f.history,
     policy |-> f.policy]

(***************************************************************************)
(* The change of every family for one prepared transaction.                *)
(***************************************************************************)
RecordSecondaryEntries(id, r) ==
    LET refs == RecordReverseReferences(r)
    IN  [outgoing |-> [k \in OutgoingPairs(id, r) |-> r.ends[2]],
         incoming |-> [k \in IncomingPairs(id, r) |-> r.ends[1]],
         provenance |-> [k \in ProvenancePairs(id, r) |-> 0],
         reverse |-> [k \in {<<t, id>> : t \in DOMAIN refs} |-> refs[k[1]]]]

\* One delta per key whose entry changes; equal sides are dropped.
InsertDeltaSides(before, after) ==
    [k \in {x \in DOMAIN before \cup DOMAIN after : At(before, x) # At(after, x)} |->
        [before |-> At(before, k), after |-> At(after, k)]]

ApplyCountDelta(count, delta) ==
    count + Cardinality({k \in DOMAIN delta : delta[k].before = <<>>})
          - Cardinality({k \in DOMAIN delta : delta[k].after = <<>>})

RecordDeltas(p, n) ==
    LET none == [m \in SecondaryNames |-> NoEntries]
        old(id) == IF p.changes[id].before = <<>> THEN none
                   ELSE RecordSecondaryEntries(id, p.changes[id].before[1])
        new(id) == RecordSecondaryEntries(id, p.changes[id].after)
    IN  FoldSet(LAMBDA id, acc : InsertDeltaSides(old(id)[n], new(id)[n]) @@ acc,
                NoEntries, DOMAIN p.changes)

PolicyDeltas(p) ==
    IF p.policy_change = <<>> THEN NoEntries
    ELSE InsertDeltaSides(PolicyEntries(p.base_policy, NoEntries),
                          PolicyEntries(p.policy_change, p.revision :> p.policy_change[1]))

ChangedFamilies(p) ==
    [current |-> [id \in DOMAIN p.changes |->
                    [before |-> p.changes[id].before, after |-> <<p.changes[id].after>>]],
     history |-> [k \in {<<id, p.revision>> : id \in DOMAIN p.changes} |->
                    [before |-> <<>>, after |-> <<p.changes[k[1]].after>>]],
     policy |-> PolicyDeltas(p)]
        @@ [n \in SecondaryNames |-> RecordDeltas(p, n)]

TargetCounts(counts, changed) ==
    LET part(first) == Restrict(changed.policy,
                                {k \in DOMAIN changed.policy : k[1] = first})
    IN  [n \in DOMAIN counts |->
            ApplyCountDelta(counts[n],
                CASE n = "policy_history" -> part(1)
                  [] n = "current_policy" -> part(0)
                  [] OTHER -> changed[n])]

FamilyDelta(p, counts, changed) ==
    LET target == TargetCounts(counts, changed)
    IN  [base_revision |-> p.base_revision, revision |-> p.revision,
         result_digest |-> ResultDigest(p), target_counts |-> target,
         families |-> changed @@
            [metadata |-> InsertDeltaSides(MetadataValue(p.base_revision, counts),
                                           MetadataValue(p.revision, target))]]

BuildGraphFamilyDeltas(p, counts) == FamilyDelta(p, counts, ChangedFamilies(p))

(***************************************************************************)
(* Merging: every delta must find exactly the entry it expects.            *)
(***************************************************************************)
MergeFamilyUnchecked(family, delta) ==
    LET gone == {k \in DOMAIN delta : delta[k].after = <<>>}
        put == [k \in DOMAIN delta \ gone |-> delta[k].after[1]]
    IN  put @@ Restrict(family, DOMAIN family \ gone)

DeltasMatch(family, delta) ==
    \A k \in DOMAIN delta : At(family, k) = delta[k].before

\* The stream validator of a merged or admitted root.
ObserveReverse(reference, revision) ==
    LET claim == {"evidence", "correction_of"}
        allowed == CASE reference.kind = "entity" -> {"property"}
                     [] reference.kind = "assertion" -> {"subject", "object"} \cup claim
                     [] reference.kind = "relationship" ->
                            {"from", "to", "rel_property"} \cup claim
    IN  /\ reference.kind = "entity" => reference.st \in {"active", "deleted"}
        /\ reference.roles # {} /\ reference.roles \subseteq allowed
        /\ reference.version > 0 /\ reference.revision <= revision

ObservePolicy(f, counts) ==
    /\ counts.current_policy <= 1
    /\ counts.policy_history # 0 => counts.current_policy = 1
    /\ \A k \in DOMAIN f.policy : k[1] = 1 => <<0>> \in DOMAIN f.policy

MergedStateIsValid(f, revision, counts) ==
    /\ f.metadata = MetadataValue(revision, counts)
    /\ \A id \in DOMAIN f.current : f.current[id].modified <= revision
    /\ \A k \in DOMAIN f.history : f.history[k].modified = k[2] /\ k[2] <= revision
    /\ Cardinality({k[1] : k \in DOMAIN f.history}) = counts.current
    /\ \A k \in DOMAIN f.reverse : ObserveReverse(f.reverse[k], revision)
    /\ ObservePolicy(f, counts)
    /\ \A n \in FamilyNames : Cardinality(DOMAIN f[n]) = FamilyCounts(counts)[n]

DiskRoot(f, revision) ==
    [format |-> "disk", revision |-> revision, families |-> f,
     digest |-> LogicalStateDigest(f, revision)]

MergedRoot(root, plan, frontier, f) ==
    IF /\ root.revision = plan.base_revision
       /\ plan.revision = frontier
       /\ \A n \in FamilyNames : DeltasMatch(root.families[n], plan.families[n])
       /\ MergedStateIsValid(f, plan.revision, plan.target_counts)
    THEN <<DiskRoot(f, plan.revision)>> ELSE <<>>

\* publish_graph_state_root_delta_with: the successor root, or nothing.
MergeRoot(root, plan, frontier) ==
    MergedRoot(root, plan, frontier,
               [n \in FamilyNames |->
                    MergeFamilyUnchecked(root.families[n], plan.families[n])])

(***************************************************************************)
(* Cold admission of a stored root.                                        *)
(***************************************************************************)
VersionsOf(f, id) ==
    LET keys == {k \in DOMAIN f.history : k[1] = id}
        order == SetToSortSeq(keys, LAMBDA a, b : a[2] < b[2])
    IN  [i \in DOMAIN order |-> f.history[order[i]]]

ValidateCandidateShape(counts) ==
    /\ counts.history >= counts.current
    /\ counts.current = 0 =>
            \A n \in SecondaryNames \cup {"history"} : counts[n] = 0

AdmitHistoryGroup(f, id) ==
    LET versions == VersionsOf(f, id)
    IN  /\ \A i \in DOMAIN versions : versions[i].version = i
        /\ ValidateRecordHistory(id, versions)
        /\ At(f.current, id) = <<Last(versions)>>

HistoryOf(f) == [id \in {k[1] : k \in DOMAIN f.history} |-> VersionsOf(f, id)]

ValidateCurrentRequirements(f, revision) ==
    \A id \in DOMAIN f.current :
        \A q \in CurrentRequirements(f.current[id], revision) :
            RequirementMatches(q.kind, At(f.current, q.target))

RecordContributesSecondaryEntry(f, n, k) ==
    /\ k[2] \in DOMAIN f.current
    /\ At(RecordSecondaryEntries(k[2], f.current[k[2]])[n], k) = <<f[n][k]>>

RecordSecondaryCounts(f, n) ==
    MapThenSumSet(LAMBDA id : Cardinality(DOMAIN RecordSecondaryEntries(id, f.current[id])[n]),
                  DOMAIN f.current)

AdmitPolicyFamily(f) ==
    LET past == {k \in DOMAIN f.policy : k[1] = 1}
        last == CHOOSE k \in past : \A j \in past : j[2] <= k[2]
    IN  /\ \A j, k \in past : j[2] < k[2] => f.policy[j] < f.policy[k]
        /\ IF past = {} THEN <<0>> \notin DOMAIN f.policy
           ELSE At(f.policy, <<0>>) = <<f.policy[last]>>

\* What both admissions establish of the families they stream.
FamiliesAreAdmissible(f, revision, counts) ==
    /\ ValidateCandidateShape(counts)
    /\ MergedStateIsValid(f, revision, counts)
    /\ \A n \in SecondaryNames : RecordSecondaryCounts(f, n) = counts[n]
    /\ \A id \in {k[1] : k \in DOMAIN f.history} : AdmitHistoryGroup(f, id)
    /\ ValidateHistoricalReferenceClosure(HistoryOf(f))
    /\ ValidateCurrentRequirements(f, revision)
    /\ \A n \in SecondaryNames : \A k \in DOMAIN f[n] :
            RecordContributesSecondaryEntry(f, n, k)
    /\ AdmitPolicyFamily(f)

ParseMetadata(f, revision) ==
    IF DOMAIN f.metadata = {MetadataKey} /\ f.metadata[MetadataKey].revision = revision
    THEN <<f.metadata[MetadataKey].counts>> ELSE <<>>

\* The base a root is admitted as, with its cached counts and policy, or nothing.
AdmitGraphDiskBase(root) ==
    LET f == root.families
        counts == ParseMetadata(f, root.revision)
    IN  IF /\ counts # <<>>
           /\ FamiliesAreAdmissible(f, root.revision, counts[1])
           /\ root.digest = LogicalStateDigest(f, root.revision)
        THEN <<[root |-> root, counts |-> counts[1], policy |-> At(f.policy, <<0>>)]>>
        ELSE <<>>

PersistedParts(f, revision) ==
    [revision |-> revision, records |-> f.current, history |-> HistoryOf(f),
     policy |-> At(f.policy, <<0>>),
     policy_history |-> [r \in {k[2] : k \in {x \in DOMAIN f.policy : x[1] = 1}} |->
                            f.policy[<<1, r>>]]]

\* reconstruct_graph_state: the reducer rebuilt from the families alone.
ReconstructGraphState(root) ==
    {s \in Range(FromPersistedParts(PersistedParts(root.families, root.revision))) :
        FamilyEntries(s) = root.families}

(***************************************************************************)
(* Preparation from partial proofs.                                        *)
(***************************************************************************)
TransactionRequiredIds(t) ==
    UNION {{op.target} \cup PredicateRecord(op.expected)
            \cup CASE op.op = "create" -> NewRecordReferences(op.new)
                   [] op.op = "replace" -> op.props
                   [] op.op = "act" ->
                        UNION {{c.id} \cup NewRecordReferences(c.new) :
                                    c \in Range(op.correction)}
                            \cup UNION {PredicateRecord(e) :
                                            e \in Range(op.correction_expected)}
                   [] op.op = "delete" -> Range(op.declared) :
            op \in Range(t.ops)}

\* References of a cascade's dependents that are not fetched.
RetainsActionTargetsOnly(t, id) ==
    \E op \in Range(t.ops) : op.op = "act" /\ op.target = id /\ op.action # "correct"

NeedsRetainedReferences(t, id) ==
    \E op \in Range(t.ops) :
        \/ op.op = "act" /\ op.target = id /\ op.action # "correct"
        \/ op.op = "delete" /\ id \in Range(op.declared)

HistoryProofTargets(t) ==
    UNION {PredicateRecord(op.expected)
            \cup (IF op.op = "act"
                  THEN UNION {PredicateRecord(e) : e \in Range(op.correction_expected)}
                  ELSE {}) :
            op \in Range(t.ops)}

ReverseProofTargets(t) == {op.target : op \in {o \in Range(t.ops) : o.op = "delete"}}

RetainedReferences(f, t, ids) ==
    UNION {{x[1] : x \in VisitRecordReferences(f.current[id])} :
            id \in {i \in ids \cap DOMAIN f.current : NeedsRetainedReferences(t, i)}}

\* The proof worklist: the named records, and what the retained ones refer to.
CurrentProofIds(f, t) ==
    LET first == TransactionRequiredIds(t)
        second == first \cup RetainedReferences(f, t, first)
    IN  second \cup RetainedReferences(f, t, second)

LoadReverseProofs(f, targets) ==
    [t \in targets |->
        LET owners == {k[2] : k \in {x \in DOMAIN f.reverse : x[1] = t}}
        IN  [o \in owners |-> f.reverse[<<t, o>>]]]

\* A snapshot holding the proofs only (prepare_from_complete_disk_proofs).
ProofView(base, t, policy) ==
    LET f == base.root.families
    IN  [EmptySnapshot EXCEPT
            !.revision = base.root.revision,
            !.records = Restrict(f.current, CurrentProofIds(f, t) \cap DOMAIN f.current),
            !.history = [id \in HistoryProofTargets(t) |-> VersionsOf(f, id)],
            !.reverse = LoadReverseProofs(f, ReverseProofTargets(t)),
            !.policy = policy]

LoadPreparationView(base, t) == ProofView(base, t, At(base.root.families.policy, <<0>>))

BoundToBase(base, p) ==
    IF p = <<>> THEN <<>>
    ELSE <<[prepared |-> p[1], base_digest |-> base.root.digest,
            base_counts |-> base.counts, base_policy |-> p[1].base_policy,
            plan |-> BuildGraphFamilyDeltas(p[1], base.counts)]>>

\* The prepared change with the base it is bound to, or nothing when refused.
PrepareFromProofs(base, t, view) ==
    IF TransactionRequiredIds(t) \subseteq Ids
    THEN BoundToBase(base, PrepareTransaction(view, t, base.root.revision + 1))
    ELSE <<>>

PrepareGraphDiskCommit(base, t) == PrepareFromProofs(base, t, LoadPreparationView(base, t))

\* A plan is taken whatever state its base had.
CanPublishAnyBase(base, plan) == plan.base_policy = base.policy

\* can_publish: the plan was prepared from exactly this base.
CanPublishDisk(base, plan) ==
    /\ plan.base_digest = base.root.digest
    /\ plan.base_counts = base.counts
    /\ plan.base_policy = base.policy
    /\ plan.prepared.base_revision = base.root.revision
    /\ plan.plan.base_revision = base.root.revision
    /\ plan.plan.revision = plan.prepared.revision
    /\ plan.plan.result_digest = ResultDigest(plan.prepared)

(***************************************************************************)
(* Reads answered from the families.                                       *)
(***************************************************************************)
ScanPrefix(family, id) == {k \in DOMAIN family : k[1] = id}

\* The predecessor of <<id, revision>> among the record's history entries.
GetPredecessor(f, id, revision) ==
    LET keys == {k \in ScanPrefix(f.history, id) : k[2] <= revision}
    IN  IF keys = {} THEN <<>>
        ELSE <<f.history[CHOOSE k \in keys : \A j \in keys : j[2] <= k[2]]>>

\* The ordered merge of both scans: neighbours by relationship, with directions.
AdjacentScan(f, q) ==
    LET out == IF q.direction = "incoming" THEN {} ELSE ScanPrefix(f.outgoing, q.id)
        in == IF q.direction = "outgoing" THEN {} ELSE ScanPrefix(f.incoming, q.id)
    IN  [c \in {k[2] : k \in out \cup in} |->
            [neighbors |-> {f.outgoing[k] : k \in {x \in out : x[2] = c}}
                               \cup {f.incoming[k] : k \in {x \in in : x[2] = c}},
             directions |-> {1 : k \in {x \in out : x[2] = c}}
                               \cup {2 : k \in {x \in in : x[2] = c}}]]

\* An expansion that checks the relationship's grants but not the neighbour's.
MayReachRelationshipOnly(id, neighbor, grant) == MayExpand(id, grant)

MayReach(id, neighbor, grant) == MayExpand(id, grant) /\ MayExpand(neighbor, grant)

AdmitAdjacent(f, q, grant, id, entry) ==
    LET r == f.current[id]
        n == CHOOSE x \in entry.neighbors : TRUE
    IN  CASE ~MayExpand(id, grant) -> Result("skip", {})
          [] \/ id \notin DOMAIN f.current \/ r.kind # "relationship"
             \/ r.st # "accepted" \/ Cardinality(entry.neighbors) # 1
             \/ 1 \in entry.directions /\ r.ends # <<q.id, n>>
             \/ 2 \in entry.directions /\ r.ends # <<n, q.id>> -> Result("corrupt", {})
          [] ~ReferencesAreAuthorized(r, grant) \/ ~MayReach(id, n, grant) ->
                Result("skip", {})
          [] n \notin DOMAIN f.current -> Result("corrupt", {})
          [] ~ReferencesAreAuthorized(f.current[n], grant) -> Result("skip", {})
          [] f.current[n].kind # "entity" -> Result("corrupt", {})
          [] OTHER -> Result("ok", {<<id, r, f.current[n]>>})

ExpandAdjacent(f, q, grant) ==
    LET scan == AdjacentScan(f, q)
        each == {AdmitAdjacent(f, q, grant, id, scan[id]) : id \in DOMAIN scan}
    IN  IF \E r \in each : r.status = "corrupt" THEN Result("corrupt", {})
        ELSE Bounded(UNION {r.out : r \in each}, q.maximum)

ExpandSupported(f, q, grant) ==
    LET found == {k[2] : k \in ScanPrefix(f.provenance, q.id)}
        read == {id \in found : <<"read", id>> \in grant}
    IN  IF \E id \in read : \/ id \notin DOMAIN f.current
                            \/ q.id \notin Range(f.current[id].evidence)
        THEN Result("corrupt", {})
        ELSE Bounded({<<id, f.current[id]>> : id \in {x \in read :
                            ReferencesAreAuthorized(f.current[x], grant)}}, q.maximum)

ReadWith(f, q, grant) ==
    CASE q.maximum > MaxResults -> Result("resource_limit", {})
      [] q.read = "adjacent" -> ExpandAdjacent(f, q, grant)
      [] q.read = "supported_by" -> ExpandSupported(f, q, grant)

ReadDiskAuthorized(base, q, grant) ==
    LET f == base.root.families
    IN  CASE ~(ReadRequirements(q) \subseteq grant) -> Result("denied", {})
          [] q.read = "record" -> VisibleRecord(At(f.current, q.id), grant)
          [] q.read = "record_at" ->
                IF q.revision > base.root.revision THEN Result("unknown_view", {})
                ELSE VisibleRecord(GetPredecessor(f, q.id, q.revision), grant)
          [] OTHER -> ReadWith(f, q, grant)

(***************************************************************************)
(* The current-graph index of the in-memory coordinator (disk.rs): five of *)
(* the families, published from and compared with the current snapshot.    *)
(***************************************************************************)
ExpectedRuns(s) ==
    LET f == FamilyEntries(s)
    IN  [n \in {"current", "outgoing", "incoming", "provenance"} |-> f[n]]

DiskAdjacentIds(runs, q) ==
    UNION {{<<k[2], runs[n][k]>> : k \in ScanPrefix(runs[n], q.id)} :
            n \in CASE q.direction = "either" -> {"outgoing", "incoming"}
                    [] OTHER -> {q.direction}}

IndexedNeighbor(runs, q, grant, id, n) ==
    LET r == runs.current[id]
    IN  CASE ~MayExpand(id, grant) -> Result("skip", {})
          [] \/ id \notin DOMAIN runs.current \/ r.kind # "relationship"
             \/ q.id \notin Range(r.ends) \/ Neighbor(r, q.id) # n -> Result("corrupt", {})
          [] ~ReferencesAreAuthorized(r, grant) \/ ~MayExpand(n, grant) ->
                Result("skip", {})
          [] n \notin DOMAIN runs.current \/ runs.current[n].kind # "entity" ->
                Result("corrupt", {})
          [] ~ReferencesAreAuthorized(runs.current[n], grant) -> Result("skip", {})
          [] OTHER -> Result("ok", {<<id, r, runs.current[n]>>})

\* History is not indexed: record_at is unsupported here.
ReadIndexAuthorized(runs, q, grant) ==
    CASE ~(ReadRequirements(q) \subseteq grant) -> Result("denied", {})
      [] q.read = "record" -> VisibleRecord(At(runs.current, q.id), grant)
      [] q.read = "record_at" -> Result("unsupported", {})
      [] q.maximum > MaxResults -> Result("resource_limit", {})
      [] q.read = "adjacent" ->
            LET each == {IndexedNeighbor(runs, q, grant, x[1], x[2]) :
                            x \in DiskAdjacentIds(runs, q)}
            IN  IF \E r \in each : r.status = "corrupt" THEN Result("corrupt", {})
                ELSE Bounded(UNION {r.out : r \in each}, q.maximum)
      [] q.read = "supported_by" ->
            LET read == {k[2] : k \in {x \in ScanPrefix(runs.provenance, q.id) :
                                            <<"read", x[2]>> \in grant}}
            IN  IF ~(read \subseteq DOMAIN runs.current) THEN Result("corrupt", {})
                ELSE Bounded({<<id, runs.current[id]>> : id \in {x \in read :
                            ReferencesAreAuthorized(runs.current[x], grant)}}, q.maximum)

(***************************************************************************)
(* The graph state over packed trees (uste-graph, state_disk/packed.rs and *)
(* state_disk/packed/).  The eight families are the ones above,            *)
(* each in a tree of its own with an ordered commitment; a root is bound   *)
(* to the commitments of all eight.  A batch of deltas is applied with a   *)
(* compare-and-set on each key; splitting a family's deltas, whose keys    *)
(* differ, into batches does not change the result and is left out.        *)
(***************************************************************************)

\* The digest covers every family, the derived indexes included.
OrderedStateDigest(f, revision) == [revision |-> revision, families |-> f]

PackedRoot(f, revision) ==
    [format |-> "packed", revision |-> revision, families |-> f,
     digest |-> OrderedStateDigest(f, revision)]

EntryCountsMatch(f, counts) ==
    \A n \in FamilyNames : Cardinality(DOMAIN f[n]) = FamilyCounts(counts)[n]

\* Every run of an admitted base, copied entry by entry into an empty tree.
BridgeGraphBaseToPacked(base) ==
    LET f == base.root.families
    IN  IF EntryCountsMatch(f, base.counts)
        THEN <<[root |-> PackedRoot(f, base.root.revision), counts |-> base.counts,
                policy |-> base.policy]>>
        ELSE <<>>

StageFamilies(s, f, counts) ==
    IF s.revision = 1 /\ EntryCountsMatch(f, counts)
    THEN <<[root |-> PackedRoot(f, 1), counts |-> counts, policy |-> s.policy]>>
    ELSE <<>>

\* The first revision's snapshot, family by family.
StagePackedGraphGenesis(s) == StageFamilies(s, FamilyEntries(s), MetadataCounts(s))

AdmitPackedGraphBase(root) ==
    LET f == root.families
        counts == ParseMetadata(f, root.revision)
    IN  IF /\ counts # <<>>
           /\ EntryCountsMatch(f, counts[1])
           /\ FamiliesAreAdmissible(f, root.revision, counts[1])
           /\ root.digest = OrderedStateDigest(f, root.revision)
        THEN <<[root |-> root, counts |-> counts[1], policy |-> At(f.policy, <<0>>)]>>
        ELSE <<>>

\* The policy comes from the base, not from a proof.
PreparePackedGraphTransaction(base, t) ==
    PrepareFromProofs(base, t, ProofView(base, t, base.policy))

MatchesBase(base, plan) ==
    /\ plan.base_digest = base.root.digest
    /\ plan.base_counts = base.counts
    /\ plan.base_policy = base.policy
    /\ plan.prepared.base_revision = base.root.revision
    /\ plan.prepared.base_policy = base.policy
    /\ plan.plan.base_revision = base.root.revision
    /\ plan.plan.revision = base.root.revision + 1
    /\ plan.plan.revision = plan.prepared.revision
    /\ plan.plan.result_digest = ResultDigest(plan.prepared)

TargetPolicy(plan) ==
    IF plan.prepared.policy_change = <<>> THEN plan.base_policy
    ELSE plan.prepared.policy_change

StagedBase(base, plan, f) ==
    IF EntryCountsMatch(f, plan.plan.target_counts)
    THEN <<[root |-> PackedRoot(f, plan.plan.revision),
            counts |-> plan.plan.target_counts, policy |-> TargetPolicy(plan)]>>
    ELSE <<>>

\* The successor base, or nothing when a delta misses or a count is off.
StageOnMaintenance(base, plan, frontier) ==
    IF /\ MatchesBase(base, plan) /\ frontier = plan.plan.revision
       /\ \A n \in FamilyNames :
                DeltasMatch(base.root.families[n], plan.plan.families[n])
    THEN StagedBase(base, plan,
                    [n \in FamilyNames |-> MergeFamilyUnchecked(base.root.families[n],
                                                                plan.plan.families[n])])
    ELSE <<>>

\* A recovery step also compares the journal's request and result.
StagePackedGraphDelta(base, plan, t, frontier) ==
    IF ValidateExternalRequest(plan.prepared, t, frontier)
    THEN StageOnMaintenance(base, plan, frontier) ELSE <<>>

InstallPackedPublication(base, plan, next) ==
    /\ next.root.revision = plan.plan.revision
    /\ next.counts = plan.plan.target_counts
    /\ next.policy = (IF plan.prepared.policy_change = <<>> THEN base.policy
                      ELSE plan.prepared.policy_change)
    /\ next.root.digest = OrderedStateDigest(next.root.families, next.root.revision)

\* The greatest key of (<<id>>, <<id, revision>>] in the history tree.
ReverseCursor(f, id, revision) ==
    LET keys == {k \in DOMAIN f.history : k[1] = id /\ k[2] <= revision}
    IN  {f.history[k] : k \in {x \in keys : \A y \in keys : y[2] <= x[2]}}

ReadPackedAuthorized(base, q, grant) ==
    LET f == base.root.families
    IN  CASE ~(ReadRequirements(q) \subseteq grant) -> Result("denied", {})
          [] q.read = "record" -> VisibleRecord(At(f.current, q.id), grant)
          [] q.read = "record_at" ->
                IF q.revision > base.root.revision THEN Result("unknown_view", {})
                ELSE VisibleRecord(SetToSeq(ReverseCursor(f, q.id, q.revision)), grant)
          [] OTHER -> ReadWith(f, q, grant)

-----------------------------------------------------------------------------
CONSTANTS
    Transactions,  \* the transactions callers submit
    Requests,      \* the read requests callers submit
    Grants,        \* the sets of <<action, record>> pairs a caller may hold
    MaxRevision    \* bound on the length of the journal

ASSUME GraphDiskAssumption ==
    /\ MaxRevision \in Nat \ {0}
    /\ \A t \in Transactions :
            t = [scope |-> t.scope, ops |-> [i \in DOMAIN t.ops |-> t.ops[i]],
                 policy |-> t.policy]
    /\ \A q \in Requests :
            q = [read |-> q.read, id |-> q.id, revision |-> q.revision,
                 direction |-> q.direction, maximum |-> q.maximum]
    /\ \A g \in Grants : g \subseteq STRING \X Ids

VARIABLES
    format,   \* the live representation: "disk" or "packed"
    log,      \* committed transactions, by revision
    memory,   \* the in-memory snapshot of the log
    owner,    \* "memory", "live", "down" or "failed"
    base,     \* the live owner's base: <<>> or one admitted base
    pending,  \* the committed change whose root is not installed yet
    held,     \* an externally prepared change that waits for its commit
    stored    \* the published roots that survive a crash

vars == <<format, log, memory, owner, base, pending, held, stored>>

Init ==
    /\ format \in {"disk", "packed"}
    /\ log = <<>> /\ memory = EmptySnapshot
    /\ owner = "memory"
    /\ base = <<>> /\ pending = <<>> /\ held = <<>> /\ stored = {}

\* A new root takes the slot of its format that does not hold the newest one.
Keep(roots, root) ==
    {root} \cup {r \in roots : r.format = root.format =>
                    \A q \in roots : q.format = r.format => q.revision <= r.revision}

KeepAll(roots, next) == IF next = <<>> THEN roots ELSE Keep(roots, next[1])

\* A replay keeps its revision even when the reducer refuses the transaction.
PublishOrSkip(s, p) ==
    IF p = <<>> THEN [s EXCEPT !.revision = @ + 1] ELSE Publish(s, p[1])

Replay(s, t) == PublishOrSkip(s, PrepareTransaction(s, t, s.revision + 1))

Append1(t) == log' = Append(log, t) /\ memory' = Replay(memory, t)

(***************************************************************************)
(* The in-memory owner.                                                    *)
(***************************************************************************)
MemoryCommit(t) ==
    /\ owner = "memory" /\ Len(log) < MaxRevision
    /\ PrepareTransaction(memory, t, memory.revision + 1) # <<>>
    /\ Append1(t)
    /\ UNCHANGED <<format, owner, base, pending, held, stored>>

RootOf(s) == DiskRoot(FamilyEntries(s), s.revision)

PublishGraphStateRoot ==
    /\ owner = "memory" /\ log # <<>>
    /\ stored' = Keep(stored, RootOf(memory))
    /\ UNCHANGED <<format, log, memory, owner, base, pending, held>>

\* Commit with a precomputed delta from the current root, then publish it.
PublishGraphStateRootDelta(t) ==
    /\ owner = "memory" /\ Len(log) < MaxRevision
    /\ \E root \in {r \in stored : r.format = "disk"} :
        /\ root.revision = memory.revision /\ root.digest = RootOf(memory).digest
        /\ \E p \in Range(PrepareTransaction(memory, t, memory.revision + 1)) :
            LET counts == root.families.metadata[MetadataKey].counts
            IN  stored' = KeepAll(stored, MergeRoot(root, BuildGraphFamilyDeltas(p, counts),
                                                    Len(log) + 1))
    /\ Append1(t)
    /\ UNCHANGED <<format, owner, base, pending, held>>

ValidateEquivalent(s, b) ==
    /\ s.revision = b.root.revision
    /\ s.policy = b.policy
    /\ b.root.digest = RootOf(s).digest

OpenDiskLive ==
    /\ owner = "memory" /\ format = "disk"
    /\ \E root \in stored :
        /\ root.revision = memory.revision
        /\ \E admitted \in Range(AdmitGraphDiskBase(root)) :
            ValidateEquivalent(memory, admitted) /\ base' = <<admitted>>
    /\ owner' = "live"
    /\ UNCHANGED <<format, log, memory, pending, held, stored>>

\* The admitted run root is bridged and its packed root published.
OpenPackedLive ==
    /\ owner = "memory" /\ format = "packed"
    /\ \E root \in {r \in stored : r.format = "disk"} :
        /\ root.revision = memory.revision
        /\ \E admitted \in Range(AdmitGraphDiskBase(root)) :
            \E packed \in Range(BridgeGraphBaseToPacked(admitted)) :
                base' = <<packed>> /\ stored' = Keep(stored, packed.root)
    /\ owner' = "live"
    /\ UNCHANGED <<format, log, memory, pending, held>>

(***************************************************************************)
(* The live owners.                                                        *)
(***************************************************************************)
PrepareLive(b, t) ==
    IF format = "disk" THEN PrepareGraphDiskCommit(b, t)
    ELSE PreparePackedGraphTransaction(b, t)

CanPublishLive(plan) ==
    /\ pending = <<>>
    /\ IF format = "disk" THEN CanPublishDisk(base[1], plan) ELSE MatchesBase(base[1], plan)

CommitPlan(plan) == Append1(plan.prepared.request) /\ pending' = <<plan>>

\* Prepare through the coordinator and commit at once.
LiveCommit(t) ==
    /\ owner = "live" /\ pending = <<>> /\ Len(log) < MaxRevision
    /\ \E plan \in Range(PrepareLive(base[1], t)) : CanPublishLive(plan) /\ CommitPlan(plan)
    /\ UNCHANGED <<format, owner, base, held, stored>>

\* A caller prepares a change and keeps it.
Hold(t) ==
    /\ owner = "live" /\ pending = <<>> /\ held = <<>> /\ Len(log) < MaxRevision
    /\ \E plan \in Range(PrepareLive(base[1], t)) : held' = <<plan>>
    /\ UNCHANGED <<format, log, memory, owner, base, pending, stored>>

\* It is validated again when it is finally submitted.
CommitHeld ==
    /\ owner = "live" /\ held # <<>> /\ Len(log) < MaxRevision
    /\ held' = <<>>
    /\ IF CanPublishLive(held[1]) THEN CommitPlan(held[1])
       ELSE UNCHANGED <<log, memory, pending>>
    /\ UNCHANGED <<format, owner, base, stored>>

\* The base the successor root is installed as.
InstallDiskPublication(plan, root) ==
    [root |-> root, counts |-> plan.plan.target_counts, policy |-> TargetPolicy(plan)]

InstalledDisk(plan, root) ==
    IF root = <<>> THEN <<>> ELSE <<InstallDiskPublication(plan, root[1])>>

AdvanceDisk(b, plan, frontier) == InstalledDisk(plan, MergeRoot(b.root, plan.plan, frontier))

Advanced(b, plan, frontier) ==
    IF format = "disk" THEN AdvanceDisk(b, plan, frontier)
    ELSE StageOnMaintenance(b, plan, frontier)

\* publish_pending_graph_base; a refused merge leaves the owner as it was.
PublishDiskBase ==
    /\ owner = "live" /\ format = "disk" /\ pending # <<>>
    /\ \E next \in Range(AdvanceDisk(base[1], pending[1], Len(log))) :
            base' = <<next>> /\ stored' = Keep(stored, next.root)
    /\ pending' = <<>>
    /\ UNCHANGED <<format, log, memory, owner, held>>

PublishPackedBase ==
    /\ owner = "live" /\ format = "packed" /\ pending # <<>>
    /\ \E next \in Range(StageOnMaintenance(base[1], pending[1], Len(log))) :
        /\ InstallPackedPublication(base[1], pending[1], next)
        /\ base' = <<next>> /\ stored' = Keep(stored, next.root)
    /\ pending' = <<>>
    /\ UNCHANGED <<format, log, memory, owner, held>>

Lose ==
    /\ owner' = "down" /\ base' = <<>> /\ pending' = <<>> /\ held' = <<>>
    /\ UNCHANGED <<format, log, memory>>

Crash == owner \in {"live", "memory"} /\ log # <<>> /\ Lose /\ UNCHANGED stored

\* The root is durable but was never installed.
CrashAfterPublication ==
    /\ owner = "live" /\ pending # <<>>
    /\ \E next \in Range(Advanced(base[1], pending[1], Len(log))) :
            stored' = Keep(stored, next.root)
    /\ Lose

(***************************************************************************)
(* Recovery: replay the journal suffix through the disk preparation, one   *)
(* staged root per revision, and publish the terminal root only.           *)
(***************************************************************************)
StageReplayed(b, plan, i) ==
    CASE plan = <<>> -> <<>>
      [] format = "disk" -> AdvanceDisk(b, plan[1], i)
      [] OTHER -> StagePackedGraphDelta(b, plan[1], log[i], i)

RecoverNextDisk(b, i) ==
    IF b = <<>> THEN b ELSE StageReplayed(b[1], PrepareGraphDiskCommit(b[1], log[i]), i)

RecoverNextPacked(b, i) ==
    IF b = <<>> THEN b
    ELSE StageReplayed(b[1], PreparePackedGraphTransaction(b[1], log[i]), i)

Suffix(b) == [i \in 1..(Len(log) - b.root.revision) |-> b.root.revision + i]

RecoverDiskFrom(b) == IF b = <<>> THEN b ELSE FoldLeft(RecoverNextDisk, b, Suffix(b[1]))

RecoverPackedFrom(b) == IF b = <<>> THEN b ELSE FoldLeft(RecoverNextPacked, b, Suffix(b[1]))

\* Where the base is already current its root is kept as it is.
RecoverTo(result) ==
    /\ \E recovered \in {result} :
        /\ IF recovered = <<>> THEN owner' = "failed" /\ UNCHANGED stored
           ELSE owner' = "live" /\ stored' = Keep(stored, recovered[1].root)
        /\ base' = recovered
    /\ UNCHANGED <<format, log, memory, pending, held>>

RecoverGraphDiskSuffix ==
    /\ owner = "down" /\ format = "disk"
    /\ \E root \in stored : RecoverTo(RecoverDiskFrom(AdmitGraphDiskBase(root)))

RecoverPackedGraphSuffix ==
    /\ owner = "down" /\ format = "packed"
    /\ \E root \in {r \in stored : r.format = "packed"} :
            RecoverTo(RecoverPackedFrom(AdmitPackedGraphBase(root)))

\* stage_graph_genesis_root: a root from the first revision alone, then the suffix.
RecoverDiskOrigin ==
    /\ owner = "down" /\ format = "disk"
    /\ RecoverTo(RecoverDiskFrom(AdmitGraphDiskBase(RootOf(Replay(EmptySnapshot, log[1])))))

RecoverPackedGraphOrigin ==
    /\ owner = "down" /\ format = "packed"
    /\ RecoverTo(RecoverPackedFrom(StagePackedGraphGenesis(Replay(EmptySnapshot, log[1]))))

Next ==
    \/ \E t \in Transactions : MemoryCommit(t)
    \/ PublishGraphStateRoot
    \/ \E t \in Transactions : PublishGraphStateRootDelta(t)
    \/ OpenDiskLive
    \/ OpenPackedLive
    \/ \E t \in Transactions : LiveCommit(t)
    \/ \E t \in Transactions : Hold(t)
    \/ CommitHeld
    \/ PublishDiskBase
    \/ PublishPackedBase
    \/ Crash
    \/ CrashAfterPublication
    \/ RecoverGraphDiskSuffix
    \/ RecoverPackedGraphSuffix
    \/ RecoverDiskOrigin
    \/ RecoverPackedGraphOrigin

Spec == Init /\ [][Next]_vars

(***************************************************************************)
(* Properties.                                                             *)
(***************************************************************************)
\* The state of the log at an earlier revision, from the retained history.
AsOf(s, revision) ==
    LET ids == {id \in DOMAIN s.history : RecordAt(s.history, id, revision) # <<>>}
    IN  RebuildIndexes(
            [EmptySnapshot EXCEPT
                !.revision = revision,
                !.records = [id \in ids |-> RecordAt(s.history, id, revision)[1]],
                !.history = [id \in ids |-> SelectSeq(s.history[id],
                                LAMBDA r : r.modified <= revision)],
                !.policy = NamespacePolicyAt(s, revision),
                !.policy_history = Restrict(s.policy_history,
                    {r \in DOMAIN s.policy_history : r <= revision})])

\* The incrementally maintained adjacency, provenance and reverse indexes of the
\* reducer are the ones a rebuild gives (publish against validate_derived_indexes),
\* and the checkpoint of every reachable state is restored, by all the history and
\* reference checks of from_persisted_parts, to that same state.
ReducerStateIsRestorable ==
    /\ ValidateDerivedIndexes(memory)
    /\ FromPersistedParts(EncodeCheckpoint(memory)) = <<memory>>

\* A live owner prepares every transaction from partial proofs (named records, the
\* references of retained claims, histories of read views, reverse entries of
\* deleted entities) exactly as the in-memory reducer does from the whole
\* snapshot: the same refusals and the same changes.
PartialProofsSuffice ==
    owner = "live" /\ pending = <<>> =>
        \A t \in Transactions :
            LET live == PrepareLive(base[1], t)
            IN  [i \in DOMAIN live |-> live[i].prepared]
                    = PrepareTransaction(memory, t, memory.revision + 1)

\* Every published root and every live base holds exactly the families of the
\* journal's state at its revision, whichever way it was built (full publication,
\* delta merge, staged recovery, genesis); it is admitted and reconstructed, and
\* recovery from any of them, or from the origin, never fails.  A committed change
\* prepared from a base that is no longer current would break it.
RootsHoldTheJournalState ==
    /\ owner # "failed"
    /\ \A root \in stored \cup {b.root : b \in Range(base)} :
        LET s == AsOf(memory, root.revision)
        IN  /\ root.families = FamilyEntries(s)
            /\ AdmitGraphDiskBase(root) # <<>> \/ AdmitPackedGraphBase(root) # <<>>
            /\ ReconstructGraphState(root) = {s}
    /\ owner = "live" =>
        /\ base[1].root.revision + Len(pending) = Len(log)
        /\ base[1].counts = MetadataCounts(AsOf(memory, base[1].root.revision))
        /\ base[1].policy = NamespacePolicyAt(memory, base[1].root.revision)

\* A caller gets the same answer, and is refused or limited alike, whether a read
\* is served from the in-memory snapshot, the current-graph index or the families
\* of a live base: no representation shows a record or a neighbour another hides.
ReadsAgree ==
    owner = "live" /\ pending = <<>> =>
        \A q \in Requests, grant \in Grants :
            LET expected == ReadAuthorized(memory, q, grant)
                indexed == ReadIndexAuthorized(ExpectedRuns(memory), q, grant)
                live == IF format = "disk" THEN ReadDiskAuthorized(base[1], q, grant)
                        ELSE ReadPackedAuthorized(base[1], q, grant)
            IN  /\ live = expected
                /\ indexed.status # "unsupported" => indexed = expected

\* What a commit changes was asked for: every record it writes, the dependents a
\* cascade retracts and the correction it creates included, is one the caller had to
\* be authorized to commit, and a policy change needed the right to manage it.
EffectsWereAuthorized ==
    [][Len(log') > Len(log) =>
        LET needed == AuthorizationRequirements(Last(log'))
        IN  /\ \A id \in DOMAIN memory'.records :
                    At(memory.records, id) # <<memory'.records[id]>> =>
                        <<"commit", id>> \in needed
            /\ memory'.policy # memory.policy => <<"manage_policy", 0>> \in needed]_vars
=============================================================================
