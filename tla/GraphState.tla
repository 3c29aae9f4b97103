----------------------------- MODULE GraphState -----------------------------
(***************************************************************************)
(* The graph reducer of uste-graph (state.rs, record.rs, query.rs): typed  *)
(* records with their history, the derived adjacency, provenance and       *)
(* reverse-reference indexes, the preparation of a transaction against an  *)
(* exact snapshot, its publication, the checkpoint codec's restore checks  *)
(* and the authorized reads.                                               *)
(*                                                                         *)
(* A record keeps what the code branches on: its kind, version, lifecycle  *)
(* or claim status, the records its fields name (ends: the subject, or     *)
(* from and to; props: the references inside its value tree; evidence;     *)
(* correction_of, 0 for none), whether its schema version and interval are *)
(* valid, and the two revisions.  Optional values are sequences of length  *)
(* at most one.  Error kinds are abstracted to a refusal.                  *)
(***************************************************************************)
EXTENDS Integers, Sequences, FiniteSets, SequencesExt, FiniteSetsExt, Functions, TLC

CONSTANTS
    Ids,            \* record identifiers of the reducer's own namespace
    MaxOperations,  \* MAX_TRANSACTION_OPERATIONS
    MaxReferences,  \* MAX_TRANSACTION_REFERENCES
    MaxResults      \* MAX_TRAVERSAL_RESULTS

ASSUME GraphAssumption ==
    /\ Ids \subseteq Nat \ {0}
    /\ {MaxOperations, MaxReferences, MaxResults} \subseteq Nat

(***************************************************************************)
(* Records and references.                                                 *)
(***************************************************************************)
Claims == {"assertion", "relationship"}

Open(status) == status \in {"proposed", "accepted"}

IsVisibleRecord(r) == r.kind = "entity" => r.st = "active"

IsActiveEntity(r) == r.kind = "entity" /\ r.st = "active"

EndRoles == [assertion |-> <<"subject">>, relationship |-> <<"from", "to">>]

PropertyRole ==
    [entity |-> "property", assertion |-> "object", relationship |-> "rel_property"]

\* Every reference of a record with the role it plays (visit_record_references).
VisitRecordReferences(r) ==
    {<<r.ends[i], EndRoles[r.kind][i]>> : i \in DOMAIN r.ends}
        \cup {<<p, PropertyRole[r.kind]>> : p \in r.props}
        \cup {<<e, "evidence">> : e \in Range(r.evidence)}
        \cup {<<c, "correction_of">> : c \in {r.correction_of} \ {0}}

ReverseReference(r, roles) ==
    [kind |-> r.kind, st |-> r.st, roles |-> roles, version |-> r.version,
     revision |-> r.modified]

RecordReverseReferences(r) ==
    LET refs == VisitRecordReferences(r)
    IN  [t \in {x[1] : x \in refs} |->
            ReverseReference(r, {x[2] : x \in {y \in refs : y[1] = t}})]

At(f, x) == IF x \in DOMAIN f THEN <<f[x]>> ELSE <<>>

(***************************************************************************)
(* Snapshots and their derived indexes.                                    *)
(***************************************************************************)
NoEntries == [x \in {} |-> 0]

EmptySnapshot ==
    [records |-> NoEntries, history |-> NoEntries, outgoing |-> NoEntries,
     incoming |-> NoEntries, provenance |-> NoEntries, reverse |-> NoEntries,
     policy |-> <<>>, policy_history |-> NoEntries, revision |-> 0]

AcceptedEnd(id, r, i) ==
    IF r.kind = "relationship" /\ r.st = "accepted" THEN {<<r.ends[i], id>>} ELSE {}

OutgoingPairs(id, r) == AcceptedEnd(id, r, 1)
IncomingPairs(id, r) == AcceptedEnd(id, r, 2)
ProvenancePairs(id, r) == {<<e, id>> : e \in Range(r.evidence)}

InsertIndexValues(index, pairs) ==
    [k \in DOMAIN index \cup {p[1] : p \in pairs} |->
        (IF k \in DOMAIN index THEN index[k] ELSE {})
            \cup {p[2] : p \in {q \in pairs : q[1] = k}}]

\* A key whose last value goes is removed with it.
RemoveIndexValues(index, pairs) ==
    LET left(k) == index[k] \ {p[2] : p \in {q \in pairs : q[1] = k}}
    IN  [k \in {x \in DOMAIN index : left(x) # {}} |-> left(k)]

AddReverseContributions(reverse, id, r) ==
    LET refs == RecordReverseReferences(r)
        old(t) == IF t \in DOMAIN reverse THEN reverse[t] ELSE NoEntries
    IN  [t \in DOMAIN reverse \cup DOMAIN refs |->
            IF t \in DOMAIN refs THEN (id :> refs[t]) @@ old(t) ELSE old(t)]

RemoveReverseContributions(reverse, id, r) ==
    LET named == DOMAIN RecordReverseReferences(r)
        left(t) == IF t \in named
                   THEN Restrict(reverse[t], DOMAIN reverse[t] \ {id}) ELSE reverse[t]
    IN  [t \in {x \in DOMAIN reverse : DOMAIN left(x) # {}} |-> left(t)]

AddIndexContributions(s, id, r) ==
    [s EXCEPT !.outgoing = InsertIndexValues(@, OutgoingPairs(id, r)),
              !.incoming = InsertIndexValues(@, IncomingPairs(id, r)),
              !.provenance = InsertIndexValues(@, ProvenancePairs(id, r)),
              !.reverse = AddReverseContributions(@, id, r)]

RemoveIndexContributions(s, id, r) ==
    [s EXCEPT !.outgoing = RemoveIndexValues(@, OutgoingPairs(id, r)),
              !.incoming = RemoveIndexValues(@, IncomingPairs(id, r)),
              !.provenance = RemoveIndexValues(@, ProvenancePairs(id, r)),
              !.reverse = RemoveReverseContributions(@, id, r)]

RebuildIndexes(s) ==
    FoldSet(LAMBDA id, acc : AddIndexContributions(acc, id, s.records[id]),
            [s EXCEPT !.outgoing = NoEntries, !.incoming = NoEntries,
                      !.provenance = NoEntries, !.reverse = NoEntries],
            DOMAIN s.records)

\* validate_derived_indexes: the published indexes are the rebuilt ones.
ValidateDerivedIndexes(s) == RebuildIndexes(s) = s

\* The version of a record that is current at a revision.
RecordAt(history, id, revision) ==
    IF id \notin DOMAIN history THEN <<>>
    ELSE LET known == SelectSeq(history[id], LAMBDA r : r.modified <= revision)
         IN  IF known = <<>> THEN <<>> ELSE <<Last(known)>>

NamespacePolicyAt(s, revision) ==
    LET known == {r \in DOMAIN s.policy_history : r <= revision}
    IN  IF known = {} THEN <<>> ELSE <<s.policy_history[Max(known)]>>

(***************************************************************************)
(* Requests.  An operation is a record whose field op names its variant;   *)
(* expected is an Expected value and new a NewRecord.                      *)
(***************************************************************************)
PredicateRecord(e) == IF e.e = "view" THEN {e.record} ELSE {}

NewRecordReferences(new) == Range(new.ends) \cup new.props \cup Range(new.evidence)

ReferenceCount(seqs) == FoldLeft(+, 0, seqs)

\* A claim counts its ends and itself; every record counts itself and its values.
NewRecordReferenceCount(new) ==
    1 + Len(new.ends) + Len(new.evidence) + Cardinality(new.props)

ExpectedReferenceCount(e) == IF e.e = "view" THEN 1 ELSE 0

OperationReferenceCount(op) ==
    ExpectedReferenceCount(op.expected)
        + CASE op.op = "create" -> NewRecordReferenceCount(op.new)
            [] op.op = "replace" -> 1 + Cardinality(op.props)
            [] op.op = "act" ->
                1 + ReferenceCount([i \in DOMAIN op.correction |->
                                        NewRecordReferenceCount(op.correction[i].new)])
                  + ReferenceCount([i \in DOMAIN op.correction_expected |->
                                        ExpectedReferenceCount(op.correction_expected[i])])
            [] op.op = "delete" -> 1 + Len(op.declared)

ValidateRequestLimits(t) ==
    /\ t.ops # <<>> \/ t.policy # <<>>
    /\ Len(t.ops) <= MaxOperations
    /\ ReferenceCount([i \in DOMAIN t.ops |-> OperationReferenceCount(t.ops[i])])
        <= MaxReferences

\* Install needs no policy; Replace names the current version and a later one.
ValidatePolicyMutation(current, mutation) ==
    mutation = <<>> \/
    LET m == mutation[1]
    IN  /\ m.scope = "this"
        /\ IF m.expected = <<>> THEN current = <<>>
           ELSE /\ current = m.expected
                /\ m.version > m.expected[1]

(***************************************************************************)
(* Preconditions, evaluated on the snapshot the transaction starts from.   *)
(***************************************************************************)
EvaluatePredicate(e, candidate) ==
    CASE e.predicate = "absent" -> candidate = <<>>
      [] e.predicate = "visible" -> candidate # <<>> /\ IsVisibleRecord(candidate[1])
      [] e.predicate = "version" -> candidate # <<>> /\ candidate[1].version = e.version

\* A read view must have held at its revision and must still hold now.
ValidateExpected(s, target, e) ==
    CASE e.e = "absent" -> target \notin DOMAIN s.records
      [] e.e = "version" ->
            target \in DOMAIN s.records /\ s.records[target].version = e.version
      [] e.e = "view" ->
            /\ e.record \in Ids
            /\ e.revision <= s.revision
            /\ EvaluatePredicate(e, RecordAt(s.history, e.record, e.revision))
            /\ EvaluatePredicate(e, At(s.records, e.record))

ValidateCorrectionPrecondition(s, op) ==
    op.op = "act" =>
        IF op.action = "correct"
        THEN /\ op.correction # <<>>
             /\ op.correction_expected # <<>>
             /\ op.correction[1].id \in Ids
             /\ ValidateExpected(s, op.correction[1].id, op.correction_expected[1])
        ELSE op.correction = <<>> /\ op.correction_expected = <<>>

(***************************************************************************)
(* Applying operations to the overlay of changed records.                  *)
(***************************************************************************)
NewRecordAt(new, correction_of, revision) ==
    [kind |-> new.kind, version |-> 1,
     st |-> CASE new.kind \in Claims -> "proposed"
              [] new.kind = "entity" -> "active"
              [] new.kind = "evidence" -> "fixed",
     ends |-> new.ends, props |-> new.props, evidence |-> new.evidence,
     valid |-> new.valid, correction_of |-> correction_of,
     born |-> revision, modified |-> revision]

Advance(r, st, props, revision) ==
    [r EXCEPT !.st = st, !.props = props, !.version = @ + 1, !.modified = revision]

Refused == [ok |-> FALSE, changed |-> NoEntries, affected |-> {}]

Applied(changed, ids) == [ok |-> TRUE, changed |-> changed, affected |-> ids]

Transition(st, action) ==
    CASE st = "proposed" /\ action = "accept" -> <<"accepted">>
      [] st = "proposed" /\ action = "reject" -> <<"rejected">>
      [] st = "accepted" /\ action = "dispute" -> <<"disputed">>
      [] st = "accepted" /\ action = "supersede" -> <<"superseded">>
      [] st = "accepted" /\ action = "retract" -> <<"retracted">>
      [] st = "accepted" /\ action = "expire" -> <<"expired">>
      [] OTHER -> <<>>

CreateRecord(records, changed, id, new, correction_of, revision) ==
    IF id \in DOMAIN records \/ (new.kind \in Claims /\ ~new.valid) THEN Refused
    ELSE Applied((id :> NewRecordAt(new, correction_of, revision)) @@ changed, {id})

ReplaceEntity(records, changed, op, revision) ==
    IF op.target \notin DOMAIN records \/ ~IsActiveEntity(records[op.target]) THEN Refused
    ELSE Applied((op.target :> Advance(records[op.target], "active", op.props, revision))
                    @@ changed, {op.target})

\* apply_assertion_action and apply_relationship_action: one code, two kinds.
ApplyClaimAction(records, changed, op, revision) ==
    IF op.target \notin DOMAIN records \/ records[op.target].kind # op.kind THEN Refused
    ELSE LET r == records[op.target]
             next == Transition(r.st, op.action)
         IN  IF op.action = "correct"
             THEN IF r.st # "accepted" THEN Refused
                  ELSE CreateRecord(records, changed, op.correction[1].id,
                                    op.correction[1].new, op.target, revision)
             ELSE IF next = <<>> THEN Refused
                  ELSE Applied((op.target :> Advance(r, next[1], r.props, revision))
                                    @@ changed, {op.target})

\* The base's reverse references to a target, overridden by the changed records.
ForEachReverseReference(reverse, changed, target) ==
    LET base == IF target \in DOMAIN reverse THEN reverse[target] ELSE NoEntries
        now == [o \in DOMAIN changed |-> RecordReverseReferences(changed[o])]
    IN  [o \in {x \in DOMAIN changed : target \in DOMAIN now[x]} |-> now[o][target]]
            @@ Restrict(base, DOMAIN base \ DOMAIN changed)

ClaimRoles ==
    [assertion |-> {"subject", "object"}, relationship |-> {"from", "to", "rel_property"}]

DependsAs(reference, status) ==
    /\ reference.kind \in Claims
    /\ reference.roles \cap ClaimRoles[reference.kind] # {}
    /\ reference.st = status

DeclaredIsExact(declared, accepted) ==
    Len(declared) = Cardinality(accepted) /\ accepted \subseteq Range(declared)

DeleteReferenced(refs, records, changed, op, revision) ==
    LET accepted == {o \in DOMAIN refs : DependsAs(refs[o], "accepted")}
        proposed == {o \in DOMAIN refs : DependsAs(refs[o], "proposed")}
        entities == {o \in DOMAIN refs \ {op.target} :
                        /\ refs[o].kind = "entity" /\ refs[o].st = "active"
                        /\ "property" \in refs[o].roles}
        retracted == {o \in Range(op.declared) \cap DOMAIN records :
                        op.cascade /\ records[o].kind \in Claims}
    IN  IF \/ proposed # {} \/ entities # {}
           \/ ~op.cascade /\ (accepted # {} \/ op.declared # <<>>)
           \/ op.cascade /\ \/ \E i \in 1..Len(op.declared) - 1 :
                                    op.declared[i] >= op.declared[i + 1]
                            \/ Cardinality(accepted) > op.maximum
                            \/ ~DeclaredIsExact(op.declared, accepted)
        THEN Refused
        ELSE Applied([o \in retracted |->
                        Advance(records[o], "retracted", records[o].props, revision)]
                     @@ (op.target :> Advance(records[op.target], "deleted",
                                              records[op.target].props, revision))
                     @@ changed,
                     retracted \cup {op.target})

DeleteEntity(reverse, records, changed, op, revision) ==
    IF op.target \notin DOMAIN records \/ ~IsActiveEntity(records[op.target]) THEN Refused
    ELSE DeleteReferenced(ForEachReverseReference(reverse, changed, op.target),
                          records, changed, op, revision)

ApplyOperation(s, changed, op, revision) ==
    LET records == changed @@ s.records
    IN  CASE op.op = "create" ->
                CreateRecord(records, changed, op.target, op.new, 0, revision)
          [] op.op = "replace" -> ReplaceEntity(records, changed, op, revision)
          [] op.op = "act" -> ApplyClaimAction(records, changed, op, revision)
          [] op.op = "delete" -> DeleteEntity(s.reverse, records, changed, op, revision)

(***************************************************************************)
(* Validation of the changed records against the transaction's final view. *)
(***************************************************************************)
ValidateEvidence(records, evidence) ==
    /\ evidence # <<>>
    /\ Cardinality(Range(evidence)) = Len(evidence)
    /\ \A e \in Range(evidence) :
            e \in Ids \cap DOMAIN records /\ records[e].kind = "evidence"

ValidateValue(records, props) ==
    \A p \in props : p \in Ids \cap DOMAIN records /\ IsVisibleRecord(records[p])

RequireActiveEntity(records, id) == id \in DOMAIN records /\ IsActiveEntity(records[id])

ValidateRecord(records, id) ==
    LET r == records[id]
    IN  /\ id \in Ids
        /\ r.valid
        /\ r.props \cup Range(r.ends) \subseteq Ids
        /\ r.kind = "entity" /\ r.st = "active" => ValidateValue(records, r.props)
        /\ r.kind \in Claims =>
            /\ ValidateEvidence(records, r.evidence)
            /\ Open(r.st) =>
                /\ \A e \in Range(r.ends) : RequireActiveEntity(records, e)
                /\ ValidateValue(records, r.props)
            /\ r.correction_of # 0 =>
                /\ r.correction_of \in DOMAIN records
                /\ records[r.correction_of].kind = r.kind

ValidateChangedState(records, affected) == \A id \in affected : ValidateRecord(records, id)

ValidateState(records) == \A id \in DOMAIN records : ValidateRecord(records, id)

(***************************************************************************)
(* Preparation: nothing is changed until every operation and every         *)
(* affected record has been admitted.                                      *)
(***************************************************************************)
IsCorrection(op) == op.op = "act" /\ op.action = "correct"

\* Corrections whose target an earlier operation of the revision may have changed.
ConflictsAfterOnly(acc, op, affected) ==
    affected \cap (acc.affected \cup acc.protected) # {}

\* A correction's target may change neither earlier nor later in the revision.
Conflicts(acc, op, affected) ==
    \/ IsCorrection(op) /\ op.target \in acc.affected
    \/ affected \cap (acc.affected \cup acc.protected) # {}

Accumulate(acc, op, result) ==
    IF ~result.ok \/ Conflicts(acc, op, result.affected) THEN [acc EXCEPT !.ok = FALSE]
    ELSE [ok |-> TRUE, changed |-> result.changed,
          affected |-> acc.affected \cup result.affected,
          protected |-> acc.protected
                            \cup (IF IsCorrection(op) THEN {op.target} ELSE {})]

ApplyNext(s, revision, acc, op) ==
    IF ~acc.ok THEN acc
    ELSE Accumulate(acc, op, ApplyOperation(s, acc.changed, op, revision))

ApplyOperations(s, ops, revision) ==
    FoldLeft(LAMBDA acc, op : ApplyNext(s, revision, acc, op),
             [ok |-> TRUE, changed |-> NoEntries, affected |-> {}, protected |-> {}], ops)

AdmitsTransaction(s, t, revision) ==
    /\ t.scope = "this"
    /\ revision = s.revision + 1
    /\ ValidateRequestLimits(t)
    /\ \A i \in DOMAIN t.ops :
            /\ t.ops[i].target \in Ids
            /\ ValidateExpected(s, t.ops[i].target, t.ops[i].expected)
            /\ ValidateCorrectionPrecondition(s, t.ops[i])
    /\ ValidatePolicyMutation(s.policy, t.policy)

PreparedGraph(s, t, revision, acc) ==
    IF ~acc.ok \/ ~ValidateChangedState(acc.changed @@ s.records, acc.affected) THEN <<>>
    ELSE <<[base_revision |-> s.revision, base_policy |-> s.policy,
            revision |-> revision, request |-> t,
            changes |-> [id \in DOMAIN acc.changed |->
                            [before |-> At(s.records, id), after |-> acc.changed[id]]],
            policy_change |-> IF t.policy = <<>> THEN <<>> ELSE <<t.policy[1].version>>]>>

\* prepare_transaction_with_digest: a prepared change, or nothing when refused.
PrepareTransaction(s, t, revision) ==
    IF ~AdmitsTransaction(s, t, revision) THEN <<>>
    ELSE PreparedGraph(s, t, revision, ApplyOperations(s, t.ops, revision))

\* graph_result_digest: injective in the revision, the new records and the policy.
ResultDigest(p) ==
    [revision |-> p.revision, after |-> [id \in DOMAIN p.changes |-> p.changes[id].after],
     policy |-> IF p.policy_change = <<>> THEN p.base_policy ELSE p.policy_change]

\* prepared_view / can_publish: the plan still targets exactly this base.
CanPublish(s, p) ==
    /\ p.base_revision = s.revision
    /\ p.base_policy = s.policy
    /\ \A id \in DOMAIN p.changes : At(s.records, id) = p.changes[id].before

ValidateExternalRequest(p, t, revision) == p.request = t /\ p.revision = revision

PublishChange(s, id, change) ==
    LET removed == IF change.before = <<>> THEN s
                   ELSE RemoveIndexContributions(s, id, change.before[1])
        added == AddIndexContributions(removed, id, change.after)
        old == IF id \in DOMAIN s.history THEN s.history[id] ELSE <<>>
    IN  [added EXCEPT !.history = (id :> Append(old, change.after)) @@ @,
                      !.records = (id :> change.after) @@ @]

Publish(s, p) ==
    LET changed == FoldSet(LAMBDA id, acc : PublishChange(acc, id, p.changes[id]), s,
                           DOMAIN p.changes)
    IN  [changed EXCEPT
            !.policy = IF p.policy_change = <<>> THEN @ ELSE p.policy_change,
            !.policy_history = IF p.policy_change = <<>> THEN @
                               ELSE (p.revision :> p.policy_change[1]) @@ @,
            !.revision = p.revision]

(***************************************************************************)
(* What a caller must be allowed to do for a transaction.                  *)
(***************************************************************************)
CollectExpected(e) ==
    {<<action, id>> : action \in {"read", "history"}, id \in PredicateRecord(e)}

Reads(ids) == {<<"read", id>> : id \in ids}
Writes(ids) == {<<action, id>> : action \in {"read", "commit"}, id \in ids}

\* A cascade whose declared dependents are only read.
CascadeRequirementsReadOnly(declared) == Reads(Range(declared))

CascadeRequirements(declared) == Writes(Range(declared))

CollectOperationReferences(op) ==
    CollectExpected(op.expected) \cup
    CASE op.op = "create" -> Reads(NewRecordReferences(op.new))
      [] op.op = "replace" -> Reads(op.props)
      [] op.op = "act" ->
            UNION {Writes({c.id}) \cup Reads(NewRecordReferences(c.new)) :
                        c \in Range(op.correction)}
                \cup UNION {CollectExpected(e) : e \in Range(op.correction_expected)}
      [] op.op = "delete" -> CascadeRequirements(op.declared)

AuthorizationRequirements(t) ==
    UNION {Writes({op.target}) \cup CollectOperationReferences(op) : op \in Range(t.ops)}
        \cup (IF t.policy = <<>> THEN {} ELSE {<<"manage_policy", 0>>})

(***************************************************************************)
(* Restoring a checkpoint.                                                 *)
(***************************************************************************)
EncodeCheckpoint(s) ==
    [revision |-> s.revision, records |-> s.records, history |-> s.history,
     policy |-> s.policy, policy_history |-> s.policy_history]

ValidateHistoricalRecordShape(id, r) ==
    /\ id \in Ids
    /\ r.valid /\ r.born <= r.modified
    /\ r.kind \in Claims => r.evidence # <<>>
    /\ Cardinality(Range(r.evidence)) = Len(r.evidence)
    /\ {x[1] : x \in VisitRecordReferences(r)} \subseteq Ids

ValidateHistoryFirst(id, r) ==
    /\ ValidateHistoricalRecordShape(id, r)
    /\ r.version = 1 /\ r.born = r.modified
    /\ r.st \in {"active", "fixed", "proposed"}

ValidCheckpointStatusTransition(previous, next) ==
    <<previous, next>> \in {<<"proposed", "accepted">>, <<"proposed", "rejected">>}
                           \cup {<<"accepted", st>> : st \in {"disputed", "superseded", "retracted", "expired"}}

ValidateHistorySuccessor(id, previous, next) ==
    /\ ValidateHistoricalRecordShape(id, next)
    /\ previous.kind = next.kind /\ next.kind # "evidence"
    /\ \A f \in {"ends", "evidence", "valid", "correction_of", "born"} :
            previous[f] = next[f]
    /\ IF next.kind = "entity"
       THEN previous.st = "active" /\ (next.st = "deleted" => previous.props = next.props)
       ELSE /\ previous.props = next.props
            /\ ValidCheckpointStatusTransition(previous.st, next.st)

ValidateRecordHistory(id, versions) ==
    /\ ValidateHistoryFirst(id, versions[1])
    /\ \A i \in 2..Len(versions) :
            ValidateHistorySuccessor(id, versions[i - 1], versions[i])

Requirements(targets, revision, kind) ==
    {[target |-> t, revision |-> revision, kind |-> kind] : t \in targets}

ClaimRequirements(r, revision, claimed, correction_at, correction) ==
    Requirements(Range(r.evidence), revision, "evidence")
        \cup (IF claimed THEN Requirements(Range(r.ends), revision, "active_entity")
                                \cup Requirements(r.props, revision, "visible")
              ELSE {})
        \cup Requirements({r.correction_of} \ {0}, correction_at, correction)

HistoryFirstRequirements(r) ==
    IF r.kind \in Claims
    THEN ClaimRequirements(r, r.born, TRUE, r.born - 1, "accepted_" \o r.kind)
    ELSE Requirements(r.props, r.modified, "visible")

HistorySuccessorRequirements(r) ==
    IF IsActiveEntity(r) THEN Requirements(r.props, r.modified, "visible") ELSE {}

CurrentRequirements(r, revision) ==
    IF r.kind \in Claims
    THEN ClaimRequirements(r, revision, Open(r.st), revision, r.kind)
    ELSE IF IsActiveEntity(r) THEN Requirements(r.props, revision, "visible") ELSE {}

RequirementMatches(kind, found) ==
    /\ found # <<>>
    /\ LET r == found[1]
       IN  CASE kind = "visible" -> IsVisibleRecord(r)
             [] kind = "active_entity" -> IsActiveEntity(r)
             [] kind \in {"evidence"} \cup Claims -> r.kind = kind
             [] OTHER -> "accepted_" \o r.kind = kind /\ r.st = "accepted"

\* Every reference of every version was good when that version was written.
ValidateHistoricalReferenceClosure(history) ==
    \A id \in DOMAIN history :
        \A i \in DOMAIN history[id] :
            \A q \in IF i = 1 THEN HistoryFirstRequirements(history[id][i])
                     ELSE HistorySuccessorRequirements(history[id][i]) :
                /\ q.revision > 0
                /\ RequirementMatches(q.kind, RecordAt(history, q.target, q.revision))

\* decode_graph_checkpoint and from_persisted_parts.
FromPersistedParts(c) ==
    IF /\ DOMAIN c.records = DOMAIN c.history
       /\ \A id \in DOMAIN c.history :
            LET versions == c.history[id]
            IN  /\ versions # <<>>
                /\ \A i \in DOMAIN versions :
                    /\ versions[i].version = i
                    /\ versions[i].modified <= c.revision
                    /\ i > 1 => versions[i - 1].modified < versions[i].modified
                /\ ValidateRecordHistory(id, versions)
                /\ c.records[id] = Last(versions)
       /\ ValidateHistoricalReferenceClosure(c.history)
       /\ \A r \in DOMAIN c.policy_history :
            /\ r <= c.revision
            /\ \A q \in DOMAIN c.policy_history :
                    q < r => c.policy_history[q] < c.policy_history[r]
       /\ c.policy = (IF DOMAIN c.policy_history = {} THEN <<>>
                      ELSE <<c.policy_history[Max(DOMAIN c.policy_history)]>>)
       /\ ValidateState(c.records)
    THEN <<RebuildIndexes(c @@ EmptySnapshot)>>
    ELSE <<>>

(***************************************************************************)
(* Authorized reads.  A grant is the set of (action, record) pairs the     *)
(* caller's policy allows; a result is a status and the records returned.  *)
(***************************************************************************)
ReadRequirements(q) ==
    CASE q.read = "record" -> Reads({q.id})
      [] q.read = "record_at" -> Reads({q.id}) \cup {<<"history", q.id>>}
      [] OTHER -> Reads({q.id}) \cup {<<"expand", q.id>>}

ReferencesAreAuthorized(r, grant) ==
    Reads({x[1] : x \in VisitRecordReferences(r)}) \subseteq grant

MayExpand(id, grant) == {<<"read", id>>, <<"expand", id>>} \subseteq grant

Result(status, out) == [status |-> status, out |-> out]

VisibleRecord(found, grant) ==
    Result("ok", {r \in Range(found) : ReferencesAreAuthorized(r, grant)})

Bounded(visible, maximum) ==
    IF Cardinality(visible) > maximum THEN Result("result_limit", {})
    ELSE Result("ok", visible)

AdjacentCandidates(s, id, direction) ==
    (IF direction # "incoming" /\ id \in DOMAIN s.outgoing THEN s.outgoing[id] ELSE {})
        \cup (IF direction # "outgoing" /\ id \in DOMAIN s.incoming
              THEN s.incoming[id] ELSE {})

Neighbor(r, entity) == IF r.ends[1] = entity THEN r.ends[2] ELSE r.ends[1]

ReadAdjacent(s, q, grant) ==
    LET found == AdjacentCandidates(s, q.id, q.direction)
        broken == {c \in found :
                    c \notin DOMAIN s.records \/ s.records[c].kind # "relationship"}
        far(c) == Neighbor(s.records[c], q.id)
        allowed == {c \in found \ broken :
                        /\ ReferencesAreAuthorized(s.records[c], grant)
                        /\ MayExpand(c, grant) /\ MayExpand(far(c), grant)}
        corrupt == {c \in allowed :
                        far(c) \notin DOMAIN s.records \/ s.records[far(c)].kind # "entity"}
    IN  IF broken \cup corrupt # {} THEN Result("corrupt", {})
        ELSE Bounded({<<c, s.records[c], s.records[far(c)]>> :
                        c \in {x \in allowed :
                                ReferencesAreAuthorized(s.records[far(x)], grant)}},
                     q.maximum)

ReadSupportedBy(s, q, grant) ==
    LET found == IF q.id \in DOMAIN s.provenance THEN s.provenance[q.id] ELSE {}
    IN  IF ~(found \subseteq DOMAIN s.records) THEN Result("corrupt", {})
        ELSE Bounded({<<c, s.records[c]>> : c \in {x \in found :
                            /\ <<"read", x>> \in grant
                            /\ ReferencesAreAuthorized(s.records[x], grant)}},
                     q.maximum)

ReadAuthorized(s, q, grant) ==
    CASE ~(ReadRequirements(q) \subseteq grant) -> Result("denied", {})
      [] q.read \in {"adjacent", "supported_by"} /\ q.maximum > MaxResults ->
            Result("resource_limit", {})
      [] q.read = "record" -> VisibleRecord(At(s.records, q.id), grant)
      [] q.read = "record_at" ->
            IF q.revision > s.revision THEN Result("unknown_view", {})
            ELSE VisibleRecord(RecordAt(s.history, q.id, q.revision), grant)
      [] q.read = "adjacent" -> ReadAdjacent(s, q, grant)
      [] q.read = "supported_by" -> ReadSupportedBy(s, q, grant)
=============================================================================
