----------------------------- MODULE GraphCodec -----------------------------
(***************************************************************************)
(* The canonical encoding of graph transactions, records and namespace     *)
(* policies (uste-graph codec.rs), and the second decoder of stored        *)
(* records, which works on borrowed parts of the bytes instead of an owned *)
(* value.  A reference, an identity or a digest is one byte in a sequence  *)
(* of the right length; a u64 or u32 is a number with a small maximum, and *)
(* the value model has larger ones.                                        *)
(***************************************************************************)
EXTENDS Integers, Sequences, SequencesExt, FiniteSets, Functions, Forms

CONSTANTS
    MaxU64, MaxU32,        \* the largest numbers of the two widths, MaxU32 < MaxU64
    HardCap,               \* the hard cap of every quota
    PermissionMask,        \* VALID_PERMISSION_BITS, a run of low bits
    MaxInlineBytes,        \* the longest byte value (MAX_INLINE_BYTES)
    MaxPrincipals, MaxRules

(***************************************************************************)
(* Constructors: QuotaLimits::new, decode_record_rules, decode_policy.     *)
(***************************************************************************)
RuleEntryBytes == 2

RuleChunkEntries == MaxInlineBytes \div RuleEntryBytes

QuotaNames == {"max_request_bytes", "max_staged_blob_bytes", "max_committed_blob_bytes",
               "max_live_uploads", "max_blob_read_bytes_per_call"}

Ascending(s) == \A i \in 1..Len(s) - 1 : s[i] < s[i + 1]

\* The entries of the chunks in order: bytes in pairs, a record and its denied bits.
RuleEntries(chunks) ==
    LET bytes == FlattenSeq(chunks)
    IN [i \in 1..Len(bytes) \div RuleEntryBytes |->
            <<bytes[RuleEntryBytes * i - 1], bytes[RuleEntryBytes * i]>>]

\* A chunk that is not the last one need not be full: the same rules cut in two ways.
ChunkOfAnyLength(chunks, i) ==
    Len(chunks[i]) \in 1..MaxInlineBytes /\ Len(chunks[i]) % RuleEntryBytes = 0

\* What a chunk must be; no byte value is longer than MaxInlineBytes to begin with.
ChunkIsFull(chunks, i) ==
    /\ Len(chunks[i]) \in 1..MaxInlineBytes
    /\ Len(chunks[i]) % RuleEntryBytes = 0
    /\ i < Len(chunks) => Len(chunks[i]) = RuleChunkEntries * RuleEntryBytes

MakeRules(chunks) ==
    LET entries == RuleEntries(chunks)
        records == [i \in DOMAIN entries |-> entries[i][1]]
    IN IF /\ \A i \in DOMAIN chunks : ChunkIsFull(chunks, i)
          /\ Ascending(records)
          /\ \A i \in DOMAIN entries : entries[i][2] \in 0..PermissionMask
          /\ Len(entries) <= MaxRules
       THEN <<[r \in Range(records) |->
                (CHOOSE e \in Range(entries) : e[1] = r)[2]]>>
       ELSE <<>>

\* encode_record_rules: a chunk is closed when the next entry finds it full.
UnmakeRules(rules) ==
    LET order == SetToSortSeq(DOMAIN rules, LAMBDA a, b : a < b)
        chunk(c) == SubSeq(order, (c - 1) * RuleChunkEntries + 1,
                           IF c * RuleChunkEntries < Len(order) THEN c * RuleChunkEntries
                           ELSE Len(order))
        bytes(s) == FlattenSeq([i \in DOMAIN s |-> <<s[i], rules[s[i]]>>])
    IN [c \in 1..(Len(order) + RuleChunkEntries - 1) \div RuleChunkEntries |-> bytes(chunk(c))]

MakeQuotas(q) == IF \A n \in QuotaNames : q[n] <= HardCap THEN <<q>> ELSE <<>>

WithinQuotas(q, limits) == \A n \in QuotaNames : q[n] <= limits[n]

\* NamespacePolicy::grant for every grant in turn.
MakePolicy(p) ==
    LET principals == [i \in DOMAIN p.grants |-> p.grants[i].principal[1]]
    IN IF /\ Ascending(principals)
          /\ Len(p.grants) <= MaxPrincipals
          /\ \A i \in DOMAIN p.grants : WithinQuotas(p.grants[i].quotas, p.quotas)
       THEN <<[p EXCEPT !.grants = Range(@)]>>
       ELSE <<>>

UnmakePolicy(p) ==
    [p EXCEPT !.grants = SetToSortSeq(@, LAMBDA a, b : a.principal[1] < b.principal[1])]

MakeGraph(name, x) ==
    CASE name = "record rules" -> MakeRules(x)
      [] name = "quotas" -> MakeQuotas(x)
      [] name = "policy" -> MakePolicy(x)

UnmakeGraph(name, x) ==
    CASE name = "record rules" -> UnmakeRules(x)
      [] name = "quotas" -> x
      [] name = "policy" -> UnmakePolicy(x)

INSTANCE RecordCodec WITH Make <- MakeGraph, Unmake <- UnmakeGraph

(***************************************************************************)
(* The forms of the small values.                                          *)
(***************************************************************************)
Text == Plain("text")

Ref == Plain("ref")

U64 == Within("unsigned", 0..MaxU64, "invalid number")

U32 == Within("unsigned", 0..MaxU32, "invalid number")

\* take_revision and take_record_version: a number and not zero.
Nonzero == Within("unsigned", 1..MaxU64, "invalid number")

PolicyVersion == Within("unsigned", 1..MaxU64, "invalid policy")

OneByte(error) == Within("bytes", {<<b>> : b \in 0..7}, error)

Refs == ListOf(Ref, 100)

Scope == Fields(<<Part("database", OneByte("invalid identity")),
                  Part("namespace", OneByte("invalid identity"))>>)

Bound == Union(<<>>, [unbounded |-> <<>>, bounded |-> <<Part("instant", Plain("instant"))>>])

ValidTime == Union(<<>>, [unknown |-> <<>>,
                          half_open |-> <<Part("start", Bound), Part("end", Bound)>>])

Predicate == Union(<<Part("record", Ref)>>,
                   [absent |-> <<>>, visible |-> <<>>, version |-> <<Part("version", Nonzero)>>])

Expected == Union(<<>>, [absent |-> <<>>, version |-> <<Part("version", Nonzero)>>,
                         read_view |-> <<Part("revision", Nonzero),
                                         Part("predicate", Predicate)>>])

DeletePolicy == Union(<<>>, [reject |-> <<>>,
                             cascade_retract |-> <<Part("maximum_affected", U32)>>])

Action == Within("text", {"accept", "reject", "dispute", "supersede", "retract", "expire",
                          "correct"}, "invalid enum")

Status == Within("text", {"proposed", "accepted", "rejected", "disputed", "superseded",
                          "retracted", "expired"}, "invalid enum")

(***************************************************************************)
(* Records: what a transaction creates, and what the database keeps.       *)
(***************************************************************************)
Digest == OneByte("invalid digest")

AssertionParts ==
    <<Part("id", Ref), Part("subject", Ref), Part("predicate", Text), Part("object", AnyValue),
      Part("evidence", Refs), Part("valid_time", ValidTime)>>

RelationshipParts ==
    <<Part("id", Ref), Part("from", Ref), Part("to", Ref), Part("relationship_type", Text),
      Part("properties", AnyValue), Part("evidence", Refs), Part("valid_time", ValidTime)>>

NewRecord == Union(<<>>,
    [entity |-> <<Part("id", Ref), Part("entity_type", Text), Part("schema_version", U64),
                  Part("properties", AnyValue)>>,
     evidence |-> <<Part("id", Ref), Part("digest", Digest), Part("locator", Text)>>,
     assertion |-> AssertionParts,
     relationship |-> RelationshipParts])

Versioned == <<Part("id", Ref), Part("version", Nonzero)>>

\* The end of an assertion and of a relationship alike.
Settlement ==
    <<Part("evidence", Refs), Part("status", Status), Part("valid_time", ValidTime),
      Part("correction_of", Optional(Ref)), Part("recorded_revision", Nonzero),
      Part("modified_revision", Nonzero)>>

StoredRecord == Union(<<>>,
    [entity |-> Versioned \o
        <<Part("lifecycle", Within("text", {"active", "deleted"}, "invalid enum")),
          Part("entity_type", Text), Part("schema_version", U64), Part("properties", AnyValue),
          Part("created_revision", Nonzero), Part("modified_revision", Nonzero)>>,
     evidence |-> Versioned \o
        <<Part("digest", Digest), Part("locator", Text), Part("created_revision", Nonzero)>>,
     assertion |-> Versioned \o
        <<Part("subject", Ref), Part("predicate", Text), Part("object", AnyValue)>> \o Settlement,
     relationship |-> Versioned \o
        <<Part("from", Ref), Part("to", Ref), Part("relationship_type", Text),
          Part("properties", AnyValue)>> \o Settlement])

(***************************************************************************)
(* Operations, policies and transactions.                                  *)
(***************************************************************************)
NewAssertion == Union(<<>>, [assertion |-> AssertionParts])

NewRelationship == Union(<<>>, [relationship |-> RelationshipParts])

ActParts(correction) ==
    <<Part("target", Ref), Part("expected", Expected), Part("action", Action),
      Part("correction", Optional(correction)),
      Part("correction_expected", Optional(Expected))>>

Operation == Union(<<>>,
    [create |-> <<Part("expected", Expected), Part("record", NewRecord)>>,
     replace_entity |-> <<Part("target", Ref), Part("expected", Expected),
                          Part("properties", AnyValue)>>,
     act_assertion |-> ActParts(NewAssertion),
     act_relationship |-> ActParts(NewRelationship),
     delete_entity |-> <<Part("affected", Refs), Part("target", Ref),
                         Part("expected", Expected), Part("policy", DeletePolicy)>>])

Quotas == Made("quotas", Fields(
    <<Part("max_request_bytes", U64), Part("max_staged_blob_bytes", U64),
      Part("max_committed_blob_bytes", U64), Part("max_live_uploads", U32),
      Part("max_blob_read_bytes_per_call", U32)>>), "invalid policy")

RecordRules == Made("record rules", ListOf(Plain("bytes"), 100), "invalid policy")

Grant == Fields(
    <<Part("principal", OneByte("invalid policy")),
      Part("permissions", Within("unsigned", 0..PermissionMask, "invalid policy")),
      Part("quotas", Quotas), Part("record_rules", RecordRules)>>)

Policy == Made("policy", Fields(
    <<Part("scope", Scope), Part("version", PolicyVersion), Part("quotas", Quotas),
      Part("grants", ListOf(Grant, 100))>>), "invalid policy")

PolicyMutation == Union(<<>>,
    [install |-> <<Part("policy", Policy)>>,
     replace |-> <<Part("expected", PolicyVersion), Part("policy", Policy)>>])

Transaction == Fields(
    <<Part("profile", Fixed(<<"text", "profile">>, "invalid enum")),
      Part("operations", ListOf(Operation, 100)),
      Part("policy_mutation", Optional(PolicyMutation)), Part("scope", Scope)>>)

(***************************************************************************)
(* decode_stored_record: the fields of the record map are visited in place *)
(* and only two of them are looked into, a valid_time that is a map and an *)
(* evidence list whose items are all references.  The rest stay a string   *)
(* or an owned value.                                                      *)
(***************************************************************************)
RECURSIVE BorrowMap(_)

\* decode_borrowed_map_tree: a map of one text is a shape of its own.
BorrowMap(v) ==
    LET names == DOMAIN v[2]
        only == CHOOSE n \in names : TRUE
    IN IF Cardinality(names) = 1 /\ v[2][only][1] = "text"
       THEN <<"singleton", only, v[2][only][2]>>
       ELSE <<"map", [n \in names |->
                CASE v[2][n][1] = "map" -> BorrowMap(v[2][n])
                  [] v[2][n][1] = "text" -> <<"string", v[2][n][2]>>
                  [] OTHER -> <<"value", v[2][n]>>]>>

Borrow(name, v) ==
    CASE name = "valid_time" /\ v[1] = "map" -> BorrowMap(v)
      [] name = "evidence" /\ v[1] = "list" /\ (\A i \in DOMAIN v[2] : v[2][i][1] = "ref") ->
            <<"refs", [i \in DOMAIN v[2] |-> v[2][i][2]]>>
      [] v[1] = "text" -> <<"string", v[2]>>
      [] OTHER -> <<"value", v>>

\* take_value and take_text: what was made of the two selected fields is never an owned value.
ReadOwned(part, b) ==
    IF b[1] \in {"string", "value"}
    THEN Decode(part.of, IF b[1] = "string" THEN <<"text", b[2]>> ELSE b[2])
    ELSE Err("wrong type")

\* BorrowedFields::take, which leaves the reading of the field to its caller.
TakeBorrowed(acc, part, Read(_, _)) ==
    CASE acc.error # <<"none">> -> acc
      [] acc.error = <<"none">> /\ part.name \notin DOMAIN acc.left ->
            [acc EXCEPT !.error = Missing(part.name).error]
      [] OTHER -> Moved(acc, part, Read(part, acc.left[part.name]))

BorrowedOption(f, kind, Read(_, _)) ==
    CASE kind.error # <<"none">> -> Finish(kind)
      [] kind.error = <<"none">> /\ kind.value.kind \notin DOMAIN f.options ->
            Err("invalid enum")
      [] OTHER -> Finish(FoldLeft(LAMBDA acc, part : TakeBorrowed(acc, part, Read), kind,
                                  f.options[kind.value.kind]))

BorrowedUnion(f, fields, Read(_, _)) ==
    BorrowedOption(f, TakeBorrowed([error |-> <<"none">>, left |-> fields, value |-> <<>>],
                                   Part("kind", Text), ReadOwned), Read)

\* A map of one text read without building it: the kind is all there is.
Singleton(b, whole, partial) ==
    IF b[2] # "kind" THEN Missing("kind")
    ELSE CASE b[3] = whole -> Ok([kind |-> whole])
           [] b[3] \in DOMAIN partial -> Missing(partial[b[3]])
           [] OTHER -> Err("invalid enum")

ReadBound(part, b) ==
    CASE b[1] = "map" -> BorrowedUnion(Bound, b[2], ReadOwned)
      [] b[1] = "singleton" -> Singleton(b, "unbounded", [bounded |-> "instant"])
      [] b[1] = "value" -> Decode(Bound, b[2])
      [] OTHER -> Err("wrong type")

ReadValidTime(b) ==
    CASE b[1] = "map" -> BorrowedUnion(ValidTime, b[2], ReadBound)
      [] b[1] = "singleton" -> Singleton(b, "unknown", [half_open |-> "start"])
      [] b[1] = "value" -> Decode(ValidTime, b[2])
      [] OTHER -> Err("wrong type")

ReadRefs(b) ==
    CASE b[1] = "refs" -> Ok(b[2])
      [] b[1] = "value" -> Decode(Refs, b[2])
      [] OTHER -> Err("wrong type")

ReadStored(part, b) ==
    CASE part.name = "evidence" -> ReadRefs(b)
      [] part.name = "valid_time" -> ReadValidTime(b)
      [] OTHER -> ReadOwned(part, b)

\* borrowed_record_field_index: the fields a stored record may have at all.
RecordFields ==
    {"kind"} \cup UNION {{StoredRecord.options[k][i].name : i \in DOMAIN StoredRecord.options[k]} :
                         k \in DOMAIN StoredRecord.options}

\* Fields outside that list are noticed when all others have been read.
Complete(v, r) == IF IsOk(r) /\ ~(DOMAIN v[2] \subseteq RecordFields) THEN Err("unknown field") ELSE r

DecodeStored(v) ==
    IF v[1] # "map" THEN Err("wrong type")
    ELSE Complete(v, BorrowedUnion(StoredRecord,
                        [n \in DOMAIN v[2] \cap RecordFields |-> Borrow(n, v[2][n])], ReadStored))
=============================================================================
