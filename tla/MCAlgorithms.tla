---------------------------- MODULE MCAlgorithms ----------------------------
(***************************************************************************)
(* Small instances of the algorithms below the stores: index runs, packed  *)
(* trees and their cache, the encodings, and the normalization of times.   *)
(***************************************************************************)
EXTENDS Integers, Sequences, FiniteSets, TLC

CONSTANTS
    Components,     \* the algorithms this instance is about
    RunPageBytes, FragmentHeader, MaxKeyBytes, MaxValueBytes, MaxRunPages, MaxRunEntries, Stride,
    RunValues, RunInputs, RunChanges, ProbeKeys, GetLimits, ScanLimits, ReadLimits, MergeLimits,
    ByteBits, PageCapacity, LookupBudget, RangeBudget, MaxSlots, MaxPayload, MaxChunkData,
    MaxPackPages, Scenarios, WideLimits, StageLimits, CheckLimits,
    Records, Pool, MaxEdits, MaxGrown,
    MaxU64, MaxU32, HardCap, PermissionMask, MaxInlineBytes, MaxPrincipals, MaxRules,
    MaxOffset, MaxEffective, MaxDigits, MaxDetail, MaxCount, MaxAssumptions, EmptyText,
    HalfTurn, QuarterTurn,
    Base, NotUtf8, MaxText, MaxItems, MaxRows, MaxBlobBytes, BlobChunkBytes, MaxSourceBytes,
    MaxSeconds, NanosPerSecond, MaxRequestBytes,
    MaxInline, MaxCollection, MaxNesting, MaxNodes, MaxValuePayload, MapField, RefsField,
    SecondsPerDay, Zones, TimeRequests

VARIABLES
    component,      \* which algorithm this behaviour is about
    run, held, said,
    scenario, packs, trees, vault, cache, cursor, answer,
    format, input, edits,
    request, envelope, stored, shown

Run == INSTANCE IndexRun
Packed == INSTANCE PackedStore
Codec == INSTANCE Codecs
Time == INSTANCE TimeNormalizer

runVars == <<run, held, said>>
packedVars == <<scenario, packs, trees, vault, cache, cursor, answer>>
codecVars == <<format, input, edits>>
timeVars == <<request, envelope, stored, shown>>
vars == <<component, runVars, packedVars, codecVars, timeVars>>

NoPacks == scenario = "batches" /\ Packed!Init

NoInput == format = "payload" /\ input = <<>> /\ edits = 0

NoTime == request = [kind |-> "missing"] /\ envelope = <<>> /\ stored = <<>> /\ shown = <<>>

Init ==
    /\ component \in Components
    /\ Run!RunInit
    /\ IF component = "packed" THEN Packed!Init ELSE NoPacks
    /\ IF component = "codecs" THEN Codec!CodecInit ELSE NoInput
    /\ IF component = "time" THEN Time!TimeInit ELSE NoTime

RunNext ==
    component = "run" /\ Run!RunNext /\ UNCHANGED <<component, packedVars, codecVars, timeVars>>

PackedNext ==
    component = "packed" /\ Packed!Next /\ UNCHANGED <<component, runVars, codecVars, timeVars>>

CodecNext ==
    /\ component = "codecs"
    /\ Codec!CodecNext
    /\ UNCHANGED <<component, runVars, packedVars, timeVars>>

TimeNext ==
    component = "time" /\ Time!TimeNext /\ UNCHANGED <<component, runVars, packedVars, codecVars>>

Next == RunNext \/ PackedNext \/ CodecNext \/ TimeNext

Spec == Init /\ [][Next]_vars

-----------------------------------------------------------------------------
\* IndexRun and PackedStore: an index is a function of what it holds.  However a run was merged,
\* its pages are those of writing its entries anew, and changes are refused exactly when they do
\* not fit it (publish_run, merge_run).  Whatever batches were staged, the tree of a key set is the
\* one canonical tree of that set, with the commitment of its content, and full validation accepts
\* it (stage_packed_tree_batch, validate_packed_tree).
IndexesAreCanonical ==
    /\ component = "run" => Run!RunsAreCanonical
    /\ component = "packed" => Packed!TreesAreCanonical

\* IndexRun and PackedStore: a read answers with exactly what the index holds or fails for a limit
\* that is really exceeded, through a cache as well as without one, and the cache never counts a
\* byte twice nor forgets one (index_get, index_get_predecessor, index_scan_prefix,
\* visit_index_run, get_packed_cached, range_packed_cached, PackedTreeCursor::next).
IndexReadsAreExact ==
    /\ component = "run" => Run!RunReadsAreExact
    /\ component = "packed" => Packed!TreeReadsAreExact /\ Packed!CacheAccountsAreExact

\* Codecs: what a decoder accepts is exactly the encoding of what it returns, every record that is
\* written can be read back, and the borrowing decoder agrees with the copying one in value and
\* in error (decode_value, decode_transaction, decode_stored_record and the request decoders).
CodecsAreCanonical == component = "codecs" => Codec!CodecsAreCanonical

\* TimeNormalizer: every input is settled as the zone's history says, an envelope read back is the
\* one that was stored, and presenting an instant never changes it (normalize, checked,
\* resolve_named_zone, local_datetime_for_instant).
TimesAreSettled == component = "time" => Time!TimesAreSettled

\* TimeNormalizer: an instant is presented with the offset in force at it (present_in_zone).
ShownWithEffectiveOffset == component = "time" => Time!ShownWithEffectiveOffset

-----------------------------------------------------------------------------
(***************************************************************************)
(* Index runs: a value of nine bytes spans two or three pages of seven,    *)
(* three entries without a value fill a page.                              *)
(***************************************************************************)
LongRunValue == <<1, 2, 3, 4, 5, 6, 7, 8, 9>>

SmallRunValues == {<<>>, <<5>>, LongRunValue}

SmallRunKeys == {<<1>>, <<1, 2>>, <<2>>}

RunAfters == {<<>>} \cup {<<v>> : v \in SmallRunValues}

ChangeOf(key, after, honest) == [key |-> key, after |-> after, honest |-> honest]

\* One change, or two in any order, with the value that is held as before or another.
SmallRunChanges ==
    {<<ChangeOf(key, after, honest)>> :
        key \in SmallRunKeys, after \in RunAfters, honest \in BOOLEAN}
    \cup {<<ChangeOf(a, x, TRUE), ChangeOf(b, y, TRUE)>> :
            a, b \in SmallRunKeys, x, y \in {<<>>, <<LongRunValue>>}}

RunEntry(key, value) == [key |-> key, value |-> value]

SmallRunInputs ==
    {<<>>,
     <<RunEntry(<<1>>, <<5>>), RunEntry(<<1>>, <<>>)>>,
     <<RunEntry(<<2>>, <<5>>), RunEntry(<<1>>, <<>>)>>,
     <<RunEntry(<<1, 1, 1>>, <<5>>)>>,
     <<RunEntry(<<>>, <<5>>)>>,
     <<RunEntry(<<1>>, <<5>>), RunEntry(<<1, 2>>, <<>>), RunEntry(<<2>>, LongRunValue)>>}

SmallProbeKeys == SmallRunKeys \cup {<<>>, <<0>>, <<1, 0>>, <<1, 3>>, <<3>>, <<1, 1, 1>>}

SmallGetLimits == [visits : {2, 5, 99}, bytes : {5, 99}]

SmallScanLimits == [visits : {4, 99}, results : {1, 99}, bytes : {12, 99}]

SmallReadLimits == [pages : {3, 99}, entries : {2, 99}, bytes : {12, 99}]

AllReads == [pages |-> 99, entries |-> 99, bytes |-> 99]

AllMerges == [base |-> AllReads, deltas |-> 99, deltaBytes |-> 99, entries |-> 99, bytes |-> 99]

TightMerges ==
    [base |-> [pages |-> 4, entries |-> 2, bytes |-> 20], deltas |-> 1, deltaBytes |-> 12,
     entries |-> 2, bytes |-> 20]

SmallMergeLimits == {AllMerges, TightMerges}

(***************************************************************************)
(* Packed trees: keys that are prefixes of one another and keys that       *)
(* differ in a middle bit, values of one chunk and of two.                 *)
(***************************************************************************)
KeysAll == {<<1>>, <<1, 0>>, <<1, 0, 3>>, <<1, 2>>, <<2>>}

Short == <<5>>

Long == <<5, 6, 7>>

Batches(keys, afters, size) ==
    UNION {[some -> afters] : some \in {s \in SUBSET keys : s # {} /\ Cardinality(s) <= size}}

AllLimits == [pages |-> 99, branches |-> 99, value |-> 99, candidates |-> 99, bytes |-> 99]

TightLimits == [pages |-> 3, branches |-> 1, value |-> 2, candidates |-> 2, bytes |-> 4]

CursorLimits == [TightLimits EXCEPT !.candidates = 3, !.pages = 9, !.bytes = 9]

SmallStageLimits == [deltas |-> 4, dirty |-> 9, branches |-> 9, pages |-> 99]

SmallCheckLimits == [nodes |-> 99, bytes |-> 99, pages |-> 99, branches |-> 99]

Bounds == {<<1, 1>>, <<1, 2>>}

AllRanges ==
    {r \in [lower : Bounds \cup {<<>>}, upper : {<<>>} \cup {<<b>> : b \in Bounds},
            reverse : BOOLEAN] :
        r.lower = <<1, 2>> => r.upper # <<<<1, 1>>>>}

FewRanges == {r \in AllRanges : r.lower # <<1, 2>> /\ r.upper # <<<<1, 1>>>>}

Backwards == [lower |-> <<1>>, upper |-> <<>>, reverse |-> TRUE]

NoPlan ==
    [first |-> {}, batches |-> {}, stale |-> {}, keys |-> {}, ranges |-> {}, cursors |-> {},
     limits |-> {}, trees |-> 1, sessions |-> 1, damage |-> FALSE,
     probes |-> [keys |-> {}, ranges |-> {}]]

PutOf(key) == IF key = <<1, 0>> THEN <<Long>> ELSE <<Short>>

TwoKeys == (<<1>> :> <<Short>>) @@ (<<1, 2>> :> <<Long>>)

\* Every batch on every small tree; reads through a cache under all and under tight limits; the
\* same across key sessions, reopens and damage; cursors that are held while the world changes.
ScenarioTable ==
    [batches |->
            [NoPlan EXCEPT !.first = {[key \in some |-> PutOf(key)] : some \in SUBSET KeysAll \ {{}}},
                           !.batches = Batches(KeysAll, {<<>>, <<Short>>}, 3),
                           !.stale = Batches({<<1>>, <<1, 2>>}, {<<>>, <<Long>>}, 2),
                           !.trees = 3,
                           !.probes = [keys |-> KeysAll \cup {<<1, 1>>, <<3>>}, ranges |-> AllRanges]],
     cached |->
            [NoPlan EXCEPT !.first = {TwoKeys}, !.trees = 2,
                           !.keys = {<<1>>, <<1, 2>>}, !.ranges = {Backwards},
                           !.limits = {AllLimits, TightLimits}],
     sessions |->
            [NoPlan EXCEPT !.first = {TwoKeys}, !.batches = {<<1>> :> <<<<8>>>>}, !.trees = 3,
                           !.keys = {<<1>>}, !.limits = {AllLimits},
                           !.sessions = 2, !.damage = TRUE],
     cursors |->
            [NoPlan EXCEPT !.first = {TwoKeys @@ (<<2>> :> <<<<>>>>)}, !.batches = {<<1>> :> <<>>},
                           !.trees = 3, !.cursors = FewRanges,
                           !.limits = {AllLimits, CursorLimits}, !.sessions = 2, !.damage = TRUE]]

SmallScenarios == [s \in DOMAIN ScenarioTable |-> ScenarioTable[s]]

(***************************************************************************)
(* Encodings: records of every kind, with every optional part once present *)
(* and once absent, and values at the limits.                              *)
(***************************************************************************)
Scope1 == [database |-> <<1>>, namespace |-> <<2>>]

Opt(x) == <<x>>

\* A reference: a scope and a record.
Ref(n) == <<<<1, 2>>, n>>

Bounded(t) == [kind |-> "bounded", instant |-> <<t, 0>>]

HalfOpen == [kind |-> "half_open", start |-> Bounded(1), end |-> [kind |-> "unbounded"]]

Unknown == [kind |-> "unknown"]

Body == <<"map", [name |-> <<"text", "x">>]>>

NewAssertion ==
    [kind |-> "assertion", id |-> Ref(1), subject |-> Ref(2), predicate |-> "p",
     object |-> Body, evidence |-> <<Ref(3), Ref(4)>>, valid_time |-> HalfOpen]

NewRelationship ==
    [kind |-> "relationship", id |-> Ref(1), from |-> Ref(2), to |-> Ref(3),
     relationship_type |-> "r", properties |-> Body, evidence |-> <<>>, valid_time |-> Unknown]

ReadView(p) == [kind |-> "read_view", revision |-> 1, predicate |-> p]

Operations ==
    <<[kind |-> "create", expected |-> [kind |-> "absent"], record |-> NewAssertion],
     [kind |-> "create", expected |-> ReadView([kind |-> "absent", record |-> Ref(1)]),
      record |-> [kind |-> "entity", id |-> Ref(1), entity_type |-> "e", schema_version |-> 0,
                  properties |-> Body]],
     [kind |-> "create", expected |-> ReadView([kind |-> "version", record |-> Ref(1), version |-> 1]),
      record |-> [kind |-> "evidence", id |-> Ref(1), digest |-> <<1>>, locator |-> "l"]],
     [kind |-> "replace_entity", target |-> Ref(1), expected |-> [kind |-> "version", version |-> 1],
      properties |-> Body],
     [kind |-> "act_assertion", target |-> Ref(1), expected |-> [kind |-> "version", version |-> 1],
      action |-> "correct", correction |-> Opt(NewAssertion),
      correction_expected |-> Opt([kind |-> "absent"])],
     [kind |-> "act_relationship", target |-> Ref(1), expected |-> [kind |-> "version", version |-> 1],
      action |-> "retract", correction |-> <<>>, correction_expected |-> <<>>],
     [kind |-> "act_relationship", target |-> Ref(1), expected |-> [kind |-> "version", version |-> 1],
      action |-> "correct", correction |-> Opt(NewRelationship),
      correction_expected |-> Opt([kind |-> "absent"])],
     [kind |-> "delete_entity", affected |-> <<Ref(1), Ref(2)>>, target |-> Ref(1),
      expected |-> [kind |-> "version", version |-> 1],
      policy |-> [kind |-> "cascade_retract", maximum_affected |-> 2]],
     [kind |-> "delete_entity", affected |-> <<>>, target |-> Ref(1),
      expected |-> [kind |-> "version", version |-> 1], policy |-> [kind |-> "reject"]]>>

QuotasOf(n) ==
    [max_request_bytes |-> n, max_staged_blob_bytes |-> n, max_committed_blob_bytes |-> n,
     max_live_uploads |-> n, max_blob_read_bytes_per_call |-> n]

GrantOf(p, rules) ==
    [principal |-> <<p>>, permissions |-> 1, quotas |-> QuotasOf(1), record_rules |-> rules]

SmallPolicy ==
    [scope |-> Scope1, version |-> 1, quotas |-> QuotasOf(2),
     grants |-> {GrantOf(1, [r \in 1..3 |-> r]), GrantOf(2, <<>>)}]

TransactionOf(ops, policy) ==
    [operations |-> ops, policy_mutation |-> policy, scope |-> Scope1]

Transactions ==
    [i \in DOMAIN Operations |-> TransactionOf(<<Operations[i]>>, <<>>)]
    \o <<TransactionOf(<<>>, Opt([kind |-> "install", policy |-> SmallPolicy])),
         TransactionOf(<<>>, Opt([kind |-> "replace", expected |-> 1, policy |-> SmallPolicy]))>>

SettledParts(evidence, time) ==
    [evidence |-> evidence, status |-> "accepted", valid_time |-> time,
     correction_of |-> Opt(Ref(5)), recorded_revision |-> 1, modified_revision |-> 2]

StoredRecords ==
    <<[kind |-> "entity", id |-> Ref(1), version |-> 1, lifecycle |-> "active", entity_type |-> "e",
      schema_version |-> 0, properties |-> Body, created_revision |-> 1, modified_revision |-> 2],
     [kind |-> "evidence", id |-> Ref(1), version |-> 1, digest |-> <<1>>, locator |-> "l",
      created_revision |-> 1],
     [kind |-> "assertion", id |-> Ref(1), version |-> 1, subject |-> Ref(2), predicate |-> "p",
      object |-> Body] @@ SettledParts(<<Ref(3), Ref(4)>>, HalfOpen),
     [kind |-> "relationship", id |-> Ref(1), version |-> 1, from |-> Ref(2), to |-> Ref(3),
      relationship_type |-> "r", properties |-> Body] @@ SettledParts(<<>>, Unknown)>>

EnvelopeOf(words, i, r, p, profile) ==
    [original |-> words, interpretation |-> i, resolution |-> r, precision |-> p,
     timezone_profile |-> profile, role |-> "source_event",
     source |-> [artifact |-> Ref(6), artifact_version |-> 1, locator |-> "row"],
     uncertainty |-> <<1, 2>>,
     assumptions |-> <<[authority |-> Ref(7), statement |-> "s"]>>]

Interpreted(scale, unit, offset, zone, fold) ==
    [scale |-> scale, epoch_unit |-> unit, offset |-> offset, zone |-> zone, fold |-> fold]

ResolvedWith(offset) ==
    [status |-> "resolved", reason |-> "accepted", instant |-> <<<<5, 0>>>>, offset |-> <<offset>>]

LeftOpen(status, reason) ==
    [status |-> status, reason |-> reason, instant |-> <<>>, offset |-> <<>>]

Envelopes ==
    <<EnvelopeOf("w", Interpreted("posix_utc", <<>>, <<2>>, <<"summer">>, <<"later">>),
                ResolvedWith(2), <<"fraction_digits", 2>>, <<<<>>>>),
     EnvelopeOf("w", Interpreted("posix_utc", <<"seconds">>, <<>>, <<>>, <<>>),
                ResolvedWith(0), <<"epoch_unit", "seconds">>, <<>>),
     EnvelopeOf("w", Interpreted("posix_utc", <<>>, <<>>, <<>>, <<>>),
                LeftOpen("ambiguous", "date_only_without_policy"), <<"date">>, <<>>),
     EnvelopeOf(EmptyText, Interpreted("unknown", <<>>, <<>>, <<>>, <<>>),
                LeftOpen("missing", "missing_value"), <<"unknown">>, <<>>)>>

Versioned(n) == [record |-> Ref(n), version |-> 1]

Around(kind, body) == [kind |-> kind, body |-> body]

Geometry(g) ==
    Around("geometry",
        [frame |-> Versioned(2), geometry |-> g, id |-> Ref(1),
         predecessor |-> Opt([record |-> Ref(1), version |-> 1]),
         precision |-> [kind |-> "radial", radial_nanometres |-> 1], version |-> 2, world |-> Ref(3)])

SpatialRecords ==
    <<Around("world", [id |-> Ref(1), root_frame |-> Versioned(2), version |-> 1]),
     Around("frame", [coordinate_system |-> "wgs84_lon_lat", id |-> Ref(1),
                      parent |-> Opt([frame |-> Versioned(2), transform |-> Versioned(3)]),
                      version |-> 1, world |-> Ref(4)]),
     Geometry([kind |-> "geographic_point", height |-> Opt(1), latitude |-> 1, longitude |-> -4]),
     Geometry([kind |-> "geographic_point", height |-> <<>>, latitude |-> 2, longitude |-> 0]),
     Geometry([kind |-> "geographic_box", east |-> 1, north |-> 1, south |-> 1, west |-> 3]),
     Geometry([kind |-> "local_box_2", max |-> [x |-> 1, y |-> 2], min |-> [x |-> 1, y |-> 1]]),
     Geometry([kind |-> "local_point_3", x |-> 1, y |-> 2, z |-> 3]),
     Around("observation",
        [correction_of |-> Opt(Ref(2)), entity |-> Ref(3), evidence |-> Ref(6),
         frame |-> Versioned(4), id |-> Ref(1),
         key |-> [event |-> [database |-> <<1>>, event |-> <<1>>, namespace |-> <<2>>],
                  session |-> "s", source |-> Ref(5)],
         position |-> [kind |-> "geographic", height |-> <<>>, latitude |-> 1, longitude |-> 3],
         source_time |-> EnvelopeOf("w", Interpreted("posix_utc", <<>>, <<2>>, <<>>, <<>>),
                                    ResolvedWith(2), <<"second">>, <<>>),
         uncertainty |-> [kind |-> "unknown"], world |-> Ref(7)])>>

(***************************************************************************)
(* Requests.                                                               *)
(***************************************************************************)
At(r) == [scope |-> [database |-> 1, namespace |-> 2], record |-> r]

BlobHere == [id |-> 1, byteLen |-> 3, chunks |-> 2, digest |-> 4]

BindingOf == [evidence |-> At(1), version |-> 1, blob |-> BlobHere @@ [scope |-> At(1).scope]]

CheckpointOf ==
    [job |-> At(2), version |-> 1, source |-> BindingOf, mapping |-> BindingOf @@ [profile |-> 0],
     nextBatch |-> 1, cursor |-> 2, accepted |-> 2, first |-> 1, last |-> 2, status |-> 0,
     chain |-> 1]

BatchOf(spatial) ==
    [job |-> At(2), sequence |-> 1, expected |-> CheckpointOf, start |-> 2,
     rows |-> <<[event |-> At(1), digest |-> 1], [event |-> At(3), digest |-> 1]>>,
     graph |-> <<1>>, spatial |-> spatial, final |-> 1]

ImportOf(kind) == [scope |-> At(1).scope, kind |-> kind]

Imports ==
    <<ImportOf([tag |-> 0, body |-> <<1, 2>>]),
     ImportOf([tag |-> 1, body |-> [tag |-> 0, body |->
        [job |-> At(2), source |-> BindingOf, mapping |-> BindingOf @@ [profile |-> 0],
         graph |-> <<1>>]]]),
     ImportOf([tag |-> 1, body |-> [tag |-> 1, body |-> BatchOf(<<>>)]]),
     ImportOf([tag |-> 1, body |-> [tag |-> 1, body |-> BatchOf(<<<<1>>>>)]])>>

Nothing == <<>>

SourceIdOf(n) == [source |-> n, version |-> 1]

InstantOf(n) == [seconds |-> n, nanos |-> 1]

Bytes == [tag |-> 1, body |-> Nothing, start |-> 1, end |-> 2]

Lines == [tag |-> 2, body |-> [first |-> 1, last |-> 1], start |-> 1, end |-> 2]

FactOf ==
    [id |-> 1, subject |-> <<1>>, predicate |-> <<2>>, value |-> <<>>, links |-> <<3, 2>>,
     source |-> SourceIdOf(1), locator |-> Lines, eventTime |-> Opt(InstantOf(-2))]

HeadOf(tag, body) == [request |-> [tag |-> tag, scope |-> At(1).scope, body |-> body]]

WithGeneration(h) == [h EXCEPT !.request = @ @@ [generation |-> 9]]

Memories ==
    <<WithGeneration(HeadOf(1, 10)),
      WithGeneration(HeadOf(2, [id |-> SourceIdOf(1), blob |-> BlobHere, mediaType |-> <<1>>,
                                exactUtf8 |-> Opt(<<1, 2>>), eventTime |-> <<>>])),
      WithGeneration(HeadOf(3, FactOf)),
      WithGeneration(HeadOf(4, [target |-> 2, fact |-> FactOf])),
      WithGeneration(HeadOf(5, 1)), WithGeneration(HeadOf(6, SourceIdOf(1))),
      WithGeneration(HeadOf(7, Nothing))>>

ContentOf == [blob |-> BlobHere, mediaType |-> <<1>>]

ResearchSourceOf(outcome, content) ==
    [id |-> SourceIdOf(1), kind |-> 5, locator |-> <<1>>, label |-> <<2>>,
     retrievedAt |-> [tag |-> 1, body |-> InstantOf(1)], run |-> 1, route |-> <<1>>,
     outcome |-> outcome, content |-> content, license |-> <<1>>, redistributable |-> 1,
     freshness |-> [tag |-> 2, body |-> 1]]

CitationOf(l, excerpt) ==
    [source |-> SourceIdOf(1), locator |-> l, digest |-> 2, excerpt |-> excerpt]

ClaimOf(support, citations) ==
    [id |-> 1, subject |-> <<1>>, predicate |-> <<1>>, value |-> <<>>, support |-> support,
     citations |-> citations, from |-> Opt(InstantOf(1)), until |-> Opt(InstantOf(2)),
     corrects |-> Opt(2)]

EdgeOf ==
    [id |-> 1, kind |-> 7, source |-> 1, target |-> 2, assertedBy |-> 1, from |-> <<>>,
     until |-> Opt(InstantOf(2))]

ResearchRecords ==
    <<HeadOf(1, ResearchSourceOf([tag |-> 1, body |-> Nothing], Opt(ContentOf))),
     HeadOf(1, ResearchSourceOf([tag |-> 3, body |-> 3], Opt(ContentOf))),
     HeadOf(1, ResearchSourceOf([tag |-> 4, body |-> <<1>>], <<>>)),
     HeadOf(2, [id |-> 1, inputs |-> <<SourceIdOf(1), SourceIdOf(2)>>, producer |-> <<1>>,
                revision |-> <<1>>, configuration |-> 1, content |-> Opt(ContentOf),
                complete |-> 0, limitations |-> <<>>]),
     HeadOf(3, ClaimOf(1, <<CitationOf(Bytes, Opt(<<1>>)), CitationOf(Lines, <<>>)>>)),
     HeadOf(3, ClaimOf(4, <<>>)), HeadOf(4, EdgeOf)>>

Researches ==
    <<WithGeneration(HeadOf(1, 10)), WithGeneration(HeadOf(2, HeadOf(4, EdgeOf))),
     WithGeneration(HeadOf(3, 1)), WithGeneration(HeadOf(4, 1)),
     WithGeneration(HeadOf(5, SourceIdOf(1))), WithGeneration(HeadOf(6, Nothing))>>

(***************************************************************************)
(* Canonical values.                                                       *)
(***************************************************************************)
RefValue(n) == <<"ref", <<1, 2, n>>>>

TextMap == <<"map", <<<<<<1>>, <<"text", <<1>>>>>>>>>>

Frames ==
    <<<<"unsigned", 127>>, <<"signed", -64>>, <<"instant", <<-32, 4>>>>,
     <<"list", <<<<"bytes", <<9, 9>>>>, <<"list", <<<<"bool", TRUE>>>>>>>>>>,
     <<"map", <<<<<<1>>, TextMap>>, <<<<2>>, <<"list", <<RefValue(1), RefValue(2)>>>>>>>>>>,
     <<"map", <<<<<<1>>, <<"map", <<>>>>>>, <<<<2>>, <<"list", <<RefValue(1), <<"null">>>>>>>>>>>>,
     <<"map", <<<<<<1>>, <<"map", <<<<<<>>, <<"null">>>>, <<<<1>>, <<"signed", 1>>>>>>>>>>>>>>,
     <<"map", <<<<<<>>, <<"text", <<1, 2, 3>>>>>>, <<<<2>>, <<"text", <<>>>>>>>>>>>>

AllRecords ==
    [transaction |-> Transactions, stored |-> StoredRecords, envelope |-> Envelopes,
     spatial |-> SpatialRecords, frame |-> Frames, import |-> Imports, memory |-> Memories,
     record |-> ResearchRecords, research |-> Researches]

SmallPool ==
    {<<"null">>, <<"text", "kind">>, <<"text", "unknown">>, <<"text", "unbounded">>,
     <<"text", EmptyText>>, <<"unsigned", 0>>, <<"unsigned", 20>>,
     <<"bytes", <<>>>>, <<"ref", Ref(1)>>, <<"ref", <<<<2, 2>>, 1>>>>,
     <<"list", <<>>>>, <<"map", [kind |-> <<"text", "unknown">>]>>,
     <<"map", [kind |-> <<"text", "unbounded">>]>>}

MapKey == <<1>>

RefsKey == <<2>>

(***************************************************************************)
(* Times: a zone that springs forward and falls back, and zones at the     *)
(* largest offsets.                                                        *)
(***************************************************************************)
SmallZones ==
    [utc |-> [offset |-> 0, transitions |-> <<>>],
     summer |-> [offset |-> 2, transitions |-> <<<<3, 5>>, <<40, 2>>>>],
     east |-> [offset |-> 9, transitions |-> <<>>],
     west |-> [offset |-> -9, transitions |-> <<<<-8, 6>>>>]]

DaySeconds == 0..SecondsPerDay - 1

DayEnds == {0, SecondsPerDay - 1}

CivilAt(y, m, d, s) == [year |-> y, month |-> m, day |-> d, second |-> s]

\* Around the transitions, the epoch and both ends of the calendar; leap days; impossible dates.
Civils ==
    {CivilAt(1970, 1, d, s) : d \in {1, 5, 6}, s \in DaySeconds}
    \cup {CivilAt(1, 1, d, s) : d \in {1, 2}, s \in DayEnds \cup {2}}
    \cup {CivilAt(1969, 12, d, s) : d \in {30, 31}, s \in DayEnds \cup {2}}
    \cup {CivilAt(1970, 1, d, s) : d \in {2, 7}, s \in DayEnds}
    \cup {CivilAt(y, 2, d, 3) : y \in {1900, 2000, 2024}, d \in 28..30}
    \cup {CivilAt(9999, 12, 31, s) : s \in DayEnds \cup {2}}
    \cup {CivilAt(y, m, 1, 0) : y \in {0, 1999, 2001}, m \in {0, 3, 13}}

FewCivils == {c \in Civils : c.year = 1970 /\ c.day = 1 /\ c.second < 2}

TextOf(c, layout, leap, digits, nanos, suffix) ==
    [layout |-> layout, time |-> c, leap |-> leap, digits |-> digits, nanos |-> nanos,
     suffix |-> suffix]

PlainText(c, suffix) == TextOf(c, TRUE, FALSE, 0, 0, suffix)

OptionalOf(S) == {<<>>} \cup {<<x>> : x \in S}

LocalRequests(texts, zones, offsets, folds) ==
    {[kind |-> "local", text |-> t, zone |-> z, offset |-> o, fold |-> f] :
        t \in texts, z \in OptionalOf(zones), o \in OptionalOf(offsets), f \in OptionalOf(folds)}

\* The ends of the calendar: 719162 days before the epoch and 2932897 days after it.
FirstSecond == -719162 * SecondsPerDay

LastSecond == 2932897 * SecondsPerDay - 1

SmallRequests ==
    {[kind |-> "missing"]}
    \cup {[kind |-> "rfc3339", text |-> PlainText(c, s)] :
            c \in Civils, s \in {<<"Z">>, <<"offset", 6>>, <<"offset", -6>>, <<"unknown">>}}
    \cup {[kind |-> "rfc3339", text |-> TextOf(c, l, p, d, 1, s)] :
            c \in FewCivils, l \in BOOLEAN, p \in BOOLEAN, d \in {1, 9, 10},
            s \in {<<"Z">>, <<"offset", 2>>, <<"unknown">>, <<"none">>}}
    \cup {[kind |-> "numeric", value |-> v, unit |-> u, scale |-> s] :
            v \in {-9, -1, 0, 1, 7, FirstSecond, FirstSecond - 1, LastSecond, LastSecond + 1},
            u \in OptionalOf({"seconds", "milliseconds", "microseconds", "nanoseconds"}),
            s \in {"posix_utc", "tai", "unknown"}}
    \cup LocalRequests({PlainText(c, <<"none">>) : c \in Civils}, DOMAIN SmallZones, {2},
                       {"earlier", "later"})
    \cup LocalRequests({TextOf(c, l, p, 1, 1, s) : c \in FewCivils, l \in BOOLEAN, p \in BOOLEAN,
                                                  s \in {<<"none">>, <<"Z">>}},
                       {"summer", "nowhere"}, {0, 3, 5, 8}, {"earlier"})
    \cup {[kind |-> "date", text |-> TextOf(c, l, FALSE, 0, 0, <<"none">>)] :
            c \in Civils, l \in BOOLEAN}
=============================================================================
