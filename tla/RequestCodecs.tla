--------------------------- MODULE RequestCodecs ---------------------------
(***************************************************************************)
(* The byte layouts of the requests that reach the journal from outside    *)
(* the graph: import transactions (uste-ingest codec.rs and model.rs),     *)
(* memory transactions (uste-memory state.rs), research records            *)
(* (research.rs) and research transactions (research/state.rs).  In the    *)
(* memory formats every reference has the scope of the header, and only    *)
(* its record is written.                                                  *)
(***************************************************************************)
EXTENDS Integers, Sequences, SequencesExt, FiniteSets, TLC, Forms

CONSTANTS
    Base,              \* how many byte values there are
    NotUtf8,           \* a byte no text contains
    MaxText,           \* the longest text of every field
    MaxItems,          \* the most rows, links, inputs and citations
    MaxRows,           \* MAX_IMPORT_ROWS
    MaxBlobBytes, BlobChunkBytes,
    MaxSourceBytes,    \* maximum_source_bytes_per_version
    MaxSeconds, NanosPerSecond,
    MaxRequestBytes

(***************************************************************************)
(* What the constructors admit.                                            *)
(***************************************************************************)
\* valid_reference_shape.
BlobShape(b) ==
    /\ b.byteLen <= MaxBlobBytes /\ b.id # 0
    /\ b.chunks = (b.byteLen + BlobChunkBytes - 1) \div BlobChunkBytes

\* SourceBinding::new and MappingBinding::new.
BindingFits(b) == b.version # 0 /\ b.blob.scope = b.evidence.scope

\* ImportCheckpoint::from_parts, ImportCursor::new and CommitRevision::new.
CheckpointFits(c) ==
    /\ c.accepted <= MaxRows /\ c.accepted = c.cursor
    /\ c.first \in 1..c.last
    /\ c.version # 0 /\ c.nextBatch # 0

\* ImportBatch::new and ImportBatchId::new.
BatchFits(b) ==
    /\ b.sequence # 0 /\ b.start <= MaxRows
    /\ b.job = b.expected.job /\ b.start = b.expected.cursor /\ b.graph # <<>>

\* UtcInstant::new.
InstantFits(i) == i.seconds \in -MaxSeconds..MaxSeconds /\ i.nanos < NanosPerSecond

Before(a, b) == a.seconds < b.seconds \/ (a.seconds = b.seconds /\ a.nanos < b.nanos)

\* validate_interval.
IntervalFits(x) == x.from # <<>> /\ x.until # <<>> => Before(x.from[1], x.until[1])

\* validate_content, for content that is there.
ContentFits(content) ==
    \A i \in DOMAIN content :
        content[i].blob.byteLen <= MaxSourceBytes /\ content[i].mediaType # <<>>

\* validate_source: what was fetched, and how that went.
OutcomeFits(s) ==
    CASE s.outcome.tag = 4 -> s.content = <<>> /\ s.outcome.body # <<>>
      [] s.outcome.tag = 3 -> /\ s.content # <<>> /\ s.outcome.body # 0
                              /\ s.content[1].blob.byteLen <= s.outcome.body
      [] s.outcome.tag = 2 -> s.content # <<>> /\ s.outcome.body # <<>>
      [] s.outcome.tag = 1 -> s.content # <<>>

SourceFits(s) ==
    /\ s.id.version # 0
    /\ \A t \in {s.locator, s.label, s.route, s.license} : t # <<>>
    /\ OutcomeFits(s) /\ ContentFits(s.content)
    /\ s.freshness.tag = 2 => s.freshness.body # 0

VersionBefore(a, b) == a.source < b.source \/ (a.source = b.source /\ a.version < b.version)

ArtifactFits(a) ==
    /\ a.inputs # <<>>
    /\ \A i \in DOMAIN a.inputs : a.inputs[i].version # 0
    /\ \A i \in 1..Len(a.inputs) - 1 : VersionBefore(a.inputs[i], a.inputs[i + 1])
    /\ a.producer # <<>> /\ a.revision # <<>>
    /\ ContentFits(a.content)

\* validate_locator; the two kinds share the order of their first fields.
LocatorFits(l) ==
    /\ l.start < l.end
    /\ l.tag = 2 => l.body.first >= 1 /\ l.body.first <= l.body.last

\* A digest that tells the texts of the model apart well enough.
Sha256(text) == FoldLeft(LAMBDA n, b : n + b, 1, text) % Base

CitationFits(c) ==
    /\ c.source.version # 0 /\ LocatorFits(c.locator)
    /\ c.excerpt # <<>> => c.excerpt[1] # <<>> /\ Sha256(c.excerpt[1]) = c.digest

ClaimFits(c) ==
    /\ c.subject # <<>> /\ c.predicate # <<>>
    /\ c.support = 4 <=> c.citations = <<>>
    /\ \A i \in DOMAIN c.citations :
        /\ CitationFits(c.citations[i])
        /\ \A j \in 1..i - 1 : \/ c.citations[j].source # c.citations[i].source
                               \/ c.citations[j].locator # c.citations[i].locator
    /\ IntervalFits(c)
    /\ c.corrects # <<c.id>>

AdmitsRequest(check, x) ==
    CASE check = "none" -> TRUE
      [] check = "nonzero version" -> x.version # 0
      [] check = "blob" -> BlobShape(x)
      [] check = "binding" -> BindingFits(x)
      [] check = "checkpoint" -> CheckpointFits(x)
      [] check = "batch" -> BatchFits(x)
      [] check = "start" -> x.graph # <<>>
      [] check = "instant" -> InstantFits(x)
      [] check = "source" -> SourceFits(x)
      [] check = "artifact" -> ArtifactFits(x)
      [] check = "claim" -> ClaimFits(x)
      [] check = "edge" -> x.source # x.target /\ IntervalFits(x)
      [] check = "put" -> x.tag = 2 => x.body.request.scope = x.scope

(***************************************************************************)
(* Requests written to bytes and read back with a cursor, by their layout  *)
(* (encode_* and the three Cursor types of uste-ingest and uste-memory).   *)
(* Put writes a value and Get reads one from the front of the input.  All  *)
(* errors are one refusal.                                                 *)
(***************************************************************************)
Digits(n, w) == [i \in 1..w |-> (n \div Base^(w - i)) % Base]

RECURSIVE Put(_, _)

PutPart(part, x) ==
    IF part.of.form = "constant" THEN <<part.of.byte>> ELSE Put(part.of, x[part.name])

PutParts(parts, x) == FlattenSeq([i \in DOMAIN parts |-> PutPart(parts[i], x)])

Put(l, x) ==
    CASE l.form \in {"number", "signed"} -> Digits(x, l.width)
      [] l.form = "among" -> <<x>>
      [] l.form \in {"text", "frame"} -> Digits(Len(x), 2) \o x
      [] l.form = "many" ->
            Digits(Len(x), l.width) \o PutParts(l.padding, x)
            \o FlattenSeq([i \in DOMAIN x |-> Put(l.of, x[i])])
      [] l.form = "parts" -> PutParts(l.parts, x)
      [] l.form = "maybe" ->
            IF x = <<>> THEN <<0>> \o PutParts(l.padding, x)
            ELSE <<1>> \o PutParts(l.padding, x) \o Put(l.of, x[1])
      [] l.form = "tagged" ->
            <<x.tag>> \o PutParts(l.shared, x) \o Put(l.cases[x.tag], x.body)
      [] l.form = "sized" -> LET inner == Put(l.of, x) IN Digits(Len(inner), l.width) \o inner

(***************************************************************************)
(* Reading.                                                                *)
(***************************************************************************)
Refuse == [ok |-> FALSE, value |-> <<>>, rest |-> <<>>]

Took(value, rest) == [ok |-> TRUE, value |-> value, rest |-> rest]

\* Cursor::take.
Take(s, n) ==
    IF n > Len(s) THEN Refuse ELSE Took(SubSeq(s, 1, n), SubSeq(s, n + 1, Len(s)))

\* The ? operator: what follows a part that was read.
Then(g, Next(_, _)) == IF g.ok THEN Next(g.value, g.rest) ELSE g

Unsigned(digits) == FoldLeft(LAMBDA n, d : n * Base + d, 0, digits)

GetNumber(w, s) == Then(Take(s, w), LAMBDA digits, rest : Took(Unsigned(digits), rest))

\* Two's complement.
GetSigned(w, s) ==
    Then(GetNumber(w, s),
         LAMBDA n, rest : Took(IF 2 * n >= Base^w THEN n - Base^w ELSE n, rest))

\* Cursor::zeros and the comparisons of magic, version and reserved bytes.
GetConstant(byte, s) ==
    Then(Take(s, 1), LAMBDA b, rest : IF b = <<byte>> THEN Took(b, rest) ELSE Refuse)

GetAmong(members, s) ==
    Then(GetNumber(1, s), LAMBDA n, rest : IF n \in members THEN Took(n, rest) ELSE Refuse)

\* Cursor::string and Cursor::frame.
GetBytes(s) == Then(GetNumber(2, s), LAMBDA n, rest : Take(rest, n))

GetText(max, s) ==
    Then(GetBytes(s),
         LAMBDA t, rest : IF Len(t) <= max /\ NotUtf8 \notin {t[i] : i \in DOMAIN t}
                          THEN Took(t, rest) ELSE Refuse)

RECURSIVE Get(_, _)

\* What is held once a part is read; constants are not kept.
Kept(value, part, x) ==
    IF part.of.form = "constant" THEN value ELSE (part.name :> x) @@ value

RECURSIVE GetParts(_, _, _)

GetParts(parts, value, s) ==
    IF parts = <<>> THEN Took(value, s)
    ELSE Then(Get(Head(parts).of, s),
              LAMBDA x, rest : GetParts(Tail(parts), Kept(value, Head(parts), x), rest))

GetShared(parts, s) == GetParts(parts, <<>>, s)

GetItem(of, acc) ==
    Then(acc, LAMBDA items, s :
        Then(Get(of, s), LAMBDA x, rest : Took(Append(items, x), rest)))

GetMany(l, s) ==
    Then(GetNumber(l.width, s), LAMBDA n, after :
        Then(GetShared(l.padding, after), LAMBDA none, rest :
            IF n \in l.min..l.max
            THEN FoldLeft(LAMBDA acc, i : GetItem(l.of, acc), Took(<<>>, rest), [i \in 1..n |-> i])
            ELSE Refuse))

Admitted(check, g) ==
    Then(g, LAMBDA x, rest : IF AdmitsRequest(check, x) THEN Took(x, rest) ELSE Refuse)

GetMaybe(l, s) ==
    Then(GetAmong({0, 1}, s), LAMBDA present, after :
        Then(GetShared(l.padding, after), LAMBDA none, body :
            IF present = 0 THEN Took(<<>>, body)
            ELSE Then(Get(l.of, body), LAMBDA x, rest : Took(<<x>>, rest))))

GetTagged(l, s) ==
    Then(GetAmong(DOMAIN l.cases, s), LAMBDA tag, after :
        Then(GetShared(l.shared, after), LAMBDA shared, body :
            Then(Get(l.cases[tag], body), LAMBDA x, rest :
                Took([tag |-> tag, body |-> x] @@ shared, rest))))

GetSized(l, s) ==
    Then(GetNumber(l.width, s), LAMBDA n, after :
        Then(Take(after, n), LAMBDA inner, rest :
            Then(Get(l.of, inner), LAMBDA x, left :
                IF left = <<>> THEN Took(x, rest) ELSE Refuse)))

Get(l, s) ==
    CASE l.form = "number" -> GetNumber(l.width, s)
      [] l.form = "signed" -> GetSigned(l.width, s)
      [] l.form = "text" -> GetText(l.max, s)
      [] l.form = "frame" -> GetBytes(s)
      [] l.form = "many" -> GetMany(l, s)
      [] l.form = "constant" -> GetConstant(l.byte, s)
      [] l.form = "among" -> GetAmong(l.members, s)
      [] l.form = "parts" -> Admitted(l.check, GetShared(l.parts, s))
      [] l.form = "maybe" -> GetMaybe(l, s)
      [] l.form = "tagged" -> Admitted(l.check, GetTagged(l, s))
      [] l.form = "sized" -> GetSized(l, s)

\* A whole request: nothing may remain.
GetAll(l, s) ==
    Then(Get(l, s), LAMBDA x, rest : IF rest = <<>> THEN Took(x, rest) ELSE Refuse)

(***************************************************************************)
(* Parts the formats share.                                                *)
(***************************************************************************)
Id == Number(1)

U64 == Number(2)

U32 == Number(2)

Bool == Among({0, 1})

Scope == Parts("none", <<Named("database", Id), Named("namespace", Id)>>)

\* encode_record_ref and encode_source_event.
Ref == Parts("none", <<Named("scope", Scope), Named("record", Id)>>)

Instant == Parts("instant", <<Named("seconds", SignedNumber(2)), Named("nanos", U32)>>)

\* A blob as the memory formats write it, in the scope of the header.
BlobParts ==
    <<Named("id", Id), Named("byteLen", U64), Named("chunks", U32), Named("digest", Id)>>

Str == String(MaxText)

(***************************************************************************)
(* Import transactions.                                                    *)
(***************************************************************************)
\* encode_blob.
Blob == Parts("blob",
    <<Named("scope", Scope), Named("id", Id), Named("byteLen", U64), Named("chunks", U32),
      Padding, Named("digest", Id)>>)

\* encode_source and encode_mapping, the latter with its profile.
BindingParts == <<Named("evidence", Ref), Named("version", U64), Named("blob", Blob)>>

SourceBinding == Parts("binding", BindingParts)

MappingBinding == Parts("binding", BindingParts \o <<Named("profile", Among({0})), Padding>>)

Checkpoint == Parts("checkpoint",
    <<Named("job", Ref), Named("version", U64), Named("source", SourceBinding),
      Named("mapping", MappingBinding), Named("nextBatch", U64), Named("cursor", U64),
      Named("accepted", U64), Named("first", U64), Named("last", U64),
      Named("status", Bool), Padding, Named("chain", Id)>>)

\* The count of the rows has padding between it and the rows.
Row == Parts("none", <<Named("event", Ref), Named("digest", Id)>>)

Batch == Parts("batch",
    <<Named("job", Ref), Named("sequence", U64), Named("expected", Checkpoint),
      Named("start", U64), Named("rows", Many(2, <<Padding>>, 1, MaxItems, Row)),
      Named("graph", Frame), Named("spatial", Maybe(<<Padding>>, Frame)),
      Named("final", Bool), Padding>>)

Start == Parts("start",
    <<Named("job", Ref), Named("source", SourceBinding), Named("mapping", MappingBinding),
      Named("graph", Frame)>>)

ImportTransaction == Parts("none",
    <<Named("magic", Constant(1)), Named("scope", Scope),
      Named("kind", Tagged("none", <<Padding>>,
          (0 :> Frame) @@ (1 :> Tagged("none", <<Padding>>, (0 :> Start) @@ (1 :> Batch)))))>>)

(***************************************************************************)
(* Memory transactions.                                                    *)
(***************************************************************************)
SourceId == Parts("none", <<Named("source", Id), Named("version", U32)>>)

Locator == Tagged("none", <<Named("start", U64), Named("end", U64)>>,
    (1 :> Empty) @@ (2 :> Parts("none", <<Named("first", U32), Named("last", U32)>>)))

MemorySource == Parts("none",
    <<Named("id", SourceId), Named("blob", Parts("blob", BlobParts)), Named("mediaType", Str),
      Named("exactUtf8", Maybe(<<>>, Str)), Named("eventTime", Maybe(<<>>, Instant))>>)

Fact == Parts("none",
    <<Named("id", Id), Named("subject", Str), Named("predicate", Str), Named("value", Str),
      Named("links", Many(2, <<>>, 0, MaxItems, Id)), Named("source", SourceId),
      Named("locator", Locator), Named("eventTime", Maybe(<<>>, Instant))>>)

\* The version bytes, the tag of the body, a reserved byte and the scope, then the generation.
Framed(check, magic, shared, cases) == Parts("none",
    <<Named("magic", Constant(magic)), Named("major", Constant(1)), Named("minor", Constant(0)),
      Named("request", Tagged(check, <<Padding, Named("scope", Scope)>> \o shared, cases))>>)

Generation == <<Named("generation", U64)>>

MemoryTransaction == Framed("none", 2, Generation,
    <<Number(2), MemorySource, Fact,
      Parts("none", <<Named("target", Id), Named("fact", Fact)>>), Id, SourceId, Empty>>)

(***************************************************************************)
(* Research records and transactions.                                      *)
(***************************************************************************)
Content == Maybe(<<>>, Parts("none",
    <<Named("blob", Parts("blob", BlobParts)), Named("mediaType", Str)>>))

Validity == <<Named("from", Maybe(<<>>, Instant)), Named("until", Maybe(<<>>, Instant))>>

\* retrieved_at is written like an optional instant and must be there.
Retrieved == Tagged("none", <<>>, 1 :> Instant)

ResearchSource == Parts("source",
    <<Named("id", SourceId), Named("kind", Among(1..5)), Named("locator", Str),
      Named("label", Str), Named("retrievedAt", Retrieved), Named("run", Id),
      Named("route", Str), Named("outcome", Tagged("none", <<>>, <<Empty, Str, U64, Str>>)),
      Named("content", Content), Named("license", Str), Named("redistributable", Bool),
      Named("freshness", Tagged("none", <<>>, <<Empty, U64>>))>>)

Artifact == Parts("artifact",
    <<Named("id", Id), Named("inputs", Many(1, <<>>, 0, MaxItems, SourceId)),
      Named("producer", Str), Named("revision", Str), Named("configuration", Id),
      Named("content", Content), Named("complete", Bool), Named("limitations", Str)>>)

Citation == Parts("none",
    <<Named("source", SourceId), Named("locator", Locator), Named("digest", Id),
      Named("excerpt", Maybe(<<>>, Str))>>)

Claim == Parts("claim",
    <<Named("id", Id), Named("subject", Str), Named("predicate", Str), Named("value", Str),
      Named("support", Among(1..4)), Named("citations", Many(1, <<>>, 0, MaxItems, Citation))>>
    \o Validity \o <<Named("corrects", Maybe(<<>>, Id))>>)

Edge == Parts("edge",
    <<Named("id", Id), Named("kind", Among(1..7)), Named("source", Id), Named("target", Id),
      Named("assertedBy", Id)>> \o Validity)

ResearchRecord == Framed("none", 3, <<>>, <<ResearchSource, Artifact, Claim, Edge>>)

ResearchTransaction == Framed("put", 4, Generation,
    <<Number(2), Sized(2, ResearchRecord), Id, Id,
      Parts("nonzero version", <<Named("source", Id), Named("version", U32)>>), Empty>>)

(***************************************************************************)
(* The decoders: a request that is too long is refused unread, and the     *)
(* import decoder compares the bytes with its own encoding at the end.     *)
(***************************************************************************)
LayoutOf ==
    [import |-> ImportTransaction, memory |-> MemoryTransaction, record |-> ResearchRecord,
     research |-> ResearchTransaction]

DecodeRequest(format, bytes) ==
    LET g == IF Len(bytes) > MaxRequestBytes THEN Refuse ELSE GetAll(LayoutOf[format], bytes)
    IN IF g.ok /\ format = "import" /\ Put(LayoutOf[format], g.value) # bytes THEN Refuse ELSE g
=============================================================================
