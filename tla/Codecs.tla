------------------------------- MODULE Codecs -------------------------------
(***************************************************************************)
(* Every byte string the database keeps or accepts, written and read: the  *)
(* canonical values (ValueCodec), the graph, time and spatial records they *)
(* carry (GraphCodec, TimeEnvelope, SpatialCodec), and the requests with   *)
(* byte layouts of their own (RequestCodecs).  Digests, idempotency and    *)
(* index keys are taken over those bytes, so two spellings of one record   *)
(* would be two records.                                                   *)
(*                                                                         *)
(* A behaviour starts with the encoding of a valid record and edits it, or *)
(* grows a payload byte by byte.                                           *)
(***************************************************************************)
EXTENDS Integers, Sequences, SequencesExt, FiniteSets, TLC

CONSTANTS
    Records,       \* for every format, a list of the records a behaviour may start from
    Pool,          \* the values an edit puts in the place of another
    MaxEdits, MaxGrown

CONSTANTS MaxU64, MaxU32, HardCap, PermissionMask, MaxInlineBytes, MaxPrincipals, MaxRules

CONSTANTS MaxOffset, MaxEffective, MaxDigits, MaxDetail, MaxCount, MaxAssumptions, EmptyText

CONSTANTS HalfTurn, QuarterTurn

CONSTANTS Base, NotUtf8, MaxText, MaxItems, MaxRows, MaxBlobBytes, BlobChunkBytes,
          MaxSourceBytes, MaxSeconds, NanosPerSecond, MaxRequestBytes

CONSTANTS MaxInline, MaxCollection, MaxNesting, MaxNodes, MaxValuePayload, MapField, RefsField

VARIABLES
    format,   \* whose encoding is under test
    input,    \* a canonical value, or a sequence of bytes
    edits     \* how far it is from the encoding of a record

codecVars == <<format, input, edits>>

G == INSTANCE GraphCodec

T == INSTANCE TimeEnvelope

S == INSTANCE SpatialCodec

R == INSTANCE RequestCodecs

V == INSTANCE ValueCodec

(***************************************************************************)
(* The encoders and the decoders, by format.                               *)
(***************************************************************************)
ValueFormats == {"transaction", "stored", "envelope", "spatial"}

RequestFormats == {"import", "memory", "record", "research"}

EncodeOf(f, x) ==
    CASE f = "transaction" -> G!Encode(G!Transaction, x)
      [] f = "stored" -> G!Encode(G!StoredRecord, x)
      [] f = "envelope" -> T!Encode(T!EnvelopeForm, x)
      [] f = "spatial" -> S!Encode(S!SpatialRecord, x)
      [] f = "frame" -> V!EncodeValue(x)
      [] f \in RequestFormats -> R!Put(R!LayoutOf[f], x)

DecodeOf(f, v) ==
    CASE f = "transaction" -> G!Decode(G!Transaction, v)
      [] f = "stored" -> G!Decode(G!StoredRecord, v)
      [] f = "envelope" -> T!Decode(T!EnvelopeForm, v)
      [] f = "spatial" -> S!Decode(S!SpatialRecord, v)

(***************************************************************************)
(* Edits.                                                                  *)
(***************************************************************************)
Swapped(s, i) == [s EXCEPT ![i] = s[i + 1], ![i + 1] = s[i]]

\* One item of a sequence removed, repeated, or exchanged with the next.
Rearranged(s) ==
    {RemoveAt(s, i) : i \in DOMAIN s}
    \cup {InsertAt(s, i, s[i]) : i \in DOMAIN s}
    \cup {Swapped(s, i) : i \in 1..Len(s) - 1}

\* The last bytes of one byte value moved to the front of the next.
Repartitioned(s) ==
    UNION {{[s EXCEPT ![i] = <<"bytes", SubSeq(@[2], 1, n)>>,
                      ![i + 1] = <<"bytes", SubSeq(s[i][2], n + 1, Len(s[i][2])) \o @[2]>>] :
                n \in 0..Len(s[i][2]) - 1} :
           i \in {i \in 1..Len(s) - 1 : s[i][1] = "bytes" /\ s[i + 1][1] = "bytes"}}

RECURSIVE Edited(_)

EditedMap(m) ==
    UNION {{[m EXCEPT ![n] = x] : x \in Edited(m[n])} : n \in DOMAIN m}
    \cup {[k \in DOMAIN m \ {n} |-> m[k]] : n \in DOMAIN m}
    \cup {("extra" :> <<"null">>) @@ m}

EditedList(s) ==
    UNION {{[s EXCEPT ![i] = x] : x \in Edited(s[i])} : i \in DOMAIN s}
    \cup Rearranged(s) \cup Repartitioned(s)

EditedBytes(s) ==
    Rearranged(s) \cup {[s EXCEPT ![i] = b] : i \in DOMAIN s, b \in 0..1}

\* The values one edit away from v.
Edited(v) ==
    (Pool \ {v}) \cup
    (CASE v[1] = "unsigned" -> {<<v[1], n>> : n \in {v[2] + 1, v[2] - 1} \ {-1}}
       [] v[1] = "signed" -> {<<v[1], n>> : n \in {v[2] + 1, v[2] - 1, -v[2]}}
       [] v[1] = "bytes" -> {<<v[1], s>> : s \in EditedBytes(v[2])}
       [] v[1] = "list" -> {<<v[1], s>> : s \in EditedList(v[2])}
       [] v[1] = "map" -> {<<v[1], m>> : m \in EditedMap(v[2])}
       [] OTHER -> {})

ByteValues == IF format = "frame" THEN 0..2 * V!Group - 1 ELSE 0..Base - 1

CodecInit ==
    \/ /\ format \in DOMAIN Records /\ edits = 0
       /\ \E i \in DOMAIN Records[format] : input = EncodeOf(format, Records[format][i])
    \/ format = "payload" /\ input = <<>> /\ edits = 0

EditValue ==
    /\ format \in ValueFormats /\ edits < MaxEdits
    /\ input' \in Edited(input)
    /\ edits' = edits + 1 /\ UNCHANGED format

EditBytes ==
    /\ format \in RequestFormats \cup {"frame"} /\ edits < MaxEdits
    /\ \E b \in ByteValues : \E i \in 1..Len(input) + 1 :
        input' \in {InsertAt(input, i, b)}
                   \cup (IF i > Len(input) THEN {}
                         ELSE {RemoveAt(input, i), [input EXCEPT ![i] = b]})
    /\ edits' = edits + 1 /\ UNCHANGED format

GrowPayload ==
    /\ format = "payload" /\ Len(input) < MaxGrown
    /\ \E b \in 0..2 * V!Group - 1 : input' = Append(input, b)
    /\ UNCHANGED <<format, edits>>

CodecNext == EditValue \/ EditBytes \/ GrowPayload

(***************************************************************************)
(* The property.                                                           *)
(***************************************************************************)
SameOutcome(a, b) == a.error = b.error /\ (a.error = <<"none">> => a.value = b.value)

ValueIsCanonical(r) ==
    /\ r.error = <<"none">> => EncodeOf(format, r.value) = input
    /\ edits = 0 => r.error = <<"none">>
    /\ format = "stored" => SameOutcome(G!DecodeStored(input), r)

RequestIsCanonical(parsed) ==
    /\ parsed.ok => R!Put(R!LayoutOf[format], parsed.value) = input
    /\ edits = 0 => R!DecodeRequest(format, input).ok

FrameIsCanonical(frame, whole, parts) ==
    /\ V!ReadIsCanonical(frame, whole) /\ V!ReadersAgree(whole, parts)
    /\ format = "frame" /\ edits = 0 => whole.error = "none"

FrameOf(payload) == V!Header \o V!Uleb(Len(payload)) \o payload

InputIsCanonical(frame) ==
    FrameIsCanonical(frame, V!DecodeValue(frame), V!VisitBorrowedMap(frame))

\* decode_transaction, decode_stored_record, envelope_from_value, record_from_value,
\* decode_value and the request decoders: input that is accepted is exactly the
\* encoding of what it was decoded to, so no record has two spellings; every record
\* that is written can be read back; and the decoder of stored records that borrows
\* from its input gives the value or the error of the one that copies.
CodecsAreCanonical ==
    /\ format \in ValueFormats => ValueIsCanonical(DecodeOf(format, input))
    /\ format \in RequestFormats => RequestIsCanonical(R!GetAll(R!LayoutOf[format], input))
    /\ format \in {"frame", "payload"} =>
         InputIsCanonical(IF format = "frame" THEN input ELSE FrameOf(input))
=============================================================================
