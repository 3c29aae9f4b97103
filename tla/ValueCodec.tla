---------------------------- MODULE ValueCodec ----------------------------
(***************************************************************************)
(* The canonical encoding of generic values (uste-types codec.rs): the     *)
(* frame, the payload, the shortest-form integers, and the two ways to     *)
(* read a map, into an owned value and into parts borrowed from the input. *)
(* A byte has four bits, an integer group three and the widest integer     *)
(* seven (for 8, 7 and 128), so that every limit is a byte or two away;    *)
(* an identity is its tag and one byte.  A map is the sequence of its      *)
(* entries.                                                                *)
(***************************************************************************)
EXTENDS Integers, Sequences, SequencesExt

CONSTANTS
    MaxInline, MaxCollection, MaxNesting, MaxNodes, MaxValuePayload,
    NotUtf8,             \* a byte no text contains
    MapField, RefsField  \* the keys whose values are read without an owned copy

Group == 8

MaxGroups == 3

\* What is left of the widest integer for its last group.
LastGroup == 1

SignedMax == 63

UsizeMax == 31

Nanos == 5

DatabaseTag == 1
NamespaceTag == 2
RecordTag == 3

(***************************************************************************)
(* What the constructors of a value admit.  The decoder builds lists and   *)
(* maps with from_decoded, which does not look again.                      *)
(***************************************************************************)
\* Byte strings in the order of their bytes.
RECURSIVE BytesBefore(_, _)
BytesBefore(a, b) ==
    IF a = <<>> \/ b = <<>> THEN a = <<>> /\ b # <<>>
    ELSE Head(a) < Head(b) \/ (Head(a) = Head(b) /\ BytesBefore(Tail(a), Tail(b)))

Children(v) ==
    CASE v[1] = "list" -> v[2]
      [] v[1] = "map" -> [i \in DOMAIN v[2] |-> v[2][i][2]]
      [] OTHER -> <<>>

\* validate_limits: every value is a node, and only containers are a level.
RECURSIVE Nodes(_)
Nodes(v) == FoldLeft(LAMBDA n, x : n + Nodes(x), 1, Children(v))

RECURSIVE WithinDepth(_, _)
WithinDepth(v, depth) ==
    v[1] \in {"list", "map"} =>
        /\ depth < MaxNesting
        /\ \A i \in DOMAIN Children(v) : WithinDepth(Children(v)[i], depth + 1)

\* BoundedList::new and CanonicalMap::new, at every level.
RECURSIVE CollectionsFit(_)
CollectionsFit(v) ==
    /\ Len(Children(v)) <= MaxCollection
    /\ v[1] = "map" => \A i \in 1..Len(v[2]) - 1 : BytesBefore(v[2][i][1], v[2][i + 1][1])
    /\ \A i \in DOMAIN Children(v) : CollectionsFit(Children(v)[i])

IsValue(v) == Nodes(v) <= MaxNodes /\ WithinDepth(v, 0) /\ CollectionsFit(v)

(***************************************************************************)
(* Writing: encode_payload, and payload_len, which the frame declares.     *)
(***************************************************************************)
RECURSIVE Uleb(_)
Uleb(n) == IF n < Group THEN <<n>> ELSE <<Group + (n % Group)>> \o Uleb(n \div Group)

RECURSIVE UlebLen(_)
UlebLen(n) == IF n < Group THEN 1 ELSE 1 + UlebLen(n \div Group)

Magnitude(n) == IF n < 0 THEN -n ELSE n

Signed(n) == <<IF n < 0 THEN 1 ELSE 0>> \o Uleb(Magnitude(n))

Identity(tag, id) == <<tag, id>>

Counted(s) == Uleb(Len(s)) \o s

RECURSIVE EncodePayload(_)
EncodePayload(v) ==
    CASE v[1] = "null" -> <<0>>
      [] v[1] = "bool" -> <<IF v[2] THEN 2 ELSE 1>>
      [] v[1] = "unsigned" -> <<3>> \o Uleb(v[2])
      [] v[1] = "signed" -> <<4>> \o Signed(v[2])
      [] v[1] = "bytes" -> <<5>> \o Counted(v[2])
      [] v[1] = "text" -> <<6>> \o Counted(v[2])
      [] v[1] = "list" ->
            <<7>> \o Uleb(Len(v[2]))
            \o FlattenSeq([i \in DOMAIN v[2] |-> EncodePayload(v[2][i])])
      [] v[1] = "map" ->
            <<8>> \o Uleb(Len(v[2]))
            \o FlattenSeq([i \in DOMAIN v[2] |-> Counted(v[2][i][1]) \o EncodePayload(v[2][i][2])])
      [] v[1] = "instant" -> <<9>> \o Signed(v[2][1]) \o Uleb(v[2][2])
      [] v[1] = "ref" -> <<10>> \o Identity(DatabaseTag, v[2][1])
                         \o Identity(NamespaceTag, v[2][2]) \o Identity(RecordTag, v[2][3])

CountedLen(s) == UlebLen(Len(s)) + Len(s)

RECURSIVE PayloadLen(_)
PayloadLen(v) ==
    1 + CASE v[1] \in {"null", "bool"} -> 0
          [] v[1] = "unsigned" -> UlebLen(v[2])
          [] v[1] = "signed" -> 1 + UlebLen(Magnitude(v[2]))
          [] v[1] \in {"bytes", "text"} -> CountedLen(v[2])
          [] v[1] = "list" ->
                FoldLeft(LAMBDA n, x : n + PayloadLen(x), UlebLen(Len(v[2])), v[2])
          [] v[1] = "map" ->
                FoldLeft(LAMBDA n, e : n + CountedLen(e[1]) + PayloadLen(e[2]),
                         UlebLen(Len(v[2])), v[2])
          [] v[1] = "instant" -> 1 + UlebLen(Magnitude(v[2][1])) + UlebLen(v[2][2])
          [] v[1] = "ref" -> 3 * 2

\* Magic, record kind, major and minor.
Header == <<11, 1, 1, 0>>

EncodeValue(v) == Header \o Uleb(PayloadLen(v)) \o EncodePayload(v)

(***************************************************************************)
(* Reading.  A reader is the input, a position, the nodes used so far, and *)
(* the value last read or the error that ended the reading.                *)
(***************************************************************************)
Reader(s) == [input |-> s, at |-> 0, nodes |-> 0, error |-> "none", value |-> <<>>]

Fail(r, error) == [r EXCEPT !.error = error]

Return(r, value) == [r EXCEPT !.value = value]

Then(r, Do(_)) == IF r.error = "none" THEN Do(r) ELSE r

Remaining(r) == Len(r.input) - r.at

Byte(r) ==
    IF Remaining(r) = 0 THEN Fail(r, "eof")
    ELSE [r EXCEPT !.at = @ + 1, !.value = r.input[r.at + 1]]

\* Cursor::peek: the next byte, or 16 where there is none.
Peek(r) == IF Remaining(r) = 0 THEN 16 ELSE r.input[r.at + 1]

TakeBytes(r, n) ==
    IF Remaining(r) < n THEN Fail(r, "eof")
    ELSE [r EXCEPT !.at = @ + n, !.value = SubSeq(r.input, r.at + 1, r.at + n)]

RequireNodes(r, n) == IF r.nodes + n > MaxNodes THEN Fail(r, "nodes") ELSE r

TakeNode(r) == Then(RequireNodes(r, 1), LAMBDA q : [q EXCEPT !.nodes = @ + 1])

Padded(index, low) == index > 0 /\ low = 0

RECURSIVE UlebFrom(_, _, _)
UlebFrom(r, index, sum) ==
    IF index = MaxGroups THEN Fail(r, "overflow")
    ELSE Then(Byte(r), LAMBDA q :
            LET low == q.value % Group
                total == sum + low * Group^index
            IN IF index = MaxGroups - 1 /\ low > LastGroup THEN Fail(q, "overflow")
               ELSE IF q.value >= Group THEN UlebFrom(q, index + 1, total)
               ELSE IF Padded(index, low) THEN Fail(q, "not minimal")
               ELSE Return(q, total))

ReadUleb(r) == UlebFrom(r, 0, 0)

ReadSigned(r) ==
    Then(Byte(r), LAMBDA sign : Then(ReadUleb(sign), LAMBDA q :
        CASE sign.value = 0 /\ q.value <= SignedMax -> q
          [] sign.value = 1 /\ q.value # 0 /\ q.value <= SignedMax + 1 -> Return(q, -q.value)
          [] OTHER -> Fail(q, "signed")))

\* read_length and the limits of its callers.
ReadLength(r, max, error) ==
    Then(ReadUleb(r), LAMBDA q :
        CASE q.value > UsizeMax -> Fail(q, "overflow")
          [] q.value > max -> Fail(q, error)
          [] OTHER -> q)

ReadBytes(r) ==
    Then(ReadLength(r, MaxInline, "inline"), LAMBDA q : TakeBytes(q, q.value))

ReadStr(r) ==
    Then(ReadBytes(r), LAMBDA q :
        IF \E i \in DOMAIN q.value : q.value[i] = NotUtf8 THEN Fail(q, "utf8") ELSE q)

ReadIdentity(r, tag) ==
    Then(Byte(r), LAMBDA q : IF q.value # tag THEN Fail(q, "identity") ELSE Byte(q))

\* The three identities of a reference.
ReadRef(r) ==
    Then(ReadIdentity(r, DatabaseTag), LAMBDA d :
        Then(ReadIdentity(d, NamespaceTag), LAMBDA n :
            Then(ReadIdentity(n, RecordTag), LAMBDA q :
                Return(q, <<d.value, n.value, q.value>>))))

\* i64, u32 and UtcInstant::new.
ReadInstant(r) ==
    Then(ReadSigned(r), LAMBDA s :
        IF s.value \notin -(UsizeMax + 1)..UsizeMax THEN Fail(s, "instant")
        ELSE Then(ReadUleb(s), LAMBDA n :
                IF n.value >= Nanos THEN Fail(n, "instant") ELSE Return(n, <<s.value, n.value>>)))

\* The depth, the count and the room a collection needs, before its first item.
ReadCount(r, depth) ==
    IF depth > MaxNesting THEN Fail(r, "depth")
    ELSE Then(ReadLength(r, MaxCollection, "collection"), LAMBDA q :
            IF q.value > Remaining(q) THEN Fail(q, "eof") ELSE RequireNodes(q, q.value))

KeyFollows(entries, key) == entries = <<>> \/ BytesBefore(Last(entries)[1], key)

Items(n) == [i \in 1..n |-> i]

\* n items, each read by Read and appended to those before.
ReadItems(r, n, Read(_)) ==
    FoldLeft(LAMBDA acc, i : Then(acc, LAMBDA a :
                Then(Read(a), LAMBDA q : Return(q, Append(a.value, q.value)))),
             Return(r, <<>>), Items(n))

\* n entries, keys strictly ascending; Read is given the key.
ReadEntries(r, n, Read(_, _)) ==
    FoldLeft(LAMBDA acc, i : Then(acc, LAMBDA a :
                Then(ReadStr(a), LAMBDA k :
                    IF ~KeyFollows(a.value, k.value) THEN Fail(k, "order")
                    ELSE Then(Read(k.value, k), LAMBDA q :
                            Return(q, Append(a.value, <<k.value, q.value>>))))),
             Return(r, <<>>), Items(n))

Labelled(label, r) == Then(r, LAMBDA q : Return(q, <<label, q.value>>))

RECURSIVE DecodePayload(_, _)
DecodePayload(r, depth) ==
    Then(Byte(r), LAMBDA b : Then(TakeNode(b), LAMBDA q :
        CASE b.value = 0 -> Return(q, <<"null">>)
          [] b.value \in {1, 2} -> Return(q, <<"bool", b.value = 2>>)
          [] b.value = 3 -> Labelled("unsigned", ReadUleb(q))
          [] b.value = 4 -> Labelled("signed", ReadSigned(q))
          [] b.value = 5 -> Labelled("bytes", ReadBytes(q))
          [] b.value = 6 -> Labelled("text", ReadStr(q))
          [] b.value = 7 ->
                Labelled("list", Then(ReadCount(q, depth + 1), LAMBDA n :
                    ReadItems(n, n.value, LAMBDA a : DecodePayload(a, depth + 1))))
          [] b.value = 8 ->
                Labelled("map", Then(ReadCount(q, depth + 1), LAMBDA n :
                    ReadEntries(n, n.value, LAMBDA k, a : DecodePayload(a, depth + 1))))
          [] b.value = 9 -> Labelled("instant", ReadInstant(q))
          [] b.value = 10 -> Labelled("ref", ReadRef(q))
          [] OTHER -> Fail(q, "tag")))

Ended(r) == Then(r, LAMBDA q : IF Remaining(q) # 0 THEN Fail(q, "trailing") ELSE q)

\* frame_payload: the value is the payload.
FramePayload(s) ==
    Then(Byte(Reader(s)), LAMBDA magic :
        IF magic.value # Header[1] THEN Fail(magic, "magic")
        ELSE Then(TakeBytes(magic, 3), LAMBDA version :
                IF version.value # Tail(Header) THEN Fail(version, "version")
                ELSE Then(ReadLength(version, MaxValuePayload, "payload"), LAMBDA n :
                        Ended(TakeBytes(n, n.value)))))

DecodeValue(s) ==
    Then(FramePayload(s), LAMBDA f : Ended(DecodePayload(Reader(f.value), 0)))

(***************************************************************************)
(* The borrowing reader of stored records.  What it makes of a field is    *)
(* tagged: a string, a map of one string, a map, references, or an owned   *)
(* value.                                                                  *)
(***************************************************************************)
\* decode_borrowed_map_payload; like the rest of these, it looks at the tag before the node is taken.
BorrowPayload(r, depth) ==
    IF Peek(r) # 6 THEN Labelled("value", DecodePayload(r, depth))
    ELSE Then(TakeNode(r), LAMBDA q : Labelled("string", ReadStr(Byte(q))))

\* decode_borrowed_map_tree.
RECURSIVE BorrowTree(_, _)
BorrowTree(r, depth) ==
    IF Peek(r) # 8 THEN BorrowPayload(r, depth)
    ELSE Then(TakeNode(r), LAMBDA q : Then(ReadCount(Byte(q), depth + 1), LAMBDA n :
            LET entries == Labelled("tree",
                    ReadEntries(n, n.value, LAMBDA k, a : BorrowTree(a, depth + 1)))
            IN IF n.value # 1 THEN entries
               ELSE Then(ReadStr(n), LAMBDA k :
                        IF Peek(k) # 6 THEN entries
                        ELSE Then(TakeNode(k), LAMBDA t : Then(ReadStr(Byte(t)), LAMBDA x :
                                Return(x, <<"singleton", <<k.value, x.value>>>>))))))

\* The list is abandoned at its first item that is not a reference, nodes and all.
RECURSIVE BorrowRefItems(_, _, _)
BorrowRefItems(r, left, found) ==
    IF left = 0 THEN Return(r, <<"refs", found>>)
    ELSE IF Peek(r) = 16 THEN Fail(r, "eof")
    ELSE IF Peek(r) # 10 THEN Return(r, <<"other">>)
    ELSE Then(TakeNode(r), LAMBDA q : Then(ReadRef(Byte(q)), LAMBDA x :
            BorrowRefItems(x, left - 1, Append(found, x.value))))

\* decode_borrowed_record_refs and its caller's way back.
BorrowRefs(r, depth) ==
    IF Peek(r) # 7 THEN BorrowPayload(r, depth)
    ELSE Then(TakeNode(r), LAMBDA q : Then(ReadCount(Byte(q), depth + 1), LAMBDA n :
            Then(BorrowRefItems(n, n.value, <<>>), LAMBDA x :
                IF x.value = <<"other">> THEN BorrowPayload(r, depth) ELSE x)))

BorrowSelected(key, r, depth) ==
    CASE key = MapField /\ Peek(r) = 8 -> BorrowTree(r, depth)
      [] key = RefsField -> BorrowRefs(r, depth)
      [] OTHER -> BorrowPayload(r, depth)

\* decode_map_entries_with: a root that is not a map is decoded whole, and yields no entries.
VisitBorrowedMap(s) ==
    Then(FramePayload(s), LAMBDA f :
        IF f.value = <<>> \/ Head(f.value) # 8
        THEN Then(DecodeValue(s), LAMBDA q : Return(q, <<"no map">>))
        ELSE Ended(Then(TakeNode(Byte(Reader(f.value))), LAMBDA q :
                Then(ReadCount(q, 1), LAMBDA n :
                    Labelled("entries", ReadEntries(n, n.value,
                        LAMBDA k, a : BorrowSelected(k, a, 1)))))))

(***************************************************************************)
(* The two readers agree: the same error, or the same value.               *)
(***************************************************************************)
RECURSIVE Owned(_)
Owned(b) ==
    CASE b[1] = "string" -> <<"text", b[2]>>
      [] b[1] = "singleton" -> <<"map", <<<<b[2][1], <<"text", b[2][2]>>>>>>>>
      [] b[1] \in {"tree", "entries"} ->
            <<"map", [i \in DOMAIN b[2] |-> <<b[2][i][1], Owned(b[2][i][2])>>]>>
      [] b[1] = "refs" -> <<"list", [i \in DOMAIN b[2] |-> <<"ref", b[2][i]>>]>>
      [] b[1] = "value" -> b[2]

ReadersAgree(whole, parts) ==
    /\ whole.error = parts.error
    /\ whole.error = "none" =>
         IF whole.value[1] = "map" THEN Owned(parts.value) = whole.value
         ELSE parts.value = <<"no map">>

ReadIsCanonical(s, whole) ==
    whole.error = "none" => EncodeValue(whole.value) = s /\ IsValue(whole.value)
=============================================================================
