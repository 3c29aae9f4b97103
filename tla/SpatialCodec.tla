---------------------------- MODULE SpatialCodec ----------------------------
(***************************************************************************)
(* The canonical encoding of spatial records (uste-spatial codec.rs) and   *)
(* what their constructors admit (uste-spatial model.rs and uste-types     *)
(* spatial.rs).  Coordinates have several spellings, a longitude of half a *)
(* turn east or west, any longitude at a pole, and only one of them may be *)
(* stored.  A reference is a pair <<scope, record>>; angles are counted in *)
(* units of which a half turn has few.                                     *)
(***************************************************************************)
EXTENDS Integers, Sequences, SequencesExt, FiniteSets, Functions, Forms

CONSTANTS
    HalfTurn, QuarterTurn,   \* HALF_TURN_NANODEGREES and QUARTER_TURN_NANODEGREES
    MaxOffset, MaxEffective, MaxDigits, MaxDetail, MaxCount, MaxAssumptions, EmptyText

T == INSTANCE TimeEnvelope

(***************************************************************************)
(* Constructors.                                                           *)
(***************************************************************************)
SameScope(id, refs) == \A r \in refs : r[1] = id[1]

\* LongitudeNanodegrees::new keeps one name for the antimeridian.
CanonicalLongitude(v) == IF v = HalfTurn THEN -HalfTurn ELSE v

MakeLongitude(v) ==
    IF v \in -HalfTurn..HalfTurn /\ CanonicalLongitude(v) = v THEN <<v>> ELSE <<>>

MakeLatitude(v) == IF v \in -QuarterTurn..QuarterTurn THEN <<v>> ELSE <<>>

\* GeographicPoint::new moves a pole to longitude zero; the decoder refuses one that moves.
MakePoint(p) ==
    LET longitude == IF p.latitude \in {-QuarterTurn, QuarterTurn} THEN 0 ELSE p.longitude
    IN IF longitude = p.longitude THEN <<p>> ELSE <<>>

Axes(p) == DOMAIN p \cap {"x", "y", "z"}

\* The boxes and the points of a geometry or a position.
MakeShape(g) ==
    CASE g.kind \in {"local_box_2", "local_box_3"} ->
            IF \A a \in Axes(g.min) : g.min[a] <= g.max[a] THEN <<g>> ELSE <<>>
      [] g.kind = "geographic_box" -> IF g.south <= g.north THEN <<g>> ELSE <<>>
      [] g.kind \in {"geographic_point", "geographic"} -> MakePoint(g)
      [] OTHER -> <<g>>

MakeWorld(w) == IF SameScope(w.id, {w.root_frame.record}) THEN <<w>> ELSE <<>>

MakeFrame(f) ==
    IF /\ SameScope(f.id, {f.world})
       /\ \A p \in Range(f.parent) :
            SameScope(f.id, {p.frame.record, p.transform.record}) /\ p.frame.record # f.id
    THEN <<f>> ELSE <<>>

MakeGeometry(g) ==
    IF /\ SameScope(g.id, {g.world, g.frame.record})
       /\ \A p \in Range(g.predecessor) : p.record = g.id /\ p.version < g.version
    THEN <<g>> ELSE <<>>

MakeKey(k) ==
    IF k.source[1] = <<k.event.database[1], k.event.namespace[1]>> /\ k.session # EmptyText
    THEN <<k>> ELSE <<>>

MakeObservation(o) ==
    IF /\ SameScope(o.id, {o.entity, o.world, o.frame.record, o.key.source, o.evidence})
       /\ o.source_time.role = "source_event" /\ o.source_time.source.artifact = o.evidence
       /\ \A p \in Range(o.correction_of) : SameScope(o.id, {p}) /\ p # o.id
    THEN <<o>> ELSE <<>>

MakeSpatial(name, x) ==
    CASE name = "longitude" -> MakeLongitude(x)
      [] name = "latitude" -> MakeLatitude(x)
      [] name = "shape" -> MakeShape(x)
      [] name = "world" -> MakeWorld(x)
      [] name = "frame" -> MakeFrame(x)
      [] name = "geometry" -> MakeGeometry(x)
      [] name = "key" -> MakeKey(x)
      [] name = "observation" -> MakeObservation(x)
      [] OTHER -> T!MakeTime(name, x)

UnmakeSpatial(name, x) ==
    IF name \in {"resolution", "precision", "uncertainty", "envelope"} THEN T!UnmakeTime(name, x)
    ELSE x

INSTANCE RecordCodec WITH Make <- MakeSpatial, Unmake <- UnmakeSpatial

(***************************************************************************)
(* Forms.                                                                  *)
(***************************************************************************)
Bad == "invalid encoding"

Ref == Plain("ref")

Metres == Plain("signed")

Version == Within("unsigned", 1..MaxCount, Bad)

VersionedRef == Fields(<<Part("record", Ref), Part("version", Version)>>)

Longitude == Made("longitude", Metres, Bad)

Latitude == Made("latitude", Metres, Bad)

Local2 == <<Part("x", Metres), Part("y", Metres)>>

Local3 == Append(Local2, Part("z", Metres))

Corner(parts) == Fields(<<Part("kind", Fixed(<<"text", "point">>, Bad))>> \o parts)

Geographic == <<Part("height", Optional(Metres)), Part("latitude", Latitude),
                Part("longitude", Longitude)>>

GeometryForm == Made("shape", Union(<<>>,
    [local_point_2 |-> Local2, local_point_3 |-> Local3, geographic_point |-> Geographic,
     local_box_2 |-> <<Part("max", Corner(Local2)), Part("min", Corner(Local2))>>,
     local_box_3 |-> <<Part("max", Corner(Local3)), Part("min", Corner(Local3))>>,
     geographic_box |-> <<Part("east", Longitude), Part("north", Latitude),
                          Part("south", Latitude), Part("west", Longitude)>>]), Bad)

PositionForm == Made("shape", Union(<<>>,
    [local_2 |-> Local2, local_3 |-> Local3, geographic |-> Geographic]), Bad)

Radius == Union(<<>>,
    [unknown |-> <<Part("radial_nanometres", Fixed(Null, Bad))>>,
     radial |-> <<Part("radial_nanometres", Plain("unsigned"))>>])

WorldForm == Made("world", Fields(
    <<Part("id", Ref), Part("root_frame", VersionedRef), Part("version", Version)>>), Bad)

CoordinateSystem ==
    Within("text", {"wgs84_lon_lat", "local_cartesian_2", "local_cartesian_3"}, Bad)

FrameForm == Made("frame", Fields(
    <<Part("coordinate_system", CoordinateSystem), Part("id", Ref),
      Part("parent", Optional(Fields(<<Part("frame", VersionedRef),
                                       Part("transform", VersionedRef)>>))),
      Part("version", Version), Part("world", Ref)>>), Bad)

GeometryVersionForm == Made("geometry", Fields(
    <<Part("frame", VersionedRef), Part("geometry", GeometryForm), Part("id", Ref),
      Part("predecessor", Optional(VersionedRef)), Part("precision", Radius),
      Part("version", Version), Part("world", Ref)>>), Bad)

Identity == Within("bytes", {<<b>> : b \in 0..7}, Bad)

KeyForm == Made("key", Fields(
    <<Part("event", Fields(<<Part("database", Identity), Part("event", Identity),
                             Part("namespace", Identity)>>)),
      Part("session", Plain("text")), Part("source", Ref)>>), Bad)

ObservationForm == Made("observation", Fields(
    <<Part("correction_of", Optional(Ref)), Part("entity", Ref), Part("evidence", Ref),
      Part("frame", VersionedRef), Part("id", Ref), Part("key", KeyForm),
      Part("position", PositionForm), Part("source_time", T!EnvelopeForm),
      Part("uncertainty", Radius), Part("world", Ref)>>), Bad)

\* record_from_value: the profile and its version around one of the four kinds.
Around(body) ==
    <<Part("body", body), Part("profile", Fixed(<<"text", "profile">>, "unsupported profile")),
      Part("schema_version", Fixed(<<"unsigned", 1>>, "unsupported profile"))>>

SpatialRecord == Union(<<>>,
    [world |-> Around(WorldForm), frame |-> Around(FrameForm),
     geometry |-> Around(GeometryVersionForm), observation |-> Around(ObservationForm)])
=============================================================================
