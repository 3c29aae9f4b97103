---------------------------- MODULE TimeEnvelope ----------------------------
(***************************************************************************)
(* The timestamp envelope of uste-time: what TimestampEnvelope::checked    *)
(* admits (model.rs) and how an envelope is written and read (codec.rs).   *)
(* An envelope keeps the source's own words ("original"), how they were    *)
(* interpreted, and what they resolved to.  A stored envelope is read back *)
(* without parsing the original or resolving a zone again, so the checks   *)
(* here are all that stands between a stored value and a resolved time.    *)
(*                                                                         *)
(* Time runs in seconds of which a minute has two and a day few; an        *)
(* instant is a second and its nanoseconds, of which a second has few.     *)
(***************************************************************************)
EXTENDS Integers, Sequences, SequencesExt, FiniteSets, Functions, Forms

CONSTANTS
    MaxOffset,        \* the largest supplied offset, just under a day (86,340)
    MaxEffective,     \* the largest offset of any zone (93,599)
    MaxDigits,        \* the most fraction digits (9)
    MaxDetail,        \* the largest u8
    MaxCount,         \* the largest u64
    MaxAssumptions,
    EmptyText         \* the text of no characters

SecondsPerMinute == 2

ValidOffset(o) == o \in -MaxOffset..MaxOffset /\ o % SecondsPerMinute = 0

\* Resolution: a status, its reason, and for a resolved time the instant and the offset.
Resolved(instant, offset) ==
    [status |-> "resolved", reason |-> "accepted", instant |-> <<instant>>, offset |-> <<offset>>]

Unresolved(status, reason) ==
    [status |-> status, reason |-> reason, instant |-> <<>>, offset |-> <<>>]

Reasons ==
    [missing |-> {"missing_value"},
     ambiguous |-> {"missing_zone", "date_only_without_policy", "unknown_offset",
                    "fold_choice_required"},
     invalid |-> {"unit_required", "invalid_syntax", "out_of_range", "unknown_zone",
                  "unnecessary_fold_choice", "nonexistent_local_time", "offset_zone_conflict"},
     unsupported |-> {"leap_second", "unsupported_time_scale"},
     resolved |-> {"accepted"}]

ReasonMatches(r) == r.reason \in Reasons[r.status]

Wall(p) == p[1] \in {"second", "fraction_digits"}

IsEmpty(i) == i.epoch_unit = <<>> /\ i.offset = <<>> /\ i.zone = <<>> /\ i.fold = <<>>

\* semantic_shape_matches for a wall-clock reading, by the reason of its resolution.
WallShape(i, r, p) ==
    CASE r.reason = "unit_required" -> IsEmpty(i) /\ p = <<"unknown">>
      [] r.reason \in {"unknown_offset", "missing_zone"} -> IsEmpty(i) /\ Wall(p)
      [] r.reason = "fold_choice_required" -> i.zone # <<>> /\ i.fold = <<>> /\ Wall(p)
      [] r.reason \in {"unknown_zone", "nonexistent_local_time"} -> i.zone # <<>> /\ Wall(p)
      [] r.reason = "unnecessary_fold_choice" -> i.fold # <<>> /\ Wall(p)
      [] r.reason = "offset_zone_conflict" -> i.zone # <<>> /\ i.offset # <<>> /\ Wall(p)
      [] r.reason = "invalid_syntax" -> p = <<"unknown">>
      [] r.reason = "out_of_range" -> (i.zone # <<>> \/ i.offset # <<>>) /\ Wall(p)
      [] r.reason \in {"leap_second", "accepted"} -> Wall(p)
      [] OTHER -> FALSE

ShapeMatches(i, r, p, original) ==
    IF r.status = "missing"
    THEN original = EmptyText /\ i.scale = "unknown" /\ IsEmpty(i) /\ p = <<"unknown">>
    ELSE IF p = <<"date">>
    THEN /\ i.scale = "posix_utc" /\ IsEmpty(i)
         /\ r.reason \in {"date_only_without_policy", "invalid_syntax"}
    ELSE IF i.scale # "posix_utc"
    THEN i.offset = <<>> /\ i.zone = <<>> /\ i.fold = <<>> /\ r.reason = "unsupported_time_scale"
    ELSE IF i.epoch_unit # <<>>
    THEN \/ r.status = "resolved" /\ r.offset = <<0>>
         \/ r.reason = "out_of_range"
    ELSE WallShape(i, r, p)

\* The offset a resolved time was given is the offset it was resolved with.
OffsetsAgree(i, r) == i.offset # <<>> => r.offset = i.offset

ResolvedFits(i, r, p) ==
    /\ i.scale = "posix_utc" /\ p \notin {<<"unknown">>, <<"date">>}
    /\ OffsetsAgree(i, r)
    /\ i.epoch_unit = <<>> => i.zone # <<>> \/ i.offset # <<>>
    /\ i.fold # <<>> => i.zone # <<>>

\* TimestampEnvelope::checked.
Checked(e) ==
    LET i == e.interpretation
        r == e.resolution
        p == e.precision
    IN /\ Len(e.assumptions) <= MaxAssumptions
       /\ p[1] = "fraction_digits" => p[2] \in 1..MaxDigits
       /\ IF p[1] = "epoch_unit" THEN i.epoch_unit = <<p[2]>> ELSE i.epoch_unit = <<>>
       /\ i.offset # <<>> => ValidOffset(i.offset[1]) \/ r.reason = "invalid_syntax"
       /\ e.timezone_profile = <<>> <=> i.zone = <<>>
       /\ r.offset # <<>> => r.offset[1] \in -MaxEffective..MaxEffective
       /\ r.status = "resolved" => ResolvedFits(i, r, p)
       /\ i.epoch_unit # <<>> => i.zone = <<>> /\ i.fold = <<>> /\ i.offset = <<>>
       /\ ShapeMatches(i, r, p, e.original)
       /\ ReasonMatches(r)

(***************************************************************************)
(* The codec: decode_resolution, decode_precision, decode_uncertainty and  *)
(* the final call of checked are the constructors of the forms.            *)
(***************************************************************************)
Units == {"seconds", "milliseconds", "microseconds", "nanoseconds"}

MakeResolution(x) ==
    LET held == [status |-> x.status, reason |-> x.reason, instant |-> x.instant,
                 offset |-> x.effective_offset_seconds]
    IN IF IF x.status = "resolved"
          THEN x.reason = "accepted" /\ x.instant # <<>> /\ x.effective_offset_seconds # <<>>
          ELSE x.instant = <<>> /\ x.effective_offset_seconds = <<>>
       THEN <<held>> ELSE <<>>

MakePrecision(x) ==
    CASE x.kind \in {"unknown", "date", "second"} ->
            IF x.detail = <<"null">> THEN <<<<x.kind>>>> ELSE <<>>
      [] x.kind = "fraction_digits" ->
            IF x.detail[1] = "unsigned" /\ x.detail[2] \in 0..MaxDetail
            THEN <<<<x.kind, x.detail[2]>>>> ELSE <<>>
      [] x.kind = "epoch_unit" ->
            IF x.detail[1] = "text" /\ x.detail[2] \in Units
            THEN <<<<x.kind, x.detail[2]>>>> ELSE <<>>
      [] OTHER -> <<>>

PrecisionDetail(p) ==
    CASE p[1] = "fraction_digits" -> <<"unsigned", p[2]>>
      [] p[1] = "epoch_unit" -> <<"text", p[2]>>
      [] OTHER -> <<"null">>

MakeUncertainty(x) ==
    IF x.kind = "unknown" /\ x.before = <<>> /\ x.after = <<>> THEN <<<<>>>>
    ELSE IF x.kind = "bounded_nanoseconds" /\ x.before # <<>> /\ x.after # <<>>
    THEN <<<<x.before[1], x.after[1]>>>>
    ELSE <<>>

MakeTime(name, x) ==
    CASE name = "resolution" -> MakeResolution(x)
      [] name = "precision" -> MakePrecision(x)
      [] name = "uncertainty" -> MakeUncertainty(x)
      [] name = "envelope" -> IF Checked(x) THEN <<x>> ELSE <<>>

UnmakeTime(name, x) ==
    CASE name = "resolution" ->
            [status |-> x.status, reason |-> x.reason, instant |-> x.instant,
             effective_offset_seconds |-> x.offset]
      [] name = "precision" -> [kind |-> x[1], detail |-> PrecisionDetail(x)]
      [] name = "uncertainty" ->
            IF x = <<>> THEN [kind |-> "unknown", before |-> <<>>, after |-> <<>>]
            ELSE [kind |-> "bounded_nanoseconds", before |-> <<x[1]>>, after |-> <<x[2]>>]
      [] name = "envelope" -> x

INSTANCE RecordCodec WITH Make <- MakeTime, Unmake <- UnmakeTime

OneOf(names) == Within("text", names, "invalid envelope")

\* take_optional_i32.
Signed32 == Within("signed", -MaxCount..MaxCount, "invalid envelope")

SourceForm == Fields(
    <<Part("artifact", Plain("ref")),
      Part("artifact_version", Within("unsigned", 1..MaxCount, "invalid envelope")),
      Part("locator", Plain("text"))>>)

\* The field is named supplied_offset_seconds in the code.
InterpretationForm == Fields(
    <<Part("epoch_unit", Optional(OneOf(Units))), Part("fold", Optional(OneOf({"earlier", "later"}))),
      Part("scale", OneOf({"posix_utc", "utc_leap_aware", "tai", "gps", "smeared", "unknown"})),
      Part("offset", Optional(Signed32)), Part("zone", Optional(Plain("text")))>>)

ResolutionForm == Made("resolution", Fields(
    <<Part("effective_offset_seconds", Optional(Signed32)),
      Part("instant", Optional(Plain("instant"))),
      Part("reason", OneOf(UNION Range(Reasons))), Part("status", OneOf(DOMAIN Reasons))>>),
    "invalid envelope")

PrecisionForm == Made("precision", Fields(
    <<Part("detail", AnyValue), Part("kind", Plain("text"))>>), "invalid envelope")

UncertaintyForm ==
    LET bound == Optional(Within("unsigned", 0..MaxCount, "invalid envelope"))
    IN Made("uncertainty", Fields(
        <<Part("after", bound), Part("before", bound), Part("kind", Plain("text"))>>),
        "invalid envelope")

AssumptionsForm == ListOf(Fields(
    <<Part("authority", Plain("ref")), Part("statement", Plain("text"))>>), MaxAssumptions)

\* Only the pinned profile is ever written or read, so nothing of it is held.
Pinned == <<>>

TimezoneForm == Optional(Fields(
    <<Part("digest", Fixed(<<"bytes", <<1>>>>, "unsupported profile")),
      Part("version", Fixed(<<"text", "pinned">>, "unsupported profile"))>>))

RoleForm == OneOf({"source_event", "source_created", "source_modified", "source_published",
                   "received", "commit_observation", "derivation_available",
                   "simulation_anchor"})

Profile(name) == Part(name, Fixed(<<"text", name>>, "unsupported profile"))

EnvelopeForm == Made("envelope", Fields(
    <<Profile("calendar_profile"), Profile("envelope_profile"), Profile("normalization_profile"),
      Profile("parser_profile"), Part("assumptions", AssumptionsForm),
      Part("interpretation", InterpretationForm), Part("original", Plain("text")),
      Part("precision", PrecisionForm), Part("resolution", ResolutionForm),
      Part("role", RoleForm), Part("source", SourceForm),
      Part("timezone_profile", TimezoneForm), Part("uncertainty", UncertaintyForm)>>),
    "invalid envelope")
=============================================================================
