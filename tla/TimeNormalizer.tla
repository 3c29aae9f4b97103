--------------------------- MODULE TimeNormalizer ---------------------------
(***************************************************************************)
(* TimeNormalizer of uste-time (normalize.rs): a source's time, in one of  *)
(* five shapes, becomes an envelope that says which instant it names or    *)
(* why it names none; an envelope is stored and read back; and an instant  *)
(* is shown in a zone.  Text is abstracted to the fields the parser finds  *)
(* in it, a zone to its list of transitions.                               *)
(***************************************************************************)
EXTENDS TimeEnvelope

CONSTANTS
    SecondsPerDay,     \* a multiple of SecondsPerMinute
    NanosPerSecond,
    Zones,             \* zone name |-> [offset, transitions]: the embedded time-zone data
    TimeRequests       \* the inputs of normalize

VARIABLES
    request,    \* the input being handled
    envelope,   \* the envelope in memory, if any
    stored,     \* its stored value, if any
    shown       \* the latest presentation: [zone, instant, result]

timeVars == <<request, envelope, stored, shown>>

(***************************************************************************)
(* Calendar arithmetic.                                                    *)
(***************************************************************************)
\* days_from_civil; \div rounds down, as div_euclid does, and the rest is not negative.
DaysFromCivil(year, month, day) ==
    LET adjusted == IF month <= 2 THEN year - 1 ELSE year
        era == adjusted \div 400
        of_era == adjusted - era * 400
        shifted == IF month > 2 THEN month - 3 ELSE month + 9
        of_year == (153 * shifted + 2) \div 5 + day - 1
    IN era * 146097 + of_era * 365 + of_era \div 4 - of_era \div 100 + of_year - 719468

YearOfEra(day) == (day - day \div 1460 + day \div 36524 - day \div 146096) \div 365

CivilFromEpoch(seconds) ==
    LET shifted == seconds \div SecondsPerDay + 719468
        era == shifted \div 146097
        day_of_era == shifted - era * 146097
        year_of_era == YearOfEra(day_of_era)
        day_of_year == day_of_era - (365 * year_of_era + year_of_era \div 4 - year_of_era \div 100)
        month_prime == (5 * day_of_year + 2) \div 153
        month == IF month_prime < 10 THEN month_prime + 3 ELSE month_prime - 9
        year == year_of_era + era * 400
    IN [year |-> IF month <= 2 THEN year + 1 ELSE year, month |-> month,
        day |-> day_of_year - (153 * month_prime + 2) \div 5 + 1,
        second |-> seconds % SecondsPerDay]

DaysInMonth(year, month) ==
    CASE month = 2 ->
            IF year % 4 = 0 /\ (year % 100 # 0 \/ year % 400 = 0) THEN 29 ELSE 28
      [] month \in {4, 6, 9, 11} -> 30
      [] OTHER -> 31

\* DateTime::new of the library: a date that exists and a time of that day.
IsDateTime(c) ==
    /\ c.year \in -9999..9999 /\ c.month \in 1..12 /\ c.day \in 1..DaysInMonth(c.year, c.month)
    /\ c.second \in 0..SecondsPerDay - 1

MinSecond == DaysFromCivil(1, 1, 1) * SecondsPerDay

MaxSecond == DaysFromCivil(10000, 1, 1) * SecondsPerDay - 1

\* UtcInstant::new.
NewInstant(second, nanos) ==
    IF second \in MinSecond..MaxSecond /\ nanos \in 0..NanosPerSecond - 1
    THEN <<[second |-> second, nanos |-> nanos]>> ELSE <<>>

InstantFromOffset(c, nanos, offset) ==
    NewInstant(DaysFromCivil(c.year, c.month, c.day) * SecondsPerDay + c.second - offset, nanos)

DateTimeFromEpoch(second) ==
    LET c == CivilFromEpoch(second) IN IF IsDateTime(c) THEN <<c>> ELSE <<>>

\* numeric_instant: how many to a second, and how many nanoseconds each is.
PerSecond(unit) ==
    CASE unit = "seconds" -> 1 [] unit = "milliseconds" -> 2 [] unit = "microseconds" -> 4
      [] unit = "nanoseconds" -> NanosPerSecond

NumericInstant(value, unit) ==
    NewInstant(value \div PerSecond(unit),
               (value % PerSecond(unit)) * (NanosPerSecond \div PerSecond(unit)))

(***************************************************************************)
(* Time zones (external): the offset in force, and what a wall-clock       *)
(* reading may stand for.  A zone is an initial offset and a sequence of   *)
(* <<second, offset>>, far enough apart that no reading meets two of them. *)
(***************************************************************************)
OffsetAt(zone, second) ==
    LET past == SelectSeq(zone.transitions, LAMBDA t : t[1] <= second)
    IN IF past = <<>> THEN zone.offset ELSE Last(past)[2]

Before(zone, k) == IF k = 1 THEN zone.offset ELSE zone.transitions[k - 1][2]

\* to_ambiguous_timestamp: a gap, a fold or one offset.
Ambiguous(zone, local) ==
    LET at(k) == zone.transitions[k][1]
        after(k) == zone.transitions[k][2]
        gaps == {k \in DOMAIN zone.transitions :
                    local >= at(k) + Before(zone, k) /\ local < at(k) + after(k)}
        folds == {k \in DOMAIN zone.transitions :
                    local >= at(k) + after(k) /\ local < at(k) + Before(zone, k)}
        passed == {k \in DOMAIN zone.transitions : local >= at(k) + after(k)}
        pair(k) == <<Before(zone, k), after(k)>>
    IN CASE gaps # {} -> [kind |-> "gap", offsets |-> pair(CHOOSE k \in gaps : TRUE)]
         [] folds # {} -> [kind |-> "fold", offsets |-> pair(CHOOSE k \in folds : TRUE)]
         [] OTHER -> [kind |-> "plain",
                      offsets |-> <<IF passed = {} THEN zone.offset
                                    ELSE after(CHOOSE k \in passed : \A j \in passed : j <= k)>>]

LocalSecond(c) == DaysFromCivil(c.year, c.month, c.day) * SecondsPerDay + c.second

(***************************************************************************)
(* parse_datetime.  A text is what the parser finds: whether its layout is *)
(* right, the date and time, a sixtieth second, the fraction, the suffix.  *)
(***************************************************************************)
Parsed(offset) == [failure |-> <<>>, offset |-> offset]

ParseFails(r, precision, offset) ==
    [failure |-> <<[resolution |-> r, precision |-> precision]>>, offset |-> offset]

InvalidSyntax == Unresolved("invalid", "invalid_syntax")

PrecisionOf(t) == IF t.digits = 0 THEN <<"second">> ELSE <<"fraction_digits", t.digits>>

\* "Z" and a numeric suffix are an offset; "-00:00" is a suffix without one.
SuffixOffset(t) ==
    CASE t.suffix[1] = "Z" -> <<0>>
      [] t.suffix[1] = "offset" -> <<t.suffix[2]>>
      [] OTHER -> <<>>

ParseDateTime(t, require_offset) ==
    LET offset == IF require_offset THEN SuffixOffset(t) ELSE <<>>
    IN IF \/ ~t.layout \/ t.time.year = 0 \/ t.digits > MaxDigits \/ ~IsDateTime(t.time)
          \/ require_offset # (t.suffix # <<"none">>)
       THEN ParseFails(InvalidSyntax, <<"unknown">>, <<>>)
       ELSE IF t.leap
       THEN ParseFails(Unresolved("unsupported", "leap_second"), PrecisionOf(t), offset)
       ELSE IF require_offset /\ t.suffix = <<"unknown">>
       THEN ParseFails(Unresolved("ambiguous", "unknown_offset"), PrecisionOf(t), <<>>)
       ELSE Parsed(offset)

(***************************************************************************)
(* normalize.                                                              *)
(***************************************************************************)
Interpretation(scale, unit, offset, zone, fold) ==
    [scale |-> scale, epoch_unit |-> unit, offset |-> offset, zone |-> zone, fold |-> fold]

ResolvedOr(instant, offset) ==
    IF instant = <<>> THEN Unresolved("invalid", "out_of_range") ELSE Resolved(instant[1], offset)

\* The two offsets of a fold taken the wrong way round.
ChosenBackwards(a, fold) ==
    CASE a.kind = "fold" -> a.offsets[IF fold = <<"earlier">> THEN 2 ELSE 1]
      [] OTHER -> a.offsets[1]

\* The offset of a wall-clock reading in a zone, unless the reading has none or two.
ChosenOffset(a, fold) ==
    CASE a.kind = "fold" -> a.offsets[IF fold = <<"earlier">> THEN 1 ELSE 2]
      [] OTHER -> a.offsets[1]

ResolveNamedZone(t, name, supplied, fold) ==
    IF name \notin DOMAIN Zones THEN Unresolved("invalid", "unknown_zone")
    ELSE LET a == Ambiguous(Zones[name], LocalSecond(t.time))
             offset == ChosenOffset(a, fold)
         IN CASE a.kind = "gap" -> Unresolved("invalid", "nonexistent_local_time")
              [] a.kind = "fold" /\ fold = <<>> -> Unresolved("ambiguous", "fold_choice_required")
              [] a.kind = "plain" /\ fold # <<>> ->
                    Unresolved("invalid", "unnecessary_fold_choice")
              [] OTHER ->
                    IF supplied # <<>> /\ supplied # <<offset>>
                    THEN Unresolved("invalid", "offset_zone_conflict")
                    ELSE ResolvedOr(InstantFromOffset(t.time, t.nanos, offset), offset)

ResolveLocal(t, zone, supplied, fold) ==
    CASE zone # <<>> -> ResolveNamedZone(t, zone[1], supplied, fold)
      [] zone = <<>> /\ fold # <<>> -> Unresolved("invalid", "unnecessary_fold_choice")
      [] zone = <<>> /\ fold = <<>> /\ supplied = <<>> -> Unresolved("ambiguous", "missing_zone")
      [] OTHER -> ResolvedOr(InstantFromOffset(t.time, t.nanos, supplied[1]), supplied[1])

\* What one kind of input contributes to the envelope.
Reading(original, interpretation, resolution, precision, profile) ==
    [original |-> original, interpretation |-> interpretation, resolution |-> resolution,
     precision |-> precision, timezone_profile |-> profile]

ReadMissing ==
    Reading(EmptyText, Interpretation("unknown", <<>>, <<>>, <<>>, <<>>),
            Unresolved("missing", "missing_value"), <<"unknown">>, <<>>)

ReadRfc3339(q) ==
    LET p == ParseDateTime(q.text, TRUE)
        i == Interpretation("posix_utc", <<>>, p.offset, <<>>, <<>>)
    IN IF p.failure # <<>>
       THEN Reading(q.text, i, p.failure[1].resolution, p.failure[1].precision, <<>>)
       ELSE Reading(q.text, i,
                    ResolvedOr(InstantFromOffset(q.text.time, q.text.nanos, p.offset[1]),
                               p.offset[1]),
                    PrecisionOf(q.text), <<>>)

ReadNumeric(q) ==
    Reading(q.value, Interpretation(q.scale, q.unit, <<>>, <<>>, <<>>),
            CASE q.scale # "posix_utc" -> Unresolved("unsupported", "unsupported_time_scale")
              [] q.scale = "posix_utc" /\ q.unit = <<>> -> Unresolved("invalid", "unit_required")
              [] OTHER -> ResolvedOr(NumericInstant(q.value, q.unit[1]), 0),
            IF q.unit = <<>> THEN <<"unknown">> ELSE <<"epoch_unit", q.unit[1]>>, <<>>)

ReadLocal(q) ==
    LET i == Interpretation("posix_utc", <<>>, q.offset, q.zone, q.fold)
        profile == IF q.zone = <<>> THEN <<>> ELSE <<Pinned>>
        p == ParseDateTime(q.text, FALSE)
    IN IF q.offset # <<>> /\ ~ValidOffset(q.offset[1])
       THEN Reading(q.text, i, InvalidSyntax, <<"unknown">>, profile)
       ELSE IF p.failure # <<>>
       THEN Reading(q.text, i, p.failure[1].resolution, p.failure[1].precision, profile)
       ELSE Reading(q.text, i, ResolveLocal(q.text, q.zone, q.offset, q.fold),
                    PrecisionOf(q.text), profile)

\* valid_date_only: ten characters of a date that exists, of year 1 or later.
ReadDateOnly(q) ==
    Reading(q.text, Interpretation("posix_utc", <<>>, <<>>, <<>>, <<>>),
            IF q.text.layout /\ q.text.time.year # 0 /\ IsDateTime(q.text.time)
            THEN Unresolved("ambiguous", "date_only_without_policy")
            ELSE InvalidSyntax, <<"date">>, <<>>)

ReadInput(q) ==
    CASE q.kind = "missing" -> ReadMissing
      [] q.kind = "rfc3339" -> ReadRfc3339(q)
      [] q.kind = "numeric" -> ReadNumeric(q)
      [] q.kind = "local" -> ReadLocal(q)
      [] q.kind = "date" -> ReadDateOnly(q)

\* The caller's part of the envelope, which normalize passes through.
CallerParts ==
    [source |-> [artifact |-> 1, artifact_version |-> 1, locator |-> "row"],
     role |-> "source_event", uncertainty |-> <<>>, assumptions |-> <<>>]

\* make_envelope: nothing when TimestampEnvelope::checked refuses it.
Normalized(q) ==
    LET e == ReadInput(q) @@ CallerParts IN IF Checked(e) THEN <<e>> ELSE <<>>

(***************************************************************************)
(* present_in_zone and local_datetime_for_instant: the offset in force at  *)
(* an instant is found by trying offsets of nearby wall-clock readings.    *)
(***************************************************************************)
Distinct(s) == FoldLeft(LAMBDA acc, x : IF x \in Range(acc) THEN acc ELSE Append(acc, x), <<>>, s)

RECURSIVE Search(_, _, _, _)

Search(zone, second, candidates, rounds) ==
    LET representable == SelectSeq(candidates, LAMBDA o : DateTimeFromEpoch(second + o) # <<>>)
        tries == FlattenSeq([i \in DOMAIN representable |->
            LET local == second + representable[i]
                offsets == Ambiguous(zone, local).offsets
            IN [j \in DOMAIN offsets |-> <<local, offsets[j]>>]])
        found == SelectSeq(tries, LAMBDA p : p[1] - p[2] = second)
        next == Distinct([i \in DOMAIN tries |-> tries[i][2]])
    IN IF rounds = 0 \/ tries = <<>> THEN <<>>
       ELSE IF found # <<>> THEN <<found[1]>>
       ELSE Search(zone, second, next, rounds - 1)

SearchRounds == 4

\* The wall-clock second and the offset, if found.
Presented(zone, instant) ==
    Search(zone, instant.second, Ambiguous(zone, instant.second).offsets, SearchRounds)

(***************************************************************************)
(* The operations.                                                         *)
(***************************************************************************)
TimeInit ==
    /\ request \in TimeRequests
    /\ envelope = <<>> /\ stored = <<>> /\ shown = <<>>

Normalize ==
    /\ envelope = <<>> /\ stored = <<>>
    /\ envelope' = Normalized(request)
    /\ UNCHANGED <<request, stored, shown>>

\* encode_envelope.
StoreEnvelope ==
    /\ envelope # <<>> /\ stored = <<>>
    /\ stored' = <<Encode(EnvelopeForm, envelope[1])>>
    /\ envelope' = <<>>
    /\ UNCHANGED <<request, shown>>

\* decode_envelope, without the input and without the zones.
RestoreEnvelope ==
    /\ stored # <<>> /\ envelope = <<>>
    /\ LET r == Decode(EnvelopeForm, stored[1])
       IN envelope' = IF IsOk(r) THEN <<r.value>> ELSE <<>>
    /\ UNCHANGED <<request, stored, shown>>

PresentInZone ==
    /\ envelope # <<>> /\ envelope[1].resolution.instant # <<>>
    /\ \E z \in DOMAIN Zones :
         LET instant == envelope[1].resolution.instant[1]
         IN shown' = <<[zone |-> z, instant |-> instant, result |-> Presented(Zones[z], instant)]>>
    /\ UNCHANGED <<request, envelope, stored>>

TimeNext == Normalize \/ StoreEnvelope \/ RestoreEnvelope \/ PresentInZone

TimeSpec == TimeInit /\ [][TimeNext]_timeVars

(***************************************************************************)
(* Correctness.                                                            *)
(***************************************************************************)
\* The instants at which a zone's clock shows a wall-clock reading.
Showing(zone, local) ==
    {s \in local - MaxEffective..local + MaxEffective : s + OffsetAt(zone, s) = local}

\* What a zone's own history says a reading without an offset resolves to.
ZoneSettles(q, r) ==
    LET t == q.text
        shows == Showing(Zones[q.zone[1]], LocalSecond(t.time))
    IN /\ r.reason = "nonexistent_local_time" <=> shows = {}
       /\ r.reason = "fold_choice_required" <=> Cardinality(shows) = 2 /\ q.fold = <<>>
       /\ r.status = "resolved" =>
            /\ r.instant[1].second \in shows
            /\ q.fold = <<"earlier">> => \A s \in shows : r.instant[1].second <= s
            /\ q.fold = <<"later">> => \A s \in shows : r.instant[1].second >= s

\* An instant shown in a zone: the local second and the offset name that instant, and when the
\* zone's clock ever showed that reading it showed it then.
ShownNamesInstant(zone, second, result) ==
    IF result = <<>>
    THEN DateTimeFromEpoch(second + OffsetAt(zone, second)) = <<>>
    ELSE LET local == result[1][1]
         IN /\ local - result[1][2] = second
            /\ Showing(zone, local) # {} => second \in Showing(zone, local)

\* Every input is settled.  normalize answers every input with an envelope that its own checks
\* admit; a resolved reading of a wall clock is the instant at which that clock showed it, the
\* earlier or the later one as the caller chose, and it is refused as nonexistent or as in need
\* of a choice exactly when the zone's history says so; the envelope read back from storage is
\* the one that was normalized; and an instant shown in a zone is never changed into another one
\* and is shown whenever its local date is representable (normalize, resolve_named_zone,
\* local_datetime_for_instant, envelope_from_value).
TimesAreSettled ==
    LET e == Normalized(request)
        r == e[1].resolution
    IN /\ e # <<>>
       /\ envelope # <<>> => envelope = e
       /\ stored # <<>> => IsOk(Decode(EnvelopeForm, stored[1]))
       /\ r.status = "resolved" /\ request.kind \in {"rfc3339", "local"} =>
            r.instant[1].second + r.offset[1] = LocalSecond(request.text.time)
       /\ (/\ request.kind = "local" /\ request.zone # <<>> /\ request.zone[1] \in DOMAIN Zones
           /\ request.offset = <<>> /\ ParseDateTime(request.text, FALSE).failure = <<>>) =>
            ZoneSettles(request, r)
       /\ \A s \in Range(shown) : ShownNamesInstant(Zones[s.zone], s.instant.second, s.result)

\* What docs/decisions/0021-pinned-time-normalization-and-envelope.md says of a presentation: it
\* "includes the canonical zone name, effective offset".  local_datetime_for_instant tries the
\* offset before a gap on readings inside that gap, and there it fits.
ShownWithEffectiveOffset ==
    \A s \in Range(shown) :
        s.result # <<>> => s.result[1][2] = OffsetAt(Zones[s.zone], s.instant.second)
=============================================================================
