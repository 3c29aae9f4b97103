---------------------------- MODULE RecordCodec ----------------------------
(***************************************************************************)
(* Typed records written as canonical values and read back, by their form  *)
(* (Fields, map, list and the take_* helpers of uste-graph, uste-time and  *)
(* uste-spatial codec.rs).                                                 *)
(***************************************************************************)
EXTENDS Integers, Sequences, SequencesExt, TLC

CONSTANTS
    Make(_, _),    \* Make(name, x): what the named constructor builds from x, if anything
    Unmake(_, _)   \* Unmake(name, x): the parts of x its encoder writes

LOCAL INSTANCE Forms

(***************************************************************************)
(* Fields::take and Fields::finish.                                        *)
(***************************************************************************)
RECURSIVE Decode(_, _)

\* A field is moved from what is left to what is held; a fixed one is only looked at.
Hold(value, part, x) == IF part.of.form = "fixed" THEN value ELSE (part.name :> x) @@ value

Moved(acc, part, r) ==
    [error |-> r.error, value |-> Hold(acc.value, part, r.value),
     left |-> [n \in DOMAIN acc.left \ {part.name} |-> acc.left[n]]]

TakePart(acc, part) ==
    CASE acc.error # <<"none">> -> acc
      [] acc.error = <<"none">> /\ part.name \notin DOMAIN acc.left ->
            [acc EXCEPT !.error = Missing(part.name).error]
      [] OTHER -> Moved(acc, part, Decode(part.of, acc.left[part.name]))

Taken(acc, parts) == FoldLeft(TakePart, acc, parts)

Finish(acc) ==
    IF acc.error = <<"none">> /\ DOMAIN acc.left # {} THEN Err("unknown field")
    ELSE [error |-> acc.error, value |-> acc.value]

NewFields(v) == [error |-> <<"none">>, left |-> v[2], value |-> <<>>]

DecodeOption(f, first) ==
    CASE first.error # <<"none">> -> Finish(first)
      [] first.error = <<"none">> /\ first.value.kind \notin DOMAIN f.options ->
            Err("invalid enum")
      [] OTHER -> Finish(Taken(first, f.options[first.value.kind]))

DecodeUnion(f, v) ==
    DecodeOption(f, Taken(NewFields(v), <<Part("kind", Plain("text"))>> \o f.first))

\* The items of a list, up to the first that is refused.
TakeItem(acc, r) ==
    IF acc.error # <<"none">> THEN acc
    ELSE [error |-> r.error, value |-> Append(acc.value, r.value)]

DecodeList(f, v) ==
    IF Len(v[2]) > f.max THEN Err("resource limit")
    ELSE FoldLeft(TakeItem, Ok(<<>>), [i \in DOMAIN v[2] |-> Decode(f.of, v[2][i])])

\* What the constructor built, or its refusal.
Built(f, made) == IF made = <<>> THEN Err(f.error) ELSE Ok(made[1])

DecodeMade(f, r) == IF IsOk(r) THEN Built(f, Make(f.name, r.value)) ELSE r

TagOf(f) ==
    CASE f.form \in {"plain", "within"} -> f.tag
      [] f.form = "fixed" -> f.value[1]
      [] f.form = "list" -> "list"
      [] OTHER -> "map"

Decode(f, v) ==
    CASE f.form = "any" -> Ok(v)
      [] f.form = "optional" ->
            IF v = Null THEN Ok(<<>>)
            ELSE LET r == Decode(f.of, v) IN [r EXCEPT !.value = <<@>>]
      [] f.form = "made" -> DecodeMade(f, Decode(f.of, v))
      [] OTHER ->
            IF v[1] # TagOf(f) THEN Err("wrong type")
            ELSE CASE f.form = "plain" -> Ok(v[2])
                   [] f.form = "fixed" -> IF v = f.value THEN Ok(v) ELSE Err(f.error)
                   [] f.form = "within" -> IF v[2] \in f.members THEN Ok(v[2]) ELSE Err(f.error)
                   [] f.form = "list" -> DecodeList(f, v)
                   [] f.form = "fields" -> Finish(Taken(NewFields(v), f.parts))
                   [] f.form = "union" -> DecodeUnion(f, v)

(***************************************************************************)
(* map, list and text: the value a record is written as.                   *)
(***************************************************************************)
RECURSIVE Encode(_, _)

EncodeParts(parts, x) ==
    [n \in {parts[i].name : i \in DOMAIN parts} |->
        LET part == CHOOSE p \in {parts[i] : i \in DOMAIN parts} : p.name = n
        IN Encode(part.of, x[n])]

Encode(f, x) ==
    CASE f.form = "any" -> x
      [] f.form = "optional" -> IF x = <<>> THEN Null ELSE Encode(f.of, x[1])
      [] f.form = "made" -> Encode(f.of, Unmake(f.name, x))
      [] f.form = "fixed" -> f.value
      [] f.form \in {"plain", "within"} -> <<f.tag, x>>
      [] f.form = "list" -> <<"list", [i \in DOMAIN x |-> Encode(f.of, x[i])]>>
      [] f.form = "fields" -> <<"map", EncodeParts(f.parts, x)>>
      [] f.form = "union" ->
            <<"map", ("kind" :> <<"text", x.kind>>)
                     @@ EncodeParts(f.first \o f.options[x.kind], x)>>
=============================================================================
