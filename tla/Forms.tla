-------------------------------- MODULE Forms -------------------------------
(***************************************************************************)
(* The forms of the typed records that canonical values carry (uste-graph, *)
(* uste-time and uste-spatial codec.rs).  The three codecs share one       *)
(* shape: a record is a map that is taken apart field by field, refused    *)
(* when a field is left over, and put together again by a constructor of   *)
(* its own.  A form says which fields a record has, in the order in which  *)
(* the decoder takes them; RecordCodec follows it.                         *)
(*                                                                         *)
(* A canonical value is a tagged tuple; a map is a function on names, its  *)
(* key order being the concern of ValueCodec.  An optional value is a      *)
(* sequence of at most one element.  Errors are tuples so that any two can *)
(* be compared.                                                            *)
(***************************************************************************)
Null == <<"null">>

Ok(x) == [error |-> <<"none">>, value |-> x]

Err(e) == [error |-> <<e>>, value |-> Null]

Missing(name) == [error |-> <<"missing field", name>>, value |-> Null]

IsOk(r) == r.error = <<"none">>

(***************************************************************************)
(* Forms.                                                                  *)
(***************************************************************************)
\* A value of one tag, whatever its content (take_text, take_record, take_instant).
Plain(tag) == [form |-> "plain", tag |-> tag]

\* A value of one tag whose content must be a member (take_u64, take_digest, the enums).
Within(tag, members, error) ==
    [form |-> "within", tag |-> tag, members |-> members, error |-> error]

\* A value that must be the given one (expect_text).
Fixed(value, error) == [form |-> "fixed", value |-> value, error |-> error]

AnyValue == [form |-> "any"]

Optional(of) == [form |-> "optional", of |-> of]

ListOf(of, max) == [form |-> "list", of |-> of, max |-> max]

Part(name, of) == [name |-> name, of |-> of]

Fields(parts) == [form |-> "fields", parts |-> parts]

\* One map whose field "kind" decides which parts follow; "first" are taken before that.
Union(first, options) == [form |-> "union", first |-> first, options |-> options]

\* A form followed by a checked constructor, which may refuse what it is given.
Made(name, of, error) == [form |-> "made", name |-> name, of |-> of, error |-> error]

-----------------------------------------------------------------------------
(***************************************************************************)
(* The byte layouts of the requests of uste-ingest and uste-memory.  A     *)
(* layout says which parts follow each other; Put and Get of RequestCodecs *)
(* write and read them.  A byte is a digit below Base, a u64 and a u32 are *)
(* two bytes and a u16, an identity, a digest, a magic or a run of padding *)
(* one.                                                                    *)
(***************************************************************************)
Number(w) == [form |-> "number", width |-> w]

SignedNumber(w) == [form |-> "signed", width |-> w]

\* A byte with a meaning for some of its values only: an enum or a boolean.
Among(members) == [form |-> "among", members |-> members]

\* A magic, a version or zero padding.
Constant(byte) == [form |-> "constant", byte |-> byte]

String(max) == [form |-> "text", max |-> max]

Frame == [form |-> "frame"]

Many(w, padding, min, max, of) ==
    [form |-> "many", width |-> w, padding |-> padding, min |-> min, max |-> max, of |-> of]

Named(name, of) == [name |-> name, of |-> of]

Padding == Named("padding", Constant(0))

Parts(check, parts) == [form |-> "parts", check |-> check, parts |-> parts]

\* A presence byte, strictly 0 or 1, padding if the format has it, and the value if present.
Maybe(padding, of) == [form |-> "maybe", padding |-> padding, of |-> of]

\* A tag byte, the parts all cases share, and the layout the tag selects.
Tagged(check, shared, cases) ==
    [form |-> "tagged", check |-> check, shared |-> shared, cases |-> cases]

\* A length and that many bytes, which the inner layout must use up.
Sized(w, of) == [form |-> "sized", width |-> w, of |-> of]

Empty == Parts("none", <<>>)
=============================================================================
