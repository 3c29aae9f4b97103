------------------------------- MODULE MCGraph -------------------------------
(***************************************************************************)
(* Two entities, one evidence record, a relationship, an assertion and a   *)
(* correction; transactions that create, accept, correct, retract, replace *)
(* and delete them, with and without policy changes and read views, and    *)
(* requests that are refused in some of the states.                        *)
(***************************************************************************)
EXTENDS GraphDisk

e1 == 1
e2 == 2
ev == 3
rel == 4
fact == 5
fix == 6

MCIds == e1..fix

Absent == [e |-> "absent"]
Version(v) == [e |-> "version", version |-> v]
Seen(revision, record) ==
    [e |-> "view", revision |-> revision, predicate |-> "visible", record |-> record,
     version |-> 0]

NewEntity(props) == [kind |-> "entity", ends |-> <<>>, props |-> props, evidence |-> <<>>,
                     valid |-> TRUE]
NewEvidence == [NewEntity({}) EXCEPT !.kind = "evidence"]
NewClaim(kind, ends, props) ==
    [kind |-> kind, ends |-> ends, props |-> props, evidence |-> <<ev>>, valid |-> TRUE]

Create(id, new) == [op |-> "create", target |-> id, expected |-> Absent, new |-> new]
ReplaceWith(id, expected, props) ==
    [op |-> "replace", target |-> id, expected |-> expected, props |-> props]
Act(kind, id, version, action) ==
    [op |-> "act", kind |-> kind, target |-> id, expected |-> Version(version),
     action |-> action, correction |-> <<>>, correction_expected |-> <<>>]
Correct(id, version, new) ==
    [Act("relationship", id, version, "correct") EXCEPT
        !.correction = <<[id |-> fix, new |-> new]>>, !.correction_expected = <<Absent>>]
Delete(id, version, maximum, declared) ==
    [op |-> "delete", target |-> id, expected |-> Version(version),
     cascade |-> maximum > 0, maximum |-> maximum, declared |-> declared]

Tx(ops) == [scope |-> "this", ops |-> ops, policy |-> <<>>]
WithPolicy(t, expected, version) ==
    [t EXCEPT !.policy = <<[scope |-> "this", expected |-> expected, version |-> version]>>]

Seed == <<Create(e1, NewEntity({})), Create(e2, NewEntity({})), Create(ev, NewEvidence),
          Create(rel, NewClaim("relationship", <<e1, e2>>, {}))>>

AcceptRel == Act("relationship", rel, 1, "accept")
LoopRel == NewClaim("relationship", <<e2, e2>>, {e1})

MCTransactions ==
    {Tx(Seed),
     WithPolicy(Tx(Seed \o <<Create(fact, NewClaim("assertion", <<e1>>, {e2}))>>), <<>>, 1),
     Tx(<<AcceptRel>>),
     Tx(<<AcceptRel, Act("assertion", fact, 1, "accept")>>),
     Tx(<<Act("relationship", rel, 1, "reject"), Create(fix, NewEntity({e1, rel}))>>),
     Tx(<<Correct(rel, 2, LoopRel)>>),
     Tx(<<AcceptRel, Correct(rel, 1, LoopRel)>>),
     Tx(<<Correct(rel, 2, LoopRel), Act("relationship", rel, 2, "retract")>>),
     Tx(<<Act("relationship", fix, 1, "accept"), Delete(e1, 1, 2, <<rel>>)>>),
     Tx(<<Delete(e1, 1, 2, <<rel>>)>>),
     Tx(<<Delete(e1, 1, 2, <<rel, fact>>)>>),
     Tx(<<Delete(e2, 1, 1, <<fact>>)>>),
     Tx(<<Delete(e2, 1, 0, <<>>)>>),
     Tx(<<ReplaceWith(e2, Seen(1, e1), {e1})>>),
     WithPolicy(Tx(<<ReplaceWith(e1, Version(1), {9})>>), <<1>>, 2),
     WithPolicy(Tx(<<>>), <<1>>, 2)}

Request(read, id, revision, direction, maximum) ==
    [read |-> read, id |-> id, revision |-> revision, direction |-> direction,
     maximum |-> maximum]

MCRequests ==
    {Request("record", id, 0, "", 0) : id \in {e2, fact, fix}}
        \cup {Request("record_at", rel, r, "", 0) : r \in {1, 2, 9}}
        \cup {Request("adjacent", e1, 0, "outgoing", 2), Request("adjacent", e2, 0, "incoming", 2),
              Request("adjacent", e2, 0, "either", 1), Request("adjacent", e2, 0, "either", 9)}
        \cup {Request("supported_by", ev, 0, "", n) : n \in {1, 3}}

Everything == {"read", "expand", "history"} \X MCIds

MCGrants == {Everything, Everything \ {<<"expand", e2>>}, Everything \ {<<"read", e1>>}}
=============================================================================
