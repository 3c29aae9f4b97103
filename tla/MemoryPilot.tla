---------------------------- MODULE MemoryPilot ----------------------------
(***************************************************************************)
(* The memory-pilot-v1 reducer and its reads                               *)
(* (crates/uste-memory/src/state.rs, query.rs): a rebuildable index of     *)
(* source versions and of facts that cite spans of them.  A state is a     *)
(* record; a mutation maps a state to the set of its successors, which is  *)
(* empty when the mutation is refused.                                     *)
(*                                                                         *)
(* Record identities are small integers, so that the order of the B-tree   *)
(* maps is the order of the integers.  A digest stands for the bytes it is *)
(* of, and a revision or generation of 0 for an absent one.  All of it is  *)
(* one namespace: a request that names another one is refused before it    *)
(* reaches any state.                                                      *)
(***************************************************************************)
EXTENDS Integers, Sequences, FiniteSets, SequencesExt, FiniteSetsExt, TLC

CONSTANTS
    Profile     \* PILOT_PROFILE: the frozen limits

Newline == "n"
Continuation == "t"     \* a byte that continues a multi-byte character

EmptyPilot ==
    [generation |-> 0, ready |-> FALSE, retained_from |-> 0, current_revision |-> 0,
     sources |-> <<>>, facts |-> <<>>, source_bytes |-> 0, logical_bytes |-> 0]

\* The charge of a source version and of a fact against the logical state.
SourceLogicalBytes(source) ==
    Profile.source_overhead + (IF source.exact_utf8 = <<>> THEN 0 ELSE Len(source.exact_utf8[1]))

FactLogicalBytes(fact) == Profile.fact_overhead + Cardinality(fact.links) * Profile.link_bytes

ChargeLogical(s, added) == s.logical_bytes + added =< Profile.maximum_logical_state_bytes

-----------------------------------------------------------------------------
(* Validation of the inputs *)

\* The bytes are named by exactly one finalized blob of the transaction, and text is those bytes.
ValidateSource(source, inventory) ==
    /\ source.id[2] # 0
    /\ Len(source.blob) =< Profile.maximum_source_bytes_per_version
    /\ source.media_type = (IF source.exact_utf8 = <<>> THEN "opaque" ELSE "text")
    /\ inventory = <<{source.blob}>>
    /\ source.exact_utf8 # <<>> =>
          /\ Len(source.exact_utf8[1]) =< Profile.maximum_text_bytes_per_version
          /\ source.exact_utf8[1] = source.blob

LineAt(bytes, offset) == 1 + Cardinality({i \in 1..offset : bytes[i] = Newline})

IsCharBoundary(bytes, offset) == offset = Len(bytes) \/ bytes[offset + 1] # Continuation

ValidateLocator(locator, source) ==
    /\ locator.start =< locator.end
    /\ locator.end =< Len(source.blob)
    /\ locator.kind = "lines" =>
          /\ source.exact_utf8 # <<>>
          /\ locator.first_line # 0
          /\ locator.first_line =< locator.last_line
          /\ IsCharBoundary(source.blob, locator.start)
          /\ IsCharBoundary(source.blob, locator.end)
          /\ locator.first_line = LineAt(source.blob, locator.start)
          /\ locator.last_line = LineAt(source.blob, IF locator.start = locator.end
                                                     THEN locator.start ELSE locator.end - 1)

RequireNoInventory(inventory) == inventory = <<>>

RequireGeneration(s, generation) == generation # 0 /\ s.generation = generation

ValidateFact(s, fact) ==
    /\ Cardinality(fact.links) =< Profile.maximum_fact_links
    /\ fact.links \subseteq DOMAIN s.facts
    /\ fact.source \in DOMAIN s.sources
    /\ s.sources[fact.source].revoked_revision = 0
    /\ ValidateLocator(fact.locator, s.sources[fact.source].input)

-----------------------------------------------------------------------------
(* The mutations *)

NextVersion(s, source) == 1 + Max({0} \cup {id[2] : id \in {i \in DOMAIN s.sources : i[1] = source}})

BeginRebuild(s, generation, inventory, revision) ==
    IF /\ inventory = <<>>
       /\ generation # 0
       /\ s.generation # 0 => generation = s.generation + 1
    THEN {[EmptyPilot EXCEPT !.generation = generation, !.retained_from = revision]}
    ELSE {}

\* A new version supersedes the one before it.
WithSource(s, source, revision) ==
    LET entry == [input |-> source, recorded_revision |-> revision,
                  superseded_revision |-> 0, revoked_revision |-> 0]
        earlier == [id \in DOMAIN s.sources |->
                      IF id = <<source.id[1], source.id[2] - 1>>
                      THEN [s.sources[id] EXCEPT !.superseded_revision = revision]
                      ELSE s.sources[id]]
    IN  (source.id :> entry) @@ earlier

PutSource(s, source, inventory, revision) ==
    IF /\ ValidateSource(source, inventory)
       /\ source.id \notin DOMAIN s.sources
       /\ Cardinality(DOMAIN s.sources) < Profile.maximum_source_versions
       /\ source.id[2] = NextVersion(s, source.id[1])
       /\ s.source_bytes + Len(source.blob) =< Profile.maximum_source_bytes
       /\ ChargeLogical(s, SourceLogicalBytes(source))
    THEN {[s EXCEPT !.sources = WithSource(s, source, revision),
                    !.source_bytes = @ + Len(source.blob),
                    !.logical_bytes = @ + SourceLogicalBytes(source)]}
    ELSE {}

InsertFact(s, fact, corrects, revision) ==
    IF /\ ValidateFact(s, fact)
       /\ fact.id \notin DOMAIN s.facts
       /\ Cardinality(DOMAIN s.facts) < Profile.maximum_facts
       /\ ChargeLogical(s, FactLogicalBytes(fact))
    THEN {[s EXCEPT !.facts = (fact.id :> [input |-> fact, recorded_revision |-> revision,
                                           corrects |-> corrects, terminal |-> <<>>]) @@ @,
                    !.logical_bytes = @ + FactLogicalBytes(fact)]}
    ELSE {}

EndFact(s, target, kind, revision) == [s EXCEPT !.facts[target].terminal = <<[kind |-> kind, at |-> revision]>>]

IsOpenFact(s, target) == target \in DOMAIN s.facts /\ s.facts[target].terminal = <<>>

CorrectFact(s, target, replacement, revision) ==
    IF IsOpenFact(s, target)
    THEN {EndFact(next, target, "superseded", revision) :
             next \in InsertFact(s, replacement, <<target>>, revision)}
    ELSE {}

RetractFact(s, target, revision) ==
    IF IsOpenFact(s, target) THEN {EndFact(s, target, "retracted", revision)} ELSE {}

RevokeSource(s, source, revision) ==
    IF source \in DOMAIN s.sources /\ s.sources[source].revoked_revision = 0
    THEN {[s EXCEPT !.sources[source].revoked_revision = revision]}
    ELSE {}

CompleteRebuild(s) == IF s.ready THEN {} ELSE {[s EXCEPT !.ready = TRUE]}

\* MemoryState::apply, after the decoded transaction passed the limits on its size.
Mutate(s, transaction, inventory, revision) ==
    LET m == transaction.mutation
    IN  IF m.kind = "begin"
        THEN IF m.next_generation = transaction.generation
             THEN BeginRebuild(s, m.next_generation, inventory, revision) ELSE {}
        ELSE IF ~RequireGeneration(s, transaction.generation) THEN {}
        ELSE IF m.kind = "source" THEN PutSource(s, m.source, inventory, revision)
        ELSE IF ~RequireNoInventory(inventory) THEN {}
        ELSE CASE m.kind = "fact" -> InsertFact(s, m.fact, <<>>, revision)
               [] m.kind = "correct" -> CorrectFact(s, m.target, m.fact, revision)
               [] m.kind = "retract" -> RetractFact(s, m.target, revision)
               [] m.kind = "revoke" -> RevokeSource(s, m.source, revision)
               [] m.kind = "complete" -> CompleteRebuild(s)

Apply(s, transaction, inventory, revision) ==
    IF transaction.generation = 0 \/ revision > Profile.maximum_commits THEN {}
    ELSE {[next EXCEPT !.current_revision = revision] : next \in Mutate(s, transaction, inventory, revision)}

\* What a caller must be allowed to do to commit a mutation: actions on records, or on the namespace.
FactRequirements(fact) ==
    {<<"Commit", fact.id>>, <<"ReadRecord", fact.source[1]>>} \cup {<<"ReadRecord", r>> : r \in fact.links}

AuthorizationRequirements(m) ==
    CASE m.kind \in {"begin", "complete"} -> {<<"ManageSchema", 0>>}
      [] m.kind = "source" -> {<<"Commit", m.source.id[1]>>}
      [] m.kind = "fact" -> FactRequirements(m.fact)
      [] m.kind = "correct" -> {<<"Commit", m.target>>} \cup FactRequirements(m.fact)
      [] m.kind = "retract" -> {<<"Commit", m.target>>}
      [] m.kind = "revoke" -> {<<"ManageRetention", m.source[1]>>}

-----------------------------------------------------------------------------
(* The reads.  `readable' is the set of records the caller may read; a reader has such a set, *)
(* the records of which it may read the blobs, and the output limit of its requests.            *)

\* The snapshot is the latest published state, of the caller's generation, and complete.
EnsureQueryable(view, runtime_revision, generation) ==
    /\ view.current_revision = runtime_revision
    /\ view.generation # 0 /\ view.generation = generation
    /\ view.ready

ResolveRevision(view, revision) ==
    /\ view.retained_from # 0
    /\ view.retained_from =< revision
    /\ revision =< view.current_revision

\* A revocation counts only from its own revision on.
EligibleSourceThen(source, revision) ==
    /\ source.recorded_revision =< revision
    /\ ~(source.revoked_revision # 0 /\ source.revoked_revision =< revision)
    /\ ~(source.superseded_revision # 0 /\ source.superseded_revision =< revision)

EligibleSource(source, revision) ==
    /\ source.recorded_revision =< revision
    /\ source.revoked_revision = 0
    /\ ~(source.superseded_revision # 0 /\ source.superseded_revision =< revision)

EligibleFact(view, id, revision, readable) ==
    /\ id \in DOMAIN view.facts
    /\ LET fact == view.facts[id]
       IN  /\ fact.recorded_revision =< revision
           /\ ~(fact.terminal # <<>> /\ fact.terminal[1].at =< revision)
           /\ {id, fact.input.source[1]} \cup fact.input.links \subseteq readable
           /\ fact.input.source \in DOMAIN view.sources
           /\ EligibleSource(view.sources[fact.input.source], revision)

\* The loop shared by search and one_hop: in order, within the limits on candidates and results.
\* `limit' ends the read with ResourceLimit, `cut' with a truncated answer.
Collect(candidates, matching, limits) ==
    LET Step(answer, id) ==
            IF answer.status # "open" THEN answer
            ELSE IF answer.visited = limits.candidates THEN [answer EXCEPT !.status = "limit"]
            ELSE IF id \notin matching THEN [answer EXCEPT !.visited = @ + 1]
            ELSE IF Len(answer.facts) = limits.results
                 THEN [answer EXCEPT !.visited = @ + 1, !.status = "cut"]
            ELSE [answer EXCEPT !.visited = @ + 1, !.facts = Append(@, id)]
    IN  FoldLeft(Step, [status |-> "open", visited |-> 0, facts |-> <<>>], candidates)

Ordered(ids) == SetToSortSeq(ids, <)

\* All terms occur in the fact's fields or in the text of its source.
LexicalMatch(view, id, terms) == terms \subseteq view.facts[id].input.words

Search(view, terms, revision, limits, readable) ==
    LET eligible == {id \in DOMAIN view.facts : EligibleFact(view, id, revision, readable)}
    IN  Collect(Ordered(eligible), {id \in eligible : LexicalMatch(view, id, terms)}, limits)

OneHop(view, from, revision, limits, readable) ==
    LET linked == {id \in view.facts[from].input.links : EligibleFact(view, id, revision, readable)}
    IN  Collect(Ordered(linked), linked, limits)

\* The citation of an eligible fact, or the error it is refused with: the source needs ReadBlob of
\* its own, a text source is sliced at character boundaries only, an opaque one has no excerpt, and
\* the answer fits the output limit.
ResolveCitation(view, id, reader) ==
    LET fact == view.facts[id]
        source == view.sources[fact.input.source]
        text == source.input.exact_utf8
        locator == fact.input.locator
        excerpt == IF text = <<>> THEN <<>> ELSE <<SubSeq(text[1], locator.start + 1, locator.end)>>
        bytes == IF text = <<>> THEN 0 ELSE locator.end - locator.start
    IN  IF reader.output \notin 1..Profile.maximum_query_output_bytes THEN <<"resource_limit">>
        ELSE IF fact.input.source[1] \notin reader.blobs THEN <<"not_found">>
        ELSE IF text # <<>> /\ \E at \in {locator.start, locator.end} : ~IsCharBoundary(text[1], at)
             THEN <<"integrity_failure">>
        ELSE IF bytes + Profile.citation_overhead > reader.output THEN <<"resource_limit">>
        ELSE <<"citation", [source |-> fact.input.source, blob |-> source.input.blob,
                            locator |-> locator, excerpt |-> excerpt,
                            recorded |-> <<source.recorded_revision, fact.recorded_revision>>]>>

\* Everything a caller can learn from the facts of a view at a revision.
Answers(view, revision, reader) ==
    [id \in {f \in DOMAIN view.facts : EligibleFact(view, f, revision, reader.records)} |->
        [input |-> view.facts[id].input, corrects |-> view.facts[id].corrects,
         citation |-> ResolveCitation(view, id, reader),
         linked |-> OneHop(view, id, revision, Profile.read_limits, reader.records).facts]]
=============================================================================
