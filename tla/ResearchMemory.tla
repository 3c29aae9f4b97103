--------------------------- MODULE ResearchMemory ---------------------------
(***************************************************************************)
(* The research-memory-v1 record contract, reducer and reads               *)
(* (crates/uste-memory/src/research.rs, research/state.rs,                 *)
(* research/query.rs): sources with versions, artifacts made from them,    *)
(* claims that cite them, and edges between records.  As in MemoryPilot a  *)
(* mutation maps a state to the set of its successors, empty when it is    *)
(* refused, and 0 stands for an absent revision or generation.             *)
(*                                                                         *)
(* Labels and other texts are left out; a text that a read matches is the  *)
(* set of its words.  An instant is an integer.                            *)
(***************************************************************************)
EXTENDS Integers, Sequences, FiniteSets, SequencesExt, FiniteSetsExt, TLC

CONSTANTS
    Profile     \* RESEARCH_PROFILE: the frozen limits

EmptyResearch ==
    [generation |-> 0, ready |-> FALSE, retained_from |-> 0, current_revision |-> 0,
     sources |-> <<>>, distinct_sources |-> 0, retained_bytes |-> 0,
     artifacts |-> <<>>, claims |-> <<>>, edges |-> <<>>, fan_out |-> <<>>]

ContentBytes(content) == IF content = <<>> THEN 0 ELSE Len(content[1])

-----------------------------------------------------------------------------
(* ResearchRecord::validate: what a record must satisfy by itself *)

ValidateInterval(record) ==
    record.valid_from # <<>> /\ record.valid_until # <<>> => record.valid_from[1] < record.valid_until[1]

ValidateContent(content) == Len(content) =< Profile.maximum_source_bytes_per_version

ValidateSourceRecord(source) ==
    /\ source.id[2] # 0
    /\ (source.outcome = "inaccessible") = (source.content = <<>>)
    /\ \A content \in Range(source.content) :
          /\ ValidateContent(content)
          /\ source.outcome = "truncated" => source.limit_bytes # 0 /\ Len(content) =< source.limit_bytes
    /\ source.freshness # <<0>>

\* The inputs are strictly ascending, which makes them canonical.
ValidateArtifact(artifact) ==
    /\ artifact.inputs # <<>>
    /\ Len(artifact.inputs) =< Profile.maximum_artifact_inputs
    /\ \A input \in Range(artifact.inputs) : input[2] # 0
    /\ \A i \in 2..Len(artifact.inputs) :
          LET before == artifact.inputs[i - 1]  this == artifact.inputs[i]
          IN  before[1] < this[1] \/ (before[1] = this[1] /\ before[2] < this[2])
    /\ \A content \in Range(artifact.content) : ValidateContent(content)

ValidateCitation(citation) ==
    /\ citation.source[2] # 0
    /\ citation.locator.start < citation.locator.end
    /\ citation.locator.kind = "lines" =>
          1 =< citation.locator.first_line /\ citation.locator.first_line =< citation.locator.last_line
    /\ \A excerpt \in Range(citation.excerpt) :
          /\ excerpt # <<>> /\ Len(excerpt) =< Profile.maximum_excerpt_bytes
          /\ excerpt = citation.excerpt_digest

ValidateClaim(claim) ==
    /\ Len(claim.citations) =< Profile.maximum_citations_per_claim
    /\ (claim.support = "unsupported") = (claim.citations = <<>>)
    /\ \A i \in DOMAIN claim.citations :
          /\ ValidateCitation(claim.citations[i])
          /\ \A j \in 1..(i - 1) : ~ /\ claim.citations[j].source = claim.citations[i].source
                                     /\ claim.citations[j].locator = claim.citations[i].locator
    /\ ValidateInterval(claim)
    /\ claim.corrects # <<claim.id>>

ValidateEdge(edge) == edge.from # edge.to /\ ValidateInterval(edge)

Validate(kind, record) ==
    CASE kind = "source" -> ValidateSourceRecord(record)
      [] kind = "artifact" -> ValidateArtifact(record)
      [] kind = "claim" -> ValidateClaim(record)
      [] kind = "edge" -> ValidateEdge(record)

-----------------------------------------------------------------------------
(* The mutations *)

LatestVersion(s, source) == Max({0} \cup {id[2] : id \in {i \in DOMAIN s.sources : i[1] = source}})

\* Record identities are unique across kinds.
Occupied(s, id) == LatestVersion(s, id) # 0 \/ id \in DOMAIN s.artifacts \cup DOMAIN s.claims \cup DOMAIN s.edges

\* Retained content arrives with exactly its own blob, absent content with no inventory.
RequireInventory(content, inventory) ==
    IF content = <<>> THEN inventory = <<>> ELSE inventory = <<{content[1]}>>

ChargeRetained(s, content) == s.retained_bytes + ContentBytes(content) =< Profile.maximum_source_bytes

BeginRebuild(s, generation, inventory, revision) ==
    IF inventory = <<>> /\ (s.generation # 0 => generation = s.generation + 1)
    THEN {[EmptyResearch EXCEPT !.generation = generation, !.retained_from = revision]}
    ELSE {}

WithSource(s, source, revision) ==
    LET entry == [input |-> source, recorded_revision |-> revision,
                  superseded_revision |-> 0, revoked_revision |-> 0]
        earlier == [id \in DOMAIN s.sources |->
                      IF id = <<source.id[1], LatestVersion(s, source.id[1])>>
                      THEN [s.sources[id] EXCEPT !.superseded_revision = revision]
                      ELSE s.sources[id]]
    IN  (source.id :> entry) @@ earlier

PutSource(s, source, inventory, revision) ==
    LET latest == LatestVersion(s, source.id[1])
    IN  IF /\ latest = 0 => ~Occupied(s, source.id[1]) /\ s.distinct_sources < Profile.maximum_sources
           /\ source.id[2] = latest + 1
           /\ Cardinality(DOMAIN s.sources) < Profile.maximum_source_versions
           /\ RequireInventory(source.content, inventory)
           /\ ChargeRetained(s, source.content)
        THEN {[s EXCEPT !.sources = WithSource(s, source, revision),
                        !.distinct_sources = IF latest = 0 THEN @ + 1 ELSE @,
                        !.retained_bytes = @ + ContentBytes(source.content)]}
        ELSE {}

UsableSource(s, id) == id \in DOMAIN s.sources /\ s.sources[id].revoked_revision = 0

PutArtifact(s, artifact, inventory, revision) ==
    IF /\ ~Occupied(s, artifact.id)
       /\ Cardinality(DOMAIN s.artifacts) < Profile.maximum_artifacts
       /\ \A input \in Range(artifact.inputs) : UsableSource(s, input)
       /\ RequireInventory(artifact.content, inventory)
       /\ ChargeRetained(s, artifact.content)
    THEN {[s EXCEPT !.artifacts = (artifact.id :> [input |-> artifact, recorded_revision |-> revision]) @@ @,
                    !.retained_bytes = @ + ContentBytes(artifact.content)]}
    ELSE {}

CitationResolves(s, citation) ==
    /\ UsableSource(s, citation.source)
    /\ LET source == s.sources[citation.source].input
       IN  source.outcome # "inaccessible" /\ citation.locator.end =< ContentBytes(source.content)

IsActiveClaim(s, id) == id \in DOMAIN s.claims /\ s.claims[id].status.kind = "active"

EndedClaims(s, ended, kind, revision) ==
    [id \in DOMAIN s.claims |-> IF id \in ended THEN [s.claims[id] EXCEPT !.status = [kind |-> kind, at |-> revision]]
                                ELSE s.claims[id]]

\* A claim that corrects an active claim supersedes it.
PutClaim(s, claim, revision) ==
    IF /\ ~Occupied(s, claim.id)
       /\ Cardinality(DOMAIN s.claims) < Profile.maximum_claims
       /\ \A citation \in Range(claim.citations) : CitationResolves(s, citation)
       /\ \A predecessor \in Range(claim.corrects) : IsActiveClaim(s, predecessor)
    THEN {[s EXCEPT !.claims = (claim.id :> [input |-> claim, recorded_revision |-> revision,
                                             status |-> [kind |-> "active", at |-> 0]])
                               @@ EndedClaims(s, Range(claim.corrects), "superseded", revision)]}
    ELSE {}

FanOut(s, id) == IF id \in DOMAIN s.fan_out THEN s.fan_out[id] ELSE 0

PutEdge(s, edge, revision) ==
    IF /\ ~Occupied(s, edge.id) /\ Occupied(s, edge.from) /\ Occupied(s, edge.to)
       /\ edge.asserted_by \in DOMAIN s.claims \cup DOMAIN s.artifacts
       /\ Cardinality(DOMAIN s.edges) < Profile.maximum_edges
       /\ \A endpoint \in {edge.from, edge.to} : FanOut(s, endpoint) < Profile.maximum_edges_per_record
    THEN {[s EXCEPT !.edges = (edge.id :> [input |-> edge, recorded_revision |-> revision]) @@ @,
                    !.fan_out = [id \in {edge.from, edge.to} |-> FanOut(s, id) + 1] @@ @]}
    ELSE {}

EndClaim(s, target, kind, revision) ==
    IF IsActiveClaim(s, target) THEN {[s EXCEPT !.claims = EndedClaims(s, {target}, kind, revision)]} ELSE {}

RevokeSource(s, source, revision) ==
    IF UsableSource(s, source) THEN {[s EXCEPT !.sources[source].revoked_revision = revision]} ELSE {}

CompleteRebuild(s) == IF s.ready THEN {} ELSE {[s EXCEPT !.ready = TRUE]}

PutRecord(s, m, inventory, revision) ==
    CASE m.record_kind = "source" -> PutSource(s, m.record, inventory, revision)
      [] m.record_kind = "artifact" -> PutArtifact(s, m.record, inventory, revision)
      [] m.record_kind = "claim" -> IF inventory = <<>> THEN PutClaim(s, m.record, revision) ELSE {}
      [] m.record_kind = "edge" -> IF inventory = <<>> THEN PutEdge(s, m.record, revision) ELSE {}

Mutate(s, transaction, inventory, revision) ==
    LET m == transaction.mutation
    IN  IF m.kind = "begin"
        THEN IF m.next_generation = transaction.generation
             THEN BeginRebuild(s, m.next_generation, inventory, revision) ELSE {}
        ELSE IF s.generation # transaction.generation THEN {}
        ELSE IF m.kind = "put"
             THEN IF Validate(m.record_kind, m.record) THEN PutRecord(s, m, inventory, revision) ELSE {}
        ELSE IF inventory # <<>> THEN {}
        ELSE CASE m.kind = "retract" -> EndClaim(s, m.target, "retracted", revision)
               [] m.kind = "expire" -> EndClaim(s, m.target, "expired", revision)
               [] m.kind = "revoke" -> RevokeSource(s, m.source, revision)
               [] m.kind = "complete" -> CompleteRebuild(s)

Apply(s, transaction, inventory, revision) ==
    IF transaction.generation = 0 THEN {}
    ELSE {[next EXCEPT !.current_revision = revision] : next \in Mutate(s, transaction, inventory, revision)}

\* What a caller must be allowed to do to commit a mutation.
RecordRequirements(kind, record) ==
    CASE kind = "source" -> {<<"Commit", record.id[1]>>}
      [] kind = "artifact" -> {<<"Commit", record.id>>} \cup {<<"ReadRecord", i[1]>> : i \in Range(record.inputs)}
      [] kind = "claim" -> {<<"Commit", record.id>>} \cup {<<"Commit", c>> : c \in Range(record.corrects)}
                           \cup {<<"ReadRecord", c.source[1]>> : c \in Range(record.citations)}
      [] kind = "edge" -> {<<"Commit", record.id>>}
                          \cup {<<"ReadRecord", r>> : r \in {record.from, record.to, record.asserted_by}}

AuthorizationRequirements(m) ==
    CASE m.kind \in {"begin", "complete"} -> {<<"ManageSchema", 0>>}
      [] m.kind = "put" -> RecordRequirements(m.record_kind, m.record)
      [] m.kind \in {"retract", "expire"} -> {<<"Commit", m.target>>}
      [] m.kind = "revoke" -> {<<"ManageRetention", m.source[1]>>}

-----------------------------------------------------------------------------
(* The reads *)

EnsureQueryable(view, runtime_revision, generation) ==
    /\ view.current_revision = runtime_revision
    /\ view.generation # 0 /\ view.generation = generation
    /\ view.ready

Resolve(view, revision) ==
    /\ view.retained_from # 0
    /\ view.retained_from =< revision
    /\ revision =< view.current_revision

\* Fresh, Stale or, when the evaluation precedes the retrieval, Unknown.
FreshnessAt(source, evaluated_at) ==
    IF evaluated_at < source.retrieved_at THEN "unknown"
    ELSE IF source.freshness # <<>> /\ evaluated_at - source.retrieved_at > source.freshness[1] THEN "stale"
    ELSE "fresh"

SourceView(view, id, revision, evaluated_at) ==
    LET entry == view.sources[id]
    IN  [input |-> entry.input, recorded |-> entry.recorded_revision,
         superseded |-> IF entry.superseded_revision =< revision THEN entry.superseded_revision ELSE 0,
         revoked |-> entry.revoked_revision, freshness |-> FreshnessAt(entry.input, evaluated_at)]

\* The versions of a source in order, up to the limit; none is NotFound.
SourceVersions(view, source, revision, evaluated_at, maximum_results) ==
    LET shown == {id \in DOMAIN view.sources :
                    id[1] = source /\ view.sources[id].recorded_revision =< revision}
    IN  [version \in 1..Min({Cardinality(shown), maximum_results}) |->
            SourceView(view, <<source, version>>, revision, evaluated_at)]

StatusAt(entry, revision) ==
    IF entry.status.kind # "active" /\ entry.status.at =< revision THEN entry.status
    ELSE [kind |-> "active", at |-> 0]

\* The excerpt of a revoked source version is withheld, in historical views too.
CitationView(view, citation, evaluated_at) ==
    LET source == view.sources[citation.source]
    IN  [source |-> citation.source, locator |-> citation.locator,
         excerpt |-> IF source.revoked_revision # 0 THEN <<>> ELSE citation.excerpt,
         revoked |-> source.revoked_revision, freshness |-> FreshnessAt(source.input, evaluated_at)]

EffectiveSupport(claim, citations) ==
    IF claim.support = "unsupported" THEN [kind |-> "recorded_unsupported"]
    ELSE IF citations = <<>> THEN [kind |-> "no_visible_citation"]
    ELSE IF \A c \in Range(citations) : c.revoked # 0
         THEN [kind |-> "revoked", at |-> Max({c.revoked : c \in Range(citations)})]
    ELSE [kind |-> claim.support]

ClaimView(view, id, revision, evaluated_at, readable) ==
    LET entry == view.claims[id]
        Visible(citation) == citation.source[1] \in readable /\ citation.source \in DOMAIN view.sources
        visible == SelectSeq(entry.input.citations, Visible)
        citations == [i \in DOMAIN visible |-> CitationView(view, visible[i], evaluated_at)]
    IN  [id |-> id, words |-> entry.input.words, status |-> StatusAt(entry, revision),
         recorded |-> entry.recorded_revision, corrects |-> entry.input.corrects,
         citations |-> citations, support |-> EffectiveSupport(entry.input, citations)]

VisibleClaims(view, revision, readable) ==
    {id \in DOMAIN view.claims \cap readable : view.claims[id].recorded_revision =< revision}

\* Edges that leave a record, within the limits, hidden ones counted nowhere.
EdgesFrom(view, from, kinds, revision, readable, limits) ==
    LET shown == {id \in DOMAIN view.edges :
                    LET edge == view.edges[id].input
                    IN  /\ edge.from = from /\ edge.kind \in kinds
                        /\ view.edges[id].recorded_revision =< revision
                        /\ {id, edge.to, edge.asserted_by} \subseteq readable}
        room == Min({limits.candidates, limits.results})
    IN  SubSeq(SetToSortSeq(shown, <), 1, Min({room, Cardinality(shown)}))

MatchedWords(claim) ==
    UNION ({claim.words} \cup {IF c.excerpt = <<>> THEN {} ELSE Range(c.excerpt[1]) : c \in Range(claim.citations)})

\* Active claims whose fields or visible excerpts hold every term, in order and within the limits.
SearchStep(answer, claim, terms, limits) ==
    IF answer.truncated THEN answer
    ELSE IF answer.visited = limits.candidates THEN [answer EXCEPT !.truncated = TRUE]
    ELSE IF ~(terms \subseteq MatchedWords(claim)) THEN [answer EXCEPT !.visited = @ + 1]
    ELSE IF Len(answer.items) = limits.results THEN [answer EXCEPT !.visited = @ + 1, !.truncated = TRUE]
    ELSE [answer EXCEPT !.visited = @ + 1, !.items = Append(@, claim.id)]

Search(view, terms, revision, evaluated_at, readable, limits) ==
    LET candidates == SetToSortSeq({id \in VisibleClaims(view, revision, readable) :
                                      StatusAt(view.claims[id], revision).kind = "active"}, <)
        Step(answer, id) == SearchStep(answer, ClaimView(view, id, revision, evaluated_at, readable), terms, limits)
    IN  FoldLeft(Step, [items |-> <<>>, visited |-> 0, truncated |-> FALSE], candidates)
=============================================================================
