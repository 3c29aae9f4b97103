---------------------------- MODULE MemoryService ---------------------------
(***************************************************************************)
(* A memory index as its consumer meets it: mutations are committed one by *)
(* one and every commit leaves a snapshot that a reader may still hold     *)
(* later.  Snapshots share the revision of the latest publication          *)
(* (runtime_revision), which decides whether a held one still answers.     *)
(* The index is a memory-pilot-v1 or a research-memory-v1 one.             *)
(***************************************************************************)
EXTENDS MemoryPilot

(***************************************************************************)
(* The read-only plan that restates a memory-pilot-v1 generation as        *)
(* research-memory-v1 mutations (crates/uste-memory/src/research/pilot.rs) *)
(* and its replay into an empty research index.                            *)
(***************************************************************************)

CONSTANTS
    ResearchProfile     \* RESEARCH_PROFILE

Research == INSTANCE ResearchMemory WITH Profile <- ResearchProfile

\* The link's edge is named by a digest of its two ends.
PilotLinkEdgeId(fact, link) == 100 * fact + link

Put(kind, record) == [kind |-> "put", record_kind |-> kind, record |-> record]

MapSource(source) ==
    [mutation |-> Put("source", [id |-> source.input.id, outcome |-> "complete", limit_bytes |-> 0,
                                 content |-> <<source.input.blob>>, retrieved_at |-> 0, freshness |-> <<>>]),
     inventory |-> <<{source.input.blob}>>]

\* An excerpt that splits a character or is too long is left out; its digest stays.
MapExcerpt(text, locator) ==
    LET bytes == SubSeq(text, locator.start + 1, locator.end)
    IN  IF /\ IsCharBoundary(text, locator.start) /\ IsCharBoundary(text, locator.end)
           /\ Len(bytes) =< ResearchProfile.maximum_excerpt_bytes
        THEN <<bytes>> ELSE <<>>

MapFact(s, fact) ==
    LET locator == fact.input.locator
        text == s.sources[fact.input.source].input.exact_utf8[1]
    IN  [id |-> fact.input.id, support |-> "paraphrase", words |-> fact.input.words,
         citations |-> <<[source |-> fact.input.source, locator |-> locator,
                          excerpt_digest |-> SubSeq(text, locator.start + 1, locator.end),
                          excerpt |-> MapExcerpt(text, locator)]>>,
         valid_from |-> <<>>, valid_until |-> <<>>, corrects |-> fact.corrects]

MapLink(fact, link) ==
    Put("edge", [id |-> PilotLinkEdgeId(fact, link), kind |-> "related", from |-> fact, to |-> link,
                 asserted_by |-> fact, valid_from |-> <<>>, valid_until |-> <<>>])

\* Every ended fact, superseded ones too.
EndedFacts(s) == {f \in DOMAIN s.facts : s.facts[f].terminal # <<>>}

RetractedFacts(s) ==
    {f \in DOMAIN s.facts : s.facts[f].terminal # <<>> /\ s.facts[f].terminal[1].kind = "retracted"}

\* What happened, as <<revision, rank, key>>; each revision holds one mutation.
Events(s) ==
    {<<s.sources[id].recorded_revision, 0, id>> : id \in DOMAIN s.sources}
    \cup {<<s.facts[id].recorded_revision, 1, <<id, 0>>>> : id \in DOMAIN s.facts}
    \cup {<<s.facts[id].terminal[1].at, 2, <<id, 0>>>> : id \in RetractedFacts(s)}
    \cup {<<s.sources[id].revoked_revision, 3, id>> : id \in {i \in DOMAIN s.sources : s.sources[i].revoked_revision # 0}}

EventBefore(a, b) ==
    \/ a[1] < b[1]
    \/ a[1] = b[1] /\ a[2] < b[2]
    \/ a[1] = b[1] /\ a[2] = b[2] /\ (a[3][1] < b[3][1] \/ (a[3][1] = b[3][1] /\ a[3][2] < b[3][2]))

NoInventory(mutation) == [mutation |-> mutation, inventory |-> <<>>]

MapEvent(s, event) ==
    CASE event[2] = 0 -> <<MapSource(s.sources[event[3]])>>
      [] event[2] = 1 -> LET fact == s.facts[event[3][1]]
                             links == Ordered(fact.input.links)
                         IN  <<NoInventory(Put("claim", MapFact(s, fact)))>>
                             \o [i \in DOMAIN links |-> NoInventory(MapLink(fact.input.id, links[i]))]
      [] event[2] = 2 -> <<NoInventory([kind |-> "retract", target |-> event[3][1]])>>
      [] event[2] = 3 -> <<NoInventory([kind |-> "revoke", source |-> event[3]])>>

\* Refused for an index that is being rebuilt, a fact of an empty span or of an opaque source.
IsMappable(s) ==
    /\ s.generation # 0 /\ s.ready
    /\ \A id \in DOMAIN s.facts :
          LET fact == s.facts[id].input
          IN  fact.locator.start < fact.locator.end /\ s.sources[fact.source].input.exact_utf8 # <<>>

MapMemoryPilot(s) ==
    LET events == SetToSortSeq(Events(s), EventBefore)
    IN  FlattenSeq([i \in DOMAIN events |-> MapEvent(s, events[i])])

\* The plan committed one mutation after the other: the reached states, none once one is refused.
Replay(plan) ==
    LET Begin == Research!Apply(Research!EmptyResearch,
                                [generation |-> 1, mutation |-> [kind |-> "begin", next_generation |-> 1]], <<>>, 1)
        Step(states, i) == UNION {Research!Apply(r, [generation |-> 1, mutation |-> plan[i].mutation],
                                                 plan[i].inventory, i + 1) : r \in states}
    IN  FoldLeft(Step, Begin, [i \in DOMAIN plan |-> i])

-----------------------------------------------------------------------------
(* What the plan owes the pilot *)

Lifecycle(entry) ==
    IF entry.terminal = <<>> THEN "active" ELSE entry.terminal[1].kind

SameLifecycle(s, r) ==
    /\ DOMAIN r.sources = DOMAIN s.sources
    /\ \A id \in DOMAIN s.sources :
          LET mapped == r.sources[id]  source == s.sources[id]
          IN  /\ mapped.input.content = <<source.input.blob>>
              /\ (mapped.superseded_revision = 0) = (source.superseded_revision = 0)
              /\ (mapped.revoked_revision = 0) = (source.revoked_revision = 0)
    /\ DOMAIN r.claims = DOMAIN s.facts
    /\ \A id \in DOMAIN s.facts :
          /\ r.claims[id].status.kind = Lifecycle(s.facts[id])
          /\ r.claims[id].input.corrects = s.facts[id].corrects
    /\ \A a, b \in DOMAIN s.facts :
          (r.claims[a].recorded_revision < r.claims[b].recorded_revision)
             = (s.facts[a].recorded_revision < s.facts[b].recorded_revision)
    /\ {<<r.edges[e].input.from, r.edges[e].input.to>> : e \in DOMAIN r.edges}
          = UNION {{<<id, link>> : link \in s.facts[id].input.links} : id \in DOMAIN s.facts}

\* The pilot keeps sources and facts apart and bounds only a fact's own links;
\* the research index shares one identity space and bounds a record's edges in both directions.
FitsResearch(s) ==
    /\ DOMAIN s.facts \cap {id[1] : id \in DOMAIN s.sources} = {}
    /\ \A id \in DOMAIN s.facts :
          Cardinality(s.facts[id].input.links) + Cardinality({f \in DOMAIN s.facts : id \in s.facts[f].input.links})
             =< ResearchProfile.maximum_edges_per_record

-----------------------------------------------------------------------------
CONSTANTS
    Transactions,   \* the transactions of each kind of index, with their inventories
    Readers,        \* what a reader may read: records, blobs of records, and output bytes
    MaxRevision     \* bound on the commits

VARIABLES
    index,          \* "pilot" or "research"
    history         \* the published state of every revision

memoryVars == <<index, history>>

MemoryInit ==
    /\ index \in {"pilot", "research"}
    /\ history = <<>>

Latest == IF history # <<>> THEN history[Len(history)]
          ELSE IF index = "pilot" THEN EmptyPilot ELSE Research!EmptyResearch

\* prepare and publish: a refused mutation leaves everything as it was.
Commit(request) ==
    /\ Len(history) < MaxRevision
    /\ LET revision == Len(history) + 1
       IN  \E next \in IF index = "pilot" THEN Apply(Latest, request.transaction, request.inventory, revision)
                       ELSE Research!Apply(Latest, request.transaction, request.inventory, revision) :
              history' = Append(history, next)
    /\ UNCHANGED index

MemoryNext == \E request \in Transactions[index] : Commit(request)

MemorySpec == MemoryInit /\ [][MemoryNext]_memoryVars

-----------------------------------------------------------------------------
(* What was known, and what may be told of it now *)

RevokedNow(source) == Latest.sources[source].revoked_revision # 0

PilotAsKnown(view, revision, reader) ==
    LET now == Answers(view, revision, reader)
        then == Answers(history[revision], revision, reader)
    IN  /\ DOMAIN now = {id \in DOMAIN then : ~RevokedNow(then[id].input.source)}
        /\ \A id \in DOMAIN now :
              /\ [now[id] EXCEPT !.linked = <<>>] = [then[id] EXCEPT !.linked = <<>>]
              /\ Range(now[id].linked) = Range(then[id].linked) \cap DOMAIN now

ClaimAsKnown(now, then) ==
    /\ \A field \in {"id", "words", "status", "recorded", "corrects"} : now[field] = then[field]
    /\ Len(now.citations) = Len(then.citations)
    /\ \A i \in DOMAIN now.citations :
          LET n == now.citations[i]  t == then.citations[i]
          IN  /\ n.source = t.source /\ n.locator = t.locator /\ n.freshness = t.freshness
              /\ n.excerpt = IF RevokedNow(n.source) THEN <<>> ELSE t.excerpt
    /\ now.support.kind = IF /\ then.support.kind = "paraphrase"
                             /\ \A i \in DOMAIN now.citations : RevokedNow(now.citations[i].source)
                          THEN "revoked" ELSE then.support.kind

ResearchAsKnown(view, revision, readable) ==
    LET at == 1     \* the instant of evaluation
        then == history[revision]
        claims == Research!VisibleClaims(view, revision, readable)
        known == DOMAIN then.claims \cup DOMAIN then.artifacts \cup {id[1] : id \in DOMAIN then.sources}
    IN  /\ claims = DOMAIN then.claims \cap readable
        /\ \A id \in claims : ClaimAsKnown(Research!ClaimView(view, id, revision, at, readable),
                                           Research!ClaimView(then, id, revision, at, readable))
        /\ \A source \in readable :
              LET Timeless(seq) == [i \in DOMAIN seq |-> [seq[i] EXCEPT !.revoked = 0]]
              IN  Timeless(Research!SourceVersions(view, source, revision, at, 9))
                    = Timeless(Research!SourceVersions(then, source, revision, at, 9))
        /\ \A from \in known \cap readable :
              Research!EdgesFrom(view, from, {"related"}, revision, readable, ResearchProfile.read_limits)
                = Research!EdgesFrom(then, from, {"related"}, revision, readable, ResearchProfile.read_limits)

\* A read of an earlier revision, through any snapshot that still answers, tells exactly what the
\* index held at that revision, except that whatever rests on a source version that has been
\* revoked since is withheld (ensure_queryable, resolve, eligible_fact, claim_view).  Rebuilds,
\* new versions, corrections and retractions in between must not show, and a citation is given,
\* or refused, as it would have been then (resolve_citation).
ReadsAsKnown ==
    \A held, revision \in DOMAIN history, reader \in Readers :
       \A generation \in 1..(Latest.generation) :
          LET view == history[held]
          IN  IF index = "pilot"
              THEN EnsureQueryable(view, Len(history), generation) /\ ResolveRevision(view, revision)
                     => PilotAsKnown(view, revision, reader)
              ELSE Research!EnsureQueryable(view, Len(history), generation) /\ Research!Resolve(view, revision)
                     => ResearchAsKnown(view, revision, reader.records)

\* The plan of map_memory_pilot, replayed after a begin, rebuilds the pilot's lifecycle whenever the
\* pilot fits the research contract, and is refused otherwise.
MappingRebuilds ==
    index = "pilot" /\ IsMappable(Latest) =>
       LET replayed == Replay(MapMemoryPilot(Latest))
       IN  /\ (replayed # {}) = FitsResearch(Latest)
           /\ \A r \in replayed : SameLifecycle(Latest, r)
=============================================================================
