--------------------------- MODULE MCApplications ---------------------------
(***************************************************************************)
(* Small instances of the applications above the engine.                   *)
(***************************************************************************)
EXTENDS Integers, Sequences, FiniteSets, TLC

CONSTANTS
    Profile, ResearchProfile, Transactions, Readers, MaxRevision,
    Chunk, MaxBytes, SourceBytes, Uploads, OtherMutations, MaxGeneration, MaxFaults,
    ConsumerWrites, MaxWriteFaults, MaxStored,
    Ids, MaxOperations, MaxReferences, MaxResults, MaxBatchRecords, MaxEntries, MaxFrameDepth,
    MaxJobs, MaxBatches, MaxRows, MaxBatchRows, EvidenceDigest, GraphRequests, Starts, Plans, MaxLog

VARIABLES
    component,      \* which application this behaviour is about
    index, history,
    authority, cleared, db, files, started, adapter, faults,
    store, stored, call, receipts, writeFaults,
    engine, log

Service == INSTANCE MemoryService
Adapter == INSTANCE MemoryAdapter
Producer == INSTANCE ResearchProducer WITH Profile <- ResearchProfile
Importer == INSTANCE Ingest

serviceVars == <<index, history>>
adapterVars == <<authority, cleared, db, files, started, adapter, faults>>
producerVars == <<store, stored, call, receipts, writeFaults>>
importerVars == <<engine, log>>
vars == <<component, serviceVars, adapterVars, producerVars, importerVars>>

Init ==
    /\ component \in {"service", "adapter", "producer", "importer"}
    /\ Service!MemoryInit /\ Adapter!AdapterInit /\ Producer!ProducerInit /\ Importer!IngestInit
    /\ component # "service" => index = "pilot"

ServiceNext ==
    /\ component = "service" /\ Service!MemoryNext
    /\ UNCHANGED <<component, adapterVars, producerVars, importerVars>>

AdapterNext ==
    /\ component = "adapter" /\ Adapter!AdapterNext
    /\ UNCHANGED <<component, serviceVars, producerVars, importerVars>>

ProducerNext ==
    /\ component = "producer" /\ Producer!ProducerNext
    /\ UNCHANGED <<component, serviceVars, adapterVars, importerVars>>

ImporterNext ==
    /\ component = "importer" /\ Importer!IngestNext
    /\ UNCHANGED <<component, serviceVars, adapterVars, producerVars>>

Next == ServiceNext \/ AdapterNext \/ ProducerNext \/ ImporterNext

Spec == Init /\ [][Next]_vars /\ Adapter!AdapterFairness

-----------------------------------------------------------------------------
\* MemoryService: a read of an earlier revision tells what the index held then, less what rests on
\* a source revoked since (ensure_queryable, resolve, eligible_fact, claim_view).
ReadsAsKnown == Service!ReadsAsKnown

\* MemoryService: the plan of map_memory_pilot rebuilds the pilot's lifecycle when the pilot fits
\* the research contract, and is refused otherwise.
MappingRebuilds == Service!MappingRebuilds

\* MemoryAdapter: the outbox commits every source exactly once and clears it only then
\* (finish_pending, reconcile_pending); ResearchProducer: all receipts of an operation agree and
\* nothing is stored again for a committed write (retried_source).
RetriesAreExact == Adapter!OutboxIsExact /\ Producer!ReceiptsAgree

\* MemoryAdapter: a pending source that the database accepts is eventually committed and cleared.
PendingIsSettled == Adapter!PendingIsSettled

\* Ingest: whatever is retried, arrives late or races, every row is accepted once and in order, by
\* requests that were authorized for all they recorded (prepare_batch, collect_import_requirements).
ImportIsExact == Importer!ImportIsExact

\* Ingest: every state the engine reaches is restored from its checkpoint, so no admitted request
\* leaves a job, a binding or a spatial record without the graph records it rests on.
EngineRestores == Importer!EngineRestores

\* MemoryAdapter: the generation of an idle adapter has been begun in its database.
ServesBegunGeneration == Adapter!ServesBegunGeneration

-----------------------------------------------------------------------------
Newline == "n"
Continuation == "t"

SmallPilotProfile ==
    [maximum_logical_state_bytes |-> 60, maximum_source_bytes_per_version |-> 4,
     maximum_text_bytes_per_version |-> 4, maximum_fact_links |-> 2, maximum_source_versions |-> 3,
     maximum_source_bytes |-> 8, maximum_facts |-> 3, maximum_commits |-> 100,
     source_overhead |-> 4, fact_overhead |-> 8, link_bytes |-> 1,
     citation_overhead |-> 1, maximum_query_output_bytes |-> 9,
     read_limits |-> [candidates |-> 4, results |-> 4]]

SmallResearchProfile ==
    [maximum_source_bytes_per_version |-> 4, maximum_artifact_inputs |-> 2, maximum_excerpt_bytes |-> 2,
     maximum_citations_per_claim |-> 2, maximum_source_bytes |-> 8, maximum_sources |-> 2,
     maximum_source_versions |-> 3, maximum_artifacts |-> 1, maximum_claims |-> 3, maximum_edges |-> 2,
     maximum_edges_per_record |-> 1, read_limits |-> [candidates |-> 4, results |-> 4]]

Begin(generation) ==
    [transaction |-> [generation |-> generation, mutation |-> [kind |-> "begin", next_generation |-> generation]],
     inventory |-> <<>>]

InFirst(mutation, inventory) ==
    [transaction |-> [generation |-> 1, mutation |-> mutation], inventory |-> inventory]

(* The pilot: one source, the second version of it text or opaque, and facts, of which one shares the *)
(* id of the source and one cites half a character of the text.                                        *)

Text(version) == IF version = 1 THEN <<"a", Newline, "b">> ELSE <<"a", Continuation, "c">>

PilotSource(id, bytes, text) ==
    InFirst([kind |-> "source", source |-> [id |-> id, blob |-> bytes, exact_utf8 |-> text,
                                            media_type |-> IF text = <<>> THEN "opaque" ELSE "text"]],
            <<{bytes}>>)

PilotFact(id, source, locator, links) ==
    [id |-> id, source |-> source, locator |-> locator, links |-> links, words |-> {id}]

Lines(start, end, first, last) ==
    [kind |-> "lines", start |-> start, end |-> end, first_line |-> first, last_line |-> last]

Bytes(start, end) == [kind |-> "bytes", start |-> start, end |-> end, first_line |-> 0, last_line |-> 0]

FirstFact == PilotFact(11, <<1, 1>>, Lines(2, 3, 2, 2), {})
LinkingFact == PilotFact(12, <<1, 2>>, Bytes(0, 1), {11})
OtherLink == PilotFact(13, <<1, 1>>, Lines(0, 3, 1, 2), {11})
NamedLikeSource == PilotFact(1, <<1, 1>>, Bytes(1, 2), {})

PilotTransactions ==
    {Begin(1), Begin(2),
     PilotSource(<<1, 1>>, Text(1), <<Text(1)>>), PilotSource(<<1, 2>>, Text(2), <<Text(2)>>),
     PilotSource(<<1, 2>>, Text(2), <<>>),
     InFirst([kind |-> "complete"], <<>>)}
    \cup {InFirst([kind |-> "fact", fact |-> fact], <<>>) :
             fact \in {FirstFact, LinkingFact, OtherLink, NamedLikeSource}}
    \cup {InFirst([kind |-> "correct", target |-> 11, fact |-> fact], <<>>) : fact \in {LinkingFact, OtherLink}}
    \cup {InFirst([kind |-> "retract", target |-> 11], <<>>)}
    \cup {InFirst([kind |-> "revoke", source |-> <<1, version>>], <<>>) : version \in {1, 2}}

(* The research index: a source of two versions, an artifact, three claims and two edges *)

ResearchPut(kind, record) == [kind |-> "put", record_kind |-> kind, record |-> record]

ResearchSource(version, outcome, content) ==
    InFirst(ResearchPut("source", [id |-> <<1, version>>, outcome |-> outcome, limit_bytes |-> 3,
                                   content |-> content, retrieved_at |-> version - 1, freshness |-> <<1>>]),
            IF content = <<>> THEN <<>> ELSE <<{content[1]}>>)

Cites(version, start, end) ==
    [source |-> <<1, version>>, locator |-> Bytes(start, end),
     excerpt |-> <<SubSeq(Text(version), start + 1, end)>>, excerpt_digest |-> SubSeq(Text(version), start + 1, end)]

ResearchClaim(id, citations, corrects) ==
    InFirst(ResearchPut("claim", [id |-> id, words |-> {id}, citations |-> citations, corrects |-> corrects,
                                  support |-> IF citations = <<>> THEN "unsupported" ELSE "paraphrase",
                                  valid_from |-> <<0>>, valid_until |-> <<>>]), <<>>)

ResearchEdge(id, from, to, by) ==
    InFirst(ResearchPut("edge", [id |-> id, kind |-> "related", from |-> from, to |-> to, asserted_by |-> by,
                                 valid_from |-> <<>>, valid_until |-> <<>>]), <<>>)

ResearchTransactions ==
    {Begin(1), Begin(2), InFirst([kind |-> "complete"], <<>>),
     ResearchSource(1, "complete", <<Text(1)>>), ResearchSource(2, "truncated", <<Text(2)>>),
     ResearchSource(1, "inaccessible", <<>>),
     InFirst(ResearchPut("artifact", [id |-> 21, inputs |-> <<<<1, 1>>>>, content |-> <<>>]), <<>>),
     ResearchClaim(11, <<Cites(1, 0, 1)>>, <<>>),
     ResearchClaim(12, <<Cites(1, 0, 1), Cites(2, 0, 2)>>, <<11>>), ResearchClaim(13, <<>>, <<>>),
     ResearchEdge(31, 11, 1, 11), ResearchEdge(32, 21, 1, 21),
     InFirst([kind |-> "retract", target |-> 11], <<>>), InFirst([kind |-> "expire", target |-> 12], <<>>)}
    \cup {InFirst([kind |-> "revoke", source |-> <<1, version>>], <<>>) : version \in {1, 2}}

SmallTransactions == [pilot |-> PilotTransactions, research |-> ResearchTransactions]

SmallReaders ==
    {[records |-> {1, 11, 12, 13, 21, 31, 32}, blobs |-> {1}, output |-> 2],
     [records |-> {1, 11, 12, 13, 21, 31, 32}, blobs |-> {}, output |-> 9],
     [records |-> {11, 12, 13, 31}, blobs |-> {1}, output |-> 9]}

(* The adapter: two versions of a source, one chunk and a half and one chunk long *)

SmallSourceBytes == (<<1, 1>> :> Text(1)) @@ (<<1, 2>> :> <<"a", "c">>)

SmallOtherMutations == {[kind |-> "complete"], [kind |-> "revoke", source |-> <<1, 1>>]}

(* The producer: a write and its retry, the same key for another write, and a rebuild *)

Operation(key, transaction) == [key |-> key, transaction |-> transaction]

SmallWrites ==
    {[operation |-> Operation(1, 1), generation |-> 1, mutation |-> Begin(1).transaction.mutation],
     [operation |-> Operation(2, 2), generation |-> 2, mutation |-> Begin(2).transaction.mutation]}
    \cup {[operation |-> Operation(3, transaction), generation |-> generation,
            mutation |-> ResearchSource(1, outcome[1], outcome[2]).transaction.mutation] :
              transaction \in {3, 4}, generation \in {1, 2},
              outcome \in {<<"complete", <<Text(1)>>>>, <<"inaccessible", <<>>>>}}
    \cup {[operation |-> Operation(5, 5), generation |-> 1,
            mutation |-> ResearchClaim(claim, <<>>, <<>>).transaction.mutation] : claim \in {11, 13}}

(* The importer: two jobs over one source, the second one mapped by the source itself.  Entity 2 is *)
(* touched by every import; 5 is a world, 6 its root frame, 7 a frame below it, 8 and 9 observations. *)

SmallIds == 1..9

SmallEvidenceDigest == [id \in SmallIds |-> id]

NewRecord(kind) ==
    [kind |-> kind, ends |-> <<>>, props |-> {}, evidence |-> <<>>, valid |-> TRUE]

CreateOp(id) ==
    [op |-> "create", target |-> id, expected |-> [e |-> "absent"],
     new |-> NewRecord(IF id \in {3, 4} THEN "evidence" ELSE "entity")]

DeleteOp(id) ==
    [op |-> "delete", target |-> id, expected |-> [e |-> "version", version |-> 1],
     cascade |-> FALSE, maximum |-> 0, declared |-> <<>>]

GraphTx(ops) == [scope |-> "this", ops |-> ops, policy |-> <<>>]

Touch ==
    GraphTx(<<[op |-> "replace", target |-> 2, props |-> {},
               expected |-> [e |-> "view", revision |-> 1, predicate |-> "visible", record |-> 2,
                             version |-> 0]]>>)

SmallGraphRequests ==
    {GraphTx([id \in SmallIds |-> CreateOp(id)])} \cup {GraphTx(<<DeleteOp(id)>>) : id \in {1, 7, 8}}

Binding(id) == [evidence |-> id, version |-> 1, blob |-> [id |-> id, digest |-> id]]

JobStart(job, mapping, graph) ==
    [job |-> job, source |-> Binding(3), mapping |-> Binding(mapping), graph |-> graph,
     inventory |-> <<{Binding(3).blob, Binding(mapping).blob}>>]

SmallStarts == {JobStart(1, 4, Touch), JobStart(2, 3, Touch), JobStart(2, 4, GraphTx(<<DeleteOp(9)>>))}

BatchPlan(job, sequence, events, spatial, final) ==
    [job |-> job, sequence |-> sequence, graph |-> Touch, spatial |-> spatial, final |-> final,
     rows |-> [i \in DOMAIN events |-> [event |-> events[i], digest |-> events[i] + i]],
     inventory |-> IF final THEN <<{}>> ELSE <<>>]

C == INSTANCE Spatial

RootFrame(version) == C!Frame(6, version, 5, "local", <<>>)
WorldAndRoot == <<C!World(5, 1, <<6, 1>>), RootFrame(1)>>
NextWorld == <<RootFrame(2), C!World(5, 2, <<6, 2>>)>>
ChildFrame == C!Frame(7, 1, 5, "local", <<[frame |-> <<6, 1>>, transform |-> <<6, 1>>]>>)
Sighting(id, frame, event, corrects) == C!Observation(id, 2, 5, frame, 2, event, 3, "local", corrects)
First == Sighting(8, <<6, 1>>, 1, <<>>)
Place(version, predecessor) == C!Geometry(9, version, 5, <<6, 1>>, "local", predecessor)

SmallPlans ==
    {BatchPlan(1, 1, <<1>>, <<WorldAndRoot>>, FALSE), BatchPlan(1, 1, <<1, 2>>, <<>>, FALSE),
     BatchPlan(1, 2, <<2>>, <<<<First, ChildFrame>>>>, FALSE), BatchPlan(1, 2, <<3>>, <<>>, TRUE),
     BatchPlan(1, 3, <<3>>, <<<<Sighting(9, <<7, 1>>, 2, <<8>>)>>>>, TRUE),
     BatchPlan(1, 3, <<4>>, <<<<Sighting(9, <<7, 1>>, 1, <<>>)>>>>, TRUE),
     BatchPlan(2, 1, <<1>>, <<<<First>>>>, FALSE), BatchPlan(2, 1, <<4>>, <<NextWorld>>, FALSE),
     BatchPlan(2, 2, <<5>>, <<<<First, First>>>>, TRUE),
     BatchPlan(2, 2, <<6>>, <<<<Place(1, <<>>), Place(2, <<<<9, 1>>>>)>>>>, TRUE)}
=============================================================================
