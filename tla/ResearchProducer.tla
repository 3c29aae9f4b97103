-------------------------- MODULE ResearchProducer --------------------------
(***************************************************************************)
(* The producer behind the memory consumer contract                        *)
(* (crates/uste-memory-adapter/src/research.rs).  A write of a source is   *)
(* answered from its recorded outcome if it has one; otherwise its bytes   *)
(* are stored as a new blob and committed with it.  There is no outbox: a  *)
(* crash between the two leaves an unreferenced blob and the consumer      *)
(* writes again under the same operation id.                               *)
(***************************************************************************)
EXTENDS ResearchMemory

CONSTANTS
    ConsumerWrites,             \* the writes consumers make: operation, generation and mutation
    MaxWriteFaults,     \* bound on crashes and unknown outcomes
    MaxStored           \* bound on the blobs ever stored

VARIABLES
    store,      \* the durable state and the committed operations, in order
    stored,     \* blobs stored so far
    call,       \* the write in progress
    receipts,   \* the receipts consumers hold
    writeFaults

producerVars == <<store, stored, call, receipts, writeFaults>>

NoCall == [at |-> "idle"]

ProducerInit ==
    /\ store = [state |-> EmptyResearch, log |-> <<>>]
    /\ stored = 0
    /\ call = NoCall
    /\ receipts = {}
    /\ writeFaults = 0

WriteFault == writeFaults < MaxWriteFaults /\ writeFaults' = writeFaults + 1

IsSourceWrite(write) == write.mutation.kind = "put" /\ write.mutation.record_kind = "source"

\* The recorded outcome of an idempotency key, if any.
OutcomeOf(write) == {i \in DOMAIN store.log : store.log[i].write.operation.key = write.operation.key}

GiveReceipt(write, revision) == receipts' = receipts \cup {[write |-> write, revision |-> revision]}

\* Any version committed under the key will do.
StoredAtAll(write, revision) == write.mutation.record.id \in DOMAIN store.state.sources

\* The committed version is still the requested one, in the requested generation.
StoredMatches(write, revision) ==
    LET source == write.mutation.record
    IN  /\ store.state.generation = write.generation
        /\ source.id \in DOMAIN store.state.sources
        /\ store.state.sources[source.id].recorded_revision = revision
        /\ store.state.sources[source.id].input = source

\* put_source up to the upload, retried_source included.
WriteSource(write) ==
    /\ call = NoCall /\ IsSourceWrite(write)
    /\ (write.mutation.record.outcome = "inaccessible") = (write.mutation.record.content = <<>>)
    /\ ContentBytes(write.mutation.record.content) =< Profile.maximum_source_bytes_per_version
    /\ IF OutcomeOf(write) = {} THEN call' = [at |-> "store", write |-> write, blob |-> 0] /\ UNCHANGED receipts
       ELSE \E revision \in OutcomeOf(write) :
               /\ store.log[revision].write.operation.transaction = write.operation.transaction
               /\ StoredMatches(write, revision)
               /\ GiveReceipt(write, revision)
               /\ UNCHANGED call
    /\ UNCHANGED <<store, stored, writeFaults>>

\* A cancelled write and a failed upload return an error; nothing is committed.
StoreContent ==
    /\ call.at = "store"
    /\ \/ /\ call.write.mutation.record.content = <<>>
          /\ call' = [call EXCEPT !.at = "commit"]
          /\ UNCHANGED stored
       \/ /\ call.write.mutation.record.content # <<>> /\ stored < MaxStored
          /\ stored' = stored + 1
          /\ call' = [call EXCEPT !.at = "commit", !.blob = stored + 1]
       \/ call' = NoCall /\ UNCHANGED stored
    /\ UNCHANGED <<store, receipts, writeFaults>>

\* Every other write is one commit.
WriteOther(write) ==
    /\ call = NoCall /\ ~IsSourceWrite(write)
    /\ write.mutation.kind = "put" /\ write.mutation.record_kind = "artifact"
          => write.mutation.record.content = <<>>
    /\ call' = [at |-> "commit", write |-> write, blob |-> 0]
    /\ UNCHANGED <<store, stored, receipts, writeFaults>>

Inventory(write) ==
    IF IsSourceWrite(write) /\ write.mutation.record.content # <<>> THEN <<{write.mutation.record.content[1]}>> ELSE <<>>

\* A key is answered with its outcome when it repeats the same request, blob included.
RepeatedCommit(write, blob, revision) ==
    /\ store.log[revision] = [write |-> write, blob |-> blob]
    /\ GiveReceipt(write, revision)

Commit ==
    /\ call.at = "commit"
    /\ LET write == call.write
           entry == [write |-> write, blob |-> call.blob]
           revision == Len(store.log) + 1
           next == Apply(store.state, [generation |-> write.generation, mutation |-> write.mutation],
                         Inventory(write), revision)
       IN  \/ /\ OutcomeOf(write) # {}
              /\ \/ \E first \in OutcomeOf(write) : RepeatedCommit(write, call.blob, first)
                 \/ (\A first \in OutcomeOf(write) : store.log[first] # entry) /\ UNCHANGED receipts
              /\ UNCHANGED <<store, writeFaults>>
           \/ OutcomeOf(write) = {} /\ next = {} /\ UNCHANGED <<store, receipts, writeFaults>>
           \/ /\ OutcomeOf(write) = {}
              /\ \E state \in next : store' = [state |-> state, log |-> Append(store.log, entry)]
              /\ \/ GiveReceipt(write, revision) /\ UNCHANGED writeFaults
                 \/ WriteFault /\ UNCHANGED receipts
    /\ call' = NoCall
    /\ UNCHANGED stored

\* The process dies; open recovers the committed state and starts with an empty outbox.
CrashAndOpen ==
    /\ call # NoCall /\ WriteFault
    /\ call' = NoCall
    /\ UNCHANGED <<store, stored, receipts>>

ProducerNext ==
    \/ StoreContent \/ Commit \/ CrashAndOpen
    \/ \E write \in ConsumerWrites : WriteSource(write) \/ WriteOther(write)

ProducerSpec == ProducerInit /\ [][ProducerNext]_producerVars

-----------------------------------------------------------------------------
\* All receipts of one operation name one write and one revision, at which exactly that write was
\* committed, once; and no bytes are stored for a write that is already committed
\* (retried_source, commit), whatever was retried, crashed or had an unknown outcome.
ReceiptsAgree ==
    /\ \A a, b \in receipts : a.write.operation.key = b.write.operation.key => a = b
    /\ \A a \in receipts : store.log[a.revision].write = a.write
    /\ \A i, j \in DOMAIN store.log : store.log[i].write.operation.key = store.log[j].write.operation.key => i = j
    /\ call.at = "store" => OutcomeOf(call.write) = {}
=============================================================================
