--------------------------- MODULE MemoryAdapter ---------------------------
(***************************************************************************)
(* The local memory adapter (crates/uste-memory-adapter/src/lib.rs): it    *)
(* moves source versions from a consumer's store into a memory-pilot-v1    *)
(* database through an outbox that the consumer keeps.  A source is        *)
(* ingested in steps that can each fail, and between any two of which the  *)
(* process can die: start an upload, have the consumer persist the pending *)
(* record, write and finish the blob, commit the source, have the record   *)
(* cleared.  `open' finishes whatever the outbox still holds.              *)
(*                                                                         *)
(* The consumer's calls are external to the repository: they may fail      *)
(* before or after taking effect.  The database is used through its        *)
(* promises: a commit is atomic, an unknown outcome is either of two, and  *)
(* a repeated operation returns its first outcome.                         *)
(***************************************************************************)
EXTENDS MemoryPilot, UploadStore

CONSTANTS
    SourceBytes,    \* the immutable bytes of each source version of the consumer
    Uploads,        \* the tokens of the uploads that are ever started
    OtherMutations, \* mutations that are committed besides sources
    MaxGeneration,  \* bound on the consumer's generations
    MaxFaults       \* bound on crashes and failed calls

VARIABLES
    authority,      \* the consumer's checkpoint: generation and pending records
    cleared,        \* pending records that the consumer has removed
    db,             \* the database: its state and the operations committed, in order
    files,          \* the upload files of each token
    started,        \* the tokens handed out so far
    adapter,        \* the adapter in this process
    faults

adapterVars == <<authority, cleared, db, files, started, adapter, faults>>

\* An adapter is closed, idle, or at a step of ingest_source or of open.
Closed == [at |-> "closed"]
Idle(generation, poisoned) == [at |-> "idle", generation |-> generation, poisoned |-> poisoned]
Busy(call, at, generation, pending, h) ==
    [at |-> at, call |-> call, generation |-> generation, pending |-> pending, h |-> h]

AdapterInit ==
    /\ authority = [generation |-> 1, pending |-> <<>>]
    /\ cleared = {}
    /\ db = [exists |-> FALSE, state |-> EmptyPilot, log |-> <<>>]
    /\ files = [t \in Uploads |-> NoBytes]
    /\ started = {}
    /\ adapter = Closed
    /\ faults = 0

Fault == faults < MaxFaults /\ faults' = faults + 1

\* An error ends ingest_source in an adapter that stays usable, and open in none.
Failed == IF adapter.call = "open" THEN Closed ELSE Idle(adapter.generation, FALSE)

-----------------------------------------------------------------------------
(* Commits *)

\* The name of a blob is derived from the token of its upload.
Request(operation, generation, mutation, inventory, tokens) ==
    [operation |-> operation, transaction |-> [generation |-> generation, mutation |-> mutation],
     inventory |-> inventory, blobs |-> tokens]

Recorded(request) == {i \in DOMAIN db.log : db.log[i].operation = request.operation}

Publish(request, state) == [db EXCEPT !.state = state, !.log = Append(@, request)]

\* A known operation returns its outcome, or conflicts with a different request.
CommitMutation(request) ==
    IF Recorded(request) # {}
    THEN {[db |-> db, r |-> IF \E i \in Recorded(request) : db.log[i] = request THEN "ok" ELSE "refused"]}
    ELSE LET next == Apply(db.state, request.transaction, request.inventory, Len(db.log) + 1)
         IN  IF next = {} THEN {[db |-> db, r |-> "refused"]}
             ELSE {[db |-> Publish(request, s), r |-> r] : s \in next, r \in {"ok", "unknown"}}
                  \cup {[db |-> db, r |-> "unknown"]}

Known(outcome) == outcome.r # "unknown" /\ UNCHANGED faults

\* After an unknown outcome the coordinator answers nothing until it is opened again.
Unknown(outcome) == outcome.r = "unknown" /\ Fault

-----------------------------------------------------------------------------
(* create and open *)

Create ==
    /\ ~db.exists /\ adapter = Closed /\ authority.pending = <<>>
    /\ db' = [db EXCEPT !.exists = TRUE]
    /\ adapter' = [at |-> "create", generation |-> authority.generation]
    /\ UNCHANGED <<authority, cleared, files, started, faults>>

Begin(generation) ==
    Request(<<"begin", generation, <<>>>>, generation, [kind |-> "begin", next_generation |-> generation], <<>>, {})

CreateBegin ==
    /\ adapter.at = "create"
    /\ \E outcome \in CommitMutation(Begin(adapter.generation)) :
          /\ db' = outcome.db
          /\ adapter' = IF outcome.r = "ok" THEN Idle(adapter.generation, FALSE) ELSE Closed
          /\ Known(outcome) \/ Unknown(outcome)
    /\ UNCHANGED <<authority, cleared, files, started>>

\* Nothing of the outbox is finished.
SkipOutbox(pending) == "reconcile"

WorkOffOutbox(pending) == IF pending = <<>> THEN "reconcile" ELSE "resume"

\* reconcile_pending starts with the outbox as it was read.
Open ==
    /\ db.exists /\ adapter = Closed
    /\ adapter' = Busy("open", WorkOffOutbox(authority.pending), authority.generation,
                       authority.pending, Fresh)
    /\ UNCHANGED <<authority, cleared, db, files, started, faults>>

Token == adapter.pending[1].token
Bytes(pending) == SourceBytes[pending.source]

ResumePending ==
    /\ adapter.at = "resume"
    /\ \/ \E h \in Resume(files[Token]) : adapter' = [adapter EXCEPT !.at = "write", !.h = h] /\ UNCHANGED faults
       \/ Fault /\ adapter' = Closed
    /\ UNCHANGED <<authority, cleared, db, files, started>>

\* complete_recovered_upload_reconciliation.
CompleteReconciliation ==
    /\ adapter.at = "reconcile"
    /\ \/ adapter' = Idle(adapter.generation, FALSE) /\ UNCHANGED faults
       \/ Fault /\ adapter' = Closed
    /\ UNCHANGED <<authority, cleared, db, files, started>>

-----------------------------------------------------------------------------
(* ingest_source and finish_pending *)

IngestSource(source, token) ==
    /\ adapter.at = "idle" /\ ~adapter.poisoned
    /\ authority.generation = adapter.generation
    /\ authority.pending = <<>>
    /\ token \notin started
    /\ started' = started \cup {token}
    /\ adapter' = Busy("ingest", "persist", adapter.generation,
                       <<[token |-> token, source |-> source,
                          operation |-> <<"source", adapter.generation, source>>]>>, Fresh)
    /\ UNCHANGED <<authority, cleared, db, files, faults>>

PersistPending ==
    /\ adapter.at = "persist"
    /\ \/ /\ authority' = [authority EXCEPT !.pending = adapter.pending]
          /\ adapter' = [adapter EXCEPT !.at = "write"]
          /\ UNCHANGED faults
       \/ /\ Fault /\ adapter' = Failed
          /\ \/ UNCHANGED authority
             \/ authority' = [authority EXCEPT !.pending = adapter.pending]
    /\ UNCHANGED <<cleared, db, files, started>>

\* The rest of the bytes, chunk by chunk; a longer accepted prefix is SourceChanged.
WriteUpload ==
    /\ adapter.at = "write"
    /\ LET rest == Len(Bytes(adapter.pending[1])) - adapter.h.acc
       IN  IF rest =< 0
           THEN /\ adapter' = IF rest < 0 THEN Failed ELSE [adapter EXCEPT !.at = "finish"]
                /\ UNCHANGED <<files, faults>>
           ELSE \E o \in Write(adapter.h, files[Token], rest) :
                   /\ files' = [files EXCEPT ![Token] = o.d]
                   /\ IF o.r = "fault" THEN Fault ELSE UNCHANGED faults
                   /\ adapter' = IF o.r = "ok" THEN [adapter EXCEPT !.at = "finish", !.h = o.h] ELSE Failed
    /\ UNCHANGED <<authority, cleared, db, started>>

\* A finished blob of another length is SourceChanged.
FinishUpload ==
    /\ adapter.at = "finish"
    /\ \E o \in Finish(adapter.h, files[Token]) :
          /\ files' = [files EXCEPT ![Token] = o.d]
          /\ IF o.r = "fault" THEN Fault ELSE UNCHANGED faults
          /\ adapter' = IF o.r = "ok" /\ o.d.bytes = Len(Bytes(adapter.pending[1]))
                        THEN [adapter EXCEPT !.at = "commit", !.h = o.h] ELSE Failed
    /\ UNCHANGED <<authority, cleared, db, started>>

PutRequest(pending, generation) ==
    Request(pending.operation, generation,
            [kind |-> "source", source |-> [id |-> pending.source, blob |-> Bytes(pending),
                                            media_type |-> "text", exact_utf8 |-> <<Bytes(pending)>>]],
            <<{Bytes(pending)}>>, {pending.token})

CommitSource ==
    /\ adapter.at = "commit"
    /\ \E outcome \in CommitMutation(PutRequest(adapter.pending[1], adapter.generation)) :
          /\ db' = outcome.db
          /\ \/ Known(outcome) /\ adapter' = IF outcome.r = "ok" THEN [adapter EXCEPT !.at = "clear"] ELSE Failed
             \/ /\ Unknown(outcome)
                /\ adapter' = IF adapter.call = "open" THEN Closed ELSE Idle(adapter.generation, TRUE)
    /\ UNCHANGED <<authority, cleared, files, started>>

\* After the last pending record `open' completes the reconciliation.
AfterClear == IF adapter.call = "open" THEN [adapter EXCEPT !.at = "reconcile"] ELSE Idle(adapter.generation, FALSE)

Clear ==
    /\ authority' = [authority EXCEPT !.pending = <<>>]
    /\ cleared' = cleared \cup Range(adapter.pending)

ClearPending ==
    /\ adapter.at = "clear"
    /\ \/ Clear /\ adapter' = AfterClear /\ UNCHANGED faults
       \/ Fault /\ adapter' = Failed /\ (Clear \/ UNCHANGED <<authority, cleared>>)
    /\ UNCHANGED <<db, files, started>>

-----------------------------------------------------------------------------
(* The other calls *)

\* put_fact, correct_fact, revoke_source, complete_rebuild.
CommitOther(mutation) ==
    /\ adapter.at = "idle" /\ ~adapter.poisoned
    /\ \E outcome \in CommitMutation(Request(<<mutation.kind, adapter.generation, <<>>>>, adapter.generation,
                                             mutation, <<>>, {})) :
          /\ outcome.db # db
          /\ db' = outcome.db
          /\ \/ Known(outcome) /\ UNCHANGED adapter
             \/ Unknown(outcome) /\ adapter' = Idle(adapter.generation, TRUE)
    /\ UNCHANGED <<authority, cleared, files, started>>

\* The consumer approves the next generation before it asks for the rebuild.  A call of the adapter
\* borrows the authority, so this happens between calls.
ApproveGeneration ==
    /\ adapter.at \in {"closed", "idle"}
    /\ db.exists /\ authority.pending = <<>> /\ authority.generation < MaxGeneration
    /\ authority' = [authority EXCEPT !.generation = @ + 1]
    /\ UNCHANGED <<cleared, db, files, started, adapter, faults>>

StartRebuild ==
    /\ adapter.at = "idle" /\ ~adapter.poisoned
    /\ authority.pending = <<>>
    /\ adapter.generation + 1 = authority.generation
    /\ \E outcome \in CommitMutation(Begin(authority.generation)) :
          /\ db' = outcome.db
          /\ \/ Known(outcome) /\ adapter' = IF outcome.r = "ok" THEN Idle(authority.generation, FALSE) ELSE adapter
             \/ Unknown(outcome) /\ adapter' = Idle(adapter.generation, TRUE)
    /\ UNCHANGED <<authority, cleared, files, started>>

Close ==
    /\ adapter.at = "idle"
    /\ adapter' = Closed
    /\ UNCHANGED <<authority, cleared, db, files, started, faults>>

Crash ==
    /\ adapter # Closed
    /\ Fault
    /\ adapter' = Closed
    /\ UNCHANGED <<authority, cleared, db, files, started>>

\* The steps of a call that has begun.
Progress ==
    CreateBegin \/ ResumePending \/ CompleteReconciliation \/ PersistPending \/ WriteUpload
    \/ FinishUpload \/ CommitSource \/ ClearPending

AdapterNext ==
    \/ Create \/ Open \/ Progress \/ StartRebuild \/ Close \/ Crash \/ ApproveGeneration
    \/ \E source \in DOMAIN SourceBytes, token \in Uploads : IngestSource(source, token)
    \/ \E mutation \in OtherMutations : CommitOther(mutation)

\* A call runs on, and a consumer with a pending record opens the adapter again.
AdapterFairness ==
    /\ WF_adapterVars(Progress)
    /\ WF_adapterVars(Open)
    /\ WF_adapterVars(authority.pending # <<>> /\ Close)

AdapterSpec == AdapterInit /\ [][AdapterNext]_adapterVars /\ AdapterFairness

-----------------------------------------------------------------------------
CommitsOf(pending) ==
    {i \in DOMAIN db.log : db.log[i].operation = pending.operation /\ db.log[i].blobs = {pending.token}}

\* Whatever fails in between, and however often the outbox is worked off again: a source version is
\* committed at most once in a generation, with the consumer's exact bytes in a finished blob, and a
\* pending record is cleared only once its source is committed (finish_pending, reconcile_pending).
OutboxIsExact ==
    /\ \A i, j \in DOMAIN db.log : db.log[i].operation = db.log[j].operation => i = j
    /\ \A p \in cleared : Cardinality(CommitsOf(p)) = 1
    /\ \A p \in cleared \cup Range(authority.pending) : \A i \in CommitsOf(p) :
          /\ db.log[i].transaction.mutation.source.blob = Bytes(p)
          /\ files[p.token] = [bytes |-> Len(Bytes(p)), st |-> "final"]

\* What the reducer asks of a pending source that is not committed yet.
IsSettleable(p) ==
    \/ CommitsOf(p) # {}
    \/ /\ db.state.generation = authority.generation
       /\ p.operation[2] = authority.generation
       /\ p.source[2] = NextVersion(db.state, p.source[1])
       /\ \A i \in DOMAIN db.log : db.log[i].operation # p.operation

\* A pending source that the database can accept is eventually committed and cleared, however the
\* calls failed, as long as the failures end and the consumer opens the adapter again.
PendingIsSettled ==
    (authority.pending # <<>> /\ \A p \in Range(authority.pending) : IsSettleable(p)) ~> (authority.pending = <<>>)

\* The generation an adapter serves has been begun in its database.
ServesBegunGeneration == adapter.at = "idle" => db.state.generation >= adapter.generation
=============================================================================
