----------------------------- MODULE MCStores -----------------------------
(***************************************************************************)
(* Small instances of the two stores that publish files of their own, the  *)
(* checkpoint slots and the streamed blob.  A behaviour is about one of    *)
(* them; the other one stays as it begins.                                 *)
(***************************************************************************)
EXTENDS Checkpoint, TLC

CONSTANTS Full, Partial, NoPiece, NoRef

VARIABLES
    store,         \* which store this behaviour is about
    blobFs, blobTodo, pc, op, up, blobTold, refs, damaged

\* Manifest and chunks of a slot; the staged, final and temporary files of an upload.
SlotNames == {"A", "B"} \X (0..MaxChunks)
UploadNames ==
    ({"tmp", "stg", "fin", "tprog", "prog"} \X (1..MaxChunks))
    \cup ({"man", "wit", "tman", "twit"} \X {"abort", "final"})

Blob == INSTANCE BlobUpload WITH
    Names <- UploadNames, fs <- blobFs, todo <- blobTodo, told <- blobTold

ASSUME
    /\ MaxObjects \in Nat /\ MaxRev \in Nat
    /\ NoPiece \notin Full \cup Partial /\ Full \cap Partial = {}
    /\ FaultModels \subseteq SUBSET {"read", "sync"}

blobVars == <<blobFs, blobTodo, pc, op, up, blobTold, refs, damaged>>

StoresInit ==
    /\ store \in {"blob", "checkpoint"} /\ Init /\ Blob!Init
    /\ store = "blob" => faults = {}

BlobNext == store = "blob" /\ Blob!Next /\ UNCHANGED <<store, vars>>

SlotNext == store = "checkpoint" /\ Next /\ UNCHANGED <<store, blobVars>>

StoresNext == BlobNext \/ SlotNext

StoresSpec == StoresInit /\ [][StoresNext]_<<store, vars, blobVars>>

PieceSymmetry == Permutations(Full)

-----------------------------------------------------------------------------
\* BlobUpload: a token becomes one blob at most, backed by durable chunks, and never an abort
\* as well (recover_terminal_state, finish_upload).
ReferenceIsFinal == Blob!ReferenceIsFinal

\* BlobUpload: bytes reported durable survive every crash until an abort, and no call ever
\* finds its own files damaged (flush_buffer, resume_upload).
DurableBytesSurvive == Blob!DurableBytesSurvive /\ Blob!NeverDamaged
=============================================================================
