---------------------------- MODULE BlobUpload ----------------------------
(***************************************************************************)
(* One streamed blob of crates/uste-storage/src/blob.rs: chunks are staged *)
(* with a progress witness each, renamed to their final names when the     *)
(* upload finishes, and made a blob by a manifest kept in two copies; an   *)
(* abort is a manifest of its own.  Every call first recovers the terminal *)
(* state from the files.  Any file call can fail, and the process or the   *)
(* machine can stop between two of them.                                   *)
(*                                                                         *)
(* A chunk is a piece: its plaintext, digest and length in one.  A         *)
(* reference (length, chunk count, content digest) is the sequence of its  *)
(* pieces.                                                                 *)
(***************************************************************************)
EXTENDS FileOps

CONSTANTS
  Full,        \* pieces of BLOB_CHUNK_BYTES
  Partial,     \* shorter pieces: only the last chunk can be one
  NoPiece,     \* the empty buffer
  NoRef,       \* no reference
  MaxChunks    \* bound: MAX_BLOB_BYTES in chunks

Pieces == Full \cup Partial

VARIABLES
  fs,          \* the blob directory
  todo,        \* the file calls the current operation still makes
  pc,          \* the part of the operation they belong to
  op,          \* the operation, and its piece if it writes one
  up,          \* the BlobUpload handle, or NoRef
  told,        \* history: the most chunks a handle reported durable
  refs,        \* history: the references finish returned
  damaged      \* history: an IntegrityFailure was reported

vars == <<fs, todo, pc, op, up, told, refs, damaged>>

NoOp == [kind |-> "none", piece |-> NoPiece]

Handle(chunks, sealed, final) ==
  [chunks |-> chunks, buf |-> NoPiece, sealed |-> sealed, aborted |-> FALSE,
   resume |-> FALSE, final |-> final]

Init ==
  /\ fs = NoFiles(Names) /\ todo = <<>> /\ pc = "idle" /\ op = NoOp
  /\ up = Handle(<<>>, FALSE, NoRef)
  /\ told = <<>> /\ refs = {} /\ damaged = FALSE

-----------------------------------------------------------------------------
(***************************************************************************)
(* recover_manifest, recover_terminal_state, publish_manifest.             *)
(***************************************************************************)
PublishManifest(f, st, ref) ==
  PublishOnce(f, <<"tman", st>>, <<"man", st>>, ref)
  \o PublishOnce(f, <<"twit", st>>, <<"wit", st>>, ref)

Copies(f, st) == {Read(f, <<w, st>>) : w \in {"man", "wit"}} \ {Hole}

\* A lone copy is published again; both are synchronised.
RecoverManifest(f, st) ==
  Clear(f, <<"tman", st>>) \o Clear(f, <<"twit", st>>)
  \o IF Copies(f, st) = {} THEN <<>>
     ELSE IF Torn \in Copies(f, st) \/ Cardinality(Copies(f, st)) > 1
     THEN <<Fail(<<"man", st>>)>>
     ELSE LET ref == CHOOSE r \in Copies(f, st) : TRUE
              publish(t, n) == IF Exists(f, n) THEN Resync(n)
                               ELSE WriteAndRename(t, n, ref)
          IN publish(<<"tman", st>>, <<"man", st>>)
             \o publish(<<"twit", st>>, <<"wit", st>>)
             \o Resync(<<"man", st>>) \o Resync(<<"wit", st>>)

Aborted(f) == Exists(f, <<"man", "abort">>)
Final(f)   == Exists(f, <<"man", "final">>)

RecoverTerminalState(f) ==
  RecoverManifest(f, "abort") \o RecoverManifest(f, "final")
  \o IF Copies(f, "abort") # {} /\ Copies(f, "final") # {}
     THEN <<Fail(<<"man", "final">>)>> ELSE <<>>

\* The pieces of a final reference, as verify_reference reads them.
Verifies(f, ref) == \A c \in 1..Len(ref) : Read(f, <<"fin", c>>) = ref[c]

-----------------------------------------------------------------------------
\* The calls: write_upload, finish_upload, abort_upload, resume_upload.
Call(kind, piece) ==
  /\ pc = "idle"
  /\ IF kind = "resume" THEN up = NoRef ELSE up # NoRef /\ ~up.resume
  /\ op' = [kind |-> kind, piece |-> piece]
  /\ todo' = RecoverTerminalState(fs) /\ pc' = "terminal"
  /\ UNCHANGED <<fs, up, told, refs, damaged>>

Write(p) == Len(up.chunks) < MaxChunks /\ Call("write", p)

Done(h) == pc' = "idle" /\ todo' = <<>> /\ op' = NoOp /\ up' = h
Goto(q, cmds, h) == pc' = q /\ todo' = cmds /\ up' = h /\ UNCHANGED op

FinalHandle(f) == LET ref == Read(f, <<"man", "final">>) IN Handle(ref, TRUE, ref)

\* Mutant: the staging file is renamed before its bytes are synchronised.
FlushUnsynced(f, c, p) ==
  <<New(<<"tmp", c>>, p), DirSync(<<"tmp", c>>),
    Move(<<"tmp", c>>, <<"stg", c>>), DirSync(<<"stg", c>>)>>
  \o PublishOnce(f, <<"tprog", c>>, <<"prog", c>>, p)

\* flush_buffer: the chunk, then its progress witness.
Flush(f, c, p) ==
  PublishOnce(f, <<"tmp", c>>, <<"stg", c>>, p)
  \o PublishOnce(f, <<"tprog", c>>, <<"prog", c>>, p)

\* Mutant: the manifest is published before the chunks are renamed.
SealManifestFirst(f, ref) ==
  PublishManifest(f, "final", ref)
  \o [c \in 1..Len(ref) |-> Move(<<"stg", c>>, <<"fin", c>>)]
  \o <<DirSync(<<"man", "final">>)>>

\* finish_upload once the last chunk is staged: rename, synchronise, publish.
Seal(f, ref) ==
  LET rename[c \in 0..Len(ref)] ==
        IF c = 0 THEN <<>>
        ELSE rename[c - 1]
             \o IF ~Exists(f, <<"fin", c>>) THEN <<Move(<<"stg", c>>, <<"fin", c>>)>>
                ELSE IF Exists(f, <<"stg", c>>) \/ Read(f, <<"fin", c>>) = Torn
                THEN <<Fail(<<"fin", c>>)>> ELSE <<>>
  IN rename[Len(ref)] \o <<DirSync(<<"man", "final">>)>>
     \o PublishManifest(f, "final", ref)

\* abort_upload after its manifest: drop the staged chunks and their witnesses.
RemoveStaged(f, n) ==
  LET remove[c \in 0..n] ==
        IF c = 0 THEN <<>>
        ELSE remove[c - 1]
             \o (IF Exists(f, <<"stg", c>>) THEN <<Rm(<<"stg", c>>)>> ELSE <<>>)
             \o (IF Exists(f, <<"prog", c>>) THEN <<Rm(<<"prog", c>>)>> ELSE <<>>)
  IN remove[n] \o <<DirSync(<<"man", "abort">>)>>

\* resume_upload for one chunk: drop temporaries, authenticate, synchronise,
\* publish the witness again.
ResumeChunk(f, c) ==
  LET stg == <<"stg", c>>
      fin == <<"fin", c>>
      p   == IF Exists(f, fin) THEN Read(f, fin) ELSE Read(f, stg)
  IN Clear(f, <<"tmp", c>>) \o Clear(f, <<"tprog", c>>)
     \o IF \/ Exists(f, fin) /\ Exists(f, stg)
           \/ p \notin Pieces /\ (Exists(f, fin) \/ Exists(f, stg))
           \/ p \notin Pieces /\ Exists(f, <<"prog", c>>)
        THEN <<Fail(fin)>>
        ELSE IF p \notin Pieces THEN <<>>
        ELSE (IF Exists(f, fin) THEN <<>> ELSE Resync(stg))
             \o IF Exists(f, <<"prog", c>>)
                THEN PublishOnce(f, <<"tprog", c>>, <<"prog", c>>, p)
                ELSE WriteAndRename(<<"tprog", c>>, <<"prog", c>>, p)

Finished == pc = "terminal" /\ todo = <<>>
Keep == UNCHANGED <<fs, damaged>>

AfterWrite ==
  /\ Finished /\ op.kind = "write" /\ Keep /\ UNCHANGED <<told, refs>>
  /\ IF Aborted(fs) THEN Done([up EXCEPT !.aborted = TRUE, !.buf = NoPiece])
     ELSE IF Final(fs) THEN Done(FinalHandle(fs))
     ELSE IF up.sealed \/ up.aborted THEN Done(up)
     ELSE IF op.piece \in Partial THEN Done([up EXCEPT !.buf = op.piece])
     ELSE Goto("flush", Flush(fs, Len(up.chunks) + 1, op.piece),
               [up EXCEPT !.buf = op.piece])

AfterFinish ==
  /\ Finished /\ op.kind = "finish" /\ Keep /\ UNCHANGED told
  /\ IF Aborted(fs) THEN Done([up EXCEPT !.aborted = TRUE, !.buf = NoPiece])
                         /\ UNCHANGED refs
     ELSE IF Final(fs)
     THEN /\ Done(FinalHandle(fs))
          /\ refs' = refs \cup {Read(fs, <<"man", "final">>)}
     ELSE /\ UNCHANGED refs
          /\ IF up.aborted \/ up.final # NoRef THEN Done(up)
             ELSE IF ~up.sealed /\ up.buf # NoPiece
             THEN Goto("flush", Flush(fs, Len(up.chunks) + 1, up.buf), up)
             ELSE Goto("seal", Seal(fs, up.chunks), [up EXCEPT !.sealed = TRUE])

AfterAbort ==
  /\ Finished /\ op.kind = "abort" /\ Keep /\ UNCHANGED <<told, refs>>
  /\ IF Final(fs) THEN Done(FinalHandle(fs))
     ELSE IF Aborted(fs)
     THEN IF up.sealed THEN Done([up EXCEPT !.aborted = TRUE, !.buf = NoPiece])
          ELSE Goto("remove", RemoveStaged(fs, Len(up.chunks)),
                    [up EXCEPT !.aborted = TRUE, !.buf = NoPiece])
     ELSE IF up.sealed THEN Done(up)
     ELSE Goto("abort", PublishManifest(fs, "abort", <<>>), up)

AfterResume ==
  /\ Finished /\ op.kind = "resume" /\ Keep /\ UNCHANGED <<told, refs>>
  /\ IF Aborted(fs) THEN Done(NoRef)
     ELSE IF Final(fs) THEN Done(FinalHandle(fs))
     ELSE Goto("resume", ResumeChunk(fs, 1), Handle(<<>>, FALSE, NoRef))

\* update_upload_after_flush, then the rest of the call.
Flushed ==
  /\ pc = "flush" /\ todo = <<>> /\ Keep /\ UNCHANGED refs
  /\ LET h == [up EXCEPT !.chunks = Append(up.chunks, up.buf), !.buf = NoPiece] IN
     /\ told' = IF Len(h.chunks) > Len(told) THEN h.chunks ELSE told
     /\ IF op.kind = "write" THEN Done(h)
        ELSE Goto("seal", Seal(fs, h.chunks), [h EXCEPT !.sealed = TRUE])

Sealed ==
  /\ pc = "seal" /\ todo = <<>> /\ Keep /\ UNCHANGED told
  /\ refs' = refs \cup {up.chunks}
  /\ Done([up EXCEPT !.final = up.chunks])

AbortPublished ==
  /\ pc = "abort" /\ todo = <<>> /\ Keep /\ UNCHANGED <<told, refs>>
  /\ Goto("remove", RemoveStaged(fs, Len(up.chunks)),
          [up EXCEPT !.aborted = TRUE, !.buf = NoPiece])

Removed ==
  /\ pc = "remove" /\ todo = <<>> /\ Keep /\ UNCHANGED <<told, refs>>
  /\ Done([up EXCEPT !.chunks = <<>>])

\* One more chunk is authenticated, or the loop ends.
Resumed ==
  /\ pc = "resume" /\ todo = <<>> /\ Keep /\ UNCHANGED <<told, refs>>
  /\ LET c == Len(up.chunks) + 1
         fin == <<"fin", c>>
         p == IF Exists(fs, fin) THEN Read(fs, fin) ELSE Read(fs, <<"stg", c>>)
         h == [up EXCEPT !.chunks = Append(up.chunks, p),
                         !.sealed = up.sealed \/ Exists(fs, fin) \/ p \in Partial]
     IN IF p = Hole THEN Done(up)
        ELSE IF p \in Partial \/ c = MaxChunks THEN Done(h)
        ELSE Goto("resume", ResumeChunk(fs, c + 1), h)

-----------------------------------------------------------------------------
\* One file call of the operation in progress.
Step ==
  /\ todo # <<>> /\ Possible(fs, Head(todo))
  /\ fs' = Apply(fs, Head(todo)) /\ todo' = Tail(todo)
  /\ UNCHANGED <<pc, op, up, told, refs, damaged>>

\* The error exits: a flush or an abort that failed has to be resumed, a
\* failed resume leaves no handle.
Exit ==
  Done(IF pc = "resume" \/ op.kind = "resume" THEN NoRef
       ELSE IF pc \in {"flush", "abort"} THEN [up EXCEPT !.resume = TRUE] ELSE up)

StepFails ==
  /\ todo # <<>> /\ fs' \in Failed(fs, Head(todo))
  /\ damaged' = (damaged \/ Head(todo).op = "fail")
  /\ Exit
  /\ UNCHANGED <<told, refs>>

\* The caller drops the handle; the process or the machine stops.
Drop ==
  /\ pc = "idle" /\ up # NoRef /\ up' = NoRef
  /\ UNCHANGED <<fs, todo, pc, op, told, refs, damaged>>

Crash ==
  /\ fs' \in Crashed(fs)
  /\ Done(NoRef)
  /\ UNCHANGED <<told, refs, damaged>>

Next ==
  \/ \E p \in Pieces : up # NoRef /\ Write(p)
  \/ \E k \in {"finish", "abort", "resume"} : Call(k, NoPiece)
  \/ AfterWrite \/ AfterFinish \/ AfterAbort \/ AfterResume
  \/ Flushed \/ Sealed \/ AbortPublished \/ Removed \/ Resumed
  \/ Step \/ StepFails \/ Drop \/ Crash

Spec == Init /\ [][Next]_vars

-----------------------------------------------------------------------------
(***************************************************************************)
(* Properties.                                                             *)
(***************************************************************************)

\* No operation of the store, however interrupted and retried, reports an
\* IntegrityFailure about its own files (blob.rs:625-730, 1101-1217).
NeverDamaged == ~damaged

\* A token becomes one blob at most, with one content for ever, and never both
\* a blob and an abort (recover_terminal_state, blob.rs:1180-1217).  A final
\* manifest a crash may leave is backed: each chunk it counts is durable under
\* its final name (finish_upload, blob.rs:576-609).
ReferenceIsFinal ==
  /\ \A n \in {"man", "wit"} \X {"final"} :
       \A ref \in {Read(fs, n), Safe(fs, n)} \ {Hole, Torn} :
         \A c \in 1..Len(ref) : Safe(fs, <<"fin", c>>) = ref[c]
  /\ \A r \in refs : Safe(fs, <<"man", "final">>) = r /\ Verifies(fs, r)
  /\ ~(Copies(fs, "final") # {} /\ Copies(fs, "abort") # {})

\* Bytes a handle reported durable survive any crash until the upload is
\* aborted: each chunk keeps its content, staged or final
\* (BlobUpload::durable_bytes, flush_buffer).
DurableBytesSurvive ==
  Copies(fs, "abort") = {} =>
    \A c \in 1..Len(told) :
      told[c] \in {Safe(fs, <<"stg", c>>), Safe(fs, <<"fin", c>>)}
=============================================================================
