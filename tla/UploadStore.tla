---------------------------- MODULE UploadStore ----------------------------
(***************************************************************************)
(* What an upload call does to its handle and to the files of its token,   *)
(* call by call: the results of module BlobUpload, with a blob as a number *)
(* of bytes.  Each operator returns the possible outcomes as a set of      *)
(* [h, d, r]: handle, files, and ok, refused or fault (a storage error).     *)
(***************************************************************************)
EXTENDS Integers, FiniteSets

CONSTANTS
  Chunk,       \* BLOB_CHUNK_BYTES
  MaxBytes     \* MAX_BLOB_BYTES

\* The files of a token: durable bytes, and open, sealed (a final or a partial
\* chunk is durable), final or aborted.
NoBytes == [bytes |-> 0, st |-> "open"]

\* has_durable_resume_evidence.
Evidence(d) == d.st = "final" \/ d.bytes > 0

\* A BlobUpload: bytes accepted and durable, its flags, and whether it still
\* holds its process-wide lease and its buffer.
Fresh == [acc |-> 0, dur |-> 0, sealed |-> FALSE, aborted |-> FALSE,
          resume |-> FALSE, final |-> FALSE, lease |-> TRUE]

Out(h, d, r) == [h |-> h, d |-> d, r |-> r]

\* release_lease drops the buffer with the lease.
Released(h) == [h EXCEPT !.lease = FALSE, !.acc = h.dur]

\* Mutant: a handle that finds its blob final keeps its lease.
SeesFinalKeepsLease(h, d) ==
  [h EXCEPT !.dur = d.bytes, !.acc = d.bytes, !.sealed = TRUE, !.final = TRUE]

\* What a call does when recover_terminal_state finds a final blob or an abort.
SeesFinal(h, d) ==
  Released([h EXCEPT !.dur = d.bytes, !.sealed = TRUE, !.final = TRUE])
SeesAbort(h) == Released([h EXCEPT !.aborted = TRUE])

-----------------------------------------------------------------------------
\* The bytes that fill whole chunks after n more are accepted.
Flushed(h, n) == (h.acc + n) - ((h.acc + n) % Chunk)

\* write_upload: the terminal state first, then chunk by chunk; a failed flush
\* leaves the chunk on disk or not, and asks for a resumption.
Write(h, d, n) ==
  IF h.resume THEN {Out(h, d, "refused")}
  ELSE IF d.st = "aborted" THEN {Out(SeesAbort(h), d, "refused")}
  ELSE IF d.st = "final" THEN {Out(SeesFinal(h, d), d, "refused")}
  ELSE IF h.sealed \/ h.aborted \/ h.acc + n > MaxBytes THEN {Out(h, d, "refused")}
  ELSE {Out([h EXCEPT !.acc = h.acc + n, !.dur = Flushed(h, n)],
            [d EXCEPT !.bytes = Flushed(h, n)], "ok")}
       \cup {Out([h EXCEPT !.acc = x[1], !.dur = x[1] - Chunk, !.resume = TRUE],
                 [d EXCEPT !.bytes = x[2]], "fault") :
             x \in {y \in (1..MaxBytes) \X (0..MaxBytes) :
               /\ y[1] > h.acc /\ y[1] <= h.acc + n /\ y[1] % Chunk = 0
               /\ y[2] \in {y[1] - Chunk, y[1]}}}

\* finish_upload: the rest is flushed, the chunks renamed, the manifest
\* published; a failure can come before and after each.
Finish(h, d) ==
  IF h.resume THEN {}
  ELSE IF d.st = "aborted" THEN {Out(SeesAbort(h), d, "refused")}
  ELSE IF d.st = "final" THEN {Out(SeesFinal(h, d), d, "ok")}
  ELSE IF h.aborted THEN {}
  ELSE LET all == {[bytes |-> h.acc, st |-> "sealed"]}
           kept == IF h.acc % Chunk = 0 THEN all \cup {[bytes |-> h.acc, st |-> d.st]} ELSE all
           fin == [bytes |-> h.acc, st |-> "final"]
           sealed == [h EXCEPT !.dur = h.acc, !.sealed = TRUE]
       IN {Out([Released(sealed) EXCEPT !.final = TRUE], fin, "ok"),
           Out(sealed, fin, "fault")}
          \cup {Out(sealed, x, "fault") : x \in kept}
          \cup (IF h.dur < h.acc
                THEN {Out([h EXCEPT !.resume = TRUE], x, "fault") : x \in {d} \cup all}
                ELSE {})

\* abort_upload: the abort is published, then the chunks are removed; a sealed
\* handle is refused, but learns of an abort first.
Abort(h, d) ==
  IF h.resume THEN {}
  ELSE IF d.st = "final" THEN {Out(SeesFinal(h, d), d, "refused")}
  ELSE IF h.sealed /\ d.st = "aborted" THEN {Out(SeesAbort(h), d, "refused")}
  ELSE IF h.sealed THEN {}
  ELSE LET gone == [bytes |-> 0, st |-> "aborted"]
           left == [d EXCEPT !.st = "aborted"]
           out == Released([h EXCEPT !.aborted = TRUE])
       IN {Out([out EXCEPT !.acc = 0, !.dur = 0], gone, "ok"), Out(out, left, "fault")}
          \cup (IF d.st = "aborted" THEN {}
                ELSE {Out([h EXCEPT !.resume = TRUE], x, "fault") : x \in {d, left}})

\* resume_upload: refused on an abort, a handle without a lease on a final blob.
Resume(d) ==
  IF d.st = "aborted" THEN {}
  ELSE {[Fresh EXCEPT !.acc = d.bytes, !.dur = d.bytes,
                      !.sealed = d.st \in {"sealed", "final"},
                      !.final = d.st = "final", !.lease = d.st # "final"]}
=============================================================================
