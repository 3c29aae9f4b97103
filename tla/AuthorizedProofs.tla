-------------------------- MODULE AuthorizedProofs --------------------------
(***************************************************************************)
(* Theorems about the authorization facades: what module Authorized checks *)
(* on a small instance, for every policy, size, quota and number of        *)
(* principals, tokens, handles and facades.                                *)
(***************************************************************************)
EXTENDS Authorized, TLAPS

IoType ==
  [acc : Int, dur : Int, sealed : BOOLEAN, aborted : BOOLEAN,
   resume : BOOLEAN, final : BOOLEAN, lease : BOOLEAN]
FileType == [bytes : Int, st : {"open", "sealed", "final", "aborted"}]
ChargeType == [who : Principals, acc : Int, final : BOOLEAN, live : Nat]
LeaseType ==
  [who : Principals, scope : {Scope}, action : {"StartUpload", "ResumeUpload"},
   version : Nat, id : Nat]
HandleType ==
  [tok : Tokens, who : Principals, facade : Nat, lease : LeaseType,
   open : BOOLEAN, io : IoType]
DoubtType ==
  [who : Principals, inv : SUBSET Tokens, change : {0} \cup DOMAIN Policies]
Orphan ==
  [tok |-> "orphan", facade |-> 0, open |-> FALSE, who |-> "none", io |-> Fresh]

TypeOK ==
  /\ pol \in DOMAIN Policies /\ dpol \in DOMAIN Policies
  /\ facade \in Nat /\ kid \in Nat /\ (up => facade >= 1)
  /\ doubt \in {NoDoubt} \cup DoubtType
  /\ staged \in [Tokens -> {NoCharge} \cup ChargeType]
  /\ committed \in [Tokens -> {"none"} \cup Principals]
  /\ owners \in [Tokens -> {"none"} \cup Principals]
  /\ files \in [Tokens -> FileType]
  /\ outbox \subseteq Tokens
  /\ handles \in [Slots -> {NoHandle, Orphan} \cup HandleType]

\* The kernel's policy, also while a commit is in doubt.
PolicyInv == kind # "memory_plain" => pol = dpol

Terminal(d) == d.st \in {"final", "aborted"}

\* What the state io of a handle says of its lease, of its buffer and of the
\* files d of its token.
IoFits(io, d) ==
  /\ io.lease <=> ~Settled(io)
  /\ io.final => d.st = "final"
  /\ io.aborted => d.st = "aborted"
  /\ io.acc - io.dur \in 0..(IF io.lease THEN Chunk ELSE 0)

\* What a handle h of the current facade knows of its token: d are the token's
\* files and c its charge.  Until the files are final or aborted the
\* charge belongs to this handle and is not below what the handle accepted.
HandleFits(h, f, u, out, d, c) ==
  /\ u /\ h.facade = f /\ h.tok \in out
  /\ ~Terminal(d) => h.open /\ c # NoCharge /\ c.live = 1 /\ c.acc >= h.io.acc

HandlesInv ==
  /\ \A s \in Slots : handles[s] \in HandleType =>
       HandleFits(handles[s], facade, up, outbox, files[handles[s].tok], staged[handles[s].tok])
  /\ \A r, s \in Slots :
       r # s /\ handles[r] \in HandleType /\ handles[s] \in HandleType
         /\ handles[r].tok = handles[s].tok => Terminal(files[handles[s].tok])

LedgerInv ==
  /\ Memory => committed = owners
  /\ allow => up
  /\ \A t \in Tokens : t \notin outbox => files[t] = NoBytes
  /\ \A t \in Tokens : owners[t] # "none" => files[t].st = "final"
  /\ \A t \in Tokens : staged[t] # NoCharge /\ staged[t].final => files[t].st = "final"
  /\ doubt # NoDoubt => \A t \in doubt.inv : files[t].st = "final"
  /\ allow => \A t \in Unresolved : staged[t] # NoCharge /\ staged[t].acc >= files[t].bytes

-----------------------------------------------------------------------------
LEMMA FreshTyped == Fresh \in IoType
BY SMTT(30) DEF Fresh, IoType

LEMMA FreshFits ==
  ASSUME NEW d
  PROVE  IoFits(Fresh, d)
BY ByteAssumption, SMTT(30) DEF Fresh, IoFits, Settled

\* An update that leaves alone the lease and what the handle knows of the end.
SameEnd(h, g) == g.lease = h.lease /\ g.final = h.final /\ g.aborted = h.aborted

\* The updates that the calls make to a handle's state keep its type, and what
\* they leave of what it accepted.
LEMMA IoFlags ==
  ASSUME NEW h \in IoType
  PROVE  /\ [h EXCEPT !.aborted = TRUE] \in IoType
         /\ [h EXCEPT !.resume = TRUE] \in IoType /\ [h EXCEPT !.resume = TRUE].acc = h.acc
         /\ SameEnd(h, [h EXCEPT !.resume = TRUE]) /\ [h EXCEPT !.resume = TRUE].dur = h.dur
         /\ [h EXCEPT !.final = TRUE] \in IoType /\ [h EXCEPT !.final = TRUE].acc = h.acc
<1>1. /\ [h EXCEPT !.aborted = TRUE] \in IoType /\ [h EXCEPT !.resume = TRUE] \in IoType
      /\ [h EXCEPT !.final = TRUE] \in IoType
  BY Zenon DEF IoType
<1>2. [h EXCEPT !.resume = TRUE].acc = h.acc /\ [h EXCEPT !.final = TRUE].acc = h.acc
  BY SMTT(30) DEF IoType
<1>3. SameEnd(h, [h EXCEPT !.resume = TRUE]) /\ [h EXCEPT !.resume = TRUE].dur = h.dur
  BY Zenon DEF IoType, SameEnd
<1> QED BY Zenon, <1>1, <1>2, <1>3

LEMMA ReleasedTyped ==
  ASSUME NEW h \in IoType
  PROVE  Released(h) \in IoType /\ Released(h).acc = h.dur
<1>1. Released(h) \in IoType
  BY Zenon DEF IoType, Released
<1>2. Released(h).acc = h.dur
  BY SMTT(30) DEF IoType, Released
<1> QED BY Zenon, <1>1, <1>2

LEMMA IoWritten ==
  ASSUME NEW h \in IoType, NEW a \in Int, NEW b \in Int
  PROVE  /\ [h EXCEPT !.acc = a, !.dur = b] \in IoType
         /\ [h EXCEPT !.acc = a, !.dur = b].acc = a
         /\ [h EXCEPT !.acc = a, !.dur = b].dur = b /\ SameEnd(h, [h EXCEPT !.acc = a, !.dur = b])
<1>1. [h EXCEPT !.acc = a, !.dur = b] \in IoType
  BY Zenon DEF IoType
<1>2. [h EXCEPT !.acc = a, !.dur = b].acc = a
  BY SMTT(30) DEF IoType
<1>3. [h EXCEPT !.acc = a, !.dur = b].dur = b /\ SameEnd(h, [h EXCEPT !.acc = a, !.dur = b])
  BY Zenon DEF IoType, SameEnd
<1> QED BY Zenon, <1>1, <1>2, <1>3

LEMMA IoFailed ==
  ASSUME NEW h \in IoType, NEW a \in Int, NEW b \in Int
  PROVE  /\ [h EXCEPT !.acc = a, !.dur = b, !.resume = TRUE] \in IoType
         /\ [h EXCEPT !.acc = a, !.dur = b, !.resume = TRUE].acc = a
         /\ [h EXCEPT !.acc = a, !.dur = b, !.resume = TRUE].dur = b /\ SameEnd(h, [h EXCEPT !.acc = a, !.dur = b, !.resume = TRUE])
<1>1. [h EXCEPT !.acc = a, !.dur = b, !.resume = TRUE] \in IoType
  BY Zenon DEF IoType
<1>2. [h EXCEPT !.acc = a, !.dur = b, !.resume = TRUE].acc = a
  BY SMTT(30) DEF IoType
<1>3. [h EXCEPT !.acc = a, !.dur = b, !.resume = TRUE].dur = b /\ SameEnd(h, [h EXCEPT !.acc = a, !.dur = b, !.resume = TRUE])
  BY Zenon DEF IoType, SameEnd
<1> QED BY Zenon, <1>1, <1>2, <1>3

LEMMA IoSealed ==
  ASSUME NEW h \in IoType, NEW a \in Int
  PROVE  /\ [h EXCEPT !.dur = a, !.sealed = TRUE] \in IoType
         /\ [h EXCEPT !.dur = a, !.sealed = TRUE].acc = h.acc
         /\ [h EXCEPT !.dur = a, !.sealed = TRUE].dur = a
         /\ SameEnd(h, [h EXCEPT !.dur = a, !.sealed = TRUE])
         /\ [h EXCEPT !.dur = a, !.sealed = TRUE, !.final = TRUE] \in IoType
<1>1. [h EXCEPT !.dur = a, !.sealed = TRUE] \in IoType
  BY Zenon DEF IoType
<1>2. [h EXCEPT !.dur = a, !.sealed = TRUE, !.final = TRUE] \in IoType
  BY Zenon DEF IoType
<1>3. /\ [h EXCEPT !.dur = a, !.sealed = TRUE].acc = h.acc
      /\ [h EXCEPT !.dur = a, !.sealed = TRUE].dur = a
  BY SMTT(30) DEF IoType
<1>4. SameEnd(h, [h EXCEPT !.dur = a, !.sealed = TRUE])
  BY Zenon DEF IoType, SameEnd
<1> QED BY Zenon, <1>1, <1>2, <1>3, <1>4

LEMMA SeesTyped ==
  ASSUME NEW h \in IoType, NEW d \in FileType
  PROVE  SeesAbort(h) \in IoType /\ SeesFinal(h, d) \in IoType
<1>1. [h EXCEPT !.aborted = TRUE] \in IoType
  BY Zenon, IoFlags
<1>2. d.bytes \in Int
  BY DEF FileType
<1>3. [h EXCEPT !.dur = d.bytes, !.sealed = TRUE, !.final = TRUE] \in IoType
  BY Zenon, <1>2, IoSealed
<1> QED BY Zenon, <1>1, <1>3, ReleasedTyped DEF SeesAbort, SeesFinal

\* The files that a call leaves.
LEMMA FileBytes ==
  ASSUME NEW d \in FileType, NEW b \in Int
  PROVE  /\ [d EXCEPT !.bytes = b] \in FileType
         /\ [d EXCEPT !.bytes = b].bytes = b /\ [d EXCEPT !.bytes = b].st = d.st
BY SMTT(30) DEF FileType

LEMMA Remainder ==
  ASSUME NEW x \in Int
  PROVE  x % Chunk \in Nat /\ x % Chunk < Chunk
BY SMTT(30), ByteAssumption

\* The fields of a handle's state after the updates that the calls make.
LEMMA ReleasedFits ==
  ASSUME NEW h \in IoType, NEW d, Settled(h), h.final => d.st = "final", h.aborted => d.st = "aborted"
  PROVE  IoFits(Released(h), d)
<1>1. /\ Released(h).lease = FALSE /\ Released(h).acc = h.dur /\ Released(h).dur = h.dur
      /\ Released(h).final = h.final /\ Released(h).aborted = h.aborted
  BY SMTT(30) DEF IoType, Released
<1>2. h.dur \in Int
  BY DEF IoType
<1>3. Released(h).acc - Released(h).dur \in 0..0
  BY <1>1, <1>2
<1> QED BY Zenon, <1>1, <1>3 DEF IoFits, Settled

LEMMA FinishedFits ==
  ASSUME NEW h \in IoType, NEW d, ~h.aborted, d.st = "final"
  PROVE  IoFits([Released(h) EXCEPT !.final = TRUE], d)
<1> DEFINE g == [Released(h) EXCEPT !.final = TRUE]
<1>1. g.lease = FALSE /\ g.acc = h.dur /\ g.dur = h.dur /\ g.final = TRUE /\ g.aborted = h.aborted
  BY SMTT(30) DEF IoType, Released
<1>2. h.dur \in Int
  BY DEF IoType
<1>3. g.acc - g.dur \in 0..0
  BY <1>1, <1>2
<1> HIDE DEF g
<1>4. IoFits(g, d)
  BY Zenon, <1>1, <1>3 DEF IoFits, Settled
<1> QED BY Zenon, <1>4 DEF g

LEMMA SeesFits ==
  ASSUME NEW h \in IoType, NEW d \in FileType, IoFits(h, d)
  PROVE  /\ d.st = "aborted" => IoFits(SeesAbort(h), d)
         /\ d.st = "final" => IoFits(SeesFinal(h, d), d)
<1> DEFINE x == [h EXCEPT !.aborted = TRUE]
           y == [h EXCEPT !.dur = d.bytes, !.sealed = TRUE, !.final = TRUE]
<1>0. d.bytes \in Int
  BY DEF FileType
<1>1. x \in IoType /\ y \in IoType
  BY Zenon, <1>0, IoFlags, IoSealed
<1>2. x.aborted = TRUE /\ x.final = h.final /\ y.final = TRUE /\ y.aborted = h.aborted
  BY SMTT(30) DEF IoType
<1> HIDE DEF x, y
<1>3. ASSUME d.st = "aborted"
      PROVE  IoFits(Released(x), d)
  BY Zenon, <1>1, <1>2, <1>3, ReleasedFits DEF IoFits, Settled
<1>4. ASSUME d.st = "final"
      PROVE  IoFits(Released(y), d)
  BY Zenon, <1>1, <1>2, <1>4, ReleasedFits DEF IoFits, Settled
<1> QED BY Zenon, <1>3, <1>4 DEF SeesAbort, SeesFinal, x, y

\* Until the upload has ended its handle holds the lease, and an update that
\* buffers at most a chunk keeps this.
LEMMA SameFits ==
  ASSUME NEW h \in IoType, NEW g, NEW d, NEW e, IoFits(h, d), ~Terminal(d), SameEnd(h, g)
  PROVE  /\ ~Settled(h) /\ h.lease /\ h.acc - h.dur \in 0..Chunk
         /\ g.acc - g.dur \in 0..Chunk => IoFits(g, e)
<1>1. ~Settled(h) /\ h.lease /\ (IF h.lease THEN Chunk ELSE 0) = Chunk
  BY Zenon DEF IoFits, Settled, Terminal
<1>2. ~Settled(g) /\ g.lease /\ ~g.final /\ ~g.aborted /\ (IF g.lease THEN Chunk ELSE 0) = Chunk
  BY Zenon, <1>1 DEF SameEnd, Settled
<1> QED BY Zenon, <1>1, <1>2 DEF IoFits

\* write_upload: files that are final or aborted stay as they are; otherwise
\* what is durable stays within what the handle accepted.
LEMMA WriteOutcome ==
  ASSUME NEW h \in IoType, NEW d \in FileType, NEW n \in Nat, NEW o \in Write(h, d, n)
  PROVE  /\ o.h \in IoType /\ o.d \in FileType
         /\ Terminal(d) => o.d = d
         /\ ~Terminal(d) =>
              /\ ~Terminal(o.d) /\ o.h.acc \in h.acc..(h.acc + n)
              /\ o.d = d \/ o.d.bytes <= o.h.acc
         /\ IoFits(h, d) => IoFits(o.h, o.d)
<1> DEFINE full == Flushed(h, n)
           good == Out([h EXCEPT !.acc = h.acc + n, !.dur = full], [d EXCEPT !.bytes = full], "ok")
           bad(c, b) == Out([h EXCEPT !.acc = c, !.dur = c - Chunk, !.resume = TRUE],
                            [d EXCEPT !.bytes = b], "fault")
<1>0. h.acc \in Int
  BY DEF IoType
<1>1. full \in Int /\ full <= h.acc + n /\ (h.acc + n) - full \in 0..Chunk
  <2>1. (h.acc + n) % Chunk \in Nat
    BY <1>0, Remainder
  <2>2. (h.acc + n) % Chunk < Chunk /\ Chunk \in Nat
    BY <1>0, Remainder, ByteAssumption
  <2> QED BY <1>0, <2>1, <2>2 DEF Flushed
<1>2. CASE o = Out(h, d, "refused")
  BY <1>0, <1>2 DEF Out
<1>3. CASE d.st = "aborted" /\ o = Out(SeesAbort(h), d, "refused")
  BY <1>3, SeesTyped, SeesFits DEF Out, Terminal
<1>4. CASE d.st = "final" /\ o = Out(SeesFinal(h, d), d, "refused")
  BY <1>4, SeesTyped, SeesFits DEF Out, Terminal
<1> HIDE DEF full
<1>5. CASE ~Terminal(d) /\ o = good
  <2>1. o.h = [h EXCEPT !.acc = h.acc + n, !.dur = full] /\ o.d = [d EXCEPT !.bytes = full]
    BY <1>5 DEF Out
  <2>2. h.acc + n \in Int
    BY <1>0
  <2>3. /\ [h EXCEPT !.acc = h.acc + n, !.dur = full] \in IoType
        /\ [h EXCEPT !.acc = h.acc + n, !.dur = full].acc = h.acc + n
        /\ [h EXCEPT !.acc = h.acc + n, !.dur = full].dur = full
        /\ SameEnd(h, [h EXCEPT !.acc = h.acc + n, !.dur = full])
    BY Zenon, <1>1, <2>2, IoWritten
  <2>4. o.d \in FileType /\ o.d.bytes = full /\ o.d.st = d.st
    BY <1>1, <2>1, FileBytes
  <2>5. o.h \in IoType /\ o.h.acc = h.acc + n /\ o.h.dur = full /\ SameEnd(h, o.h)
    BY Zenon, <2>1, <2>3
  <2>6. o.h.acc - o.h.dur \in 0..Chunk
    BY Zenon, <1>1, <2>5
  <2>7. IoFits(h, d) => IoFits(o.h, o.d)
    BY Zenon, <1>5, <2>5, <2>6, SameFits
  <2> QED BY <1>0, <1>1, <1>5, <2>4, <2>5, <2>7 DEF Terminal
<1>6. ASSUME ~Terminal(d), NEW c \in 1..MaxBytes, NEW b \in 0..MaxBytes,
             c > h.acc, c <= h.acc + n, b \in {c - Chunk, c}, o = bad(c, b)
      PROVE  /\ o.h \in IoType /\ o.d \in FileType
             /\ ~Terminal(o.d) /\ o.h.acc \in h.acc..(h.acc + n) /\ o.d.bytes <= o.h.acc
             /\ IoFits(h, d) => IoFits(o.h, o.d)
  <2>1. /\ o.h = [h EXCEPT !.acc = c, !.dur = c - Chunk, !.resume = TRUE]
        /\ o.d = [d EXCEPT !.bytes = b]
    BY <1>6 DEF Out
  <2>2. c \in Int /\ b \in Int /\ c - Chunk \in Int /\ b <= c /\ c - (c - Chunk) \in 0..Chunk
    BY <1>6, ByteAssumption
  <2>3. /\ [h EXCEPT !.acc = c, !.dur = c - Chunk, !.resume = TRUE] \in IoType
        /\ [h EXCEPT !.acc = c, !.dur = c - Chunk, !.resume = TRUE].acc = c
        /\ [h EXCEPT !.acc = c, !.dur = c - Chunk, !.resume = TRUE].dur = c - Chunk
        /\ SameEnd(h, [h EXCEPT !.acc = c, !.dur = c - Chunk, !.resume = TRUE])
    BY Zenon, <2>2, IoFailed
  <2>4. o.d \in FileType /\ o.d.bytes = b /\ o.d.st = d.st
    BY <2>1, <2>2, FileBytes
  <2>5. o.h \in IoType /\ o.h.acc = c /\ o.h.dur = c - Chunk /\ SameEnd(h, o.h)
    BY Zenon, <2>1, <2>3
  <2>6. IoFits(h, d) => IoFits(o.h, o.d)
    BY Zenon, <1>6, <2>2, <2>5, SameFits
  <2> QED BY <1>0, <1>6, <2>2, <2>4, <2>5, <2>6 DEF Terminal
<1>7. \/ o = Out(h, d, "refused")
      \/ d.st = "aborted" /\ o = Out(SeesAbort(h), d, "refused")
      \/ d.st = "final" /\ o = Out(SeesFinal(h, d), d, "refused")
      \/ ~Terminal(d) /\ o = good
      \/ ~Terminal(d) /\ \E c \in 1..MaxBytes, b \in 0..MaxBytes :
           c > h.acc /\ c <= h.acc + n /\ b \in {c - Chunk, c} /\ o = bad(c, b)
  <2> DEFINE F == {y \in (1..MaxBytes) \X (0..MaxBytes) :
                    /\ y[1] > h.acc /\ y[1] <= h.acc + n /\ y[1] % Chunk = 0
                    /\ y[2] \in {y[1] - Chunk, y[1]}}
  <2>1. \/ o = Out(h, d, "refused")
        \/ d.st = "aborted" /\ o = Out(SeesAbort(h), d, "refused")
        \/ d.st = "final" /\ o = Out(SeesFinal(h, d), d, "refused")
        \/ ~Terminal(d) /\ o \in {good} \cup {bad(x[1], x[2]) : x \in F}
    BY Zenon DEF Write, Terminal, full
  <2>2. ASSUME NEW x \in F, o = bad(x[1], x[2])
        PROVE  \E c \in 1..MaxBytes, b \in 0..MaxBytes :
                 c > h.acc /\ c <= h.acc + n /\ b \in {c - Chunk, c} /\ o = bad(c, b)
    BY Zenon, <2>2
  <2> HIDE DEF F, good, bad
  <2> QED BY Zenon, <2>1, <2>2
<1> HIDE DEF full, good, bad
<1> QED BY Zenon, <1>2, <1>3, <1>4, <1>5, <1>6, <1>7

\* finish_upload: it publishes exactly what the handle accepted, and answers
\* ok only on a final blob.
LEMMA FinishOutcome ==
  ASSUME NEW h \in IoType, NEW d \in FileType, NEW o \in Finish(h, d)
  PROVE  /\ o.h \in IoType /\ o.d \in FileType
         /\ Terminal(d) => o.d = d
         /\ o.r = "ok" => o.d.st = "final"
         /\ ~Terminal(d) => /\ o.d.st # "aborted" /\ (o.d = d \/ o.d.bytes = h.acc)
                            /\ o.h.acc = h.acc
         /\ IoFits(h, d) => IoFits(o.h, o.d)
<1> DEFINE sealed == [h EXCEPT !.dur = h.acc, !.sealed = TRUE]
           fin == [bytes |-> h.acc, st |-> "final"]
           part == [bytes |-> h.acc, st |-> "sealed"]
           whole == [bytes |-> h.acc, st |-> d.st]
<1>0. h.acc \in Int
  BY DEF IoType
<1>1. \/ d.st = "aborted" /\ o = Out(SeesAbort(h), d, "refused")
      \/ d.st = "final" /\ o = Out(SeesFinal(h, d), d, "ok")
      \/ /\ ~Terminal(d)
         /\ \/ o = Out([Released(sealed) EXCEPT !.final = TRUE], fin, "ok")
            \/ \E x \in {fin, part, whole} : o = Out(sealed, x, "fault")
            \/ \E x \in {d, part} : o = Out([h EXCEPT !.resume = TRUE], x, "fault")
  BY SMTT(30) DEF Finish, Terminal
<1>2. CASE d.st = "aborted" /\ o = Out(SeesAbort(h), d, "refused")
  BY <1>2, SeesTyped, SeesFits DEF Out, Terminal
<1>3. CASE d.st = "final" /\ o = Out(SeesFinal(h, d), d, "ok")
  BY <1>3, SeesTyped, SeesFits DEF Out, Terminal
<1>a. sealed \in IoType /\ sealed.acc = h.acc /\ sealed.dur = h.acc /\ SameEnd(h, sealed)
  BY Zenon, <1>0, IoSealed
<1>b. fin \in FileType /\ part \in FileType /\ whole \in FileType
  BY <1>0, SMTT(30) DEF FileType
<1>c. /\ fin.bytes = h.acc /\ fin.st = "final" /\ part.bytes = h.acc /\ part.st = "sealed"
      /\ whole.bytes = h.acc /\ whole.st = d.st
  OBVIOUS
<1> HIDE DEF sealed, fin, part, whole
<1>4. CASE ~Terminal(d) /\ o = Out([Released(sealed) EXCEPT !.final = TRUE], fin, "ok")
  <2>1. o.h = [Released(sealed) EXCEPT !.final = TRUE] /\ o.d = fin /\ o.r = "ok"
    BY <1>4 DEF Out
  <2>2. Released(sealed) \in IoType /\ Released(sealed).acc = h.acc
    BY Zenon, <1>a, ReleasedTyped
  <2>3. o.h \in IoType /\ o.h.acc = h.acc
    BY Zenon, <2>1, <2>2, IoFlags
  <2>4. IoFits(h, d) => IoFits(o.h, o.d)
    <3>1. IoFits(h, d) => ~sealed.aborted
      BY Zenon, <1>4, <1>a DEF IoFits, SameEnd, Terminal
    <3> QED BY Zenon, <1>a, <1>c, <2>1, <3>1, FinishedFits
  <2> QED BY <1>4, <2>1, <2>3, <2>4, <1>b, <1>c DEF Terminal
<1>5. CASE ~Terminal(d) /\ \E x \in {fin, part, whole} : o = Out(sealed, x, "fault")
  <2>1. o.h = sealed /\ o.d \in {fin, part, whole} /\ o.r = "fault"
    BY <1>5 DEF Out
  <2>2. o.h.acc - o.h.dur \in 0..Chunk
    BY <1>0, <1>a, <2>1, ByteAssumption
  <2>3. IoFits(h, d) => IoFits(o.h, o.d)
    BY Zenon, <1>5, <1>a, <2>1, <2>2, SameFits
  <2> QED BY <1>5, <2>1, <2>3, <1>a, <1>b, <1>c DEF Terminal
<1>6. CASE ~Terminal(d) /\ \E x \in {d, part} : o = Out([h EXCEPT !.resume = TRUE], x, "fault")
  <2>1. o.h = [h EXCEPT !.resume = TRUE] /\ o.d \in {d, part} /\ o.r = "fault"
    BY <1>6 DEF Out
  <2>2. o.h \in IoType /\ o.h.acc = h.acc /\ o.h.dur = h.dur /\ SameEnd(h, o.h)
    BY Zenon, <2>1, IoFlags
  <2>3. IoFits(h, d) => IoFits(o.h, o.d)
    BY Zenon, <1>6, <2>2, SameFits
  <2> QED BY <1>6, <2>1, <2>2, <2>3, <1>b, <1>c DEF Terminal
<1> QED BY Zenon, <1>1, <1>2, <1>3, <1>4, <1>5, <1>6

\* abort_upload: a final blob stays, and ok means the abort is durable.
LEMMA AbortOutcome ==
  ASSUME NEW h \in IoType, NEW d \in FileType, NEW o \in Abort(h, d)
  PROVE  /\ o.h \in IoType /\ o.d \in FileType
         /\ d.st = "final" => o.d = d
         /\ o.d = d \/ o.d.st = "aborted"
         /\ o.r = "ok" => o.d.st = "aborted"
         /\ ~Terminal(o.d) => o.h.acc = h.acc
         /\ IoFits(h, d) => IoFits(o.h, o.d)
<1> DEFINE gone == [bytes |-> 0, st |-> "aborted"]
           left == [d EXCEPT !.st = "aborted"]
           end == [h EXCEPT !.aborted = TRUE]
           out == Released(end)
<1>0. h.acc \in Int
  BY DEF IoType
<1>1. \/ d.st = "final" /\ o = Out(SeesFinal(h, d), d, "refused")
      \/ d.st = "aborted" /\ o = Out(SeesAbort(h), d, "refused")
      \/ d.st # "final" /\ o = Out([out EXCEPT !.acc = 0, !.dur = 0], gone, "ok")
      \/ d.st # "final" /\ o = Out(out, left, "fault")
      \/ ~Terminal(d) /\ \E x \in {d, left} : o = Out([h EXCEPT !.resume = TRUE], x, "fault")
  BY SMTT(30) DEF Abort, Terminal
<1>a. end \in IoType /\ out \in IoType
  BY Zenon, IoFlags, ReleasedTyped
<1>d. end.aborted = TRUE /\ end.final = h.final
  BY Zenon DEF IoType
<1>b. left \in FileType /\ left.st = "aborted" /\ gone \in FileType
  BY SMTT(30) DEF FileType
<1>c. gone.st = "aborted"
  OBVIOUS
<1>e. ASSUME IoFits(h, d), d.st # "final", NEW e, e.st = "aborted"
      PROVE  IoFits(out, e) /\ IoFits([out EXCEPT !.acc = 0, !.dur = 0], e)
  <2> HIDE DEF end
  <2>1. ~h.final /\ Settled(end) /\ ~end.final
    BY Zenon, <1>d, <1>e DEF IoFits, Settled
  <2>2. IoFits(out, e)
    BY Zenon, <1>a, <1>e, <2>1, ReleasedFits
  <2> HIDE DEF out
  <2> DEFINE g == [out EXCEPT !.acc = 0, !.dur = 0]
  <2>3. 0 \in Int
    OBVIOUS
  <2>4. g.acc = 0 /\ g.dur = 0 /\ SameEnd(out, g)
    BY Zenon, <1>a, <2>3 DEF IoType, SameEnd
  <2>5. g.acc - g.dur \in 0..(IF g.lease THEN Chunk ELSE 0)
    BY <2>4, ByteAssumption
  <2> HIDE DEF g
  <2>6. IoFits(g, e)
    BY Zenon, <2>2, <2>4, <2>5 DEF IoFits, Settled, SameEnd
  <2> QED BY Zenon, <2>2, <2>6 DEF g
<1> HIDE DEF gone, left, end, out
<1>2. CASE \/ d.st = "final" /\ o = Out(SeesFinal(h, d), d, "refused")
           \/ d.st = "aborted" /\ o = Out(SeesAbort(h), d, "refused")
  BY <1>2, SeesTyped, SeesFits DEF Out, Terminal
<1>3. CASE d.st # "final" /\ o = Out([out EXCEPT !.acc = 0, !.dur = 0], gone, "ok")
  <2>1. o.h = [out EXCEPT !.acc = 0, !.dur = 0] /\ o.d = gone
    BY <1>3 DEF Out
  <2>2. 0 \in Int
    OBVIOUS
  <2>3. [out EXCEPT !.acc = 0, !.dur = 0] \in IoType
    BY Zenon, <1>a, <2>2, IoWritten
  <2>4. IoFits(h, d) => IoFits(o.h, o.d)
    BY Zenon, <1>3, <1>c, <1>e, <2>1
  <2> QED BY <1>3, <2>1, <2>3, <2>4, <1>b, <1>c DEF Terminal
<1>4. CASE d.st # "final" /\ o = Out(out, left, "fault")
  <2>1. o.h = out /\ o.d = left /\ o.r = "fault"
    BY <1>4 DEF Out
  <2>2. IoFits(h, d) => IoFits(o.h, o.d)
    BY Zenon, <1>4, <1>b, <1>e, <2>1
  <2> QED BY <1>4, <2>1, <2>2, <1>a, <1>b DEF Terminal
<1>5. CASE ~Terminal(d) /\ \E x \in {d, left} : o = Out([h EXCEPT !.resume = TRUE], x, "fault")
  <2>1. o.h = [h EXCEPT !.resume = TRUE] /\ o.d \in {d, left} /\ o.r = "fault"
    BY <1>5 DEF Out
  <2>2. o.h \in IoType /\ o.h.acc = h.acc /\ o.h.dur = h.dur /\ SameEnd(h, o.h)
    BY Zenon, <2>1, IoFlags
  <2>3. IoFits(h, d) => IoFits(o.h, o.d)
    BY Zenon, <1>5, <2>2, SameFits
  <2> QED BY <1>5, <2>1, <2>2, <2>3, <1>b DEF Terminal
<1> QED BY Zenon, <1>1, <1>2, <1>3, <1>4, <1>5

LEMMA IoResumed ==
  ASSUME NEW h \in IoType, NEW x \in BOOLEAN, NEW y \in BOOLEAN, NEW z \in BOOLEAN
  PROVE  /\ [h EXCEPT !.sealed = x, !.final = y, !.lease = z] \in IoType
         /\ [h EXCEPT !.sealed = x, !.final = y, !.lease = z].acc = h.acc
<1>1. [h EXCEPT !.sealed = x, !.final = y, !.lease = z] \in IoType
  BY Zenon DEF IoType
<1>2. [h EXCEPT !.sealed = x, !.final = y, !.lease = z].acc = h.acc
  BY SMTT(30) DEF IoType
<1> QED BY Zenon, <1>1, <1>2

\* resume_upload: the handle starts at the durable length.
LEMMA ResumeOutcome ==
  ASSUME NEW d \in FileType, NEW io \in Resume(d)
  PROVE  io \in IoType /\ io.acc = d.bytes /\ IoFits(io, d)
<1> DEFINE y == [Fresh EXCEPT !.acc = d.bytes, !.dur = d.bytes]
           part == d.st \in {"sealed", "final"}
           full == d.st = "final"
           more == d.st # "final"
           x == [y EXCEPT !.sealed = part, !.final = full, !.lease = more]
<1>1. io = x
  BY Zenon DEF Resume
<1>2. d.bytes \in Int
  BY DEF FileType
<1>3. y \in IoType
  BY Zenon, <1>2, FreshTyped, IoWritten
<1>4. y.acc = d.bytes /\ y.dur = d.bytes /\ ~y.aborted
  BY SMTT(30) DEF Fresh
<1>5. part \in BOOLEAN
  OBVIOUS
<1>6. full \in BOOLEAN /\ more \in BOOLEAN /\ (full <=> d.st = "final") /\ (more <=> ~full)
  BY Zenon
<1> HIDE DEF y, part, full, more
<1>7. x \in IoType /\ x.acc = y.acc
  BY Zenon, <1>3, <1>5, <1>6, IoResumed
<1>a. x.dur = y.dur /\ x.aborted = y.aborted /\ (x.final <=> full) /\ (x.lease <=> more)
  BY SMTT(30), <1>3, <1>5, <1>6 DEF IoType
<1> HIDE DEF x
<1>8. x.acc - x.dur \in 0..(IF x.lease THEN Chunk ELSE 0)
  BY <1>2, <1>4, <1>7, <1>a, ByteAssumption
<1>9. IoFits(x, d)
  BY Zenon, <1>4, <1>6, <1>a, <1>8 DEF IoFits, Settled
<1> QED BY Zenon, <1>1, <1>4, <1>7, <1>9

-----------------------------------------------------------------------------
\* The values that stand for nothing are not of the type they complete.
LEMMA Distinct ==
  /\ NoHandle \notin HandleType /\ Orphan \notin HandleType /\ NoHandle # Orphan
  /\ NoCharge \notin ChargeType /\ NoDoubt \notin DoubtType
<1>1. Orphan \notin HandleType
  BY PrincipalAssumption DEF Orphan, HandleType
<1>2. NoCharge \notin ChargeType /\ NoDoubt \notin DoubtType
  BY PrincipalAssumption DEF NoCharge, NoDoubt, ChargeType, DoubtType
<1>3. NoHandle \notin HandleType
  BY DEF NoHandle, HandleType
<1>4. NoHandle # Orphan
  BY DEF NoHandle, Orphan
<1> QED BY Zenon, <1>1, <1>2, <1>3, <1>4

LEMMA CallerKnown ==
  ASSUME NEW p \in Callers
  PROVE  p.who \in Principals
BY DEF Callers, Principal

LEMMA HandleTyped ==
  ASSUME TypeOK, NEW p \in Callers, NEW t \in Tokens, NEW io \in IoType,
         NEW a \in {"StartUpload", "ResumeUpload"}
  PROVE  Handle(p, t, a, io) \in HandleType
<1>1. p.who \in Principals
  BY CallerKnown
<1>2. Policies[pol].version \in Nat /\ kid \in Nat /\ facade \in Nat
  BY PolicyAssumption DEF TypeOK
<1>3. Lease(K, p, a) \in LeaseType
  BY <1>1, <1>2 DEF Lease, LeaseType, K, Kernel
<1>4. TRUE \in BOOLEAN
  OBVIOUS
<1> QED BY Zenon, <1>1, <1>2, <1>3, <1>4 DEF Handle, HandleType

\* The update of a handle by a write.
LEMMA HandleIo ==
  ASSUME NEW h \in HandleType, NEW io \in IoType
  PROVE  /\ [h EXCEPT !.io = io] \in HandleType /\ [h EXCEPT !.io = io].io = io
         /\ [h EXCEPT !.io = io].tok = h.tok /\ [h EXCEPT !.io = io].facade = h.facade
         /\ [h EXCEPT !.io = io].open = h.open
<1>1. [h EXCEPT !.io = io] \in HandleType
  BY Zenon DEF HandleType
<1>2. /\ [h EXCEPT !.io = io].io = io
      /\ [h EXCEPT !.io = io].tok = h.tok /\ [h EXCEPT !.io = io].facade = h.facade
      /\ [h EXCEPT !.io = io].open = h.open
  BY Zenon DEF HandleType
<1> QED BY Zenon, <1>1, <1>2

\* The updates of a charge.
LEMMA ChargeUpdate ==
  ASSUME NEW c \in ChargeType, NEW a \in Int
  PROVE  /\ [c EXCEPT !.acc = a] \in ChargeType /\ [c EXCEPT !.acc = a].acc = a
         /\ [c EXCEPT !.acc = a].final = c.final /\ [c EXCEPT !.acc = a].live = c.live
<1>1. [c EXCEPT !.acc = a] \in ChargeType
  BY Zenon DEF ChargeType
<1>2. /\ [c EXCEPT !.acc = a].acc = a
      /\ [c EXCEPT !.acc = a].final = c.final /\ [c EXCEPT !.acc = a].live = c.live
  BY Zenon DEF ChargeType
<1> QED BY Zenon, <1>1, <1>2

LEMMA ChargeFreed ==
  ASSUME NEW c \in ChargeType
  PROVE  /\ LiveLess(c) \in ChargeType /\ LiveLess(c).acc = c.acc
         /\ LiveLess(c).final = c.final
         /\ [LiveLess(c) EXCEPT !.final = TRUE] \in ChargeType
         /\ [LiveLess(c) EXCEPT !.final = TRUE].acc = c.acc
<1>1. (IF c.live = 0 THEN 0 ELSE c.live - 1) \in Nat
  BY DEF ChargeType
<1>2. LiveLess(c) \in ChargeType
  BY Zenon, <1>1 DEF ChargeType, LiveLess
<1>3. LiveLess(c).acc = c.acc /\ LiveLess(c).final = c.final
  BY Zenon DEF ChargeType, LiveLess
<1>4. [LiveLess(c) EXCEPT !.final = TRUE] \in ChargeType
  BY Zenon, <1>2 DEF ChargeType
<1>5. [LiveLess(c) EXCEPT !.final = TRUE].acc = LiveLess(c).acc
  BY Zenon, <1>2 DEF ChargeType
<1> QED BY Zenon, <1>2, <1>3, <1>4, <1>5

-----------------------------------------------------------------------------
\* Next with the disk and packed forms of a call folded into the call.
Step ==
  \/ \E p \in Callers :
       \/ \E s \in Slots, t \in Tokens : StartBlobUpload(p, s, t) \/ ResumeBlobUpload(p, s, t)
       \/ \E s \in Slots, n \in Sizes : WriteBlobUpload(p, s, n)
       \/ \E s \in Slots : FinishBlobUpload(p, s) \/ AbortBlobUpload(p, s)
       \/ Reconcile(p)
       \/ \E inv \in SUBSET Tokens, change \in {0} \cup DOMAIN Policies : Commit(p, inv, change)
       \/ \E inv \in SUBSET Tokens : CommitInventory(p, inv)
       \/ \E change \in {0} \cup DOMAIN Policies : DiskWriterCommit(p, change)
       \/ DiskWriterRetry(p)
       \/ \E v, w \in DOMAIN Policies : ReplaceNamespacePolicy(p, v, w)
       \/ ReadView(p)
       \/ \E request \in SUBSET Records :
            Read(p, request) \/ ReadDisk(p, request) \/ ReadPacked(p, request)
  \/ \E s \in Slots : DropHandle(s)
  \/ DropView \/ NewDiskFacade \/ DropDiskFacade
  \/ \E crash, lands \in BOOLEAN : Reopen(crash, lands)

LEMMA Flattened ==
  ASSUME Next
  PROVE  Step
<1>1. ASSUME NEW p \in Callers, Uploads(p)
      PROVE  Step
  BY Zenon, <1>1 DEF Uploads, Step, StartDiskUpload, ResumeDiskUpload, WriteDiskUpload,
     FinishDiskUpload, AbortDiskUpload, ReconcileDisk
<1>2. ASSUME NEW p \in Callers, Commits(p)
      PROVE  Step
  <2>1. ASSUME NEW inv \in Inventories \ {{}}, Commit(p, inv, 0) \/ CommitInventory(p, inv)
        PROVE  Step
    <3>1. inv \in SUBSET Tokens /\ 0 \in {0} \cup DOMAIN Policies
      BY DEF Inventories
    <3> QED BY Zenon, <2>1, <3>1 DEF Step
  <2>2. ASSUME NEW change \in DOMAIN Policies, Commit(p, {}, change)
        PROVE  Step
    <3>1. {} \in SUBSET Tokens /\ change \in {0} \cup DOMAIN Policies
      OBVIOUS
    <3> QED BY Zenon, <2>2, <3>1 DEF Step
  <2>3. ASSUME NEW change \in {0} \cup DOMAIN Policies,
               \/ kind = "disk" /\ DiskWriterCommit(p, change)
               \/ PackedWriterCommit(p, change)
        PROVE  Step
    BY Zenon, <2>3 DEF Step, PackedWriterCommit
  <2>4. CASE (kind = "disk" /\ DiskWriterRetry(p)) \/ PackedWriterRetry(p)
    BY Zenon, <2>4 DEF Step, PackedWriterRetry
  <2>5. CASE \E v, w \in DOMAIN Policies : ReplaceNamespacePolicy(p, v, w)
    BY Zenon, <2>5 DEF Step
  <2> QED BY Zenon, <1>2, <2>1, <2>2, <2>3, <2>4, <2>5 DEF Commits
<1>3. ASSUME NEW p \in Callers, Reads(p)
      PROVE  Step
  BY Zenon, <1>3 DEF Reads, Step
<1>4. CASE \/ \E s \in Slots : DropHandle(s)
           \/ DropView \/ NewDiskFacade \/ DropDiskFacade
           \/ \E crash, lands \in BOOLEAN : Reopen(crash, lands)
  BY Zenon, <1>4 DEF Step
<1> QED BY Zenon, <1>1, <1>2, <1>3, <1>4 DEF Next

-----------------------------------------------------------------------------
Charges == {NoCharge} \cup ChargeType

\* What a call on handle h (now g) leaves of the files d (now e) and of the
\* charge c (now b) of its token.
CallKeeps(h, d, c, g, e, b) ==
  /\ d.st = "final" => e = d
  /\ Terminal(d) => e.st = d.st
  /\ IoFits(h.io, d) => IoFits(g.io, e)
  /\ ~Terminal(e) /\ h.open /\ c # NoCharge /\ c.live = 1 /\ c.acc >= h.io.acc
       => g.open /\ b # NoCharge /\ b.live = 1 /\ b.acc >= g.io.acc
  /\ b # NoCharge /\ b.final => (c # NoCharge /\ c.final) \/ e.st = "final"

\* Charged for its bytes.
Covered(d, c) == d.bytes > 0 /\ d.st # "aborted" => c # NoCharge /\ c.acc >= d.bytes

CallCovers(h, d, c, e, b) ==
  /\ ~Terminal(d) => c # NoCharge /\ c.acc >= h.io.acc
  /\ Covered(d, c)
  => Covered(e, b)

\* Write, finish and abort are calls on a handle of this facade.
CallStep(s) ==
  LET h == handles[s] IN
  /\ h \in HandleType /\ up /\ h.facade = facade /\ doubt = NoDoubt
  /\ \E g \in HandleType, e \in FileType, b \in Charges :
       /\ g.tok = h.tok /\ g.facade = h.facade
       /\ CallKeeps(h, files[h.tok], staged[h.tok], g, e, b)
       /\ CallCovers(h, files[h.tok], staged[h.tok], e, b)
       /\ handles' = [handles EXCEPT ![s] = g]
       /\ files' = [files EXCEPT ![h.tok] = e]
       /\ staged' = [staged EXCEPT ![h.tok] = b]
       /\ LeaseMoves(s, g.io)
  /\ UNCHANGED <<kind, pol, dpol, facade, kid, up, doubt, allow, committed, owners, outbox>>

\* A live handle of the current facade is not an orphan.
LEMMA OwnHandle ==
  ASSUME TypeOK, NEW s \in Slots, s \in Live, handles[s].facade = facade, up
  PROVE  handles[s] \in HandleType
BY SMTT(30) DEF TypeOK, Live, Orphan

LEMMA UnchangedCharge ==
  ASSUME TypeOK, NEW t \in Tokens
  PROVE  staged = [staged EXCEPT ![t] = staged[t]] /\ staged[t] \in Charges
BY Zenon DEF TypeOK, Charges

LEMMA WriteIsCall ==
  ASSUME TypeOK, NEW p \in Callers, NEW s \in Slots, NEW n \in Sizes, WriteBlobUpload(p, s, n)
  PROVE  CallStep(s)
<1> DEFINE h == handles[s]
           d == files[h.tok]
           c == staged[h.tok]
<1>1. /\ s \in Live /\ h.facade = facade /\ doubt = NoDoubt /\ up
      /\ UNCHANGED <<kind, pol, dpol, facade, kid, up, doubt, allow, committed, owners, outbox>>
  BY Zenon DEF WriteBlobUpload, ValidUpload, authority
<1>2. h \in HandleType
  BY <1>1, OwnHandle
<1>3. h.tok \in Tokens /\ h.io \in IoType
  BY Zenon, <1>2 DEF HandleType
<1>4. d \in FileType /\ c \in Charges
  BY Zenon, <1>3 DEF TypeOK, Charges
<1>5. n \in Nat
  BY ByteAssumption
<1>6. PICK o \in Write(h.io, d, n) :
        /\ handles' = [handles EXCEPT ![s] = [h EXCEPT !.io = o.h]]
        /\ files' = [files EXCEPT ![h.tok] = o.d]
        /\ staged' =
             IF ChargeFollows(h, o, n)
             THEN [staged EXCEPT ![h.tok] = [staged[h.tok] EXCEPT !.acc = o.h.acc]] ELSE staged
        /\ LeaseMoves(s, o.h)
  BY Zenon DEF WriteBlobUpload
<1>7. /\ o.h \in IoType /\ o.d \in FileType
      /\ Terminal(d) => o.d = d
      /\ ~Terminal(d) =>
           /\ ~Terminal(o.d) /\ o.h.acc \in h.io.acc..(h.io.acc + n)
           /\ o.d = d \/ o.d.bytes <= o.h.acc
      /\ IoFits(h.io, d) => IoFits(o.h, o.d)
  BY <1>3, <1>4, <1>5, WriteOutcome
<1> DEFINE g == [h EXCEPT !.io = o.h]
           b == IF ChargeFollows(h, o, n) THEN [c EXCEPT !.acc = o.h.acc] ELSE c
<1>8. /\ g \in HandleType /\ g.io = o.h /\ g.tok = h.tok /\ g.facade = h.facade /\ g.open = h.open
  BY Zenon, <1>2, <1>7, HandleIo
<1>9. staged' = [staged EXCEPT ![h.tok] = b]
  BY Zenon, <1>3, <1>6, UnchangedCharge
<1>a. h.io.acc \in Int /\ o.h.acc \in Int
  BY <1>3, <1>7 DEF IoType
<1>b. ChargeFollows(h, o, n) => c \in ChargeType /\ o.h.acc >= c.acc
  BY Zenon, <1>4 DEF ChargeFollows, Charged, Charges
<1>c. ~ChargeFollows(h, o, n) /\ ~Terminal(d) /\ c # NoCharge => o.h.acc < c.acc
  <2>1. ~ChargeFollows(h, o, n) /\ ~Terminal(d) /\ c # NoCharge => ~(o.h.acc >= c.acc)
    BY Zenon, <1>3, <1>7 DEF ChargeFollows, Charged
  <2>2. c # NoCharge => c.acc \in Int
    BY <1>4 DEF Charges, ChargeType
  <2> QED BY <1>a, <2>1, <2>2
<1>d. b \in Charges /\ (b = NoCharge <=> c = NoCharge)
      /\ (c # NoCharge => b.live = c.live /\ b.final = c.final)
      /\ (ChargeFollows(h, o, n) => b.acc = o.h.acc) /\ (~ChargeFollows(h, o, n) => b = c)
  <2>1. CASE ChargeFollows(h, o, n)
    <3>1. b = [c EXCEPT !.acc = o.h.acc]
      BY Zenon, <2>1
    <3>2. /\ [c EXCEPT !.acc = o.h.acc] \in ChargeType /\ [c EXCEPT !.acc = o.h.acc].acc = o.h.acc
          /\ [c EXCEPT !.acc = o.h.acc].final = c.final /\ [c EXCEPT !.acc = o.h.acc].live = c.live
      BY Zenon, <2>1, <1>a, <1>b, ChargeUpdate
    <3> HIDE DEF b
    <3> QED BY Zenon, <2>1, <3>1, <3>2, <1>b, Distinct DEF Charges
  <2>2. CASE ~ChargeFollows(h, o, n)
    BY Zenon, <2>2, <1>4
  <2> QED BY Zenon, <2>1, <2>2
<1>e. c # NoCharge => c.acc \in Int /\ b.acc \in Int
  BY <1>4, <1>d DEF Charges, ChargeType
<1>f. d.bytes \in Int /\ o.d.bytes \in Int
  BY <1>4, <1>7 DEF FileType
<1> HIDE DEF h, d, c, g, b
<1>g. CallKeeps(h, d, c, g, o.d, b)
  BY <1>7, <1>8, <1>a, <1>b, <1>c, <1>d, <1>e DEF CallKeeps, Terminal
<1>h. CallCovers(h, d, c, o.d, b)
  BY <1>7, <1>8, <1>a, <1>b, <1>c, <1>d, <1>e, <1>f DEF CallCovers, Covered, Terminal
<1> QED BY Zenon, <1>1, <1>2, <1>6, <1>7, <1>8, <1>9, <1>d, <1>g, <1>h DEF CallStep, h, d, c, g

LEMMA FinishIsCall ==
  ASSUME TypeOK, NEW p \in Callers, NEW s \in Slots, FinishBlobUpload(p, s)
  PROVE  CallStep(s)
<1> DEFINE h == handles[s]
           d == files[h.tok]
           c == staged[h.tok]
           done(o) == o.r = "ok" /\ h.tok \in Charged /\ c.acc = o.d.bytes
           open(o) == h.open /\ ~done(o)
<1>1. /\ s \in Live /\ h.facade = facade /\ doubt = NoDoubt /\ up
      /\ UNCHANGED <<kind, pol, dpol, facade, kid, up, doubt, allow, committed, owners, outbox>>
  BY Zenon DEF FinishBlobUpload, ValidUpload, authority
<1>2. h \in HandleType
  BY <1>1, OwnHandle
<1>3. h.tok \in Tokens /\ h.io \in IoType /\ h.open \in BOOLEAN
  BY Zenon, <1>2 DEF HandleType
<1>4. d \in FileType /\ c \in Charges
  BY Zenon, <1>3 DEF TypeOK, Charges
<1>5. PICK o \in Finish(h.io, d) :
        /\ handles' = [handles EXCEPT ![s] = [h EXCEPT !.io = o.h, !.open = open(o)]]
        /\ files' = [files EXCEPT ![h.tok] = o.d]
        /\ staged' = IF done(o)
             THEN [staged EXCEPT ![h.tok] = [LiveLess(staged[h.tok]) EXCEPT !.final = TRUE]]
             ELSE staged
        /\ LeaseMoves(s, o.h)
  BY Zenon DEF FinishBlobUpload
<1>6. /\ o.h \in IoType /\ o.d \in FileType
      /\ Terminal(d) => o.d = d
      /\ o.r = "ok" => o.d.st = "final"
      /\ ~Terminal(d) => /\ o.d.st # "aborted" /\ (o.d = d \/ o.d.bytes = h.io.acc)
                         /\ o.h.acc = h.io.acc
      /\ IoFits(h.io, d) => IoFits(o.h, o.d)
  BY <1>3, <1>4, FinishOutcome
<1>7. open(o) \in BOOLEAN /\ (~done(o) => open(o) = h.open)
  BY <1>3
<1> HIDE DEF open
<1> DEFINE g == [h EXCEPT !.io = o.h, !.open = open(o)]
           b == IF done(o) THEN [LiveLess(c) EXCEPT !.final = TRUE] ELSE c
<1>8. /\ g \in HandleType /\ g.io = o.h /\ g.tok = h.tok /\ g.facade = h.facade
      /\ g.open = open(o)
  <2>1. g \in HandleType
    BY Zenon, <1>2, <1>6, <1>7 DEF HandleType
  <2>2. g.io = o.h /\ g.tok = h.tok /\ g.facade = h.facade /\ g.open = open(o)
    BY Zenon, <1>2 DEF HandleType
  <2> QED BY Zenon, <2>1, <2>2
<1>9. staged' = [staged EXCEPT ![h.tok] = b]
  BY Zenon, <1>3, <1>5, UnchangedCharge
<1>a. done(o) => c \in ChargeType /\ o.d.st = "final" /\ c # NoCharge
  BY Zenon, <1>4, <1>6 DEF Charged, Charges
<1>b. b \in Charges /\ (~done(o) => b = c) /\ (done(o) => b # NoCharge /\ b.acc = c.acc)
  <2>1. CASE done(o)
    <3>1. b = [LiveLess(c) EXCEPT !.final = TRUE]
      BY Zenon, <2>1
    <3>2. /\ [LiveLess(c) EXCEPT !.final = TRUE] \in ChargeType
          /\ [LiveLess(c) EXCEPT !.final = TRUE].acc = c.acc
      BY Zenon, <2>1, <1>a, ChargeFreed
    <3> HIDE DEF b
    <3> QED BY Zenon, <2>1, <3>1, <3>2, Distinct DEF Charges
  <2>2. CASE ~done(o)
    BY Zenon, <2>2, <1>4
  <2> QED BY Zenon, <2>1, <2>2
<1>c. c # NoCharge => c.acc \in Int
  BY <1>4 DEF Charges, ChargeType
<1>d. d.bytes \in Int /\ o.d.bytes \in Int /\ h.io.acc \in Int
  BY <1>3, <1>4, <1>6 DEF FileType, IoType
<1> HIDE DEF h, d, c, g, b, done
<1>e. CallKeeps(h, d, c, g, o.d, b)
  BY <1>6, <1>7, <1>8, <1>a, <1>b, <1>c, <1>d DEF CallKeeps, Terminal
<1>f. CallCovers(h, d, c, o.d, b)
  BY <1>6, <1>8, <1>a, <1>b, <1>c, <1>d DEF CallCovers, Covered, Terminal
<1> QED BY Zenon, <1>1, <1>2, <1>5, <1>6, <1>8, <1>9, <1>b, <1>e, <1>f DEF CallStep, h, d, c, g

LEMMA AbortIsCall ==
  ASSUME TypeOK, NEW p \in Callers, NEW s \in Slots, AbortBlobUpload(p, s)
  PROVE  CallStep(s)
<1> DEFINE h == handles[s]
           d == files[h.tok]
           c == staged[h.tok]
           open(o) == h.open /\ o.r # "ok"
<1>1. /\ s \in Live /\ h.facade = facade /\ doubt = NoDoubt /\ up
      /\ UNCHANGED <<kind, pol, dpol, facade, kid, up, doubt, allow, committed, owners, outbox>>
  BY Zenon DEF AbortBlobUpload, ValidUpload, authority
<1>2. h \in HandleType
  BY <1>1, OwnHandle
<1>3. h.tok \in Tokens /\ h.io \in IoType /\ h.open \in BOOLEAN
  BY Zenon, <1>2 DEF HandleType
<1>4. d \in FileType /\ c \in Charges
  BY Zenon, <1>3 DEF TypeOK, Charges
<1>5. PICK o \in Abort(h.io, d) :
        /\ handles' = [handles EXCEPT ![s] = [h EXCEPT !.io = o.h, !.open = open(o)]]
        /\ files' = [files EXCEPT ![h.tok] = o.d]
        /\ staged' = IF o.r = "ok" THEN [staged EXCEPT ![h.tok] = NoCharge] ELSE staged
        /\ LeaseMoves(s, o.h)
  BY Zenon DEF AbortBlobUpload
<1>6. /\ o.h \in IoType /\ o.d \in FileType
      /\ d.st = "final" => o.d = d
      /\ o.d = d \/ o.d.st = "aborted"
      /\ o.r = "ok" => o.d.st = "aborted"
      /\ ~Terminal(o.d) => o.h.acc = h.io.acc
      /\ IoFits(h.io, d) => IoFits(o.h, o.d)
  BY <1>3, <1>4, AbortOutcome
<1>7. open(o) \in BOOLEAN /\ (o.r # "ok" => open(o) = h.open)
  BY <1>3
<1> HIDE DEF open
<1> DEFINE g == [h EXCEPT !.io = o.h, !.open = open(o)]
           b == IF o.r = "ok" THEN NoCharge ELSE c
<1>8. /\ g \in HandleType /\ g.io = o.h /\ g.tok = h.tok /\ g.facade = h.facade
      /\ g.open = open(o)
  <2>1. g \in HandleType
    BY Zenon, <1>2, <1>6, <1>7 DEF HandleType
  <2>2. g.io = o.h /\ g.tok = h.tok /\ g.facade = h.facade /\ g.open = open(o)
    BY Zenon, <1>2 DEF HandleType
  <2> QED BY Zenon, <2>1, <2>2
<1>9. staged' = [staged EXCEPT ![h.tok] = b]
  BY Zenon, <1>3, <1>5, UnchangedCharge
<1>a. b \in Charges
  BY Zenon, <1>4 DEF Charges
<1>b. (o.r = "ok" => b = NoCharge) /\ (o.r # "ok" => b = c)
  BY Zenon
<1> HIDE DEF h, d, c, g, b
<1>c. CallKeeps(h, d, c, g, o.d, b)
  BY <1>6, <1>7, <1>8, <1>b DEF CallKeeps, Terminal
<1>d. CallCovers(h, d, c, o.d, b)
  BY <1>6, <1>8, <1>b DEF CallCovers, Covered, Terminal
<1> QED BY Zenon, <1>1, <1>2, <1>5, <1>6, <1>8, <1>9, <1>a, <1>c, <1>d DEF CallStep, h, d, c, g

\* Start and resume open a handle on a token that no other open handle holds.
OpenStep(s, t) ==
  /\ handles[s] = NoHandle /\ up /\ doubt = NoDoubt
  /\ t \in outbox /\ staged[t] # NoCharge => staged[t].live = 0
  /\ \E g \in HandleType, b \in ChargeType :
       /\ g.tok = t /\ g.facade = facade /\ g.open /\ IoFits(g.io, files[t])
       /\ b.live = 1 /\ b.acc >= g.io.acc /\ b.acc >= (IF t \in outbox THEN files[t].bytes ELSE 0)
       /\ b.final => staged[t] # NoCharge /\ staged[t].final
       /\ handles' = [handles EXCEPT ![s] = g] /\ staged' = [staged EXCEPT ![t] = b]
       /\ LeaseMoves(s, g.io)
  /\ outbox' = outbox \cup {t}
  /\ UNCHANGED <<kind, pol, dpol, facade, kid, up, doubt, allow, committed, owners, files>>

LEMMA StartOpens ==
  ASSUME TypeOK, NEW p \in Callers, NEW s \in Slots, NEW t \in Tokens, StartBlobUpload(p, s, t)
  PROVE  OpenStep(s, t)
<1> DEFINE g == Handle(p, t, "StartUpload", Fresh)
           b == [who |-> p.who, acc |-> 0, final |-> FALSE, live |-> 1]
<1>1. /\ s \notin Live /\ up /\ doubt = NoDoubt /\ t \notin outbox
      /\ handles' = [handles EXCEPT ![s] = g] /\ staged' = [staged EXCEPT ![t] = b]
      /\ outbox' = outbox \cup {t} /\ LeaseMoves(s, Fresh)
      /\ UNCHANGED <<kind, pol, dpol, facade, kid, up, doubt, allow, committed, owners, files>>
  BY Zenon DEF StartBlobUpload, authority
<1>2. handles[s] = NoHandle
  BY Zenon, <1>1 DEF Live
<1>3. g \in HandleType /\ g.tok = t /\ g.facade = facade /\ g.open = TRUE /\ g.io = Fresh
  <2>1. "StartUpload" \in {"StartUpload", "ResumeUpload"}
    OBVIOUS
  <2>2. g \in HandleType
    BY Zenon, <2>1, HandleTyped, FreshTyped
  <2> QED BY Zenon, <2>2 DEF Handle
<1>4. b \in ChargeType /\ b.acc = 0 /\ b.live = 1 /\ ~b.final
  <2>1. 0 \in Int /\ 1 \in Nat /\ FALSE \in BOOLEAN
    OBVIOUS
  <2> QED BY Zenon, <2>1, CallerKnown DEF ChargeType
<1>5. Fresh.acc = 0 /\ IoFits(Fresh, files[t])
  BY FreshFits DEF Fresh
<1> HIDE DEF g, b
<1>6. b.acc >= g.io.acc /\ b.acc >= (IF t \in outbox THEN files[t].bytes ELSE 0)
  BY <1>1, <1>3, <1>4, <1>5
<1> QED BY Zenon, <1>1, <1>2, <1>3, <1>4, <1>5, <1>6 DEF OpenStep

LEMMA ResumeOpens ==
  ASSUME TypeOK, NEW p \in Callers, NEW s \in Slots, NEW t \in Tokens, ResumeBlobUpload(p, s, t)
  PROVE  OpenStep(s, t)
<1> DEFINE live == (IF t \in Charged THEN staged[t].live ELSE 0) + 1
           final == t \in Charged /\ staged[t].final
<1>1. /\ s \notin Live /\ up /\ doubt = NoDoubt /\ t \in outbox /\ Resumable(p, t)
      /\ outbox' = outbox
      /\ UNCHANGED <<kind, pol, dpol, facade, kid, up, doubt, allow, committed, owners, files>>
  BY Zenon DEF ResumeBlobUpload, authority, store
<1>2. PICK io \in Resume(files[t]) :
        /\ staged' = [staged EXCEPT ![t] =
             [who |-> p.who, acc |-> io.acc, live |-> live, final |-> final]]
        /\ handles' = [handles EXCEPT ![s] = Handle(p, t, "ResumeUpload", io)]
        /\ LeaseMoves(s, io)
  BY Zenon DEF ResumeBlobUpload
<1>3. files[t] \in FileType /\ staged[t] \in Charges
  BY Zenon DEF TypeOK, Charges
<1>4. io \in IoType /\ io.acc = files[t].bytes /\ io.acc \in Int /\ IoFits(io, files[t])
  <2>1. io \in IoType /\ io.acc = files[t].bytes /\ IoFits(io, files[t])
    BY Zenon, <1>3, ResumeOutcome
  <2> QED BY <2>1 DEF IoType
<1> DEFINE g == Handle(p, t, "ResumeUpload", io)
           b == [who |-> p.who, acc |-> io.acc, live |-> live, final |-> final]
<1>5. g \in HandleType /\ g.tok = t /\ g.facade = facade /\ g.open = TRUE /\ g.io = io
  <2>1. "ResumeUpload" \in {"StartUpload", "ResumeUpload"}
    OBVIOUS
  <2>2. g \in HandleType
    BY Zenon, <2>1, HandleTyped, <1>4
  <2> QED BY Zenon, <2>2 DEF Handle
<1>6. live = 1 /\ (staged[t] # NoCharge => staged[t].live = 0)
  BY <1>1 DEF Resumable, Charged
<1>7. final \in BOOLEAN /\ (final => staged[t] # NoCharge /\ staged[t].final)
  BY <1>3 DEF Charged, Charges, ChargeType
<1> HIDE DEF live, final
<1>8. b \in ChargeType /\ b.acc = io.acc /\ b.live = 1 /\ b.final = final
  <2>1. 1 \in Nat
    OBVIOUS
  <2> QED BY Zenon, <1>4, <1>6, <1>7, <2>1, CallerKnown DEF ChargeType
<1>9. handles[s] = NoHandle
  BY Zenon, <1>1 DEF Live
<1>a. outbox' = outbox \cup {t}
  BY <1>1
<1>b. /\ handles' = [handles EXCEPT ![s] = g] /\ staged' = [staged EXCEPT ![t] = b]
      /\ LeaseMoves(s, io)
  BY Zenon, <1>2
<1> HIDE DEF g, b
<1>c. b.acc >= g.io.acc /\ b.acc >= (IF t \in outbox THEN files[t].bytes ELSE 0)
  BY <1>1, <1>4, <1>5, <1>8
<1>d. b.final => staged[t] # NoCharge /\ staged[t].final
  BY Zenon, <1>7, <1>8
<1> QED BY Zenon, <1>1, <1>4, <1>5, <1>6, <1>8, <1>9, <1>a, <1>b, <1>c, <1>d DEF OpenStep

-----------------------------------------------------------------------------
LEMMA CallTyped ==
  ASSUME TypeOK, NEW s \in Slots, CallStep(s)
  PROVE  TypeOK'
<1>1. PICK g \in HandleType, e \in FileType, b \in Charges :
        /\ handles' = [handles EXCEPT ![s] = g]
        /\ files' = [files EXCEPT ![handles[s].tok] = e]
        /\ staged' = [staged EXCEPT ![handles[s].tok] = b]
  BY Zenon DEF CallStep
<1>2. handles[s].tok \in Tokens
  BY Zenon DEF CallStep, HandleType
<1>3. handles' \in [Slots -> {NoHandle, Orphan} \cup HandleType]
  BY Zenon, <1>1 DEF TypeOK
<1>4. files' \in [Tokens -> FileType] /\ staged' \in [Tokens -> {NoCharge} \cup ChargeType]
  BY Zenon, <1>1, <1>2 DEF TypeOK, Charges
<1> QED BY Zenon, <1>3, <1>4 DEF TypeOK, CallStep

LEMMA OpenTyped ==
  ASSUME TypeOK, NEW s \in Slots, NEW t \in Tokens, OpenStep(s, t)
  PROVE  TypeOK'
<1>1. PICK g \in HandleType, b \in ChargeType :
        handles' = [handles EXCEPT ![s] = g] /\ staged' = [staged EXCEPT ![t] = b]
  BY Zenon DEF OpenStep
<1>2. handles' \in [Slots -> {NoHandle, Orphan} \cup HandleType]
  BY Zenon, <1>1 DEF TypeOK
<1>3. staged' \in [Tokens -> {NoCharge} \cup ChargeType]
  BY Zenon, <1>1 DEF TypeOK
<1>4. outbox' \subseteq Tokens
  BY Zenon DEF TypeOK, OpenStep
<1> QED BY Zenon, <1>2, <1>3, <1>4 DEF TypeOK, OpenStep

\* The certified part of a commit, and its doubt.
LEMMA CertifiedTyped ==
  ASSUME TypeOK, NEW who \in Principals, NEW inv, NEW change \in {0} \cup DOMAIN Policies,
         Certified(who, inv, change)
  PROVE  dpol' \in DOMAIN Policies /\ owners' \in [Tokens -> {"none"} \cup Principals]
<1>1. dpol' \in DOMAIN Policies
  BY DEF Certified, TypeOK
<1>2. owners' \in [Tokens -> {"none"} \cup Principals]
  BY Zenon DEF Certified, TypeOK
<1> QED BY Zenon, <1>1, <1>2

LEMMA DoubtedTyped ==
  ASSUME TypeOK, NEW p \in Callers, NEW inv \in SUBSET Tokens,
         NEW change \in {0} \cup DOMAIN Policies, Doubted(p, inv, change),
         UNCHANGED <<files, outbox, handles>>
  PROVE  TypeOK'
<1>1. doubt' \in DoubtType
  BY Zenon, CallerKnown DEF Doubted, DoubtType
<1> QED BY Zenon, <1>1 DEF TypeOK, Doubted, ledger

LEMMA OrphanedTyped ==
  /\ Orphaned \in [Slots -> {NoHandle, Orphan}]
  /\ [s \in Slots |-> NoHandle] \in [Slots -> {NoHandle, Orphan}]
  /\ [t \in Tokens |-> NoCharge] \in [Tokens -> {NoCharge}]
BY Zenon DEF Orphaned, Orphan

LEMMA DropTyped ==
  ASSUME TypeOK, NEW s \in Slots, DropHandle(s)
  PROVE  TypeOK'
<1>1. handles' \in [Slots -> {NoHandle, Orphan} \cup HandleType]
  BY Zenon DEF DropHandle, TypeOK
<1>2. ASSUME NEW t \in Tokens, t \in Charged
      PROVE  LiveLess(staged[t]) \in ChargeType
  <2>1. staged[t] \in ChargeType
    BY Zenon, <1>2 DEF Charged, TypeOK
  <2> QED BY Zenon, <2>1, ChargeFreed
<1>3. staged' \in [Tokens -> {NoCharge} \cup ChargeType]
  <2>1. CASE handles[s].tok \in Charged /\
             staged' = [staged EXCEPT ![handles[s].tok] = LiveLess(staged[handles[s].tok])]
    <3>1. handles[s].tok \in Tokens
      BY Zenon, <2>1 DEF Charged
    <3>2. LiveLess(staged[handles[s].tok]) \in ChargeType
      BY Zenon, <2>1, <3>1, <1>2
    <3> QED BY Zenon, <2>1, <3>1, <3>2 DEF TypeOK
  <2>2. CASE staged' = staged
    BY Zenon, <2>2 DEF TypeOK
  <2> QED BY Zenon, <2>1, <2>2 DEF DropHandle
<1> QED BY Zenon, <1>1, <1>3 DEF TypeOK, DropHandle, authority, store

LEMMA TypeStep ==
  ASSUME TypeOK, Next
  PROVE  TypeOK'
<1>1. ASSUME NEW p \in Callers, NEW s \in Slots, NEW t \in Tokens,
             StartBlobUpload(p, s, t) \/ ResumeBlobUpload(p, s, t)
      PROVE  TypeOK'
  BY Zenon, <1>1, StartOpens, ResumeOpens, OpenTyped
<1>2. ASSUME NEW p \in Callers, NEW s \in Slots, NEW n \in Sizes, WriteBlobUpload(p, s, n)
      PROVE  TypeOK'
  BY Zenon, <1>2, WriteIsCall, CallTyped
<1>3. ASSUME NEW p \in Callers, NEW s \in Slots, FinishBlobUpload(p, s) \/ AbortBlobUpload(p, s)
      PROVE  TypeOK'
  BY Zenon, <1>3, FinishIsCall, AbortIsCall, CallTyped
<1>4. ASSUME NEW p \in Callers, Reconcile(p)
      PROVE  TypeOK'
  BY Zenon, <1>4 DEF Reconcile, TypeOK, authority, store, process
<1>5. ASSUME NEW p \in Callers, NEW inv \in SUBSET Tokens,
             NEW change \in {0} \cup DOMAIN Policies, Commit(p, inv, change)
      PROVE  TypeOK'
  <2>1. UNCHANGED <<files, outbox, handles>>
    BY Zenon, <1>5 DEF Commit
  <2>2. CASE Doubted(p, inv, change)
    BY Zenon, <2>1, <2>2, DoubtedTyped
  <2>3. CASE /\ Certified(p.who, inv, change) /\ ChargeMoves(p.who, inv)
             /\ Synchronized(p) /\ UNCHANGED <<kind, work, facade, kid, up, doubt, allow>>
    <3>1. dpol' \in DOMAIN Policies /\ owners' \in [Tokens -> {"none"} \cup Principals]
      BY Zenon, <2>3, CallerKnown, CertifiedTyped
    <3>2. pol' \in DOMAIN Policies
      BY Zenon, <2>3, <3>1 DEF Synchronized, TypeOK
    <3>3. /\ committed' \in [Tokens -> {"none"} \cup Principals]
          /\ staged' \in [Tokens -> {NoCharge} \cup ChargeType]
      BY Zenon, <2>3, CallerKnown DEF ChargeMoves, TypeOK
    <3> QED BY Zenon, <2>1, <2>3, <3>1, <3>2, <3>3 DEF TypeOK
  <2> QED BY Zenon, <1>5, <2>2, <2>3 DEF Commit
<1>6. ASSUME NEW p \in Callers, NEW inv \in SUBSET Tokens, CommitInventory(p, inv)
      PROVE  TypeOK'
  <2>1. UNCHANGED <<files, outbox, handles>>
    BY Zenon, <1>6 DEF CommitInventory
  <2>2. 0 \in {0} \cup DOMAIN Policies
    OBVIOUS
  <2>3. CASE Doubted(p, inv, 0)
    BY Zenon, <2>1, <2>2, <2>3, DoubtedTyped
  <2>4. CASE Certified(p.who, inv, 0) /\ ~Doubted(p, inv, 0)
    <3>1. dpol' \in DOMAIN Policies /\ owners' \in [Tokens -> {"none"} \cup Principals]
      BY Zenon, <2>2, <2>4, CallerKnown, CertifiedTyped
    <3>2. /\ UNCHANGED <<kind, pol, facade, kid, up, doubt, allow, committed>>
          /\ staged' \in [Tokens -> {NoCharge} \cup ChargeType]
      BY Zenon, <1>6, <2>4 DEF CommitInventory, TypeOK
    <3> QED BY Zenon, <2>1, <3>1, <3>2 DEF TypeOK
  <2> QED BY Zenon, <1>6, <2>3, <2>4 DEF CommitInventory
<1>7. ASSUME NEW p \in Callers, NEW change \in {0} \cup DOMAIN Policies,
             DiskWriterCommit(p, change)
      PROVE  TypeOK'
  <2>1. UNCHANGED <<files, outbox, handles>> /\ {} \in SUBSET Tokens
    BY Zenon, <1>7 DEF DiskWriterCommit
  <2>2. CASE Doubted(p, {}, change)
    BY Zenon, <2>1, <2>2, DoubtedTyped
  <2>3. CASE /\ Certified(p.who, {}, change)
             /\ Synchronized(p) /\ UNCHANGED <<kind, work, facade, kid, up, doubt, ledger>>
    <3>1. dpol' \in DOMAIN Policies /\ owners' \in [Tokens -> {"none"} \cup Principals]
      BY Zenon, <2>3, CallerKnown, CertifiedTyped
    <3>2. pol' \in DOMAIN Policies
      BY Zenon, <2>3, <3>1 DEF Synchronized, TypeOK
    <3> QED BY Zenon, <2>1, <2>3, <3>1, <3>2 DEF TypeOK, ledger
  <2> QED BY Zenon, <1>7, <2>2, <2>3 DEF DiskWriterCommit
<1>8. ASSUME NEW p \in Callers, DiskWriterRetry(p)
      PROVE  TypeOK'
  BY Zenon, <1>8 DEF DiskWriterRetry, Synchronized, TypeOK, ledger, store, process
<1>9. ASSUME NEW p \in Callers, NEW v \in DOMAIN Policies, NEW w \in DOMAIN Policies,
             ReplaceNamespacePolicy(p, v, w)
      PROVE  TypeOK'
  BY Zenon, <1>9 DEF ReplaceNamespacePolicy, TypeOK, ledger, store, process
<1>10. ASSUME NEW p \in Callers, ReadView(p)
       PROVE  TypeOK'
  BY Zenon, <1>10 DEF ReadView, TypeOK, authority, ledger, store
<1>11. ASSUME NEW p \in Callers, NEW request \in SUBSET Records,
              Read(p, request) \/ ReadDisk(p, request) \/ ReadPacked(p, request)
       PROVE  TypeOK'
  <2>1. UNCHANGED <<authority, ledger, store, process>>
    BY Zenon, <1>11 DEF Read, ReadDisk, ReadPacked
  <2> QED BY Zenon, <2>1 DEF TypeOK, authority, ledger, store, process
<1>12. ASSUME NEW s \in Slots, DropHandle(s)
       PROVE  TypeOK'
  BY Zenon, <1>12, DropTyped
<1>13. CASE DropView
  BY Zenon, <1>13 DEF DropView, TypeOK, authority, ledger, store
<1>14. CASE NewDiskFacade
  <2>1. facade' \in Nat /\ facade' >= 1
    BY <1>14 DEF NewDiskFacade, TypeOK
  <2> QED BY Zenon, <1>14, <2>1 DEF NewDiskFacade, TypeOK, ledger, store, process
<1>15. CASE DropDiskFacade
  <2>1. /\ staged' \in [Tokens -> {NoCharge} \cup ChargeType]
        /\ handles' \in [Slots -> {NoHandle, Orphan} \cup HandleType]
    BY Zenon, <1>15, OrphanedTyped DEF DropDiskFacade
  <2> QED BY Zenon, <1>15, <2>1 DEF DropDiskFacade, TypeOK, store
<1>16. ASSUME NEW crash \in BOOLEAN, NEW lands \in BOOLEAN, Reopen(crash, lands)
       PROVE  TypeOK'
  <2>1. facade' \in Nat /\ kid' \in Nat /\ facade' >= 1
    BY <1>16 DEF Reopen, TypeOK
  <2>2. /\ staged' \in [Tokens -> {NoCharge} \cup ChargeType]
        /\ handles' \in [Slots -> {NoHandle, Orphan} \cup HandleType]
        /\ UNCHANGED <<files, outbox>> /\ doubt' = NoDoubt
    BY Zenon, <1>16, OrphanedTyped DEF Reopen
  <2>3. dpol' \in DOMAIN Policies /\ owners' \in [Tokens -> {"none"} \cup Principals]
    <3>1. CASE lands
      <4>1. doubt \in DoubtType /\ Certified(doubt.who, doubt.inv, doubt.change)
        BY Zenon, <1>16, <3>1 DEF Reopen, TypeOK
      <4>2. doubt.who \in Principals /\ doubt.change \in {0} \cup DOMAIN Policies
        BY Zenon, <4>1 DEF DoubtType
      <4> QED BY Zenon, <4>1, <4>2, CertifiedTyped
    <3>2. CASE ~lands
      <4>1. Certified(doubt.who, {}, 0)
        BY Zenon, <1>16, <3>2 DEF Reopen
      <4>2. dpol' = dpol
        BY <4>1 DEF Certified
      <4>3. owners' \in [Tokens -> {"none"} \cup Principals]
        BY Zenon, <4>1 DEF Certified, TypeOK
      <4> QED BY Zenon, <4>2, <4>3 DEF TypeOK
    <3> QED BY Zenon, <3>1, <3>2
  <2>4. pol' \in DOMAIN Policies /\ committed' \in [Tokens -> {"none"} \cup Principals]
    BY Zenon, <1>16, <2>3 DEF Reopen, TypeOK
  <2> QED BY Zenon, <2>1, <2>2, <2>3, <2>4 DEF TypeOK
<1> QED BY Zenon, <1>1, <1>2, <1>3, <1>4, <1>5, <1>6, <1>7, <1>8, <1>9, <1>10, <1>11, <1>12,
        <1>13, <1>14, <1>15, <1>16, Flattened DEF Step

\* The type invariant of the facades: every policy in force is one of those listed,
\* a handle is live only in a facade, and a charge has an owner.
THEOREM TypesHold == Spec => []TypeOK
<1>1. ASSUME Init
      PROVE  TypeOK
  <2>1. facade \in Nat /\ kid \in Nat /\ (up => facade >= 1)
    BY <1>1 DEF Init
  <2>2. /\ staged \in [Tokens -> {NoCharge} \cup ChargeType]
        /\ handles \in [Slots -> {NoHandle, Orphan} \cup HandleType]
    BY Zenon, <1>1, OrphanedTyped DEF Init
  <2>3. NoBytes \in FileType
    BY DEF NoBytes, FileType
  <2> QED BY Zenon, <1>1, <2>1, <2>2, <2>3, PolicyAssumption DEF Init, TypeOK
<1>2. ASSUME TypeOK, UNCHANGED vars
      PROVE  TypeOK'
  BY Zenon, <1>2 DEF TypeOK, vars, authority, ledger, store, process
<1> QED BY <1>1, <1>2, TypeStep, PTL DEF Spec

-----------------------------------------------------------------------------
\* A caller that may manage the policy may replace it by a later one.
LEMMA ManagerReplaces ==
  ASSUME TypeOK, NEW p, NEW v \in DOMAIN Policies, v > pol,
         Authorized(K, p, "ManagePolicy", Namespace(Scope))
  PROVE  MayReplace(K, p, pol, Policies[v])
<1>1. K.policy = Policies[pol] /\ K.scope = Scope /\ Namespace(Scope).scope = Scope
  BY DEF K, Kernel, Namespace
<1>2. Policies[pol].version = pol /\ Policies[v].version = v
  BY Zenon, PolicyAssumption DEF TypeOK
<1>3. Known(K, p, Scope) /\ "ManagePolicy" \in K.policy.grants[p.who].permissions
  BY Zenon, <1>1 DEF Authorized, Permits
<1> QED BY Zenon, <1>1, <1>2, <1>3 DEF MayReplace

\* A certified change reaches the kernel in the same call.
LEMMA ChangeReachesKernel ==
  ASSUME TypeOK, PolicyInv, NEW p, NEW change \in {0} \cup DOMAIN Policies, Accepts(change),
         change # 0 => Authorized(K, p, "ManagePolicy", Namespace(Scope)),
         dpol' = (IF change = 0 THEN dpol ELSE change), Synchronized(p), kind' = kind
  PROVE  PolicyInv'
<1> SUFFICES ASSUME kind # "memory_plain"
             PROVE  pol' = dpol'
  BY DEF PolicyInv
<1>1. pol = dpol /\ pol \in Nat
  BY PolicyAssumption DEF PolicyInv, TypeOK
<1>2. CASE change = 0
  BY <1>1, <1>2 DEF Synchronized
<1>3. CASE change # 0
  <2>1. change > pol /\ change \in DOMAIN Policies /\ dpol' = change
    BY <1>1, <1>3 DEF Accepts
  <2>2. MayReplace(K, p, pol, Policies[change])
    BY Zenon, <1>3, <2>1, ManagerReplaces
  <2> QED BY Zenon, <2>1, <2>2 DEF Synchronized
<1> QED BY Zenon, <1>2, <1>3

LEMMA PolicyStep ==
  ASSUME TypeOK, PolicyInv, Next
  PROVE  PolicyInv'
<1>1. ASSUME UNCHANGED <<kind, pol, dpol>>
      PROVE  PolicyInv'
  BY Zenon, <1>1 DEF PolicyInv
<1>2. ASSUME NEW p \in Callers, NEW s \in Slots, NEW t \in Tokens,
             StartBlobUpload(p, s, t) \/ ResumeBlobUpload(p, s, t)
      PROVE  PolicyInv'
  BY Zenon, <1>1, <1>2, StartOpens, ResumeOpens DEF OpenStep
<1>3. ASSUME NEW s \in Slots, CallStep(s)
      PROVE  PolicyInv'
  BY Zenon, <1>1, <1>3 DEF CallStep
<1>4. ASSUME NEW p \in Callers, Reconcile(p) \/ ReadView(p)
      PROVE  PolicyInv'
  BY Zenon, <1>1, <1>4 DEF Reconcile, ReadView, authority
<1>5. ASSUME NEW p \in Callers, NEW inv \in SUBSET Tokens,
             NEW change \in {0} \cup DOMAIN Policies, Commit(p, inv, change)
      PROVE  PolicyInv'
  <2>1. CASE Doubted(p, inv, change)
    BY Zenon, <1>1, <2>1 DEF Doubted
  <2>2. CASE Certified(p.who, inv, change) /\ Synchronized(p) /\ kind' = kind
    <3>1. Accepts(change) /\ dpol' = (IF change = 0 THEN dpol ELSE change)
      BY Zenon, <1>5, <2>2 DEF Commit, Certified
    <3>2. change # 0 => Authorized(K, p, "ManagePolicy", Namespace(Scope))
      BY Zenon, <1>5 DEF Commit, Authorize
    <3> QED BY Zenon, <2>2, <3>1, <3>2, ChangeReachesKernel
  <2> QED BY Zenon, <1>5, <2>1, <2>2 DEF Commit
<1>6. ASSUME NEW p \in Callers, NEW inv \in SUBSET Tokens, CommitInventory(p, inv)
      PROVE  PolicyInv'
  <2>1. UNCHANGED <<kind, pol>> /\ (dpol' = dpol \/ Certified(p.who, inv, 0))
    BY Zenon, <1>6 DEF CommitInventory, Doubted
  <2>2. Certified(p.who, inv, 0) => dpol' = dpol
    BY DEF Certified
  <2> QED BY Zenon, <1>1, <2>1, <2>2
<1>7. ASSUME NEW p \in Callers, NEW change \in {0} \cup DOMAIN Policies,
             DiskWriterCommit(p, change)
      PROVE  PolicyInv'
  <2>1. CASE Doubted(p, {}, change)
    BY Zenon, <1>1, <2>1 DEF Doubted
  <2>2. CASE Certified(p.who, {}, change) /\ Synchronized(p) /\ kind' = kind
    <3>1. Accepts(change) /\ dpol' = (IF change = 0 THEN dpol ELSE change)
      BY Zenon, <1>7, <2>2 DEF DiskWriterCommit, Certified
    <3>2. change # 0 => Authorized(K, p, "ManagePolicy", Namespace(Scope))
      BY Zenon, <1>7 DEF DiskWriterCommit
    <3> QED BY Zenon, <2>2, <3>1, <3>2, ChangeReachesKernel
  <2> QED BY Zenon, <1>7, <2>1, <2>2 DEF DiskWriterCommit
<1>8. ASSUME NEW p \in Callers, DiskWriterRetry(p)
      PROVE  PolicyInv'
  <2>1. dpol' = dpol /\ pol = dpol /\ (pol' = pol \/ pol' = dpol')
    BY Zenon, <1>8 DEF DiskWriterRetry, Synchronized
  <2> QED BY Zenon, <2>1 DEF PolicyInv
<1>9. ASSUME NEW p \in Callers, NEW v \in DOMAIN Policies, NEW w \in DOMAIN Policies,
             ReplaceNamespacePolicy(p, v, w)
      PROVE  PolicyInv'
  BY Zenon, <1>9 DEF ReplaceNamespacePolicy, PolicyInv
<1>10. ASSUME NEW p \in Callers, NEW request \in SUBSET Records,
              Read(p, request) \/ ReadDisk(p, request) \/ ReadPacked(p, request)
       PROVE  PolicyInv'
  BY Zenon, <1>1, <1>10 DEF Read, ReadDisk, ReadPacked, authority
<1>11. ASSUME NEW s \in Slots, DropHandle(s)
       PROVE  PolicyInv'
  BY Zenon, <1>1, <1>11 DEF DropHandle, authority
<1>12. CASE DropView \/ NewDiskFacade \/ DropDiskFacade
  BY Zenon, <1>1, <1>12 DEF DropView, NewDiskFacade, DropDiskFacade, authority
<1>13. ASSUME NEW crash \in BOOLEAN, NEW lands \in BOOLEAN, Reopen(crash, lands)
       PROVE  PolicyInv'
  BY Zenon, <1>13 DEF Reopen, PolicyInv
<1> QED BY Zenon, <1>2, <1>3, <1>4, <1>5, <1>6, <1>7, <1>8, <1>9, <1>10, <1>11, <1>12, <1>13,
        Flattened, WriteIsCall, FinishIsCall, AbortIsCall DEF Step

\* The kernel enforces the certified policy (commit and synchronize_durable_policy):
\* a change of policy that the journal certified is in the kernel when the call
\* returns, published or not, and after every reopening.
THEOREM KernelEnforcesCertified == Spec => []KernelIsCertified
<1>1. ASSUME Init
      PROVE  PolicyInv
  BY Zenon, <1>1 DEF Init, PolicyInv
<1>2. ASSUME PolicyInv, UNCHANGED vars
      PROVE  PolicyInv'
  BY Zenon, <1>2 DEF PolicyInv, vars, authority
<1>3. PolicyInv => KernelIsCertified
  BY Zenon DEF PolicyInv, KernelIsCertified
<1> QED BY <1>1, <1>2, <1>3, PolicyStep, TypesHold, PTL DEF Spec

-----------------------------------------------------------------------------
LEMMA NothingServed ==
  ASSUME served' = Nothing
  PROVE  ServesAsCertified
<1>1. served'.records = {}
  BY DEF Nothing
<1> QED BY Zenon, <1>1 DEF ServesAsCertified

Touching == {"WriteUpload", "FinishUpload", "AbortUpload"}

\* A validated call touches files under the lease of its handle.
LEMMA CallUnderLease ==
  ASSUME TypeOK, NEW p, NEW s \in Slots, s \in Live, handles[s].facade = facade,
         NEW a \in Touching,
         ValidUpload(p, handles[s], a),
         NEW e, files' = [files EXCEPT ![handles[s].tok] = e]
  PROVE  TouchesUnderLease
<1> DEFINE h == handles[s]
<1>1. K.policy = Policies[pol] /\ Policies[pol].version = pol
  <2>1. K.policy = Policies[pol]
    BY DEF K, Kernel
  <2> QED BY Zenon, <2>1, PolicyAssumption DEF TypeOK
<1>2. h.lease.version = pol
  BY Zenon, <1>1 DEF ValidUpload, Current
<1>3. a \in Policies[pol].grants[h.who].permissions
  BY Zenon, <1>1 DEF ValidUpload, Authorize, Authorized, Permits
<1>4. Policies[pol].grants[h.who].permissions
        \cap {"WriteUpload", "FinishUpload", "AbortUpload"} # {}
  BY <1>3 DEF Touching
<1>5. ASSUME NEW t \in Tokens, files'[t] # files[t]
      PROVE  h.tok = t
  BY Zenon, <1>5 DEF TypeOK
<1> HIDE DEF h
<1> QED BY Zenon, <1>2, <1>4, <1>5 DEF TouchesUnderLease, h

\* What the candidates callback lets through, the certified policy permits.
LEMMA ReadServes ==
  ASSUME PolicyInv, NEW p, NEW R,
         \A r \in R : Permits(K, p.who, "ReadRecord", Record(Scope, r)),
         served' = [who |-> p.who, records |-> R]
  PROVE  ServesAsCertified
<1>1. served'.records = R /\ served'.who = p.who
  BY Zenon
<1>2. kind # "memory_plain" => K = Kernel(kid, Scope, Policies[dpol])
  BY Zenon DEF PolicyInv, K
<1> QED BY Zenon, <1>1, <1>2 DEF ServesAsCertified

LEMMA CandidatesPermitted ==
  ASSUME NEW p, NEW request, NEW r \in Candidates(p, request)
  PROVE  Permits(K, p.who, "ReadRecord", Record(Scope, r))
BY Zenon DEF Candidates, Authorized

LEMMA RevocationStep ==
  ASSUME TypeOK, PolicyInv, Next
  PROVE  TouchesUnderLease /\ ServesAsCertified
<1> DEFINE Goal == TouchesUnderLease /\ ServesAsCertified
<1>1. ASSUME files' = files, served' = Nothing
      PROVE  Goal
  BY Zenon, <1>1, NothingServed DEF TouchesUnderLease
<1>2. ASSUME NEW p, NEW s \in Slots, s \in Live, handles[s].facade = facade,
             NEW a \in Touching,
             ValidUpload(p, handles[s], a), served' = Nothing,
             \E e : files' = [files EXCEPT ![handles[s].tok] = e]
      PROVE  Goal
  <2>1. PICK e : files' = [files EXCEPT ![handles[s].tok] = e]
    BY Zenon, <1>2
  <2>2. TouchesUnderLease
    BY Zenon, <1>2, <2>1, CallUnderLease
  <2> QED BY Zenon, <1>2, <2>2, NothingServed
<1> HIDE DEF Goal
<1>3. ASSUME NEW p \in Callers, NEW s \in Slots, NEW n \in Sizes, WriteBlobUpload(p, s, n)
      PROVE  Goal
  <2>1. "WriteUpload" \in Touching
    BY DEF Touching
  <2> QED BY Zenon, <1>2, <1>3, <2>1 DEF WriteBlobUpload
<1>4. ASSUME NEW p \in Callers, NEW s \in Slots, FinishBlobUpload(p, s)
      PROVE  Goal
  <2>1. "FinishUpload" \in Touching
    BY DEF Touching
  <2> QED BY Zenon, <1>2, <1>4, <2>1 DEF FinishBlobUpload
<1>5. ASSUME NEW p \in Callers, NEW s \in Slots, AbortBlobUpload(p, s)
      PROVE  Goal
  <2>1. "AbortUpload" \in Touching
    BY DEF Touching
  <2> QED BY Zenon, <1>2, <1>5, <2>1 DEF AbortBlobUpload
<1>6. ASSUME NEW p \in Callers, NEW request \in SUBSET Records,
             Read(p, request) \/ ReadDisk(p, request)
      PROVE  Goal
  <2>1. /\ served' = [who |-> p.who, records |-> Candidates(p, request)]
        /\ files' = files
    BY Zenon, <1>6 DEF Read, ReadDisk, store
  <2> QED BY Zenon, <2>1, CandidatesPermitted, ReadServes DEF Goal, TouchesUnderLease
<1>7. ASSUME NEW p \in Callers, NEW request \in SUBSET Records, ReadPacked(p, request)
      PROVE  Goal
  <2> DEFINE R == {r \in request : Permits(K, p.who, "ReadRecord", Record(Scope, r))}
  <2>1. served' = [who |-> p.who, records |-> R] /\ files' = files
    BY Zenon, <1>7 DEF ReadPacked, store
  <2>2. \A r \in R : Permits(K, p.who, "ReadRecord", Record(Scope, r))
    BY Zenon
  <2> HIDE DEF R
  <2> QED BY Zenon, <2>1, <2>2, ReadServes DEF Goal, TouchesUnderLease
<1>8. ASSUME NEW p \in Callers, NEW s \in Slots, NEW t \in Tokens,
             StartBlobUpload(p, s, t) \/ ResumeBlobUpload(p, s, t)
      PROVE  Goal
  BY Zenon, <1>1, <1>8 DEF StartBlobUpload, ResumeBlobUpload, store
<1>9. ASSUME NEW p \in Callers, Reconcile(p) \/ ReadView(p) \/ DiskWriterRetry(p)
      PROVE  Goal
  BY Zenon, <1>1, <1>9 DEF Reconcile, ReadView, DiskWriterRetry, store
<1>10. ASSUME NEW p \in Callers, NEW inv \in SUBSET Tokens,
              NEW change \in {0} \cup DOMAIN Policies,
              Commit(p, inv, change) \/ CommitInventory(p, inv) \/ DiskWriterCommit(p, change)
       PROVE  Goal
  <2>1. files' = files /\ served' = Nothing
    BY Zenon, <1>10 DEF Commit, CommitInventory, DiskWriterCommit
  <2> QED BY Zenon, <1>1, <2>1
<1>11. ASSUME NEW p \in Callers, NEW v \in DOMAIN Policies, NEW w \in DOMAIN Policies,
              ReplaceNamespacePolicy(p, v, w)
       PROVE  Goal
  BY Zenon, <1>1, <1>11 DEF ReplaceNamespacePolicy, store
<1>12. ASSUME NEW s \in Slots, DropHandle(s)
       PROVE  Goal
  BY Zenon, <1>1, <1>12 DEF DropHandle, store
<1>13. CASE DropView \/ NewDiskFacade \/ DropDiskFacade
  <2>1. files' = files /\ served' = Nothing
    BY Zenon, <1>13 DEF DropView, NewDiskFacade, DropDiskFacade, store
  <2> QED BY Zenon, <1>1, <2>1 DEF Goal
<1>14. ASSUME NEW crash \in BOOLEAN, NEW lands \in BOOLEAN, Reopen(crash, lands)
       PROVE  Goal
  <2>1. files' = files /\ served' = Nothing
    BY Zenon, <1>14 DEF Reopen
  <2> QED BY Zenon, <1>1, <2>1
<1>15. 0 \in {0} \cup DOMAIN Policies /\ {} \in SUBSET Tokens
  OBVIOUS
<1> QED BY Zenon, <1>3, <1>4, <1>5, <1>6, <1>7, <1>8, <1>9, <1>10, <1>11, <1>12, <1>13, <1>14,
        <1>15, Flattened DEF Step, Goal

\* A revocation holds at once (validate_upload and the readers): in every step a
\* file of a token changes only under a lease of the current policy version and
\* facade, and a read returns only what the certified policy permits.
THEOREM RevocationIsImmediate == Spec => RevocationHolds
<1>1. ASSUME Init
      PROVE  PolicyInv
  BY Zenon, <1>1 DEF Init, PolicyInv
<1>2. ASSUME PolicyInv, UNCHANGED vars
      PROVE  PolicyInv'
  BY Zenon, <1>2 DEF PolicyInv, vars, authority
<1> QED BY <1>1, <1>2, PolicyStep, RevocationStep, TypesHold, PTL DEF Spec, RevocationHolds

-----------------------------------------------------------------------------
\* HandlesInv for one slot.
Fits(s) ==
  handles[s] \in HandleType =>
    HandleFits(handles[s], facade, up, outbox, files[handles[s].tok], staged[handles[s].tok])

LEMMA CallKeepsHandles ==
  ASSUME TypeOK, HandlesInv, NEW s \in Slots, CallStep(s)
  PROVE  HandlesInv'
<1> DEFINE h == handles[s]
           d == files[h.tok]
           c == staged[h.tok]
<1>1. PICK g \in HandleType, e \in FileType, b \in Charges :
        /\ g.tok = h.tok /\ g.facade = h.facade
        /\ CallKeeps(h, d, c, g, e, b)
        /\ handles' = [handles EXCEPT ![s] = g]
        /\ files' = [files EXCEPT ![h.tok] = e]
        /\ staged' = [staged EXCEPT ![h.tok] = b]
  BY Zenon DEF CallStep
<1>2. h \in HandleType /\ h.tok \in Tokens /\ h.facade = facade
      /\ UNCHANGED <<facade, up, outbox>>
  BY Zenon DEF CallStep, HandleType
<1>3. /\ handles'[s] = g /\ \A r \in Slots : r # s => handles'[r] = handles[r]
      /\ files'[h.tok] = e /\ \A t \in Tokens : t # h.tok => files'[t] = files[t]
      /\ staged'[h.tok] = b /\ \A t \in Tokens : t # h.tok => staged'[t] = staged[t]
  BY Zenon, <1>1, <1>2 DEF TypeOK
<1>4. /\ Terminal(d) => Terminal(e)
      /\ ~Terminal(e) /\ h.open /\ c # NoCharge /\ c.live = 1 /\ c.acc >= h.io.acc
           => g.open /\ b # NoCharge /\ b.live = 1 /\ b.acc >= g.io.acc
  BY Zenon, <1>1 DEF CallKeeps, Terminal
<1>5. HandleFits(h, facade, up, outbox, d, c)
  BY Zenon, <1>2 DEF HandlesInv
<1>6. HandleFits(g, facade, up, outbox, e, b)
  BY Zenon, <1>1, <1>4, <1>5 DEF HandleFits
<1>7. ASSUME NEW r \in Slots, r # s, handles[r] \in HandleType, handles[r].tok = h.tok
      PROVE  Terminal(e)
  BY Zenon, <1>2, <1>4, <1>7 DEF HandlesInv
<1> HIDE DEF h, d, c
<1>8. ASSUME NEW r \in Slots
      PROVE  Fits(r)'
  <2>1. CASE r = s
    BY Zenon, <2>1, <1>1, <1>2, <1>3, <1>6 DEF Fits
  <2>2. CASE r # s /\ handles[r] \in HandleType
    <3>1. handles[r].tok \in Tokens /\ handles'[r] = handles[r]
      BY Zenon, <2>2, <1>3 DEF HandleType
    <3>2. HandleFits(handles[r], facade, up, outbox, files[handles[r].tok], staged[handles[r].tok])
      BY Zenon, <2>2 DEF HandlesInv
    <3>3. CASE handles[r].tok = h.tok
      <4>1. HandleFits(handles[r], facade, up, outbox, e, b)
        BY Zenon, <2>2, <3>2, <3>3, <1>7 DEF HandleFits
      <4> QED BY Zenon, <3>1, <3>3, <4>1, <1>2, <1>3 DEF Fits
    <3>4. CASE handles[r].tok # h.tok
      BY Zenon, <3>1, <3>2, <3>4, <1>2, <1>3 DEF Fits
    <3> QED BY Zenon, <3>3, <3>4
  <2>3. CASE r # s /\ handles[r] \notin HandleType
    BY Zenon, <2>3, <1>3 DEF Fits
  <2> QED BY Zenon, <2>1, <2>2, <2>3
<1>9. ASSUME NEW q \in Slots, NEW r \in Slots, q # r,
             handles'[q] \in HandleType, handles'[r] \in HandleType, handles'[q].tok = handles'[r].tok
      PROVE  Terminal(files'[handles'[r].tok])
  <2>1. CASE q = s
    <3>1. handles'[r] = handles[r] /\ handles[r] \in HandleType /\ handles[r].tok = h.tok
      BY Zenon, <2>1, <1>9, <1>1, <1>3
    <3>2. Terminal(e)
      BY Zenon, <2>1, <1>9, <3>1, <1>7
    <3> QED BY Zenon, <3>1, <3>2, <1>3
  <2>2. CASE r = s
    <3>1. handles[q] \in HandleType /\ handles[q].tok = h.tok
      BY Zenon, <2>2, <1>9, <1>1, <1>3
    <3>2. Terminal(e)
      BY Zenon, <2>2, <1>9, <3>1, <1>7
    <3> QED BY Zenon, <2>2, <3>2, <1>1, <1>3
  <2>3. CASE q # s /\ r # s
    <3>1. Terminal(files[handles[r].tok]) /\ handles'[r] = handles[r] /\ handles[r].tok \in Tokens
      BY Zenon, <2>3, <1>3, <1>9 DEF HandlesInv, HandleType
    <3>2. CASE handles[r].tok = h.tok
      BY Zenon, <3>1, <3>2, <1>3, <1>4 DEF d
    <3>3. CASE handles[r].tok # h.tok
      BY Zenon, <3>1, <3>3, <1>3
    <3> QED BY Zenon, <3>2, <3>3
  <2> QED BY Zenon, <2>1, <2>2, <2>3
<1> QED BY Zenon, <1>8, <1>9 DEF HandlesInv, Fits

LEMMA CallKeepsLedger ==
  ASSUME TypeOK, HandlesInv, LedgerInv, NEW s \in Slots, CallStep(s)
  PROVE  LedgerInv'
<1> DEFINE h == handles[s]
           d == files[h.tok]
           c == staged[h.tok]
<1>1. PICK g \in HandleType, e \in FileType, b \in Charges :
        /\ CallKeeps(h, d, c, g, e, b)
        /\ CallCovers(h, d, c, e, b)
        /\ files' = [files EXCEPT ![h.tok] = e]
        /\ staged' = [staged EXCEPT ![h.tok] = b]
  BY Zenon DEF CallStep
<1>2. h \in HandleType /\ h.tok \in Tokens /\ doubt = NoDoubt
      /\ UNCHANGED <<kind, up, doubt, allow, committed, owners, outbox>>
  BY Zenon DEF CallStep, HandleType
<1>3. /\ files'[h.tok] = e /\ \A t \in Tokens : t # h.tok => files'[t] = files[t]
      /\ staged'[h.tok] = b /\ \A t \in Tokens : t # h.tok => staged'[t] = staged[t]
  BY Zenon, <1>1, <1>2 DEF TypeOK
<1>4. HandleFits(h, facade, up, outbox, d, c)
  BY Zenon, <1>2 DEF HandlesInv
<1>5. ~Terminal(d) => c # NoCharge /\ c.acc >= h.io.acc
  BY Zenon, <1>4 DEF HandleFits
<1>6. (d.st = "final" => e = d) /\ (b # NoCharge /\ b.final => (c # NoCharge /\ c.final) \/ e.st = "final")
  BY Zenon, <1>1 DEF CallKeeps
<1>7. Covered(d, c) => Covered(e, b)
  BY Zenon, <1>1, <1>5 DEF CallCovers
<1> HIDE DEF h
<1>8. (Memory => committed = owners)' /\ (allow => up)'
  BY Zenon, <1>2 DEF LedgerInv, Memory
<1>9. ASSUME NEW t \in Tokens, t \notin outbox'
      PROVE  files'[t] = NoBytes
  BY Zenon, <1>2, <1>3, <1>4, <1>9 DEF LedgerInv, HandleFits
<1>10. ASSUME NEW t \in Tokens, owners'[t] # "none"
       PROVE  files'[t].st = "final"
  BY Zenon, <1>2, <1>3, <1>6, <1>10 DEF LedgerInv
<1>11. ASSUME NEW t \in Tokens, staged'[t] # NoCharge, staged'[t].final
       PROVE  files'[t].st = "final"
  BY Zenon, <1>2, <1>3, <1>6, <1>11 DEF LedgerInv
<1>12. ASSUME allow', NEW t \in Unresolved'
       PROVE  staged'[t] # NoCharge /\ staged'[t].acc >= files'[t].bytes
  <2>1. t \in Tokens /\ files'[t].bytes > 0 /\ files'[t].st # "aborted" /\ owners[t] = "none"
    BY Zenon, <1>2, <1>12 DEF Unresolved, Owned
  <2>2. Covered(files[t], staged[t])
    BY Zenon, <1>2, <1>12, <2>1 DEF LedgerInv, Unresolved, Covered, Owned
  <2>3. Covered(files'[t], staged'[t])
    BY Zenon, <2>1, <2>2, <1>3, <1>7
  <2> QED BY Zenon, <2>1, <2>3 DEF Covered
<1> QED BY Zenon, <1>2, <1>8, <1>9, <1>10, <1>11, <1>12 DEF LedgerInv

LEMMA OpenKeepsHandles ==
  ASSUME TypeOK, HandlesInv, NEW s \in Slots, NEW t \in Tokens, OpenStep(s, t)
  PROVE  HandlesInv'
<1>1. PICK g \in HandleType, b \in ChargeType :
        /\ g.tok = t /\ g.facade = facade /\ g.open /\ b.live = 1 /\ b.acc >= g.io.acc
        /\ handles' = [handles EXCEPT ![s] = g] /\ staged' = [staged EXCEPT ![t] = b]
  BY Zenon DEF OpenStep
<1>2. /\ handles[s] = NoHandle /\ up /\ outbox' = outbox \cup {t} /\ UNCHANGED <<facade, up, files>>
      /\ t \in outbox /\ staged[t] # NoCharge => staged[t].live = 0
  BY Zenon DEF OpenStep
<1>3. /\ handles'[s] = g /\ \A r \in Slots : r # s => handles'[r] = handles[r]
      /\ staged'[t] = b /\ \A u \in Tokens : u # t => staged'[u] = staged[u]
  BY Zenon, <1>1 DEF TypeOK
<1>4. HandleFits(g, facade, up, outbox', files[t], b)
  BY Zenon, <1>1, <1>2, Distinct DEF HandleFits
<1>5. ASSUME NEW r \in Slots, handles[r] \in HandleType, handles[r].tok = t
      PROVE  Terminal(files[t])
  <2>1. HandleFits(handles[r], facade, up, outbox, files[t], staged[t])
    BY Zenon, <1>5 DEF HandlesInv
  <2>2. ~Terminal(files[t]) => staged[t].live = 1 /\ staged[t].live = 0
    BY Zenon, <1>2, <1>5, <2>1 DEF HandleFits
  <2> QED BY <2>2
<1>6. ASSUME NEW r \in Slots
      PROVE  Fits(r)'
  <2>1. CASE r = s
    <3>1. /\ handles'[r].tok = t /\ files'[t] = files[t] /\ staged'[t] = b
          /\ handles'[r] = g /\ facade' = facade /\ up' = up
      BY Zenon, <2>1, <1>1, <1>2, <1>3
    <3> QED BY Zenon, <3>1, <1>4 DEF Fits
  <2>2. CASE r # s /\ handles[r] \in HandleType
    <3>1. handles[r].tok \in Tokens /\ handles'[r] = handles[r]
      BY Zenon, <2>2, <1>3 DEF HandleType
    <3>2. HandleFits(handles[r], facade, up, outbox, files[handles[r].tok], staged[handles[r].tok])
      BY Zenon, <2>2 DEF HandlesInv
    <3>3. HandleFits(handles[r], facade, up, outbox', files[handles[r].tok], staged'[handles[r].tok])
      BY Zenon, <2>2, <3>1, <3>2, <1>2, <1>3, <1>5 DEF HandleFits
    <3> QED BY Zenon, <3>1, <3>3, <1>2 DEF Fits
  <2>3. CASE r # s /\ handles[r] \notin HandleType
    BY Zenon, <2>3, <1>3 DEF Fits
  <2> QED BY Zenon, <2>1, <2>2, <2>3
<1>7. ASSUME NEW q \in Slots, NEW r \in Slots, q # r,
             handles'[q] \in HandleType, handles'[r] \in HandleType, handles'[q].tok = handles'[r].tok
      PROVE  Terminal(files'[handles'[r].tok])
  <2>1. CASE q = s
    <3>1. handles'[r] = handles[r] /\ handles[r] \in HandleType /\ handles[r].tok = t
      BY Zenon, <2>1, <1>7, <1>1, <1>3
    <3> QED BY Zenon, <3>1, <1>2, <1>5
  <2>2. CASE r = s
    <3>1. handles[q] \in HandleType /\ handles[q].tok = t /\ handles'[r].tok = t
      BY Zenon, <2>2, <1>7, <1>1, <1>3
    <3> QED BY Zenon, <3>1, <1>2, <1>5
  <2>3. CASE q # s /\ r # s
    BY Zenon, <2>3, <1>2, <1>3, <1>7 DEF HandlesInv
  <2> QED BY Zenon, <2>1, <2>2, <2>3
<1> QED BY Zenon, <1>6, <1>7 DEF HandlesInv, Fits

LEMMA OpenKeepsLedger ==
  ASSUME TypeOK, LedgerInv, NEW s \in Slots, NEW t \in Tokens, OpenStep(s, t)
  PROVE  LedgerInv'
<1>1. PICK b \in ChargeType :
        /\ b.acc >= (IF t \in outbox THEN files[t].bytes ELSE 0)
        /\ b.final => staged[t] # NoCharge /\ staged[t].final
        /\ staged' = [staged EXCEPT ![t] = b]
  BY Zenon DEF OpenStep
<1>2. /\ doubt = NoDoubt /\ outbox' = outbox \cup {t}
      /\ UNCHANGED <<kind, up, doubt, allow, committed, owners, files>>
  BY Zenon DEF OpenStep
<1>3. staged'[t] = b /\ \A u \in Tokens : u # t => staged'[u] = staged[u]
  BY Zenon, <1>1 DEF TypeOK
<1>4. b # NoCharge /\ b.acc >= files[t].bytes
  <2>1. t \notin outbox => files[t].bytes = 0
    BY DEF LedgerInv, NoBytes
  <2> QED BY Zenon, <1>1, <2>1, Distinct
<1>5. (Memory => committed = owners)' /\ (allow => up)'
  BY Zenon, <1>2 DEF LedgerInv, Memory
<1>6. ASSUME NEW u \in Tokens, u \notin outbox'
      PROVE  files'[u] = NoBytes
  BY Zenon, <1>2, <1>6 DEF LedgerInv
<1>7. ASSUME NEW u \in Tokens, staged'[u] # NoCharge, staged'[u].final
      PROVE  files'[u].st = "final"
  BY Zenon, <1>1, <1>2, <1>3, <1>7 DEF LedgerInv
<1>8. ASSUME allow', NEW u \in Unresolved'
      PROVE  staged'[u] # NoCharge /\ staged'[u].acc >= files'[u].bytes
  <2>1. u \in Tokens /\ u \in Unresolved
    BY Zenon, <1>2, <1>8 DEF Unresolved, Owned
  <2> QED BY Zenon, <1>2, <1>3, <1>4, <1>8, <2>1 DEF LedgerInv
<1>9. \A u \in Tokens : owners'[u] # "none" => files'[u].st = "final"
  BY Zenon, <1>2 DEF LedgerInv
<1> QED BY Zenon, <1>2, <1>5, <1>6, <1>7, <1>8, <1>9 DEF LedgerInv

\* Dropping a handle frees its slot in the reservation, which no other open
\* handle shares.
LEMMA DropKeeps ==
  ASSUME TypeOK, HandlesInv, LedgerInv, NEW s \in Slots, DropHandle(s)
  PROVE  HandlesInv' /\ LedgerInv'
<1> DEFINE h == handles[s]
<1>1. /\ s \in Live /\ handles' = [handles EXCEPT ![s] = NoHandle]
      /\ UNCHANGED <<kind, facade, up, doubt, allow, committed, owners, files, outbox>>
  BY Zenon DEF DropHandle, authority, store
<1>2. handles'[s] = NoHandle /\ \A r \in Slots : r # s => handles'[r] = handles[r]
  BY Zenon, <1>1 DEF TypeOK
<1>3. \/ staged' = staged
      \/ /\ h \in HandleType /\ h.tok \in Charged
         /\ staged' = [staged EXCEPT ![h.tok] = LiveLess(staged[h.tok])]
  <2>1. h \in HandleType \/ h = Orphan
    BY Zenon, <1>1 DEF Live, TypeOK
  <2>2. ~Orphan.open
    BY DEF Orphan
  <2> QED BY Zenon, <2>1, <2>2 DEF DropHandle
<1>4. ASSUME NEW t \in Tokens
      PROVE  \/ staged'[t] = staged[t]
             \/ /\ h \in HandleType /\ h.tok = t /\ staged[t] \in ChargeType
                /\ staged'[t] = LiveLess(staged[t])
  BY Zenon, <1>3 DEF TypeOK, Charged
<1>5. ASSUME NEW t \in Tokens
      PROVE  /\ staged[t] # NoCharge <=> staged'[t] # NoCharge
             /\ staged[t] # NoCharge => /\ staged'[t].acc = staged[t].acc
                                        /\ staged'[t].final = staged[t].final
  <2>1. CASE staged'[t] = staged[t]
    BY Zenon, <2>1
  <2>2. CASE staged[t] \in ChargeType /\ staged'[t] = LiveLess(staged[t])
    <3>1. LiveLess(staged[t]) \in ChargeType
      BY Zenon, <2>2, ChargeFreed
    <3>2. LiveLess(staged[t]).acc = staged[t].acc
      BY Zenon, <2>2, ChargeFreed
    <3>3. LiveLess(staged[t]).final = staged[t].final
      BY Zenon, <2>2, ChargeFreed
    <3> QED BY Zenon, <2>2, <3>1, <3>2, <3>3, Distinct
  <2> QED BY Zenon, <1>4, <2>1, <2>2
<1>6. ASSUME NEW r \in Slots
      PROVE  Fits(r)'
  <2>1. CASE r = s
    BY Zenon, <2>1, <1>2, Distinct DEF Fits
  <2>2. CASE r # s /\ handles[r] \in HandleType
    <3>1. handles[r].tok \in Tokens /\ handles'[r] = handles[r]
      BY Zenon, <2>2, <1>2 DEF HandleType
    <3>2. HandleFits(handles[r], facade, up, outbox, files[handles[r].tok], staged[handles[r].tok])
      BY Zenon, <2>2 DEF HandlesInv
    <3>3. ~Terminal(files[handles[r].tok]) => staged'[handles[r].tok] = staged[handles[r].tok]
      BY Zenon, <2>2, <3>1, <1>4 DEF HandlesInv
    <3>4. HandleFits(handles[r], facade, up, outbox, files[handles[r].tok], staged'[handles[r].tok])
      BY Zenon, <3>2, <3>3 DEF HandleFits
    <3> QED BY Zenon, <3>1, <3>4, <1>1 DEF Fits
  <2>3. CASE r # s /\ handles[r] \notin HandleType
    BY Zenon, <2>3, <1>2 DEF Fits
  <2> QED BY Zenon, <2>1, <2>2, <2>3
<1>7. ASSUME NEW q \in Slots, NEW r \in Slots, q # r,
             handles'[q] \in HandleType, handles'[r] \in HandleType, handles'[q].tok = handles'[r].tok
      PROVE  Terminal(files'[handles'[r].tok])
  <2>1. q # s /\ r # s
    BY Zenon, <1>2, <1>7, Distinct
  <2> QED BY Zenon, <2>1, <1>1, <1>2, <1>7 DEF HandlesInv
<1>8. HandlesInv'
  BY Zenon, <1>6, <1>7 DEF HandlesInv, Fits
<1>9. LedgerInv'
  <2>1. (Memory => committed = owners)' /\ (allow => up)'
    BY Zenon, <1>1 DEF LedgerInv, Memory
  <2>2. ASSUME NEW t \in Tokens, staged'[t] # NoCharge, staged'[t].final
        PROVE  files'[t].st = "final"
    BY Zenon, <1>1, <1>5, <2>2 DEF LedgerInv
  <2>3. ASSUME allow', NEW t \in Unresolved'
        PROVE  staged'[t] # NoCharge /\ staged'[t].acc >= files'[t].bytes
    <3>1. t \in Tokens /\ t \in Unresolved
      BY Zenon, <1>1, <2>3 DEF Unresolved, Owned
    <3> QED BY Zenon, <1>1, <1>5, <2>3, <3>1 DEF LedgerInv
  <2>4. /\ \A t \in Tokens : t \notin outbox' => files'[t] = NoBytes
        /\ \A t \in Tokens : owners'[t] # "none" => files'[t].st = "final"
        /\ doubt' # NoDoubt => \A t \in doubt'.inv : files'[t].st = "final"
    BY Zenon, <1>1 DEF LedgerInv
  <2> QED BY Zenon, <2>1, <2>2, <2>3, <2>4 DEF LedgerInv
<1> QED BY Zenon, <1>8, <1>9

\* check_inventory: a commit lists finished blobs only.
LEMMA InventoryFinal ==
  ASSUME TypeOK, LedgerInv, NEW p \in Callers, NEW inv \in SUBSET Tokens, InventoryFits(p, inv)
  PROVE  \A t \in inv : files[t].st = "final"
<1> SUFFICES ASSUME NEW t \in inv
             PROVE  files[t].st = "final"
  OBVIOUS
<1>1. t \in Tokens /\ p.who # "none"
  BY CallerKnown, PrincipalAssumption
<1>2. \/ CountedOwners[t] = p.who
      \/ t \in Charged /\ staged[t].final
  BY Zenon DEF InventoryFits
<1>3. CASE CountedOwners[t] = p.who
  <2>1. owners[t] = p.who
    BY Zenon, <1>3 DEF CountedOwners, LedgerInv
  <2> QED BY Zenon, <1>1, <2>1 DEF LedgerInv
<1>4. CASE t \in Charged /\ staged[t].final
  BY Zenon, <1>1, <1>4 DEF LedgerInv, Charged
<1> QED BY Zenon, <1>2, <1>3, <1>4

\* A certified commit of finished blobs: what it releases is owned.
LEMMA CertifiedKeeps ==
  ASSUME TypeOK, HandlesInv, LedgerInv, NEW inv \in SUBSET Tokens, NEW who \in Principals,
         NEW change, Certified(who, inv, change), \A t \in inv : files[t].st = "final",
         \A t \in Tokens : staged'[t] = staged[t] \/ (t \in inv /\ staged'[t] = NoCharge),
         Memory => committed' =
           [t \in Tokens |-> IF t \in inv /\ committed[t] = "none" THEN who ELSE committed[t]],
         UNCHANGED <<kind, facade, up, doubt, allow, files, outbox, handles>>
  PROVE  HandlesInv' /\ LedgerInv'
<1>0. who # "none"
  BY PrincipalAssumption
<1>1. \A t \in Tokens :
        owners'[t] = IF t \in inv /\ owners[t] = "none" THEN who ELSE owners[t]
  BY Zenon DEF Certified
<1>2. ASSUME NEW r \in Slots
      PROVE  Fits(r)'
  <2>1. CASE handles[r] \in HandleType
    <3>1. handles[r].tok \in Tokens
      BY Zenon, <2>1 DEF HandleType
    <3>2. HandleFits(handles[r], facade, up, outbox, files[handles[r].tok], staged[handles[r].tok])
      BY Zenon, <2>1 DEF HandlesInv
    <3>3. files[handles[r].tok].st = "final" => Terminal(files[handles[r].tok])
      BY DEF Terminal
    <3>4. HandleFits(handles[r], facade, up, outbox, files[handles[r].tok], staged'[handles[r].tok])
      BY Zenon, <3>1, <3>2, <3>3 DEF HandleFits
    <3> QED BY Zenon, <3>4 DEF Fits
  <2>2. CASE handles[r] \notin HandleType
    BY Zenon, <2>2 DEF Fits
  <2> QED BY Zenon, <2>1, <2>2
<1>3. HandlesInv'
  BY Zenon, <1>2 DEF HandlesInv, Fits
<1>4. (Memory => committed = owners)' /\ (allow => up)'
  BY Zenon DEF LedgerInv, Memory, Certified
<1>5. ASSUME NEW t \in Tokens, owners'[t] # "none"
      PROVE  files'[t].st = "final"
  BY Zenon, <1>1, <1>5 DEF LedgerInv
<1>6. ASSUME NEW t \in Tokens, staged'[t] # NoCharge, staged'[t].final
      PROVE  files'[t].st = "final"
  BY Zenon, <1>6 DEF LedgerInv
<1>7. ASSUME allow', NEW t \in Unresolved'
      PROVE  staged'[t] # NoCharge /\ staged'[t].acc >= files'[t].bytes
  <2>1. t \in Tokens /\ owners'[t] = "none" /\ files[t].bytes > 0 /\ files[t].st # "aborted"
    BY Zenon, <1>7 DEF Unresolved, Owned
  <2>2. owners[t] = "none" /\ t \notin inv
    BY Zenon, <1>0, <1>1, <2>1
  <2>3. t \in Unresolved /\ staged'[t] = staged[t]
    BY Zenon, <2>1, <2>2 DEF Unresolved, Owned
  <2> QED BY Zenon, <1>7, <2>3 DEF LedgerInv
<1>8. /\ \A t \in Tokens : t \notin outbox' => files'[t] = NoBytes
      /\ doubt' # NoDoubt => \A t \in doubt'.inv : files'[t].st = "final"
  BY Zenon DEF LedgerInv
<1> QED BY Zenon, <1>3, <1>4, <1>5, <1>6, <1>7, <1>8 DEF LedgerInv

LEMMA DoubtedKeeps ==
  ASSUME TypeOK, HandlesInv, LedgerInv, NEW p, NEW inv, NEW change, Doubted(p, inv, change),
         \A t \in inv : files[t].st = "final", UNCHANGED <<files, outbox, handles>>
  PROVE  HandlesInv' /\ LedgerInv'
<1>1. UNCHANGED <<kind, facade, up, staged, committed, allow, owners>> /\ doubt'.inv = inv
  BY Zenon DEF Doubted, ledger
<1>2. HandlesInv'
  BY Zenon, <1>1 DEF HandlesInv
<1>3. Unresolved' = Unresolved /\ (Memory' <=> Memory)
  BY Zenon, <1>1 DEF Unresolved, Owned, Memory
<1>4. doubt' # NoDoubt => \A t \in doubt'.inv : files'[t].st = "final"
  BY Zenon, <1>1
<1> QED BY Zenon, <1>1, <1>2, <1>3, <1>4 DEF LedgerInv

\* A reconciled outbox has nothing unsettled left.
LEMMA ReconcileKeeps ==
  ASSUME TypeOK, HandlesInv, LedgerInv, NEW p, Reconcile(p)
  PROVE  HandlesInv' /\ LedgerInv'
<1>1. /\ up /\ UNCHANGED <<kind, facade, up, doubt, staged, committed, owners, files, outbox, handles>>
      /\ \A t \in outbox \ Owned : Resume(files[t]) = {} \/ ~Evidence(files[t])
  BY Zenon DEF Reconcile, authority, store, process
<1>2. ASSUME NEW t \in Unresolved
      PROVE  FALSE
  <2>1. t \in Tokens /\ files[t].bytes > 0 /\ files[t].st # "aborted" /\ t \notin Owned
    BY Zenon DEF Unresolved
  <2>2. t \in outbox
    <3>1. NoBytes.bytes = 0
      BY DEF NoBytes
    <3>2. files[t] # NoBytes
      BY <2>1, <3>1
    <3> QED BY Zenon, <2>1, <3>2 DEF LedgerInv
  <2>3. \E io : io \in Resume(files[t])
    BY Zenon, <2>1 DEF Resume
  <2>4. Evidence(files[t])
    BY Zenon, <2>1 DEF Evidence
  <2> QED BY Zenon, <1>1, <2>1, <2>2, <2>3, <2>4
<1>3. HandlesInv'
  BY Zenon, <1>1 DEF HandlesInv
<1>4. Unresolved' = Unresolved /\ (Memory' <=> Memory)
  BY Zenon, <1>1 DEF Unresolved, Owned, Memory
<1> QED BY Zenon, <1>1, <1>2, <1>3, <1>4 DEF LedgerInv

\* Without a facade, or with one just made, there is no handle and no charge.
LEMMA EmptyHandles ==
  ASSUME handles' \in [Slots -> {NoHandle, Orphan}]
  PROVE  HandlesInv'
<1>1. \A s \in Slots : handles'[s] \notin HandleType
  BY Zenon, Distinct
<1> QED BY Zenon, <1>1 DEF HandlesInv

LEMMA ReopenKeeps ==
  ASSUME TypeOK, HandlesInv, LedgerInv, NEW crash \in BOOLEAN, NEW lands \in BOOLEAN,
         Reopen(crash, lands)
  PROVE  HandlesInv' /\ LedgerInv'
<1>1. /\ ~allow' /\ doubt' = NoDoubt /\ UNCHANGED <<kind, files, outbox>>
      /\ staged' = [t \in Tokens |-> NoCharge] /\ (Memory => committed' = owners')
      /\ handles' = Orphaned \/ handles' = [s \in Slots |-> NoHandle]
  BY Zenon DEF Reopen
<1>2. HandlesInv'
  BY Zenon, <1>1, OrphanedTyped, EmptyHandles
<1>3. ASSUME NEW t \in Tokens, owners'[t] # "none"
      PROVE  files'[t].st = "final"
  <2>1. \/ owners'[t] = owners[t]
        \/ lands /\ doubt # NoDoubt /\ t \in doubt.inv
    BY Zenon DEF Reopen, Certified
  <2> QED BY Zenon, <1>1, <1>3, <2>1 DEF LedgerInv
<1>4. (Memory => committed = owners)'
  BY Zenon, <1>1 DEF Memory
<1>5. \A t \in Tokens : staged'[t] = NoCharge
  BY Zenon, <1>1
<1> QED BY Zenon, <1>1, <1>2, <1>3, <1>4, <1>5 DEF LedgerInv

LEMMA FacadeKeeps ==
  ASSUME TypeOK, HandlesInv, LedgerInv, NewDiskFacade \/ DropDiskFacade
  PROVE  HandlesInv' /\ LedgerInv'
<1>1. CASE NewDiskFacade
  <2>1. /\ ~up /\ up' = TRUE
        /\ UNCHANGED <<kind, doubt, staged, committed, allow, owners, files, outbox, handles>>
    BY Zenon, <1>1 DEF NewDiskFacade, ledger, store, process
  <2>2. \A s \in Slots : handles[s] \notin HandleType
    BY Zenon, <2>1 DEF HandlesInv, HandleFits
  <2>3. HandlesInv'
    BY Zenon, <2>1, <2>2 DEF HandlesInv
  <2>4. Unresolved' = Unresolved /\ (Memory' <=> Memory)
    BY Zenon, <2>1 DEF Unresolved, Owned, Memory
  <2> QED BY Zenon, <2>1, <2>3, <2>4 DEF LedgerInv
<1>2. CASE DropDiskFacade
  <2>1. /\ ~allow' /\ staged' = [t \in Tokens |-> NoCharge] /\ handles' = Orphaned
        /\ UNCHANGED <<kind, doubt, committed, owners, files, outbox>>
    BY Zenon, <1>2 DEF DropDiskFacade, store
  <2>2. HandlesInv'
    BY Zenon, <2>1, OrphanedTyped, EmptyHandles
  <2>3. (Memory' <=> Memory) /\ \A t \in Tokens : staged'[t] = NoCharge
    BY Zenon, <2>1 DEF Memory
  <2> QED BY Zenon, <2>1, <2>2, <2>3 DEF LedgerInv
<1> QED BY Zenon, <1>1, <1>2

LEMMA LedgerStep ==
  ASSUME TypeOK, HandlesInv, LedgerInv, Next
  PROVE  HandlesInv' /\ LedgerInv'
<1> DEFINE Goal == HandlesInv' /\ LedgerInv'
<1>1. ASSUME UNCHANGED <<kind, facade, up, doubt, ledger, store, handles>>
      PROVE  Goal
  <2>1. HandlesInv'
    BY Zenon, <1>1 DEF HandlesInv, ledger, store
  <2>2. Unresolved' = Unresolved /\ (Memory' <=> Memory)
    BY Zenon, <1>1 DEF Unresolved, Owned, Memory, store
  <2>3. LedgerInv'
    BY Zenon, <1>1, <2>2 DEF LedgerInv, ledger, store
  <2> QED BY Zenon, <2>1, <2>3
<1> HIDE DEF Goal
<1>2. ASSUME NEW s \in Slots, NEW t \in Tokens, OpenStep(s, t)
      PROVE  Goal
  BY Zenon, <1>2, OpenKeepsHandles, OpenKeepsLedger DEF Goal
<1>3. ASSUME NEW s \in Slots, CallStep(s)
      PROVE  Goal
  BY Zenon, <1>3, CallKeepsHandles, CallKeepsLedger DEF Goal
<1>4. ASSUME NEW s \in Slots, DropHandle(s)
      PROVE  Goal
  BY Zenon, <1>4, DropKeeps DEF Goal
<1>5. ASSUME NEW p \in Callers, Reconcile(p)
      PROVE  Goal
  BY Zenon, <1>5, ReconcileKeeps DEF Goal
<1>6. ASSUME NEW p \in Callers, NEW inv \in SUBSET Tokens,
             NEW change \in {0} \cup DOMAIN Policies, Commit(p, inv, change)
      PROVE  Goal
  <2>1. (\A t \in inv : files[t].st = "final") /\ UNCHANGED <<files, outbox, handles>>
    <3>1. inv = {} \/ InventoryFits(p, inv)
      BY Zenon, <1>6 DEF Commit
    <3>2. UNCHANGED <<files, outbox, handles>>
      BY Zenon, <1>6 DEF Commit
    <3> QED BY Zenon, <3>1, <3>2, InventoryFinal
  <2>2. CASE Doubted(p, inv, change)
    BY Zenon, <2>1, <2>2, DoubtedKeeps DEF Goal
  <2>3. CASE /\ Certified(p.who, inv, change) /\ ChargeMoves(p.who, inv)
             /\ UNCHANGED <<kind, facade, up, doubt, allow>>
    <3>1. \A t \in Tokens : staged'[t] = staged[t] \/ (t \in inv /\ staged'[t] = NoCharge)
      BY Zenon, <2>3 DEF ChargeMoves
    <3>2. committed' =
            [t \in Tokens |-> IF t \in inv /\ committed[t] = "none" THEN p.who ELSE committed[t]]
      BY Zenon, <2>3 DEF ChargeMoves
    <3> QED BY Zenon, <2>1, <2>3, <3>1, <3>2, CallerKnown, CertifiedKeeps DEF Goal
  <2> QED BY Zenon, <1>6, <2>2, <2>3 DEF Commit
<1>7. ASSUME NEW p \in Callers, NEW inv \in SUBSET Tokens, CommitInventory(p, inv)
      PROVE  Goal
  <2>1. (\A t \in inv : files[t].st = "final") /\ UNCHANGED <<files, outbox, handles>> /\ ~Memory
    <3>1. kind = "disk" /\ InventoryFits(p, inv) /\ UNCHANGED <<files, outbox, handles>>
      BY Zenon, <1>7 DEF CommitInventory
    <3>2. ~Memory
      BY <3>1 DEF Memory
    <3> QED BY Zenon, <3>1, <3>2, InventoryFinal
  <2>2. CASE Doubted(p, inv, 0)
    BY Zenon, <2>1, <2>2, DoubtedKeeps DEF Goal
  <2>3. CASE ~Doubted(p, inv, 0)
    <3>1. Certified(p.who, inv, 0) /\ UNCHANGED <<kind, facade, up, doubt, allow>>
      BY Zenon, <1>7, <2>3 DEF CommitInventory
    <3>2. \A t \in Tokens : staged'[t] = staged[t] \/ (t \in inv /\ staged'[t] = NoCharge)
      BY Zenon, <1>7, <2>3 DEF CommitInventory
    <3> QED BY Zenon, <2>1, <3>1, <3>2, CallerKnown, CertifiedKeeps DEF Goal
  <2> QED BY Zenon, <2>2, <2>3
<1>8. ASSUME NEW p \in Callers, NEW change \in {0} \cup DOMAIN Policies,
             DiskWriterCommit(p, change)
      PROVE  Goal
  <2>1. /\ ~Memory /\ UNCHANGED <<files, outbox, handles>> /\ {} \in SUBSET Tokens
        /\ \A t \in {} : files[t].st = "final"
    BY Zenon, <1>8 DEF DiskWriterCommit
  <2>2. CASE Doubted(p, {}, change)
    <3>1. PICK inv \in SUBSET Tokens : inv = {} /\ \A t \in inv : files[t].st = "final"
      BY Zenon, <2>1
    <3>2. Doubted(p, inv, change)
      BY Zenon, <2>2, <3>1
    <3> QED BY Zenon, <2>1, <3>1, <3>2, DoubtedKeeps DEF Goal
  <2>3. CASE /\ Certified(p.who, {}, change)
             /\ UNCHANGED <<kind, facade, up, doubt, ledger>>
    <3>1. UNCHANGED <<staged, allow>>
      BY Zenon, <2>3 DEF ledger
    <3> QED BY Zenon, <2>1, <2>3, <3>1, CallerKnown, CertifiedKeeps DEF Goal
  <2> QED BY Zenon, <1>8, <2>2, <2>3 DEF DiskWriterCommit
<1>9. ASSUME NEW p \in Callers, ReadView(p) \/ DiskWriterRetry(p)
      PROVE  Goal
  BY Zenon, <1>1, <1>9 DEF ReadView, DiskWriterRetry, authority, process
<1>10. ASSUME NEW p \in Callers, NEW v \in DOMAIN Policies, NEW w \in DOMAIN Policies,
              ReplaceNamespacePolicy(p, v, w)
       PROVE  Goal
  BY Zenon, <1>1, <1>10 DEF ReplaceNamespacePolicy, process
<1>11. ASSUME NEW p \in Callers, NEW request \in SUBSET Records,
              Read(p, request) \/ ReadDisk(p, request) \/ ReadPacked(p, request)
       PROVE  Goal
  <2>1. UNCHANGED <<authority, ledger, store, process>>
    BY Zenon, <1>11 DEF Read, ReadDisk, ReadPacked
  <2>2. UNCHANGED <<kind, facade, up, doubt, ledger, store, handles>>
    BY Zenon, <2>1 DEF authority, process
  <2> QED BY Zenon, <1>1, <2>2
<1>12. ASSUME DropView
       PROVE  Goal
  BY Zenon, <1>1, <1>12 DEF DropView, authority
<1>13. ASSUME NewDiskFacade \/ DropDiskFacade
       PROVE  Goal
  BY Zenon, <1>13, FacadeKeeps DEF Goal
<1>14. ASSUME NEW crash \in BOOLEAN, NEW lands \in BOOLEAN, Reopen(crash, lands)
       PROVE  Goal
  BY Zenon, <1>14, ReopenKeeps DEF Goal
<1> QED BY Zenon, <1>2, <1>3, <1>4, <1>5, <1>6, <1>7, <1>8, <1>9, <1>10, <1>11, <1>12, <1>13,
        <1>14, Flattened, StartOpens, ResumeOpens, WriteIsCall, FinishIsCall, AbortIsCall
        DEF Step, Goal

\* The inductive invariant of handles, charges, files and owners (authorized.rs).
LEMMA LedgerHolds == Spec => [](HandlesInv /\ LedgerInv)
<1>1. ASSUME Init
      PROVE  HandlesInv /\ LedgerInv
  <2>1. HandlesInv
    BY Zenon, <1>1, Distinct DEF Init, HandlesInv
  <2>2. \A t \in Tokens : files[t] = NoBytes /\ owners[t] = "none" /\ staged[t] = NoCharge
    BY Zenon, <1>1 DEF Init
  <2>3. Unresolved = {}
    <3>1. NoBytes.bytes = 0
      BY DEF NoBytes
    <3> QED BY <2>2, <3>1 DEF Unresolved
  <2>4. committed = owners /\ (allow => up) /\ doubt = NoDoubt
    BY Zenon, <1>1 DEF Init
  <2> QED BY Zenon, <2>1, <2>2, <2>3, <2>4 DEF LedgerInv
<1>2. ASSUME HandlesInv, LedgerInv, UNCHANGED vars
      PROVE  HandlesInv' /\ LedgerInv'
  <2>1. Unresolved' = Unresolved /\ (Memory' <=> Memory)
    BY Zenon, <1>2 DEF Unresolved, Owned, Memory, vars, authority, store
  <2>2. HandlesInv'
    BY Zenon, <1>2 DEF HandlesInv, vars, authority, ledger, store, process
  <2>3. LedgerInv'
    BY Zenon, <1>2, <2>1 DEF LedgerInv, vars, authority, ledger, store
  <2> QED BY Zenon, <2>2, <2>3
<1> QED BY <1>1, <1>2, LedgerStep, TypesHold, PTL DEF Spec

\* The quota ledger is exact (write_blob_upload, finish, abort, drop, the commits and
\* the reconciliation): with new uploads admitted every unsettled byte on disk is
\* charged, the ledger's owners are the journal's, and owned blobs are finished.
THEOREM LedgerStaysExact == Spec => []LedgerIsExact
<1>1. LedgerInv => LedgerIsExact
  BY Zenon DEF LedgerInv, LedgerIsExact, Charged, Owned, Unresolved
<1> QED BY <1>1, LedgerHolds, PTL

-----------------------------------------------------------------------------
INSTANCE FiniteSetTheorems

\* The slots of hs whose handle holds a lease.
Leased(hs) == {s \in Slots : hs[s] # NoHandle /\ hs[s].io.lease}

LEMMA LeasedFinite ==
  ASSUME NEW hs
  PROVE  IsFiniteSet(Leased(hs)) /\ Cardinality(Leased(hs)) \in Nat
<1>1. IsFiniteSet(Slots) /\ Leased(hs) \in SUBSET Slots
  BY ByteAssumption DEF Leased
<1>2. IsFiniteSet(Leased(hs))
  BY Zenon, <1>1, FS_Subset
<1> QED BY Zenon, <1>2, FS_CardinalityType

LEMMA LeasedMoves ==
  ASSUME NEW hs, DOMAIN hs = Slots, NEW s \in Slots, NEW g
  PROVE  Cardinality(Leased([hs EXCEPT ![s] = g])) =
           Cardinality(Leased(hs)) - (IF s \in Leased(hs) THEN 1 ELSE 0)
                                   + (IF g # NoHandle /\ g.io.lease THEN 1 ELSE 0)
<1> DEFINE ks == [hs EXCEPT ![s] = g]
           rest == Leased(hs) \ {s}
<1>1. ks[s] = g /\ \A r \in Slots : r # s => ks[r] = hs[r]
  BY Zenon
<1> HIDE DEF ks
<1>2. IsFiniteSet(Leased(hs)) /\ Cardinality(Leased(hs)) \in Nat
  BY Zenon, LeasedFinite
<1>3. /\ IsFiniteSet(rest)
      /\ Cardinality(rest) = IF s \in Leased(hs) THEN Cardinality(Leased(hs)) - 1
                                                 ELSE Cardinality(Leased(hs))
  BY Zenon, <1>2, FS_RemoveElement
<1>4. CASE g # NoHandle /\ g.io.lease
  <2>1. Leased(ks) = rest \cup {s}
    BY <1>1, <1>4 DEF Leased
  <2>2. s \notin rest
    OBVIOUS
  <2> HIDE DEF rest
  <2>3. Cardinality(rest \cup {s}) = Cardinality(rest) + 1
    BY Zenon, <1>3, <2>2, FS_AddElement
  <2>4. (IF g # NoHandle /\ g.io.lease THEN 1 ELSE 0) = 1
    BY Zenon, <1>4
  <2>5. Cardinality(Leased(ks)) = Cardinality(rest) + 1
    BY Zenon, <2>1, <2>3
  <2> QED BY <1>2, <1>3, <2>4, <2>5 DEF ks
<1>5. CASE ~(g # NoHandle /\ g.io.lease)
  <2>1. Leased(ks) = rest
    BY <1>1, <1>5 DEF Leased
  <2>2. (IF g # NoHandle /\ g.io.lease THEN 1 ELSE 0) = 0
    BY Zenon, <1>5
  <2> HIDE DEF rest
  <2> QED BY <1>2, <1>3, <2>1, <2>2 DEF ks
<1> QED BY Zenon, <1>4, <1>5

LEMMA LeasedOrphans ==
  Leased(Orphaned) = Leased(handles) /\ Leased([s \in Slots |-> NoHandle]) = {}
<1>1. ASSUME NEW s \in Slots
      PROVE  s \in Leased(Orphaned) <=> s \in Leased(handles)
  <2>1. Orphaned[s] = IF s \in Live /\ handles[s].io.lease THEN Orphan ELSE NoHandle
    BY Zenon DEF Orphaned, Orphan
  <2>2. Orphan # NoHandle /\ Orphan.io.lease
    <3>1. Orphan.io.lease
      BY DEF Orphan, Fresh
    <3> QED BY Zenon, <3>1, Distinct
  <2> QED BY Zenon, <2>1, <2>2 DEF Leased, Live
<1>2. Leased(Orphaned) = Leased(handles)
  <2>1. Leased(Orphaned) \subseteq Slots /\ Leased(handles) \subseteq Slots
    BY DEF Leased
  <2> QED BY Zenon, <1>1, <2>1
<1>3. Leased([s \in Slots |-> NoHandle]) = {}
  BY Zenon DEF Leased
<1> QED BY Zenon, <1>2, <1>3

\* ACTIVE_UPLOADS, with the set that it counts as a function of the handles.
ActiveIs(a, hs) == a = Cardinality(Leased(hs))

IoInv == \A s \in Slots : handles[s] \in HandleType => IoFits(handles[s].io, files[handles[s].tok])

LEMMA ActiveMoves ==
  ASSUME TypeOK, ActiveIs(active, handles), NEW s \in Slots, NEW g \in HandleType,
         handles' = [handles EXCEPT ![s] = g], LeaseMoves(s, g.io)
  PROVE  ActiveIs(active', handles')
<1>1. g # NoHandle /\ DOMAIN handles = Slots
  BY Zenon, Distinct DEF TypeOK
<1>2. Cardinality(Leased(handles')) =
        Cardinality(Leased(handles)) - (IF s \in Leased(handles) THEN 1 ELSE 0)
                                     + (IF g # NoHandle /\ g.io.lease THEN 1 ELSE 0)
  BY Zenon, <1>1, LeasedMoves
<1>3. s \in Leased(handles) <=> s \in Live /\ handles[s].io.lease
  BY Zenon DEF Leased, Live
<1>4. active' = active - (IF s \in Leased(handles) THEN 1 ELSE 0)
                       + (IF g # NoHandle /\ g.io.lease THEN 1 ELSE 0)
  BY Zenon, <1>1, <1>3 DEF LeaseMoves
<1> QED BY Zenon, <1>2, <1>4 DEF ActiveIs

\* A call moves its own handle along, and the end of an upload stays for the
\* other handles of its token.
LEMMA CallKeepsIo ==
  ASSUME TypeOK, IoInv, NEW s \in Slots, CallStep(s)
  PROVE  IoInv'
<1> DEFINE h == handles[s]
           d == files[h.tok]
<1>1. PICK g \in HandleType, e \in FileType, b \in Charges :
        /\ g.tok = h.tok /\ CallKeeps(h, d, staged[h.tok], g, e, b)
        /\ handles' = [handles EXCEPT ![s] = g]
        /\ files' = [files EXCEPT ![h.tok] = e]
  BY Zenon DEF CallStep
<1>2. h \in HandleType /\ h.tok \in Tokens
  BY Zenon DEF CallStep, HandleType
<1>3. /\ handles'[s] = g /\ \A r \in Slots : r # s => handles'[r] = handles[r]
      /\ files'[h.tok] = e /\ \A t \in Tokens : t # h.tok => files'[t] = files[t]
  BY Zenon, <1>1, <1>2 DEF TypeOK
<1>4. IoFits(g.io, e) /\ (Terminal(d) => e.st = d.st)
  BY Zenon, <1>1, <1>2 DEF IoInv, CallKeeps
<1> HIDE DEF h, d
<1>5. ASSUME NEW r \in Slots, handles'[r] \in HandleType
      PROVE  IoFits(handles'[r].io, files'[handles'[r].tok])
  <2>1. CASE r = s
    BY Zenon, <2>1, <1>1, <1>3, <1>4
  <2>2. CASE r # s
    <3>1. handles'[r] = handles[r] /\ handles[r].tok \in Tokens
      BY Zenon, <2>2, <1>3, <1>5 DEF HandleType
    <3>2. IoFits(handles[r].io, files[handles[r].tok])
      BY Zenon, <1>5, <3>1 DEF IoInv
    <3>3. CASE handles[r].tok = h.tok
      <4>1. IoFits(handles[r].io, e)
        BY Zenon, <1>4, <3>2, <3>3 DEF IoFits, Terminal, d
      <4> QED BY Zenon, <1>3, <3>1, <3>3, <4>1
    <3>4. CASE handles[r].tok # h.tok
      BY Zenon, <1>3, <3>1, <3>2, <3>4
    <3> QED BY Zenon, <3>3, <3>4
  <2> QED BY Zenon, <2>1, <2>2
<1> QED BY Zenon, <1>5 DEF IoInv

LEMMA ActiveStep ==
  ASSUME TypeOK, ActiveIs(active, handles), IoInv, Next
  PROVE  ActiveIs(active', handles') /\ IoInv'
<1> DEFINE Goal == ActiveIs(active', handles') /\ IoInv'
<1>1. ASSUME UNCHANGED <<handles, active, files>>
      PROVE  Goal
  BY Zenon, <1>1 DEF IoInv
<1>a. ASSUME handles' \in [Slots -> {NoHandle, Orphan}]
      PROVE  IoInv'
  <2>1. \A s \in Slots : handles'[s] = NoHandle \/ handles'[s] = Orphan
    BY Zenon, <1>a
  <2>2. \A s \in Slots : handles'[s] \notin HandleType
    BY Zenon, <2>1, Distinct
  <2> QED BY Zenon, <2>2 DEF IoInv
<1> HIDE DEF Goal
<1>2. ASSUME NEW s \in Slots, NEW t \in Tokens, OpenStep(s, t)
      PROVE  Goal
  <2>1. PICK g \in HandleType :
          /\ handles' = [handles EXCEPT ![s] = g] /\ LeaseMoves(s, g.io)
          /\ g.tok = t /\ IoFits(g.io, files[t])
    BY Zenon, <1>2 DEF OpenStep
  <2>2. files' = files /\ \A r \in Slots : handles'[r] = IF r = s THEN g ELSE handles[r]
    BY Zenon, <1>2, <2>1 DEF OpenStep, TypeOK
  <2>3. IoInv'
    BY Zenon, <2>1, <2>2 DEF IoInv
  <2> QED BY Zenon, <2>1, <2>3, ActiveMoves DEF Goal
<1>3. ASSUME NEW s \in Slots, CallStep(s)
      PROVE  Goal
  <2>1. PICK g \in HandleType : handles' = [handles EXCEPT ![s] = g] /\ LeaseMoves(s, g.io)
    BY Zenon, <1>3 DEF CallStep
  <2> QED BY Zenon, <1>3, <2>1, ActiveMoves, CallKeepsIo DEF Goal
<1>4. ASSUME NEW s \in Slots, DropHandle(s)
      PROVE  Goal
  <2>1. /\ s \in Live /\ handles' = [handles EXCEPT ![s] = NoHandle]
        /\ active' = active - (IF handles[s].io.lease THEN 1 ELSE 0)
    BY Zenon, <1>4 DEF DropHandle, LeaseReturned
  <2>2. DOMAIN handles = Slots
    BY Zenon DEF TypeOK
  <2>3. Cardinality(Leased(handles')) =
          Cardinality(Leased(handles)) - (IF s \in Leased(handles) THEN 1 ELSE 0)
                        + (IF NoHandle # NoHandle /\ NoHandle.io.lease THEN 1 ELSE 0)
    BY Zenon, <2>1, <2>2, LeasedMoves
  <2>4. s \in Leased(handles) <=> handles[s].io.lease
    BY Zenon, <2>1 DEF Leased, Live
  <2>5. Cardinality(Leased(handles)) \in Nat
    BY Zenon, LeasedFinite
  <2>6. ActiveIs(active', handles')
    BY <2>1, <2>3, <2>4, <2>5 DEF ActiveIs
  <2>7. files' = files /\ \A r \in Slots : handles'[r] = handles[r] \/ handles'[r] = NoHandle
    BY Zenon, <1>4, <2>1, <2>2 DEF DropHandle, store
  <2>8. IoInv'
    BY Zenon, <2>7, Distinct DEF IoInv
  <2> QED BY Zenon, <2>6, <2>8 DEF Goal
<1>5. ASSUME NEW p \in Callers, Reconcile(p) \/ ReadView(p) \/ DiskWriterRetry(p)
      PROVE  Goal
  BY Zenon, <1>1, <1>5 DEF Reconcile, ReadView, DiskWriterRetry, process, store
<1>6. ASSUME NEW p \in Callers, NEW inv \in SUBSET Tokens,
             NEW change \in {0} \cup DOMAIN Policies,
             Commit(p, inv, change) \/ CommitInventory(p, inv) \/ DiskWriterCommit(p, change)
      PROVE  Goal
  <2>1. UNCHANGED <<handles, active, files>>
    BY Zenon, <1>6 DEF Commit, CommitInventory, DiskWriterCommit
  <2> QED BY Zenon, <1>1, <2>1
<1>7. ASSUME NEW p \in Callers, NEW v \in DOMAIN Policies, NEW w \in DOMAIN Policies,
             ReplaceNamespacePolicy(p, v, w)
      PROVE  Goal
  BY Zenon, <1>1, <1>7 DEF ReplaceNamespacePolicy, process, store
<1>8. ASSUME NEW p \in Callers, NEW request \in SUBSET Records,
             Read(p, request) \/ ReadDisk(p, request) \/ ReadPacked(p, request)
      PROVE  Goal
  <2>1. UNCHANGED <<handles, active, files>>
    BY Zenon, <1>8 DEF Read, ReadDisk, ReadPacked, process, store
  <2> QED BY Zenon, <1>1, <2>1
<1>9. ASSUME DropView \/ NewDiskFacade
      PROVE  Goal
  BY Zenon, <1>1, <1>9 DEF DropView, NewDiskFacade, process, store
<1>10. ASSUME DropDiskFacade
       PROVE  Goal
  <2>1. handles' = Orphaned /\ active' = active
    BY Zenon, <1>10 DEF DropDiskFacade
  <2>2. IoInv'
    BY Zenon, <1>a, <2>1, OrphanedTyped
  <2> QED BY Zenon, <2>1, <2>2, LeasedOrphans DEF ActiveIs, Goal
<1>11. ASSUME NEW crash \in BOOLEAN, NEW lands \in BOOLEAN, Reopen(crash, lands)
       PROVE  Goal
  <2>1. \/ handles' = [s \in Slots |-> NoHandle] /\ active' = 0
        \/ handles' = Orphaned /\ active' = active
    BY Zenon, <1>11 DEF Reopen
  <2>2. IoInv'
    BY Zenon, <1>a, <2>1, OrphanedTyped
  <2> QED BY Zenon, <2>1, <2>2, LeasedOrphans, FS_EmptySet DEF ActiveIs, Goal
<1>12. 0 \in {0} \cup DOMAIN Policies /\ {} \in SUBSET Tokens
  OBVIOUS
<1> QED BY Zenon, <1>2, <1>3, <1>4, <1>5, <1>6, <1>7, <1>8, <1>9, <1>10, <1>11, <1>12,
        Flattened, StartOpens, ResumeOpens, WriteIsCall, FinishIsCall, AbortIsCall DEF Step, Goal

\* What a handle that is alive is: one of this facade, or an orphan.
LEMMA LiveHandle ==
  ASSUME TypeOK, IoInv, HandlesInv, NEW s \in Live
  PROVE  /\ handles[s].io.lease <=> ~Settled(handles[s].io)
         /\ handles[s].io.acc - handles[s].io.dur \in
              0..(IF Settled(handles[s].io) THEN 0 ELSE Chunk)
         /\ Settled(handles[s].io) => Ended(handles[s].tok)
         /\ handles[s].open => handles[s] \in HandleType
         /\ Running(s) => handles[s].tok \in Charged /\ staged[handles[s].tok].live = 1
<1>1. s \in Slots /\ (handles[s] \in HandleType \/ handles[s] = Orphan)
  BY Zenon DEF Live, TypeOK
<1>2. CASE handles[s] \in HandleType
  <2>1. IoFits(handles[s].io, files[handles[s].tok]) /\ handles[s].tok \in Tokens
    BY Zenon, <1>1, <1>2 DEF IoInv, HandleType
  <2>2. /\ handles[s].io.lease <=> ~Settled(handles[s].io)
        /\ Settled(handles[s].io) => Ended(handles[s].tok)
    BY Zenon, <2>1 DEF IoFits, Settled, Ended
  <2>3. (IF Settled(handles[s].io) THEN 0 ELSE Chunk) = (IF handles[s].io.lease THEN Chunk ELSE 0)
    BY Zenon, <2>2
  <2>4. Running(s) => handles[s].tok \in Charged /\ staged[handles[s].tok].live = 1
    BY Zenon, <1>1, <1>2, <2>1 DEF Running, Ended, Terminal, HandlesInv, HandleFits, Charged
  <2> QED BY Zenon, <1>2, <2>1, <2>2, <2>3, <2>4 DEF IoFits
<1>3. CASE handles[s] = Orphan
  <2>1. ~Orphan.open /\ Orphan.io = Fresh
    BY DEF Orphan
  <2>2. Fresh.lease /\ ~Settled(Fresh) /\ Fresh.acc - Fresh.dur \in 0..Chunk
    BY ByteAssumption DEF Fresh, Settled
  <2> QED BY Zenon, <1>3, <2>1, <2>2 DEF Running
<1> QED BY Zenon, <1>1, <1>2, <1>3

LEMMA UploadsCounted ==
  ASSUME TypeOK, ActiveIs(active, handles), IoInv, HandlesInv
  PROVE  UploadsAreCounted
<1>1. {s \in Live : ~Settled(handles[s].io)} = Leased(handles)
  <2>1. ASSUME NEW s
        PROVE  s \in Live /\ ~Settled(handles[s].io) <=> s \in Leased(handles)
    BY Zenon, LiveHandle DEF Leased, Live
  <2> QED BY Zenon, <2>1
<1>2. ASSUME NEW r \in Live, NEW s \in Live, Running(s), handles[r].open,
             handles[r].tok = handles[s].tok
      PROVE  r = s
  <2>1. handles[r] \in HandleType /\ handles[s] \in HandleType /\ r \in Slots /\ s \in Slots
    BY Zenon, <1>2, LiveHandle DEF Running, Live
  <2>2. ~Terminal(files[handles[s].tok])
    BY Zenon, <1>2 DEF Running, Ended, Terminal
  <2> QED BY Zenon, <1>2, <2>1, <2>2 DEF HandlesInv
<1> QED BY Zenon, <1>1, <1>2, LiveHandle DEF UploadsAreCounted, ActiveIs

\* Whatever is written, finished, aborted, resumed, dropped, orphaned or lost in a
\* crash, ACTIVE_UPLOADS (UploadLease) counts the handles that do not know yet how
\* their upload ended, only these buffer bytes, at most a chunk each, and a token
\* still being uploaded has one open handle, the one in the ledger's live_handles.
THEOREM UploadsStayCounted == Spec => []UploadsAreCounted
<1>1. ASSUME Init
      PROVE  ActiveIs(active, handles) /\ IoInv
  <2>1. handles = [s \in Slots |-> NoHandle] /\ active = 0
    BY Zenon, <1>1 DEF Init
  <2>2. IoInv
    BY Zenon, <2>1, Distinct DEF IoInv
  <2> QED BY Zenon, <2>1, <2>2, LeasedOrphans, FS_EmptySet DEF ActiveIs
<1>2. ASSUME ActiveIs(active, handles), IoInv, UNCHANGED vars
      PROVE  ActiveIs(active, handles)' /\ IoInv'
  BY Zenon, <1>2 DEF vars, process, store, IoInv
<1>3. ASSUME TypeOK, ActiveIs(active, handles), IoInv, Next
      PROVE  ActiveIs(active, handles)' /\ IoInv'
  BY Zenon, <1>3, ActiveStep
<1> QED BY <1>1, <1>2, <1>3, UploadsCounted, LedgerHolds, TypesHold, PTL DEF Spec
=============================================================================
