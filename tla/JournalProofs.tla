--------------------------- MODULE JournalProofs ----------------------------
(***************************************************************************)
(* Proofs about Journal, for any number of revisions, segments, inventories *)
(* and attempts, of a caller that never appends to a store it knows is     *)
(* poisoned (~RetryPoisoned): the inductive invariant, its step for every  *)
(* action, the theorems, the refinement of CommitLog, and the match of an  *)
(* idle store's memory with its files.                                     *)
(*                                                                         *)
(* CertifiedIsDurable is not inductive: a crash turns volatile content into *)
(* durable content, so the induction needs that the two views agree on     *)
(* everything a visible certificate names, that the slot an append writes  *)
(* is named by no certificate, and that the memory of the store follows    *)
(* the log until a write of uncertain outcome.                             *)
(***************************************************************************)
EXTENDS Journal, TLAPS

N == Len(acked)

InvSteps   == {"inv_open", "inv_write", "inv_sync", "inv_dirsync"}
SegSteps   == {"seg_create", "seg_header", "seg_sync", "seg_dirsync"}
GroupSteps == {"grp_write", "grp_sync", "cert_write", "cert_sync"}

\* Every certificate of log is valid and complete in one view of the disk.
Solid(log, hd, sg, iv, dir) ==
  \A r \in Revs : IsCert(log[r]) =>
    /\ CertValid(log, hd, sg, iv, dir, r)
    /\ log[r].seg \in dir
    /\ hd[log[r].seg] \in Headers

\* Two views of the disk agree on everything the certificates of log name.
Agree(log, hd, sg, iv, hd2, sg2, iv2) ==
  \A r \in Revs : IsCert(log[r]) =>
    /\ hd2[log[r].seg] = hd[log[r].seg]
    /\ sg2[<<log[r].seg, log[r].pos>>] = sg[<<log[r].seg, log[r].pos>>]
    /\ log[r].inv # NoInv => iv2[log[r].inv] = iv[log[r].inv]

\* The local facts of each step.
Steps ==
  /\ pc \in AppendSteps => job.grp \in Attempts
  /\ pc \in InvSteps => job.inv \in Invs
  /\ pc \in InvSteps \cup {"admit"} => ~poisoned
  /\ pc \in InvSteps \cup {"admit"} \/ (pc = "ready" /\ ~poisoned) => doubt = 0
  /\ pc \in SegSteps \cup GroupSteps =>
       frontier < MaxRev /\ doubt = job.grp /\ poisoned
  /\ pc \in GroupSteps => off < SegCap
  /\ pc = "tail_sync" => nseg \in Segs
  /\ pc # "damaged"

\* The log: acknowledged, then at most one certificate in doubt, then nothing.
Log ==
  /\ N <= MaxRev
  /\ \A r \in 1..N : /\ IsCert(certV[r]) /\ certD[r] = certV[r]
                     /\ certV[r].grp = acked[r]
  /\ \A r \in Revs : r > N + 1 => certV[r] = Hole /\ certD[r] = Hole
  /\ \A r \in Revs : IsCert(certD[r]) => certV[r] = certD[r]
  /\ \A r \in Revs : r = N + 1 /\ IsCert(certV[r]) =>
                       doubt # 0 /\ certV[r].grp = doubt

\* Certificates are backed in both views, which agree on their headers.
Certified ==
  /\ Solid(certV, hdrV, segV, invV, dirV)
  /\ Solid(certV, hdrD, segD, invD, dirD)
  /\ \A r \in Revs : IsCert(certV[r]) =>
       hdrV[certV[r].seg] = hdrD[certV[r].seg]

Base(hd, dir) == Seg0 \in dir /\ hd[Seg0] = FirstHeader

Bases == Base(hdrV, dirV) /\ Base(hdrD, dirD) /\ dirD \subseteq dirV

\* Two certificates of one segment name different slots, in revision order.
Ordered ==
  \A q, r \in Revs :
    q < r /\ IsCert(certV[q]) /\ IsCert(certV[r]) /\ certV[q].seg = certV[r].seg
      => certV[q].pos < certV[r].pos

\* The memory of a store that is appending, or idle and not poisoned.
Current ==
  pc \in AppendSteps \/ (pc = "ready" /\ ~poisoned) =>
    /\ frontier = N
    /\ prev = DigestBefore(certV, N + 1)
    /\ \A r \in 1..N : certV[r].inv \in cinv \cup {NoInv}
    /\ seg \in dirV /\ seg \in dirD
    /\ hdrV[seg] = hdrD[seg] /\ hdrV[seg] \in Headers
    /\ \/ seg = SegBefore(certV, N + 1) /\ off = PosBefore(certV, N + 1)
       \/ /\ pc \in GroupSteps /\ off = 0
          /\ seg # SegBefore(certV, N + 1)
          /\ hdrV[seg] = [prev |-> SegBefore(certV, N + 1), first |-> N + 1]
    /\ \A r \in 1..N : certV[r].seg = seg => certV[r].pos <= off
    /\ \A r \in Revs : r = N + 1 =>
         /\ certD[r] = Hole
         /\ certV[r] = IF pc = "cert_sync" THEN Certificate ELSE Hole

\* The segment a rollover prepares belongs to no certificate.
Fresh ==
  pc \in {"seg_header", "seg_sync", "seg_dirsync"} =>
    /\ nseg \in Segs /\ nseg \in dirV /\ nseg # Seg0 /\ nseg # seg
    /\ \A r \in Revs : IsCert(certV[r]) => certV[r].seg # nseg
    /\ pc \in {"seg_sync", "seg_dirsync"} =>
         hdrV[nseg] = [prev |-> seg, first |-> frontier + 1]
    /\ pc = "seg_dirsync" => hdrD[nseg] = hdrV[nseg]

\* The inventory and the group of the append in progress.
Prepared ==
  /\ pc = "inv_write" => /\ job.inv \in dirV
                         /\ \A r \in Revs : IsCert(certV[r]) =>
                                              certV[r].inv # job.inv
  /\ pc \in {"inv_sync", "inv_dirsync"} =>
       job.inv \in dirV /\ invV[job.inv] = "whole"
  /\ pc = "inv_dirsync" => invD[job.inv] = "whole"
  /\ pc \in {"admit"} \cup SegSteps \cup GroupSteps /\ job.inv # NoInv =>
       /\ job.inv \in dirV /\ job.inv \in dirD
       /\ invV[job.inv] = "whole" /\ invD[job.inv] = "whole"
  /\ pc \in {"grp_sync", "cert_write", "cert_sync"} =>
       segV[<<seg, off + 1>>] = job.grp
  /\ pc \in {"cert_write", "cert_sync"} => segD[<<seg, off + 1>>] = job.grp

\* What a reopening has established.
Reopening ==
  /\ pc \in {"cert_resync", "tail_trunc", "tail_sync", "replay"} =>
       \A r \in Revs : certV[r] # Torn
  /\ pc \in {"tail_trunc", "tail_sync", "replay"} => certD = certV

\* Attempts have fresh identities and commit at most once.
Attempted ==
  /\ doubt < next
  /\ pc \in AppendSteps => job.grp < next
  /\ \A r \in 1..N :
       /\ acked[r] < next /\ acked[r] # doubt
       /\ pc \in AppendSteps => acked[r] # job.grp

IInv == /\ TypeOK /\ Steps /\ Log /\ Certified /\ Bases /\ Ordered
        /\ Current /\ Fresh /\ Prepared /\ Reopening /\ Attempted

-----------------------------------------------------------------------------
USE JournalAssumption, CellAssumption, HoleAssumption
    DEF dirs, segs, invs, certs, disk, mem, hist

\* What the invariant says of a visible certificate, in one place.
LEMMA CertFacts ==
  ASSUME IInv
  PROVE  \A r \in Revs : IsCert(certV[r]) =>
           /\ certV[r] \in Certs
           /\ certV[r].seg \in Segs /\ certV[r].pos \in Slots
           /\ certV[r].grp \in Attempts /\ certV[r].inv \in Invs \cup {NoInv}
           /\ certV[r].seg \in dirV /\ certV[r].seg \in dirD
           /\ segV[<<certV[r].seg, certV[r].pos>>] = certV[r].grp
           /\ segD[<<certV[r].seg, certV[r].pos>>] = certV[r].grp
           /\ hdrV[certV[r].seg] = hdrD[certV[r].seg]
           /\ certV[r].inv # NoInv =>
                /\ certV[r].inv \in dirV /\ certV[r].inv \in dirD
                /\ invV[certV[r].inv] = "whole" /\ invD[certV[r].inv] = "whole"
           /\ r <= N + 1
<1>1. \A r \in Revs : IsCert(certV[r]) => certV[r] \in Certs
  BY Zenon DEF IInv, TypeOK, IsCert
<1>2. \A r \in Revs : IsCert(certV[r]) => r <= N + 1
  BY SMTT(30) DEF IInv, TypeOK, Log, IsCert, N, Revs
<1> QED
  BY Zenon, <1>1, <1>2 DEF IInv, Certified, Solid, CertValid, Certs

\* Where the certificates are and what they point to.
LEMMA CertSlots ==
  ASSUME IInv
  PROVE  \A r \in Revs : IsCert(certV[r]) =>
           /\ r \in Nat /\ 1 <= r /\ r <= N + 1
           /\ certV[r].seg \in Segs /\ certV[r].pos \in Slots
           /\ certV[r].pos \in Nat /\ certV[r].pos <= certV[r].pos
<1> SUFFICES ASSUME NEW r \in Revs, IsCert(certV[r])
             PROVE  /\ r \in Nat /\ 1 <= r /\ r <= N + 1
                    /\ certV[r].seg \in Segs /\ certV[r].pos \in Slots
                    /\ certV[r].pos \in Nat /\ certV[r].pos <= certV[r].pos
  OBVIOUS
<1>1. r \in Nat /\ 1 <= r
  BY SMTT(30) DEF Revs
<1>2. r <= N + 1 /\ certV[r].seg \in Segs /\ certV[r].pos \in Slots
  BY Zenon, CertFacts
<1>3. \A p \in Slots : p \in Nat /\ p <= p
  BY SMTT(30) DEF Slots
<1> QED BY Zenon, <1>1, <1>2, <1>3

\* The numbers the journal keeps.
LEMMA Ranges ==
  ASSUME IInv
  PROVE  /\ off \in 0..SegCap /\ off \in Nat /\ frontier \in 0..MaxRev /\ frontier \in Nat
         /\ next \in 1..MaxAttempts + 1 /\ next \in Nat /\ 0 < next
         /\ acked \in Seq(Attempts) /\ N \in Nat /\ N = Len(acked)
<1>1. /\ off \in 0..SegCap /\ frontier \in 0..MaxRev /\ next \in 1..MaxAttempts + 1
      /\ acked \in Seq(Attempts) /\ N = Len(acked)
  BY Zenon DEF IInv, TypeOK, N
<1>2. off \in Nat /\ frontier \in Nat /\ next \in Nat /\ 0 < next /\ N \in Nat
  BY SMTT(30), <1>1, JournalAssumption
<1> QED BY Zenon, <1>1, <1>2

\* The numbers of the append under way.
LEMMA AppendRanges ==
  ASSUME IInv, pc \in GroupSteps
  PROVE  /\ frontier < MaxRev /\ off < SegCap
         /\ off + 1 \in 0..SegCap /\ frontier + 1 \in 0..MaxRev
         /\ job.grp \in Attempts /\ job.inv \in Invs \cup {NoInv}
<1>1. frontier < MaxRev /\ off < SegCap
  BY Zenon DEF IInv, Steps
<1>2. off + 1 \in 0..SegCap /\ frontier + 1 \in 0..MaxRev
  BY SMTT(30), <1>1, Ranges, JournalAssumption
<1>3. job.grp \in Attempts /\ job.inv \in Invs \cup {NoInv}
  BY SMTT(30) DEF IInv, TypeOK, Steps, Jobs, NoJob, AppendSteps, GroupSteps
<1> QED BY Zenon, <1>1, <1>2, <1>3

\* The acknowledged part of the log.
LEMMA LogFacts ==
  ASSUME IInv
  PROVE  /\ N \in Nat /\ N <= MaxRev /\ ~IsCert(Hole) /\ ~IsCert(Torn)
         /\ \A r \in 1..N : r \in Revs /\ r # N + 1
         /\ \A r \in 1..N : IsCert(certV[r]) /\ certV[r].grp = acked[r]
         /\ \A r \in Revs : r \in Nat /\ 1 <= r /\ r <= MaxRev
<1>1. N \in Nat /\ N <= MaxRev
  BY SMTT(30) DEF IInv, TypeOK, Log, N
<1>2. /\ \A r \in 1..N : r \in Revs /\ r # N + 1
      /\ \A r \in Revs : r \in Nat /\ 1 <= r /\ r <= MaxRev
  BY SMTT(30), <1>1 DEF Revs
<1> QED BY Zenon, <1>1, <1>2 DEF IInv, Log, IsCert

\* A view that agrees with a solid one on what certificates name is solid.
LEMMA SolidFrame ==
  ASSUME NEW log, NEW hd, NEW sg, NEW iv, NEW dir,
         NEW hd2, NEW sg2, NEW iv2, NEW dir2,
         Solid(log, hd, sg, iv, dir), dir \subseteq dir2,
         Agree(log, hd, sg, iv, hd2, sg2, iv2)
  PROVE  Solid(log, hd2, sg2, iv2, dir2)
BY SMTT(30) DEF Solid, CertValid, Agree

\* Losing the last certificates of a log leaves it solid.
LEMMA SolidPrefix ==
  ASSUME NEW log, NEW log2, NEW hd, NEW sg, NEW iv, NEW dir,
         Solid(log, hd, sg, iv, dir),
         \A r \in Revs : IsCert(log2[r]) =>
           log2[r] = log[r] /\ (r # 1 => log2[r - 1] = log[r - 1])
  PROVE  Solid(log2, hd, sg, iv, dir)
BY SMTT(30) DEF Solid, CertValid, SegBefore, PosBefore, DigestBefore

\* A step that keeps the log and what it names keeps certificates backed.
LEMMA CertifiedFrame ==
  ASSUME IInv, UNCHANGED certV, dirV \subseteq dirV', dirD \subseteq dirD',
         \A r \in Revs : IsCert(certV[r]) =>
           LET c == certV[r] IN
           /\ hdrV'[c.seg] = hdrV[c.seg] /\ hdrD'[c.seg] = hdrD[c.seg]
           /\ segV'[<<c.seg, c.pos>>] = segV[<<c.seg, c.pos>>]
           /\ segD'[<<c.seg, c.pos>>] = segD[<<c.seg, c.pos>>]
           /\ c.inv # NoInv => /\ invV'[c.inv] = invV[c.inv]
                              /\ invD'[c.inv] = invD[c.inv]
  PROVE  Certified'
<1>1. Solid(certV, hdrV', segV', invV', dirV')
  <2>1. Solid(certV, hdrV, segV, invV, dirV)
    BY Zenon DEF IInv, Certified
  <2>2. Agree(certV, hdrV, segV, invV, hdrV', segV', invV')
    BY Zenon DEF Agree
  <2> QED BY SMTT(30), <2>1, <2>2, SolidFrame
<1>2. Solid(certV, hdrD', segD', invD', dirD')
  <2>1. Solid(certV, hdrD, segD, invD, dirD)
    BY Zenon DEF IInv, Certified
  <2>2. Agree(certV, hdrD, segD, invD, hdrD', segD', invD')
    BY Zenon DEF Agree
  <2> QED BY SMTT(30), <2>1, <2>2, SolidFrame
<1> QED
  BY Zenon, <1>1, <1>2 DEF IInv, Certified

\* A crash leaves in each slot one of the two views or a torn write.
LEMMA CrashLeaves ==
  ASSUME NEW S, NEW T, NEW dur \in [S -> T], NEW vol \in [S -> T], Torn \in T,
         NEW f \in Survivors(dur, vol)
  PROVE  /\ f \in [S -> T]
         /\ \A c \in S : /\ f[c] \in {dur[c], vol[c], Torn}
                         /\ dur[c] = vol[c] => f[c] = dur[c]
BY Zenon DEF Survivors, AfterCrash, Unsynced

\* While an append runs, or the store is idle and sound, the log ends at the
\* acknowledged certificates, but for the one being synchronised.
LEMMA NoneAhead ==
  ASSUME IInv, pc \in AppendSteps, pc # "cert_sync"
  PROVE  \A r \in Revs : IsCert(certV[r]) => r \in 1..N
<1>1. N \in Nat
  BY SMTT(30) DEF IInv, TypeOK, N
<1>2. \A r \in Revs : r = N + 1 => certV[r] = Hole
  BY Zenon DEF IInv, Current
<1>3. \A r \in Revs : IsCert(certV[r]) => r # N + 1
  BY Zenon, <1>2 DEF IsCert
<1> QED BY SMTT(30), <1>1, <1>3, CertSlots

\* An inventory that no acknowledged certificate names is named by none.
LEMMA Uncommitted ==
  ASSUME IInv, pc = "inv_open", job.inv \notin cinv
  PROVE  \A r \in Revs : IsCert(certV[r]) => certV[r].inv # job.inv
<1>1. \A r \in 1..N : certV[r].inv \in cinv \cup {NoInv}
  BY Zenon DEF IInv, Current, AppendSteps
<1>2. job.inv \in Invs
  BY Zenon DEF IInv, Steps, InvSteps
<1> QED BY Zenon, <1>1, <1>2, NoneAhead DEF AppendSteps

\* The certificate an append writes.
LEMMA NewCertificate ==
  ASSUME IInv, pc \in GroupSteps
  PROVE  /\ Certificate \in Certs /\ IsCert(Certificate)
         /\ N + 1 \in Revs /\ frontier = N /\ N \in Nat
         /\ <<seg, off + 1>> \in Segs \X Slots
<1>1. job.grp \in Attempts /\ job.inv \in Invs \cup {NoInv}
  BY Zenon, AppendRanges
<1>2. frontier = N /\ N \in Nat /\ N + 1 \in Revs
  BY SMTT(30) DEF IInv, TypeOK, Steps, Current, AppendSteps, GroupSteps, N, Revs
<1>3. off + 1 \in Slots
  BY SMTT(30) DEF IInv, TypeOK, Steps, GroupSteps, Slots
<1>4. Certificate \in Certs
  BY Zenon, <1>1, <1>2, <1>3 DEF IInv, TypeOK, Certificate, Certs
<1> QED BY Zenon, <1>2, <1>3, <1>4 DEF IInv, TypeOK, IsCert

\* The certificates recovery counts are the visible ones.
LEMMA CompleteIsVisible ==
  ASSUME IInv
  PROVE  Complete(certV) = {r \in Revs : IsCert(certV[r])}
<1>1. N \in Nat /\ \A q \in 1..N : IsCert(certV[q])
  BY SMTT(30) DEF IInv, TypeOK, Log, N
<1>2. ASSUME NEW r \in Revs, IsCert(certV[r]), NEW q \in 1..r
      PROVE  IsCert(certV[q])
  <2>1. r \in Nat /\ r <= N + 1 /\ q \in Nat /\ 1 <= q /\ q <= r
    BY SMTT(30), <1>2, CertSlots
  <2>2. CASE q = r
    BY Zenon, <1>2, <2>2
  <2>3. CASE q < r
    <3>1. q \in 1..N
      BY SMTT(30), <1>1, <2>1, <2>3
    <3> QED BY Zenon, <1>1, <3>1
  <2> QED BY SMTT(30), <2>1, <2>2, <2>3
<1>3. \A r \in Revs : r \in 1..r
  BY SMTT(30) DEF Revs
<1> QED BY Zenon, <1>2, <1>3 DEF Complete

\* The number of certificates the scan counts is the acknowledged number, or
\* one more: the certificate in doubt.
LEMMA CountIs ==
  ASSUME IInv
  PROVE  /\ Count(certV) \in 0..MaxRev
         /\ Count(certV) = N \/ Count(certV) = N + 1
         /\ \A r \in Revs : IsCert(certV[r]) <=> r <= Count(certV)
<1>1. N \in 0..MaxRev /\ MaxRev \in Nat
  BY SMTT(30) DEF IInv, TypeOK, Log, N
<1>2. \A r \in Revs : r <= N => IsCert(certV[r])
  BY SMTT(30), <1>1 DEF IInv, Log, Revs
<1>3. PICK n \in 0..MaxRev : /\ n = N \/ n = N + 1
                             /\ \A r \in Revs : IsCert(certV[r]) <=> r <= n
  <2>0. \A r \in Revs : r \in Nat /\ 1 <= r /\ r <= MaxRev
    BY SMTT(30), <1>1 DEF Revs
  <2>3. \A r \in Revs : IsCert(certV[r]) => r <= N + 1
    BY Zenon, CertFacts
  <2>4. N \in Nat /\ N <= MaxRev
    BY SMTT(30), <1>1
  <2>1. CASE N + 1 \in Revs /\ IsCert(certV[N + 1])
    <3>1. N + 1 \in 0..MaxRev
      BY SMTT(30), <1>1, <2>0, <2>1, <2>4
    <3>2. \A r \in Revs : IsCert(certV[r]) <=> r <= N + 1
      <4>1. \A r \in Revs : r <= N + 1 => r <= N \/ r = N + 1
        BY SMTT(30), <2>0, <2>4
      <4> QED BY Zenon, <1>2, <2>1, <2>3, <4>1
    <3> QED BY Zenon, <3>1, <3>2
  <2>2. CASE ~(N + 1 \in Revs /\ IsCert(certV[N + 1]))
    <3>1. \A r \in Revs : IsCert(certV[r]) => r # N + 1
      BY Zenon, <2>2
    <3>2. \A r \in Revs : IsCert(certV[r]) <=> r <= N
      <4>1. \A r \in Revs : r <= N + 1 /\ r # N + 1 => r <= N
        BY SMTT(30), <2>0, <2>4
      <4> QED BY Zenon, <1>2, <2>3, <3>1, <4>1
    <3> QED BY Zenon, <1>1, <3>2
  <2> QED BY Zenon, <2>1, <2>2
<1>4. Complete(certV) = 1..n
  <2>1. Complete(certV) = {r \in Revs : IsCert(certV[r])}
    BY Zenon, CompleteIsVisible
  <2>2. {r \in Revs : IsCert(certV[r])} = {r \in Revs : r <= n}
    BY Zenon, <1>3
  <2>3. {r \in Revs : r <= n} = 1..n
    BY SMTT(30), <1>1, <1>3 DEF Revs
  <2> QED BY Zenon, <2>1, <2>2, <2>3
<1>5. \A m \in 0..MaxRev : Complete(certV) = 1..m => m = n
  BY SMTT(30), <1>1, <1>3, <1>4
<1>6. Count(certV) = n
  BY Zenon, <1>4, <1>5 DEF Count
<1> QED BY Zenon, <1>3, <1>6

\* The first pass accepts the visible log.
LEMMA ScanAccepts ==
  ASSUME IInv
  PROVE  ScanOK(certV, hdrV, segV, invV, dirV)
BY Zenon, CompleteIsVisible DEF IInv, Bases, Base, Certified, Solid, ScanOK

\* The header of the initial segment is one.
LEMMA FirstIsHeader == FirstHeader \in Headers
BY SMTT(30) DEF FirstHeader, Headers, Revs

\* No certificate names the slot the next group goes to.
LEMMA NextSlot ==
  ASSUME IInv, pc = "grp_write"
  PROVE  \A r \in Revs : IsCert(certV[r]) =>
           /\ <<certV[r].seg, certV[r].pos>> # <<seg, off + 1>>
           /\ <<certV[r].seg, certV[r].pos>> \in Segs \X Slots
<1>1. \A r \in 1..N : certV[r].seg = seg => certV[r].pos <= off
  BY Zenon DEF IInv, Current, AppendSteps
<1>2. off \in Nat
  BY Zenon, Ranges
<1>3. \A r \in Revs : IsCert(certV[r]) =>
        r \in 1..N /\ certV[r].seg \in Segs /\ certV[r].pos \in Slots
  BY Zenon, NoneAhead, CertFacts DEF AppendSteps
<1>4. \A r \in Revs : IsCert(certV[r]) =>
        ~(certV[r].seg = seg /\ certV[r].pos = off + 1)
  BY SMTT(30), <1>1, <1>2, <1>3 DEF Slots
<1> QED BY Zenon, <1>3, <1>4

\* A step that only cuts the log behind the acknowledged part keeps it ordered
\* and backed.
LEMMA LogCut ==
  ASSUME IInv, UNCHANGED <<dirs, segs, invs>>,
         \A r \in Revs : IsCert(certV'[r]) => certV'[r] = certV[r],
         \A r \in 1..N : certV'[r] = certV[r]
  PROVE  Certified' /\ Ordered'
<1>1. \A r \in Revs : IsCert(certV'[r]) => IsCert(certV[r])
  OBVIOUS
<1>2. \A r \in Revs : IsCert(certV'[r]) =>
        certV'[r] = certV[r] /\ (r # 1 => certV'[r - 1] = certV[r - 1])
  <2> SUFFICES ASSUME NEW r \in Revs, IsCert(certV'[r])
               PROVE  certV'[r] = certV[r] /\ (r # 1 => certV'[r - 1] = certV[r - 1])
    OBVIOUS
  <2>1. r <= N + 1 /\ r \in Nat /\ 1 <= r /\ N \in Nat
    BY Zenon, <1>1, CertFacts, LogFacts
  <2>2. r # 1 => r - 1 \in 1..N
    BY SMTT(30), <2>1
  <2> QED BY Zenon, <2>2
<1>3. Solid(certV, hdrV, segV, invV, dirV) /\ Solid(certV, hdrD, segD, invD, dirD)
  BY Zenon DEF IInv, Certified
<1>4. Solid(certV', hdrV, segV, invV, dirV)
  BY Zenon, <1>2, <1>3, SolidPrefix
<1>5. Solid(certV', hdrD, segD, invD, dirD)
  BY Zenon, <1>2, <1>3, SolidPrefix
<1>6. Certified'
  BY Zenon, <1>1, <1>2, <1>4, <1>5 DEF IInv, Certified
<1>7. Ordered'
  BY Zenon, <1>1, <1>2 DEF IInv, Ordered
<1> QED BY Zenon, <1>6, <1>7

\* What a torn certificate write and the truncation of the log leave of it.
LEMMA CertTornFacts ==
  ASSUME IInv, CertTorn
  PROVE  /\ N + 1 \in Revs /\ certD[N + 1] = Hole /\ certV'[N + 1] = Torn
         /\ \A r \in Revs : r # N + 1 => certV'[r] = certV[r]
<1>1. N + 1 \in Revs /\ frontier = N /\ certV' = [certV EXCEPT ![N + 1] = Torn]
  BY Zenon, NewCertificate DEF CertTorn, GroupSteps
<1>2. certV \in [Revs -> Certs \cup {Hole, Torn}]
  BY Zenon DEF IInv, TypeOK
<1>3. certD[N + 1] = Hole
  BY Zenon, <1>1 DEF IInv, Current, CertTorn, AppendSteps
<1> QED BY Zenon, <1>1, <1>2, <1>3

\* Truncating the log removes what is not a complete certificate.
LEMMA CertTruncFacts ==
  ASSUME IInv, CertTrunc
  PROVE  \A r \in Revs : certV'[r] = IF IsCert(certV[r]) THEN certV[r] ELSE Hole
BY Zenon, CompleteIsVisible DEF CertTrunc

\* What the second pass counts.
LEMMA ReplayFacts ==
  ASSUME IInv, Replay, NEW n, n = Count(certV)
  PROVE  /\ n \in 0..MaxRev /\ (n = N \/ n = N + 1)
         /\ \A r \in Revs : IsCert(certV[r]) <=> r <= n
         /\ \A r \in 1..n : r \in Revs /\ IsCert(certV[r]) /\ certV[r] \in Certs
         /\ \A r \in Revs : r > n => certV[r] = Hole
         /\ certD = certV /\ N' = n /\ acked' \in Seq(Attempts)
         /\ \A r \in 1..n : acked'[r] = certV[r].grp
<1>1. /\ n \in 0..MaxRev /\ (n = N \/ n = N + 1)
      /\ \A r \in Revs : IsCert(certV[r]) <=> r <= n
  BY Zenon, CountIs
<1>2. \A r \in 1..n : r \in Revs
  BY SMTT(30), <1>1 DEF Revs
<1>3. \A r \in 1..n : r <= n
  BY SMTT(30), <1>1
<1>4. \A r \in 1..n : r \in Revs /\ IsCert(certV[r]) /\ certV[r] \in Certs
  BY Zenon, <1>1, <1>2, <1>3, CertFacts
<1>5. certD = certV /\ \A r \in Revs : certV[r] # Torn
  BY Zenon DEF IInv, Reopening, Replay
<1>6. \A r \in Revs : r > n => ~(r <= n)
  BY SMTT(30), <1>1, LogFacts
<1>7. \A r \in Revs : r > n => certV[r] = Hole
  BY Zenon, <1>1, <1>5, <1>6 DEF IsCert
<1>8. acked' = [r \in 1..n |-> certV[r].grp]
  BY Zenon DEF Replay
<1>9. \A r \in 1..n : certV[r].grp \in Attempts
  BY Zenon, <1>4 DEF Certs
<1>10. acked' \in Seq(Attempts) /\ N' = n
  BY SMTT(30), <1>1, <1>8, <1>9 DEF N
<1> QED BY Zenon, <1>1, <1>4, <1>5, <1>7, <1>8, <1>10

\* What a crash leaves.
LEMMA CrashFacts ==
  ASSUME IInv, Crash
  PROVE  /\ certV' = certD' /\ certV' \in [Revs -> Certs \cup {Hole, Torn}]
         /\ \A r \in Revs : /\ certV'[r] \in {certD[r], certV[r], Torn}
                            /\ certD[r] = certV[r] => certV'[r] = certD[r]
         /\ hdrV' = hdrD' /\ hdrV' \in [Segs -> Headers \cup {Hole, Torn}]
         /\ \A x \in Segs : hdrD[x] = hdrV[x] => hdrV'[x] = hdrD[x]
         /\ segV' = segD' /\ segV' \in [Segs \X Slots -> Attempts \cup {Hole, Torn}]
         /\ \A x \in Segs \X Slots : segD[x] = segV[x] => segV'[x] = segD[x]
         /\ invV' = invD' /\ invV' \in [Invs -> {"whole", Hole, Torn}]
         /\ \A x \in Invs : invD[x] = invV[x] => invV'[x] = invD[x]
         /\ dirV' = dirD' /\ dirD \subseteq dirV' /\ dirV' \subseteq Segs \cup Invs
<1>1. /\ certV' = certD' /\ certV' \in [Revs -> Certs \cup {Hole, Torn}]
      /\ \A r \in Revs : /\ certV'[r] \in {certD[r], certV[r], Torn}
                         /\ certD[r] = certV[r] => certV'[r] = certD[r]
  <2> DEFINE S == Revs
             T == Certs \cup {Hole, Torn}
  <2>1. Torn \in T /\ certD \in [S -> T] /\ certV \in [S -> T]
    BY Zenon DEF IInv, TypeOK
  <2>2. PICK f \in Survivors(certD, certV) : certV' = f /\ certD' = f
    BY Zenon DEF Crash
  <2> HIDE DEF S, T
  <2>3. /\ f \in [S -> T]
        /\ \A c \in S : /\ f[c] \in {certD[c], certV[c], Torn}
                        /\ certD[c] = certV[c] => f[c] = certD[c]
    BY SMTT(30), <2>1, <2>2, CrashLeaves
  <2> QED BY Zenon, <2>2, <2>3 DEF S, T
<1>2. /\ hdrV' = hdrD' /\ hdrV' \in [Segs -> Headers \cup {Hole, Torn}]
      /\ \A x \in Segs : hdrD[x] = hdrV[x] => hdrV'[x] = hdrD[x]
  <2> DEFINE S == Segs
             T == Headers \cup {Hole, Torn}
  <2>1. Torn \in T /\ hdrD \in [S -> T] /\ hdrV \in [S -> T]
    BY Zenon DEF IInv, TypeOK
  <2>2. PICK f \in Survivors(hdrD, hdrV) : hdrV' = f /\ hdrD' = f
    BY Zenon DEF Crash
  <2> HIDE DEF S, T
  <2>3. /\ f \in [S -> T]
        /\ \A c \in S : /\ f[c] \in {hdrD[c], hdrV[c], Torn}
                        /\ hdrD[c] = hdrV[c] => f[c] = hdrD[c]
    BY SMTT(30), <2>1, <2>2, CrashLeaves
  <2> QED BY Zenon, <2>2, <2>3 DEF S, T
<1>3. /\ segV' = segD' /\ segV' \in [Segs \X Slots -> Attempts \cup {Hole, Torn}]
      /\ \A x \in Segs \X Slots : segD[x] = segV[x] => segV'[x] = segD[x]
  <2> DEFINE S == Segs \X Slots
             T == Attempts \cup {Hole, Torn}
  <2>1. Torn \in T /\ segD \in [S -> T] /\ segV \in [S -> T]
    BY Zenon DEF IInv, TypeOK
  <2>2. PICK f \in Survivors(segD, segV) : segV' = f /\ segD' = f
    BY Zenon DEF Crash
  <2> HIDE DEF S, T
  <2>3. /\ f \in [S -> T]
        /\ \A c \in S : /\ f[c] \in {segD[c], segV[c], Torn}
                        /\ segD[c] = segV[c] => f[c] = segD[c]
    BY SMTT(30), <2>1, <2>2, CrashLeaves
  <2> QED BY Zenon, <2>2, <2>3 DEF S, T
<1>4. /\ invV' = invD' /\ invV' \in [Invs -> {"whole", Hole, Torn}]
      /\ \A x \in Invs : invD[x] = invV[x] => invV'[x] = invD[x]
  <2> DEFINE S == Invs
             T == {"whole", Hole, Torn}
  <2>1. Torn \in T /\ invD \in [S -> T] /\ invV \in [S -> T]
    BY Zenon DEF IInv, TypeOK
  <2>2. PICK f \in Survivors(invD, invV) : invV' = f /\ invD' = f
    BY Zenon DEF Crash
  <2> HIDE DEF S, T
  <2>3. /\ f \in [S -> T]
        /\ \A c \in S : /\ f[c] \in {invD[c], invV[c], Torn}
                        /\ invD[c] = invV[c] => f[c] = invD[c]
    BY SMTT(30), <2>1, <2>2, CrashLeaves
  <2> QED BY Zenon, <2>2, <2>3 DEF S, T
<1>5. dirV' = dirD' /\ dirD \subseteq dirV' /\ dirV' \subseteq Segs \cup Invs
  <2>1. dirV \subseteq Segs \cup Invs /\ dirD \subseteq Segs \cup Invs
    BY Zenon DEF IInv, TypeOK
  <2>2. PICK more \in SUBSET (dirV \ dirD) : dirV' = dirD \cup more /\ dirD' = dirD \cup more
    BY Zenon DEF Crash, SurvivingNames
  <2> QED BY Zenon, <2>1, <2>2
<1> QED BY Zenon, <1>1, <1>2, <1>3, <1>4, <1>5

\* The parts of the invariant that speak of the disk and the log alone hold
\* again after a step that leaves those alone.
LEMMA Frame ==
  ASSUME IInv
  PROVE  /\ UNCHANGED <<certV, certD, acked, doubt>> => Log'
         /\ UNCHANGED <<certV, hdrV, hdrD, segV, segD, invV, invD, dirV, dirD>> =>
              Certified'
         /\ UNCHANGED <<hdrV, hdrD, dirV, dirD>> => Bases'
         /\ UNCHANGED certV => Ordered'
<1>1. UNCHANGED <<certV, certD, acked, doubt>> => Log'
  BY Zenon DEF IInv, Log, N
<1>2. UNCHANGED <<certV, hdrV, hdrD, segV, segD, invV, invD, dirV, dirD>> => Certified'
  BY Zenon, CertifiedFrame
<1>3. UNCHANGED <<hdrV, hdrD, dirV, dirD>> => Bases'
  BY Zenon DEF IInv, Bases, Base
<1>4. UNCHANGED certV => Ordered'
  BY Zenon DEF IInv, Ordered
<1> QED BY Zenon, <1>1, <1>2, <1>3, <1>4
-----------------------------------------------------------------------------
(***************************************************************************)
(* The steps of an append keep the invariant.                              *)
(***************************************************************************)
\* A call of append_group records its arguments only.
LEMMA AppendGroupKeeps ==
  ASSUME IInv, ~RetryPoisoned, NEW i \in Invs \cup {NoInv}, AppendGroup(i)
  PROVE  IInv'
<1>1. TypeOK'
  <2>1. next' \in 1..MaxAttempts + 1
    BY SMTT(30), JournalAssumption DEF AppendGroup, Attempts
  <2>2. job' \in Jobs
    BY Zenon DEF AppendGroup, Jobs
  <2> QED BY Zenon, <2>1, <2>2 DEF IInv, AppendGroup, TypeOK, AppendSteps
<1>2. Steps'
  BY Zenon DEF IInv, AppendGroup, Steps, AppendSteps, InvSteps, SegSteps, GroupSteps
<1>3. Log' /\ Certified' /\ Bases' /\ Ordered'
  BY Zenon, Frame DEF AppendGroup
<1>4. Current'
  BY Zenon DEF IInv, AppendGroup, Current, N, AppendSteps, GroupSteps
<1>5. Fresh'
  BY Zenon DEF IInv, AppendGroup, Fresh
<1>6. Prepared'
  BY Zenon DEF IInv, AppendGroup, Prepared, SegSteps, GroupSteps
<1>7. Reopening'
  BY Zenon DEF IInv, AppendGroup, Reopening
<1>8. Attempted'
  <2>1. next' = next + 1 /\ job'.grp = next /\ UNCHANGED <<doubt, acked>> /\ N' = N
    BY Zenon DEF AppendGroup, N
  <2>2. doubt < next /\ \A r \in 1..N : acked[r] < next /\ acked[r] # doubt
    BY Zenon DEF IInv, Attempted
  <2>3. doubt \in Attempts \cup {0}
    BY Zenon DEF IInv, TypeOK
  <2>4. doubt \in Nat /\ \A r \in 1..N : acked[r] \in Nat
    BY SMTT(30), <2>3, Ranges DEF Attempts
  <2>5. /\ doubt < next + 1 /\ next < next + 1
        /\ \A r \in 1..N : acked[r] < next + 1 /\ acked[r] # next
    BY SMTT(30), <2>2, <2>4, Ranges
  <2> QED BY Zenon, <2>1, <2>2, <2>5 DEF Attempted
<1> QED BY Zenon, <1>1, <1>2, <1>3, <1>4, <1>5, <1>6, <1>7, <1>8 DEF IInv

\* An inventory that is there and whole is used as it is.
LEMMA InvReuseKeeps ==
  ASSUME IInv, ~RetryPoisoned, InvReuse
  PROVE  IInv'
<1>1. TypeOK'
  BY Zenon DEF IInv, InvReuse, TypeOK, Steps, AppendSteps, InvSteps, SegSteps, GroupSteps
<1>2. Steps'
  BY Zenon DEF IInv, InvReuse, Steps, AppendSteps, InvSteps, SegSteps, GroupSteps
<1>3. Log' /\ Certified' /\ Bases' /\ Ordered'
  BY Zenon, Frame DEF InvReuse
<1>4. Current'
  BY Zenon DEF IInv, InvReuse, Current, N, AppendSteps, GroupSteps
<1>5. Fresh'
  BY Zenon DEF IInv, InvReuse, Fresh
<1>6. Prepared'
  BY Zenon DEF IInv, InvReuse, Prepared, SegSteps, GroupSteps
<1>7. Reopening'
  BY Zenon DEF IInv, InvReuse, Reopening
<1>8. Attempted'
  BY Zenon DEF IInv, InvReuse, Attempted, N, AppendSteps
<1> QED BY Zenon, <1>1, <1>2, <1>3, <1>4, <1>5, <1>6, <1>7, <1>8 DEF IInv

\* The inventory file that is emptied is named by no certificate: every
\* certified one is in cinv and would have been reused.
LEMMA InvRewriteKeeps ==
  ASSUME IInv, ~RetryPoisoned, InvRewrite
  PROVE  IInv'
<1>1. TypeOK'
  BY Zenon DEF IInv, InvRewrite, TypeOK, Steps, Jobs, Attempts, AppendSteps, InvSteps,
    SegSteps, GroupSteps
<1>2. Steps'
  BY Zenon DEF IInv, InvRewrite, Steps, AppendSteps, InvSteps, SegSteps, GroupSteps
<1>3. Log' /\ Bases' /\ Ordered'
  BY Zenon, Frame DEF InvRewrite
<1>4. Certified'
  <2>1. CASE job.inv \in cinv
    BY Zenon, <2>1 DEF IInv, InvRewrite, Certified
  <2>2. CASE job.inv \notin cinv
    <3>1. \A r \in Revs : IsCert(certV[r]) =>
            certV[r].inv # job.inv /\ certV[r].inv \in Invs \cup {NoInv}
      BY Zenon, <2>2, Uncommitted, CertFacts DEF InvRewrite
    <3>2. invV' = [invV EXCEPT ![job.inv] = Hole] /\ invV \in [Invs -> {"whole", Hole, Torn}]
      BY Zenon, <2>2 DEF IInv, InvRewrite, TypeOK
    <3>3. \A r \in Revs : IsCert(certV[r]) /\ certV[r].inv # NoInv =>
            invV'[certV[r].inv] = invV[certV[r].inv]
      BY Zenon, <3>1, <3>2
    <3> QED BY Zenon, <3>3, CertifiedFrame DEF InvRewrite
  <2> QED BY Zenon, <2>1, <2>2
<1>5. Current'
  BY Zenon DEF IInv, InvRewrite, Current, N, AppendSteps, GroupSteps
<1>6. Fresh'
  BY Zenon DEF IInv, InvRewrite, Fresh, Synced
<1>7. Prepared'
  BY Zenon, Uncommitted DEF IInv, InvRewrite, Prepared, TypeOK, Steps, InvSteps,
                     SegSteps, GroupSteps
<1>8. Reopening'
  BY Zenon DEF IInv, InvRewrite, Reopening
<1>9. Attempted'
  BY Zenon DEF IInv, InvRewrite, Attempted, N, AppendSteps
<1> QED BY Zenon, <1>1, <1>2, <1>3, <1>4, <1>5, <1>6, <1>7, <1>8, <1>9 DEF IInv

\* A created inventory file was not there, so no certificate names it.
LEMMA InvCreateKeeps ==
  ASSUME IInv, ~RetryPoisoned, InvCreate
  PROVE  IInv'
<1>1. TypeOK'
  BY Zenon DEF IInv, InvCreate, TypeOK, Steps, AppendSteps, InvSteps, SegSteps,
    GroupSteps
<1>2. Steps'
  BY Zenon DEF IInv, InvCreate, Steps, AppendSteps, InvSteps, SegSteps, GroupSteps
<1>3. Log' /\ Ordered'
  BY Zenon, Frame DEF InvCreate
<1>4. Certified'
  BY Zenon, CertFacts, CertifiedFrame DEF IInv, InvCreate, TypeOK, Steps, Synced,
      FileSlots, Slots, AppendSteps, OpenSteps, InvSteps, SegSteps, GroupSteps
<1>5. Bases'
  BY Zenon DEF IInv, InvCreate, Bases, Base, TypeOK, Synced, Fresh, Steps, AppendSteps,
      OpenSteps, InvSteps, SegSteps, GroupSteps
<1>6. Current'
  BY Zenon DEF IInv, InvCreate, Current, N, Certificate, AppendSteps, GroupSteps
<1>7. Fresh'
  BY Zenon DEF IInv, InvCreate, Fresh
<1>8. Prepared'
  <2>1. job.inv \in Invs
    BY Zenon DEF IInv, InvCreate, Steps, InvSteps
  <2>2. \A r \in Revs : IsCert(certV[r]) => certV[r].inv # job.inv
    BY Zenon, <2>1, CertFacts DEF InvCreate
  <2> QED BY Zenon, <2>2 DEF InvCreate, Prepared, SegSteps, GroupSteps
<1>9. Reopening'
  BY Zenon DEF IInv, InvCreate, Reopening
<1>10. Attempted'
  BY Zenon DEF IInv, InvCreate, Attempted, N, AppendSteps
<1> QED BY Zenon, <1>1, <1>2, <1>3, <1>4, <1>5, <1>6, <1>7, <1>8, <1>9, <1>10 DEF IInv

\* Writing the inventory's bytes touches no certified file.
LEMMA InvWriteKeeps ==
  ASSUME IInv, ~RetryPoisoned, InvWrite
  PROVE  IInv'
<1>1. TypeOK'
  BY Zenon DEF IInv, InvWrite, TypeOK, Steps, AppendSteps, InvSteps, SegSteps, GroupSteps
<1>2. Steps'
  BY Zenon DEF IInv, InvWrite, Steps, AppendSteps, InvSteps, SegSteps, GroupSteps
<1>3. Log' /\ Bases' /\ Ordered'
  BY Zenon, Frame DEF InvWrite
<1>4. Certified'
  BY Zenon, CertFacts, CertifiedFrame DEF IInv, InvWrite, TypeOK, Steps, Synced, FileSlots,
      Slots, AppendSteps, OpenSteps, InvSteps, SegSteps, GroupSteps
<1>5. Current'
  BY Zenon DEF IInv, InvWrite, Current, N, Certificate, AppendSteps, GroupSteps
<1>6. Fresh'
  BY Zenon DEF IInv, InvWrite, Fresh
<1>7. Prepared'
  BY Zenon DEF IInv, InvWrite, Prepared, Steps, TypeOK, InvSteps, SegSteps, GroupSteps
<1>8. Reopening'
  BY Zenon DEF IInv, InvWrite, Reopening
<1>9. Attempted'
  BY Zenon DEF IInv, InvWrite, Attempted, N, AppendSteps
<1> QED BY Zenon, <1>1, <1>2, <1>3, <1>4, <1>5, <1>6, <1>7, <1>8, <1>9 DEF IInv

\* A synchronised inventory is whole in the durable view.
LEMMA InvSyncKeeps ==
  ASSUME IInv, ~RetryPoisoned, InvSync
  PROVE  IInv'
<1>1. TypeOK'
  BY Zenon DEF IInv, InvSync, TypeOK, Steps, Jobs, NoJob, Attempts, Slots, Synced,
      AppendSteps, OpenSteps, InvSteps, SegSteps, GroupSteps
<1>2. Steps'
  BY Zenon DEF IInv, InvSync, Steps, AppendSteps, InvSteps, SegSteps, GroupSteps
<1>3. Log' /\ Bases' /\ Ordered'
  BY Zenon, Frame DEF InvSync
<1>4. Certified'
  BY Zenon, CertFacts, CertifiedFrame DEF IInv, InvSync, TypeOK, Steps, Synced, FileSlots,
      Slots, AppendSteps, OpenSteps, InvSteps, SegSteps, GroupSteps
<1>5. Current'
  BY Zenon DEF IInv, InvSync, Current, N, AppendSteps, GroupSteps
<1>6. Fresh'
  BY Zenon DEF IInv, InvSync, Fresh
<1>7. Prepared'
  BY ZenonT(30) DEF IInv, InvSync, Prepared, TypeOK, Steps, Synced, AfterTails, Slots,
      AppendSteps, OpenSteps, InvSteps, SegSteps, GroupSteps
<1>8. Reopening'
  BY Zenon DEF IInv, InvSync, Reopening
<1>9. Attempted'
  BY Zenon DEF IInv, InvSync, Attempted, N, AppendSteps
<1> QED BY Zenon, <1>1, <1>2, <1>3, <1>4, <1>5, <1>6, <1>7, <1>8, <1>9 DEF IInv

\* Synchronising the directory persists the inventory's name: from here the
\* inventory may be certified.
LEMMA InvDirSyncKeeps ==
  ASSUME IInv, ~RetryPoisoned, InvDirSync
  PROVE  IInv'
<1>1. TypeOK'
  BY Zenon DEF IInv, InvDirSync, TypeOK, Steps, AppendSteps, InvSteps, SegSteps,
    GroupSteps
<1>2. Steps'
  BY Zenon DEF IInv, InvDirSync, Steps, AppendSteps, InvSteps, SegSteps, GroupSteps
<1>3. Log' /\ Ordered'
  BY Zenon, Frame DEF InvDirSync
<1>4. Certified'
  BY Zenon, CertifiedFrame DEF IInv, InvDirSync, Bases
<1>5. Bases'
  BY Zenon DEF IInv, InvDirSync, Bases, Base, TypeOK, Synced, Fresh, Steps, AppendSteps,
      OpenSteps, InvSteps, SegSteps, GroupSteps
<1>6. Current'
  BY Zenon DEF IInv, InvDirSync, Current, N, AppendSteps, GroupSteps
<1>7. Fresh'
  BY Zenon DEF IInv, InvDirSync, Fresh
<1>8. Prepared'
  BY Zenon DEF IInv, InvDirSync, Prepared, SegSteps, GroupSteps
<1>9. Reopening'
  BY Zenon DEF IInv, InvDirSync, Reopening
<1>10. Attempted'
  BY Zenon DEF IInv, InvDirSync, Attempted, N, AppendSteps
<1> QED BY Zenon, <1>1, <1>2, <1>3, <1>4, <1>5, <1>6, <1>7, <1>8, <1>9, <1>10 DEF IInv

\* Admission poisons the store and opens the outcome.
LEMMA AdmitKeeps ==
  ASSUME IInv, ~RetryPoisoned, Admit
  PROVE  IInv'
<1>1. TypeOK'
  BY Zenon DEF IInv, Admit, TypeOK, Steps, Jobs, Attempts, AppendSteps, InvSteps,
    SegSteps, GroupSteps
<1>2. Steps'
  <2>1. /\ ~(off + 1 > SegCap) => off < SegCap
        /\ frontier # MaxRev => frontier < MaxRev
    BY SMTT(30), Ranges, JournalAssumption
  <2>2. poisoned \in BOOLEAN
    BY Zenon DEF IInv, TypeOK
  <2> QED BY Zenon, <2>1, <2>2
          DEF IInv, Admit, Steps, AppendSteps, InvSteps, SegSteps, GroupSteps, NoJob
<1>3. Log'
  BY Zenon DEF IInv, Admit, Log, N, TypeOK, Steps, Revs, IsCert, AppendSteps, OpenSteps,
      InvSteps, SegSteps, GroupSteps
<1>4. Certified' /\ Bases' /\ Ordered'
  BY Zenon, Frame DEF Admit
<1>5. Current'
  BY Zenon DEF IInv, Admit, Current, N, AppendSteps, GroupSteps
<1>6. Fresh'
  BY Zenon DEF IInv, Admit, Fresh
<1>7. Prepared'
  BY Zenon DEF IInv, Admit, Prepared, SegSteps, GroupSteps
<1>8. Reopening'
  BY Zenon DEF IInv, Admit, Reopening
<1>9. Attempted'
  BY Zenon DEF IInv, Admit, Attempted, N, AppendSteps
<1> QED BY Zenon, <1>1, <1>2, <1>3, <1>4, <1>5, <1>6, <1>7, <1>8, <1>9 DEF IInv

\* The name of a new segment is one no certificate uses.
LEMMA SegCreateKeeps ==
  ASSUME IInv, ~RetryPoisoned, NEW s \in Segs, SegCreate(s)
  PROVE  IInv'
<1>1. TypeOK'
  BY Zenon DEF IInv, SegCreate, TypeOK, Steps, Jobs, Attempts, AppendSteps, InvSteps,
    SegSteps, GroupSteps
<1>2. Steps'
  BY Zenon DEF IInv, SegCreate, Steps, AppendSteps, InvSteps, SegSteps, GroupSteps
<1>3. Log' /\ Ordered'
  BY Zenon, Frame DEF SegCreate
<1>4. Certified'
  <2>1. \A r \in Revs : IsCert(certV[r]) =>
          /\ certV[r].seg # s /\ certV[r].seg \in Segs
          /\ <<certV[r].seg, certV[r].pos>> \in Segs \X Slots
    BY Zenon, CertFacts DEF SegCreate
  <2>2. hdrV \in [Segs -> Headers \cup {Hole, Torn}]
        /\ hdrD \in [Segs -> Headers \cup {Hole, Torn}]
    BY Zenon DEF IInv, TypeOK
  <2> QED BY Zenon, <2>1, <2>2, CertifiedFrame DEF SegCreate
<1>5. Bases'
  BY Zenon DEF IInv, SegCreate, Bases, Base, TypeOK, Synced, Fresh, Steps, AppendSteps,
      OpenSteps, InvSteps, SegSteps, GroupSteps
<1>6. Current'
  BY Zenon DEF IInv, SegCreate, Current, N, Steps, TypeOK, AppendSteps, InvSteps,
    SegSteps, GroupSteps
<1>7. Fresh'
  <2>1. \A r \in Revs : IsCert(certV[r]) => certV[r].seg # s
    BY Zenon, CertFacts DEF SegCreate
  <2>2. s # Seg0 /\ s # seg
    BY Zenon DEF IInv, Bases, Base, Current, SegCreate, AppendSteps
  <2> QED BY Zenon, <2>1, <2>2 DEF SegCreate, Fresh
<1>8. Prepared'
  BY Zenon DEF IInv, SegCreate, Prepared, SegSteps, GroupSteps
<1>9. Reopening'
  BY Zenon DEF IInv, SegCreate, Reopening
<1>10. Attempted'
  BY Zenon DEF IInv, SegCreate, Attempted, N, AppendSteps
<1> QED BY Zenon, <1>1, <1>2, <1>3, <1>4, <1>5, <1>6, <1>7, <1>8, <1>9, <1>10 DEF IInv

\* The header is written to the new segment, which no certificate names.
LEMMA SegHeaderKeeps ==
  ASSUME IInv, ~RetryPoisoned, SegHeader
  PROVE  IInv'
<1>1. TypeOK'
  <2>1. [prev |-> seg, first |-> frontier + 1] \in Headers
    <3>1. seg \in Segs /\ frontier < MaxRev
      BY Zenon DEF IInv, TypeOK, SegHeader, Steps, SegSteps
    <3> QED BY SMTT(30), <3>1, Ranges, JournalAssumption DEF Headers, Revs
  <2> QED BY Zenon, <2>1 DEF IInv, TypeOK, SegHeader, AppendSteps
<1>2. Steps'
  BY Zenon DEF IInv, SegHeader, Steps, AppendSteps, InvSteps, SegSteps, GroupSteps
<1>3. Log' /\ Ordered'
  BY Zenon, Frame DEF SegHeader
<1>4. Certified'
  <2>1. \A r \in Revs : IsCert(certV[r]) =>
          certV[r].seg # nseg /\ certV[r].seg \in Segs
    BY Zenon, CertFacts DEF IInv, SegHeader, Fresh
  <2>2. hdrV \in [Segs -> Headers \cup {Hole, Torn}]
    BY Zenon DEF IInv, TypeOK
  <2> QED BY Zenon, <2>1, <2>2, CertifiedFrame DEF SegHeader
<1>5. Bases'
  BY Zenon DEF IInv, SegHeader, Bases, Base, TypeOK, Synced, Fresh, Steps, AppendSteps,
      OpenSteps, InvSteps, SegSteps, GroupSteps
<1>6. Current'
  <2>1. nseg # seg /\ seg \in Segs /\ nseg \in Segs
    BY Zenon DEF IInv, TypeOK, SegHeader, Fresh
  <2>2. hdrV'[seg] = hdrV[seg]
    BY Zenon, <2>1 DEF IInv, TypeOK, SegHeader
  <2> QED BY Zenon, <2>2 DEF IInv, SegHeader, Current, N, AppendSteps, GroupSteps
<1>7. Fresh'
  BY Zenon DEF IInv, SegHeader, Fresh, TypeOK, Synced, Bases, Base, AfterTails, Steps,
      AppendSteps, OpenSteps, InvSteps, SegSteps, GroupSteps
<1>8. Prepared'
  BY Zenon DEF IInv, SegHeader, Prepared, SegSteps, GroupSteps
<1>9. Reopening'
  BY Zenon DEF IInv, SegHeader, Reopening
<1>10. Attempted'
  BY Zenon DEF IInv, SegHeader, Attempted, N, AppendSteps
<1> QED BY Zenon, <1>1, <1>2, <1>3, <1>4, <1>5, <1>6, <1>7, <1>8, <1>9, <1>10 DEF IInv

\* The new segment's header becomes durable.
LEMMA SegSyncKeeps ==
  ASSUME IInv, ~RetryPoisoned, SegSync
  PROVE  IInv'
<1>1. TypeOK'
  BY Zenon DEF IInv, SegSync, TypeOK, Steps, Jobs, NoJob, Attempts, Slots, Synced,
      AppendSteps, OpenSteps, InvSteps, SegSteps, GroupSteps
<1>2. Steps'
  BY Zenon DEF IInv, SegSync, Steps, AppendSteps, InvSteps, SegSteps, GroupSteps
<1>3. Log' /\ Ordered'
  BY Zenon, Frame DEF SegSync
<1>4. Certified'
  BY ZenonT(30), CertFacts, CertifiedFrame DEF IInv, SegSync, TypeOK, Steps, Synced, FileSlots,
      Slots, AppendSteps, OpenSteps, InvSteps, SegSteps, GroupSteps
<1>5. Bases'
  BY Zenon DEF IInv, SegSync, Bases, Base, TypeOK, Synced, Fresh, Steps, AppendSteps,
      OpenSteps, InvSteps, SegSteps, GroupSteps
<1>6. Current'
  BY Zenon DEF IInv, SegSync, Current, N, TypeOK, Steps, Synced, AfterTails, AppendSteps,
      OpenSteps, InvSteps, SegSteps, GroupSteps
<1>7. Fresh'
  BY Zenon DEF IInv, SegSync, Fresh, TypeOK, Synced, Bases, Base, AfterTails, Steps,
      AppendSteps, OpenSteps, InvSteps, SegSteps, GroupSteps
<1>8. Prepared'
  BY Zenon DEF IInv, SegSync, Prepared, SegSteps, GroupSteps
<1>9. Reopening'
  BY Zenon DEF IInv, SegSync, Reopening
<1>10. Attempted'
  BY Zenon DEF IInv, SegSync, Attempted, N, AppendSteps
<1> QED BY Zenon, <1>1, <1>2, <1>3, <1>4, <1>5, <1>6, <1>7, <1>8, <1>9, <1>10 DEF IInv

\* The rollover ends: the new, empty segment is the active one.
LEMMA SegDirSyncKeeps ==
  ASSUME IInv, ~RetryPoisoned, SegDirSync
  PROVE  IInv'
<1>1. TypeOK'
  <2>1. nseg \in Segs
    BY Zenon DEF IInv, SegDirSync, Fresh
  <2>2. 0 \in 0..SegCap
    BY SMTT(30), JournalAssumption
  <2> QED BY Zenon, <2>1, <2>2 DEF IInv, TypeOK, SegDirSync, AppendSteps
<1>2. Steps'
  <2>1. 0 < SegCap
    BY SMTT(30), JournalAssumption
  <2> QED BY Zenon, <2>1
          DEF IInv, SegDirSync, Steps, AppendSteps, InvSteps, SegSteps, GroupSteps
<1>3. Log' /\ Ordered'
  BY Zenon, Frame DEF SegDirSync
<1>4. Certified'
  BY Zenon, CertifiedFrame DEF IInv, SegDirSync, Bases
<1>5. Bases'
  BY Zenon DEF IInv, SegDirSync, Bases, Base, TypeOK, Synced, Fresh, Steps, AppendSteps,
      OpenSteps, InvSteps, SegSteps, GroupSteps
<1>6. Current'
  <2>1. /\ nseg \in dirV /\ hdrD[nseg] = hdrV[nseg]
        /\ hdrV[nseg] = [prev |-> seg, first |-> frontier + 1]
        /\ \A r \in Revs : IsCert(certV[r]) => certV[r].seg # nseg
        /\ nseg # seg
    BY Zenon DEF IInv, SegDirSync, Fresh
  <2>2. seg = SegBefore(certV, N + 1) /\ frontier = N /\ frontier < MaxRev
    BY Zenon DEF IInv, SegDirSync, Current, AppendSteps, GroupSteps, Steps, SegSteps
  <2>3. \A r \in 1..N : r \in Revs /\ IsCert(certV[r])
    BY Zenon, LogFacts
  <2>4. hdrV[nseg] \in Headers
    <3>1. seg \in Segs
      BY Zenon DEF IInv, TypeOK
    <3> QED BY SMTT(30), <2>1, <2>2, <3>1, Ranges, JournalAssumption DEF Headers, Revs
  <2> QED BY Zenon, <2>1, <2>2, <2>3, <2>4
          DEF IInv, SegDirSync, Current, N, AppendSteps, GroupSteps
<1>7. Fresh'
  BY Zenon DEF IInv, SegDirSync, Fresh
<1>8. Prepared'
  BY Zenon DEF IInv, SegDirSync, Prepared, SegSteps, GroupSteps
<1>9. Reopening'
  BY Zenon DEF IInv, SegDirSync, Reopening
<1>10. Attempted'
  BY Zenon DEF IInv, SegDirSync, Attempted, N, AppendSteps
<1> QED BY Zenon, <1>1, <1>2, <1>3, <1>4, <1>5, <1>6, <1>7, <1>8, <1>9, <1>10 DEF IInv

\* The group goes to the slot behind all certified ones of its segment.
LEMMA GrpWriteKeeps ==
  ASSUME IInv, ~RetryPoisoned, GrpWrite
  PROVE  IInv'
<1>1. TypeOK'
  BY Zenon DEF IInv, GrpWrite, TypeOK, Steps, AppendSteps, InvSteps, SegSteps,
    GroupSteps
<1>2. Steps'
  BY Zenon DEF IInv, GrpWrite, Steps, AppendSteps, InvSteps, SegSteps, GroupSteps
<1>3. Log' /\ Bases' /\ Ordered'
  BY Zenon, Frame DEF GrpWrite
<1>4. Certified'
  <2>1. segV \in [Segs \X Slots -> Attempts \cup {Hole, Torn}]
    BY Zenon DEF IInv, TypeOK
  <2> QED BY Zenon, <2>1, NextSlot, CertifiedFrame DEF GrpWrite
<1>5. Current'
  BY Zenon DEF IInv, GrpWrite, Current, N, AppendSteps, GroupSteps
<1>6. Fresh'
  BY Zenon DEF IInv, GrpWrite, Fresh, Synced
<1>7. Prepared'
  <2>1. segV'[<<seg, off + 1>>] = job.grp
    BY Zenon, NewCertificate DEF IInv, TypeOK, GrpWrite, GroupSteps
  <2> QED BY Zenon, <2>1 DEF IInv, GrpWrite, Prepared, SegSteps, GroupSteps
<1>8. Reopening'
  BY Zenon DEF IInv, GrpWrite, Reopening
<1>9. Attempted'
  BY Zenon DEF IInv, GrpWrite, Attempted, N, AppendSteps
<1> QED BY Zenon, <1>1, <1>2, <1>3, <1>4, <1>5, <1>6, <1>7, <1>8, <1>9 DEF IInv

\* The group is durable before its certificate is written.
LEMMA GrpSyncKeeps ==
  ASSUME IInv, ~RetryPoisoned, GrpSync
  PROVE  IInv'
<1>1. TypeOK'
  BY Zenon DEF IInv, GrpSync, TypeOK, Steps, Jobs, NoJob, Attempts, Slots, Synced,
      AppendSteps, OpenSteps, InvSteps, SegSteps, GroupSteps
<1>2. Steps'
  BY Zenon DEF IInv, GrpSync, Steps, AppendSteps, InvSteps, SegSteps, GroupSteps
<1>3. Log' /\ Ordered'
  BY Zenon, Frame DEF GrpSync
<1>4. Certified'
  BY ZenonT(30), CertFacts, CertifiedFrame DEF IInv, GrpSync, TypeOK, Steps, Synced, FileSlots,
      Slots, AppendSteps, OpenSteps, InvSteps, SegSteps, GroupSteps
<1>5. Bases'
  BY Zenon DEF IInv, GrpSync, Bases, Base, TypeOK, Synced, Fresh, Steps, AppendSteps,
      OpenSteps, InvSteps, SegSteps, GroupSteps
<1>6. Current'
  BY ZenonT(30) DEF IInv, GrpSync, Current, N, TypeOK, Steps, Synced, AfterTails, AppendSteps,
      OpenSteps, InvSteps, SegSteps, GroupSteps
<1>7. Fresh'
  BY Zenon DEF IInv, GrpSync, Fresh
<1>8. Prepared'
  <2>1. segD'[<<seg, off + 1>>] = segV[<<seg, off + 1>>]
    BY Zenon, NewCertificate DEF IInv, TypeOK, GrpSync, GroupSteps, Synced, FileSlots
  <2> QED BY Zenon, <2>1 DEF IInv, GrpSync, Prepared, SegSteps, GroupSteps
<1>9. Reopening'
  BY Zenon DEF IInv, GrpSync, Reopening
<1>10. Attempted'
  BY Zenon DEF IInv, GrpSync, Attempted, N, AppendSteps
<1> QED BY Zenon, <1>1, <1>2, <1>3, <1>4, <1>5, <1>6, <1>7, <1>8, <1>9, <1>10 DEF IInv

\* The new certificate is valid and backed in both views, so that it may
\* survive a crash from here on.
LEMMA CertWriteKeeps ==
  ASSUME IInv, ~RetryPoisoned, CertWrite
  PROVE  IInv'
<1>1. TypeOK'
  BY Zenon, NewCertificate DEF IInv, TypeOK, CertWrite, GroupSteps, AppendSteps
<1>2. Steps'
  BY Zenon DEF IInv, CertWrite, Steps, AppendSteps, InvSteps, SegSteps, GroupSteps
<1>3. Log'
  <2>1. /\ certV' = [certV EXCEPT ![N + 1] = Certificate] /\ N \in Nat
        /\ N + 1 \in Revs /\ certV \in [Revs -> Certs \cup {Hole, Torn}]
        /\ IsCert(Certificate)
    BY Zenon, NewCertificate DEF IInv, TypeOK, CertWrite, GroupSteps
  <2>2. certD[N + 1] = Hole /\ ~IsCert(Hole)
    BY Zenon, <2>1 DEF IInv, Current, CertWrite, AppendSteps, IsCert
  <2>3. Certificate.grp = doubt /\ doubt # 0
    <3>1. job.grp \in Attempts /\ doubt = job.grp
      BY Zenon DEF IInv, Steps, CertWrite, GroupSteps, AppendSteps
    <3>2. job.grp # 0
      BY SMTT(30), <3>1 DEF Attempts
    <3> QED BY Zenon, <3>1, <3>2 DEF Certificate
  <2>4. \A r \in Revs : r # N + 1 => certV'[r] = certV[r]
    BY Zenon, <2>1
  <2>5. certV'[N + 1] = Certificate
    BY Zenon, <2>1
  <2>6. acked' = acked /\ certD' = certD /\ doubt' = doubt /\ N' = N
    BY Zenon DEF CertWrite, N
  <2>7. \A r \in 1..N : r \in Revs /\ r # N + 1
    BY SMTT(30), <2>1 DEF Revs
  <2>8. N' <= MaxRev /\ \A r \in 1..N' : /\ IsCert(certV'[r]) /\ certD'[r] = certV'[r]
                                         /\ certV'[r].grp = acked'[r]
    BY Zenon, <2>4, <2>6, <2>7 DEF IInv, Log
  <2>9. \A r \in Revs : r > N + 1 => certV'[r] = Hole /\ certD'[r] = Hole
    <3>1. \A r \in Revs : r > N + 1 => r # N + 1
      BY SMTT(30), <2>1, LogFacts
    <3> QED BY Zenon, <2>4, <2>6, <3>1 DEF IInv, Log
  <2>10. \A r \in Revs : IsCert(certD'[r]) => certV'[r] = certD'[r]
    BY Zenon, <2>2, <2>4, <2>6 DEF IInv, Log
  <2>11. certV'[N + 1].grp = doubt' /\ doubt' # 0
    BY Zenon, <2>3, <2>5, <2>6
  <2> QED BY Zenon, <2>6, <2>8, <2>9, <2>10, <2>11 DEF Log
<1>4. Certified'
  <2>1. /\ certV' = [certV EXCEPT ![N + 1] = Certificate] /\ N \in Nat
        /\ N + 1 \in Revs /\ certV \in [Revs -> Certs \cup {Hole, Torn}]
        /\ IsCert(Certificate)
    BY Zenon, NewCertificate DEF IInv, TypeOK, CertWrite, GroupSteps
  <2>2. \A r \in Revs : IsCert(certV'[r]) =>
          r = N + 1 \/ (r \in 1..N /\ certV'[r] = certV[r] /\ IsCert(certV[r]))
    BY Zenon, <2>1, NoneAhead DEF CertWrite, AppendSteps
  <2>3. \A r \in 1..N : certV'[r] = certV[r] /\ r \in Revs /\ IsCert(certV[r])
    BY SMTT(30), <2>1 DEF IInv, Log, Revs
  <2>4. /\ SegBefore(certV', N + 1) = SegBefore(certV, N + 1)
        /\ PosBefore(certV', N + 1) = PosBefore(certV, N + 1)
        /\ DigestBefore(certV', N + 1) = DigestBefore(certV, N + 1)
    BY SMTT(30), <2>1, <2>3 DEF SegBefore, PosBefore, DigestBefore
  <2>5. certV'[N + 1] = Certificate
    BY Zenon, <2>1
  <2>6. /\ CertValid(certV', hdrV, segV, invV, dirV, N + 1)
        /\ CertValid(certV', hdrD, segD, invD, dirD, N + 1)
        /\ seg \in dirV /\ seg \in dirD
        /\ hdrV[seg] = hdrD[seg] /\ hdrV[seg] \in Headers
    <3>1. /\ Certificate.rev = N + 1 /\ Certificate.prev = prev
          /\ Certificate.seg = seg /\ Certificate.pos = off + 1
          /\ Certificate.grp = job.grp /\ Certificate.inv = job.inv
      BY Zenon, NewCertificate DEF CertWrite, GroupSteps, Certificate
    <3>2. off < SegCap /\ off \in Nat
      BY Zenon, Ranges, AppendRanges DEF CertWrite, GroupSteps
    <3>3. /\ prev = DigestBefore(certV, N + 1)
          /\ seg \in dirV /\ seg \in dirD
          /\ hdrV[seg] = hdrD[seg] /\ hdrV[seg] \in Headers
          /\ \/ seg = SegBefore(certV, N + 1) /\ off = PosBefore(certV, N + 1)
             \/ /\ off = 0 /\ seg # SegBefore(certV, N + 1)
                /\ hdrV[seg] = [prev |-> SegBefore(certV, N + 1), first |-> N + 1]
      BY Zenon DEF IInv, Current, CertWrite, AppendSteps
    <3>4. /\ segV[<<seg, off + 1>>] = job.grp /\ segD[<<seg, off + 1>>] = job.grp
          /\ job.inv # NoInv =>
               /\ job.inv \in dirV /\ job.inv \in dirD
               /\ invV[job.inv] = "whole" /\ invD[job.inv] = "whole"
      BY Zenon DEF IInv, Prepared, CertWrite, GroupSteps
    <3> QED BY SMTT(30), <2>4, <2>5, <3>1, <3>2, <3>3, <3>4 DEF CertValid
  <2>7. \A r \in Revs : IsCert(certV'[r]) /\ r # N + 1 =>
          /\ CertValid(certV', hdrV, segV, invV, dirV, r)
          /\ CertValid(certV', hdrD, segD, invD, dirD, r)
          /\ certV'[r].seg \in dirV /\ certV'[r].seg \in dirD
          /\ hdrV[certV'[r].seg] \in Headers /\ hdrD[certV'[r].seg] \in Headers
          /\ hdrV[certV'[r].seg] = hdrD[certV'[r].seg]
    <3> SUFFICES ASSUME NEW r \in Revs, r # N + 1, IsCert(certV'[r])
                 PROVE  /\ CertValid(certV', hdrV, segV, invV, dirV, r)
                        /\ CertValid(certV', hdrD, segD, invD, dirD, r)
                        /\ certV'[r].seg \in dirV /\ certV'[r].seg \in dirD
                        /\ hdrV[certV'[r].seg] \in Headers
                        /\ hdrD[certV'[r].seg] \in Headers
                        /\ hdrV[certV'[r].seg] = hdrD[certV'[r].seg]
      OBVIOUS
    <3>1. r \in 1..N /\ certV'[r] = certV[r] /\ IsCert(certV[r])
      BY Zenon, <2>2
    <3>2. /\ SegBefore(certV', r) = SegBefore(certV, r)
          /\ PosBefore(certV', r) = PosBefore(certV, r)
          /\ DigestBefore(certV', r) = DigestBefore(certV, r)
      BY SMTT(30), <2>1, <2>3, <3>1 DEF SegBefore, PosBefore, DigestBefore
    <3>3. /\ CertValid(certV, hdrV, segV, invV, dirV, r)
          /\ CertValid(certV, hdrD, segD, invD, dirD, r)
          /\ certV[r].seg \in dirV /\ certV[r].seg \in dirD
          /\ hdrV[certV[r].seg] \in Headers /\ hdrD[certV[r].seg] \in Headers
          /\ hdrV[certV[r].seg] = hdrD[certV[r].seg]
      BY Zenon, <3>1 DEF IInv, Certified, Solid
    <3>4. /\ CertValid(certV', hdrV, segV, invV, dirV, r)
          /\ CertValid(certV', hdrD, segD, invD, dirD, r)
      BY Zenon, <3>1, <3>2, <3>3 DEF CertValid
    <3> QED BY Zenon, <3>1, <3>3, <3>4
  <2>8. Certificate.seg = seg
    BY Zenon DEF Certificate
  <2>9. /\ hdrV' = hdrV /\ hdrD' = hdrD /\ segV' = segV /\ segD' = segD
        /\ invV' = invV /\ invD' = invD /\ dirV' = dirV /\ dirD' = dirD
    BY Zenon DEF CertWrite
  <2>10. \A r \in Revs : IsCert(certV'[r]) =>
          /\ CertValid(certV', hdrV, segV, invV, dirV, r)
          /\ CertValid(certV', hdrD, segD, invD, dirD, r)
          /\ certV'[r].seg \in dirV /\ certV'[r].seg \in dirD
          /\ hdrV[certV'[r].seg] \in Headers /\ hdrD[certV'[r].seg] \in Headers
          /\ hdrV[certV'[r].seg] = hdrD[certV'[r].seg]
    BY Zenon, <2>5, <2>6, <2>7, <2>8
  <2> QED BY Zenon, <2>9, <2>10 DEF Certified, Solid
<1>5. Bases'
  BY Zenon, Frame DEF CertWrite
<1>6. Ordered'
  <2>1. /\ certV' = [certV EXCEPT ![N + 1] = Certificate] /\ N \in Nat
        /\ N + 1 \in Revs /\ certV \in [Revs -> Certs \cup {Hole, Torn}]
        /\ IsCert(Certificate)
    BY Zenon, NewCertificate DEF IInv, TypeOK, CertWrite, GroupSteps
  <2>2. \A r \in Revs : IsCert(certV'[r]) =>
          r = N + 1 \/ (r \in 1..N /\ certV'[r] = certV[r] /\ IsCert(certV[r]))
    BY Zenon, <2>1, NoneAhead DEF CertWrite, AppendSteps
  <2>3. \A r \in 1..N : certV[r].seg = seg => certV[r].pos <= off
    BY Zenon DEF IInv, Current, CertWrite, AppendSteps
  <2>4. /\ certV'[N + 1].seg = seg /\ certV'[N + 1].pos = off + 1 /\ off \in Nat
        /\ \A r \in Revs : IsCert(certV[r]) => certV[r].pos \in Nat
    <3>1. certV'[N + 1] = Certificate
      BY Zenon, <2>1
    <3>2. off \in Nat
      BY Zenon, Ranges
    <3>3. Certificate.seg = seg /\ Certificate.pos = off + 1
      BY Zenon DEF Certificate
    <3>4. \A r \in Revs : IsCert(certV[r]) => certV[r].pos \in Nat
      BY Zenon, CertSlots
    <3> QED BY Zenon, <3>1, <3>2, <3>3, <3>4
  <2>5. \A q, r \in 1..N : q < r /\ IsCert(certV[q]) /\ IsCert(certV[r])
                             /\ certV[q].seg = certV[r].seg
                           => certV[q].pos < certV[r].pos
    BY Zenon, LogFacts DEF IInv, Ordered
  <2> SUFFICES ASSUME NEW q \in Revs, NEW r \in Revs, q < r, IsCert(certV'[q]),
                      IsCert(certV'[r]), certV'[q].seg = certV'[r].seg
               PROVE  certV'[q].pos < certV'[r].pos
    BY Zenon DEF Ordered
  <2>6. q \in 1..N /\ certV'[q] = certV[q] /\ IsCert(certV[q]) /\ q \in Nat
    BY SMTT(30), <2>1, <2>2, LogFacts
  <2>7. CASE r = N + 1
    <3>1. certV[q].seg = seg /\ certV'[r].pos = off + 1
      BY Zenon, <2>4, <2>6, <2>7
    <3>2. certV[q].pos <= off /\ certV[q].pos \in Nat
      BY Zenon, <2>3, <2>4, <2>6, <3>1
    <3> QED BY SMTT(30), <2>4, <2>6, <3>1, <3>2
  <2>8. CASE r \in 1..N /\ certV'[r] = certV[r] /\ IsCert(certV[r])
    BY Zenon, <2>5, <2>6, <2>8
  <2> QED BY Zenon, <2>2, <2>7, <2>8
<1>7. Current'
  <2>1. /\ certV' = [certV EXCEPT ![N + 1] = Certificate] /\ N \in Nat
        /\ N + 1 \in Revs /\ certV \in [Revs -> Certs \cup {Hole, Torn}]
        /\ IsCert(Certificate)
    BY Zenon, NewCertificate DEF IInv, TypeOK, CertWrite, GroupSteps
  <2>2. \A r \in 1..N : certV'[r] = certV[r]
    BY SMTT(30), <2>1 DEF Revs
  <2>3. /\ SegBefore(certV', N + 1) = SegBefore(certV, N + 1)
        /\ PosBefore(certV', N + 1) = PosBefore(certV, N + 1)
        /\ DigestBefore(certV', N + 1) = DigestBefore(certV, N + 1)
    BY SMTT(30), <2>1, <2>2 DEF SegBefore, PosBefore, DigestBefore
  <2>4. certV'[N + 1] = Certificate' /\ N' = N
    BY Zenon, <2>1 DEF CertWrite, Certificate, N
  <2>5. /\ frontier = N /\ prev = DigestBefore(certV, N + 1)
        /\ \A r \in 1..N : certV[r].inv \in cinv \cup {NoInv}
        /\ seg \in dirV /\ seg \in dirD
        /\ hdrV[seg] = hdrD[seg] /\ hdrV[seg] \in Headers
        /\ \A r \in 1..N : certV[r].seg = seg => certV[r].pos <= off
        /\ \A r \in Revs : r = N + 1 => certD[r] = Hole
    BY Zenon DEF IInv, CertWrite, Current, AppendSteps
  <2>6. \/ seg = SegBefore(certV, N + 1) /\ off = PosBefore(certV, N + 1)
        \/ /\ off = 0 /\ seg # SegBefore(certV, N + 1)
           /\ hdrV[seg] = [prev |-> SegBefore(certV, N + 1), first |-> N + 1]
    BY Zenon DEF IInv, CertWrite, Current, AppendSteps
  <2>7. /\ pc' = "cert_sync"
        /\ UNCHANGED <<dirV, dirD, hdrV, hdrD, certD, seg, off, frontier, prev, cinv>>
    BY Zenon DEF CertWrite
  <2> QED BY Zenon, <2>2, <2>3, <2>4, <2>5, <2>6, <2>7 DEF Current, GroupSteps
<1>8. Fresh'
  BY Zenon DEF IInv, CertWrite, Fresh, Synced
<1>9. Prepared'
  BY Zenon DEF IInv, CertWrite, Prepared, SegSteps, GroupSteps
<1>10. Reopening'
  BY Zenon DEF IInv, CertWrite, Reopening
<1>11. Attempted'
  BY Zenon DEF IInv, CertWrite, Attempted, N, AppendSteps
<1> QED BY Zenon, <1>1, <1>2, <1>3, <1>4, <1>5, <1>6, <1>7, <1>8, <1>9, <1>10, <1>11 DEF
    IInv

\* The durable certificate is acknowledged, and memory follows the log.
LEMMA CertSyncKeeps ==
  ASSUME IInv, ~RetryPoisoned, CertSync
  PROVE  IInv'
<1>1. TypeOK'
  <2>1. job.grp \in Attempts /\ job.inv \in Invs \cup {NoInv}
    BY Zenon, AppendRanges DEF CertSync, GroupSteps
  <2>2. off + 1 \in 0..SegCap /\ frontier + 1 \in 0..MaxRev
    BY Zenon, AppendRanges DEF CertSync, GroupSteps
  <2>3. Append(acked, job.grp) \in Seq(Attempts)
    BY SMTT(30), <2>1, Ranges
  <2> QED BY Zenon, <2>1, <2>2, <2>3 DEF IInv, TypeOK, CertSync, Jobs
<1>2. Steps'
  BY Zenon DEF IInv, CertSync, Steps, AfterTails, AppendSteps, InvSteps, SegSteps,
    GroupSteps
<1>3. Log'
  <2>1. /\ N \in Nat /\ N' = N + 1 /\ acked'[N + 1] = job.grp
        /\ \A r \in 1..N : acked'[r] = acked[r]
    <3>1. acked \in Seq(Attempts) /\ job.grp \in Attempts
      BY Zenon DEF IInv, TypeOK, Steps, CertSync, AppendSteps
    <3>2. acked' = Append(acked, job.grp)
      BY Zenon DEF CertSync
    <3> QED BY SMTT(30), <3>1, <3>2 DEF N
  <2>2. N + 1 \in Revs /\ frontier = N /\ certV[N + 1] = Certificate
    BY Zenon, NewCertificate DEF IInv, CertSync, Current, AppendSteps, GroupSteps
  <2>3. IsCert(Certificate) /\ Certificate.grp = job.grp
    BY Zenon, NewCertificate DEF CertSync, GroupSteps, Certificate
  <2>4. \A r \in 1..(N + 1) : r \in 1..N \/ r = N + 1
    BY SMTT(30), <2>1
  <2>5. N + 1 <= MaxRev
    BY SMTT(30), <2>2 DEF Revs
  <2>6. \A r \in Revs : r > N + 1 => certV[r] = Hole /\ ~IsCert(Hole)
    BY Zenon DEF IInv, Log, IsCert
  <2>7. certV' = certV /\ certD' = certV /\ doubt' = 0
    BY Zenon DEF CertSync
  <2>8. \A r \in 1..(N + 1) : IsCert(certV[r]) /\ certV[r].grp = acked'[r]
    BY Zenon, <2>1, <2>2, <2>3, <2>4, LogFacts
  <2>9. \A r \in Revs : r > N + 1 => ~IsCert(certV[r])
    BY Zenon, <2>6
  <2>10. \A r \in Revs : r > (N + 1) + 1 => r > N + 1
    BY SMTT(30), LogFacts
  <2>11. \A r \in Revs : r = (N + 1) + 1 => ~IsCert(certV[r])
    BY SMTT(30), <2>9, LogFacts
  <2> QED BY Zenon, <2>1, <2>5, <2>6, <2>7, <2>8, <2>10, <2>11 DEF Log
<1>4. Certified' /\ Bases' /\ Ordered'
  BY Zenon, Frame DEF CertSync
<1>5. Current'
  <2>1. /\ N \in Nat /\ N' = N + 1 /\ acked'[N + 1] = job.grp
        /\ \A r \in 1..N : acked'[r] = acked[r]
    <3>1. acked \in Seq(Attempts) /\ job.grp \in Attempts
      BY Zenon DEF IInv, TypeOK, Steps, CertSync, AppendSteps
    <3>2. acked' = Append(acked, job.grp)
      BY Zenon DEF CertSync
    <3> QED BY SMTT(30), <3>1, <3>2 DEF N
  <2>2. N + 1 \in Revs /\ frontier = N /\ certV[N + 1] = Certificate
    BY Zenon, NewCertificate DEF IInv, CertSync, Current, AppendSteps, GroupSteps
  <2>3. /\ seg = SegBefore(certV, N + 2) /\ off + 1 = PosBefore(certV, N + 2)
        /\ job.grp = DigestBefore(certV, N + 2) /\ (N + 1) + 1 = N + 2
        /\ certV[N + 1].inv = job.inv
    <3>1. N + 2 # 1 /\ (N + 2) - 1 = N + 1 /\ (N + 1) + 1 = N + 2
      BY SMTT(30), <2>1
    <3>2. /\ certV[N + 1].seg = seg /\ certV[N + 1].pos = off + 1
          /\ certV[N + 1].grp = job.grp /\ certV[N + 1].inv = job.inv
      BY SMTT(30), <2>2 DEF Certificate
    <3> QED BY Zenon, <3>1, <3>2 DEF SegBefore, PosBefore, DigestBefore
  <2>7. \A r \in 1..(N + 1) : r \in 1..N \/ r = N + 1
    BY SMTT(30), <2>1
  <2>8. /\ \A r \in 1..N : certV[r].seg = seg => certV[r].pos <= off
        /\ \A r \in 1..N : certV[r].inv \in cinv \cup {NoInv}
    BY Zenon DEF IInv, CertSync, Current, AppendSteps
  <2>9. off \in Nat /\ certV[N + 1].pos = off + 1
    BY SMTT(30), <2>2, Ranges DEF Certificate
  <2>4. \A r \in 1..(N + 1) : certV[r].seg = seg => certV[r].pos <= off + 1
    <3>1. \A r \in 1..N : certV[r].pos \in Nat
      BY Zenon, LogFacts, CertSlots
    <3> QED BY SMTT(30), <2>7, <2>8, <2>9, <3>1
  <2>5. \A r \in 1..(N + 1) : certV[r].inv \in cinv' \cup {NoInv}
    <3>1. cinv' = IF job.inv = NoInv THEN cinv ELSE cinv \cup {job.inv}
      BY Zenon DEF CertSync
    <3> QED BY Zenon, <2>3, <2>7, <2>8, <3>1
  <2>6. \A r \in Revs : r = N + 2 => certV[r] = Hole
    <3>1. \A r \in Revs : r = N + 2 => r > N + 1
      BY SMTT(30), <2>1
    <3> QED BY Zenon, <3>1 DEF IInv, Log
  <2> QED BY Zenon, <2>1, <2>2, <2>3, <2>4, <2>5, <2>6
          DEF IInv, CertSync, Current, AppendSteps
<1>6. Fresh'
  BY Zenon DEF IInv, CertSync, Fresh, Synced
<1>7. Prepared'
  BY Zenon DEF IInv, CertSync, Prepared, SegSteps, GroupSteps
<1>8. Reopening'
  BY Zenon DEF IInv, CertSync, Reopening
<1>9. Attempted'
  <2>1. doubt' = 0 /\ next' = next /\ pc' = "ready"
    BY Zenon DEF CertSync
  <2>2. /\ acked \in Seq(Attempts) /\ job.grp \in Attempts /\ N \in Nat
        /\ acked' = Append(acked, job.grp)
    BY Zenon, LogFacts DEF IInv, TypeOK, Steps, CertSync, AppendSteps
  <2>3. job.grp < next /\ \A r \in 1..N : acked[r] < next
    BY Zenon DEF IInv, Attempted, CertSync, AppendSteps
  <2>4. \A a \in Attempts : a \in Nat /\ 0 < a
    BY SMTT(30) DEF Attempts
  <2>5. N' = N + 1 /\ \A r \in 1..(N + 1) :
          acked'[r] = job.grp \/ (r \in 1..N /\ acked'[r] = acked[r])
    BY SMTT(30), <2>2 DEF N
  <2>6. \A r \in 1..N : acked[r] \in Attempts
    BY SMTT(30), <2>2 DEF N
  <2>7. \A r \in 1..(N + 1) : acked'[r] < next /\ acked'[r] # 0
    <3>1. \A a \in Attempts : a # 0
      BY SMTT(30), <2>4
    <3> QED BY Zenon, <2>2, <2>3, <2>5, <2>6, <3>1
  <2>8. 0 < next
    BY Zenon, Ranges
  <2> QED BY Zenon, <2>1, <2>5, <2>7, <2>8 DEF Attempted, AppendSteps
<1> QED BY Zenon, <1>1, <1>2, <1>3, <1>4, <1>5, <1>6, <1>7, <1>8, <1>9 DEF IInv

-----------------------------------------------------------------------------

\* A failed call leaves the store poisoned once its outcome is open.
LEMMA AppendFailsKeeps ==
  ASSUME IInv, ~RetryPoisoned, AppendFails
  PROVE  IInv'
<1>1. TypeOK'
  BY Zenon DEF IInv, AppendFails, TypeOK, Jobs, NoJob, Attempts
<1>2. Steps'
  BY Zenon DEF IInv, AppendFails, Steps, AppendSteps, InvSteps, SegSteps,
    GroupSteps
<1>3. Log' /\ Certified' /\ Bases' /\ Ordered'
  BY Zenon, Frame DEF AppendFails
<1>4. Current'
  BY Zenon DEF IInv, AppendFails, Current, N, Steps, TypeOK, AppendSteps, InvSteps,
    SegSteps, GroupSteps
<1>5. Fresh'
  BY Zenon DEF IInv, AppendFails, Fresh
<1>6. Prepared'
  BY Zenon DEF IInv, AppendFails, Prepared, SegSteps, GroupSteps
<1>7. Reopening'
  BY Zenon DEF IInv, AppendFails, Reopening
<1>8. Attempted'
  BY Zenon DEF IInv, AppendFails, Attempted, N, AppendSteps
<1> QED BY Zenon, <1>1, <1>2, <1>3, <1>4, <1>5, <1>6, <1>7, <1>8 DEF IInv

\* A partial write of an inventory damages no certified one.
LEMMA InvTornKeeps ==
  ASSUME IInv, ~RetryPoisoned, InvTorn
  PROVE  IInv'
<1>1. TypeOK'
  BY Zenon DEF IInv, InvTorn, TypeOK, Jobs, NoJob, Attempts
<1>2. Steps'
  BY Zenon DEF IInv, InvTorn, Steps, AfterTails, AppendSteps, InvSteps, SegSteps,
    GroupSteps
<1>3. Log' /\ Bases' /\ Ordered'
  BY Zenon, Frame DEF InvTorn
<1>4. Certified'
  <2>1. \A r \in Revs : IsCert(certV[r]) /\ certV[r].inv # NoInv =>
          certV[r].inv # job.inv /\ certV[r].inv \in Invs
    BY Zenon, CertFacts DEF IInv, InvTorn, Prepared
  <2>2. invV \in [Invs -> {"whole", Hole, Torn}]
    BY Zenon DEF IInv, TypeOK
  <2> QED BY Zenon, <2>1, <2>2, CertifiedFrame DEF InvTorn
<1>5. Current'
  BY Zenon DEF IInv, InvTorn, Current, N, AppendSteps, GroupSteps
<1>6. Fresh'
  BY Zenon DEF IInv, InvTorn, Fresh, Synced
<1>7. Prepared'
  BY Zenon DEF IInv, InvTorn, Prepared, SegSteps, GroupSteps
<1>8. Reopening'
  BY Zenon DEF IInv, InvTorn, Reopening
<1>9. Attempted'
  BY Zenon DEF IInv, InvTorn, Attempted, N, AppendSteps
<1> QED BY Zenon, <1>1, <1>2, <1>3, <1>4, <1>5, <1>6, <1>7, <1>8, <1>9 DEF IInv

\* A partial header or group is outside every certified slot.
LEMMA SegTornKeeps ==
  ASSUME IInv, ~RetryPoisoned, SegTorn
  PROVE  IInv'
<1>1. TypeOK'
  BY Zenon DEF IInv, SegTorn, TypeOK, Jobs, NoJob, Attempts
<1>2. Steps'
  BY Zenon DEF IInv, SegTorn, Steps, AppendSteps, InvSteps, SegSteps, GroupSteps
<1>3. Log' /\ Ordered'
  BY Zenon, Frame DEF SegTorn
<1>4. Certified'
  <2>1. CASE pc = "seg_header"
    <3>1. \A r \in Revs : IsCert(certV[r]) =>
            certV[r].seg # nseg /\ certV[r].seg \in Segs
      BY Zenon, <2>1, CertFacts DEF IInv, Fresh
    <3>2. hdrV \in [Segs -> Headers \cup {Hole, Torn}]
      BY Zenon DEF IInv, TypeOK
    <3> QED BY Zenon, <2>1, <3>1, <3>2, CertifiedFrame DEF SegTorn
  <2>2. CASE pc = "grp_write"
    <3>1. \A r \in Revs : IsCert(certV[r]) =>
            /\ <<certV[r].seg, certV[r].pos>> # <<seg, off + 1>>
            /\ <<certV[r].seg, certV[r].pos>> \in Segs \X Slots
      BY Zenon, <2>2, NextSlot
    <3>2. segV \in [Segs \X Slots -> Attempts \cup {Hole, Torn}]
      BY Zenon DEF IInv, TypeOK
    <3> QED BY Zenon, <2>2, <3>1, <3>2, CertifiedFrame DEF SegTorn
  <2> QED BY Zenon, <2>1, <2>2 DEF SegTorn
<1>5. Bases'
  BY Zenon DEF IInv, SegTorn, Bases, Base, TypeOK, Synced, Fresh, Steps, AppendSteps,
      OpenSteps, InvSteps, SegSteps, GroupSteps
<1>6. Current'
  BY Zenon DEF IInv, SegTorn, Current, N, Steps, TypeOK, AppendSteps, InvSteps,
    SegSteps, GroupSteps
<1>7. Fresh'
  BY Zenon DEF IInv, SegTorn, Fresh
<1>8. Prepared'
  BY Zenon DEF IInv, SegTorn, Prepared, SegSteps, GroupSteps
<1>9. Reopening'
  BY Zenon DEF IInv, SegTorn, Reopening
<1>10. Attempted'
  BY Zenon DEF IInv, SegTorn, Attempted, N, AppendSteps
<1> QED BY Zenon, <1>1, <1>2, <1>3, <1>4, <1>5, <1>6, <1>7, <1>8, <1>9, <1>10 DEF IInv

\* A partial certificate is behind the acknowledged log.
LEMMA CertTornKeeps ==
  ASSUME IInv, ~RetryPoisoned, CertTorn
  PROVE  IInv'
<1>1. TypeOK'
  BY Zenon DEF IInv, CertTorn, TypeOK, Jobs, NoJob, Attempts
<1>2. Steps'
  BY Zenon DEF IInv, CertTorn, Steps, TypeOK, AppendSteps, InvSteps, SegSteps, GroupSteps
<1>3. Log'
  <2>1. acked' = acked /\ certD' = certD /\ doubt' = doubt /\ N' = N
    BY Zenon DEF CertTorn, N
  <2>2. \A r \in Revs : r > N + 1 => r # N + 1
    BY SMTT(30), LogFacts
  <2>3. \A r \in 1..N : certV'[r] = certV[r]
    BY Zenon, CertTornFacts, LogFacts
  <2>4. ~IsCert(certV'[N + 1]) /\ \A r \in Revs : r # N + 1 => certV'[r] = certV[r]
    BY Zenon, CertTornFacts, LogFacts
  <2>5. ~IsCert(certD[N + 1])
    BY Zenon, CertTornFacts, LogFacts
  <2> QED BY Zenon, <2>1, <2>2, <2>3, <2>4, <2>5 DEF IInv, Log
<1>4. Certified' /\ Ordered'
  BY Zenon, CertTornFacts, LogFacts, LogCut DEF CertTorn
<1>5. Bases'
  BY Zenon, Frame DEF CertTorn
<1>6. Current'
  BY Zenon DEF IInv, CertTorn, Current, N, Steps, TypeOK, AppendSteps, InvSteps,
    SegSteps, GroupSteps
<1>7. Fresh'
  BY Zenon DEF IInv, CertTorn, Fresh
<1>8. Prepared'
  BY Zenon DEF IInv, CertTorn, Prepared, SegSteps, GroupSteps
<1>9. Reopening'
  BY Zenon DEF IInv, CertTorn, Reopening
<1>10. Attempted'
  BY Zenon DEF IInv, CertTorn, Attempted, N, AppendSteps
<1> QED BY Zenon, <1>1, <1>2, <1>3, <1>4, <1>5, <1>6, <1>7, <1>8, <1>9, <1>10 DEF IInv

\* Opening reads the directory only.
LEMMA OpenKeeps ==
  ASSUME IInv, ~RetryPoisoned, Open
  PROVE  IInv'
<1>1. TypeOK'
  BY Zenon DEF IInv, Open, TypeOK, Steps, Jobs, NoJob, Attempts, Slots, Synced,
      AppendSteps, OpenSteps, InvSteps, SegSteps, GroupSteps
<1>2. Steps'
  BY Zenon DEF IInv, Open, Steps, AppendSteps, InvSteps, SegSteps, GroupSteps
<1>3. Log' /\ Certified' /\ Bases' /\ Ordered'
  BY Zenon, Frame DEF Open
<1>4. Current'
  BY Zenon DEF IInv, Open, Current, AppendSteps
<1>5. Fresh'
  BY Zenon DEF IInv, Open, Fresh
<1>6. Prepared'
  BY Zenon DEF IInv, Open, Prepared, SegSteps, GroupSteps
<1>7. Reopening'
  BY Zenon DEF IInv, Open, Reopening
<1>8. Attempted'
  BY Zenon DEF IInv, Open, Attempted, N, AppendSteps
<1> QED BY Zenon, <1>1, <1>2, <1>3, <1>4, <1>5, <1>6, <1>7, <1>8 DEF IInv

\* The first pass accepts the visible log: it never ends in damage.
LEMMA FirstPassKeeps ==
  ASSUME IInv, ~RetryPoisoned, FirstPass
  PROVE  IInv'
<1>1. TypeOK'
  <2>1. ChainSegs(certV) \subseteq Segs
    BY Zenon, CertFacts, CompleteIsVisible DEF ChainSegs
  <2> QED BY Zenon, <2>1 DEF IInv, TypeOK, FirstPass, OpenSteps
<1>2. Steps'
  BY Zenon, ScanAccepts DEF IInv, FirstPass, Steps, AppendSteps, InvSteps, SegSteps,
                     GroupSteps
<1>3. Log' /\ Certified' /\ Bases' /\ Ordered'
  BY Zenon, Frame DEF FirstPass
<1>4. Current'
  BY Zenon DEF IInv, FirstPass, Current, AppendSteps
<1>5. Fresh'
  BY Zenon DEF IInv, FirstPass, Fresh
<1>6. Prepared'
  BY Zenon DEF IInv, FirstPass, Prepared, SegSteps, GroupSteps
<1>7. Reopening'
  BY Zenon DEF FirstPass, Reopening, TornTail
<1>8. Attempted'
  BY Zenon DEF IInv, FirstPass, Attempted, N, AppendSteps
<1> QED BY Zenon, <1>1, <1>2, <1>3, <1>4, <1>5, <1>6, <1>7, <1>8 DEF IInv

\* Cutting an incomplete certificate cuts nothing acknowledged.
LEMMA CertTruncKeeps ==
  ASSUME IInv, ~RetryPoisoned, CertTrunc
  PROVE  IInv'
<1>1. TypeOK'
  BY Zenon DEF IInv, TypeOK, CertTrunc, OpenSteps
<1>2. Steps'
  BY Zenon DEF IInv, CertTrunc, Steps, AppendSteps, InvSteps, SegSteps, GroupSteps
<1>3. Log'
  <2>1. acked' = acked /\ certD' = certD /\ doubt' = doubt /\ N' = N
    BY Zenon DEF CertTrunc, N
  <2> QED BY Zenon, <2>1, CertTruncFacts, LogFacts DEF IInv, Log
<1>4. Certified' /\ Ordered'
  BY Zenon, CertTruncFacts, LogFacts, LogCut DEF CertTrunc
<1>5. Bases'
  BY Zenon, Frame DEF CertTrunc
<1>6. Current'
  BY Zenon DEF IInv, CertTrunc, Current, AppendSteps
<1>7. Fresh'
  BY Zenon DEF IInv, CertTrunc, Fresh, AfterTails
<1>8. Prepared'
  BY Zenon DEF IInv, CertTrunc, Prepared, SegSteps, GroupSteps
<1>9. Reopening'
  BY Zenon, CertTruncFacts DEF CertTrunc, Reopening, IsCert
<1>10. Attempted'
  BY Zenon DEF IInv, CertTrunc, Attempted, N, AppendSteps
<1> QED BY Zenon, <1>1, <1>2, <1>3, <1>4, <1>5, <1>6, <1>7, <1>8, <1>9, <1>10 DEF IInv

\* The resynchronised log is the same in both views: what recovery counts
\* will be there after the next crash too.
LEMMA CertResyncKeeps ==
  ASSUME IInv, ~RetryPoisoned, CertResync
  PROVE  IInv'
<1>1. TypeOK'
  BY Zenon DEF IInv, TypeOK, CertResync, AfterTails, OpenSteps
<1>2. Steps'
  BY Zenon DEF IInv, CertResync, Steps, AfterTails, AppendSteps, InvSteps, SegSteps,
    GroupSteps
<1>3. Log'
  BY Zenon DEF IInv, CertResync, Log, N, TypeOK, Steps, Revs, IsCert, AppendSteps,
      OpenSteps, InvSteps, SegSteps, GroupSteps
<1>4. Certified' /\ Bases' /\ Ordered'
  BY Zenon, Frame DEF CertResync
<1>5. Current'
  BY Zenon DEF IInv, CertResync, Current, N, TypeOK, Steps, Synced, AfterTails,
      AppendSteps, OpenSteps, InvSteps, SegSteps, GroupSteps
<1>6. Fresh'
  BY Zenon DEF IInv, CertResync, Fresh, AfterTails
<1>7. Prepared'
  BY Zenon DEF IInv, CertResync, Prepared, AfterTails, SegSteps, GroupSteps
<1>8. Reopening'
  BY Zenon DEF IInv, CertResync, Reopening
<1>9. Attempted'
  BY Zenon DEF IInv, CertResync, Attempted, TypeOK, Steps, N, Attempts, AfterTails,
      AppendSteps, OpenSteps, InvSteps, SegSteps, GroupSteps
<1> QED BY Zenon, <1>1, <1>2, <1>3, <1>4, <1>5, <1>6, <1>7, <1>8, <1>9 DEF IInv

\* A tail that is cut is behind the last certified slot of its segment.
LEMMA TailTruncKeeps ==
  ASSUME IInv, ~RetryPoisoned, NEW s \in Segs, TailTrunc(s)
  PROVE  IInv'
<1>1. TypeOK'
  BY Zenon DEF IInv, TailTrunc, TypeOK, Steps, Jobs, NoJob, Attempts, Slots, Synced,
      AppendSteps, OpenSteps, InvSteps, SegSteps, GroupSteps
<1>2. Steps'
  BY Zenon DEF IInv, TailTrunc, Steps, AppendSteps, InvSteps, SegSteps, GroupSteps
<1>3. Log' /\ Bases' /\ Ordered'
  BY Zenon, Frame DEF TailTrunc
<1>4. Certified'
  <2>1. \A r \in Revs : IsCert(certV[r]) =>
          /\ CommittedSlot(certV, certV[r].seg, certV[r].pos)
          /\ <<certV[r].seg, certV[r].pos>> \in Segs \X Slots
    <3> SUFFICES ASSUME NEW r \in Revs, IsCert(certV[r])
                 PROVE  /\ CommittedSlot(certV, certV[r].seg, certV[r].pos)
                        /\ <<certV[r].seg, certV[r].pos>> \in Segs \X Slots
      OBVIOUS
    <3>1. r \in Complete(certV)
      BY Zenon, CompleteIsVisible
    <3>2. certV[r].seg \in Segs /\ certV[r].pos \in Slots /\ certV[r].pos <= certV[r].pos
      BY Zenon, CertSlots
    <3> QED BY Zenon, <3>1, <3>2 DEF CommittedSlot
  <2>2. \A r \in Revs : IsCert(certV[r]) =>
          segV'[<<certV[r].seg, certV[r].pos>>]
            = segV[<<certV[r].seg, certV[r].pos>>]
    BY Zenon, <2>1 DEF TailTrunc
  <2> QED BY Zenon, <2>2, CertifiedFrame DEF TailTrunc
<1>5. Current'
  BY Zenon DEF IInv, TailTrunc, Current, AppendSteps
<1>6. Fresh'
  BY Zenon DEF IInv, TailTrunc, Fresh
<1>7. Prepared'
  BY Zenon DEF IInv, TailTrunc, Prepared, SegSteps, GroupSteps
<1>8. Reopening'
  BY Zenon DEF IInv, TailTrunc, Reopening
<1>9. Attempted'
  BY Zenon DEF IInv, TailTrunc, Attempted, N, AppendSteps
<1> QED BY Zenon, <1>1, <1>2, <1>3, <1>4, <1>5, <1>6, <1>7, <1>8, <1>9 DEF IInv

\* Synchronising the cut segment keeps the certified slots in both views.
LEMMA TailSyncKeeps ==
  ASSUME IInv, ~RetryPoisoned, TailSync
  PROVE  IInv'
<1>1. TypeOK'
  BY Zenon DEF IInv, TypeOK, TailSync, AfterTails, OpenSteps, Synced
<1>2. Steps'
  BY Zenon DEF IInv, TailSync, Steps, AfterTails, AppendSteps, InvSteps, SegSteps,
    GroupSteps
<1>3. Log' /\ Ordered'
  BY Zenon, Frame DEF TailSync
<1>4. Certified'
  BY Zenon, CertFacts, CertifiedFrame DEF IInv, TailSync, TypeOK, Steps, Synced, FileSlots,
      Slots, AppendSteps, OpenSteps, InvSteps, SegSteps, GroupSteps
<1>5. Bases'
  BY ZenonT(30) DEF IInv, TailSync, Bases, Base, TypeOK, Synced, Fresh, Steps, AppendSteps,
      OpenSteps, InvSteps, SegSteps, GroupSteps
<1>6. Current'
  BY Zenon DEF IInv, TailSync, Current, N, TypeOK, Steps, Synced, AfterTails, AppendSteps,
      OpenSteps, InvSteps, SegSteps, GroupSteps
<1>7. Fresh'
  BY Zenon DEF IInv, TailSync, Fresh, AfterTails
<1>8. Prepared'
  BY Zenon DEF IInv, TailSync, Prepared, AfterTails, SegSteps, GroupSteps
<1>9. Reopening'
  BY Zenon DEF IInv, TailSync, Reopening
<1>10. Attempted'
  BY Zenon DEF IInv, TailSync, Attempted, TypeOK, Steps, N, Attempts, AfterTails,
      AppendSteps, OpenSteps, InvSteps, SegSteps, GroupSteps
<1> QED BY Zenon, <1>1, <1>2, <1>3, <1>4, <1>5, <1>6, <1>7, <1>8, <1>9, <1>10 DEF IInv

\* The second pass rebuilds the memory of the store from the log.
LEMMA ReplayKeeps ==
  ASSUME IInv, ~RetryPoisoned, Replay
  PROVE  IInv'
<1>1. TypeOK'
  <2> DEFINE n == Count(certV)
  <2>1. n \in 0..MaxRev /\ acked' \in Seq(Attempts)
    BY Zenon, ReplayFacts
  <2>2. \A r \in 1..n : certV[r] \in Certs
    BY Zenon, ReplayFacts
  <2> HIDE DEF n
  <2>3. n # 0 => n \in 1..n /\ n + 1 # 1 /\ (n + 1) - 1 = n
    BY SMTT(30), <2>1
  <2>4. /\ SegBefore(certV, n + 1) \in Segs /\ PosBefore(certV, n + 1) \in 0..SegCap
        /\ DigestBefore(certV, n + 1) \in Attempts \cup {0}
    <3>1. CASE n = 0
      BY SMTT(30), <3>1 DEF SegBefore, PosBefore, DigestBefore
    <3>2. CASE n # 0
      <4>1. /\ certV[n].seg \in Segs /\ certV[n].pos \in 0..SegCap
            /\ certV[n].grp \in Attempts
        BY SMTT(30), <2>2, <2>3, <3>2 DEF Certs, Slots
      <4> QED BY Zenon, <2>3, <3>2, <4>1 DEF SegBefore, PosBefore, DigestBefore
    <3> QED BY Zenon, <3>1, <3>2
  <2>5. {certV[r].inv : r \in 1..n} \ {NoInv} \subseteq Invs
    BY Zenon, <2>2 DEF Certs
  <2> QED BY Zenon, <2>1, <2>4, <2>5 DEF n, IInv, TypeOK, Replay
<1>2. Steps'
  BY Zenon DEF IInv, Replay, Steps, AppendSteps, InvSteps, SegSteps, GroupSteps
<1>3. Log'
  <2> DEFINE n == Count(certV)
  <2>1. /\ n \in 0..MaxRev /\ N' = n /\ certD = certV
        /\ \A r \in 1..n : IsCert(certV[r]) /\ acked'[r] = certV[r].grp
        /\ \A r \in Revs : r > n => certV[r] = Hole
    BY Zenon, ReplayFacts
  <2> HIDE DEF n
  <2>2. \A r \in Revs : (r > n + 1 => r > n) /\ (r = n + 1 => r > n)
    BY SMTT(30), <2>1, LogFacts
  <2>3. certV' = certV /\ certD' = certD
    BY Zenon DEF Replay
  <2>4. n <= MaxRev
    BY SMTT(30), <2>1
  <2> QED BY Zenon, <2>1, <2>2, <2>3, <2>4, LogFacts DEF Log
<1>4. Certified' /\ Bases' /\ Ordered'
  BY Zenon, Frame DEF Replay
<1>5. Current'
  <2> DEFINE n == Count(certV)
  <2>1. /\ n \in 0..MaxRev /\ N' = n /\ certD = certV
        /\ \A r \in 1..n : r \in Revs /\ IsCert(certV[r]) /\ certV[r] \in Certs
        /\ \A r \in Revs : r > n => certV[r] = Hole
    BY Zenon, ReplayFacts
  <2>2. /\ pc' = "ready" /\ frontier' = n /\ seg' = SegBefore(certV, n + 1)
        /\ off' = PosBefore(certV, n + 1) /\ prev' = DigestBefore(certV, n + 1)
        /\ cinv' = {certV[r].inv : r \in 1..n} \ {NoInv}
        /\ certV' = certV /\ certD' = certD /\ hdrV' = hdrV /\ hdrD' = hdrD
        /\ dirV' = dirV /\ dirD' = dirD
    BY Zenon DEF Replay
  <2> HIDE DEF n
  <2>3. \A r \in Revs : r = n + 1 => certV[r] = Hole
    <3>1. \A r \in Revs : r = n + 1 => r > n
      BY SMTT(30), <2>1, LogFacts
    <3> QED BY Zenon, <2>1, <3>1
  <2>4. /\ seg' \in dirV /\ seg' \in dirD /\ hdrV[seg'] = hdrD[seg']
        /\ hdrV[seg'] \in Headers
        /\ \A r \in 1..n : certV[r].seg = seg' => certV[r].pos <= off'
    <3>1. CASE n = 0
      <4>1. seg' = Seg0
        BY SMTT(30), <2>2, <3>1 DEF SegBefore
      <4>2. /\ Seg0 \in dirV /\ Seg0 \in dirD
            /\ hdrV[Seg0] = FirstHeader /\ hdrD[Seg0] = FirstHeader
        BY Zenon DEF IInv, Bases, Base
      <4>3. 1..n = {}
        BY SMTT(30), <3>1
      <4> QED BY Zenon, <4>1, <4>2, <4>3, FirstIsHeader
    <3>2. CASE n # 0
      <4>1. n \in 1..n /\ n + 1 # 1 /\ (n + 1) - 1 = n
        BY SMTT(30), <2>1, <3>2
      <4>2. seg' = certV[n].seg /\ off' = certV[n].pos /\ n \in Revs
        BY Zenon, <2>1, <2>2, <4>1 DEF SegBefore, PosBefore
      <4>3. /\ seg' \in dirV /\ seg' \in dirD /\ hdrV[seg'] = hdrD[seg']
            /\ hdrV[seg'] \in Headers
        BY Zenon, <2>1, <4>1, <4>2 DEF IInv, Certified, Solid
      <4>4. ASSUME NEW r \in 1..n, certV[r].seg = seg'
            PROVE  certV[r].pos <= off'
        <5>1. r = n \/ r < n
          BY SMTT(30), <2>1
        <5>2. certV[r].pos \in Nat /\ certV[n].pos \in Nat
          BY SMTT(30), <2>1, <4>1 DEF Certs, Slots
        <5>3. r < n => certV[r].pos < certV[n].pos
          BY Zenon, <2>1, <4>1, <4>2, <4>4 DEF IInv, Ordered
        <5> QED BY SMTT(30), <4>2, <5>1, <5>2, <5>3
      <4> QED BY Zenon, <4>3, <4>4
    <3> QED BY Zenon, <3>1, <3>2
  <2>5. \A r \in 1..n : certV[r].inv \in cinv' \cup {NoInv}
    BY Zenon, <2>2
  <2> QED BY Zenon, <2>1, <2>2, <2>3, <2>4, <2>5 DEF Current
<1>6. Fresh'
  BY Zenon DEF IInv, Replay, Fresh
<1>7. Prepared'
  BY Zenon DEF IInv, Replay, Prepared, SegSteps, GroupSteps
<1>8. Reopening'
  BY Zenon DEF IInv, Replay, Reopening
<1>9. Attempted'
  <2> DEFINE n == Count(certV)
  <2>1. /\ n \in 0..MaxRev /\ (n = N \/ n = N + 1) /\ N' = n
        /\ \A r \in 1..n : r \in Revs /\ IsCert(certV[r]) /\ certV[r] \in Certs
        /\ \A r \in 1..n : acked'[r] = certV[r].grp
    BY Zenon, ReplayFacts
  <2> HIDE DEF n
  <2>2. \A r \in 1..n : r \in 1..N \/ r = N + 1
    BY SMTT(30), <2>1, LogFacts
  <2>3. \A r \in 1..n : certV[r].grp < next
    BY Zenon, <2>1, <2>2, LogFacts DEF IInv, Log, Attempted
  <2>4. doubt' = 0 /\ next' = next /\ pc' = "ready" /\ 0 < next
    BY Zenon, Ranges DEF Replay
  <2>5. \A r \in 1..n : certV[r].grp # 0
    BY SMTT(30), <2>1 DEF Certs, Attempts
  <2> QED BY Zenon, <2>1, <2>3, <2>4, <2>5 DEF Attempted, AppendSteps
<1> QED BY Zenon, <1>1, <1>2, <1>3, <1>4, <1>5, <1>6, <1>7, <1>8, <1>9 DEF IInv

\* A failed open changes no file.
LEMMA OpenFailsKeeps ==
  ASSUME IInv, ~RetryPoisoned, OpenFails
  PROVE  IInv'
<1>1. TypeOK'
  BY Zenon DEF IInv, OpenFails, TypeOK
<1>2. Steps'
  BY Zenon DEF IInv, OpenFails, Steps, AppendSteps, InvSteps, SegSteps, GroupSteps
<1>3. Log' /\ Certified' /\ Bases' /\ Ordered'
  BY Zenon, Frame DEF OpenFails
<1>4. Current'
  BY Zenon DEF IInv, OpenFails, Current, AppendSteps
<1>5. Fresh'
  BY Zenon DEF IInv, OpenFails, Fresh
<1>6. Prepared'
  BY Zenon DEF IInv, OpenFails, Prepared, SegSteps, GroupSteps
<1>7. Reopening'
  BY Zenon DEF IInv, OpenFails, Reopening
<1>8. Attempted'
  BY Zenon DEF IInv, OpenFails, Attempted, N, AppendSteps
<1> QED BY Zenon, <1>1, <1>2, <1>3, <1>4, <1>5, <1>6, <1>7, <1>8 DEF IInv

\* Dropping the store leaves the files as they are.
LEMMA CloseKeeps ==
  ASSUME IInv, ~RetryPoisoned, Close
  PROVE  IInv'
<1>1. TypeOK'
  BY Zenon DEF IInv, Close, TypeOK, Slots
<1>2. Steps'
  BY Zenon DEF IInv, Close, Steps, AppendSteps, InvSteps, SegSteps, GroupSteps
<1>3. Log'
  BY Zenon DEF IInv, Close, Log, N, TypeOK, Steps, Revs, IsCert, AppendSteps, OpenSteps,
      InvSteps, SegSteps, GroupSteps
<1>4. Certified'
  BY Zenon DEF IInv, Close, Certified
<1>5. Bases'
  BY Zenon DEF IInv, Close, Bases, Base, TypeOK, Synced, Fresh, Steps, AppendSteps,
      OpenSteps, InvSteps, SegSteps, GroupSteps
<1>6. Ordered'
  BY Zenon DEF IInv, Close, Ordered
<1>7. Current'
  BY Zenon DEF IInv, Close, Current, N, TypeOK, Steps, Synced, AfterTails, AppendSteps,
      OpenSteps, InvSteps, SegSteps, GroupSteps
<1>8. Fresh'
  BY Zenon DEF IInv, Close, Fresh, TypeOK, Synced, Bases, Base, AfterTails, Steps,
      AppendSteps, OpenSteps, InvSteps, SegSteps, GroupSteps
<1>9. Prepared'
  BY Zenon DEF IInv, Close, Prepared, TypeOK, Steps, Synced, AfterTails, Slots,
      AppendSteps, OpenSteps, InvSteps, SegSteps, GroupSteps
<1>10. Reopening'
  BY Zenon DEF IInv, Close, Reopening
<1>11. Attempted'
  BY Zenon DEF IInv, Close, Attempted, TypeOK, Steps, N, Attempts, AfterTails,
      AppendSteps, OpenSteps, InvSteps, SegSteps, GroupSteps
<1> QED BY Zenon, <1>1, <1>2, <1>3, <1>4, <1>5, <1>6, <1>7, <1>8, <1>9, <1>10, <1>11 DEF
    IInv

\* What a crash leaves still backs every certificate it leaves, and loses
\* none that was acknowledged.
LEMMA CrashKeeps ==
  ASSUME IInv, ~RetryPoisoned, Crash
  PROVE  IInv'
<1>1. TypeOK'
  BY Zenon, CrashFacts DEF IInv, TypeOK, Crash, Jobs
<1>2. Steps'
  BY Zenon DEF IInv, Crash, Steps, TypeOK, Jobs, NoJob, Attempts, AfterTails, AppendSteps,
      OpenSteps, InvSteps, SegSteps, GroupSteps
<1>3. Log'
  <2>1. \A r \in Revs : IsCert(certV'[r]) => certV'[r] = certV[r]
    BY Zenon, CrashFacts DEF IInv, Log, IsCert
  <2>2. N' = N /\ acked' = acked /\ doubt' = doubt
    BY Zenon DEF Crash, N
  <2>3. \A r \in 1..N : certV'[r] = certV[r]
    BY Zenon, CrashFacts, LogFacts DEF IInv, Log
  <2>4. \A r \in Revs : r > N + 1 => certV'[r] = Hole
    BY Zenon, CrashFacts DEF IInv, Log
  <2>5. certD' = certV'
    BY Zenon, CrashFacts
  <2>6. \A r \in 1..N' : /\ IsCert(certV'[r]) /\ certD'[r] = certV'[r]
                         /\ certV'[r].grp = acked'[r]
    BY Zenon, <2>2, <2>3, <2>5, LogFacts
  <2>7. \A r \in Revs : r = N + 1 /\ IsCert(certV'[r]) => doubt # 0 /\ certV'[r].grp = doubt
    BY Zenon, <2>1 DEF IInv, Log
  <2> QED BY Zenon, <2>2, <2>4, <2>5, <2>6, <2>7 DEF IInv, Log
<1>4. Certified'
  <2>1. \A r \in Revs : IsCert(certV'[r]) => certV'[r] = certV[r]
    BY Zenon, CrashFacts DEF IInv, Log, IsCert
  <2>2. \A r \in 1..N : certV'[r] = certV[r]
    BY Zenon, CrashFacts, LogFacts DEF IInv, Log
  <2>3. \A r \in Revs : IsCert(certV'[r]) =>
          certV'[r] = certV[r] /\ (r # 1 => certV'[r - 1] = certV[r - 1])
    <3> SUFFICES ASSUME NEW r \in Revs, IsCert(certV'[r]), r # 1
                 PROVE  certV'[r - 1] = certV[r - 1]
      BY Zenon, <2>1
    <3>1. r <= N + 1 /\ r \in Nat /\ 1 <= r /\ N \in Nat
      BY Zenon, <2>1, CertFacts, LogFacts
    <3>2. r - 1 \in 1..N
      BY SMTT(30), <3>1
    <3> QED BY Zenon, <2>2, <3>2
  <2>4. Solid(certV', hdrD, segD, invD, dirD)
    <3>1. Solid(certV, hdrD, segD, invD, dirD)
      BY Zenon DEF IInv, Certified
    <3> QED BY Zenon, <2>3, <3>1, SolidPrefix
  <2>5. \A r \in Revs : IsCert(certV'[r]) =>
          /\ hdrV'[certV'[r].seg] = hdrD[certV'[r].seg]
          /\ segV'[<<certV'[r].seg, certV'[r].pos>>]
               = segD[<<certV'[r].seg, certV'[r].pos>>]
          /\ certV'[r].inv # NoInv => invV'[certV'[r].inv] = invD[certV'[r].inv]
    <3> SUFFICES ASSUME NEW r \in Revs, IsCert(certV[r])
                 PROVE  /\ hdrV'[certV[r].seg] = hdrD[certV[r].seg]
                        /\ segV'[<<certV[r].seg, certV[r].pos>>]
                             = segD[<<certV[r].seg, certV[r].pos>>]
                        /\ certV[r].inv # NoInv =>
                             invV'[certV[r].inv] = invD[certV[r].inv]
      BY SMTT(30), <2>1
    <3>1. /\ certV[r].seg \in Segs /\ certV[r].inv \in Invs \cup {NoInv}
          /\ <<certV[r].seg, certV[r].pos>> \in Segs \X Slots
      BY Zenon, CertFacts
    <3>2. /\ hdrV[certV[r].seg] = hdrD[certV[r].seg]
          /\ segV[<<certV[r].seg, certV[r].pos>>]
               = segD[<<certV[r].seg, certV[r].pos>>]
          /\ certV[r].inv # NoInv => invV[certV[r].inv] = invD[certV[r].inv]
      BY Zenon, CertFacts
    <3>3. /\ \A x \in Segs : hdrD[x] = hdrV[x] => hdrV'[x] = hdrD[x]
          /\ \A x \in Segs \X Slots : segD[x] = segV[x] => segV'[x] = segD[x]
          /\ \A x \in Invs : invD[x] = invV[x] => invV'[x] = invD[x]
      BY Zenon, CrashFacts
    <3> QED BY Zenon, <3>1, <3>2, <3>3
  <2>6. Solid(certV', hdrV', segV', invV', dirV')
    <3>1. dirD \subseteq dirV'
      BY Zenon, CrashFacts
    <3> DEFINE log == certV'
    <3>2. Solid(log, hdrD, segD, invD, dirD)
      BY Zenon, <2>4
    <3>3. Agree(log, hdrD, segD, invD, hdrV', segV', invV')
      BY Zenon, <2>5 DEF Agree
    <3> HIDE DEF log
    <3>4. Solid(log, hdrV', segV', invV', dirV')
      BY SMTT(30), <3>1, <3>2, <3>3, SolidFrame
    <3> QED BY Zenon, <3>4 DEF log
  <2> QED BY Zenon, <2>6, CrashFacts DEF Certified
<1>5. Bases'
  <2>1. Seg0 \in dirD /\ hdrV[Seg0] = hdrD[Seg0] /\ hdrD[Seg0] = FirstHeader
    BY Zenon DEF IInv, Bases, Base
  <2> QED BY Zenon, <2>1, CrashFacts DEF Bases, Base
<1>6. Ordered'
  <2>1. \A r \in Revs : IsCert(certV'[r]) => certV'[r] = certV[r]
    BY Zenon, CrashFacts DEF IInv, Log, IsCert
  <2> QED BY Zenon, <2>1 DEF IInv, Ordered
<1>7. Current'
  BY Zenon DEF IInv, Crash, Current, N, TypeOK, Steps, Synced, AfterTails, AppendSteps,
      OpenSteps, InvSteps, SegSteps, GroupSteps
<1>8. Fresh'
  BY Zenon DEF IInv, Crash, Fresh, TypeOK, Synced, Bases, Base, AfterTails, Steps,
      AppendSteps, OpenSteps, InvSteps, SegSteps, GroupSteps
<1>9. Prepared'
  BY Zenon DEF IInv, Crash, Prepared, TypeOK, Steps, Synced, AfterTails, Slots,
      AppendSteps, OpenSteps, InvSteps, SegSteps, GroupSteps
<1>10. Reopening'
  BY Zenon DEF IInv, Crash, Reopening
<1>11. Attempted'
  BY Zenon DEF IInv, Crash, Attempted, TypeOK, Steps, N, Attempts, AfterTails,
      AppendSteps, OpenSteps, InvSteps, SegSteps, GroupSteps
<1> QED BY Zenon, <1>1, <1>2, <1>3, <1>4, <1>5, <1>6, <1>7, <1>8, <1>9, <1>10, <1>11 DEF
    IInv

\* A created database satisfies the invariant.
LEMMA InitIInv == Init => IInv
<1> SUFFICES ASSUME Init PROVE IInv
  BY Zenon
<1>1. N = 0 /\ acked \in Seq(Attempts)
  BY SMTT(30) DEF Init, N
<1>2. \A r \in Revs : certV[r] = Hole /\ certD[r] = Hole /\ ~IsCert(certV[r])
                     /\ ~IsCert(certD[r])
  BY Zenon DEF Init, IsCert
<1>3. TypeOK
  <2>1. /\ dirV \subseteq Segs \cup Invs /\ dirD \subseteq Segs \cup Invs
        /\ hdrV \in [Segs -> Headers \cup {Hole, Torn}]
        /\ hdrD \in [Segs -> Headers \cup {Hole, Torn}]
    BY Zenon, FirstIsHeader DEF Init
  <2>2. /\ segV \in [Segs \X Slots -> Attempts \cup {Hole, Torn}]
        /\ segD \in [Segs \X Slots -> Attempts \cup {Hole, Torn}]
    BY Zenon DEF Init
  <2>3. /\ invV \in [Invs -> {"whole", Hole, Torn}]
        /\ invD \in [Invs -> {"whole", Hole, Torn}]
        /\ certV \in [Revs -> Certs \cup {Hole, Torn}]
        /\ certD \in [Revs -> Certs \cup {Hole, Torn}]
    BY Zenon DEF Init
  <2>4. /\ seg \in Segs /\ off \in 0..SegCap /\ frontier \in 0..MaxRev
        /\ prev \in Attempts \cup {0} /\ cinv \subseteq Invs
        /\ job \in Jobs /\ nseg \in Segs \cup {NoSeg} /\ rtails \subseteq Segs
        /\ next \in 1..MaxAttempts + 1 /\ doubt \in Attempts \cup {0}
    BY SMTT(30) DEF Init, Jobs
  <2> QED BY Zenon, <1>1, <2>1, <2>2, <2>3, <2>4 DEF Init, TypeOK
<1>4. Steps
  BY Zenon DEF Init, Steps, AppendSteps, InvSteps, SegSteps, GroupSteps
<1>5. Log
  BY SMTT(30), <1>1, <1>2 DEF Log
<1>6. Certified /\ Ordered
  BY Zenon, <1>2 DEF Certified, Solid, Ordered
<1>7. Bases
  BY Zenon DEF Init, Bases, Base
<1>8. Current
  <2>1. SegBefore(certV, N + 1) = Seg0 /\ PosBefore(certV, N + 1) = 0
        /\ DigestBefore(certV, N + 1) = 0
    BY SMTT(30), <1>1 DEF SegBefore, PosBefore, DigestBefore
  <2>2. hdrV[Seg0] = FirstHeader /\ hdrD[Seg0] = FirstHeader
    BY Zenon DEF Init
  <2>3. \A r \in 1..N : FALSE
    BY SMTT(30), <1>1
  <2> QED BY Zenon, <1>1, <1>2, <2>1, <2>2, <2>3, FirstIsHeader DEF Init, Current
<1>9. Fresh /\ Prepared /\ Reopening
  BY Zenon DEF Init, Fresh, Prepared, Reopening, SegSteps, GroupSteps
<1>10. Attempted
  BY SMTT(30), <1>1 DEF Init, Attempted, AppendSteps
<1> QED BY Zenon, <1>3, <1>4, <1>5, <1>6, <1>7, <1>8, <1>9, <1>10 DEF IInv

\* Every step of a caller that does not append to a poisoned store keeps it.
LEMMA NextKeeps ==
  ASSUME ~RetryPoisoned, IInv, [Next]_vars
  PROVE  IInv'
<1>1. CASE AppendStep
  BY Zenon, <1>1, AppendGroupKeeps, SegCreateKeeps,
     InvReuseKeeps, InvRewriteKeeps, InvCreateKeeps, InvWriteKeeps, InvSyncKeeps,
         InvDirSyncKeeps, AdmitKeeps,
     SegHeaderKeeps, SegSyncKeeps, SegDirSyncKeeps, GrpWriteKeeps, GrpSyncKeeps,
         CertWriteKeeps, CertSyncKeeps
     DEF AppendStep
<1>2. CASE OpenStep
  BY Zenon, <1>2, TailTruncKeeps, OpenKeeps, FirstPassKeeps, CertTruncKeeps,
      CertResyncKeeps, TailSyncKeeps, ReplayKeeps
     DEF OpenStep
<1>3. CASE Close
  BY Zenon, <1>3, CloseKeeps
<1>4. CASE Fault
  BY Zenon, <1>4, AppendFailsKeeps, InvTornKeeps, SegTornKeeps, CertTornKeeps,
      OpenFailsKeeps, CrashKeeps DEF Fault
<1>5. CASE UNCHANGED vars
  <2>1. TypeOK' /\ Steps' /\ Fresh' /\ Prepared' /\ Reopening'
    <3>1. TypeOK'
      BY Zenon, <1>5 DEF vars, IInv, TypeOK
    <3>2. Steps'
      BY Zenon, <1>5 DEF vars, IInv, Steps
    <3>3. Fresh' /\ Prepared' /\ Reopening'
      BY Zenon, <1>5 DEF vars, IInv, Fresh, Prepared, Reopening
    <3> QED BY Zenon, <3>1, <3>2, <3>3
  <2>2. Log' /\ Certified' /\ Bases' /\ Ordered'
    BY Zenon, <1>5, Frame DEF vars
  <2>3. Current'
    BY Zenon, <1>5 DEF vars, IInv, Current, N, Certificate
  <2>4. Attempted'
    BY Zenon, <1>5 DEF vars, IInv, Attempted, N
  <2> QED BY Zenon, <2>1, <2>2, <2>3, <2>4 DEF IInv
<1> QED BY Zenon, <1>1, <1>2, <1>3, <1>4, <1>5 DEF Next

\* What the invariant gives: the properties the runs of Journal check.
LEMMA IInvImplies ==
  ASSUME IInv
  PROVE  TypeOK /\ CertifiedIsDurable /\ AckedIsDurable /\ RecoveryAccepts
<1>1. \A r \in Revs : IsCert(certV[r]) => Backed(certV, r)
  BY Zenon, CertFacts DEF IInv, Certified, Solid, Backed
<1>2. \A r \in Revs : IsCert(certD[r]) => certV[r] = certD[r]
  BY Zenon DEF IInv, Log
<1>3. CertifiedIsDurable
  BY Zenon, <1>1, <1>2 DEF CertifiedIsDurable, Backed
<1>4. \A r \in 1..N : r \in Revs /\ IsCert(certV[r]) /\ certD[r] = certV[r]
                     /\ certV[r].grp = acked[r]
  BY Zenon, LogFacts DEF IInv, Log
<1>5. AckedIsDurable
  BY Zenon, <1>1, <1>4 DEF AckedIsDurable, Backed, N
<1> QED BY Zenon, <1>3, <1>5 DEF IInv, Steps, RecoveryAccepts

\* IInv holds in every reachable state of a journal whose caller does not
\* append to a poisoned store.
THEOREM Invariance ==
  ASSUME ~RetryPoisoned
  PROVE  Spec => []IInv
<1>1. Init => IInv
  BY Zenon, InitIInv
<1>2. IInv /\ [Next]_vars => IInv'
  BY Zenon, NextKeeps
<1> QED BY <1>1, <1>2, PTL DEF Spec

\* The variables of the journal keep their types: offsets, revisions and
\* states of files stay in range for all bounds.
THEOREM TypeCorrect ==
  ASSUME ~RetryPoisoned
  PROVE  Spec => []TypeOK
<1>1. IInv => TypeOK
  BY Zenon, IInvImplies
<1> QED BY <1>1, Invariance, PTL

\* The write order of append_group_internal: a complete certificate, durable
\* or only visible, names a durable group, segment and inventory.
THEOREM CertificatesAreBacked ==
  ASSUME ~RetryPoisoned
  PROVE  Spec => []CertifiedIsDurable
<1>1. IInv => CertifiedIsDurable
  BY Zenon, IInvImplies
<1> QED BY <1>1, Invariance, PTL

\* A commit append_group acknowledged is never lost or changed, through any
\* sequence of failures, crashes and reopenings.
THEOREM CommitsAreDurable ==
  ASSUME ~RetryPoisoned
  PROVE  Spec => []AckedIsDurable
<1>1. IInv => AckedIsDurable
  BY Zenon, IInvImplies
<1> QED BY <1>1, Invariance, PTL

\* open never reports IntegrityFailure for what the journal, its failed
\* calls or a crash left behind.
THEOREM RecoveryNeverRejects ==
  ASSUME ~RetryPoisoned
  PROVE  Spec => []RecoveryAccepts
<1>1. IInv => RecoveryAccepts
  BY Zenon, IInvImplies
<1> QED BY <1>1, Invariance, PTL

-----------------------------------------------------------------------------
(***************************************************************************)
(* Refinement: the journal implements CommitLog.  An append call proposes, *)
(* admission starts, the synchronised certificate acknowledges, and the    *)
(* second pass of a reopening resolves what was open; every other step     *)
(* stutters.                                                               *)
(***************************************************************************)
\* A call of append_group proposes a fresh attempt.
LEMMA AppendGroupProposes ==
  ASSUME IInv, NEW i \in Invs \cup {NoInv}, AppendGroup(i)
  PROVE  CL!Propose
<1>1. next \in 1..MaxAttempts /\ next' = next + 1 /\ acked' = acked /\ doubt' = doubt
  BY Zenon DEF AppendGroup, Attempts
<1>2. 1..(next' - 1) = (1..(next - 1)) \cup {next} /\ next \notin 1..(next - 1)
  BY SMTT(30), <1>1
<1> QED BY Zenon, <1>1, <1>2 DEF CL!Propose

\* Admission, where it does not refuse, opens the outcome.
LEMMA AdmitStarts ==
  ASSUME IInv, Admit
  PROVE  CL!Start \/ UNCHANGED CL!vars
<1>1. CASE UNCHANGED doubt
  BY Zenon, <1>1 DEF Admit, CL!vars
<1>2. CASE doubt' = job.grp
  <2>1. doubt = 0 /\ job.grp \in Attempts
    BY Zenon DEF IInv, Steps, Admit, AppendSteps
  <2>2. job.grp < next /\ \A r \in 1..N : acked[r] # job.grp
    BY Zenon DEF IInv, Attempted, Admit, AppendSteps
  <2>3. job.grp \in 1..(next - 1)
    BY SMTT(30), <2>1, <2>2, Ranges, JournalAssumption DEF Attempts
  <2>4. acked' = acked /\ next' = next
    BY Zenon DEF Admit
  <2> QED BY Zenon, <1>2, <2>1, <2>2, <2>3, <2>4 DEF CL!Start, N
<1> QED BY Zenon, <1>1, <1>2 DEF Admit

\* The synchronised certificate acknowledges the open attempt.
LEMMA CertSyncAcknowledges ==
  ASSUME IInv, CertSync
  PROVE  CL!Acknowledge
<1>1. doubt = job.grp /\ job.grp \in Attempts
  BY Zenon DEF IInv, Steps, CertSync, AppendSteps, GroupSteps
<1>2. doubt # 0
  BY SMTT(30), <1>1 DEF Attempts
<1> QED BY Zenon, <1>1, <1>2 DEF CertSync, CL!Acknowledge

\* The second pass of a reopening resolves the open attempt, if there is
\* one, as committed at the next revision or as not committed.
LEMMA ReplayResolves ==
  ASSUME IInv, Replay
  PROVE  CL!Resolve \/ UNCHANGED CL!vars
<1> DEFINE n == Count(certV)
<1>1. /\ n \in 0..MaxRev /\ (n = N \/ n = N + 1)
      /\ \A r \in 1..n : r \in Revs /\ IsCert(certV[r]) /\ acked'[r] = certV[r].grp
      /\ acked' \in Seq(Attempts) /\ N' = n
  BY Zenon, ReplayFacts
<1>2. doubt' = 0 /\ next' = next
  BY Zenon DEF Replay
<1> HIDE DEF n
<1>3. acked \in Seq(Attempts) /\ doubt \in Attempts \cup {0} /\ N \in Nat
  BY Zenon, LogFacts DEF IInv, TypeOK
<1>4. \A r \in 1..N : r \in 1..n => acked'[r] = acked[r]
  BY Zenon, <1>1, LogFacts
<1>5. CASE n = N
  <2>1. acked' = acked
    BY SMTT(30), <1>1, <1>3, <1>4, <1>5 DEF N
  <2>2. CASE doubt = 0
    BY Zenon, <1>2, <2>1, <2>2 DEF CL!vars
  <2>3. CASE doubt # 0
    BY Zenon, <1>2, <2>1, <2>3 DEF CL!Resolve
  <2> QED BY Zenon, <2>2, <2>3
<1>6. CASE n = N + 1
  <2>1. N + 1 \in 1..n /\ \A r \in 1..N : r \in 1..n
    BY SMTT(30), <1>3, <1>6
  <2>2. doubt # 0 /\ acked'[N + 1] = doubt
    BY Zenon, <1>1, <2>1 DEF IInv, Log
  <2>3. Len(Append(acked, doubt)) = N + 1 /\ Append(acked, doubt) \in Seq(Attempts)
        /\ Append(acked, doubt)[N + 1] = doubt
        /\ \A r \in 1..N : Append(acked, doubt)[r] = acked[r]
    BY SMTT(30), <1>3, <2>2 DEF N
  <2>4. \A r \in 1..(N + 1) : r \in 1..N \/ r = N + 1
    BY SMTT(30), <1>3
  <2>5. \A r \in 1..(N + 1) : acked'[r] = Append(acked, doubt)[r]
    BY Zenon, <1>4, <2>1, <2>2, <2>3, <2>4
  <2>6. acked' = Append(acked, doubt)
    BY SMTT(30), <1>1, <1>6, <2>3, <2>5 DEF N
  <2> QED BY Zenon, <1>2, <2>2, <2>6 DEF CL!Resolve
<1> QED BY Zenon, <1>1, <1>5, <1>6

\* Every other step leaves the abstract log alone.
LEMMA OthersStutter ==
  ASSUME \/ \E s \in Segs : SegCreate(s) \/ TailTrunc(s)
         \/ InvReuse \/ InvRewrite \/ InvCreate \/ InvWrite \/ InvSync \/ InvDirSync
         \/ SegHeader \/ SegSync \/ SegDirSync \/ GrpWrite \/ GrpSync \/ CertWrite
         \/ Open \/ FirstPass \/ CertTrunc \/ CertResync \/ TailSync
         \/ Close \/ Fault \/ UNCHANGED vars
  PROVE  UNCHANGED CL!vars
<1>1. UNCHANGED <<acked, doubt, next>>
  BY Zenon DEF InvReuse, InvRewrite, InvCreate, InvWrite, InvSync, InvDirSync, SegCreate,
         SegHeader, SegSync, SegDirSync, GrpWrite, GrpSync, CertWrite, Open,
         FirstPass, CertTrunc, CertResync, TailTrunc, TailSync, Close, Fault,
         AppendFails, InvTorn, SegTorn, CertTorn, OpenFails, Crash, vars
<1> QED BY Zenon, <1>1 DEF CL!vars

\* The journal implements CommitLog: each attempt commits at most once, in
\* order, and its outcome is closed by acknowledgement or by a reopening.
THEOREM Refinement ==
  ASSUME ~RetryPoisoned
  PROVE  Spec => ImplementsCommitLog
<1>1. Init => CL!Init
  BY SMTT(30) DEF Init, CL!Init
<1>2. IInv /\ [Next]_vars => [CL!Next]_CL!vars
  <2> SUFFICES ASSUME IInv, [Next]_vars
               PROVE  CL!Next \/ UNCHANGED CL!vars
    OBVIOUS
  <2>1. CASE \E i \in Invs \cup {NoInv} : AppendGroup(i)
    BY Zenon, <2>1, AppendGroupProposes DEF CL!Next
  <2>2. CASE Admit
    BY Zenon, <2>2, AdmitStarts DEF CL!Next
  <2>3. CASE CertSync
    BY Zenon, <2>3, CertSyncAcknowledges DEF CL!Next
  <2>4. CASE Replay
    BY Zenon, <2>4, ReplayResolves DEF CL!Next
  <2> QED BY Zenon, <2>1, <2>2, <2>3, <2>4, OthersStutter DEF Next, AppendStep, OpenStep
<1> QED BY <1>1, <1>2, Invariance, PTL DEF Spec, CL!Spec, ImplementsCommitLog

-----------------------------------------------------------------------------
(***************************************************************************)
(* What an idle store remembers.  Beyond IInv the induction needs where    *)
(* uncertified groups can lie: past the end of the current segment only    *)
(* while the append that wrote them runs, and during a reopening only in   *)
(* the segments still on its list of tails.                                *)
(***************************************************************************)
Written   == {"grp_sync", "cert_write", "cert_sync"}
Rollover  == {"seg_header", "seg_sync", "seg_dirsync"}
TailSteps == {"cert_trunc", "cert_resync", "tail_trunc", "tail_sync", "replay"}

\* The store's segment ends at off, and cinv holds nothing but inventories
\* of acknowledged certificates.
Ends ==
  pc \in AppendSteps \/ (pc = "ready" /\ ~poisoned) =>
    /\ \A i \in cinv : \E r \in 1..N : certV[r].inv = i
    /\ \A p \in Slots : p > off =>
         segV[<<seg, p>>] = Hole \/ (p = off + 1 /\ pc \in Written)

\* The segment a rollover prepares is empty.
Blank == pc \in Rollover => \A p \in Slots : segV[<<nseg, p>>] = Hole

\* A reopening knows every tail it has not cut.
Tails ==
  /\ pc \in TailSteps =>
       \A s \in ChainSegs(certV) : HasTail(certV, segV, s) => s \in rtails
  /\ pc = "tail_sync" => ~HasTail(certV, segV, nseg)
  /\ pc = "replay" => rtails = {}

Kept == Ends /\ Blank /\ Tails

\* A step of an append before the group is written, or one that only
\* synchronises: nothing Kept speaks of changes.
LEMMA QuietKeeps ==
  ASSUME IInv, Kept,
         UNCHANGED <<segV, seg, off, cinv, acked, certV, nseg>>,
         pc \in AppendSteps \/ (pc = "ready" /\ ~poisoned),
         pc' \in AppendSteps \cup {"ready"},
         pc \in Written => pc' \in Written,
         pc' \in Rollover => pc \in Rollover
  PROVE  Kept'
<1>1. N' = N
  BY Zenon DEF N
<1>2. Ends'
  BY Zenon, <1>1 DEF Kept, Ends
<1>3. Blank'
  BY Zenon DEF Kept, Blank
<1>4. pc' \notin TailSteps
  BY Zenon DEF AppendSteps, TailSteps
<1>5. Tails'
  BY Zenon, <1>4 DEF Tails, TailSteps
<1> QED BY Zenon, <1>2, <1>3, <1>5 DEF Kept

\* A step that leaves the store closed, scanning or poisoned.
LEMMA IdleKeeps ==
  ASSUME pc' \in {"closed", "scan", "damaged"} \/ (pc' = "ready" /\ poisoned')
  PROVE  Kept'
BY Zenon DEF Kept, Ends, Blank, Tails, AppendSteps, Rollover, TailSteps

LEMMA PreparationKeeps ==
  ASSUME IInv, Kept, ~RetryPoisoned,
         \/ \E i \in Invs \cup {NoInv} : AppendGroup(i)
         \/ InvReuse \/ InvRewrite \/ InvCreate \/ InvWrite \/ InvSync \/ InvDirSync
         \/ Admit \/ SegHeader \/ SegSync \/ GrpSync \/ InvTorn
  PROVE  Kept'
<1>1. /\ UNCHANGED <<segV, seg, off, cinv, acked, certV, nseg>>
  BY Zenon DEF AppendGroup, InvReuse, InvRewrite, InvCreate, InvWrite, InvSync,
       InvDirSync, Admit, SegHeader, SegSync, GrpSync, InvTorn
<1>2. /\ pc \in AppendSteps \/ (pc = "ready" /\ ~poisoned)
      /\ pc' \in AppendSteps \cup {"ready"}
      /\ pc' \in Rollover => pc \in Rollover
  BY Zenon DEF AppendGroup, InvReuse, InvRewrite, InvCreate, InvWrite, InvSync,
       InvDirSync, Admit, SegHeader, SegSync, GrpSync, InvTorn, AppendSteps, Rollover
<1>3. pc \in Written => pc' \in Written
  BY Zenon DEF AppendGroup, InvReuse, InvRewrite, InvCreate, InvWrite, InvSync,
       InvDirSync, Admit, SegHeader, SegSync, GrpSync, InvTorn, Written
<1> QED BY Zenon, <1>1, <1>2, <1>3, QuietKeeps

LEMMA SegCreateKept ==
  ASSUME IInv, Kept, NEW s \in Segs, SegCreate(s)
  PROVE  Kept'
<1>1. seg # s /\ seg \in Segs
  BY Zenon DEF IInv, TypeOK, Current, SegCreate, AppendSteps
<1>2. \A p \in Slots : segV'[<<s, p>>] = Hole /\ segV'[<<seg, p>>] = segV[<<seg, p>>]
  BY SMTT(30), <1>1 DEF SegCreate
<1>3. /\ UNCHANGED <<seg, off, cinv, acked, certV>> /\ nseg' = s
      /\ pc = "seg_create" /\ pc' = "seg_header"
  BY Zenon DEF SegCreate
<1>4. Ends'
  BY Zenon, <1>2, <1>3 DEF Kept, Ends, N, AppendSteps, Written
<1>5. Blank' /\ Tails'
  BY Zenon, <1>2, <1>3 DEF Blank, Tails, TailSteps
<1> QED BY Zenon, <1>4, <1>5 DEF Kept

LEMMA SegDirSyncKept ==
  ASSUME IInv, Kept, SegDirSync
  PROVE  Kept'
<1>1. /\ UNCHANGED <<segV, cinv, acked, certV>> /\ seg' = nseg
      /\ pc = "seg_dirsync" /\ pc' = "grp_write"
  BY Zenon DEF SegDirSync
<1>2. Ends'
  BY Zenon, <1>1 DEF Kept, Ends, Blank, N, AppendSteps, Rollover
<1>3. Blank' /\ Tails'
  BY Zenon, <1>1 DEF Blank, Tails, TailSteps, Rollover
<1> QED BY Zenon, <1>2, <1>3 DEF Kept

\* The group lies past the end of the segment until it is acknowledged.
LEMMA GrpWriteKept ==
  ASSUME IInv, Kept, GrpWrite
  PROVE  Kept'
<1>1. /\ UNCHANGED <<seg, off, cinv, acked, certV>>
      /\ pc = "grp_write" /\ pc' = "grp_sync"
  BY Zenon DEF GrpWrite
<1>2. \A p \in Slots : p # off + 1 => segV'[<<seg, p>>] = segV[<<seg, p>>]
  <2>1. segV' = [segV EXCEPT ![<<seg, off + 1>>] = job.grp]
    BY Zenon DEF GrpWrite
  <2> QED BY SMTT(30), <2>1, Ranges
<1>3. Ends'
  BY Zenon, <1>1, <1>2 DEF Kept, Ends, N, AppendSteps, Written
<1>4. Blank' /\ Tails'
  BY Zenon, <1>1 DEF Blank, Tails, TailSteps, Rollover
<1> QED BY Zenon, <1>3, <1>4 DEF Kept

LEMMA CertWriteKept ==
  ASSUME IInv, Kept, CertWrite
  PROVE  Kept'
<1>1. /\ UNCHANGED <<segV, seg, off, cinv, acked>>
      /\ pc = "cert_write" /\ pc' = "cert_sync"
      /\ certV' = [certV EXCEPT ![frontier + 1] = Certificate]
  BY Zenon DEF CertWrite
<1>2. frontier = N /\ certV \in [Revs -> Certs \cup {Hole, Torn}]
  BY Zenon, <1>1, NewCertificate DEF GroupSteps, IInv, TypeOK
<1>3. \A r \in 1..N : certV'[r] = certV[r]
  BY Zenon, <1>1, <1>2, LogFacts
<1>4. Ends'
  BY Zenon, <1>1, <1>3 DEF Kept, Ends, N, AppendSteps, Written
<1>5. Blank' /\ Tails'
  BY Zenon, <1>1 DEF Blank, Tails, TailSteps, Rollover
<1> QED BY Zenon, <1>4, <1>5 DEF Kept

\* The acknowledgement moves the end past the group and adds its inventory.
LEMMA CertSyncKept ==
  ASSUME IInv, Kept, CertSync
  PROVE  Kept'
<1>1. /\ UNCHANGED <<segV, seg, certV>> /\ off' = off + 1
      /\ cinv' = IF job.inv = NoInv THEN cinv ELSE cinv \cup {job.inv}
      /\ acked' = Append(acked, job.grp)
      /\ pc = "cert_sync" /\ pc' = "ready"
  BY Zenon DEF CertSync
<1>2. N \in Nat /\ N' = N + 1 /\ off \in Nat
  BY SMTT(30), <1>1, Ranges DEF N
<1>3. /\ \A r \in 1..N : r \in 1..N'
      /\ N + 1 \in 1..N'
      /\ \A p \in Slots : p > off' => p > off /\ p # off + 1
  BY SMTT(30), <1>1, <1>2 DEF Slots
<1>4. certV[N + 1] = Certificate
  BY Zenon, <1>1, NewCertificate DEF IInv, Current, AppendSteps, GroupSteps
<1>5. certV[N + 1].inv = job.inv
  BY SMTT(30), <1>4 DEF Certificate
<1>6. \A i \in cinv' : i \in cinv \/ i = job.inv
  BY Zenon, <1>1
<1>7. \A i \in cinv' : \E r \in 1..N' : certV'[r].inv = i
  BY Zenon, <1>1, <1>3, <1>5, <1>6 DEF Kept, Ends, AppendSteps
<1>8. Ends'
  BY Zenon, <1>1, <1>3, <1>7 DEF Kept, Ends, AppendSteps
<1>9. Blank' /\ Tails'
  BY Zenon, <1>1 DEF Blank, Tails, TailSteps, Rollover
<1> QED BY Zenon, <1>8, <1>9 DEF Kept

\* An append that fails before its outcome is open leaves the store as it was.
LEMMA AppendFailsKept ==
  ASSUME IInv, Kept, AppendFails
  PROVE  Kept'
<1>1. UNCHANGED <<segV, seg, off, cinv, acked, certV, poisoned>> /\ pc' = "ready"
      /\ pc \in AppendSteps
  BY Zenon DEF AppendFails
<1>2. CASE poisoned
  BY Zenon, <1>1, <1>2, IdleKeeps
<1>3. CASE ~poisoned
  <2>1. pc \notin Written
    BY Zenon, <1>3 DEF IInv, Steps, GroupSteps, Written
  <2>2. Ends'
    BY Zenon, <1>1, <2>1 DEF Kept, Ends, N
  <2>3. Blank' /\ Tails'
    BY Zenon, <1>1 DEF Blank, Tails, TailSteps, Rollover
  <2> QED BY Zenon, <2>2, <2>3 DEF Kept
<1> QED BY Zenon, <1>2, <1>3

LEMMA WriteTornKept ==
  ASSUME IInv, SegTorn \/ CertTorn
  PROVE  Kept'
<1>1. pc \in SegSteps \cup GroupSteps /\ poisoned' = poisoned /\ pc' = "ready"
  BY Zenon DEF SegTorn, CertTorn, SegSteps, GroupSteps
<1>2. poisoned
  BY Zenon, <1>1 DEF IInv, Steps
<1> QED BY Zenon, <1>1, <1>2, IdleKeeps

-----------------------------------------------------------------------------
\* The first pass lists every tail.
LEMMA FirstPassKept ==
  ASSUME IInv, FirstPass
  PROVE  Kept'
<1>1. /\ pc' \in {"cert_trunc", "cert_resync"} /\ UNCHANGED <<segV, certV>>
      /\ rtails' = {s \in ChainSegs(certV) : HasTail(certV, segV, s)}
  BY Zenon, ScanAccepts DEF FirstPass
<1>2. Ends' /\ Blank'
  BY Zenon, <1>1 DEF Ends, Blank, AppendSteps, Rollover
<1>3. Tails'
  BY Zenon, <1>1 DEF Tails
<1> QED BY Zenon, <1>2, <1>3 DEF Kept

\* Truncating the log keeps its complete certificates, hence the tails.
LEMMA CertTruncKept ==
  ASSUME IInv, ~RetryPoisoned, Kept, CertTrunc
  PROVE  Kept'
<1>1. \A r \in Revs : certV'[r] = IF r \in Complete(certV) THEN certV[r] ELSE Hole
  BY SMTT(30) DEF CertTrunc
<1>2. \A r \in Revs : r \in 1..r /\ \A q \in 1..r : q \in Revs /\ \A k \in 1..q : k \in 1..r
  BY SMTT(30) DEF Revs
<1>3. \A r \in Revs : IsCert(certV'[r]) <=> r \in Complete(certV)
  BY Zenon, <1>1, <1>2, LogFacts DEF Complete
<1>4. /\ Complete(certV') = Complete(certV)
      /\ \A r \in Complete(certV) : certV'[r] = certV[r]
  <2>1. \A r \in Complete(certV) : r \in Revs /\ \A q \in 1..r : q \in Complete(certV)
    BY Zenon, <1>2 DEF Complete
  <2>2. \A r \in Complete(certV) : r \in Complete(certV')
    BY Zenon, <1>2, <1>3, <2>1 DEF Complete
  <2>3. \A r \in Complete(certV') : r \in Complete(certV)
    BY Zenon, <1>2, <1>3 DEF Complete
  <2> QED BY Zenon, <1>1, <2>1, <2>2, <2>3
<1>5. ChainSegs(certV') = ChainSegs(certV)
  BY Zenon, <1>4 DEF ChainSegs
<1>6. \A s, p : CommittedSlot(certV', s, p) <=> CommittedSlot(certV, s, p)
  BY Zenon, <1>4 DEF CommittedSlot
<1>7. pc = "cert_trunc" /\ pc' = "cert_resync" /\ UNCHANGED <<segV, rtails>>
  BY Zenon DEF CertTrunc
<1>8. \A s : HasTail(certV', segV', s) <=> HasTail(certV, segV, s)
  BY Zenon, <1>6, <1>7 DEF HasTail
<1>9. Tails'
  BY Zenon, <1>5, <1>7, <1>8 DEF Kept, Tails, TailSteps
<1>10. Ends' /\ Blank'
  BY Zenon, <1>7 DEF Ends, Blank, AppendSteps, Rollover
<1> QED BY Zenon, <1>9, <1>10 DEF Kept

LEMMA CertResyncKept ==
  ASSUME IInv, Kept, CertResync
  PROVE  Kept'
<1>1. /\ pc = "cert_resync" /\ UNCHANGED <<segV, certV, rtails>>
      /\ pc' = IF rtails = {} THEN "replay" ELSE "tail_trunc"
  BY Zenon DEF CertResync, AfterTails
<1>2. Ends' /\ Blank'
  BY Zenon, <1>1 DEF Ends, Blank, AppendSteps, Rollover
<1>3. Tails'
  BY Zenon, <1>1 DEF Kept, Tails, TailSteps
<1> QED BY Zenon, <1>2, <1>3 DEF Kept

LEMMA TailTruncKept ==
  ASSUME IInv, Kept, NEW s \in Segs, TailTrunc(s)
  PROVE  Kept'
<1>1. /\ pc = "tail_trunc" /\ pc' = "tail_sync" /\ UNCHANGED <<certV, rtails>>
      /\ nseg' = s /\ s \in rtails
  BY Zenon DEF TailTrunc
<1>2. \A p \in Slots : ~CommittedSlot(certV, s, p) => segV'[<<s, p>>] = Hole
  <2>1. segV' = [c \in Segs \X Slots |->
                   IF c[1] = s /\ ~CommittedSlot(certV, s, c[2]) THEN Hole ELSE segV[c]]
    BY Zenon DEF TailTrunc
  <2> QED BY SMTT(30), <2>1
<1>3. ~HasTail(certV, segV', s)
  BY Zenon, <1>2 DEF HasTail
<1>4. \A t \in Segs, p \in Slots : t # s => segV'[<<t, p>>] = segV[<<t, p>>]
  <2>1. segV' = [c \in Segs \X Slots |->
                   IF c[1] = s /\ ~CommittedSlot(certV, s, c[2]) THEN Hole ELSE segV[c]]
    BY Zenon DEF TailTrunc
  <2> QED BY SMTT(30), <2>1
<1>5. \A t \in ChainSegs(certV) : t \in Segs
  BY Zenon, CompleteIsVisible, CertFacts DEF ChainSegs
<1>6. \A t \in ChainSegs(certV) : HasTail(certV, segV', t) => t \in rtails
  BY Zenon, <1>1, <1>3, <1>4, <1>5 DEF HasTail, Kept, Tails, TailSteps
<1>7. Tails'
  BY Zenon, <1>1, <1>3, <1>6 DEF Tails
<1>8. Ends' /\ Blank'
  BY Zenon, <1>1 DEF Ends, Blank, AppendSteps, Rollover
<1> QED BY Zenon, <1>7, <1>8 DEF Kept

LEMMA TailSyncKept ==
  ASSUME IInv, Kept, TailSync
  PROVE  Kept'
<1>1. /\ pc = "tail_sync" /\ UNCHANGED <<segV, certV>> /\ rtails' = rtails \ {nseg}
      /\ pc' = IF rtails' = {} THEN "replay" ELSE "tail_trunc"
  BY Zenon DEF TailSync, AfterTails
<1>2. Ends' /\ Blank'
  BY Zenon, <1>1 DEF Ends, Blank, AppendSteps, Rollover
<1>3. \A s \in ChainSegs(certV) : HasTail(certV, segV, s) => s \in rtails /\ s # nseg
  BY Zenon, <1>1 DEF Kept, Tails, TailSteps
<1>4. Tails'
  BY Zenon, <1>1, <1>3 DEF Tails
<1> QED BY Zenon, <1>2, <1>4 DEF Kept

\* The second pass starts a store whose segment ends where the log says.
LEMMA ReplayKept ==
  ASSUME IInv, ~RetryPoisoned, Kept, Replay
  PROVE  Kept'
<1>1. IInv'
  BY Zenon, ReplayKeeps
<1>2. /\ pc' = "ready" /\ ~poisoned' /\ UNCHANGED <<segV, certV>>
      /\ cinv' = {certV[r].inv : r \in 1..Count(certV)} \ {NoInv}
      /\ pc = "replay"
  BY Zenon DEF Replay
<1>3. N' = Count(certV) /\ N' \in Nat
  <2>1. N' = Count(certV) /\ N' \in 0..MaxRev
    BY Zenon, ReplayFacts
  <2> QED BY SMTT(30), <2>1
<1>4. \A i \in cinv' : \E r \in 1..N' : certV'[r].inv = i
  BY Zenon, <1>2, <1>3
<1>5. seg' \in ChainSegs(certV)
  <2>1. CASE N' = 0
    BY SMTT(30), <1>3, <2>1 DEF Replay, SegBefore, ChainSegs
  <2>2. CASE N' # 0
    <3>1. N' \in 1..N' /\ N' + 1 # 1 /\ (N' + 1) - 1 = N'
      BY SMTT(30), <1>3, <2>2
    <3>2. seg' = certV[N'].seg
      BY Zenon, <1>3, <3>1 DEF Replay, SegBefore
    <3>3. N' \in Complete(certV)
      BY Zenon, <1>3, <3>1, ReplayFacts, CompleteIsVisible
    <3> QED BY Zenon, <3>2, <3>3 DEF ChainSegs
  <2> QED BY Zenon, <2>1, <2>2
<1>6. ~HasTail(certV, segV, seg')
  BY Zenon, <1>2, <1>5 DEF Kept, Tails, TailSteps
<1>7. \A r \in Complete(certV) : certV[r].seg = seg' => certV[r].pos <= off'
                                                       /\ certV[r].pos \in Slots
  <2>1. \A r \in 1..N' : certV[r].seg = seg' => certV[r].pos <= off'
    BY Zenon, <1>1, <1>2 DEF IInv, Current
  <2>2. \A r \in Complete(certV) : r \in 1..N' /\ certV[r].pos \in Slots
    <3>1. \A r \in Complete(certV) : r \in Revs /\ IsCert(certV[r])
      BY Zenon, CompleteIsVisible
    <3>2. \A r \in Complete(certV) : r <= N' /\ certV[r].pos \in Slots
      BY Zenon, <1>3, <3>1, ReplayFacts, CertFacts
    <3> QED BY SMTT(30), <1>3, <3>1, <3>2 DEF Revs
  <2> QED BY Zenon, <2>1, <2>2
<1>8. off' \in Nat
  <2>1. off' \in 0..SegCap
    BY Zenon, <1>1 DEF IInv, TypeOK
  <2> QED BY SMTT(30), <2>1
<1>9. \A p \in Slots : p > off' => ~CommittedSlot(certV, seg', p)
  BY SMTT(30), <1>7, <1>8 DEF CommittedSlot, Slots
<1>10. \A p \in Slots : p > off' => segV[<<seg', p>>] = Hole
  BY Zenon, <1>6, <1>9 DEF HasTail
<1>11. Ends'
  BY Zenon, <1>2, <1>4, <1>10 DEF Ends
<1>12. Blank' /\ Tails'
  BY Zenon, <1>2 DEF Blank, Tails, TailSteps, Rollover
<1> QED BY Zenon, <1>11, <1>12 DEF Kept

LEMMA NextKept ==
  ASSUME ~RetryPoisoned, IInv, Kept, [Next]_vars
  PROVE  Kept'
<1>1. CASE AppendStep
  BY Zenon, <1>1, PreparationKeeps, SegCreateKept, SegDirSyncKept, GrpWriteKept,
     CertWriteKept, CertSyncKept DEF AppendStep
<1>2. CASE Open \/ Close \/ OpenFails \/ Crash
  BY Zenon, <1>2, IdleKeeps DEF Open, Close, OpenFails, Crash
<1>3. CASE OpenStep
  BY Zenon, <1>2, <1>3, FirstPassKept, CertTruncKept, CertResyncKept, TailTruncKept,
     TailSyncKept, ReplayKept DEF OpenStep
<1>4. CASE Fault
  BY Zenon, <1>2, <1>4, PreparationKeeps, AppendFailsKept, WriteTornKept DEF Fault
<1>5. CASE UNCHANGED vars
  BY Zenon, <1>5 DEF vars, Kept, Ends, Blank, Tails, N
<1> QED BY Zenon, <1>1, <1>2, <1>3, <1>4, <1>5 DEF Next

\* An idle, unpoisoned store whose memory follows the log has no tail.
LEMMA KeptMatches ==
  ASSUME IInv, Kept
  PROVE  MemoryMatchesDisk
<1> SUFFICES ASSUME pc = "ready", ~poisoned
             PROVE  /\ frontier = Count(certD) /\ certD = certV
                    /\ frontier = Len(acked)
                    /\ seg = SegBefore(certD, frontier + 1)
                    /\ off = PosBefore(certD, frontier + 1)
                    /\ prev = DigestBefore(certD, frontier + 1)
                    /\ cinv = {certD[r].inv : r \in 1..frontier} \ {NoInv}
                    /\ ~HasTail(certD, segV, seg)
  BY Zenon DEF MemoryMatchesDisk
<1>1. /\ frontier = N /\ prev = DigestBefore(certV, N + 1)
      /\ seg = SegBefore(certV, N + 1) /\ off = PosBefore(certV, N + 1)
      /\ \A r \in 1..N : certV[r].inv \in cinv \cup {NoInv}
      /\ \A r \in Revs : r = N + 1 => certD[r] = Hole /\ certV[r] = Hole
  BY Zenon DEF IInv, Current, GroupSteps
<1>2. /\ N \in Nat /\ \A r \in Revs : r \in 1..N \/ r = N + 1 \/ r > N + 1
  BY SMTT(30), LogFacts DEF Revs
<1>3. \A r \in Revs : certD[r] = certV[r]
  BY Zenon, <1>1, <1>2 DEF IInv, Log
<1>4. certD = certV
  <2>1. /\ certV \in [Revs -> Certs \cup {Hole, Torn}]
        /\ certD \in [Revs -> Certs \cup {Hole, Torn}]
    BY Zenon DEF IInv, TypeOK
  <2> QED BY SMTT(30), <1>3, <2>1
<1>5. Count(certV) = N
  <2>1. N + 1 \in Revs => ~(N + 1 <= Count(certV))
    BY Zenon, <1>1, CountIs DEF IsCert
  <2>2. Count(certV) \in 0..MaxRev /\ (Count(certV) = N \/ Count(certV) = N + 1)
    BY Zenon, CountIs
  <2> QED BY SMTT(30), <1>2, <2>1, <2>2 DEF Revs
<1>6. cinv = {certV[r].inv : r \in 1..N} \ {NoInv}
  <2>1. NoInv \notin cinv
    BY Zenon DEF IInv, TypeOK
  <2>2. \A i \in cinv : \E r \in 1..N : certV[r].inv = i
    BY Zenon DEF Kept, Ends
  <2>3. ASSUME NEW i \in cinv PROVE i \in {certV[r].inv : r \in 1..N} \ {NoInv}
    BY Zenon, <2>1, <2>2
  <2>4. ASSUME NEW i \in {certV[r].inv : r \in 1..N} \ {NoInv} PROVE i \in cinv
    <3>1. PICK r \in 1..N : certV[r].inv = i
      BY Zenon
    <3> QED BY Zenon, <1>1, <3>1
  <2> QED BY Zenon, <2>3, <2>4
<1>7. \A p \in Slots : p > off => segV[<<seg, p>>] = Hole
  BY Zenon DEF Kept, Ends, Written
<1>8. \A p \in Slots : p > off \/ CommittedSlot(certV, seg, p)
  <2>1. CASE N = 0
    BY SMTT(30), <1>1, <2>1 DEF PosBefore, Slots
  <2>2. CASE N # 0
    <3>1. N + 1 # 1 /\ (N + 1) - 1 = N /\ N \in 1..N
      BY SMTT(30), <1>2, <2>2
    <3>2. certV[N].seg = seg /\ certV[N].pos = off
      BY Zenon, <1>1, <3>1 DEF SegBefore, PosBefore
    <3>3. N \in Complete(certV)
      BY Zenon, <3>1, LogFacts, CompleteIsVisible
    <3>4. \A p \in Slots : p <= off => CommittedSlot(certV, seg, p)
      BY Zenon, <3>2, <3>3 DEF CommittedSlot
    <3>5. \A p \in Slots : p > off \/ p <= off
      BY SMTT(30), Ranges DEF Slots
    <3> QED BY Zenon, <3>4, <3>5
  <2> QED BY Zenon, <2>1, <2>2
<1>9. ~HasTail(certV, segV, seg)
  BY Zenon, <1>7, <1>8 DEF HasTail
<1> QED BY Zenon, <1>1, <1>4, <1>5, <1>6, <1>9 DEF N

\* The store that append_group and open leave idle remembers exactly what a
\* recovery would rebuild from the durable files, and leaves it no tail.
THEOREM MemoryFollowsDisk ==
  ASSUME ~RetryPoisoned
  PROVE  Spec => []MemoryMatchesDisk
<1>1. Init => Kept
  <2> SUFFICES ASSUME Init PROVE Kept
    OBVIOUS
  <2>1. /\ cinv = {} /\ pc = "ready" /\ seg \in Segs
        /\ segV = [c \in Segs \X Slots |-> Hole]
    BY Zenon DEF Init
  <2>2. \A p \in Slots : segV[<<seg, p>>] = Hole
    BY Zenon, <2>1
  <2> QED BY Zenon, <2>1, <2>2 DEF Kept, Ends, Blank, Tails, TailSteps, Rollover
<1>2. IInv /\ Kept /\ [Next]_vars => Kept'
  BY Zenon, NextKept
<1>3. IInv /\ Kept => MemoryMatchesDisk
  BY Zenon, KeptMatches
<1> QED BY <1>1, <1>2, <1>3, Invariance, PTL DEF Spec
=============================================================================
