----------------------------- MODULE Journal -----------------------------
(***************************************************************************)
(* The authenticated journal of crates/uste-storage/src/journal.rs: a      *)
(* chain of segment files that hold transaction groups, a certificate log  *)
(* that is the only commit authority, and blob-inventory files the         *)
(* certificates name.  One process owns the store; every file-system call  *)
(* is a step that can fail, leave a partial write, or be cut by a crash.   *)
(*                                                                         *)
(* Data are abstracted to identities.  An append attempt is a number; it   *)
(* is the content of the group the attempt writes, the digest of that      *)
(* group and (no two attempts write equal ciphertext) the digest of the    *)
(* certificate it writes; 0 is the all-zero digest before revision 1.      *)
(***************************************************************************)
EXTENDS Integers, Sequences, FileStore

CONSTANTS
  Segs,           \* the segment identities a run can draw
  Seg0,           \* the initial segment, named by the manifest
  Invs,           \* the blob-inventory digests that requests use
  NoInv,          \* EMPTY_BLOB_INVENTORY_DIGEST
  NoSeg,          \* no segment (the all-zero identity)
  MaxRev,         \* certificates that fit in CERTIFICATE_LOG_LIMIT
  SegCap,         \* groups that fit in JOURNAL_SEGMENT_LIMIT
  MaxAttempts,    \* bound: append calls in a behaviour
  RetryPoisoned   \* may the caller append to a store it knows is poisoned?

ASSUME JournalAssumption ==
  /\ Seg0 \in Segs /\ NoSeg \notin Segs /\ NoInv \notin Invs
  /\ Segs \cap Invs = {}
  /\ MaxRev \in Nat \ {0} /\ SegCap \in Nat \ {0} /\ MaxAttempts \in Nat
  /\ RetryPoisoned \in BOOLEAN

VARIABLES
  dirV, dirD,     \* entries of the database directory: segments, inventories
  hdrV, hdrD,     \* the header of each segment file
  segV, segD,     \* the groups of each segment file, one per slot
  invV, invD,     \* inventory files
  certV, certD,   \* CERTIFICATES, one slot per revision
  pc,             \* the step the owner is at
  poisoned,       \* JournalStore::poisoned
  seg, off,       \* current_segment_id, groups before current_segment_offset
  frontier, prev, \* frontier, previous_certificate_digest
  cinv,           \* committed_blob_inventories
  job,            \* the append in progress: its attempt and its inventory
  nseg,           \* the segment file a rollover or a recovery works on
  rtails,         \* segments whose uncommitted tail recovery still truncates
  next,           \* the next attempt
  acked,          \* history: the groups reported durable, in order
  doubt           \* history: the attempt whose outcome is open, or 0

dirs  == <<dirV, dirD>>
segs  == <<hdrV, hdrD, segV, segD>>
invs  == <<invV, invD>>
certs == <<certV, certD>>
disk  == <<dirV, dirD, hdrV, hdrD, segV, segD, invV, invD, certV, certD>>
mem   == <<seg, off, frontier, prev, cinv>>
hist  == <<acked, doubt>>
vars  == <<dirV, dirD, hdrV, hdrD, segV, segD, invV, invD, certV, certD, pc,
           poisoned, seg, off, frontier, prev, cinv, job, nseg, rtails, next,
           acked, doubt>>

Revs     == 1..MaxRev
Slots    == 1..SegCap
Attempts == 1..MaxAttempts
NoJob    == [grp |-> 0, inv |-> NoInv]
Jobs     == [grp : Attempts, inv : Invs \cup {NoInv}] \cup {NoJob}
Headers  == [prev : Segs \cup {NoSeg}, first : Revs]
Certs    == [rev : Revs, prev : Attempts \cup {0}, seg : Segs,
             pos : Slots, grp : Attempts, inv : Invs \cup {NoInv}]

ASSUME CellAssumption == Hole \notin Certs /\ Torn \notin Certs

FileSlots(s) == {s} \X Slots

AppendSteps == {"inv_open", "inv_write", "inv_sync", "inv_dirsync", "admit",
                "seg_create", "seg_header", "seg_sync", "seg_dirsync",
                "grp_write", "grp_sync", "cert_write", "cert_sync"}
OpenSteps == {"scan", "cert_trunc", "cert_resync", "tail_trunc", "tail_sync",
              "replay"}

TypeOK ==
  /\ dirV \subseteq Segs \cup Invs /\ dirD \subseteq Segs \cup Invs
  /\ hdrV \in [Segs -> Headers \cup {Hole, Torn}]
  /\ hdrD \in [Segs -> Headers \cup {Hole, Torn}]
  /\ segV \in [Segs \X Slots -> Attempts \cup {Hole, Torn}]
  /\ segD \in [Segs \X Slots -> Attempts \cup {Hole, Torn}]
  /\ invV \in [Invs -> {"whole", Hole, Torn}]
  /\ invD \in [Invs -> {"whole", Hole, Torn}]
  /\ certV \in [Revs -> Certs \cup {Hole, Torn}]
  /\ certD \in [Revs -> Certs \cup {Hole, Torn}]
  /\ pc \in AppendSteps \cup OpenSteps \cup {"closed", "ready", "damaged"}
  /\ poisoned \in BOOLEAN
  /\ seg \in Segs /\ off \in 0..SegCap /\ frontier \in 0..MaxRev
  /\ prev \in Attempts \cup {0} /\ cinv \subseteq Invs
  /\ job \in Jobs /\ nseg \in Segs \cup {NoSeg} /\ rtails \subseteq Segs
  /\ next \in 1..MaxAttempts + 1
  /\ acked \in Seq(Attempts) /\ doubt \in Attempts \cup {0}

(***************************************************************************)
(* create: the database directory is renamed into place complete and       *)
(* synchronised, with an empty certificate log and an empty first segment. *)
(***************************************************************************)
FirstHeader == [prev |-> NoSeg, first |-> 1]

Init ==
  LET headers == [s \in Segs |-> IF s = Seg0 THEN FirstHeader ELSE Hole]
      groups  == [c \in Segs \X Slots |-> Hole] IN
  /\ dirV = {Seg0} /\ dirD = {Seg0}
  /\ hdrV = headers /\ hdrD = headers
  /\ segV = groups /\ segD = groups
  /\ invV = [i \in Invs |-> Hole] /\ invD = [i \in Invs |-> Hole]
  /\ certV = [r \in Revs |-> Hole] /\ certD = [r \in Revs |-> Hole]
  /\ pc = "ready" /\ poisoned = FALSE
  /\ seg = Seg0 /\ off = 0 /\ frontier = 0 /\ prev = 0 /\ cinv = {}
  /\ job = NoJob /\ nseg = NoSeg /\ rtails = {}
  /\ next = 1 /\ acked = <<>> /\ doubt = 0

-----------------------------------------------------------------------------
(***************************************************************************)
(* append_group and append_group_with_inventory.  The poisoned flag is     *)
(* tested in append_group_internal only, after an inventory is published.  *)
(* RetryPoisoned says whether the caller makes such a call at all: the     *)
(* coordinator does not (it refuses every commit once an outcome is open). *)
(***************************************************************************)
AppendGroup(inv) ==
  /\ pc = "ready" /\ next \in Attempts
  /\ poisoned => RetryPoisoned
  /\ job' = [grp |-> next, inv |-> inv]
  /\ next' = next + 1
  /\ pc' = IF inv = NoInv THEN "admit" ELSE "inv_open"
  /\ UNCHANGED <<disk, mem, poisoned, nseg, rtails, hist>>

\* Mutant: an inventory left by a failed attempt is used as it is found.
InvReuseUnsynced ==
  /\ pc = "inv_open" /\ job.inv \in dirV /\ invV[job.inv] = "whole"
  /\ pc' = "admit"
  /\ UNCHANGED <<disk, mem, poisoned, job, nseg, rtails, next, hist>>

(***************************************************************************)
(* publish_blob_inventory.  An existing file that loads is synchronised    *)
(* again; one that does not load (it is torn, or a read failed) is         *)
(* rewritten unless a committed certificate names it.                      *)
(***************************************************************************)
InvReuse ==
  /\ pc = "inv_open" /\ job.inv \in dirV /\ invV[job.inv] = "whole"
  /\ pc' = "inv_sync"
  /\ UNCHANGED <<disk, mem, poisoned, job, nseg, rtails, next, hist>>

InvRewrite ==
  /\ pc = "inv_open" /\ job.inv \in dirV
  /\ IF job.inv \in cinv
     THEN pc' = "ready" /\ job' = NoJob /\ UNCHANGED invV
     ELSE /\ invV' = [invV EXCEPT ![job.inv] = Hole]
          /\ pc' = "inv_write"
          /\ UNCHANGED job
  /\ UNCHANGED <<dirs, segs, invD, certs, mem, poisoned, nseg, rtails, next,
                 hist>>

InvCreate ==
  /\ pc = "inv_open" /\ job.inv \notin dirV
  /\ dirV' = dirV \cup {job.inv}
  /\ invV' = [invV EXCEPT ![job.inv] = Hole]
  /\ invD' = [invD EXCEPT ![job.inv] = Hole]
  /\ pc' = "inv_write"
  /\ UNCHANGED <<dirD, segs, certs, mem, poisoned, job, nseg, rtails, next,
                 hist>>

InvWrite ==
  /\ pc = "inv_write"
  /\ invV' = [invV EXCEPT ![job.inv] = "whole"]
  /\ pc' = "inv_sync"
  /\ UNCHANGED <<dirs, segs, invD, certs, mem, poisoned, job, nseg, rtails,
                 next, hist>>

InvSync ==
  /\ pc = "inv_sync"
  /\ invD' = Synced(invD, invV, {job.inv})
  /\ pc' = "inv_dirsync"
  /\ UNCHANGED <<dirs, segs, invV, certs, mem, poisoned, job, nseg, rtails,
                 next, hist>>

InvDirSync ==
  /\ pc = "inv_dirsync"
  /\ dirD' = dirV
  /\ pc' = "admit"
  /\ UNCHANGED <<dirV, segs, invs, certs, mem, poisoned, job, nseg, rtails,
                 next, hist>>

-----------------------------------------------------------------------------
(***************************************************************************)
(* append_group_internal up to the first write: refuse a poisoned store    *)
(* and a full certificate log, decide whether the group needs a new        *)
(* segment, and poison the store before touching any committed file.       *)
(***************************************************************************)
Admit ==
  /\ pc = "admit"
  /\ IF poisoned \/ frontier = MaxRev
     THEN pc' = "ready" /\ job' = NoJob /\ UNCHANGED <<poisoned, doubt>>
     ELSE /\ pc' = IF off + 1 > SegCap THEN "seg_create" ELSE "grp_write"
          /\ poisoned' = TRUE
          /\ doubt' = job.grp
          /\ UNCHANGED job
  /\ UNCHANGED <<disk, mem, nseg, rtails, next, acked>>

\* rollover: a fresh random identity, its file and header, then the switch.
SegCreate(s) ==
  /\ pc = "seg_create" /\ s \notin dirV
  /\ dirV' = dirV \cup {s}
  /\ hdrV' = [hdrV EXCEPT ![s] = Hole] /\ hdrD' = [hdrD EXCEPT ![s] = Hole]
  /\ segV' = [c \in Segs \X Slots |-> IF c[1] = s THEN Hole ELSE segV[c]]
  /\ segD' = [c \in Segs \X Slots |-> IF c[1] = s THEN Hole ELSE segD[c]]
  /\ nseg' = s
  /\ pc' = "seg_header"
  /\ UNCHANGED <<dirD, invs, certs, mem, poisoned, job, rtails, next, hist>>

SegHeader ==
  /\ pc = "seg_header"
  /\ hdrV' = [hdrV EXCEPT ![nseg] = [prev |-> seg, first |-> frontier + 1]]
  /\ pc' = "seg_sync"
  /\ UNCHANGED <<dirs, hdrD, segV, segD, invs, certs, mem, poisoned, job, nseg, rtails,
                 next, hist>>

SegSync ==
  /\ pc = "seg_sync"
  /\ hdrD' = Synced(hdrD, hdrV, {nseg})
  /\ segD' = Synced(segD, segV, FileSlots(nseg))
  /\ pc' = "seg_dirsync"
  /\ UNCHANGED <<dirs, hdrV, segV, invs, certs, mem, poisoned, job, nseg, rtails,
                 next, hist>>

SegDirSync ==
  /\ pc = "seg_dirsync"
  /\ dirD' = dirV
  /\ seg' = nseg /\ off' = 0 /\ nseg' = NoSeg
  /\ pc' = "grp_write"
  /\ UNCHANGED <<dirV, segs, invs, certs, frontier, prev, cinv, poisoned, job,
                 rtails, next, hist>>

\* The group, then its certificate; each written and synchronised in turn.
GrpWrite ==
  /\ pc = "grp_write"
  /\ segV' = [segV EXCEPT ![<<seg, off + 1>>] = job.grp]
  /\ pc' = "grp_sync"
  /\ UNCHANGED <<dirs, hdrV, hdrD, segD, invs, certs, mem, poisoned, job, nseg, rtails,
                 next, hist>>

\* Mutant: the certificate is written before the group is synchronised.
GrpSyncSkipped ==
  /\ pc = "grp_sync"
  /\ pc' = "cert_write"
  /\ UNCHANGED <<disk, mem, poisoned, job, nseg, rtails, next, hist>>

GrpSync ==
  /\ pc = "grp_sync"
  /\ hdrD' = Synced(hdrD, hdrV, {seg})
  /\ segD' = Synced(segD, segV, FileSlots(seg))
  /\ pc' = "cert_write"
  /\ UNCHANGED <<dirs, hdrV, segV, invs, certs, mem, poisoned, job, nseg, rtails,
                 next, hist>>

Certificate ==
  [rev |-> frontier + 1, prev |-> prev, seg |-> seg, pos |-> off + 1,
   grp |-> job.grp, inv |-> job.inv]

CertWrite ==
  /\ pc = "cert_write"
  /\ certV' = [certV EXCEPT ![frontier + 1] = Certificate]
  /\ pc' = "cert_sync"
  /\ UNCHANGED <<dirs, segs, invs, certD, mem, poisoned, job, nseg, rtails,
                 next, hist>>

\* Mutant: the commit is acknowledged without synchronising its certificate.
CertSyncSkipped ==
  /\ pc = "cert_sync"
  /\ off' = off + 1 /\ frontier' = frontier + 1 /\ prev' = job.grp
  /\ cinv' = IF job.inv = NoInv THEN cinv ELSE cinv \cup {job.inv}
  /\ acked' = Append(acked, job.grp) /\ doubt' = 0
  /\ poisoned' = FALSE /\ job' = NoJob /\ pc' = "ready"
  /\ UNCHANGED <<disk, seg, nseg, rtails, next>>

\* The last synchronisation and the in-memory publication: DurableCommit.
CertSync ==
  /\ pc = "cert_sync"
  /\ certD' = certV
  /\ off' = off + 1
  /\ frontier' = frontier + 1
  /\ prev' = job.grp
  /\ cinv' = IF job.inv = NoInv THEN cinv ELSE cinv \cup {job.inv}
  /\ poisoned' = FALSE
  /\ acked' = Append(acked, job.grp)
  /\ doubt' = 0
  /\ job' = NoJob
  /\ pc' = "ready"
  /\ UNCHANGED <<dirs, segs, invs, certV, seg, nseg, rtails, next>>

-----------------------------------------------------------------------------
(***************************************************************************)
(* Failures of an append.  A call that fails without effect, an exhausted  *)
(* vault or a failed read ends the append with poisoned as it stands; a    *)
(* failed write_all_at may leave a prefix of what it was writing.          *)
(***************************************************************************)
AppendFails ==
  /\ pc \in AppendSteps
  /\ pc' = "ready" /\ job' = NoJob /\ nseg' = NoSeg
  /\ UNCHANGED <<disk, mem, poisoned, rtails, next, hist>>

InvTorn ==
  /\ pc = "inv_write"
  /\ invV' = [invV EXCEPT ![job.inv] = Torn]
  /\ pc' = "ready" /\ job' = NoJob
  /\ UNCHANGED <<dirs, segs, invD, certs, mem, poisoned, nseg, rtails, next,
                 hist>>

SegTorn ==
  /\ \/ /\ pc = "seg_header"
        /\ hdrV' = [hdrV EXCEPT ![nseg] = Torn] /\ UNCHANGED segV
     \/ /\ pc = "grp_write"
        /\ segV' = [segV EXCEPT ![<<seg, off + 1>>] = Torn] /\ UNCHANGED hdrV
  /\ pc' = "ready" /\ job' = NoJob /\ nseg' = NoSeg
  /\ UNCHANGED <<dirs, hdrD, segD, invs, certs, mem, poisoned, rtails, next,
                 hist>>

CertTorn ==
  /\ pc = "cert_write"
  /\ certV' = [certV EXCEPT ![frontier + 1] = Torn]
  /\ pc' = "ready" /\ job' = NoJob
  /\ UNCHANGED <<dirs, segs, invs, certD, mem, poisoned, nseg, rtails, next,
                 hist>>

-----------------------------------------------------------------------------
(***************************************************************************)
(* What recovery derives from the certificate log (scan_certificates).     *)
(* The number of certificates comes from the length of the log; a last     *)
(* incomplete one is the repairable tail.                                  *)
(***************************************************************************)
IsCert(cell) == cell # Hole /\ cell # Torn

Complete(log) == {r \in Revs : \A q \in 1..r : IsCert(log[q])}

Count(log) == CHOOSE n \in 0..MaxRev : Complete(log) = 1..n

TornTail(log) == \E r \in Revs : log[r] = Torn

\* The segment and the last slot in use before certificate r.
SegBefore(log, r) == IF r = 1 THEN Seg0 ELSE log[r - 1].seg
PosBefore(log, r) == IF r = 1 THEN 0 ELSE log[r - 1].pos
DigestBefore(log, r) == IF r = 1 THEN 0 ELSE log[r - 1].grp

\* The checks of one iteration of scan_certificates, on given disk contents.
CertValid(log, hd, sg, iv, dir, r) ==
  LET c == log[r] IN
  /\ c.rev = r
  /\ c.prev = DigestBefore(log, r)
  /\ IF c.seg = SegBefore(log, r)
     THEN c.pos = PosBefore(log, r) + 1
     ELSE /\ c.seg \in dir
          /\ hd[c.seg] = [prev |-> SegBefore(log, r), first |-> r]
          /\ c.pos = 1
  /\ c.pos <= SegCap
  /\ sg[<<c.seg, c.pos>>] = c.grp
  /\ c.inv # NoInv => c.inv \in dir /\ iv[c.inv] = "whole"

ScanOK(log, hd, sg, iv, dir) ==
  /\ Seg0 \in dir /\ hd[Seg0] = FirstHeader
  /\ \A r \in Complete(log) : CertValid(log, hd, sg, iv, dir, r)

ChainSegs(log) == {Seg0} \cup {log[r].seg : r \in Complete(log)}

\* The slots of segment s below committed_end, its last certified group.
CommittedSlot(log, s, p) ==
  \E r \in Complete(log) : log[r].seg = s /\ p <= log[r].pos

HasTail(log, sg, s) ==
  \E p \in Slots : ~CommittedSlot(log, s, p) /\ sg[<<s, p>>] # Hole

-----------------------------------------------------------------------------
(***************************************************************************)
(* open: take ownership, authenticate the whole log (first pass), drop the *)
(* incomplete certificate, synchronise the log again, truncate the         *)
(* uncommitted tails, and replay (second pass).                            *)
(***************************************************************************)
Open ==
  /\ pc = "closed"
  /\ pc' = "scan"
  /\ UNCHANGED <<disk, mem, poisoned, job, nseg, rtails, next, hist>>

\* Mutant: recovery leaves the uncommitted tails in place.
FirstPassKeepsTails ==
  /\ pc = "scan"
  /\ pc' = IF ~ScanOK(certV, hdrV, segV, invV, dirV) THEN "damaged"
           ELSE IF TornTail(certV) THEN "cert_trunc" ELSE "cert_resync"
  /\ UNCHANGED <<disk, mem, poisoned, job, nseg, rtails, next, hist>>

FirstPass ==
  /\ pc = "scan"
  /\ IF ScanOK(certV, hdrV, segV, invV, dirV)
     THEN /\ pc' = IF TornTail(certV) THEN "cert_trunc" ELSE "cert_resync"
          /\ rtails' = {s \in ChainSegs(certV) : HasTail(certV, segV, s)}
     ELSE pc' = "damaged" /\ UNCHANGED rtails
  /\ UNCHANGED <<disk, mem, poisoned, job, nseg, next, hist>>

CertTrunc ==
  /\ pc = "cert_trunc"
  /\ certV' = [r \in Revs |-> IF r \in Complete(certV) THEN certV[r] ELSE Hole]
  /\ pc' = "cert_resync"
  /\ UNCHANGED <<dirs, segs, invs, certD, mem, poisoned, job, nseg, rtails,
                 next, hist>>

AfterTails(left) == IF left = {} THEN "replay" ELSE "tail_trunc"

\* Mutant: a reopening trusts the visible log without synchronising it.
CertResyncSkipped ==
  /\ pc = "cert_resync"
  /\ pc' = AfterTails(rtails)
  /\ UNCHANGED <<disk, mem, poisoned, job, nseg, rtails, next, hist>>

CertResync ==
  /\ pc = "cert_resync"
  /\ certD' = certV
  /\ pc' = AfterTails(rtails)
  /\ UNCHANGED <<dirs, segs, invs, certV, mem, poisoned, job, nseg, rtails,
                 next, hist>>

TailTrunc(s) ==
  /\ pc = "tail_trunc" /\ s \in rtails
  /\ segV' = [c \in Segs \X Slots |->
                IF c[1] = s /\ ~CommittedSlot(certV, s, c[2]) THEN Hole
                ELSE segV[c]]
  /\ nseg' = s
  /\ pc' = "tail_sync"
  /\ UNCHANGED <<dirs, hdrV, hdrD, segD, invs, certs, mem, poisoned, job,
                 rtails, next, hist>>

\* Mutant: the loop over the tails never advances.
TailSyncStuck ==
  /\ pc = "tail_sync"
  /\ segD' = Synced(segD, segV, FileSlots(nseg))
  /\ nseg' = NoSeg
  /\ pc' = "tail_trunc"
  /\ UNCHANGED <<dirs, hdrV, hdrD, segV, invs, certs, mem, poisoned, job,
                 rtails, next, hist>>

TailSync ==
  /\ pc = "tail_sync"
  /\ hdrD' = Synced(hdrD, hdrV, {nseg})
  /\ segD' = Synced(segD, segV, FileSlots(nseg))
  /\ rtails' = rtails \ {nseg}
  /\ nseg' = NoSeg
  /\ pc' = AfterTails(rtails \ {nseg})
  /\ UNCHANGED <<dirs, hdrV, segV, invs, certs, mem, poisoned, job, next, hist>>

\* The second pass hands every group to the visitor and builds the store.
Replay ==
  /\ pc = "replay"
  /\ LET n == Count(certV) IN
     /\ seg' = SegBefore(certV, n + 1)
     /\ off' = PosBefore(certV, n + 1)
     /\ frontier' = n
     /\ prev' = DigestBefore(certV, n + 1)
     /\ cinv' = {certV[r].inv : r \in 1..n} \ {NoInv}
     /\ acked' = [r \in 1..n |-> certV[r].grp]
  /\ poisoned' = FALSE
  /\ doubt' = 0
  /\ pc' = "ready"
  /\ UNCHANGED <<disk, job, nseg, rtails, next>>

OpenFails ==
  /\ pc \in OpenSteps
  /\ pc' = "closed" /\ nseg' = NoSeg /\ rtails' = {}
  /\ UNCHANGED <<disk, mem, poisoned, job, next, hist>>

\* The owner drops the store; the lock is released, the disk keeps its views.
Close ==
  /\ pc = "ready"
  /\ pc' = "closed"
  /\ UNCHANGED <<disk, mem, poisoned, job, nseg, rtails, next, hist>>

\* Loss of the process and of the machine, at any point.
Crash ==
  /\ \E d \in SurvivingNames(dirD, dirV) : dirV' = d /\ dirD' = d
  /\ \E h \in Survivors(hdrD, hdrV) : hdrV' = h /\ hdrD' = h
  /\ \E s \in Survivors(segD, segV) : segV' = s /\ segD' = s
  /\ \E i \in Survivors(invD, invV) : invV' = i /\ invD' = i
  /\ \E c \in Survivors(certD, certV) : certV' = c /\ certD' = c
  /\ pc' = "closed" /\ job' = NoJob /\ nseg' = NoSeg /\ rtails' = {}
  /\ UNCHANGED <<mem, poisoned, next, hist>>

AppendStep ==
  \/ \E i \in Invs \cup {NoInv} : AppendGroup(i)
  \/ InvReuse \/ InvRewrite \/ InvCreate \/ InvWrite \/ InvSync \/ InvDirSync
  \/ Admit
  \/ \E s \in Segs : SegCreate(s)
  \/ SegHeader \/ SegSync \/ SegDirSync
  \/ GrpWrite \/ GrpSync \/ CertWrite \/ CertSync

OpenStep ==
  \/ Open \/ FirstPass \/ CertTrunc \/ CertResync
  \/ \E s \in Segs : TailTrunc(s)
  \/ TailSync \/ Replay

Fault == AppendFails \/ InvTorn \/ SegTorn \/ CertTorn \/ OpenFails \/ Crash

Next == AppendStep \/ OpenStep \/ Close \/ Fault

Spec == Init /\ [][Next]_vars

\* An opener that keeps calling runs every step that does not fail.
LiveSpec == Spec /\ WF_vars(OpenStep)

-----------------------------------------------------------------------------
(***************************************************************************)
(* Properties.                                                             *)
(***************************************************************************)

\* Everything certificate r of a log needs is durable: its group, the header
\* and the name of its segment, the inventory it binds and that file's name.
Backed(log, r) ==
  /\ segD[<<log[r].seg, log[r].pos>>] = log[r].grp
  /\ log[r].seg \in dirD
  /\ hdrD[log[r].seg] \in Headers
  /\ log[r].inv # NoInv => log[r].inv \in dirD /\ invD[log[r].inv] = "whole"

\* The write order of append_group_internal (journal.rs:1008-1048): at every
\* instant, in both views, a certificate that is complete is backed by durable
\* data.  A certificate may outlive a crash the moment it is written, so its
\* synchronisation is too late to establish this.
CertifiedIsDurable ==
  \A r \in Revs : /\ IsCert(certV[r]) => Backed(certV, r)
                  /\ IsCert(certD[r]) => Backed(certD, r)

\* An acknowledged commit is in the durable log, at its revision, and is
\* backed: no sequence of failed calls, crashes and reopenings loses it
\* (architecture.md:91-106, DurableCommit and RecoveryReport).
AckedIsDurable ==
  \A r \in 1..Len(acked) : /\ IsCert(certD[r]) /\ certD[r].grp = acked[r]
                           /\ Backed(certD, r)

\* open never reports IntegrityFailure for damage the journal did to itself:
\* the first pass accepts whatever a crash or a failed call left
\* (scan_certificates, journal.rs:2712-3011).
RecoveryAccepts == pc # "damaged"

\* What an idle, unpoisoned store remembers is what recovery would rebuild
\* from the durable files alone (JournalStore fields against ScanState).
MemoryMatchesDisk ==
  pc = "ready" /\ ~poisoned =>
    /\ frontier = Count(certD) /\ certD = certV
    /\ frontier = Len(acked)
    /\ seg = SegBefore(certD, frontier + 1)
    /\ off = PosBefore(certD, frontier + 1)
    /\ prev = DigestBefore(certD, frontier + 1)
    /\ cinv = {certD[r].inv : r \in 1..frontier} \ {NoInv}
    /\ ~HasTail(certD, segV, seg)

\* Once faults stop, a closed store becomes ready again.
ReopenCompletes == (<>[][~Fault]_vars) => (pc = "closed" ~> pc = "ready")

\* The journal implements the abstract commit log.
CL == INSTANCE CommitLog WITH committed <- acked, open <- doubt,
                              proposed <- 1..(next - 1)
ImplementsCommitLog == CL!Spec
=============================================================================
