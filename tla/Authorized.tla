---------------------------- MODULE Authorized ----------------------------
(***************************************************************************)
(* The authorization facades of crates/uste-txn: AuthorizedCoordinator     *)
(* (authorized.rs) over the in-memory coordinator, AuthorizedDiskUploads,  *)
(* AuthorizedDiskWriter and AuthorizedDiskReader over the disk one, and    *)
(* their packed counterparts.  They put the policy kernel (the first part  *)
(* of this module), a ledger of upload charges and the durable policy      *)
(* between callers and storage.                                            *)
(* Uploads reach storage through module UploadStore.  A commit is one step *)
(* with three outcomes: certified, refused, or in doubt (module Journal    *)
(* shows how).                                                             *)
(***************************************************************************)
EXTENDS UploadStore, FiniteSetsExt, TLC

(***************************************************************************)
(* The authorization kernel of crates/uste-policy/src/lib.rs: one          *)
(* namespace with its versioned policy.  A policy grants each principal a  *)
(* set of actions, lowered by denials on single records, and quotas.  A    *)
(* principal and a lease are bound to the kernel that issued them.         *)
(***************************************************************************)

\* A quota is a record of limits; QuotaLimits::min is taken field by field.
MinQuota(a, b) == [f \in DOMAIN a |-> IF a[f] < b[f] THEN a[f] ELSE b[f]]

\* QuotaLimits::new: no field above its hard cap.
WithinHardCaps(q, caps) == MinQuota(q, caps) = q

\* NamespaceGrant: the permitted actions, the quotas, and record -> denied set.
Grant(actions, quotas, deny) ==
  [permissions |-> actions, quotas |-> quotas, deny |-> deny]

\* NamespacePolicy, and what its grant method accepts.
NamespacePolicy(version, quotas, grants) ==
  [version |-> version, quotas |-> quotas, grants |-> grants]

ValidPolicy(p, caps) ==
  /\ p.version > 0 /\ WithinHardCaps(p.quotas, caps)
  /\ \A w \in DOMAIN p.grants : MinQuota(p.grants[w].quotas, p.quotas) = p.grants[w].quotas

\* A target is the namespace itself or a record of a namespace.
Namespace(scope) == [scope |-> scope, record |-> "none"]
Record(scope, r) == [scope |-> scope, record |-> r]

-----------------------------------------------------------------------------
\* A kernel: its identity, its scope and its policy.  An authenticated
\* principal: its digest and the kernel that authenticated it.
Kernel(id, scope, policy) == [id |-> id, scope |-> scope, policy |-> policy]
Principal(who, id) == [who |-> who, id |-> id]

\* authorization_evaluator: the grant of a principal of this kernel.
Known(k, p, scope) ==
  p.id = k.id /\ scope = k.scope /\ p.who \in DOMAIN k.policy.grants

\* AuthorizationEvaluator::authorize.
Permits(k, who, action, target) ==
  LET g == k.policy.grants[who] IN
  /\ target.scope = k.scope
  /\ action \in g.permissions
  /\ target.record \in DOMAIN g.deny => action \notin g.deny[target.record]

\* PolicyKernel::authorize.
Authorized(k, p, action, target) ==
  Known(k, p, target.scope) /\ Permits(k, p.who, action, target)

Lease(k, p, action) ==
  [who |-> p.who, scope |-> k.scope, action |-> action,
   version |-> k.policy.version, id |-> k.id]

\* revalidate.
Current(k, lease) ==
  /\ lease.id = k.id /\ lease.scope = k.scope
  /\ lease.version = k.policy.version
  /\ lease.who \in DOMAIN k.policy.grants
  /\ lease.action \in k.policy.grants[lease.who].permissions

\* quotas, namespace_quotas.
Quotas(k, who) == MinQuota(k.policy.quotas, k.policy.grants[who].quotas)
NamespaceQuotas(k) == k.policy.quotas

\* replace_namespace_policy.
MayReplace(k, p, expected, next) ==
  /\ Known(k, p, k.scope)
  /\ k.policy.version = expected /\ next.version > k.policy.version
  /\ "ManagePolicy" \in k.policy.grants[p.who].permissions

-----------------------------------------------------------------------------

CONSTANTS
  Cases,            \* pairs <<facade, workload>> explored: memory, memory_plain,
                    \* disk or packed; the callers do uploads or reads
  Principals, Tokens, Slots, Records,
  Policies,         \* version -> namespace policy; version 1 is the first
  Sizes,            \* lengths of one write
  MaxReservations,  \* MAX_STAGED_UPLOAD_RESERVATIONS
  MaxUploads,       \* MAX_CONCURRENT_UPLOADS
  MaxFacades,       \* bound on facades made
  MaxFaults,        \* bound on storage errors and policy changes
  MaxInventory      \* MAX_BLOBS_PER_INVENTORY

\* A policy is listed under its version, which is positive (NamespacePolicy::new).
ASSUME PolicyAssumption ==
  /\ DOMAIN Policies \subseteq Nat \ {0} /\ 1 \in DOMAIN Policies
  /\ \A v \in DOMAIN Policies : Policies[v].version = v

\* "none" stands for a blob without a first owner.
ASSUME PrincipalAssumption == "none" \notin Principals

ASSUME ByteAssumption ==
  /\ Chunk \in Nat \ {0} /\ MaxBytes \in Nat /\ Sizes \subseteq Nat
  /\ IsFiniteSet(Slots)

VARIABLES
  kind,       \* which facade; memory_plain has a reducer without durable policy
  work,       \* what its callers do besides commits: uploads or reads
  pol,        \* version of the policy in the kernel
  dpol,       \* version of the policy certified in the journal
  pending,    \* a certified write has no derived root yet (disk, packed)
  facade,     \* number of the current facade: identity of its ledger
  kid,        \* the facade at which the kernel was made: identity of the kernel
  up,         \* a facade that takes uploads exists
  doubt,      \* NoDoubt, or the commit whose outcome is unknown
  allow,      \* allow_new_uploads
  staged,     \* QuotaLedger.staged: token -> charge
  committed,  \* QuotaLedger.committed: token -> owner (memory)
  owners,     \* first owners certified in the journal
  files,      \* the files of each token
  outbox,     \* tokens the adapter recorded before staging their bytes
  handles,    \* AuthorizedBlobUpload values alive in the process
  active,     \* ACTIVE_UPLOADS of this database
  view,       \* an AuthorizedReadView, or NoView
  faults,     \* storage errors and policy changes so far
  served      \* what the last read returned to whom

ledger == <<staged, committed, allow>>
store == <<owners, files, outbox>>
authority == <<kind, work, pol, dpol, pending, facade, kid, up, doubt>>
process == <<handles, active, view, faults>>
vars == <<authority, ledger, store, process, served>>

NoCharge == [who |-> "none"]
NoHandle == [tok |-> "none"]
NoView == [who |-> "none"]
NoDoubt == [who |-> "none"]
Nothing == [who |-> "none", records |-> {}]
Scope == "namespace"
Memory == kind \in {"memory", "memory_plain"}

K == Kernel(kid, Scope, Policies[pol])
Live == {s \in Slots : handles[s] # NoHandle}
Charged == {t \in Tokens : staged[t] # NoCharge}
Owned == {t \in Tokens : owners[t] # "none"}

Init ==
  /\ \E c \in Cases : kind = c[1] /\ work = c[2]
  /\ pol = 1 /\ dpol = 1 /\ pending = FALSE
  /\ facade = (IF Memory THEN 1 ELSE 0) /\ kid = 1 /\ up = Memory /\ doubt = NoDoubt
  /\ allow = Memory
  /\ staged = [t \in Tokens |-> NoCharge]
  /\ committed = [t \in Tokens |-> "none"] /\ owners = committed
  /\ files = [t \in Tokens |-> NoBytes] /\ outbox = {}
  /\ handles = [s \in Slots |-> NoHandle] /\ active = 0
  /\ view = NoView /\ served = Nothing /\ faults = 0

-----------------------------------------------------------------------------
\* QuotaLedger::usage and live_uploads.
Staged(who) == MapThenSumSet(LAMBDA t : staged[t].acc, {t \in Charged : staged[t].who \in who})
LiveUploads(who) == MapThenSumSet(LAMBDA t : staged[t].live, {t \in Charged : staged[t].who \in who})

\* The owners a facade counts: its ledger's, or the journal's on disk
\* (committed_blob_usage, committed_blob_usage_indexed).
CountedOwners == IF Memory THEN committed ELSE owners
CommittedBytes(who) ==
  MapThenSumSet(LAMBDA t : files[t].bytes, {t \in Tokens : CountedOwners[t] \in who})

\* validate_policy of the disk facades: the root is ready and the kernel holds
\* the durable policy.  The in-memory facade has no such step.
PolicyIsCurrent == Memory \/ (doubt = NoDoubt /\ ~pending /\ pol = dpol)

\* authorize.
Authorize(p, action) == Authorized(K, p, action, Namespace(Scope)) /\ PolicyIsCurrent

\* The principals a caller can present: of this kernel or of an earlier one.
Callers == {Principal(w, id) : w \in Principals, id \in IF work = "reads" THEN {1, kid} ELSE {kid}}

\* Mutant: the lease is not revalidated.
ValidWithoutLease(p, h, action) ==
  /\ h.who = p.who /\ up
  /\ Authorize(p, action)

\* validate_upload.
ValidUpload(p, h, action) ==
  /\ h.who = p.who /\ up
  /\ Current(K, h.lease)
  /\ Authorize(p, action)

\* Mutant: the projection leaves out the bytes to be written.
StagedFitsBefore(p, n) ==
  /\ Staged({p.who}) <= Quotas(K, p.who).staged
  /\ Staged(Principals) <= NamespaceQuotas(K).staged

\* check_staged_projection.
StagedFits(p, n) ==
  /\ Staged({p.who}) + n <= Quotas(K, p.who).staged
  /\ Staged(Principals) + n <= NamespaceQuotas(K).staged

\* The live-upload limits of start_blob_upload and resume_blob_upload.
LiveFits(p) ==
  /\ LiveUploads({p.who}) < Quotas(K, p.who).live
  /\ LiveUploads(Principals) < NamespaceQuotas(K).live

\* check_inventory; on disk the same tests inside commit_inventory.
InventoryFits(p, inv) ==
  LET added == {t \in inv : CountedOwners[t] = "none"}
      bytes == MapThenSumSet(LAMBDA t : files[t].bytes, added)
  IN /\ \A t \in inv \ added : CountedOwners[t] = p.who
     /\ \A t \in added : t \in Charged /\ staged[t].who = p.who /\ staged[t].final
     /\ CommittedBytes({p.who}) + bytes <= Quotas(K, p.who).committed
     /\ CommittedBytes(Principals) + bytes <= NamespaceQuotas(K).committed

-----------------------------------------------------------------------------
\* UploadLease: the process-wide count follows the handle's lease.
LeaseMoves(s, io) ==
  active' = active - (IF s \in Live /\ handles[s].io.lease THEN 1 ELSE 0)
                   + (IF io.lease THEN 1 ELSE 0)

\* What the bound counts: storage errors and policy changes.
Disturbs(b) == faults' = faults + (IF b THEN 1 ELSE 0) /\ faults' <= MaxFaults
Faulty(o) == Disturbs(o.r = "fault")

Handle(p, t, action, io) ==
  [tok |-> t, who |-> p.who, facade |-> facade, lease |-> Lease(K, p, action),
   open |-> TRUE, io |-> io]

\* A handle that outlives its facade: another ledger refuses every call, so all
\* that is left of it is its process-wide lease.
Orphaned ==
  [s \in Slots |-> IF s \in Live /\ handles[s].io.lease
                   THEN [tok |-> "orphan", facade |-> 0, open |-> FALSE, who |-> "none", io |-> Fresh]
                   ELSE NoHandle]

\* start_blob_upload.
StartBlobUpload(p, s, t) ==
  /\ work = "uploads" /\ up /\ doubt = NoDoubt /\ s \notin Live /\ t \notin outbox
  /\ Authorize(p, "StartUpload") /\ allow
  /\ LiveFits(p) /\ Cardinality(Charged) < MaxReservations
  /\ active < MaxUploads
  /\ staged' = [staged EXCEPT ![t] = [who |-> p.who, acc |-> 0, final |-> FALSE, live |-> 1]]
  /\ handles' = [handles EXCEPT ![s] = Handle(p, t, "StartUpload", Fresh)]
  /\ outbox' = outbox \cup {t}
  /\ LeaseMoves(s, Fresh) /\ served' = Nothing
  /\ UNCHANGED <<authority, allow, committed, owners, files, faults, view>>

\* Which reservations resume_blob_upload takes.
Resumable(p, t) ==
  IF t \in Charged
  THEN staged[t].who = p.who /\ staged[t].live = 0
  ELSE Cardinality(Charged) < MaxReservations

\* resume_blob_upload.
ResumeBlobUpload(p, s, t) ==
  /\ work = "uploads" /\ up /\ doubt = NoDoubt /\ s \notin Live /\ t \in outbox
  /\ Authorize(p, "ResumeUpload")
  /\ Resumable(p, t) /\ LiveFits(p) /\ active < MaxUploads
  /\ \E io \in Resume(files[t]) :
       /\ t \in Charged \/ Evidence(files[t])
       /\ staged' = [staged EXCEPT ![t] =
            [who |-> p.who, acc |-> io.acc,
             live |-> (IF t \in Charged THEN staged[t].live ELSE 0) + 1,
             final |-> t \in Charged /\ staged[t].final]]
       /\ handles' = [handles EXCEPT ![s] = Handle(p, t, "ResumeUpload", io)]
       /\ LeaseMoves(s, io)
  /\ served' = Nothing
  /\ UNCHANGED <<authority, allow, committed, store, faults, view>>

\* Mutant: a failed write is not charged.
ChargedOnOk(h, o, n) == o.r = "ok"

\* When write_blob_upload moves the charge to what the handle has accepted.
ChargeFollows(h, o, n) ==
  /\ o.h.acc \in h.io.acc..(h.io.acc + n)
  /\ h.tok \in Charged /\ o.h.acc >= staged[h.tok].acc

\* write_blob_upload: the charge follows what storage accepted, on failure too.
WriteBlobUpload(p, s, n) ==
  LET h == handles[s] IN
  /\ s \in Live /\ h.facade = facade /\ doubt = NoDoubt /\ ValidUpload(p, h, "WriteUpload")
  /\ StagedFits(p, n)
  /\ \E o \in Write(h.io, files[h.tok], n) :
       /\ handles' = [handles EXCEPT ![s] = [h EXCEPT !.io = o.h]]
       /\ files' = [files EXCEPT ![h.tok] = o.d]
       /\ LeaseMoves(s, o.h) /\ Faulty(o)
       /\ staged' =
            IF ChargeFollows(h, o, n)
            THEN [staged EXCEPT ![h.tok] = [staged[h.tok] EXCEPT !.acc = o.h.acc]] ELSE staged
  /\ served' = Nothing
  /\ UNCHANGED <<authority, allow, committed, owners, outbox, view>>

\* live_handles.saturating_sub(1).
LiveLess(c) == [c EXCEPT !.live = IF c.live = 0 THEN 0 ELSE c.live - 1]

\* finish_blob_upload: an error leaves the charge as it was.
FinishBlobUpload(p, s) ==
  LET h == handles[s] IN
  /\ s \in Live /\ h.facade = facade /\ doubt = NoDoubt /\ ValidUpload(p, h, "FinishUpload")
  /\ \E o \in Finish(h.io, files[h.tok]) :
       LET done == o.r = "ok" /\ h.tok \in Charged /\ staged[h.tok].acc = o.d.bytes IN
       /\ handles' = [handles EXCEPT ![s] = [h EXCEPT !.io = o.h, !.open = h.open /\ ~done]]
       /\ files' = [files EXCEPT ![h.tok] = o.d]
       /\ LeaseMoves(s, o.h) /\ Faulty(o)
       /\ staged' = IF done
            THEN [staged EXCEPT ![h.tok] = [LiveLess(staged[h.tok]) EXCEPT !.final = TRUE]]
            ELSE staged
  /\ served' = Nothing
  /\ UNCHANGED <<authority, allow, committed, owners, outbox, view>>

\* abort_blob_upload: only a completed abort returns the charge.
AbortBlobUpload(p, s) ==
  LET h == handles[s] IN
  /\ s \in Live /\ h.facade = facade /\ doubt = NoDoubt /\ ValidUpload(p, h, "AbortUpload")
  /\ \E o \in Abort(h.io, files[h.tok]) :
       /\ handles' = [handles EXCEPT ![s] = [h EXCEPT !.io = o.h, !.open = h.open /\ o.r # "ok"]]
       /\ files' = [files EXCEPT ![h.tok] = o.d]
       /\ LeaseMoves(s, o.h) /\ Faulty(o)
       /\ staged' = IF o.r = "ok" THEN [staged EXCEPT ![h.tok] = NoCharge] ELSE staged
  /\ served' = Nothing
  /\ UNCHANGED <<authority, allow, committed, owners, outbox, view>>

\* Drop for UploadLease.
LeaseReturned(h) == active' = active - (IF h.io.lease THEN 1 ELSE 0)

\* Drop for AuthorizedBlobUpload and for the UploadLease inside it.
DropHandle(s) ==
  LET h == handles[s] IN
  /\ s \in Live
  /\ handles' = [handles EXCEPT ![s] = NoHandle]
  /\ LeaseReturned(h)
  /\ staged' = IF h.open /\ h.facade = facade /\ h.tok \in Charged
       THEN [staged EXCEPT ![h.tok] = LiveLess(staged[h.tok])] ELSE staged
  /\ served' = Nothing
  /\ UNCHANGED <<authority, allow, committed, store, faults, view>>

\* complete_recovered_upload_reconciliation with the complete outbox: a token is
\* committed, aborted, or resumed under a lease of its own to find no evidence.
Reconcile(p) ==
  /\ work = "uploads" /\ up /\ doubt = NoDoubt
  /\ Authorize(p, "ManageSchema") /\ Authorize(p, "ResumeUpload")
  /\ Cardinality(outbox) <= Quotas(K, p.who).live
  /\ Cardinality(outbox) <= MaxReservations /\ Charged = {}
  /\ \A t \in outbox \ Owned :
       Resume(files[t]) = {} \/ (active < MaxUploads /\ ~Evidence(files[t]))
  /\ allow' = TRUE /\ served' = Nothing
  /\ UNCHANGED <<authority, staged, committed, store, process>>

-----------------------------------------------------------------------------
\* What a certified commit does to the journal: first owners and the policy.
\* The reducer refuses a change whose version does not increase.
Accepts(change) == change = 0 \/ (kind # "memory_plain" /\ change > dpol)
Certified(who, inv, change) ==
  /\ owners' = [t \in Tokens |-> IF t \in inv /\ owners[t] = "none" THEN who ELSE owners[t]]
  /\ dpol' = IF change = 0 THEN dpol ELSE change

\* commit_inventory of the ledger: the staging charge moves.
ChargeMoves(who, inv) ==
  /\ committed' = [t \in Tokens |-> IF t \in inv /\ committed[t] = "none" THEN who ELSE committed[t]]
  /\ staged' = [t \in Tokens |-> IF t \in inv THEN NoCharge ELSE staged[t]]

\* Mutant: the kernel takes the policy only after a successful publication.
SynchronizedLast(p) == pol' = IF dpol' > pol /\ ~pending' THEN dpol' ELSE pol

\* synchronize_durable_policy, synchronize_policy.
Synchronized(p) ==
  pol' = IF dpol' > pol /\ MayReplace(K, p, pol, Policies[dpol']) THEN dpol' ELSE pol

\* The commit whose certificate may or may not have been written.
Doubted(p, inv, change) ==
  /\ doubt' = [who |-> p.who, inv |-> inv, change |-> change]
  /\ Disturbs(TRUE)
  /\ UNCHANGED <<kind, work, pol, dpol, pending, facade, kid, up, ledger, owners>>

\* AuthorizedCoordinator::commit.
Commit(p, inv, change) ==
  /\ Memory /\ doubt = NoDoubt /\ Accepts(change)
  /\ Authorize(p, "Commit") /\ Quotas(K, p.who).request >= 1
  /\ change # 0 => Authorize(p, "ManagePolicy")
  /\ inv # {} => InventoryFits(p, inv)
  /\ \/ /\ Certified(p.who, inv, change) /\ ChargeMoves(p.who, inv)
        /\ pending' = pending /\ Synchronized(p) /\ Disturbs(change # 0)
        /\ UNCHANGED <<kind, work, facade, kid, up, doubt, allow>>
     \/ Doubted(p, inv, change)
  /\ served' = Nothing
  /\ UNCHANGED <<files, outbox, handles, active, view>>

\* AuthorizedDiskUploads::commit_inventory: the policy stays, and only this
\* principal's finished reservations are released.
CommitInventory(p, inv) ==
  /\ kind = "disk" /\ up /\ doubt = NoDoubt /\ inv # {}
  /\ Authorize(p, "Commit") /\ Quotas(K, p.who).request >= 1
  /\ InventoryFits(p, inv)
  /\ \/ /\ Certified(p.who, inv, 0)
        /\ staged' = [t \in Tokens |->
             IF t \in inv /\ t \in Charged /\ staged[t].who = p.who /\ staged[t].final
             THEN NoCharge ELSE staged[t]]
        /\ UNCHANGED <<kind, work, pol, pending, facade, kid, up, doubt, allow, committed, faults>>
     \/ Doubted(p, inv, 0)
  /\ served' = Nothing
  /\ UNCHANGED <<files, outbox, handles, active, view>>

\* AuthorizedDiskWriter::commit: the kernel takes the certified policy before
\* the derived root is published, and whether or not that succeeds.
DiskWriterCommit(p, change) ==
  /\ ~Memory /\ ~up /\ doubt = NoDoubt /\ ~pending /\ pol = dpol
  /\ Authorized(K, p, "Commit", Namespace(Scope)) /\ Quotas(K, p.who).request >= 1
  /\ change # 0 => Authorized(K, p, "ManagePolicy", Namespace(Scope))
  /\ Accepts(change)
  /\ \/ /\ Certified(p.who, {}, change)
        /\ pending' \in BOOLEAN /\ Synchronized(p) /\ Disturbs(change # 0 \/ pending')
        /\ UNCHANGED <<kind, work, facade, kid, up, doubt, ledger>>
     \/ Doubted(p, {}, change)
  /\ served' = Nothing
  /\ UNCHANGED <<files, outbox, handles, active, view>>

\* The same call again: check_commit answers Retry and the root is published.
DiskWriterRetry(p) ==
  /\ ~Memory /\ ~up /\ doubt = NoDoubt /\ pending /\ pol = dpol
  /\ Authorized(K, p, "Commit", Namespace(Scope)) /\ Quotas(K, p.who).request >= 1
  /\ dpol' = dpol /\ pending' = FALSE /\ Synchronized(p) /\ served' = Nothing
  /\ UNCHANGED <<kind, work, facade, kid, up, doubt, ledger, store, process>>

\* AuthorizedCoordinator::replace_namespace_policy, for a reducer without one.
ReplaceNamespacePolicy(p, expected, next) ==
  /\ kind = "memory_plain" /\ doubt = NoDoubt
  /\ Authorize(p, "ManagePolicy")
  /\ MayReplace(K, p, expected, Policies[next])
  /\ pol' = next /\ dpol' = next /\ served' = Nothing
  /\ UNCHANGED <<kind, work, pending, facade, kid, up, doubt, ledger, store, process>>

-----------------------------------------------------------------------------
\* AuthorizedDiskUploads has its own copy of the upload calls, over its own
\* ledger; they differ in authorize and in where committed blobs are counted.
StartDiskUpload(p, s, t) == kind = "disk" /\ StartBlobUpload(p, s, t)
ResumeDiskUpload(p, s, t) == kind = "disk" /\ ResumeBlobUpload(p, s, t)
WriteDiskUpload(p, s, n) == kind = "disk" /\ WriteBlobUpload(p, s, n)
FinishDiskUpload(p, s) == kind = "disk" /\ FinishBlobUpload(p, s)
AbortDiskUpload(p, s) == kind = "disk" /\ AbortBlobUpload(p, s)
ReconcileDisk(p) == kind = "disk" /\ Reconcile(p)

\* AuthorizedPackedWriter::commit, the same steps over a packed root.
PackedWriterCommit(p, change) == kind = "packed" /\ DiskWriterCommit(p, change)
PackedWriterRetry(p) == kind = "packed" /\ DiskWriterRetry(p)

-----------------------------------------------------------------------------
\* The records of a request that the per-candidate callback lets through.
Candidates(p, request) == {r \in request : Authorized(K, p, "ReadRecord", Record(Scope, r))}

\* read_view.
ReadView(p) ==
  /\ work = "reads" /\ Memory /\ doubt = NoDoubt /\ view = NoView
  /\ Authorize(p, "ReadRecord")
  /\ view' = [who |-> p.who, facade |-> facade, lease |-> Lease(K, p, "ReadRecord")]
  /\ served' = Nothing
  /\ UNCHANGED <<authority, ledger, store, handles, active, faults>>

DropView ==
  /\ view # NoView /\ view' = NoView /\ served' = Nothing
  /\ UNCHANGED <<authority, ledger, store, handles, active, faults>>

\* read_cancellable and read_indexed of the in-memory facade.
Read(p, request) ==
  /\ Memory /\ doubt = NoDoubt /\ view # NoView
  /\ view.facade = facade /\ Current(K, view.lease)
  /\ Authorize(p, "ReadRecord")
  /\ served' = [who |-> p.who, records |-> Candidates(p, request)]
  /\ UNCHANGED <<authority, ledger, store, process>>

\* AuthorizedDiskReader::read.
ReadDisk(p, request) ==
  /\ work = "reads" /\ kind = "disk" /\ Authorize(p, "ReadRecord")
  /\ served' = [who |-> p.who, records |-> Candidates(p, request)]
  /\ UNCHANGED <<authority, ledger, store, process>>

\* AuthorizedPackedReader::read, with one evaluator for the whole request.
ReadPacked(p, request) ==
  /\ kind = "packed" /\ Authorize(p, "ReadRecord") /\ Known(K, p, Scope)
  /\ served' = [who |-> p.who,
                records |-> {r \in request : Permits(K, p.who, "ReadRecord", Record(Scope, r))}]
  /\ UNCHANGED <<authority, ledger, store, process>>

-----------------------------------------------------------------------------
\* AuthorizedDiskUploads::new: each facade starts closed with an empty ledger;
\* the one before took its ledger with it.
NewDiskFacade ==
  /\ work = "uploads" /\ kind = "disk" /\ ~up /\ facade < MaxFacades
  /\ PolicyIsCurrent
  /\ up' = TRUE /\ facade' = facade + 1 /\ served' = Nothing
  /\ UNCHANGED <<kind, work, pol, dpol, pending, kid, doubt, ledger, store, process>>

DropDiskFacade ==
  /\ kind = "disk" /\ up
  /\ up' = FALSE /\ allow' = FALSE /\ served' = Nothing
  /\ staged' = [t \in Tokens |-> NoCharge] /\ handles' = Orphaned
  /\ UNCHANGED <<kind, work, pol, dpol, pending, facade, kid, doubt, committed, store,
                 active, view, faults>>

\* open_authorized: the journal settles a doubt, the ledger takes the owners it
\* lists, and the kernel handed in must hold the durable policy.  Handles of
\* this process outlive it; those of a crashed process do not.
Reopen(crash, lands) ==
  LET who == doubt.who
      inv == IF lands THEN doubt.inv ELSE {}
      change == IF lands THEN doubt.change ELSE 0
  IN
  /\ facade < MaxFacades
  /\ lands => doubt # NoDoubt
  /\ Certified(who, inv, change)
  /\ IF kind = "memory_plain" THEN pol' \in DOMAIN Policies ELSE pol' = dpol'
  /\ committed' = IF Memory THEN owners' ELSE committed
  /\ staged' = [t \in Tokens |-> NoCharge] /\ allow' = FALSE
  /\ facade' = facade + 1 /\ kid' = facade + 1 /\ up' = Memory
  /\ doubt' = NoDoubt /\ pending' = FALSE
  /\ IF crash THEN handles' = [s \in Slots |-> NoHandle] /\ active' = 0 /\ view' = NoView
              ELSE handles' = Orphaned /\ UNCHANGED <<active, view>>
  /\ served' = Nothing
  /\ UNCHANGED <<kind, work, files, outbox, faults>>

Inventories == {inv \in SUBSET Tokens : Cardinality(inv) <= MaxInventory}

Uploads(p) ==
  \/ \E s \in Slots, t \in Tokens :
       \/ Memory /\ (StartBlobUpload(p, s, t) \/ ResumeBlobUpload(p, s, t))
       \/ StartDiskUpload(p, s, t) \/ ResumeDiskUpload(p, s, t)
  \/ \E s \in Slots, n \in Sizes : (Memory /\ WriteBlobUpload(p, s, n)) \/ WriteDiskUpload(p, s, n)
  \/ \E s \in Slots :
       \/ Memory /\ (FinishBlobUpload(p, s) \/ AbortBlobUpload(p, s))
       \/ FinishDiskUpload(p, s) \/ AbortDiskUpload(p, s)
  \/ Memory /\ Reconcile(p)
  \/ ReconcileDisk(p)

Commits(p) ==
  \/ \E inv \in Inventories \ {{}} : Commit(p, inv, 0) \/ CommitInventory(p, inv)
  \/ \E change \in DOMAIN Policies : Commit(p, {}, change)
  \/ \E change \in {0} \cup DOMAIN Policies :
       (kind = "disk" /\ DiskWriterCommit(p, change)) \/ PackedWriterCommit(p, change)
  \/ (kind = "disk" /\ DiskWriterRetry(p)) \/ PackedWriterRetry(p)
  \/ \E v, w \in DOMAIN Policies : ReplaceNamespacePolicy(p, v, w)

Reads(p) ==
  \/ ReadView(p)
  \/ \E request \in SUBSET Records :
       Read(p, request) \/ ReadDisk(p, request) \/ ReadPacked(p, request)

Next ==
  \/ \E p \in Callers : Uploads(p) \/ Commits(p) \/ Reads(p)
  \/ \E s \in Slots : DropHandle(s)
  \/ DropView \/ NewDiskFacade \/ DropDiskFacade
  \/ \E crash, lands \in BOOLEAN : Reopen(crash, lands)

Spec == Init /\ [][Next]_vars

-----------------------------------------------------------------------------
\* Staged bytes nobody has settled: durable, not aborted and not committed.
Unresolved == {t \in Tokens : files[t].bytes > 0 /\ files[t].st # "aborted" /\ t \notin Owned}
StagedQuota == Max({Policies[v].quotas.staged : v \in DOMAIN Policies})
CommittedQuota == Max({Policies[v].quotas.committed : v \in DOMAIN Policies})

\* While new uploads are admitted the ledger knows every token with unsettled
\* bytes on disk and charges at least those bytes, through failed flushes,
\* half-done aborts, reopenings and new facades; and what the in-memory ledger
\* counts as committed is the journal's list of owners, all of them finished.
LedgerIsExact ==
  doubt = NoDoubt =>
    /\ allow /\ up => \A t \in Unresolved : t \in Charged /\ staged[t].acc >= files[t].bytes
    /\ Memory => committed = owners
    /\ \A t \in Owned : files[t].st = "final"

\* So the unsettled bytes on disk stay within the largest staging quota that
\* was in force, and the journal never holds more committed bytes than a policy
\* allowed, whatever commits were in doubt and however often it was reopened.
QuotasHold ==
  /\ allow /\ up /\ doubt = NoDoubt =>
       MapThenSumSet(LAMBDA t : files[t].bytes, Unresolved) <= StagedQuota
  /\ MapThenSumSet(LAMBDA t : files[t].bytes, Owned) <= CommittedQuota

\* Outside a doubt the kernel enforces the certified policy, also when the
\* derived root of the change could not be published.
KernelIsCertified == doubt = NoDoubt /\ kind # "memory_plain" => pol = dpol

\* A handle that has learnt how its upload ended, a token whose upload has ended,
\* and an open handle of one that has not.
Settled(io) == io.final \/ io.aborted
Ended(t) == files[t].st \in {"final", "aborted"}
Running(s) == handles[s].open /\ ~Ended(handles[s].tok)

\* ACTIVE_UPLOADS counts exactly the handles that have not learnt how their upload
\* ended: write_upload, finish_upload, abort_upload and resume_upload release the
\* lease where they learn it, neither earlier nor later, over failed calls, drops
\* and facades that are gone.  Bytes are buffered under a lease only, at most a
\* chunk of them, and a handle is settled only when its files are.  A token still
\* being uploaded has a single open handle, which the ledger's live_handles counts.
UploadsAreCounted ==
  /\ active = Cardinality({s \in Live : ~Settled(handles[s].io)})
  /\ \A s \in Live :
       LET h == handles[s] IN
       /\ h.io.acc - h.io.dur \in 0..(IF Settled(h.io) THEN 0 ELSE Chunk)
       /\ Settled(h.io) => Ended(h.tok)
       /\ Running(s) =>
            /\ h.tok \in Charged /\ staged[h.tok].live = 1
            /\ \A r \in Live : handles[r].open /\ handles[r].tok = h.tok => r = s

\* The files of a token change only under a lease of the policy in the kernel and of
\* this facade, and with a permission for it.
TouchesUnderLease ==
  \A t \in Tokens : files'[t] # files[t] =>
    \E s \in Live : /\ handles[s].tok = t
                    /\ handles[s].lease.version = pol
                    /\ handles[s].facade = facade
                    /\ Policies[pol].grants[handles[s].who].permissions
                         \cap {"WriteUpload", "FinishUpload", "AbortUpload"} # {}

\* What a read returns the certified policy lets its reader see.
ServesAsCertified ==
  \A r \in served'.records :
    kind # "memory_plain" =>
      Permits(Kernel(kid, Scope, Policies[dpol]), served'.who, "ReadRecord", Record(Scope, r))

\* A revocation holds for every upload handle, view and cache made before it: no
\* step writes under a lease of another policy version or of an earlier facade,
\* and no read returns a record that the certified policy hides.
RevocationHolds == [][TouchesUnderLease /\ ServesAsCertified]_vars
=============================================================================
