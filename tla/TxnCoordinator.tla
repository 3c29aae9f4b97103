-------------------------- MODULE TxnCoordinator --------------------------
(***************************************************************************)
(* The transaction coordinator of crates/uste-txn/src/lib.rs: one process  *)
(* that admits requests under idempotency keys, prepares them against the  *)
(* reducer, appends one group per commit to the journal and publishes the  *)
(* outcome.  The journal is its abstract commit log (module CommitLog,     *)
(* which Journal implements): an append is acknowledged, refused without   *)
(* effect, or leaves an open outcome that a reopening resolves.            *)
(*                                                                         *)
(* The coordinator is called through &mut self: a call is one step, except *)
(* a commit that reaches the journal, which can fail or die on the way.    *)
(* The wall clock may move in either direction between calls.  The    *)
(* reducer is a parameter of the code (trait TransactionState); here it    *)
(* keeps the bodies it applied and refuses one it already holds.           *)
(***************************************************************************)
EXTENDS Integers, Sequences, FiniteSets

CONSTANTS
  Requests,      \* the requests clients make: [who, key, txn, body, blobs]
  NoReq,         \* no request
  MaxOutcomes,   \* MAX_OUTCOMES_PER_NAMESPACE
  Retention,     \* RetentionDays
  MaxTime,       \* bound: wall-clock readings
  MaxAttempts    \* bound: appends a behaviour makes

RetryKey(q) == <<q.who, q.key>>
Digest(q)   == <<q.body, q.blobs>>

Keys   == {RetryKey(q) : q \in Requests}
Txns   == {q.txn : q \in Requests}
Whos   == {q.who : q \in Requests}
Blobs  == UNION {q.blobs : q \in Requests}
Times  == 0..MaxTime

ASSUME TxnAssumption ==
  /\ MaxOutcomes \in Nat /\ Retention \in Nat /\ MaxTime \in Nat
  /\ MaxAttempts \in Nat /\ NoReq \notin Requests

VARIABLES
  log,           \* the certified groups, by revision
  open,          \* the attempt the journal is writing or left open, or 0
  group,         \* the group handed to the journal, while its fate is open
  attempts,      \* appends made so far
  phase,         \* down, replaying, up, appending, or refused (IntegrityFailure)
  uncertain,     \* CommitCoordinator::uncertain
  state,         \* the reducer: bodies applied, in order
  outcomes,      \* retry key -> TransactionOutcome
  transactions,  \* transaction id -> <<principal, TransactionOutcome>>
  owners,        \* blob -> the principal that first committed it
  seed,          \* the last published checkpoint, or the empty one
  expect,        \* what a seeded replay still has to confirm of its seed
  base, rp,      \* revision of the seed in use; groups replayed so far
  view,          \* the last read view handed out
  now,           \* the wall clock
  last,          \* the last call and its answer
  told           \* history: every <<request, outcome>> reported committed

journal == <<log, open, group, attempts>>
memory  == <<phase, uncertain, state, outcomes, transactions, owners>>
replay  == <<expect, base, rp>>
vars == <<log, open, group, attempts, phase, uncertain, state, outcomes,
          transactions, owners, seed, expect, base, rp, view, now, last, told>>

Empty == <<>>

NoMetadata == [outcomes |-> Empty, transactions |-> Empty, owners |-> Empty]

Seed0 == [rev |-> 0, attempt |-> 0, state |-> <<>>, metadata |-> NoMetadata]

\* f extended with x |-> v.
Insert(f, x, v) == [y \in DOMAIN f \cup {x} |-> IF y = x THEN v ELSE f[y]]

Remove(f, xs) == [y \in DOMAIN f \ xs |-> f[y]]

\* entry(..).or_insert(v) for every x in xs.
OrInsert(f, xs, v) ==
  [y \in DOMAIN f \cup xs |-> IF y \in DOMAIN f THEN f[y] ELSE v]

Init ==
  /\ log = <<>> /\ open = 0 /\ group = NoReq /\ attempts = 0
  /\ phase = "up" /\ uncertain = FALSE
  /\ state = <<>> /\ outcomes = Empty /\ transactions = Empty /\ owners = Empty
  /\ seed = Seed0 /\ expect = NoMetadata /\ base = 0 /\ rp = 0
  /\ view = [rev |-> 0, state |-> <<>>]
  /\ now \in Times
  /\ last = [req |-> NoReq, reply |-> "none", outcome |-> NoReq] /\ told = {}

-----------------------------------------------------------------------------
\* The reducer: prepare, its result digest, publish.
Prepares(st, body) == \A i \in 1..Len(st) : st[i] # body
Result(st, body)   == <<body, Len(st)>>

\* encode_group: what the journal keeps of an accepted request.
Group(q, a) ==
  [attempt |-> a, rk |-> RetryKey(q), who |-> q.who, body |-> q.body,
   blobs |-> q.blobs,
   outcome |-> [txn |-> q.txn, rev |-> Len(log) + 1, digest |-> Digest(q),
                result |-> Result(state, q.body), expires |-> now + Retention]]

Reply(q, r, o) == last' = [req |-> q, reply |-> r, outcome |-> o]

Refuse(q, r) ==
  /\ Reply(q, r, NoReq)
  /\ UNCHANGED <<journal, memory, replay, seed, view, now, told>>

(***************************************************************************)
(* admit_commit: the answers given before anything is written, in the      *)
(* order of the code.  Known is a retained outcome for the same key.       *)
(***************************************************************************)
Known(q) == RetryKey(q) \in DOMAIN outcomes

\* Mutant: a retry is matched by its key and transaction id only.
AnswerKnownAnyBody(q) ==
  LET o == outcomes[RetryKey(q)] IN
  /\ ~uncertain /\ Known(q)
  /\ IF now >= o.expires THEN Refuse(q, "expired")
     ELSE IF o.txn # q.txn THEN Refuse(q, "conflict")
     ELSE /\ Reply(q, "committed", o)
          /\ told' = told \cup {<<q, o>>}
          /\ UNCHANGED <<journal, memory, replay, seed, view, now>>

AnswerKnown(q) ==
  LET o == outcomes[RetryKey(q)] IN
  /\ ~uncertain /\ Known(q)
  /\ IF now >= o.expires THEN Refuse(q, "expired")
     ELSE IF o.digest # Digest(q) \/ o.txn # q.txn THEN Refuse(q, "conflict")
     ELSE /\ Reply(q, "committed", o)
          /\ told' = told \cup {<<q, o>>}
          /\ UNCHANGED <<journal, memory, replay, seed, view, now>>

RefuseFresh(q) ==
  /\ ~uncertain /\ ~Known(q)
  /\ IF q.txn \in DOMAIN transactions THEN Refuse(q, "conflict")
     ELSE IF Cardinality(DOMAIN outcomes) >= MaxOutcomes THEN Refuse(q, "limit")
     ELSE \/ Refuse(q, "cancelled")
          \/ ~Prepares(state, q.body) /\ Refuse(q, "conflict")

\* Mutant: a transaction id that was used under another key is accepted.
FreshAnyTxn(q) ==
  /\ ~uncertain /\ ~Known(q)
  /\ Cardinality(DOMAIN outcomes) < MaxOutcomes
  /\ Prepares(state, q.body)
  /\ attempts < MaxAttempts

\* What reaches the journal.
Fresh(q) ==
  /\ ~uncertain /\ ~Known(q)
  /\ q.txn \notin DOMAIN transactions
  /\ Cardinality(DOMAIN outcomes) < MaxOutcomes
  /\ Prepares(state, q.body)
  /\ attempts < MaxAttempts

\* record_decoded_group_metadata and the publication of a commit.
Publish(g) ==
  /\ state' = Append(state, g.body)
  /\ outcomes' = Insert(outcomes, g.rk, g.outcome)
  /\ transactions' = Insert(transactions, g.outcome.txn, <<g.who, g.outcome>>)
  /\ owners' = OrInsert(owners, g.blobs, g.who)

\* The group is encoded and handed to append_group.
Submit(q) ==
  /\ Fresh(q)
  /\ attempts' = attempts + 1 /\ group' = Group(q, attempts + 1)
  /\ phase' = "appending" /\ Reply(q, "none", NoReq)
  /\ UNCHANGED <<log, open, uncertain, state, outcomes, transactions, owners,
                 replay, seed, view, now, told>>

\* The journal starts to write: from here the append may be certified.
JournalWrites ==
  /\ phase = "appending" /\ open = 0 /\ open' = group.attempt
  /\ UNCHANGED <<log, group, attempts, memory, replay, seed, view, now, last,
                 told>>

\* Mutant: the append is not retired when it is acknowledged.
JournalAcksKeepsOpen ==
  /\ phase = "appending" /\ open # 0
  /\ log' = Append(log, group)
  /\ Publish(group)
  /\ phase' = "up" /\ Reply(last.req, "committed", group.outcome)
  /\ told' = told \cup {<<last.req, group.outcome>>}
  /\ UNCHANGED <<open, group, attempts, uncertain, replay, seed, view, now>>

\* append_group returned DurableCommit: publish and answer.
JournalAcks ==
  /\ phase = "appending" /\ open # 0
  /\ log' = Append(log, group) /\ open' = 0 /\ group' = NoReq
  /\ Publish(group)
  /\ phase' = "up" /\ Reply(last.req, "committed", group.outcome)
  /\ told' = told \cup {<<last.req, group.outcome>>}
  /\ UNCHANGED <<attempts, uncertain, replay, seed, view, now>>

\* ResourceLimit or RevisionExhausted, found before anything was written.
JournalRefuses ==
  /\ phase = "appending" /\ open = 0
  /\ group' = NoReq
  /\ phase' = "up" /\ Reply(last.req, "limit", NoReq)
  /\ UNCHANGED <<log, open, attempts, uncertain, state, outcomes, transactions,
                 owners, replay, seed, view, now, told>>

\* Mutant: an ambiguous append is published as if it were certified.
JournalFailsAsPublished ==
  /\ phase = "appending"
  /\ Publish(group)
  /\ phase' = "up" /\ uncertain' = TRUE
  /\ Reply(last.req, "unknown", NoReq)
  /\ UNCHANGED <<journal, replay, seed, view, now, told>>

\* Any other error (map_commit_error): the group may or may not be certified,
\* and an error before the first write is not told apart.
JournalFails ==
  /\ phase = "appending"
  /\ phase' = "up" /\ uncertain' = TRUE
  /\ Reply(last.req, "unknown", NoReq)
  /\ UNCHANGED <<journal, state, outcomes, transactions, owners, replay, seed,
                 view, now, told>>

\* Every operation of a quarantined coordinator answers OutcomeUnknown.
Quarantined(q) == uncertain /\ Refuse(q, "unknown")

ClockFails(q) == ~uncertain /\ Refuse(q, "unavailable")

Commit(q) ==
  /\ phase = "up"
  /\ \/ Quarantined(q) \/ ClockFails(q) \/ AnswerKnown(q) \/ RefuseFresh(q)
     \/ Submit(q)

Append1 == JournalWrites \/ JournalAcks \/ JournalRefuses \/ JournalFails

\* outcome, transaction_outcome_for: what a client learns without committing.
Look(q, found, o) ==
  /\ phase = "up" /\ ~uncertain
  /\ \/ ~found /\ Refuse(q, "absent")
     \/ found /\ now >= o.expires /\ Refuse(q, "expired")
     \/ /\ found /\ now < o.expires
        /\ Reply(q, "found", o)
        /\ UNCHANGED <<journal, memory, replay, seed, view, now, told>>

Outcome(q) == Look(q, Known(q), outcomes[RetryKey(q)])

TransactionOutcomeFor(q) ==
  LET t == transactions[q.txn] IN
  Look(q, q.txn \in DOMAIN transactions /\ t[1] = q.who, t[2])

\* read_view: a snapshot at the frontier.
ReadView ==
  /\ phase = "up" /\ ~uncertain
  /\ view' = [rev |-> Len(log), state |-> state]
  /\ UNCHANGED <<journal, memory, replay, seed, now, last, told>>

\* Mutant: the checkpoint forgets which principal owns a blob.
RecoverySeedOwnerless(outs, txns, own) ==
  [rev |-> Len(log), attempt |-> log[Len(log)].attempt, state |-> state,
   metadata |-> [outcomes |-> outs, transactions |-> txns, owners |-> Empty]]

\* from_authenticated_checkpoint: the seed a later opening starts from.
RecoverySeed(outs, txns, own) ==
  [rev |-> Len(log), attempt |-> log[Len(log)].attempt, state |-> state,
   metadata |-> [outcomes |-> outs, transactions |-> txns, owners |-> own]]

\* publish_checkpoint, with checkpoint_outcomes and committed_blob_owners.
PublishCheckpoint ==
  /\ phase = "up" /\ ~uncertain /\ Len(log) > 0
  /\ seed' = RecoverySeed(outcomes, transactions, owners)
  /\ UNCHANGED <<journal, memory, replay, view, now, last, told>>

-----------------------------------------------------------------------------
\* The coordinator is dropped, or its process dies: between calls, inside an
\* append (the client has no answer), or in a replay.
Stop ==
  /\ phase \in {"up", "appending", "replaying"}
  /\ phase' = "down" /\ uncertain' = FALSE
  /\ state' = <<>> /\ outcomes' = Empty /\ transactions' = Empty
  /\ owners' = Empty
  /\ expect' = NoMetadata /\ base' = 0 /\ rp' = 0
  /\ UNCHANGED <<journal, seed, view, now, last, told>>

\* JournalStore::open resolves the open outcome and starts the replay, from
\* the initial state (open) or from a checkpoint (open_seeded).
Reopen(sd) ==
  /\ phase = "down"
  /\ IF open = 0 THEN UNCHANGED log
     ELSE log' \in {log, Append(log, group)}
  /\ open' = 0 /\ group' = NoReq
  /\ phase' = "replaying"
  /\ state' = sd.state /\ expect' = sd.metadata /\ base' = sd.rev
  /\ UNCHANGED <<attempts, uncertain, outcomes, transactions, owners, rp, seed,
                 view, now, last, told>>

\* Mutant: the group is replayed and the position not advanced.
ReplayGroupStuck ==
  /\ phase = "replaying" /\ rp < Len(log) /\ rp >= base
  /\ UNCHANGED vars

\* replay_group: prepare again, compare the result, record, publish.
ReplayGroup ==
  LET g == log[rp + 1] IN
  /\ phase = "replaying" /\ rp < Len(log) /\ rp >= base
  /\ IF /\ Prepares(state, g.body)
        /\ Result(state, g.body) = g.outcome.result
        /\ g.rk \notin DOMAIN outcomes
        /\ g.outcome.txn \notin DOMAIN transactions
        /\ Cardinality(DOMAIN outcomes) < MaxOutcomes
     THEN Publish(g) /\ rp' = rp + 1 /\ UNCHANGED phase
     ELSE phase' = "refused"
          /\ UNCHANGED <<state, outcomes, transactions, owners, rp>>
  /\ UNCHANGED <<journal, uncertain, expect, base, seed, view, now, last, told>>

\* replay_group_metadata_against_seed: each group up to the seed's revision
\* must account for one outcome, one transaction and its first-owned blobs.
Confirms(g) ==
  /\ g.rk \in DOMAIN expect.outcomes
  /\ expect.outcomes[g.rk] = g.outcome
  /\ g.outcome.txn \in DOMAIN expect.transactions
  /\ expect.transactions[g.outcome.txn] = <<g.who, g.outcome>>
  /\ \A b \in g.blobs \ DOMAIN owners :
       b \in DOMAIN expect.owners /\ expect.owners[b] = g.who

Unconfirmed(g) ==
  [outcomes |-> Remove(expect.outcomes, {g.rk}),
   transactions |-> Remove(expect.transactions, {g.outcome.txn}),
   owners |-> Remove(expect.owners, g.blobs)]

ReplayMetadata ==
  LET g == log[rp + 1] IN
  /\ phase = "replaying" /\ rp < base /\ rp < Len(log)
  /\ IF Confirms(g) /\ (rp + 1 = base => /\ Unconfirmed(g) = NoMetadata
                                         /\ g.attempt = seed.attempt)
     THEN /\ outcomes' = Insert(outcomes, g.rk, g.outcome)
          /\ transactions' = Insert(transactions, g.outcome.txn,
                                    <<g.who, g.outcome>>)
          /\ owners' = OrInsert(owners, g.blobs, g.who)
          /\ expect' = Unconfirmed(g) /\ rp' = rp + 1
          /\ UNCHANGED phase
     ELSE phase' = "refused"
          /\ UNCHANGED <<outcomes, transactions, owners, expect, rp>>
  /\ UNCHANGED <<journal, uncertain, state, base, seed, view, now, last, told>>

\* The journal is replayed; open_seeded also requires the anchor to be met.
Reopened ==
  /\ phase = "replaying" /\ rp = Len(log)
  /\ phase' = IF rp < base THEN "refused" ELSE "up"
  /\ expect' = NoMetadata /\ base' = 0 /\ rp' = 0
  /\ UNCHANGED <<journal, uncertain, state, outcomes, transactions, owners, seed,
                 view, now, last, told>>

Tick ==
  /\ now' \in Times \ {now}
  /\ UNCHANGED <<journal, memory, replay, seed, view, last, told>>

Recovery ==
  \/ \E sd \in {Seed0, seed} : Reopen(sd)
  \/ ReplayGroup \/ ReplayMetadata \/ Reopened

Next ==
  \/ \E q \in Requests : Commit(q) \/ Outcome(q) \/ TransactionOutcomeFor(q)
  \/ Append1 \/ ReadView \/ PublishCheckpoint \/ Stop \/ Recovery \/ Tick

Spec == Init /\ [][Next]_vars

\* A caller that reopens runs the replay to its end.
LiveSpec == Spec /\ WF_vars(Recovery)

-----------------------------------------------------------------------------
(***************************************************************************)
(* Properties.                                                             *)
(***************************************************************************)

\* Whatever is retried, cancelled, expired, lost in a crash or resolved by a
\* reopening, the journal never holds two groups of one idempotency key or of
\* one transaction id (admit_commit, commit_admission.rs:60-86).
ExactlyOnce ==
  \A i, j \in 1..Len(log) : i # j =>
    log[i].rk # log[j].rk /\ log[i].outcome.txn # log[j].outcome.txn

\* An outcome reported to a client stays the outcome of its request: the group
\* at that revision is the request's, across crashes and reopenings
\* (commit_with_preparation, lib.rs:2000-2102).
RepliesAreTrue ==
  /\ \A t \in told :
       /\ t[2].rev \in 1..Len(log)
       /\ log[t[2].rev].outcome = t[2] /\ log[t[2].rev].rk = RetryKey(t[1])
       /\ t[2].digest = Digest(t[1]) /\ t[2].txn = t[1].txn
  /\ last.reply = "found" =>
       /\ log[last.outcome.rev].outcome = last.outcome
       /\ log[last.outcome.rev].who = last.req.who
  /\ last.reply \in {"limit", "cancelled"} =>
       /\ \A i \in 1..Len(log) : log[i].rk # RetryKey(last.req)
       /\ open # 0 => group.rk # RetryKey(last.req)

FirstOwner(b) == LET i == CHOOSE i \in 1..Len(log) :
                            /\ b \in log[i].blobs
                            /\ \A j \in 1..(i - 1) : b \notin log[j].blobs
                 IN log[i].who

\* A serving coordinator holds exactly what the certified groups say, whether
\* it committed them itself, replayed them or confirmed them against a seed;
\* a group in doubt is in none of it (lib.rs:2067-2098, 2105-2263).  A read view
\* is the state at a committed revision for ever: it never shows a group that a
\* later reopening drops (read_view, lib.rs:1134-1142).
MemoryMatchesLog ==
  /\ view.rev <= Len(log)
  /\ view.state = [i \in 1..view.rev |-> log[i].body]
  /\ phase = "up" =>
    /\ state = [i \in 1..Len(log) |-> log[i].body]
    /\ DOMAIN outcomes = {log[i].rk : i \in 1..Len(log)}
    /\ DOMAIN transactions = {log[i].outcome.txn : i \in 1..Len(log)}
    /\ \A i \in 1..Len(log) :
         /\ outcomes[log[i].rk] = log[i].outcome
         /\ transactions[log[i].outcome.txn] = <<log[i].who, log[i].outcome>>
    /\ DOMAIN owners = UNION {log[i].blobs : i \in 1..Len(log)}
    /\ \A b \in DOMAIN owners : owners[b] = FirstOwner(b)

\* Replay accepts what the coordinator itself wrote, from the start and from a
\* checkpoint (replay_group, replay_group_metadata_against_seed).
ReplayAccepts == phase # "refused"

\* Once the process stops failing, a reopening ends with a serving coordinator.
ReopenSettles == (<>[][~Stop]_vars) => (phase = "down" ~> phase = "up")

\* The calls on the journal are those of an abstract commit log.
CL == INSTANCE CommitLog
        WITH committed <- [i \in 1..Len(log) |-> log[i].attempt],
             proposed <- 1..attempts
UsesCommitLog == CL!Spec
=============================================================================
