----------------------------- MODULE TxnProofs ------------------------------
(***************************************************************************)
(* Proofs about TxnCoordinator, for any requests, any limit on outcomes    *)
(* and any number of attempts, checkpoints, crashes and reopenings: each   *)
(* commit happens once, what was answered stays true, memory is the log, a *)
(* replay accepts what was written, and the journal is used as a CommitLog. *)
(*                                                                         *)
(* None of the four safety properties is inductive alone.  What makes them *)
(* so is one fact: whatever the coordinator holds - its memory, the part   *)
(* of it a replay has rebuilt, the published checkpoint and what a seeded  *)
(* replay has yet to confirm - is the record of an interval of the log     *)
(* (Recorded, Owned), and the group whose fate is open fits the end of it  *)
(* (Pending).                                                              *)
(***************************************************************************)
EXTENDS TxnCoordinator, FiniteSetTheorems, TLAPS

Bodies  == {q.body : q \in Requests}
Digests == {Digest(q) : q \in Requests}

Outcomes == [txn : Txns, rev : Nat, digest : Digests, result : Bodies \X Nat,
             expires : Nat]

Groups == [attempt : Nat, rk : Keys, who : Whos, body : Bodies,
           blobs : SUBSET Blobs, outcome : Outcomes]

Phases == {"down", "replaying", "up", "appending", "refused"}

TypeOK ==
  /\ log \in Seq(Groups)
  /\ open \in Nat /\ attempts \in Nat /\ base \in Nat /\ rp \in Nat
  /\ phase \in Phases /\ uncertain \in BOOLEAN
  /\ now \in Times

\* The groups of log l name their revision and what the reducer made of the
\* ones before them, and no two share a key, a transaction or a body.
Regular(l) ==
  /\ \A i \in 1..Len(l) :
       /\ l[i].outcome.rev = i
       /\ l[i].outcome.result = <<l[i].body, i - 1>>
       /\ l[i].rk[1] = l[i].who
  /\ \A i, j \in 1..Len(l) : i # j =>
       /\ l[i].rk # l[j].rk
       /\ l[i].outcome.txn # l[j].outcome.txn
       /\ l[i].body # l[j].body

Log ==
  /\ Len(log) <= MaxOutcomes
  /\ Regular(log)
  /\ \A i \in 1..Len(log) : log[i].attempt \in 1..attempts

\* Group g may be the next of log l.
Fits(l, g) ==
  /\ g.outcome.rev = Len(l) + 1
  /\ g.outcome.result = <<g.body, Len(l)>>
  /\ g.rk[1] = g.who
  /\ \A i \in 1..Len(l) :
       /\ l[i].rk # g.rk /\ l[i].outcome.txn # g.outcome.txn
       /\ l[i].body # g.body /\ l[i].attempt # g.attempt

\* The group handed to the journal, and the call that waits for it.
Pending ==
  /\ phase = "appending" \/ open # 0 =>
       /\ group \in Groups /\ Len(log) < MaxOutcomes
       /\ group.attempt \in 1..attempts /\ Fits(log, group)
  /\ open # 0 => open = group.attempt /\ last.reply \in {"none", "unknown"}
  /\ phase = "appending" =>
       /\ last.req \in Requests /\ group.rk = RetryKey(last.req)
       /\ group.outcome.digest = Digest(last.req)
       /\ group.outcome.txn = last.req.txn
       /\ last.reply = "none"
  /\ (phase = "up" /\ ~uncertain) \/ phase = "replaying" => open = 0

\* outs and txns record the groups lo..hi of log l.
Recorded(l, lo, hi, outs, txns) ==
  /\ \A k \in DOMAIN outs : \E i \in lo..hi : k = l[i].rk
  /\ \A t \in DOMAIN txns : \E i \in lo..hi : t = l[i].outcome.txn
  /\ \A i \in lo..hi :
       /\ l[i].rk \in DOMAIN outs /\ outs[l[i].rk] = l[i].outcome
       /\ l[i].outcome.txn \in DOMAIN txns
       /\ txns[l[i].outcome.txn] = <<l[i].who, l[i].outcome>>

\* Group i is the first of log l to name blob b.
First(l, i, b) == b \in l[i].blobs /\ \A j \in 1..(i - 1) : b \notin l[j].blobs

\* own records the blobs that the groups lo..hi are the first to name.
Owned(l, lo, hi, own) ==
  /\ \A b \in DOMAIN own : \E i \in lo..hi : First(l, i, b) /\ own[b] = l[i].who
  /\ \A i \in lo..hi : \A b \in l[i].blobs :
       b \in DOMAIN own \/ \E j \in 1..(lo - 1) : b \in l[j].blobs

\* st is the reducer after the first n groups.
Reduced(l, n, st) ==
  /\ st \in Seq(Bodies) /\ Len(st) = n
  /\ \A i \in 1..n : st[i] = l[i].body

\* How much of the log the metadata in memory records.
Replayed == IF phase = "replaying" THEN rp
            ELSE IF phase = "down" THEN 0 ELSE Len(log)

Memory ==
  /\ Recorded(log, 1, Replayed, outcomes, transactions)
  /\ Owned(log, 1, Replayed, owners)
  /\ IsFiniteSet(DOMAIN outcomes) /\ Cardinality(DOMAIN outcomes) = Replayed
  /\ phase \in {"up", "appending"} => Reduced(log, Len(log), state)

Replaying ==
  /\ phase = "down" => base = 0 /\ rp = 0
  /\ phase = "replaying" =>
       /\ rp <= Len(log) /\ base <= Len(log)
       /\ Reduced(log, IF rp < base THEN base ELSE rp, state)
       /\ rp < base =>
            /\ Recorded(log, rp + 1, base, expect.outcomes, expect.transactions)
            /\ Owned(log, rp + 1, base, expect.owners)
            /\ base = seed.rev

Seeded ==
  /\ seed.rev \in 0..Len(log)
  /\ Reduced(log, seed.rev, seed.state)
  /\ Recorded(log, 1, seed.rev, seed.metadata.outcomes,
              seed.metadata.transactions)
  /\ Owned(log, 1, seed.rev, seed.metadata.owners)
  /\ seed.rev > 0 => seed.attempt = log[seed.rev].attempt

View == view.rev \in 0..Len(log) /\ Reduced(log, view.rev, view.state)

\* Outcome o is the outcome of the group of log l at its revision.
Holds(l, o) == o.rev \in 1..Len(l) /\ l[o.rev].outcome = o

Replies ==
  /\ \A t \in told :
       /\ Holds(log, t[2]) /\ log[t[2].rev].rk = RetryKey(t[1])
       /\ t[2].digest = Digest(t[1]) /\ t[2].txn = t[1].txn
  /\ last.reply = "found" =>
       Holds(log, last.outcome) /\ log[last.outcome.rev].who = last.req.who
  /\ last.reply \in {"limit", "cancelled"} =>
       \A i \in 1..Len(log) : log[i].rk # RetryKey(last.req)

IInv ==
  /\ TypeOK /\ Log /\ Pending /\ Memory /\ Replaying /\ Seeded /\ View /\ Replies
  /\ phase # "refused"

-----------------------------------------------------------------------------
(***************************************************************************)
(* The maps of the coordinator.                                            *)
(***************************************************************************)
LEMMA RemoveFacts ==
  ASSUME NEW f, NEW xs
  PROVE  /\ DOMAIN Remove(f, xs) = DOMAIN f \ xs
         /\ \A y \in DOMAIN f \ xs : Remove(f, xs)[y] = f[y]
BY SMTT(30) DEF Remove

\* A map with no keys is the empty map.
LEMMA RemoveAll ==
  ASSUME NEW f, NEW xs, DOMAIN f \subseteq xs
  PROVE  Remove(f, xs) = Empty
BY SMTT(30) DEF Remove, Empty

-----------------------------------------------------------------------------
(***************************************************************************)
(* What a prefix of the log records.                                       *)
(***************************************************************************)
\* Log m continues log l.
Continues(l, m) == Len(l) <= Len(m) /\ \A i \in 1..Len(l) : m[i] = l[i]

LEMMA AppendContinues ==
  ASSUME NEW l \in Seq(Groups), NEW g \in Groups
  PROVE  /\ Append(l, g) \in Seq(Groups) /\ Len(Append(l, g)) = Len(l) + 1
         /\ Continues(l, Append(l, g)) /\ Append(l, g)[Len(l) + 1] = g
BY SMTT(30) DEF Continues

LEMMA RecordedContinues ==
  ASSUME NEW l, NEW m, Len(l) \in Nat, Continues(l, m),
         NEW lo \in Nat, 1 <= lo, NEW hi \in 0..Len(l), NEW outs, NEW txns,
         Recorded(l, lo, hi, outs, txns)
  PROVE  Recorded(m, lo, hi, outs, txns)
<1>1. \A i \in lo..hi : m[i] = l[i]
  BY SMTT(30) DEF Continues
<1>2. \A i \in lo..hi : /\ m[i].rk = l[i].rk /\ m[i].outcome = l[i].outcome
                       /\ m[i].outcome.txn = l[i].outcome.txn /\ m[i].who = l[i].who
  BY Zenon, <1>1
<1>3. \A k \in DOMAIN outs : \E i \in lo..hi : k = m[i].rk
  <2> TAKE k \in DOMAIN outs
  <2>1. PICK i \in lo..hi : k = l[i].rk
    BY Zenon DEF Recorded
  <2> QED BY Zenon, <1>2, <2>1
<1>4. \A k \in DOMAIN txns : \E i \in lo..hi : k = m[i].outcome.txn
  <2> TAKE k \in DOMAIN txns
  <2>1. PICK i \in lo..hi : k = l[i].outcome.txn
    BY Zenon DEF Recorded
  <2> QED BY Zenon, <1>2, <2>1
<1>5. \A i \in lo..hi :
        /\ m[i].rk \in DOMAIN outs /\ outs[m[i].rk] = m[i].outcome
        /\ m[i].outcome.txn \in DOMAIN txns
        /\ txns[m[i].outcome.txn] = <<m[i].who, m[i].outcome>>
  BY Zenon, <1>1 DEF Recorded
<1> QED BY Zenon, <1>3, <1>4, <1>5 DEF Recorded

LEMMA OwnedContinues ==
  ASSUME NEW l, NEW m, Len(l) \in Nat, Continues(l, m),
         NEW lo \in Nat, 1 <= lo, NEW hi \in 0..Len(l), NEW own,
         Owned(l, lo, hi, own)
  PROVE  Owned(m, lo, hi, own)
<1>1. \A i \in lo..hi : m[i] = l[i] /\ \A j \in 1..(i - 1) : m[j] = l[j]
  BY SMTT(30) DEF Continues
<1>2. \A i \in lo..hi : \A b : First(l, i, b) => First(m, i, b)
  BY Zenon, <1>1 DEF First
<1>3. \A i \in lo..hi : \A j \in 1..(lo - 1) : m[j] = l[j]
  BY SMTT(30) DEF Continues
<1> QED BY Zenon, <1>1, <1>2, <1>3 DEF Owned

LEMMA ReducedContinues ==
  ASSUME NEW l, NEW m, Len(l) \in Nat, Continues(l, m),
         NEW n \in 0..Len(l), NEW st, Reduced(l, n, st)
  PROVE  Reduced(m, n, st)
<1>1. \A i \in 1..n : m[i] = l[i]
  BY SMTT(30) DEF Continues
<1> QED BY Zenon, <1>1 DEF Reduced

LEMMA HoldsContinues ==
  ASSUME NEW l, NEW m, Len(l) \in Nat, Len(m) \in Nat, Continues(l, m),
         NEW o, Holds(l, o)
  PROVE  Holds(m, o) /\ m[o.rev] = l[o.rev]
BY SMTT(30) DEF Continues, Holds

\* Nothing is recorded of an empty interval.
LEMMA NothingRecorded ==
  ASSUME NEW l, NEW lo \in Nat, NEW hi \in Nat, hi < lo
  PROVE  Recorded(l, lo, hi, Empty, Empty) /\ Owned(l, lo, hi, Empty)
<1>1. lo..hi = {} /\ DOMAIN Empty = {}
  BY SMTT(30) DEF Empty
<1> QED BY Zenon, <1>1 DEF Recorded, Owned

\* The next group of a regular log is unknown to the maps of the ones before
\* it, and is recorded by inserting it.
LEMMA RecordedInsert ==
  ASSUME NEW l, Len(l) \in Nat, Regular(l), NEW n \in Nat, n < Len(l),
         NEW outs, NEW txns, Recorded(l, 1, n, outs, txns)
  PROVE  LET g == l[n + 1] IN
         /\ g.rk \notin DOMAIN outs /\ g.outcome.txn \notin DOMAIN txns
         /\ Recorded(l, 1, n + 1, Insert(outs, g.rk, g.outcome),
                     Insert(txns, g.outcome.txn, <<g.who, g.outcome>>))
<1> DEFINE g == l[n + 1]
           o == Insert(outs, g.rk, g.outcome)
           t == Insert(txns, g.outcome.txn, <<g.who, g.outcome>>)
<1>1. /\ \A i \in 1..n : i \in 1..(n + 1) /\ i \in 1..Len(l) /\ i # n + 1
      /\ \A i \in 1..(n + 1) : i \in 1..n \/ i = n + 1
      /\ n + 1 \in 1..(n + 1) /\ n + 1 \in 1..Len(l)
  BY SMTT(30)
<1>2. \A i \in 1..n : l[i].rk # g.rk /\ l[i].outcome.txn # g.outcome.txn
  BY Zenon, <1>1 DEF Regular
<1>3. g.rk \notin DOMAIN outs /\ g.outcome.txn \notin DOMAIN txns
  BY Zenon, <1>2 DEF Recorded
<1>4. /\ DOMAIN o = DOMAIN outs \cup {g.rk} /\ o[g.rk] = g.outcome
      /\ \A y \in DOMAIN outs : y # g.rk => o[y] = outs[y]
  BY SMTT(30) DEF Insert
<1>5. /\ DOMAIN t = DOMAIN txns \cup {g.outcome.txn}
      /\ t[g.outcome.txn] = <<g.who, g.outcome>>
      /\ \A y \in DOMAIN txns : y # g.outcome.txn => t[y] = txns[y]
  BY SMTT(30) DEF Insert
<1> HIDE DEF o, t
<1>6. \A k \in DOMAIN o : \E i \in 1..(n + 1) : k = l[i].rk
  BY Zenon, <1>1, <1>4 DEF Recorded
<1>7. \A k \in DOMAIN t : \E i \in 1..(n + 1) : k = l[i].outcome.txn
  BY Zenon, <1>1, <1>5 DEF Recorded
<1>8. \A i \in 1..n : /\ l[i].rk \in DOMAIN o /\ o[l[i].rk] = l[i].outcome
                      /\ l[i].outcome.txn \in DOMAIN t
                      /\ t[l[i].outcome.txn] = <<l[i].who, l[i].outcome>>
  BY Zenon, <1>2, <1>4, <1>5 DEF Recorded
<1>9. Recorded(l, 1, n + 1, o, t)
  BY Zenon, <1>1, <1>4, <1>5, <1>6, <1>7, <1>8 DEF Recorded
<1> QED BY Zenon, <1>3, <1>9 DEF o, t

\* The next group is recorded as the owner of the blobs no group named before.
LEMMA OwnedInsert ==
  ASSUME NEW l, Len(l) \in Nat, NEW n \in Nat, n < Len(l), NEW own,
         Owned(l, 1, n, own)
  PROVE  Owned(l, 1, n + 1, OrInsert(own, l[n + 1].blobs, l[n + 1].who))
<1> DEFINE g == l[n + 1]
           w == OrInsert(own, g.blobs, g.who)
<1>1. /\ \A i \in 1..n : i \in 1..(n + 1)
      /\ \A i \in 1..(n + 1) : i \in 1..n \/ i = n + 1
      /\ n + 1 \in 1..(n + 1) /\ (n + 1) - 1 = n /\ 1..(1 - 1) = {}
  BY SMTT(30)
<1>2. /\ DOMAIN w = DOMAIN own \cup g.blobs
      /\ \A b \in DOMAIN own : w[b] = own[b]
      /\ \A b \in g.blobs \ DOMAIN own : w[b] = g.who
  BY SMTT(30) DEF OrInsert
<1> HIDE DEF w
<1>3. \A b \in DOMAIN own : \E i \in 1..(n + 1) : First(l, i, b) /\ w[b] = l[i].who
  BY Zenon, <1>1, <1>2 DEF Owned
<1>4. \A b \in g.blobs \ DOMAIN own : First(l, n + 1, b)
  BY Zenon, <1>1 DEF Owned, First
<1>5. \A i \in 1..(n + 1) : \A b \in l[i].blobs : b \in DOMAIN w
  BY Zenon, <1>1, <1>2 DEF Owned
<1>6. Owned(l, 1, n + 1, w)
  BY Zenon, <1>1, <1>2, <1>3, <1>4, <1>5 DEF Owned
<1> QED BY Zenon, <1>6 DEF w

\* What is still expected of a seed once its next group is confirmed.
LEMMA RecordedRemove ==
  ASSUME NEW l, Len(l) \in Nat, Regular(l), NEW n \in Nat,
         NEW hi \in 0..Len(l), n < hi,
         NEW outs, NEW txns, Recorded(l, n + 1, hi, outs, txns)
  PROVE  LET g == l[n + 1] IN
         Recorded(l, n + 2, hi, Remove(outs, {g.rk}), Remove(txns, {g.outcome.txn}))
<1> DEFINE g == l[n + 1]
           o == Remove(outs, {g.rk})
           t == Remove(txns, {g.outcome.txn})
<1>1. /\ \A i \in (n + 2)..hi : i \in (n + 1)..hi /\ i \in 1..Len(l) /\ i # n + 1
      /\ \A i \in (n + 1)..hi : i \in (n + 2)..hi \/ i = n + 1
      /\ n + 1 \in 1..Len(l)
  BY SMTT(30)
<1>2. \A i \in (n + 2)..hi : l[i].rk # g.rk /\ l[i].outcome.txn # g.outcome.txn
  BY Zenon, <1>1 DEF Regular
<1>3. DOMAIN o = DOMAIN outs \ {g.rk} /\ \A y \in DOMAIN outs \ {g.rk} : o[y] = outs[y]
  BY Zenon, RemoveFacts
<1>4. /\ DOMAIN t = DOMAIN txns \ {g.outcome.txn}
      /\ \A y \in DOMAIN txns \ {g.outcome.txn} : t[y] = txns[y]
  BY Zenon, RemoveFacts
<1> HIDE DEF o, t
<1>5. \A k \in DOMAIN o : \E i \in (n + 2)..hi : k = l[i].rk
  <2> SUFFICES ASSUME NEW k \in DOMAIN o
               PROVE  \E i \in (n + 2)..hi : k = l[i].rk
    OBVIOUS
  <2>1. k \in DOMAIN outs /\ k # g.rk
    BY Zenon, <1>3
  <2>2. PICK i \in (n + 1)..hi : k = l[i].rk
    BY Zenon, <2>1 DEF Recorded
  <2> QED BY Zenon, <1>1, <2>1, <2>2
<1>6. \A k \in DOMAIN t : \E i \in (n + 2)..hi : k = l[i].outcome.txn
  <2> SUFFICES ASSUME NEW k \in DOMAIN t
               PROVE  \E i \in (n + 2)..hi : k = l[i].outcome.txn
    OBVIOUS
  <2>1. k \in DOMAIN txns /\ k # g.outcome.txn
    BY Zenon, <1>4
  <2>2. PICK i \in (n + 1)..hi : k = l[i].outcome.txn
    BY Zenon, <2>1 DEF Recorded
  <2> QED BY Zenon, <1>1, <2>1, <2>2
<1>7. \A i \in (n + 2)..hi :
        /\ l[i].rk \in DOMAIN o /\ o[l[i].rk] = l[i].outcome
        /\ l[i].outcome.txn \in DOMAIN t
        /\ t[l[i].outcome.txn] = <<l[i].who, l[i].outcome>>
  BY Zenon, <1>1, <1>2, <1>3, <1>4 DEF Recorded
<1> QED BY Zenon, <1>5, <1>6, <1>7 DEF Recorded, o, t

LEMMA OwnedRemove ==
  ASSUME NEW l, Len(l) \in Nat, NEW n \in Nat, NEW hi \in 0..Len(l), n < hi,
         NEW own, Owned(l, n + 1, hi, own)
  PROVE  Owned(l, n + 2, hi, Remove(own, l[n + 1].blobs))
<1> DEFINE g == l[n + 1]
           w == Remove(own, g.blobs)
<1>1. /\ \A i \in (n + 2)..hi : i \in (n + 1)..hi
      /\ \A i \in (n + 1)..hi : i \in (n + 2)..hi \/ i = n + 1
      /\ n + 1 \in 1..((n + 2) - 1)
      /\ \A j \in 1..((n + 1) - 1) : j \in 1..((n + 2) - 1)
  BY SMTT(30)
<1>2. DOMAIN w = DOMAIN own \ g.blobs /\ \A b \in DOMAIN own \ g.blobs : w[b] = own[b]
  BY Zenon, RemoveFacts
<1> HIDE DEF w
<1>3. \A b \in DOMAIN w : \E i \in (n + 2)..hi : First(l, i, b) /\ w[b] = l[i].who
  BY SMTT(30), <1>1, <1>2 DEF Owned, First
<1>4. \A i \in (n + 2)..hi : \A b \in l[i].blobs :
        b \in DOMAIN w \/ \E j \in 1..((n + 2) - 1) : b \in l[j].blobs
  BY Zenon, <1>1, <1>2 DEF Owned
<1> QED BY Zenon, <1>3, <1>4 DEF Owned, w

\* A group that fits a regular log continues it.
LEMMA RegularAppend ==
  ASSUME NEW l \in Seq(Groups), NEW g \in Groups, Regular(l), Fits(l, g)
  PROVE  Regular(Append(l, g))
<1> DEFINE m == Append(l, g)
<1>1. /\ Len(l) \in Nat /\ Len(m) = Len(l) + 1 /\ m[Len(l) + 1] = g
      /\ \A i \in 1..Len(l) : m[i] = l[i]
  BY SMTT(30)
<1> HIDE DEF m
<1>2. \A i \in 1..Len(m) : i \in 1..Len(l) \/ i = Len(l) + 1
  BY SMTT(30), <1>1
<1>3. \A i \in 1..Len(l) : /\ m[i].outcome.rev = i
                           /\ m[i].outcome.result = <<m[i].body, i - 1>>
                           /\ m[i].rk[1] = m[i].who
  BY Zenon, <1>1 DEF Regular
<1>4. (Len(l) + 1) - 1 = Len(l)
  BY SMTT(30), <1>1
<1>5. \A i \in 1..Len(m) : /\ m[i].outcome.rev = i
                           /\ m[i].outcome.result = <<m[i].body, i - 1>>
                           /\ m[i].rk[1] = m[i].who
  BY Zenon, <1>1, <1>2, <1>3, <1>4 DEF Fits
<1>6. \A i, j \in 1..Len(m) : i # j =>
        /\ m[i].rk # m[j].rk /\ m[i].outcome.txn # m[j].outcome.txn
        /\ m[i].body # m[j].body
  <2> TAKE i, j \in 1..Len(m)
  <2> HAVE i # j
  <2>1. CASE i \in 1..Len(l) /\ j \in 1..Len(l)
    BY SMTT(30), <1>1, <2>1 DEF Regular
  <2>2. CASE i \in 1..Len(l) /\ j = Len(l) + 1
    BY Zenon, <1>1, <2>2 DEF Fits
  <2>3. CASE i = Len(l) + 1 /\ j \in 1..Len(l)
    BY Zenon, <1>1, <2>3 DEF Fits
  <2> QED BY Zenon, <1>2, <2>1, <2>2, <2>3
<1> QED BY Zenon, <1>5, <1>6 DEF Regular, m

\* The reducer accepts the next group of a regular log, finds the result the
\* group recorded, and holds the groups up to it.
LEMMA ReducedAppend ==
  ASSUME NEW l \in Seq(Groups), Regular(l), NEW n \in Nat, n < Len(l),
         NEW st, Reduced(l, n, st)
  PROVE  /\ Prepares(st, l[n + 1].body)
         /\ Result(st, l[n + 1].body) = l[n + 1].outcome.result
         /\ Reduced(l, n + 1, Append(st, l[n + 1].body))
<1>1. /\ n + 1 \in 1..Len(l) /\ (n + 1) - 1 = n
      /\ \A i \in 1..n : i \in 1..Len(l) /\ i # n + 1
  BY SMTT(30)
<1>2. l[n + 1] \in Groups
  BY SMTT(30), <1>1
<1>3. l[n + 1].body \in Bodies
  BY Zenon, <1>2 DEF Groups
<1>4. Prepares(st, l[n + 1].body)
  <2>1. Len(st) = n /\ \A i \in 1..n : st[i] = l[i].body
    BY Zenon DEF Reduced
  <2>2. \A i \in 1..n : l[i].body # l[n + 1].body
    BY Zenon, <1>1 DEF Regular
  <2> QED BY Zenon, <2>1, <2>2 DEF Prepares
<1>5. Result(st, l[n + 1].body) = l[n + 1].outcome.result
  BY SMTT(30), <1>1 DEF Result, Reduced, Regular
<1>6. Reduced(l, n + 1, Append(st, l[n + 1].body))
  BY SMTT(30), <1>3 DEF Reduced
<1> QED BY Zenon, <1>4, <1>5, <1>6

-----------------------------------------------------------------------------
(***************************************************************************)
(* The inductive step, action by action.                                   *)
(***************************************************************************)
\* A call that writes nothing only answers.
LEMMA AnswerKeeps ==
  ASSUME IInv, phase = "up",
         UNCHANGED <<journal, memory, replay, seed, view, now>>,
         ~uncertain \/ last'.reply = "unknown", Replies'
  PROVE  IInv'
<1>1. /\ UNCHANGED <<log, open, group, attempts, phase, uncertain, state, outcomes>>
      /\ UNCHANGED <<transactions, owners, expect, base, rp, seed, view, now>>
  BY Zenon DEF journal, memory, replay
<1>2. TypeOK' /\ Log'
  BY Zenon, <1>1 DEF IInv, TypeOK, Log
<1>3. Pending'
  BY Zenon, <1>1 DEF IInv, Pending
<1>4. Replayed' = Replayed
  BY Zenon, <1>1 DEF Replayed
<1>5. Memory'
  BY Zenon, <1>1, <1>4 DEF IInv, Memory
<1>6. Replaying' /\ Seeded' /\ View'
  BY Zenon, <1>1 DEF IInv, Replaying, Seeded, View
<1> QED BY Zenon, <1>1, <1>2, <1>3, <1>5, <1>6 DEF IInv

\* While it serves, the coordinator knows every group of the log.
LEMMA Serving ==
  ASSUME IInv, phase \in {"up", "appending"}
  PROVE  /\ log \in Seq(Groups) /\ Len(log) \in Nat /\ Replayed = Len(log)
         /\ Recorded(log, 1, Len(log), outcomes, transactions)
         /\ Owned(log, 1, Len(log), owners)
         /\ Reduced(log, Len(log), state)
         /\ Cardinality(DOMAIN outcomes) = Len(log)
         /\ IsFiniteSet(DOMAIN outcomes)
<1>1. log \in Seq(Groups) /\ Len(log) \in Nat
  BY SMTT(30) DEF IInv, TypeOK
<1>2. Replayed = Len(log)
  BY SMTT(30) DEF Replayed
<1> QED BY Zenon, <1>1, <1>2 DEF IInv, Memory

\* A known outcome is the outcome of the group at its revision.
LEMMA KnownHolds ==
  ASSUME IInv, phase = "up", NEW q \in Requests, Known(q)
  PROVE  LET o == outcomes[RetryKey(q)] IN
         /\ Holds(log, o) /\ log[o.rev].rk = RetryKey(q)
         /\ log[o.rev].who = q.who
<1> DEFINE o == outcomes[RetryKey(q)]
<1>1. PICK i \in 1..Len(log) : RetryKey(q) = log[i].rk
  BY Zenon, Serving DEF Known, Recorded
<1>2. o = log[i].outcome
  BY Zenon, <1>1, Serving DEF Recorded
<1>3. o.rev = i /\ log[i].rk[1] = log[i].who
  BY Zenon, <1>2 DEF IInv, Log, Regular
<1>4. RetryKey(q)[1] = q.who
  BY SMTT(30) DEF RetryKey
<1> QED BY Zenon, <1>1, <1>2, <1>3, <1>4 DEF Holds

LEMMA RefuseKeeps ==
  ASSUME IInv, phase = "up", NEW q \in Requests, NEW r, Refuse(q, r),
         ~uncertain \/ r = "unknown",
         r # "found", r \in {"limit", "cancelled"} => ~Known(q)
  PROVE  IInv'
<1>1. last'.reply = r /\ last'.req = q
  BY SMTT(30) DEF Refuse, Reply
<1>2. UNCHANGED <<journal, memory, replay, seed, view, now>> /\ told' = told
  BY Zenon DEF Refuse
<1>3. log' = log
  BY Zenon, <1>2 DEF journal
<1>4. r \in {"limit", "cancelled"} => \A i \in 1..Len(log) : log[i].rk # RetryKey(q)
  BY Zenon, Serving DEF Known, Recorded
<1>5. Replies'
  BY Zenon, <1>1, <1>2, <1>3, <1>4 DEF IInv, Replies
<1> QED BY Zenon, <1>1, <1>2, <1>5, AnswerKeeps

\* A retry is answered with the outcome of its group.
LEMMA AnswerKnownKeeps ==
  ASSUME IInv, phase = "up", NEW q \in Requests, AnswerKnown(q)
  PROVE  IInv'
<1> DEFINE o == outcomes[RetryKey(q)]
<1>1. CASE Refuse(q, "expired")
  BY SMTT(30), <1>1, RefuseKeeps DEF AnswerKnown
<1>2. CASE Refuse(q, "conflict")
  BY SMTT(30), <1>2, RefuseKeeps DEF AnswerKnown
<1>3. CASE /\ o.digest = Digest(q) /\ o.txn = q.txn
           /\ Reply(q, "committed", o) /\ told' = told \cup {<<q, o>>}
           /\ UNCHANGED <<journal, memory, replay, seed, view, now>>
  <2>1. last'.reply = "committed"
    BY SMTT(30), <1>3 DEF Reply
  <2>2. log' = log
    BY Zenon, <1>3 DEF journal
  <2>3. Holds(log, o) /\ log[o.rev].rk = RetryKey(q)
    BY Zenon, KnownHolds DEF AnswerKnown
  <2>4. <<q, o>>[1] = q /\ <<q, o>>[2] = o
    BY Zenon
  <2>5. \A t \in told' :
          /\ Holds(log, t[2]) /\ log[t[2].rev].rk = RetryKey(t[1])
          /\ t[2].digest = Digest(t[1]) /\ t[2].txn = t[1].txn
    BY Zenon, <1>3, <2>3, <2>4 DEF IInv, Replies
  <2>6. Replies'
    BY Zenon, <2>1, <2>2, <2>5 DEF Replies
  <2> QED BY Zenon, <1>3, <2>6, AnswerKeeps DEF AnswerKnown
<1> QED BY Zenon, <1>1, <1>2, <1>3 DEF AnswerKnown

LEMMA RefuseFreshKeeps ==
  ASSUME IInv, phase = "up", NEW q \in Requests, RefuseFresh(q)
  PROVE  IInv'
<1>1. PICK r \in {"conflict", "limit", "cancelled"} : Refuse(q, r)
  BY Zenon DEF RefuseFresh
<1> QED BY Zenon, <1>1, RefuseKeeps DEF RefuseFresh

LEMMA LookKeeps ==
  ASSUME IInv, NEW q \in Requests, NEW found \in BOOLEAN, NEW o,
         found => Holds(log, o) /\ log[o.rev].who = q.who,
         \/ ~found /\ Refuse(q, "absent")
         \/ found /\ Refuse(q, "expired")
         \/ /\ found /\ Reply(q, "found", o)
            /\ UNCHANGED <<journal, memory, replay, seed, view, now, told>>,
         phase = "up", ~uncertain
  PROVE  IInv'
<1>1. CASE Refuse(q, "absent") \/ Refuse(q, "expired")
  BY SMTT(30), <1>1, RefuseKeeps
<1>2. CASE /\ found /\ Reply(q, "found", o)
           /\ UNCHANGED <<journal, memory, replay, seed, view, now, told>>
  <2>1. last'.reply = "found" /\ last'.req = q /\ last'.outcome = o
    BY SMTT(30), <1>2 DEF Reply
  <2>2. log' = log /\ told' = told
    BY Zenon, <1>2 DEF journal
  <2>3. last'.reply \notin {"limit", "cancelled"}
    BY SMTT(30), <2>1
  <2>4. Replies'
    BY Zenon, <1>2, <2>1, <2>2, <2>3 DEF IInv, Replies
  <2> QED BY Zenon, <1>2, <2>4, AnswerKeeps
<1> QED BY Zenon, <1>1, <1>2

LEMMA OutcomeKeeps ==
  ASSUME IInv, NEW q \in Requests, Outcome(q)
  PROVE  IInv'
<1>1. phase = "up" /\ ~uncertain
  BY Zenon DEF Outcome, Look
<1>2. Known(q) \in BOOLEAN
  BY SMTT(30) DEF Known
<1>3. Known(q) => LET o == outcomes[RetryKey(q)] IN
                  Holds(log, o) /\ log[o.rev].who = q.who
  BY Zenon, <1>1, KnownHolds
<1> QED BY Zenon, <1>1, <1>2, <1>3, LookKeeps DEF Outcome, Look

LEMMA TransactionOutcomeForKeeps ==
  ASSUME IInv, NEW q \in Requests, TransactionOutcomeFor(q)
  PROVE  IInv'
<1> DEFINE t == transactions[q.txn]
           found == q.txn \in DOMAIN transactions /\ t[1] = q.who
<1>1. phase = "up" /\ ~uncertain
  BY Zenon DEF TransactionOutcomeFor, Look
<1>2. ASSUME found
      PROVE  Holds(log, t[2]) /\ log[t[2].rev].who = q.who
  <2>1. PICK i \in 1..Len(log) : q.txn = log[i].outcome.txn
    BY Zenon, <1>1, <1>2, Serving DEF Recorded
  <2>2. t = <<log[i].who, log[i].outcome>>
    BY Zenon, <1>1, <2>1, Serving DEF Recorded
  <2>3. t[1] = log[i].who /\ t[2] = log[i].outcome
    BY SMTT(30), <2>2
  <2>4. t[2].rev = i
    BY Zenon, <2>3 DEF IInv, Log, Regular
  <2> QED BY Zenon, <1>2, <2>3, <2>4 DEF Holds
<1>3. found \in BOOLEAN
  BY Zenon
<1>4. Look(q, found, t[2])
  BY Zenon DEF TransactionOutcomeFor
<1> HIDE DEF found
<1> QED BY Zenon, <1>1, <1>2, <1>3, <1>4, LookKeeps DEF Look

\* A request that reaches the journal was unknown to the log in every respect,
\* so its group fits the end of it.
LEMMA SubmitKeeps ==
  ASSUME IInv, phase = "up", NEW q \in Requests, Submit(q)
  PROVE  IInv'
<1>1. /\ UNCHANGED <<log, open, uncertain, state, outcomes, transactions, owners>>
      /\ UNCHANGED <<expect, base, rp, seed, view, now, told>>
      /\ attempts' = attempts + 1 /\ phase' = "appending"
  BY Zenon DEF Submit, replay
<1>2. ~uncertain /\ open = 0
  BY Zenon DEF Submit, Fresh, IInv, Pending
<1>3. last'.req = q /\ last'.reply = "none"
  BY SMTT(30) DEF Submit, Reply
<1>4. /\ log \in Seq(Groups) /\ Len(log) \in Nat /\ Reduced(log, Len(log), state)
      /\ Recorded(log, 1, Len(log), outcomes, transactions)
      /\ Cardinality(DOMAIN outcomes) = Len(log)
  BY Zenon, Serving
<1>5. attempts \in Nat /\ attempts' \in 1..attempts' /\ attempts' \in Nat
      /\ \A a \in 1..attempts : a \in 1..attempts' /\ a # attempts'
  BY SMTT(30), <1>1 DEF IInv, TypeOK
<1>6. Len(log) < MaxOutcomes
  BY SMTT(30), <1>4 DEF Submit, Fresh
<1>7. /\ group'.attempt = attempts' /\ group'.rk = RetryKey(q) /\ group'.who = q.who
      /\ group'.body = q.body /\ group'.blobs = q.blobs
      /\ group'.outcome.txn = q.txn /\ group'.outcome.rev = Len(log) + 1
      /\ group'.outcome.digest = Digest(q)
      /\ group'.outcome.result = <<q.body, Len(log)>>
  BY SMTT(30), <1>1, <1>4 DEF Submit, Group, Result, Reduced
<1>8. group' \in Groups
  <2>1. now + Retention \in Nat
    BY SMTT(30), TxnAssumption DEF IInv, TypeOK, Times
  <2>2. group' = Group(q, attempts')
    BY Zenon, <1>1 DEF Submit
  <2>3. /\ RetryKey(q) \in Keys /\ q.who \in Whos /\ q.body \in Bodies
        /\ q.txn \in Txns /\ Digest(q) \in Digests /\ q.blobs \subseteq Blobs
    BY Zenon DEF Keys, Whos, Bodies, Txns, Digests, Blobs
  <2>4. Result(state, q.body) \in Bodies \X Nat
    BY SMTT(30), <1>4, <2>3 DEF Result, Reduced
  <2> QED BY SMTT(30), <1>4, <1>5, <2>1, <2>2, <2>3, <2>4 DEF Group, Groups, Outcomes
<1>9. group'.rk[1] = group'.who
  BY SMTT(30), <1>7 DEF RetryKey
<1>10. \A i \in 1..Len(log) : log[i].rk # RetryKey(q)
  BY Zenon, <1>4 DEF Submit, Fresh, Known, Recorded
<1>11. \A i \in 1..Len(log) : log[i].outcome.txn # q.txn
  BY Zenon, <1>4 DEF Submit, Fresh, Recorded
<1>12. \A i \in 1..Len(log) : log[i].body # q.body
  BY SMTT(30), <1>4 DEF Submit, Fresh, Prepares, Reduced
<1>13. \A i \in 1..Len(log) : log[i].attempt # attempts'
  BY Zenon, <1>5 DEF IInv, Log
<1>14. Fits(log, group')
  BY Zenon, <1>7, <1>9, <1>10, <1>11, <1>12, <1>13 DEF Fits
<1>15. Pending'
  BY Zenon, <1>1, <1>2, <1>3, <1>5, <1>6, <1>7, <1>8, <1>14 DEF Pending
<1>16. TypeOK'
  BY Zenon, <1>1, <1>5 DEF IInv, TypeOK, Phases
<1>17. Log'
  BY Zenon, <1>1, <1>5 DEF IInv, Log
<1>18. Replayed' = Len(log) /\ Replayed = Len(log)
  BY SMTT(30), <1>1 DEF Replayed
<1>19. Memory'
  BY Zenon, <1>1, <1>4, <1>18 DEF IInv, Memory
<1>20. Replaying' /\ Seeded' /\ View' /\ phase' # "refused"
  BY SMTT(30), <1>1 DEF IInv, Replaying, Seeded, View
<1>21. Replies'
  BY SMTT(30), <1>1, <1>3 DEF IInv, Replies
<1> QED BY Zenon, <1>15, <1>16, <1>17, <1>19, <1>20, <1>21 DEF IInv

LEMMA CommitKeeps ==
  ASSUME IInv, NEW q \in Requests, Commit(q)
  PROVE  IInv'
<1>1. phase = "up"
  BY Zenon DEF Commit
<1>2. CASE Quarantined(q)
  BY SMTT(30), <1>1, <1>2, RefuseKeeps DEF Quarantined
<1>3. CASE ClockFails(q)
  BY SMTT(30), <1>1, <1>3, RefuseKeeps DEF ClockFails
<1>4. CASE AnswerKnown(q)
  BY Zenon, <1>1, <1>4, AnswerKnownKeeps
<1>5. CASE RefuseFresh(q)
  BY Zenon, <1>1, <1>5, RefuseFreshKeeps
<1>6. CASE Submit(q)
  BY Zenon, <1>1, <1>6, SubmitKeeps
<1> QED BY Zenon, <1>2, <1>3, <1>4, <1>5, <1>6 DEF Commit

\* The journal starts to write: only its own view of the attempt changes.
LEMMA JournalWritesKeeps ==
  ASSUME IInv, JournalWrites
  PROVE  IInv'
<1>1. /\ UNCHANGED <<log, group, attempts, phase, uncertain, state, outcomes>>
      /\ UNCHANGED <<transactions, owners, expect, base, rp, seed, view, now, last, told>>
      /\ open' = group.attempt /\ phase = "appending"
  BY Zenon DEF JournalWrites, memory, replay
<1>2. TypeOK'
  BY SMTT(30), <1>1 DEF IInv, TypeOK, Pending
<1>3. Log'
  BY Zenon, <1>1 DEF IInv, Log
<1>4. Pending'
  BY SMTT(30), <1>1 DEF IInv, Pending
<1>5. Replayed' = Replayed
  BY Zenon, <1>1 DEF Replayed
<1>6. Memory'
  BY Zenon, <1>1, <1>5 DEF IInv, Memory
<1>7. Replaying' /\ Seeded' /\ View' /\ Replies' /\ phase' # "refused"
  BY Zenon, <1>1 DEF IInv, Replaying, Seeded, View, Replies
<1> QED BY Zenon, <1>2, <1>3, <1>4, <1>6, <1>7 DEF IInv

\* What appending the pending group does to everything that reads the log.
LEMMA LogGrows ==
  ASSUME IInv, log' = Append(log, group), group \in Groups,
         Fits(log, group), Len(log) < MaxOutcomes, group.attempt \in 1..attempts,
         UNCHANGED <<attempts, seed, view>>
  PROVE  /\ log' \in Seq(Groups) /\ Len(log) \in Nat /\ Len(log') = Len(log) + 1
         /\ Continues(log, log') /\ log'[Len(log) + 1] = group
         /\ Log' /\ Seeded' /\ View'
<1>1. log \in Seq(Groups) /\ Len(log) \in Nat
  BY SMTT(30) DEF IInv, TypeOK
<1>2. /\ log' \in Seq(Groups) /\ Len(log') = Len(log) + 1
      /\ Continues(log, log') /\ log'[Len(log) + 1] = group
  BY Zenon, <1>1, AppendContinues
<1>3. Log'
  <2>1. Regular(log')
    BY Zenon, <1>1, RegularAppend DEF IInv, Log
  <2>2. Len(log') <= MaxOutcomes
    BY SMTT(30), <1>1, <1>2, TxnAssumption
  <2>3. \A i \in 1..Len(log') : i \in 1..Len(log) \/ i = Len(log) + 1
    BY SMTT(30), <1>1, <1>2
  <2>4. \A i \in 1..Len(log') : log'[i].attempt \in 1..attempts'
    BY Zenon, <1>2, <2>3 DEF IInv, Log, Continues
  <2> QED BY Zenon, <2>1, <2>2, <2>4 DEF Log
<1>4. Seeded'
  <2> DEFINE n == seed.rev
             md == seed.metadata
  <2>1. n \in 0..Len(log) /\ n \in 0..Len(log') /\ 1 \in Nat /\ 1 <= 1
    BY SMTT(30), <1>1, <1>2 DEF IInv, Seeded
  <2>2. Reduced(log', n, seed.state)
    BY Zenon, <1>1, <1>2, <2>1, ReducedContinues DEF IInv, Seeded
  <2>3. Recorded(log', 1, n, md.outcomes, md.transactions)
    BY Zenon, <1>1, <1>2, <2>1, RecordedContinues DEF IInv, Seeded
  <2>4. Owned(log', 1, n, md.owners)
    BY Zenon, <1>1, <1>2, <2>1, OwnedContinues DEF IInv, Seeded
  <2>5. n > 0 => seed.attempt = log'[n].attempt
    BY SMTT(30), <1>1, <1>2, <2>1 DEF IInv, Seeded, Continues
  <2> QED BY Zenon, <2>1, <2>2, <2>3, <2>4, <2>5 DEF Seeded
<1>5. View'
  <2>1. view.rev \in 0..Len(log) /\ view.rev \in 0..Len(log')
    BY SMTT(30), <1>1, <1>2 DEF IInv, View
  <2>2. Reduced(log', view.rev, view.state)
    BY Zenon, <1>1, <1>2, <2>1, ReducedContinues DEF IInv, View
  <2> QED BY Zenon, <2>1, <2>2 DEF View
<1> QED BY Zenon, <1>1, <1>2, <1>3, <1>4, <1>5

\* The outcomes reported so far stay those of their groups.
LEMMA ToldStaysTrue ==
  ASSUME IInv, Len(log) \in Nat, Len(log') \in Nat, Continues(log, log'),
         NEW t \in told
  PROVE  /\ Holds(log', t[2]) /\ log'[t[2].rev].rk = RetryKey(t[1])
         /\ t[2].digest = Digest(t[1]) /\ t[2].txn = t[1].txn
<1>1. /\ Holds(log, t[2]) /\ log[t[2].rev].rk = RetryKey(t[1])
      /\ t[2].digest = Digest(t[1]) /\ t[2].txn = t[1].txn
  BY Zenon DEF IInv, Replies
<1>2. Holds(log', t[2]) /\ log'[t[2].rev] = log[t[2].rev]
  BY SMTT(30), <1>1 DEF Holds, Continues
<1> QED BY Zenon, <1>1, <1>2

\* Recording the group at position n + 1 of a log that memory knows up to n.
LEMMA PublishMetadata ==
  ASSUME NEW l \in Seq(Groups), Regular(l), NEW n \in Nat, n < Len(l),
         Recorded(l, 1, n, outcomes, transactions), Owned(l, 1, n, owners),
         IsFiniteSet(DOMAIN outcomes), Cardinality(DOMAIN outcomes) = n,
         outcomes' = Insert(outcomes, l[n + 1].rk, l[n + 1].outcome),
         transactions' = Insert(transactions, l[n + 1].outcome.txn,
                                <<l[n + 1].who, l[n + 1].outcome>>),
         owners' = OrInsert(owners, l[n + 1].blobs, l[n + 1].who)
  PROVE  /\ Recorded(l, 1, n + 1, outcomes', transactions')
         /\ Owned(l, 1, n + 1, owners')
         /\ IsFiniteSet(DOMAIN outcomes') /\ Cardinality(DOMAIN outcomes') = n + 1
<1>1. Len(l) \in Nat
  BY SMTT(30)
<1>2. l[n + 1].rk \notin DOMAIN outcomes
  BY Zenon, <1>1, RecordedInsert
<1>3. Recorded(l, 1, n + 1, outcomes', transactions')
  BY Zenon, <1>1, RecordedInsert
<1>4. Owned(l, 1, n + 1, owners')
  BY Zenon, <1>1, OwnedInsert
<1>5. DOMAIN outcomes' = DOMAIN outcomes \cup {l[n + 1].rk}
  BY SMTT(30) DEF Insert
<1>6. /\ IsFiniteSet(DOMAIN outcomes \cup {l[n + 1].rk})
      /\ Cardinality(DOMAIN outcomes \cup {l[n + 1].rk})
           = Cardinality(DOMAIN outcomes) + 1
  BY Zenon, <1>2, FS_AddElement
<1> QED BY Zenon, <1>3, <1>4, <1>5, <1>6

\* append_group returned: the log, the memory and the answer agree.
LEMMA JournalAcksKeeps ==
  ASSUME IInv, JournalAcks
  PROVE  IInv'
<1>1. /\ UNCHANGED <<attempts, uncertain, expect, base, rp, seed, view, now>>
      /\ log' = Append(log, group) /\ open' = 0
      /\ phase = "appending" /\ phase' = "up"
      /\ told' = told \cup {<<last.req, group.outcome>>} /\ Publish(group)
  BY Zenon DEF JournalAcks, replay
<1>2. last'.reply = "committed"
  BY SMTT(30) DEF JournalAcks, Reply
<1>3. /\ group \in Groups /\ Fits(log, group) /\ Len(log) < MaxOutcomes
      /\ group.attempt \in 1..attempts
      /\ group.rk = RetryKey(last.req) /\ group.outcome.digest = Digest(last.req)
      /\ group.outcome.txn = last.req.txn
  BY Zenon, <1>1 DEF IInv, Pending
<1>4. /\ log' \in Seq(Groups) /\ Len(log) \in Nat /\ Len(log') = Len(log) + 1
      /\ Continues(log, log') /\ log'[Len(log) + 1] = group
      /\ Log' /\ Seeded' /\ View'
  BY Zenon, <1>1, <1>3, LogGrows
<1>5. /\ Len(log) \in 0..Len(log) /\ Len(log) < Len(log') /\ Len(log') \in Nat
      /\ 1 \in Nat /\ 1 <= 1
  BY SMTT(30), <1>4
<1>6. /\ Recorded(log, 1, Len(log), outcomes, transactions)
      /\ Owned(log, 1, Len(log), owners) /\ Reduced(log, Len(log), state)
      /\ IsFiniteSet(DOMAIN outcomes) /\ Cardinality(DOMAIN outcomes) = Len(log)
  BY Zenon, <1>1, Serving
<1>7. /\ Recorded(log', 1, Len(log), outcomes, transactions)
      /\ Owned(log', 1, Len(log), owners) /\ Reduced(log', Len(log), state)
  BY Zenon, <1>4, <1>5, <1>6, RecordedContinues, OwnedContinues, ReducedContinues
<1>8. /\ Recorded(log', 1, Len(log'), outcomes', transactions')
      /\ Owned(log', 1, Len(log'), owners')
      /\ IsFiniteSet(DOMAIN outcomes') /\ Cardinality(DOMAIN outcomes') = Len(log')
  <2>1. /\ outcomes' = Insert(outcomes, group.rk, group.outcome)
        /\ transactions' = Insert(transactions, group.outcome.txn,
                                  <<group.who, group.outcome>>)
        /\ owners' = OrInsert(owners, group.blobs, group.who)
    BY Zenon, <1>1 DEF Publish
  <2>2. Regular(log')
    BY Zenon, <1>4 DEF Log
  <2> QED BY Zenon, <1>4, <1>5, <1>6, <1>7, <2>1, <2>2, PublishMetadata
<1>9. Reduced(log', Len(log'), state')
  <2>1. state' = Append(state, group.body)
    BY Zenon, <1>1 DEF Publish
  <2>2. Regular(log')
    BY Zenon, <1>4 DEF Log
  <2> QED BY Zenon, <1>4, <1>5, <1>7, <2>1, <2>2, ReducedAppend
<1>10. Replayed' = Len(log')
  BY SMTT(30), <1>1 DEF Replayed
<1>11. Memory'
  BY Zenon, <1>8, <1>9, <1>10 DEF Memory
<1>12. TypeOK'
  BY SMTT(30), <1>1, <1>4 DEF IInv, TypeOK, Phases
<1>13. Pending' /\ Replaying' /\ phase' # "refused"
  BY SMTT(30), <1>1 DEF Pending, Replaying
<1>14. Replies'
  <2> DEFINE t == <<last.req, group.outcome>>
  <2>1. t[1] = last.req /\ t[2] = group.outcome
    BY SMTT(30)
  <2>2. group.outcome.rev = Len(log')
    BY SMTT(30), <1>3, <1>4 DEF Fits
  <2>3. Holds(log', group.outcome) /\ log'[group.outcome.rev] = group
    BY SMTT(30), <1>4, <2>2 DEF Holds
  <2>4. /\ Holds(log', t[2]) /\ log'[t[2].rev].rk = RetryKey(t[1])
        /\ t[2].digest = Digest(t[1]) /\ t[2].txn = t[1].txn
    BY Zenon, <1>3, <2>1, <2>3
  <2> HIDE DEF t
  <2>5. \A u \in told' : u \in told \/ u = t
    BY Zenon, <1>1 DEF t
  <2>6. \A u \in told' :
          /\ Holds(log', u[2]) /\ log'[u[2].rev].rk = RetryKey(u[1])
          /\ u[2].digest = Digest(u[1]) /\ u[2].txn = u[1].txn
    BY Zenon, <1>4, <1>5, <2>4, <2>5, ToldStaysTrue
  <2>7. last'.reply \notin {"found", "limit", "cancelled"}
    BY SMTT(30), <1>2
  <2> QED BY Zenon, <2>6, <2>7 DEF Replies
<1> QED BY Zenon, <1>4, <1>11, <1>12, <1>13, <1>14 DEF IInv

\* The journal refused, or failed with the outcome open.
LEMMA JournalErrorKeeps ==
  ASSUME IInv, JournalRefuses \/ JournalFails
  PROVE  IInv'
<1>1. /\ UNCHANGED <<log, open, attempts, state, outcomes, transactions, owners>>
      /\ UNCHANGED <<expect, base, rp, seed, view, now, told>>
      /\ phase = "appending" /\ phase' = "up" /\ uncertain' \in BOOLEAN
      /\ open = 0 \/ (uncertain' = TRUE /\ group' = group)
  BY Zenon DEF JournalRefuses, JournalFails, journal, replay, IInv, TypeOK
<1>2. last'.req = last.req /\ last'.reply \in {"limit", "unknown"}
      /\ (last'.reply = "limit" => open = 0)
  BY SMTT(30) DEF JournalRefuses, JournalFails, Reply
<1>3. open # 0 => uncertain' = TRUE /\ group' = group /\ last'.reply = "unknown"
  BY Zenon, <1>1, <1>2
<1>4. Pending'
  BY Zenon, <1>1, <1>3 DEF IInv, Pending
<1>5. TypeOK'
  BY Zenon, <1>1 DEF IInv, TypeOK, Phases
<1>6. Log'
  BY Zenon, <1>1 DEF IInv, Log
<1>7. Replayed' = Len(log) /\ Replayed = Len(log)
  BY SMTT(30), <1>1 DEF Replayed
<1>8. Memory'
  BY Zenon, <1>1, <1>7 DEF IInv, Memory
<1>9. Replaying' /\ Seeded' /\ View' /\ phase' # "refused"
  BY SMTT(30), <1>1 DEF IInv, Replaying, Seeded, View
<1>10. \A i \in 1..Len(log) : log[i].rk # RetryKey(last.req)
  BY Zenon, <1>1 DEF IInv, Pending, Fits
<1>11. last'.reply # "found"
  BY SMTT(30), <1>2
<1>12. Replies'
  BY Zenon, <1>1, <1>2, <1>10, <1>11 DEF IInv, Replies
<1> QED BY Zenon, <1>4, <1>5, <1>6, <1>8, <1>9, <1>12 DEF IInv

LEMMA ReadViewKeeps ==
  ASSUME IInv, ReadView
  PROVE  IInv'
<1>1. /\ UNCHANGED <<log, open, group, attempts, phase, uncertain, state, outcomes>>
      /\ UNCHANGED <<transactions, owners, expect, base, rp, seed, now, last, told>>
      /\ phase = "up"
  BY Zenon DEF ReadView, journal, memory, replay
<1>2. view'.rev = Len(log) /\ view'.state = state
  BY SMTT(30) DEF ReadView
<1>3. View'
  BY SMTT(30), <1>1, <1>2, Serving DEF View
<1>4. TypeOK' /\ Log' /\ Pending' /\ Replaying' /\ Seeded' /\ Replies'
  BY Zenon, <1>1 DEF IInv, TypeOK, Log, Pending, Replaying, Seeded, Replies
<1>5. Replayed' = Replayed
  BY Zenon, <1>1 DEF Replayed
<1>6. Memory' /\ phase' # "refused"
  BY Zenon, <1>1, <1>5 DEF IInv, Memory
<1> QED BY Zenon, <1>3, <1>4, <1>6 DEF IInv

\* A checkpoint is the record of the whole log.
LEMMA PublishCheckpointKeeps ==
  ASSUME IInv, PublishCheckpoint
  PROVE  IInv'
<1>1. /\ UNCHANGED <<log, open, group, attempts, phase, uncertain, state, outcomes>>
      /\ UNCHANGED <<transactions, owners, expect, base, rp, view, now, last, told>>
      /\ phase = "up"
  BY Zenon DEF PublishCheckpoint, journal, memory, replay
<1>2. /\ seed'.rev = Len(log) /\ seed'.attempt = log[Len(log)].attempt
      /\ seed'.state = state /\ seed'.metadata.outcomes = outcomes
      /\ seed'.metadata.transactions = transactions /\ seed'.metadata.owners = owners
  BY SMTT(30) DEF PublishCheckpoint, RecoverySeed
<1>3. Len(log) \in 0..Len(log)
  BY SMTT(30), <1>1, Serving
<1>4. Seeded'
  BY Zenon, <1>1, <1>2, <1>3, Serving DEF Seeded
<1>5. TypeOK' /\ Log' /\ Pending' /\ View' /\ Replies'
  BY Zenon, <1>1 DEF IInv, TypeOK, Log, Pending, View, Replies
<1>6. Replayed' = Replayed
  BY Zenon, <1>1 DEF Replayed
<1>7. Memory' /\ phase' # "refused"
  BY Zenon, <1>1, <1>6 DEF IInv, Memory
<1>8. Replaying'
  BY SMTT(30), <1>1 DEF Replaying
<1> QED BY Zenon, <1>4, <1>5, <1>7, <1>8 DEF IInv

LEMMA EmptyIsFinite == IsFiniteSet(DOMAIN Empty) /\ Cardinality(DOMAIN Empty) = 0
<1>1. DOMAIN Empty = {}
  BY SMTT(30) DEF Empty
<1> QED BY Zenon, <1>1, FS_EmptySet

LEMMA StopKeeps ==
  ASSUME IInv, Stop
  PROVE  IInv'
<1>1. /\ UNCHANGED <<log, open, group, attempts, seed, view, now, last, told>>
      /\ phase' = "down" /\ uncertain' = FALSE /\ base' = 0 /\ rp' = 0
      /\ outcomes' = Empty /\ transactions' = Empty /\ owners' = Empty
  BY Zenon DEF Stop, journal
<1>2. Replayed' = 0
  BY SMTT(30), <1>1 DEF Replayed
<1>3. Recorded(log, 1, 0, Empty, Empty) /\ Owned(log, 1, 0, Empty)
  BY SMTT(30), NothingRecorded
<1>4. phase' \notin {"up", "appending", "replaying", "refused"}
  BY SMTT(30), <1>1
<1>5. Memory'
  BY Zenon, <1>1, <1>2, <1>3, <1>4, EmptyIsFinite DEF Memory
<1>6. TypeOK'
  <2>1. 0 \in Nat
    BY SMTT(30)
  <2> QED BY Zenon, <1>1, <2>1 DEF IInv, TypeOK, Phases
<1>7. Log' /\ Seeded' /\ View' /\ Replies'
  BY Zenon, <1>1 DEF IInv, Log, Seeded, View, Replies
<1>8. Pending' /\ Replaying'
  BY Zenon, <1>1, <1>4 DEF IInv, Pending, Replaying
<1> QED BY Zenon, <1>4, <1>5, <1>6, <1>7, <1>8 DEF IInv

\* What a reopening leaves of the log: itself, or itself and the open group.
LEMMA ReopenLog ==
  ASSUME IInv, NEW sd, Reopen(sd)
  PROVE  /\ log' \in Seq(Groups) /\ Len(log) \in Nat /\ Len(log') \in Nat
         /\ Continues(log, log') /\ Log' /\ Seeded' /\ View'
         /\ log' = log \/ open # 0
<1>1. UNCHANGED <<attempts, seed, view>> /\ (log' = log \/ open # 0)
      /\ (log' = log \/ log' = Append(log, group))
  BY Zenon DEF Reopen
<1>2. CASE log' = log
  <2>1. log \in Seq(Groups) /\ Len(log) \in Nat /\ Continues(log, log)
    BY SMTT(30) DEF IInv, TypeOK, Continues
  <2> QED BY Zenon, <1>1, <1>2, <2>1 DEF IInv, Log, Seeded, View
<1>3. CASE log' # log
  <2>1. /\ group \in Groups /\ Fits(log, group) /\ Len(log) < MaxOutcomes
        /\ group.attempt \in 1..attempts
    BY Zenon, <1>1, <1>3 DEF IInv, Pending
  <2>2. /\ log' \in Seq(Groups) /\ Len(log) \in Nat /\ Len(log') = Len(log) + 1
        /\ Continues(log, log') /\ Log' /\ Seeded' /\ View'
    BY Zenon, <1>1, <1>3, <2>1, LogGrows
  <2>3. Len(log') \in Nat
    BY SMTT(30), <2>2
  <2> QED BY Zenon, <1>1, <2>2, <2>3
<1> QED BY Zenon, <1>2, <1>3

\* JournalStore::open, with or without a checkpoint.
LEMMA ReopenKeeps ==
  ASSUME IInv, NEW sd \in {Seed0, seed}, Reopen(sd)
  PROVE  IInv'
<1>1. /\ UNCHANGED <<attempts, uncertain, outcomes, transactions, owners, rp>>
      /\ UNCHANGED <<seed, view, now, last, told>>
      /\ phase = "down" /\ phase' = "replaying" /\ open' = 0
      /\ state' = sd.state /\ expect' = sd.metadata /\ base' = sd.rev
  BY Zenon DEF Reopen
<1>2. /\ log' \in Seq(Groups) /\ Len(log) \in Nat /\ Len(log') \in Nat
      /\ Continues(log, log') /\ Log' /\ Seeded' /\ View'
      /\ log' = log \/ open # 0
  BY Zenon, ReopenLog
<1>3. rp = 0 /\ rp' = 0 /\ Replayed = 0 /\ Replayed' = 0
  BY SMTT(30), <1>1 DEF IInv, Replaying, Replayed
<1>4. Recorded(log', 1, 0, outcomes, transactions) /\ Owned(log', 1, 0, owners)
  <2>1. 1 \in Nat /\ 1 <= 1 /\ 0 \in 0..Len(log)
    BY SMTT(30), <1>2
  <2>2. Recorded(log, 1, 0, outcomes, transactions) /\ Owned(log, 1, 0, owners)
    BY Zenon, <1>3 DEF IInv, Memory
  <2> QED BY Zenon, <1>2, <2>1, <2>2, RecordedContinues, OwnedContinues
<1>5. phase' \notin {"up", "appending", "down", "refused"}
  BY SMTT(30), <1>1
<1>6. Memory'
  BY Zenon, <1>1, <1>3, <1>4, <1>5 DEF IInv, Memory
<1>7. Replaying'
  <2>1. CASE sd = Seed0
    <3>1. base' = 0 /\ state' = <<>>
      BY SMTT(30), <1>1, <2>1 DEF Seed0
    <3>2. Reduced(log', 0, state')
      BY SMTT(30), <3>1 DEF Reduced
    <3> QED BY SMTT(30), <1>2, <1>3, <1>5, <3>1, <3>2 DEF Replaying
  <2>2. CASE sd = seed
    <3>1. base' \in 0..Len(log') /\ base' = seed'.rev
      BY Zenon, <1>1, <1>2, <2>2 DEF Seeded
    <3>2. /\ Reduced(log', base', state')
          /\ Recorded(log', 1, base', expect'.outcomes, expect'.transactions)
          /\ Owned(log', 1, base', expect'.owners)
      BY Zenon, <1>1, <1>2, <2>2 DEF Seeded
    <3>3. /\ (IF rp' < base' THEN base' ELSE rp') = base'
          /\ rp' <= Len(log') /\ base' <= Len(log') /\ rp' + 1 = 1
      BY SMTT(30), <1>2, <1>3, <3>1
    <3> QED BY Zenon, <1>5, <3>1, <3>2, <3>3 DEF Replaying
  <2> QED BY Zenon, <2>1, <2>2
<1>8. base' \in Nat
  BY SMTT(30), <1>1, <1>2 DEF Seed0, Seeded
<1>9. TypeOK'
  BY SMTT(30), <1>1, <1>2, <1>8 DEF IInv, TypeOK, Phases
<1>10. Pending'
  BY Zenon, <1>1, <1>5 DEF Pending
<1>11. Replies'
  <2>1. CASE log' = log
    BY Zenon, <1>1, <2>1 DEF IInv, Replies
  <2>2. CASE open # 0
    <3>1. \A t \in told' :
            /\ Holds(log', t[2]) /\ log'[t[2].rev].rk = RetryKey(t[1])
            /\ t[2].digest = Digest(t[1]) /\ t[2].txn = t[1].txn
      BY Zenon, <1>1, <1>2, ToldStaysTrue
    <3>2. last'.reply \in {"none", "unknown"}
      BY Zenon, <1>1, <2>2 DEF IInv, Pending
    <3>3. last'.reply \notin {"found", "limit", "cancelled"}
      BY SMTT(30), <3>2
    <3> QED BY Zenon, <3>1, <3>3 DEF Replies
  <2> QED BY Zenon, <1>2, <2>1, <2>2
<1> QED BY Zenon, <1>2, <1>5, <1>6, <1>7, <1>9, <1>10, <1>11 DEF IInv

\* What a replay knows before its next group.
LEMMA ReplayPosition ==
  ASSUME IInv, phase = "replaying", rp < Len(log)
  PROVE  /\ log \in Seq(Groups) /\ Len(log) \in Nat /\ Regular(log) /\ rp \in Nat
         /\ Recorded(log, 1, rp, outcomes, transactions) /\ Owned(log, 1, rp, owners)
         /\ IsFiniteSet(DOMAIN outcomes) /\ Cardinality(DOMAIN outcomes) = rp
         /\ Cardinality(DOMAIN outcomes) < MaxOutcomes
         /\ log[rp + 1].rk \notin DOMAIN outcomes
         /\ log[rp + 1].outcome.txn \notin DOMAIN transactions
<1>1. log \in Seq(Groups) /\ Len(log) \in Nat /\ rp \in Nat
  BY SMTT(30) DEF IInv, TypeOK
<1>2. Replayed = rp
  BY Zenon DEF Replayed
<1>3. /\ Recorded(log, 1, rp, outcomes, transactions) /\ Owned(log, 1, rp, owners)
      /\ IsFiniteSet(DOMAIN outcomes) /\ Cardinality(DOMAIN outcomes) = rp
      /\ Regular(log) /\ Len(log) <= MaxOutcomes
  BY Zenon, <1>2 DEF IInv, Memory, Log
<1>4. rp < MaxOutcomes
  BY SMTT(30), <1>1, <1>3, TxnAssumption
<1> QED BY Zenon, <1>1, <1>3, <1>4, RecordedInsert

\* The parts of the invariant no replay step touches.
LEMMA ReplayFrame ==
  ASSUME IInv, phase = "replaying", phase' = "replaying", rp' \in Nat,
         UNCHANGED <<log, open, group, attempts, uncertain, base, seed, view, now,
                     last, told>>
  PROVE  TypeOK' /\ Log' /\ Pending' /\ Seeded' /\ View' /\ Replies'
<1>1. TypeOK' /\ Log' /\ Seeded' /\ View' /\ Replies'
  BY Zenon DEF IInv, TypeOK, Log, Seeded, View, Replies
<1>2. Pending'
  BY Zenon DEF IInv, Pending
<1> QED BY Zenon, <1>1, <1>2

\* A group after the checkpoint is prepared, compared, recorded and published.
LEMMA ReplayGroupKeeps ==
  ASSUME IInv, ReplayGroup
  PROVE  IInv'
<1> DEFINE g == log[rp + 1]
<1>1. /\ UNCHANGED <<log, open, group, attempts, uncertain, expect, base, seed>>
      /\ UNCHANGED <<view, now, last, told>>
      /\ phase = "replaying" /\ rp < Len(log) /\ rp >= base
  BY Zenon DEF ReplayGroup, journal
<1>2. /\ log \in Seq(Groups) /\ Len(log) \in Nat /\ Regular(log) /\ rp \in Nat
      /\ Recorded(log, 1, rp, outcomes, transactions) /\ Owned(log, 1, rp, owners)
      /\ IsFiniteSet(DOMAIN outcomes) /\ Cardinality(DOMAIN outcomes) = rp
      /\ Cardinality(DOMAIN outcomes) < MaxOutcomes
      /\ g.rk \notin DOMAIN outcomes /\ g.outcome.txn \notin DOMAIN transactions
  BY Zenon, <1>1, ReplayPosition
<1>3. base \in Nat /\ ~(rp < base) /\ ~(rp + 1 < base) /\ rp + 1 \in Nat
      /\ rp + 1 <= Len(log)
  BY SMTT(30), <1>1, <1>2 DEF IInv, TypeOK
<1>4. Reduced(log, rp, state)
  BY Zenon, <1>1, <1>3 DEF IInv, Replaying
<1>5. /\ Prepares(state, g.body) /\ Result(state, g.body) = g.outcome.result
      /\ Reduced(log, rp + 1, Append(state, g.body))
  BY Zenon, <1>1, <1>2, <1>4, ReducedAppend
<1>6. Publish(g) /\ rp' = rp + 1 /\ phase' = "replaying"
  BY Zenon, <1>1, <1>2, <1>5 DEF ReplayGroup
<1>7. /\ Recorded(log, 1, rp + 1, outcomes', transactions')
      /\ Owned(log, 1, rp + 1, owners')
      /\ IsFiniteSet(DOMAIN outcomes') /\ Cardinality(DOMAIN outcomes') = rp + 1
  <2>1. /\ outcomes' = Insert(outcomes, g.rk, g.outcome)
        /\ transactions' = Insert(transactions, g.outcome.txn, <<g.who, g.outcome>>)
        /\ owners' = OrInsert(owners, g.blobs, g.who)
    BY Zenon, <1>6 DEF Publish
  <2> QED BY Zenon, <1>1, <1>2, <2>1, PublishMetadata
<1>8. Replayed' = rp + 1
  BY Zenon, <1>6 DEF Replayed
<1>9. phase' \notin {"up", "appending", "down", "refused"}
  BY SMTT(30), <1>6
<1>10. Memory'
  BY Zenon, <1>1, <1>7, <1>8, <1>9 DEF Memory
<1>11. state' = Append(state, g.body)
  BY Zenon, <1>6 DEF Publish
<1>12. Replaying'
  BY Zenon, <1>1, <1>3, <1>5, <1>6, <1>9, <1>11 DEF IInv, Replaying
<1>13. TypeOK' /\ Log' /\ Pending' /\ Seeded' /\ View' /\ Replies'
  BY Zenon, <1>1, <1>3, <1>6, ReplayFrame
<1> QED BY Zenon, <1>9, <1>10, <1>12, <1>13 DEF IInv

\* A group the checkpoint covers confirms its outcome, its transaction and the
\* blobs it was the first to name.
LEMMA CheckpointConfirms ==
  ASSUME IInv, phase = "replaying", rp < base, rp < Len(log)
  PROVE  /\ Confirms(log[rp + 1])
         /\ Recorded(log, rp + 2, base, Unconfirmed(log[rp + 1]).outcomes,
                     Unconfirmed(log[rp + 1]).transactions)
         /\ Owned(log, rp + 2, base, Unconfirmed(log[rp + 1]).owners)
<1> DEFINE g == log[rp + 1]
<1>1. /\ log \in Seq(Groups) /\ Len(log) \in Nat /\ Regular(log) /\ rp \in Nat
      /\ Owned(log, 1, rp, owners)
  BY Zenon, ReplayPosition
<1>2. /\ base \in 0..Len(log) /\ rp + 1 \in (rp + 1)..base
      /\ 1..((rp + 1) - 1) = 1..rp /\ 1..(1 - 1) = {}
      /\ \A i \in (rp + 1)..base : rp + 1 \in 1..(i - 1) \/ i = rp + 1
  BY SMTT(30), <1>1 DEF IInv, TypeOK, Replaying
<1>3. /\ Recorded(log, rp + 1, base, expect.outcomes, expect.transactions)
      /\ Owned(log, rp + 1, base, expect.owners)
  BY Zenon DEF IInv, Replaying
<1>4. /\ g.rk \in DOMAIN expect.outcomes /\ expect.outcomes[g.rk] = g.outcome
      /\ g.outcome.txn \in DOMAIN expect.transactions
      /\ expect.transactions[g.outcome.txn] = <<g.who, g.outcome>>
  BY Zenon, <1>2, <1>3 DEF Recorded
<1>5. \A b \in g.blobs \ DOMAIN owners :
        b \in DOMAIN expect.owners /\ expect.owners[b] = g.who
  <2> TAKE b \in g.blobs \ DOMAIN owners
  <2>1. \A j \in 1..rp : b \notin log[j].blobs
    BY Zenon, <1>1, <1>2 DEF Owned
  <2>2. b \in DOMAIN expect.owners
    BY Zenon, <1>2, <1>3, <2>1 DEF Owned
  <2>3. PICK i \in (rp + 1)..base : First(log, i, b) /\ expect.owners[b] = log[i].who
    BY Zenon, <1>3, <2>2 DEF Owned
  <2>4. i = rp + 1
    BY Zenon, <1>2, <2>3 DEF First
  <2> QED BY Zenon, <2>2, <2>3, <2>4
<1>6. Confirms(g)
  BY Zenon, <1>4, <1>5 DEF Confirms
<1>7. /\ Unconfirmed(g).outcomes = Remove(expect.outcomes, {g.rk})
      /\ Unconfirmed(g).transactions = Remove(expect.transactions, {g.outcome.txn})
      /\ Unconfirmed(g).owners = Remove(expect.owners, g.blobs)
  BY SMTT(30) DEF Unconfirmed
<1>8. Recorded(log, rp + 2, base, Remove(expect.outcomes, {g.rk}),
               Remove(expect.transactions, {g.outcome.txn}))
  BY Zenon, <1>1, <1>2, <1>3, RecordedRemove
<1>9. Owned(log, rp + 2, base, Remove(expect.owners, g.blobs))
  BY Zenon, <1>1, <1>2, <1>3, OwnedRemove
<1> QED BY Zenon, <1>6, <1>7, <1>8, <1>9

\* At its last group nothing of the checkpoint is left to confirm.
LEMMA CheckpointSpent ==
  ASSUME IInv, phase = "replaying", rp < base, rp < Len(log), rp + 1 = base
  PROVE  /\ Unconfirmed(log[rp + 1]) = NoMetadata
         /\ log[rp + 1].attempt = seed.attempt
<1> DEFINE g == log[rp + 1]
<1>1. rp \in Nat /\ base \in Nat /\ (rp + 2)..base = {} /\ base > 0
  BY SMTT(30) DEF IInv, TypeOK
<1>2. base = seed.rev
  BY Zenon DEF IInv, Replaying
<1>3. g.attempt = seed.attempt
  BY Zenon, <1>1, <1>2 DEF IInv, Seeded
<1>4. /\ DOMAIN Unconfirmed(g).outcomes = {} /\ DOMAIN Unconfirmed(g).transactions = {}
      /\ DOMAIN Unconfirmed(g).owners = {}
  BY Zenon, <1>1, CheckpointConfirms DEF Recorded, Owned
<1>5. /\ Unconfirmed(g).outcomes = Remove(expect.outcomes, {g.rk})
      /\ Unconfirmed(g).transactions = Remove(expect.transactions, {g.outcome.txn})
      /\ Unconfirmed(g).owners = Remove(expect.owners, g.blobs)
  BY SMTT(30) DEF Unconfirmed
<1>6. /\ DOMAIN expect.outcomes \subseteq {g.rk}
      /\ DOMAIN expect.transactions \subseteq {g.outcome.txn}
      /\ DOMAIN expect.owners \subseteq g.blobs
  BY SMTT(30), <1>4, <1>5 DEF Remove
<1>7. /\ Remove(expect.outcomes, {g.rk}) = Empty
      /\ Remove(expect.transactions, {g.outcome.txn}) = Empty
      /\ Remove(expect.owners, g.blobs) = Empty
  BY Zenon, <1>6, RemoveAll
<1>8. Unconfirmed(g) = NoMetadata
  BY Zenon, <1>7 DEF Unconfirmed, NoMetadata
<1> QED BY Zenon, <1>3, <1>8

LEMMA ReplayMetadataKeeps ==
  ASSUME IInv, ReplayMetadata
  PROVE  IInv'
<1> DEFINE g == log[rp + 1]
<1>1. /\ UNCHANGED <<log, open, group, attempts, uncertain, state, base, seed>>
      /\ UNCHANGED <<view, now, last, told>>
      /\ phase = "replaying" /\ rp < Len(log) /\ rp < base
  BY Zenon DEF ReplayMetadata, journal
<1>2. /\ log \in Seq(Groups) /\ Len(log) \in Nat /\ Regular(log) /\ rp \in Nat
      /\ Recorded(log, 1, rp, outcomes, transactions) /\ Owned(log, 1, rp, owners)
      /\ IsFiniteSet(DOMAIN outcomes) /\ Cardinality(DOMAIN outcomes) = rp
  BY Zenon, <1>1, ReplayPosition
<1>3. Confirms(g) /\ (rp + 1 = base => Unconfirmed(g) = NoMetadata
                                       /\ g.attempt = seed.attempt)
  BY Zenon, <1>1, CheckpointConfirms, CheckpointSpent
<1>4. /\ outcomes' = Insert(outcomes, g.rk, g.outcome)
      /\ transactions' = Insert(transactions, g.outcome.txn, <<g.who, g.outcome>>)
      /\ owners' = OrInsert(owners, g.blobs, g.who)
      /\ expect' = Unconfirmed(g) /\ rp' = rp + 1 /\ phase' = "replaying"
  BY Zenon, <1>1, <1>3 DEF ReplayMetadata
<1>5. /\ Recorded(log, 1, rp + 1, outcomes', transactions')
      /\ Owned(log, 1, rp + 1, owners')
      /\ IsFiniteSet(DOMAIN outcomes') /\ Cardinality(DOMAIN outcomes') = rp + 1
  BY Zenon, <1>1, <1>2, <1>4, PublishMetadata
<1>6. Replayed' = rp + 1
  BY Zenon, <1>4 DEF Replayed
<1>7. phase' \notin {"up", "appending", "down", "refused"}
  BY SMTT(30), <1>4
<1>8. Memory'
  BY Zenon, <1>1, <1>5, <1>6, <1>7 DEF Memory
<1>9. /\ rp + 1 \in Nat /\ rp + 1 <= Len(log) /\ base <= Len(log)
      /\ (IF rp < base THEN base ELSE rp) = base
      /\ (IF rp + 1 < base THEN base ELSE rp + 1) = base
      /\ (rp + 1) + 1 = rp + 2
  BY SMTT(30), <1>1, <1>2 DEF IInv, TypeOK, Replaying
<1>10. Reduced(log, base, state) /\ base = seed.rev
  BY Zenon, <1>1, <1>9 DEF IInv, Replaying
<1>11. /\ Recorded(log, rp + 2, base, expect'.outcomes, expect'.transactions)
       /\ Owned(log, rp + 2, base, expect'.owners)
  BY Zenon, <1>1, <1>4, CheckpointConfirms
<1>12. Replaying'
  BY Zenon, <1>1, <1>4, <1>7, <1>9, <1>10, <1>11 DEF Replaying
<1>13. TypeOK' /\ Log' /\ Pending' /\ Seeded' /\ View' /\ Replies'
  BY Zenon, <1>1, <1>4, <1>9, ReplayFrame
<1> QED BY Zenon, <1>7, <1>8, <1>12, <1>13 DEF IInv

\* The replay ends with the whole log in memory.
LEMMA ReopenedKeeps ==
  ASSUME IInv, Reopened
  PROVE  IInv'
<1>1. /\ UNCHANGED <<log, open, group, attempts, uncertain, state, outcomes>>
      /\ UNCHANGED <<transactions, owners, seed, view, now, last, told>>
      /\ phase = "replaying" /\ rp = Len(log) /\ base' = 0 /\ rp' = 0
      /\ phase' = IF rp < base THEN "refused" ELSE "up"
  BY Zenon DEF Reopened, journal
<1>2. ~(rp < base)
  BY SMTT(30), <1>1 DEF IInv, TypeOK, Replaying
<1>3. phase' = "up" /\ open = 0
  BY Zenon, <1>1, <1>2 DEF IInv, Pending
<1>4. phase' \notin {"appending", "down", "replaying", "refused"}
  BY SMTT(30), <1>3
<1>5. Replayed = Len(log) /\ Replayed' = Len(log)
  BY Zenon, <1>1, <1>4 DEF Replayed
<1>6. Reduced(log, Len(log), state)
  BY Zenon, <1>1, <1>2 DEF IInv, Replaying
<1>7. Memory'
  BY Zenon, <1>1, <1>5, <1>6 DEF IInv, Memory
<1>8. TypeOK'
  <2>1. 0 \in Nat
    BY SMTT(30)
  <2> QED BY Zenon, <1>1, <1>3, <2>1 DEF IInv, TypeOK, Phases
<1>9. Log' /\ Seeded' /\ View' /\ Replies'
  BY Zenon, <1>1 DEF IInv, Log, Seeded, View, Replies
<1>10. Pending' /\ Replaying'
  BY Zenon, <1>1, <1>3, <1>4 DEF Pending, Replaying
<1> QED BY Zenon, <1>4, <1>7, <1>8, <1>9, <1>10 DEF IInv

LEMMA TickKeeps ==
  ASSUME IInv, Tick \/ UNCHANGED vars
  PROVE  IInv'
<1>1. /\ UNCHANGED <<log, open, group, attempts, phase, uncertain, state, outcomes>>
      /\ UNCHANGED <<transactions, owners, expect, base, rp, seed, view, last, told>>
      /\ now' \in Times
  BY Zenon DEF Tick, vars, journal, memory, replay, IInv, TypeOK
<1>2. TypeOK' /\ Log' /\ Pending' /\ Replaying' /\ Seeded' /\ View' /\ Replies'
  BY Zenon, <1>1 DEF IInv, TypeOK, Log, Pending, Replaying, Seeded, View, Replies
<1>3. Replayed' = Replayed
  BY Zenon, <1>1 DEF Replayed
<1>4. Memory' /\ phase' # "refused"
  BY Zenon, <1>1, <1>3 DEF IInv, Memory
<1> QED BY Zenon, <1>2, <1>4 DEF IInv

-----------------------------------------------------------------------------
LEMMA InitIInv == Init => IInv
<1> SUFFICES ASSUME Init PROVE IInv
  OBVIOUS
<1>1. /\ log = <<>> /\ Len(log) = 0 /\ phase = "up" /\ open = 0 /\ rp = 0 /\ base = 0
      /\ 1..Len(log) = {} /\ attempts = 0 /\ log \in Seq(Groups)
      /\ outcomes = Empty /\ transactions = Empty /\ owners = Empty
  BY SMTT(30) DEF Init
<1>2. Replayed = 0
  BY SMTT(30), <1>1 DEF Replayed
<1>3. Recorded(log, 1, 0, Empty, Empty) /\ Owned(log, 1, 0, Empty)
  BY SMTT(30), NothingRecorded
<1>4. Reduced(log, 0, <<>>)
  BY SMTT(30) DEF Reduced
<1>5. TypeOK
  <2>1. 0 \in Nat
    BY SMTT(30)
  <2> QED BY Zenon, <1>1, <2>1 DEF Init, TypeOK, Phases
<1>6. Log
  BY SMTT(30), <1>1, TxnAssumption DEF Log, Regular
<1>7. Memory
  BY Zenon, <1>1, <1>2, <1>3, <1>4, EmptyIsFinite DEF Init, Memory
<1>8. Pending /\ Replaying /\ phase # "refused"
  BY SMTT(30), <1>1 DEF Pending, Replaying
<1>9. Seeded
  <2>1. /\ seed.rev = 0 /\ seed.state = <<>> /\ seed.metadata.outcomes = Empty
        /\ seed.metadata.transactions = Empty /\ seed.metadata.owners = Empty
    BY SMTT(30) DEF Init, Seed0, NoMetadata
  <2>2. 0 \in 0..Len(log) /\ ~(0 > 0)
    BY SMTT(30), <1>1
  <2> QED BY Zenon, <1>3, <1>4, <2>1, <2>2 DEF Seeded
<1>10. View
  <2>1. view.rev = 0 /\ view.state = <<>> /\ 0 \in 0..Len(log)
    BY SMTT(30), <1>1 DEF Init
  <2> QED BY Zenon, <1>4, <2>1 DEF View
<1>11. Replies
  BY SMTT(30) DEF Init, Replies
<1> QED BY Zenon, <1>5, <1>6, <1>7, <1>8, <1>9, <1>10, <1>11 DEF IInv

LEMMA NextKeeps ==
  ASSUME IInv, [Next]_vars
  PROVE  IInv'
<1>1. CASE \E q \in Requests : Commit(q)
  BY Zenon, <1>1, CommitKeeps
<1>2. CASE \E q \in Requests : Outcome(q)
  BY Zenon, <1>2, OutcomeKeeps
<1>3. CASE \E q \in Requests : TransactionOutcomeFor(q)
  BY Zenon, <1>3, TransactionOutcomeForKeeps
<1>4. CASE Append1
  BY Zenon, <1>4, JournalWritesKeeps, JournalAcksKeeps, JournalErrorKeeps DEF Append1
<1>5. CASE ReadView
  BY Zenon, <1>5, ReadViewKeeps
<1>6. CASE PublishCheckpoint
  BY Zenon, <1>6, PublishCheckpointKeeps
<1>7. CASE Stop
  BY Zenon, <1>7, StopKeeps
<1>8. CASE Recovery
  BY Zenon, <1>8, ReopenKeeps, ReplayGroupKeeps, ReplayMetadataKeeps, ReopenedKeeps
     DEF Recovery
<1>9. CASE Tick \/ UNCHANGED vars
  BY Zenon, <1>9, TickKeeps
<1> QED BY Zenon, <1>1, <1>2, <1>3, <1>4, <1>5, <1>6, <1>7, <1>8, <1>9 DEF Next

\* The first group to name a blob is unique.
LEMMA FirstIsFirstOwner ==
  ASSUME Len(log) \in Nat, NEW b, NEW i \in 1..Len(log), First(log, i, b)
  PROVE  FirstOwner(b) = log[i].who
<1> DEFINE c == CHOOSE j \in 1..Len(log) :
                  /\ b \in log[j].blobs
                  /\ \A k \in 1..(j - 1) : b \notin log[k].blobs
<1>1. /\ c \in 1..Len(log) /\ b \in log[c].blobs
      /\ \A k \in 1..(c - 1) : b \notin log[k].blobs
  BY Zenon DEF First
<1> HIDE DEF c
<1>2. c = i \/ c \in 1..(i - 1) \/ i \in 1..(c - 1)
  BY SMTT(30), <1>1
<1>3. c = i
  BY Zenon, <1>1, <1>2 DEF First
<1>4. FirstOwner(b) = log[c].who
  BY Zenon DEF FirstOwner, c
<1> QED BY Zenon, <1>3, <1>4

LEMMA MemoryOfIInv ==
  ASSUME IInv
  PROVE  MemoryMatchesLog
<1>1. log \in Seq(Groups) /\ Len(log) \in Nat /\ 1..(1 - 1) = {}
  BY SMTT(30) DEF IInv, TypeOK
<1>2. view.rev <= Len(log) /\ view.state = [i \in 1..view.rev |-> log[i].body]
  BY SMTT(30), <1>1 DEF IInv, View, Reduced
<1>3. ASSUME phase = "up"
      PROVE  /\ state = [i \in 1..Len(log) |-> log[i].body]
             /\ DOMAIN outcomes = {log[i].rk : i \in 1..Len(log)}
             /\ DOMAIN transactions = {log[i].outcome.txn : i \in 1..Len(log)}
             /\ \A i \in 1..Len(log) :
                  /\ outcomes[log[i].rk] = log[i].outcome
                  /\ transactions[log[i].outcome.txn] = <<log[i].who, log[i].outcome>>
             /\ DOMAIN owners = UNION {log[i].blobs : i \in 1..Len(log)}
             /\ \A b \in DOMAIN owners : owners[b] = FirstOwner(b)
  <2>1. /\ Recorded(log, 1, Len(log), outcomes, transactions)
        /\ Owned(log, 1, Len(log), owners) /\ Reduced(log, Len(log), state)
    BY Zenon, <1>3, Serving
  <2>2. state = [i \in 1..Len(log) |-> log[i].body]
    BY SMTT(30), <1>1, <2>1 DEF Reduced
  <2>3. /\ DOMAIN outcomes = {log[i].rk : i \in 1..Len(log)}
        /\ DOMAIN transactions = {log[i].outcome.txn : i \in 1..Len(log)}
    <3>1. /\ DOMAIN outcomes \subseteq {log[i].rk : i \in 1..Len(log)}
          /\ {log[i].rk : i \in 1..Len(log)} \subseteq DOMAIN outcomes
      BY Zenon, <2>1 DEF Recorded
    <3>2. /\ DOMAIN transactions \subseteq {log[i].outcome.txn : i \in 1..Len(log)}
          /\ {log[i].outcome.txn : i \in 1..Len(log)} \subseteq DOMAIN transactions
      BY Zenon, <2>1 DEF Recorded
    <3> QED BY Zenon, <3>1, <3>2
  <2>4. \A i \in 1..Len(log) :
          /\ outcomes[log[i].rk] = log[i].outcome
          /\ transactions[log[i].outcome.txn] = <<log[i].who, log[i].outcome>>
    BY Zenon, <2>1 DEF Recorded
  <2>5. \A b \in DOMAIN owners : \E i \in 1..Len(log) : b \in log[i].blobs
    BY Zenon, <2>1 DEF Owned, First
  <2>6. \A i \in 1..Len(log) : \A b \in log[i].blobs : b \in DOMAIN owners
    BY Zenon, <1>1, <2>1 DEF Owned
  <2>7. DOMAIN owners = UNION {log[i].blobs : i \in 1..Len(log)}
    BY Zenon, <2>5, <2>6
  <2>8. \A b \in DOMAIN owners : owners[b] = FirstOwner(b)
    BY Zenon, <1>1, <2>1, FirstIsFirstOwner DEF Owned
  <2> QED BY Zenon, <2>2, <2>3, <2>4, <2>7, <2>8
<1> QED BY Zenon, <1>2, <1>3 DEF MemoryMatchesLog

LEMMA RepliesOfIInv ==
  ASSUME IInv
  PROVE  RepliesAreTrue
<1>1. last.reply \in {"limit", "cancelled"} => ~(open # 0)
  BY SMTT(30) DEF IInv, Pending
<1> QED BY Zenon, <1>1 DEF IInv, Replies, RepliesAreTrue, Holds

-----------------------------------------------------------------------------
(***************************************************************************)
(* The theorems.                                                           *)
(***************************************************************************)
\* IInv holds in every reachable state of the coordinator.
THEOREM Invariance == Spec => []IInv
<1>1. Init => IInv
  BY Zenon, InitIInv
<1>2. IInv /\ [Next]_vars => IInv'
  BY Zenon, NextKeeps
<1> QED BY <1>1, <1>2, PTL DEF Spec

\* admit_commit, replay and the journal's resolution of an open append
\* together commit a key and a transaction id at most once.
THEOREM CommitsOnce == Spec => []ExactlyOnce
<1>1. IInv => ExactlyOnce
  BY Zenon DEF IInv, Log, Regular, ExactlyOnce
<1> QED BY <1>1, Invariance, PTL

\* What commit_with_preparation and the outcome lookups answered stays true
\* through later commits, crashes and reopenings.
THEOREM AnswersStayTrue == Spec => []RepliesAreTrue
<1>1. IInv => RepliesAreTrue
  BY Zenon, RepliesOfIInv
<1> QED BY <1>1, Invariance, PTL

\* A serving coordinator holds the record of the certified groups, whichever
\* way it came by it, and a read view stays the state at its revision.
THEOREM MemoryIsTheLog == Spec => []MemoryMatchesLog
<1>1. IInv => MemoryMatchesLog
  BY Zenon, MemoryOfIInv
<1> QED BY <1>1, Invariance, PTL

\* replay_group and replay_group_metadata_against_seed accept every log and
\* every checkpoint the coordinator wrote.
THEOREM ReplayNeverRefuses == Spec => []ReplayAccepts
<1>1. IInv => ReplayAccepts
  BY Zenon DEF IInv, ReplayAccepts
<1> QED BY <1>1, Invariance, PTL

-----------------------------------------------------------------------------
(***************************************************************************)
(* Refinement: the coordinator uses its journal as a CommitLog.            *)
(***************************************************************************)
Attempted(l) == [i \in 1..Len(l) |-> l[i].attempt]

LEMMA AttemptedAppend ==
  ASSUME NEW l \in Seq(Groups), NEW g \in Groups
  PROVE  Attempted(Append(l, g)) = Append(Attempted(l), g.attempt)
<1>1. \A i \in 1..Len(l) : l[i] \in Groups
  BY SMTT(30)
<1>2. Attempted(l) \in Seq(Nat) /\ Len(Attempted(l)) = Len(l)
  BY SMTT(30), <1>1 DEF Attempted, Groups
<1> QED BY SMTT(30), <1>1, <1>2 DEF Attempted, Groups

LEMMA SubmitProposes ==
  ASSUME IInv, NEW q \in Requests, Submit(q)
  PROVE  CL!Propose
<1>1. /\ attempts' = attempts + 1 /\ attempts < MaxAttempts /\ log' = log
      /\ open' = open
  BY Zenon DEF Submit, Fresh
<1>2. /\ attempts + 1 \in (1..MaxAttempts) \ (1..attempts)
      /\ 1..attempts' = (1..attempts) \cup {attempts + 1}
  BY SMTT(30), <1>1, TxnAssumption DEF IInv, TypeOK
<1> QED BY Zenon, <1>1, <1>2 DEF CL!Propose

LEMMA JournalWritesStarts ==
  ASSUME IInv, JournalWrites
  PROVE  CL!Start
<1>1. /\ open = 0 /\ open' = group.attempt /\ log' = log /\ attempts' = attempts
      /\ phase = "appending"
  BY Zenon DEF JournalWrites
<1>2. Len(log) \in Nat /\ Len(Attempted(log)) = Len(log)
      /\ \A i \in 1..Len(log) : Attempted(log)[i] = log[i].attempt
  BY SMTT(30) DEF IInv, TypeOK, Attempted
<1>3. /\ group.attempt \in 1..attempts
      /\ \A i \in 1..Len(log) : log[i].attempt # group.attempt
  BY Zenon, <1>1 DEF IInv, Pending, Fits
<1> QED BY Zenon, <1>1, <1>2, <1>3 DEF CL!Start, Attempted

LEMMA JournalAcksAcknowledges ==
  ASSUME IInv, JournalAcks
  PROVE  CL!Acknowledge
<1>1. /\ open # 0 /\ open' = 0 /\ attempts' = attempts /\ log' = Append(log, group)
  BY Zenon DEF JournalAcks
<1>2. open = group.attempt /\ group \in Groups /\ log \in Seq(Groups)
  BY Zenon, <1>1 DEF IInv, TypeOK, Pending
<1>3. Attempted(log') = Append(Attempted(log), open)
  BY Zenon, <1>1, <1>2, AttemptedAppend
<1> QED BY Zenon, <1>1, <1>3 DEF CL!Acknowledge, Attempted

LEMMA ReopenResolves ==
  ASSUME IInv, NEW sd, Reopen(sd)
  PROVE  CL!Resolve \/ UNCHANGED CL!vars
<1>1. open' = 0 /\ attempts' = attempts
  BY Zenon DEF Reopen
<1>2. CASE open = 0
  BY Zenon, <1>1, <1>2 DEF Reopen, CL!vars
<1>3. CASE open # 0
  <2>1. open = group.attempt /\ group \in Groups /\ log \in Seq(Groups)
    BY Zenon, <1>3 DEF IInv, TypeOK, Pending
  <2>2. log' = log \/ log' = Append(log, group)
    BY Zenon, <1>3 DEF Reopen
  <2>3. Attempted(log') \in {Attempted(log), Append(Attempted(log), open)}
    BY Zenon, <2>1, <2>2, AttemptedAppend
  <2> QED BY Zenon, <1>1, <1>3, <2>3 DEF CL!Resolve, Attempted
<1> QED BY Zenon, <1>2, <1>3

\* Every other step leaves the log, the open attempt and the attempts alone.
LEMMA OthersStutter ==
  ASSUME \/ \E q \in Requests :
              \/ Quarantined(q) \/ ClockFails(q) \/ AnswerKnown(q) \/ RefuseFresh(q)
              \/ Outcome(q) \/ TransactionOutcomeFor(q)
         \/ JournalRefuses \/ JournalFails \/ ReadView \/ PublishCheckpoint \/ Stop
         \/ ReplayGroup \/ ReplayMetadata \/ Reopened \/ Tick \/ UNCHANGED vars
  PROVE  UNCHANGED CL!vars
<1>1. UNCHANGED <<log, open, attempts>>
  BY Zenon DEF Quarantined, ClockFails, AnswerKnown, RefuseFresh, Refuse, Outcome,
       TransactionOutcomeFor, Look, JournalRefuses, JournalFails, ReadView,
       PublishCheckpoint, Stop, ReplayGroup, ReplayMetadata, Reopened, Tick, vars,
       journal
<1> QED BY Zenon, <1>1 DEF CL!vars

\* The calls on the journal are those CommitLog allows, and the journal
\* implements them (JournalProofs, Refinement): a fresh attempt each, at most
\* one open, acknowledged or resolved by a reopening.
THEOREM JournalIsACommitLog == Spec => UsesCommitLog
<1>1. Init => CL!Init
  BY SMTT(30) DEF Init, CL!Init
<1>2. IInv /\ [Next]_vars => [CL!Next]_CL!vars
  <2> SUFFICES ASSUME IInv, [Next]_vars
               PROVE  CL!Next \/ UNCHANGED CL!vars
    OBVIOUS
  <2>1. CASE \E q \in Requests : Submit(q)
    BY Zenon, <2>1, SubmitProposes DEF CL!Next
  <2>2. CASE JournalWrites
    BY Zenon, <2>2, JournalWritesStarts DEF CL!Next
  <2>3. CASE JournalAcks
    BY Zenon, <2>3, JournalAcksAcknowledges DEF CL!Next
  <2>4. CASE \E sd \in {Seed0, seed} : Reopen(sd)
    BY Zenon, <2>4, ReopenResolves DEF CL!Next
  <2> QED BY Zenon, <2>1, <2>2, <2>3, <2>4, OthersStutter
          DEF Next, Commit, Append1, Recovery
<1> QED BY <1>1, <1>2, Invariance, PTL DEF Spec, CL!Spec, UsesCommitLog
=============================================================================
