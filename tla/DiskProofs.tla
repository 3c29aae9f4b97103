----------------------------- MODULE DiskProofs -----------------------------
(***************************************************************************)
(* Theorems about the disk-backed commit coordinator: what a rebase may    *)
(* never lose and what a lookup finds, for every set of requests, every    *)
(* overlay limit and every number of runs and files.                       *)
(***************************************************************************)
EXTENDS DiskInvariant

-----------------------------------------------------------------------------
(***************************************************************************)
(* Where a rebase begins, goes on and ends.                                *)
(***************************************************************************)
LEMMA MergeStarts ==
  ASSUME TypeInv, RootsInv(fs, log), OpenInv, mode = "open", MergeRuns
  PROVE  /\ merged'["metadata"] \in 1..MaxRuns /\ merged'["transactions"] \in 1..MaxRuns
         /\ merged'["metadata"] # merged'["transactions"]
         /\ RunsPhase(fs, todo', Run(merged'["metadata"]), Run(merged'["transactions"]), NewRun(log))
<1>1. PICK a \in FreeObjects(fs), b \in FreeObjects(fs) :
        /\ a < b
        /\ merged' = [p \in Profiles |-> IF p = "metadata" THEN a ELSE b]
        /\ todo' = PublishRun(a, RunOf(Frontier, Merged("metadata")))
                   \o PublishRun(b, RunOf(Frontier, Merged("transactions")))
  BY Zenon DEF MergeRuns
<1>2. a \in 1..MaxRuns /\ b \in 1..MaxRuns /\ a # b
  BY <1>1 DEF FreeObjects
<1>3. "metadata" \in Profiles /\ "transactions" \in Profiles
  BY DiskAssumption, Zenon
<1>4. merged'["metadata"] = a /\ merged'["transactions"] = b
  BY <1>1, <1>3, Zenon
<1>5. RunOf(Frontier, Merged("metadata")) = NewRun(log)
      /\ RunOf(Frontier, Merged("transactions")) = NewRun(log)
  BY <1>3, MergedIs, Zenon DEF NewRun, Frontier
<1> DEFINE x == NewRun(log)
           u == Run(a)
           v == Run(b)
<1>6. todo' = <<New(u, x), Sync(u), DirSync(u)>> \o <<New(v, x), Sync(v), DirSync(v)>>
  BY <1>1, <1>5, Zenon DEF PublishRun
<1> HIDE DEF x, u, v
<1>7. todo' = <<New(u, x), Sync(u), DirSync(u), New(v, x), Sync(v), DirSync(v)>>
  BY <1>6, JoinThree
<1>8. RunsPhase(fs, todo', u, v, x)
  BY <1>7, Zenon DEF RunsPhase
<1> QED BY <1>2, <1>4, <1>8, Zenon DEF u, v, x

LEMMA RebaseBegins ==
  ASSUME Inv, Rebase
  PROVE  Inv'
<1>1. /\ TypeInv /\ RootsInv(fs, log) /\ HiddenInv(fs) /\ OpenInv /\ log \in Seq(Requests)
  BY Zenon DEF Inv, TypeInv
<1>2. /\ mode = "open" /\ ~Refused(fs, base.rev) /\ MergeRuns /\ phase' = "runs" /\ required'
      /\ UNCHANGED <<world, fs, log, mode, base, overlay, rebased>>
  BY Zenon DEF Rebase, Rebasable
<1>3. Between(fs, base.rev, Len(log))
  <2> SUFFICES ASSUME NEW p \in Profiles, NEW s \in Slots, NEW m \in ManifestType,
                      Shows(fs, p, s, m)
               PROVE  m.rev <= base.rev \/ m.rev = Len(log)
    BY Zenon DEF Between
  <2>1. m = Manifest(fs, p, s) /\ s \in ManifestSlots(fs, p)
    BY <1>1, SlotsShown, Zenon
  <2>2. ~(m.rev > base.rev /\ m.rev # Len(log))
    BY <1>2, <2>1, Zenon DEF Refused, Frontier
  <2>3. m.rev \in Nat /\ base.rev \in Nat
    BY SMTT(30), <1>1, <1>2 DEF ManifestType, OpenInv
  <2> QED BY <2>2, <2>3
<1>4. RebaseInv("runs", fs, log, todo', base.rev, merged')
  BY <1>1, <1>2, <1>3, MergeStarts, Zenon DEF RebaseInv
<1>5. TypeInv'
  BY <1>1, <1>2, Zenon DEF TypeInv, Frontier
<1>6. OpenInv'
  BY <1>1, <1>2, <1>4, Zenon DEF OpenInv, Frontier
<1> QED BY <1>1, <1>2, <1>5, <1>6, Zenon DEF Inv

LEMMA RebaseRefusedInv ==
  ASSUME Inv, RebaseRefused
  PROVE  Inv'
<1>1. /\ TypeInv /\ RootsInv(fs, log) /\ HiddenInv(fs) /\ OpenInv
  BY Zenon DEF Inv
<1>2. /\ phase = "idle"
      /\ UNCHANGED <<world, fs, log, mode, base, overlay, phase, merged, todo, rebased>>
  BY Zenon DEF RebaseRefused, Rebasable
<1>3. TypeInv'
  BY <1>1, <1>2, Zenon DEF TypeInv, Frontier
<1>4. OpenInv'
  BY <1>1, <1>2, Zenon DEF OpenInv, Frontier
<1> QED BY <1>1, <1>2, <1>3, <1>4, Zenon DEF Inv

\* When no call is left, the runs are durable; so is the root.
LEMMA RunsDone ==
  ASSUME NEW f, NEW a, NEW b, NEW x, RunsPhase(f, <<>>, a, b, x)
  PROVE  Solid(f, a, x) /\ Solid(f, b, x)
BY Zenon DEF RunsPhase

LEMMA RootDone ==
  ASSUME NEW f, NEW lg \in Seq(Requests), lg # <<>>, NEW br, NEW o \in 1..MaxRuns,
         NEW p \in Profiles, Solid(f, Run(o), NewRun(lg)), RootPhase(f, lg, <<>>, br, o, p)
  PROVE  SolidRoot(f, p, Len(lg))
<1>1. ASSUME NEW s \in Slots, NEW gen \in Nat,
             PublishPhase(f, <<>>, br, Root(p, s), Fresh(lg, gen, o))
      PROVE  SolidRoot(f, p, Len(lg))
  <2> DEFINE m == Fresh(lg, gen, o)
  <2>1. Held(f, lg, m) /\ m.rev = Len(lg)
    BY FreshHeld
  <2>2. Solid(f, Root(p, s), m)
    <3>1. PublishPhase(f, <<>>, br, Root(p, s), m)
      BY <1>1, Zenon
    <3> HIDE DEF m
    <3> QED BY <3>1, Zenon DEF PublishPhase
  <2> QED BY <2>1, <2>2, Zenon DEF SolidRoot, Held
<1>2. ASSUME NEW s \in Slots, NEW m \in ManifestType, m.rev = Len(lg),
             ReusePhase(f, <<>>, Root(p, s), m)
      PROVE  SolidRoot(f, p, Len(lg))
  BY <1>2, Zenon DEF ReusePhase, SolidRoot
<1>3. \A n \in RootNames : <<>> # <<Fail(n)>>
  BY Zenon
<1> QED BY <1>1, <1>2, <1>3, Zenon DEF RootPhase, Fresh


LEMMA RebaseMetadataInv ==
  ASSUME Inv, RebaseMetadata
  PROVE  Inv'
<1>1. /\ TypeInv /\ RootsInv(fs, log) /\ HiddenInv(fs) /\ OpenInv
  BY Zenon DEF Inv
<1>2. /\ phase = "runs" /\ todo = <<>> /\ phase' = "metadata" /\ todo' = PublishOrReuse("metadata")
      /\ UNCHANGED <<world, fs, log, mode, base, overlay, required, merged, rebased>>
  BY Zenon DEF RebaseMetadata
<1>3. mode = "open" /\ required /\ RebaseInv("runs", fs, log, todo, base.rev, merged)
  BY <1>1, <1>2, Zenon DEF OpenInv
<1> DEFINE a == merged["metadata"]
           b == merged["transactions"]
<1>4. /\ Between(fs, base.rev, Len(log)) /\ a \in 1..MaxRuns /\ b \in 1..MaxRuns /\ a # b
      /\ RunsPhase(fs, todo, Run(a), Run(b), NewRun(log))
  BY <1>3, Zenon DEF RebaseInv
<1>5. Solid(fs, Run(a), NewRun(log)) /\ Solid(fs, Run(b), NewRun(log))
  BY <1>2, <1>4, RunsDone, Zenon
<1>6. RootPhase(fs, log, PublishOrReuse("metadata"), base.rev, a, "metadata")
  BY <1>1, <1>3, <1>4, RootReady, DiskAssumption, Zenon DEF Frontier
<1>7. RebaseInv("metadata", fs, log, todo', base.rev, merged)
  BY <1>2, <1>4, <1>5, <1>6, Zenon DEF RebaseInv
<1>8. TypeInv'
  BY <1>1, <1>2, Zenon DEF TypeInv, Frontier
<1>9. OpenInv'
  BY <1>1, <1>2, <1>3, <1>7, Zenon DEF OpenInv, Frontier
<1> QED BY <1>1, <1>2, <1>8, <1>9, Zenon DEF Inv

LEMMA RebaseTransactionsInv ==
  ASSUME Inv, RebaseTransactions
  PROVE  Inv' /\ SolidRoot(fs, "metadata", Frontier)
<1>1. /\ TypeInv /\ RootsInv(fs, log) /\ HiddenInv(fs) /\ OpenInv
      /\ log \in Seq(Requests) /\ log # <<>>
  BY DEF Inv, TypeInv, Frontier
<1>2. /\ phase = "metadata" /\ todo = <<>> /\ phase' = "transactions"
      /\ todo' = PublishOrReuse("transactions")
      /\ UNCHANGED <<world, fs, log, mode, base, overlay, required, merged, rebased>>
  BY Zenon DEF RebaseTransactions
<1>3. mode = "open" /\ required /\ RebaseInv("metadata", fs, log, todo, base.rev, merged)
  BY <1>1, <1>2, Zenon DEF OpenInv
<1> DEFINE a == merged["metadata"]
           b == merged["transactions"]
<1>4. /\ Between(fs, base.rev, Len(log)) /\ a \in 1..MaxRuns /\ b \in 1..MaxRuns /\ a # b
      /\ Solid(fs, Run(a), NewRun(log)) /\ Solid(fs, Run(b), NewRun(log))
      /\ RootPhase(fs, log, todo, base.rev, a, "metadata")
  BY <1>3, Zenon DEF RebaseInv
<1>5. SolidRoot(fs, "metadata", Len(log))
  BY <1>1, <1>2, <1>4, RootDone, DiskAssumption, Zenon
<1>6. RootPhase(fs, log, PublishOrReuse("transactions"), base.rev, b, "transactions")
  BY <1>1, <1>3, <1>4, RootReady, DiskAssumption, Zenon DEF Frontier
<1>7. RebaseInv("transactions", fs, log, todo', base.rev, merged)
  BY <1>2, <1>4, <1>5, <1>6, Zenon DEF RebaseInv
<1>8. TypeInv'
  BY <1>1, <1>2, Zenon DEF TypeInv, Frontier
<1>9. OpenInv'
  BY <1>1, <1>2, <1>3, <1>7, Zenon DEF OpenInv, Frontier
<1> QED BY <1>1, <1>2, <1>5, <1>8, <1>9, Zenon DEF Inv, Frontier

\* Both roots of the frontier are durable when the second publication returns.
LEMMA RebaseEnds ==
  ASSUME Inv, phase = "transactions", todo = <<>>
  PROVE  SolidPair(fs, Frontier)
<1>1. log \in Seq(Requests) /\ log # <<>>
  BY DEF Inv, TypeInv, Frontier
<1>2. RebaseInv("transactions", fs, log, todo, base.rev, merged)
  BY Zenon DEF Inv, OpenInv
<1> DEFINE b == merged["transactions"]
<1>3. /\ b \in 1..MaxRuns /\ Solid(fs, Run(b), NewRun(log))
      /\ SolidRoot(fs, "metadata", Len(log))
      /\ RootPhase(fs, log, todo, base.rev, b, "transactions")
  BY <1>2, Zenon DEF RebaseInv
<1>4. SolidRoot(fs, "transactions", Len(log))
  BY <1>1, <1>3, RootDone, DiskAssumption, Zenon
<1> QED BY <1>3, <1>4, DiskAssumption, Zenon DEF SolidPair, Frontier

\* A durable pair can be admitted.
LEMMA SolidAdmitted ==
  ASSUME NEW f, log \in Seq(Requests), RootsInv(f, log), NEW r, SolidPair(f, r)
  PROVE  (\A p \in Profiles : SlotsAt(f, p, r) # {}) /\ r \in 1..Frontier /\ r \in Pairs(f)
<1>1. ASSUME NEW p \in Profiles PROVE SlotsAt(f, p, r) # {} /\ r \in 1..Frontier
  <2>1. PICK s \in Slots, m \in ManifestType : Solid(f, Root(p, s), m) /\ m.rev = r
    BY Zenon DEF SolidPair, SolidRoot
  <2>2. Shows(f, p, s, m)
    BY <2>1, Marked, Zenon DEF Shows, Solid, Flushed
  <2>3. Held(f, log, m)
    BY <2>2, ShownHeld, Zenon
  <2> QED BY <2>1, <2>2, <2>3, ShownUsable, Zenon DEF Held, Frontier
<1>2. "metadata" \in Profiles
  BY DiskAssumption, Zenon
<1> QED BY <1>1, <1>2, Zenon DEF Pairs

LEMMA RebaseDoneInv ==
  ASSUME Inv, RebaseDone
  PROVE  Inv' /\ \A n \in RootNames : Calm(fs, fs', n)
<1>1. /\ TypeInv /\ RootsInv(fs, log) /\ HiddenInv(fs) /\ OpenInv
      /\ log \in Seq(Requests) /\ Shape(fs) /\ Frontier \in Nat
  BY DEF Inv, TypeInv, Frontier, Dir
<1>2. /\ phase = "transactions" /\ todo = <<>>
      /\ base' = BaseAt(fs, Frontier) /\ overlay' = {} /\ fs' = WithoutOrphans(fs, {})
      /\ phase' = "idle" /\ rebased' = Frontier /\ UNCHANGED <<world, log, mode, todo>>
  BY Zenon DEF RebaseDone
<1>3. mode = "open" /\ Frontier \in 1..Frontier
  BY SMTT(30), <1>1, <1>2 DEF OpenInv
<1>4. BaseShown(fs, base') /\ base'.rev = Frontier
  BY <1>1, <1>2, RebaseEnds, SolidAdmitted, PairsShown, Zenon
<1>5. Dir(fs') /\ RootsInv(fs', log) /\ \A n \in RootNames : Calm(fs, fs', n)
  BY SMTT(30), <1>1, <1>2, OrphansKeep, OrphansCalm
<1>6. HiddenInv(fs')
  BY <1>1, <1>5, CalmHidden, Zenon
<1>7. BaseShown(fs', base')
  BY <1>4, <1>5, CalmShows, NamesAre, Zenon DEF BaseShown
<1>8. overlay' = Outs(log, Frontier + 1, Frontier)
  <2>1. Frontier \in Nat
    BY <1>1, Zenon
  <2>2. (Frontier + 1)..Frontier = {}
    BY <2>1
  <2>3. Outs(log, Frontier + 1, Frontier) = {}
    BY <2>2 DEF Outs
  <2> QED BY <1>2, <2>3, Zenon
<1>9. TypeInv'
  BY <1>1, <1>2, <1>3, <1>5, Zenon DEF TypeInv, Frontier
<1>10. OpenInv'
  <2>1. /\ base'.rev \in 1..Frontier' /\ overlay' = Outs(log', base'.rev + 1, Frontier')
        /\ Frontier' - base'.rev <= MaxOverlay
    BY SMTT(30), <1>1, <1>2, <1>3, <1>4, <1>8, DiskAssumption DEF Frontier
  <2> QED BY <1>2, <1>7, <2>1, Zenon DEF OpenInv
<1> QED BY <1>2, <1>5, <1>6, <1>9, <1>10, Zenon DEF Inv

-----------------------------------------------------------------------------
(***************************************************************************)
(* The directory of the first revision.                                    *)
(***************************************************************************)
LEMMA FirstDirectory ==
  ASSUME Init
  PROVE  /\ Dir(fs) /\ RootsInv(fs, log) /\ fs.vis = fs.dur /\ fs.data = fs.safe
         /\ SolidPair(fs, 1) /\ \A n \in RootNames : \A m \in Contents(fs, n) : m.rev = 1
<1> DEFINE x == Outcomes(1, 1)
           r == RunOf(1, x)
           m1 == ManifestOf(1, 1, 1, x)
           m2 == ManifestOf(1, 1, 2, x)
           a == Run(1)
           b == Root("metadata", 1)
           c == Run(2)
           d == Root("transactions", 1)
<1>1. /\ log = <<First>> /\ First \in Requests /\ Len(log) = 1 /\ log \in Seq(Requests)
      /\ fs = [vis |-> FirstNames, dur |-> FirstNames,
               data |-> FirstContents, safe |-> FirstContents]
  BY DiskAssumption DEF Init
<1>2. /\ fs.vis = FirstNames /\ fs.dur = FirstNames
      /\ fs.data = FirstContents /\ fs.safe = FirstContents
  BY <1>1, Zenon
<1>3. 1 \in 1..MaxRuns /\ 2 \in 1..MaxRuns /\ {1, 2, 3, 4} \subseteq Files
  BY SMTT(30), RootsAssumption, FilesAssumption DEF Files
<1>4. "metadata" \in Profiles /\ "transactions" \in Profiles /\ 1 \in Slots
  BY DiskAssumption DEF Slots
<1>5. /\ a \in Names /\ b \in RootNames /\ b \in Names /\ c \in Names
      /\ d \in RootNames /\ d \in Names
      /\ a # b /\ a # c /\ a # d /\ b # c /\ b # d /\ c # d
  BY SMTT(30), <1>3, <1>4, NamesAre
<1>6. /\ x = Outs(log, 1, 1) /\ x \in SUBSET (Requests \X Nat)
      /\ m1 \in ManifestType /\ m2 \in ManifestType /\ m1.rev = 1 /\ m2.rev = 1
      /\ m1.digest = x /\ m2.digest = x /\ m1.run = 1 /\ m2.run = 2
      /\ RunOf(m1.rev, m1.digest) = r /\ RunOf(m2.rev, m2.digest) = r
  <2>1. x = Outs(log, 1, 1)
    BY Zenon DEF Outcomes, Outs
  <2> HIDE DEF x
  <2>2. x \in SUBSET (Requests \X Nat)
    <3>1. 1 \in Nat /\ 1 >= 1 /\ 1 <= Len(log) /\ log \in Seq(Requests)
      BY <1>1
    <3>2. Outs(log, 1, 1) \in SUBSET (Requests \X Nat)
      BY <3>1, OutsTyped, Zenon
    <3> QED BY <2>1, <3>2, Zenon
  <2> QED BY <1>3, <2>1, <2>2, Zenon DEF ManifestOf, ManifestType
<1>7. FirstNames \in [Names -> Files \cup {0}]
  BY <1>3, Zenon DEF FirstNames
<1>8. /\ FirstNames[a] = 1 /\ FirstNames[b] = 2 /\ FirstNames[c] = 3 /\ FirstNames[d] = 4
      /\ \A n \in Names : n \notin {a, b, c, d} => FirstNames[n] = 0
  <2> HIDE DEF a, b, c, d
  <2>1. FirstNames = [n \in Names |-> CASE n = a -> 1 [] n = b -> 2 [] n = c -> 3 [] n = d -> 4
                                        [] OTHER -> 0]
    BY Zenon DEF FirstNames, a, b, c, d
  <2> QED BY <1>5, <2>1, Zenon
<1>9. /\ FirstContents[1] = r /\ FirstContents[2] = m1 /\ FirstContents[3] = r
      /\ FirstContents[4] = m2
      /\ \A f \in Files : f \notin {1, 2, 3, 4} => FirstContents[f] = Hole
      /\ FirstContents = [f \in Files |-> FirstContents[f]]
  <2> HIDE DEF r, m1, m2
  <2>1. FirstContents = [f \in Files |-> CASE f \in {1, 3} -> r [] f = 2 -> m1 [] f = 4 -> m2
                                           [] OTHER -> Hole]
    BY Zenon DEF FirstContents, r, m1, m2, x
  <2> QED BY SMTT(30), <1>3, <2>1
<1> HIDE DEF x, r, m1, m2, a, b, c, d
<1>10. Shape(fs)
  BY <1>1, <1>2, <1>7, <1>9, Zenon DEF Shape
<1>11. Dir(fs)
  <2>1. {1, 2, 3, 4} \subseteq Alive(fs)
    BY SMTT(30), <1>2, <1>5, <1>8 DEF Alive
  <2> QED BY <1>2, <1>9, <1>10, <2>1, Zenon DEF Dir
<1>12. /\ Solid(fs, a, r) /\ Solid(fs, b, m1) /\ Solid(fs, c, r) /\ Solid(fs, d, m2)
  BY SMTT(30), <1>2, <1>8, <1>9 DEF Solid, Flushed, Written
<1>13. \A n \in RootNames : \A m \in Contents(fs, n) : (n = b /\ m = m1) \/ (n = d /\ m = m2)
  <2> SUFFICES ASSUME NEW n \in RootNames, NEW m \in Contents(fs, n)
               PROVE  (n = b /\ m = m1) \/ (n = d /\ m = m2)
    BY Zenon
  <2>1. n \in Names /\ n # a /\ n # c
    BY NamesAre, Zenon DEF a, c
  <2>2. FirstNames[n] # 0 /\ m = FirstContents[FirstNames[n]]
    BY SMTT(30), <1>2, ContentsIs
  <2>3. n = b \/ n = d
    BY <1>8, <2>1, <2>2, Zenon
  <2> QED BY <1>8, <1>9, <2>2, <2>3, Zenon
<1>14. Held(fs, log, m1) /\ Held(fs, log, m2)
  BY SMTT(30), <1>1, <1>6, <1>12 DEF Held, a, c
<1>15. RootsInv(fs, log)
  <2>1. ASSUME NEW p \in Profiles, NEW s \in Slots, NEW t \in Slots, s # t,
               NEW m \in Contents(fs, Root(p, s)), NEW k \in Contents(fs, Root(p, t))
        PROVE  FALSE
    <3>1. Root(p, s) \in {b, d} /\ Root(p, t) \in {b, d}
      BY <1>13, NamesAre, Zenon
    <3> QED BY SMTT(30), <2>1, <3>1, NamesAre DEF b, d
  <2> QED BY <1>5, <1>13, <1>14, <2>1, Zenon DEF RootsInv
<1>16. SolidPair(fs, 1)
  BY <1>4, <1>6, <1>12, DiskAssumption, Zenon DEF SolidPair, SolidRoot, b, d
<1> QED BY <1>2, <1>6, <1>11, <1>13, <1>15, <1>16, Zenon

LEMMA InitInv == Init => Inv
<1> SUFFICES ASSUME Init PROVE Inv
  BY Zenon
<1>1. Dir(fs) /\ RootsInv(fs, log) /\ HiddenInv(fs)
  BY FirstDirectory, SettledHidden, Zenon
<1>2. /\ world \in Worlds /\ log = <<First>> /\ First \in Requests /\ mode = "down"
      /\ phase = "idle" /\ todo = <<>> /\ rebased = 1
  BY DiskAssumption, Zenon DEF Init
<1>3. log \in Seq(Requests) /\ Len(log) = 1
  BY <1>2
<1>4. Once(log) /\ rebased \in 1..Frontier
  BY SMTT(30), <1>2, <1>3 DEF Once, Frontier
<1>5. TypeInv
  BY <1>1, <1>2, <1>3, <1>4, Zenon DEF TypeInv
<1>6. OpenInv
  BY <1>2, Zenon DEF OpenInv
<1> QED BY <1>1, <1>5, <1>6, Zenon DEF Inv


LEMMA StutterInv ==
  ASSUME Inv, UNCHANGED vars
  PROVE  Inv'
<1>1. /\ world' = world /\ fs' = fs /\ log' = log /\ mode' = mode /\ base' = base
      /\ overlay' = overlay /\ required' = required /\ phase' = phase /\ merged' = merged
      /\ todo' = todo /\ rebased' = rebased
  BY Zenon DEF vars
<1>2. TypeInv' /\ RootsInv(fs, log)' /\ HiddenInv(fs)'
  BY <1>1, Zenon DEF Inv, TypeInv, Frontier
<1>3. OpenInv'
  BY <1>1, Zenon DEF Inv, OpenInv, Frontier
<1> QED BY <1>2, <1>3, Zenon DEF Inv

LEMMA NextInv == Sized /\ Inv /\ [Next]_vars => Inv'
<1> SUFFICES ASSUME Sized, Inv, [Next]_vars PROVE Inv'
  BY Zenon
<1>1. CASE Open
  BY <1>1, OpenStep, Zenon
<1>2. CASE \E q \in Requests : Commit(q) \/ CommitUncertain(q) \/ LegacyCommit(q)
  BY <1>2, CommitInv, CommitUncertainInv, LegacyCommitInv, Zenon
<1>3. CASE Rebase
  BY <1>3, RebaseBegins, Zenon
<1>4. CASE RebaseRefused
  BY <1>4, RebaseRefusedInv, Zenon
<1>5. CASE RebaseMetadata
  BY <1>5, RebaseMetadataInv, Zenon
<1>6. CASE RebaseTransactions
  BY <1>6, RebaseTransactionsInv, Zenon
<1>7. CASE RebaseDone
  BY <1>7, RebaseDoneInv, Zenon
<1>8. CASE Step
  BY <1>8, StepInv, Zenon
<1>9. CASE StepFails
  BY <1>9, StepFailsInv, Zenon
<1>10. CASE Crash
  BY <1>10, CrashInv, Zenon
<1>11. CASE Stop
  BY <1>11, StopInv, Zenon
<1>12. CASE UNCHANGED vars
  BY <1>12, StutterInv, Zenon
<1> QED BY <1>1, <1>2, <1>3, <1>4, <1>5, <1>6, <1>7, <1>8, <1>9, <1>10, <1>11, <1>12, Zenon
           DEF Next

-----------------------------------------------------------------------------
(***************************************************************************)
(* What is durable as long as no process is replaced before it has         *)
(* synchronised what it wrote.                                             *)
(***************************************************************************)
LEMMA SolidKept ==
  ASSUME NEW f, NEW g, \A n \in RootNames : Keeps(f, g, n), NEW r, SolidPair(f, r)
  PROVE  SolidPair(g, r)
<1>1. \A p \in Profiles, s \in Slots : Stays(f, g, Root(p, s))
  BY NamesAre, Zenon DEF Keeps
<1> QED BY <1>1, Zenon DEF SolidPair, SolidRoot, Stays

\* In a directory without unsynchronised files what is visible is durable.
LEMMA SettledSolid ==
  ASSUME NEW f, f.vis = f.dur, f.data = f.safe, NEW b, BaseShown(f, b)
  PROVE  SolidPair(f, b.rev)
<1> SUFFICES ASSUME NEW p \in Profiles
             PROVE  \E s \in Slots : \E m \in ManifestType :
                      Solid(f, Root(p, s), m) /\ m.rev = b.rev
  BY Zenon DEF SolidPair, SolidRoot
<1>1. PICK s \in Slots, m \in ManifestType : Shows(f, p, s, m) /\ m.rev = b.rev
  BY Zenon DEF BaseShown
<1>2. Solid(f, Root(p, s), m)
  BY <1>1, Zenon DEF Shows, Written, Solid, Flushed
<1> QED BY <1>1, <1>2, Zenon

\* The roots of a durable pair are visible.
LEMMA SolidShown ==
  ASSUME NEW f, NEW r, SolidPair(f, r)
  PROVE  \E p \in Profiles, s \in Slots : \E m \in ManifestType : Shows(f, p, s, m) /\ m.rev = r
<1>1. "metadata" \in Profiles
  BY DiskAssumption, Zenon
<1>2. PICK s \in Slots, m \in ManifestType : Solid(f, Root("metadata", s), m) /\ m.rev = r
  BY <1>1, Zenon DEF SolidPair, SolidRoot
<1>3. Shows(f, "metadata", s, m)
  BY <1>2, Marked, Zenon DEF Shows, Solid, Flushed
<1> QED BY <1>1, <1>2, <1>3, Zenon

\* DurableInv after a step that keeps the roots and leaves no rebase under way.
LEMMA DurableKept ==
  ASSUME Inv, DurableInv, "restart" \notin world, \A n \in RootNames : Keeps(fs, fs', n),
         rebased' = rebased, Frontier' \in {Frontier, Frontier + 1}
  PROVE  /\ \E r \in rebased'..Frontier' : SolidPair(fs', r)
         /\ mode = "open" => SolidPair(fs', base.rev)
<1>1. PICK r \in rebased..Frontier : SolidPair(fs, r)
  BY Zenon DEF DurableInv
<1>2. SolidPair(fs', r) /\ r \in rebased'..Frontier'
  BY SMTT(30), <1>1, SolidKept DEF Inv, TypeInv, Frontier
<1>3. ASSUME mode = "open" PROVE SolidPair(fs', base.rev)
  BY <1>3, SolidKept, Zenon DEF DurableInv
<1> QED BY <1>2, <1>3, Zenon

LEMMA Unmoved ==
  ASSUME NEW f
  PROVE  \A n \in RootNames : Keeps(f, f, n)
BY Zenon DEF Keeps, Stays

LEMMA OpenDurable ==
  ASSUME Inv, DurableInv, Open, Inv', "restart" \notin world
  PROVE  DurableInv'
<1>1. /\ mode = "down" /\ mode' = "open" /\ fs' = fs /\ log' = log /\ phase' = phase
      /\ rebased' = rebased /\ phase = "idle"
  BY Zenon DEF Open, Inv, OpenInv
<1>2. fs'.vis = fs'.dur /\ fs'.data = fs'.safe
  BY <1>1, Zenon DEF DurableInv, Settled
<1>3. BaseShown(fs', base')
  BY <1>1, Zenon DEF Inv, OpenInv
<1>4. SolidPair(fs', base'.rev)
  BY <1>2, <1>3, SettledSolid, Zenon
<1>5. \E r \in rebased'..Frontier' : SolidPair(fs', r)
  BY <1>1, Zenon DEF DurableInv, Frontier
<1> QED BY <1>1, <1>4, <1>5, Zenon DEF DurableInv

\* The steps that append to the log and leave the directory alone.
LEMMA AppendDurable ==
  ASSUME Inv, DurableInv, "restart" \notin world, UNCHANGED <<world, fs, phase, rebased>>,
         phase = "idle", Frontier' \in {Frontier, Frontier + 1},
         \/ mode' = "uncertain"
         \/ mode' = mode /\ base' = base
  PROVE  DurableInv'
<1>1. /\ \E r \in rebased'..Frontier' : SolidPair(fs', r)
      /\ mode = "open" => SolidPair(fs', base.rev)
  BY DurableKept, Unmoved, Zenon
<1>2. mode = "down" => Settled
  BY Zenon DEF DurableInv
<1>3. CASE mode' = "uncertain"
  BY <1>1, <1>3, Zenon DEF DurableInv
<1>4. CASE mode' = mode /\ base' = base
  BY <1>1, <1>2, <1>4, Zenon DEF DurableInv, Settled
<1> QED BY <1>3, <1>4, Zenon

LEMMA CommitDurable ==
  ASSUME Inv, DurableInv, "restart" \notin world, NEW q \in Requests,
         Commit(q) \/ CommitUncertain(q) \/ LegacyCommit(q)
  PROVE  DurableInv'
<1>1. log \in Seq(Requests)
  BY Zenon DEF Inv, TypeInv
<1>2. Len(Append(log, q)) = Len(log) + 1
  BY <1>1
<1>3. log' \in {log, Append(log, q)} /\ UNCHANGED <<world, fs, phase, rebased>>
  BY Zenon DEF Commit, CommitUncertain, LegacyCommit
<1>4. Frontier' \in {Frontier, Frontier + 1}
  BY <1>2, <1>3, Zenon DEF Frontier
<1>5. phase = "idle"
  BY Zenon DEF Commit, CommitUncertain, LegacyCommit, Inv, OpenInv
<1>6. mode' = "uncertain" \/ (mode' = mode /\ base' = base)
  BY Zenon DEF Commit, CommitUncertain, LegacyCommit
<1> QED BY <1>3, <1>4, <1>5, <1>6, AppendDurable, Zenon

LEMMA RebaseDurable ==
  ASSUME Inv, DurableInv, Rebase, Inv', "restart" \notin world
  PROVE  DurableInv'
<1>1. /\ mode = "open" /\ phase' = "runs"
      /\ UNCHANGED <<world, fs, log, mode, base, overlay, rebased>>
  BY Zenon DEF Rebase, Rebasable
<1>2. Between(fs, base.rev, Frontier)
  BY <1>1, Zenon DEF Inv, OpenInv, RebaseInv, Frontier
<1>3. PICK r \in rebased..Frontier : SolidPair(fs, r)
  BY Zenon DEF DurableInv
<1>4. r <= base.rev \/ r = Frontier
  BY SMTT(30), <1>2, <1>3, SolidShown DEF Between
<1>5. rebased \in Nat /\ base.rev \in Nat /\ Frontier \in Nat
  BY <1>1 DEF Inv, TypeInv, OpenInv, Frontier
<1>6. rebased <= base.rev \/ SolidPair(fs, Frontier)
  BY SMTT(30), <1>3, <1>4, <1>5
<1>7. SolidPair(fs, base.rev)
  BY <1>1, Zenon DEF DurableInv
<1> QED BY <1>1, <1>3, <1>6, <1>7, Zenon DEF DurableInv, Frontier


\* The steps of a coordinator that change neither the directory nor the log.
LEMMA QuietDurable ==
  ASSUME DurableInv, UNCHANGED <<world, fs, log, mode, base, rebased>>,
         phase' = phase \/ (phase # "idle" /\ phase' # "idle")
  PROVE  DurableInv'
BY Zenon DEF DurableInv, Settled, Frontier

LEMMA RebaseDoneDurable ==
  ASSUME Inv, RebaseDone, "restart" \notin world
  PROVE  DurableInv'
<1>1. /\ phase = "transactions" /\ todo = <<>> /\ base' = BaseAt(fs, Frontier)
      /\ phase' = "idle" /\ rebased' = Frontier /\ UNCHANGED <<world, log, mode, todo>>
  BY Zenon DEF RebaseDone
<1>2. mode = "open" /\ Frontier \in Nat
  BY <1>1 DEF Inv, OpenInv, Frontier, TypeInv
<1>3. base'.rev = Frontier
  BY <1>1, Zenon DEF BaseAt
<1>4. SolidPair(fs, Frontier)
  BY <1>1, RebaseEnds, Zenon
<1>5. \A n \in RootNames : Keeps(fs, fs', n)
  BY RebaseDoneInv, Zenon DEF Calm
<1>6. SolidPair(fs', Frontier)
  BY <1>4, <1>5, SolidKept, Zenon
<1> QED BY SMTT(30), <1>1, <1>2, <1>3, <1>6 DEF DurableInv, Frontier

LEMMA StepDurable ==
  ASSUME Inv, DurableInv, Step, "restart" \notin world
  PROVE  DurableInv'
<1>1. /\ todo # <<>>
      /\ UNCHANGED <<world, log, mode, base, overlay, required, phase, merged, rebased>>
  BY Zenon DEF Step
<1>2. mode = "open" /\ phase # "idle" /\ base.rev \in 1..Frontier
  BY <1>1, Underway, Zenon DEF Frontier
<1>3. base.rev \in Nat /\ Frontier \in Nat /\ base.rev <= Frontier /\ rebased \in 1..Frontier
  BY <1>2 DEF Inv, TypeInv, Frontier
<1>4. Moves(fs, fs', base.rev, Frontier)
  BY StepInv, Zenon
<1>5. \A r \in Nat : r >= base.rev /\ SolidPair(fs, r) => SolidPair(fs', r)
  BY <1>4, Zenon DEF Moves, SolidPair
<1>6. SolidPair(fs', base.rev)
  BY SMTT(30), <1>2, <1>3, <1>5 DEF DurableInv
<1>7. rebased <= base.rev \/ SolidPair(fs', Frontier)
  BY <1>2, <1>3, <1>5, Zenon DEF DurableInv
<1>8. \E r \in rebased..Frontier : SolidPair(fs', r)
  BY SMTT(30), <1>3, <1>6, <1>7
<1> QED BY <1>1, <1>2, <1>6, <1>7, <1>8, Zenon DEF DurableInv, Frontier

LEMMA StepFailsDurable ==
  ASSUME Inv, DurableInv, StepFails, "restart" \notin world
  PROVE  DurableInv'
<1>1. /\ todo # <<>> /\ phase' = "idle"
      /\ UNCHANGED <<world, log, mode, base, overlay, required, rebased>>
  BY Zenon DEF StepFails
<1>2. mode = "open"
  BY <1>1, Underway, Zenon
<1>3. \A n \in RootNames : Keeps(fs, fs', n)
  BY StepFailsInv, Zenon
<1>4. /\ \E r \in rebased'..Frontier' : SolidPair(fs', r)
      /\ SolidPair(fs', base.rev)
  BY <1>1, <1>2, <1>3, DurableKept, Zenon DEF Frontier
<1> QED BY <1>1, <1>2, <1>4, Zenon DEF DurableInv

\* What a crash and the end of a process leave.
LEMMA CrashLeaves ==
  ASSUME Inv, Crash
  PROVE  Settled' /\ \A n \in RootNames : Keeps(fs, fs', n)
<1>1. PICK f \in Crashed(fs) : fs' = WithoutOrphans(f, {})
  BY Zenon DEF Crash
<1>2. Dir(f) /\ f.vis = f.dur /\ f.data = f.safe /\ \A n \in Names : Keeps(fs, f, n)
  BY CrashKeeps, Zenon DEF Inv, TypeInv
<1>3. RootsInv(f, log) /\ Shape(f)
  BY <1>2, AllKept, Zenon DEF Dir, Inv
<1>4. /\ fs'.vis = fs'.dur /\ fs'.data = fs'.safe
      /\ \A n \in RootNames : Keeps(f, fs', n)
  BY <1>1, <1>2, <1>3, OrphansGo, OrphansKeep, Zenon
<1>5. \A n \in RootNames : Keeps(fs, fs', n)
  BY <1>2, <1>4, NamesAre, Zenon DEF Keeps, Stays
<1> QED BY <1>4, <1>5, Zenon DEF Settled

LEMMA StopLeaves ==
  ASSUME Inv, Stop
  PROVE  /\ \A n \in RootNames : Keeps(fs, fs', n)
         /\ Settled => Settled'
<1>1. Shape(fs) /\ RootsInv(fs, log) /\ fs' = WithoutOrphans(fs, {})
  BY Zenon DEF Inv, TypeInv, Stop, Dir
<1>2. \A n \in RootNames : Keeps(fs, fs', n)
  BY <1>1, OrphansKeep, Zenon
<1>3. ASSUME Settled PROVE Settled'
  BY <1>1, <1>3, OrphansGo, Zenon DEF Settled
<1> QED BY <1>2, <1>3, Zenon

LEMMA EndDurable ==
  ASSUME Inv, DurableInv, Crash \/ Stop, "restart" \notin world
  PROVE  DurableInv'
<1>1. mode' = "down" /\ phase' = "idle" /\ UNCHANGED <<world, log, rebased>>
  BY Zenon DEF Crash, Stop, Stopped
<1>2. \A n \in RootNames : Keeps(fs, fs', n)
  BY CrashLeaves, StopLeaves, Zenon
<1>3. Settled'
  BY CrashLeaves, StopLeaves, Zenon DEF Stop
<1>4. \E r \in rebased'..Frontier' : SolidPair(fs', r)
  BY <1>1, <1>2, DurableKept, Zenon DEF Frontier
<1> QED BY <1>1, <1>3, <1>4, Zenon DEF DurableInv

\* Each step keeps the world it began in.
LEMMA WorldStays == [Next]_vars => world' = world
BY Zenon DEF Next, vars, Open, Commit, CommitUncertain, LegacyCommit, Rebase, RebaseRefused,
       RebaseMetadata, RebaseTransactions, RebaseDone, Step, StepFails, Crash, Stop, Stopped

LEMMA InitDurable == Init => DurableInv
<1> SUFFICES ASSUME Init PROVE DurableInv
  BY Zenon
<1>1. fs.vis = fs.dur /\ fs.data = fs.safe /\ SolidPair(fs, 1)
  BY FirstDirectory, Zenon
<1>2. mode = "down" /\ phase = "idle" /\ rebased = 1 /\ Frontier = 1
  BY Zenon DEF Init, Frontier
<1> QED BY SMTT(30), <1>1, <1>2 DEF DurableInv, Settled

LEMMA NextDurable == Sized /\ Inv /\ DurableInv /\ [Next]_vars => DurableInv'
<1> SUFFICES ASSUME Sized, Inv, DurableInv, [Next]_vars PROVE DurableInv'
  BY Zenon
<1>1. Inv' /\ world' = world
  BY NextInv, WorldStays, Zenon
<1>2. CASE "restart" \in world
  BY <1>1, <1>2, Zenon DEF DurableInv
<1>3. CASE "restart" \notin world
  <2>1. CASE Open
    BY <1>1, <1>3, <2>1, OpenDurable, Zenon
  <2>2. CASE \E q \in Requests : Commit(q) \/ CommitUncertain(q) \/ LegacyCommit(q)
    BY <1>3, <2>2, CommitDurable, Zenon
  <2>3. CASE Rebase
    BY <1>1, <1>3, <2>3, RebaseDurable, Zenon
  <2>4. CASE RebaseRefused \/ UNCHANGED vars
    BY <2>4, QuietDurable, Zenon DEF RebaseRefused, vars
  <2>5. CASE RebaseMetadata \/ RebaseTransactions
    BY <2>5, QuietDurable, Zenon DEF RebaseMetadata, RebaseTransactions
  <2>6. CASE RebaseDone
    BY <1>3, <2>6, RebaseDoneDurable, Zenon
  <2>7. CASE Step
    BY <1>3, <2>7, StepDurable, Zenon
  <2>8. CASE StepFails
    BY <1>3, <2>8, StepFailsDurable, Zenon
  <2>9. CASE Crash \/ Stop
    BY <1>3, <2>9, EndDurable, Zenon
  <2> QED BY <2>1, <2>2, <2>3, <2>4, <2>5, <2>6, <2>7, <2>8, <2>9, Zenon DEF Next
<1> QED BY <1>2, <1>3, Zenon

-----------------------------------------------------------------------------
(***************************************************************************)
(* What recovery has to replay.                                            *)
(***************************************************************************)
Fits(f, fr) ==
  \E r \in 1..fr : SolidPair(f, r) /\ fr - r <= MaxOverlay /\ Anchored(f, r, fr)
Latest(f, r) == \A n \in RootNames : \A m \in Contents(f, n) : m.rev <= r

LEMMA FitIs ==
  FitInv <=> ("restart" \notin world /\ "legacy" \notin world =>
                (mode = "open" /\ ~required => Latest(fs, base.rev)) /\ Fits(fs, Frontier))
BY Zenon DEF FitInv, Fits, Latest

LEMMA FitsKept ==
  ASSUME NEW f, NEW g, \A n \in RootNames : Keeps(f, g, n), NEW fr, Fits(f, fr)
  PROVE  Fits(g, fr)
<1>1. PICK r \in 1..fr : SolidPair(f, r) /\ fr - r <= MaxOverlay /\ Anchored(f, r, fr)
  BY Zenon DEF Fits
<1>2. SolidPair(g, r)
  BY <1>1, SolidKept, Zenon
<1>3. Anchored(g, r, fr)
  BY <1>1, Zenon DEF Anchored, Keeps
<1> QED BY <1>1, <1>2, <1>3, Zenon DEF Fits

\* A commit is admitted over the newest pair only.
LEMMA CommitFits ==
  ASSUME Sized, Inv, DurableInv, FitInv, "restart" \notin world, "legacy" \notin world,
         NEW q \in Requests, Commit(q) \/ CommitUncertain(q)
  PROVE  FitInv'
<1>1. /\ mode = "open" /\ Admits(q) /\ ~required /\ world' = world /\ fs' = fs
      /\ log' \in {log, Append(log, q)}
      /\ mode' = "uncertain" \/ (mode' = "open" /\ base' = base /\ required' = required)
  BY Zenon DEF Commit, CommitUncertain, Admits
<1>2. /\ base.rev \in 1..Frontier /\ Frontier \in Nat /\ log \in Seq(Requests)
  BY SMTT(30), <1>1 DEF Inv, OpenInv, TypeInv, Frontier
<1>3. Frontier' = Frontier \/ Frontier' = Frontier + 1
  BY <1>1, <1>2 DEF Frontier
<1>4. Frontier + 1 - base.rev <= MaxOverlay
  BY <1>1, Admitted, Zenon
<1>5. Frontier' - base.rev <= MaxOverlay /\ base.rev \in 1..Frontier' /\ MaxOverlay \in Nat
  BY SMTT(30), <1>2, <1>3, <1>4, DiskAssumption
<1>6. Latest(fs, base.rev)
  BY <1>1, FitIs, Zenon
<1>7. SolidPair(fs, base.rev)
  BY <1>1, Zenon DEF DurableInv
<1>8. Fits(fs, Frontier')
  BY <1>5, <1>6, <1>7, Zenon DEF Fits, Latest, Anchored
<1> QED BY <1>1, <1>6, <1>8, Zenon DEF FitInv, Fits, Latest

LEMMA OpenFits ==
  ASSUME Inv, DurableInv, FitInv, Open, "restart" \notin world, "legacy" \notin world
  PROVE  FitInv'
<1>1. PICK r \in Pairs(fs) : base' = BaseAt(fs, r) /\ required' = NewerRoot(fs, r)
  BY Zenon DEF Open
<1>2. mode = "down" /\ fs' = fs /\ log' = log /\ world' = world
  BY Zenon DEF Open
<1>3. Fits(fs', Frontier')
  BY <1>2, FitIs, Zenon DEF Frontier
<1>4. ASSUME ~required' PROVE Latest(fs', base'.rev)
  <2>1. base'.rev = r /\ ~NewerRoot(fs, r) /\ r \in Nat
    BY SMTT(30), <1>1, <1>4 DEF BaseAt, Pairs
  <2> SUFFICES ASSUME NEW n \in RootNames, NEW m \in Contents(fs, n) PROVE m.rev <= r
    BY <1>2, <2>1, Zenon DEF Latest
  <2>2. PICK p \in Profiles, s \in Slots : n = Root(p, s)
    BY NamesAre, Zenon
  <2>3. fs.vis = fs.dur /\ fs.data = fs.safe
    BY <1>2, Zenon DEF DurableInv, Settled
  <2>4. Shows(fs, p, s, m)
    BY SMTT(30), <2>2, <2>3, ContentsIs DEF Shows, Written
  <2>5. s \in ManifestSlots(fs, p) /\ m = Manifest(fs, p, s) /\ m.rev \in Nat
    BY SMTT(30), <2>4, SlotsShown, FoundHeld DEF Inv, TypeInv
  <2> QED BY SMTT(30), <2>1, <2>5 DEF NewerRoot
<1> QED BY <1>2, <1>3, <1>4, Zenon DEF FitInv, Fits, Latest

\* The steps after which the roots are kept and either the coordinator is not
\* open or a rebase is due.
LEMMA KeptFits ==
  ASSUME FitInv, \A n \in RootNames : Keeps(fs, fs', n), UNCHANGED <<world, log>>,
         mode' # "open" \/ required'
  PROVE  FitInv'
<1>1. CASE "restart" \in world \/ "legacy" \in world
  BY <1>1, Zenon DEF FitInv
<1>2. CASE "restart" \notin world /\ "legacy" \notin world
  <2>1. Fits(fs, Frontier)
    BY <1>2, FitIs, Zenon
  <2>2. Fits(fs', Frontier')
    BY <2>1, FitsKept, Zenon DEF Frontier
  <2> QED BY <2>2, Zenon DEF FitInv, Fits
<1> QED BY SMTT(30), <1>1, <1>2

LEMMA RebaseDoneFits ==
  ASSUME Inv, RebaseDone
  PROVE  FitInv'
<1>1. /\ phase = "transactions" /\ todo = <<>> /\ base' = BaseAt(fs, Frontier)
      /\ UNCHANGED <<world, log, mode, todo>>
  BY Zenon DEF RebaseDone
<1>2. /\ Frontier' = Frontier /\ Frontier \in Nat /\ base'.rev = Frontier /\ Frontier \in 1..Frontier
  BY <1>1 DEF BaseAt, Frontier, Inv, TypeInv
<1>3. SolidPair(fs, Frontier)
  BY <1>1, RebaseEnds, Zenon
<1>4. Inv' /\ \A n \in RootNames : Keeps(fs, fs', n)
  BY RebaseDoneInv, Zenon DEF Calm
<1>5. SolidPair(fs', Frontier)
  BY <1>3, <1>4, SolidKept, Zenon
<1>6. Latest(fs', Frontier)
  <2>1. \A n \in RootNames : \A m \in Contents(fs', n) : Held(fs', log, m)
    BY <1>1, <1>4, Zenon DEF Inv, RootsInv
  <2> QED BY <2>1 DEF Latest, Held, Frontier
<1>7. Frontier - Frontier <= MaxOverlay
  BY SMTT(30), <1>2, DiskAssumption
<1> QED BY <1>2, <1>5, <1>6, <1>7, Zenon DEF FitInv, Fits, Latest, Anchored

LEMMA StepFits ==
  ASSUME Inv, DurableInv, FitInv, Step, "restart" \notin world, "legacy" \notin world
  PROVE  FitInv'
<1>1. /\ todo # <<>>
      /\ UNCHANGED <<world, log, mode, base, overlay, required, phase, merged, rebased>>
  BY Zenon DEF Step
<1>2. mode = "open" /\ required /\ base.rev \in 1..Frontier /\ Frontier \in Nat
  BY SMTT(30), <1>1, Underway DEF Frontier, Inv, TypeInv
<1>3. SolidPair(fs, base.rev) /\ Frontier - base.rev <= MaxOverlay
  BY <1>2, Zenon DEF DurableInv, Inv, OpenInv
<1>4. Moves(fs, fs', base.rev, Frontier)
  BY StepInv, Zenon
<1>5. PICK r \in 1..Frontier :
        SolidPair(fs, r) /\ Frontier - r <= MaxOverlay /\ Anchored(fs, r, Frontier)
  BY Zenon DEF FitInv
<1>6. \A u \in 1..Frontier : u >= base.rev /\ SolidPair(fs, u) => SolidPair(fs', u)
  BY SMTT(30), <1>2, <1>4 DEF Moves, SolidPair
<1>7. \A n \in RootNames : \A m \in Contents(fs', n) : m.rev = Frontier \/ m \in Contents(fs, n)
  BY <1>4, NamesAre, Zenon DEF Moves
<1>8. \A u \in 1..Frontier : Anchored(fs, u, Frontier) => Anchored(fs', u, Frontier)
  BY <1>7, Zenon DEF Anchored
<1>9. Fits(fs', Frontier)
  <2>1. CASE r >= base.rev
    BY <1>5, <1>6, <1>8, <2>1, Zenon DEF Fits
  <2>2. CASE r < base.rev
    <3>1. Anchored(fs, base.rev, Frontier)
      <4> SUFFICES ASSUME NEW n \in RootNames, NEW m \in Contents(fs, n)
                   PROVE  m.rev <= base.rev \/ m.rev = Frontier
        BY Zenon DEF Anchored
      <4>1. m.rev \in Nat
        BY DEF Inv, RootsInv, Held, ManifestType
      <4> QED BY SMTT(30), <1>2, <1>5, <2>2, <4>1 DEF Anchored
    <3>2. base.rev >= base.rev
      BY <1>2
    <3> QED BY <1>2, <1>3, <1>6, <1>8, <3>1, <3>2, Zenon DEF Fits
  <2> QED BY SMTT(30), <1>2, <2>1, <2>2
<1> QED BY <1>1, <1>2, <1>9, Zenon DEF FitInv, Fits, Frontier


LEMMA InitFits == Init => FitInv
<1> SUFFICES ASSUME Init PROVE FitInv
  BY Zenon
<1>1. /\ SolidPair(fs, 1) /\ \A n \in RootNames : \A m \in Contents(fs, n) : m.rev = 1
  BY FirstDirectory, Zenon
<1>2. mode = "down" /\ Frontier = 1 /\ 1 \in 1..1 /\ 1 - 1 <= MaxOverlay
  BY DiskAssumption DEF Init, Frontier
<1>3. Anchored(fs, 1, 1)
  BY <1>1, Zenon DEF Anchored
<1> QED BY <1>1, <1>2, <1>3, Zenon DEF FitInv

LEMMA NextFits == Sized /\ Inv /\ DurableInv /\ FitInv /\ [Next]_vars => FitInv'
<1> SUFFICES ASSUME Sized, Inv, DurableInv, FitInv, [Next]_vars PROVE FitInv'
  BY Zenon
<1>1. world' = world
  BY WorldStays, Zenon
<1>2. CASE "restart" \in world \/ "legacy" \in world
  BY <1>1, <1>2, Zenon DEF FitInv
<1>3. CASE "restart" \notin world /\ "legacy" \notin world
  <2>1. CASE Open
    BY <1>3, <2>1, OpenFits, Zenon
  <2>2. CASE \E q \in Requests : Commit(q) \/ CommitUncertain(q) \/ LegacyCommit(q)
    BY <1>3, <2>2, CommitFits, Zenon DEF LegacyCommit
  <2>3. CASE Rebase \/ RebaseRefused
    BY <2>3, Unmoved, KeptFits, Zenon DEF Rebase, RebaseRefused
  <2>4. CASE RebaseMetadata \/ RebaseTransactions
    <3>1. phase # "idle" /\ UNCHANGED <<world, fs, log, required>>
      BY <2>4, Zenon DEF RebaseMetadata, RebaseTransactions
    <3>2. required'
      BY <3>1, Zenon DEF Inv, OpenInv
    <3> QED BY <3>1, <3>2, Unmoved, KeptFits, Zenon
  <2>5. CASE RebaseDone
    BY <2>5, RebaseDoneFits, Zenon
  <2>6. CASE Step
    BY <1>3, <2>6, StepFits, Zenon
  <2>7. CASE StepFails
    <3>1. required' /\ UNCHANGED <<world, log>>
      BY <2>7, Underway, Zenon DEF StepFails
    <3> QED BY <2>7, <3>1, StepFailsInv, KeptFits, Zenon
  <2>8. CASE Crash \/ Stop
    <3>1. mode' = "down" /\ UNCHANGED <<world, log>>
      BY <2>8, Zenon DEF Crash, Stop, Stopped
    <3> QED BY <2>8, <3>1, CrashLeaves, StopLeaves, KeptFits, Zenon
  <2>9. CASE UNCHANGED vars
    BY <2>9, Zenon DEF FitInv, vars, Frontier
  <2> QED BY <2>1, <2>2, <2>3, <2>4, <2>5, <2>6, <2>7, <2>8, <2>9, Zenon DEF Next
<1> QED BY <1>2, <1>3, Zenon

-----------------------------------------------------------------------------
(***************************************************************************)
(* What the invariants say of the pairs.                                   *)
(***************************************************************************)
LEMMA PairIs == Inv /\ DurableInv => ("restart" \notin world => PairSurvives)
<1> SUFFICES ASSUME Inv, DurableInv, "restart" \notin world PROVE PairSurvives
  BY Zenon
<1>1. PICK r \in rebased..Frontier : SolidPair(fs, r)
  BY Zenon DEF DurableInv
<1>2. r \in Pairs(fs)
  BY <1>1, SolidAdmitted, Zenon DEF Inv, TypeInv
<1>3. r >= rebased
  BY <1>1 DEF Inv, TypeInv, Frontier
<1> QED BY <1>2, <1>3, Zenon DEF PairSurvives

LEMMA FitsIs == Inv /\ FitInv => ("restart" \notin world => RecoveryFits)
<1> SUFFICES ASSUME Inv, FitInv, "restart" \notin world, "legacy" \notin world
             PROVE  /\ \E r \in Pairs(fs) : Frontier - r <= MaxOverlay
                    /\ mode = "open" /\ (\A r \in Pairs(fs) : r <= base.rev)
                         => ~Refused(fs, base.rev)
  BY Zenon DEF RecoveryFits
<1>1. PICK r \in 1..Frontier :
        SolidPair(fs, r) /\ Frontier - r <= MaxOverlay /\ Anchored(fs, r, Frontier)
  BY Zenon DEF FitInv
<1>2. log \in Seq(Requests) /\ RootsInv(fs, log)
  BY Zenon DEF Inv, TypeInv
<1>3. r \in Pairs(fs)
  BY <1>1, <1>2, SolidAdmitted, Zenon
<1>4. ASSUME mode = "open", \A z \in Pairs(fs) : z <= base.rev, Refused(fs, base.rev)
      PROVE  FALSE
  <2>1. PICK p \in Profiles : \E s \in ManifestSlots(fs, p) :
          Manifest(fs, p, s).rev > base.rev /\ Manifest(fs, p, s).rev # Frontier
    BY <1>4, Zenon DEF Refused
  <2>2. PICK s \in ManifestSlots(fs, p) :
          Manifest(fs, p, s).rev > base.rev /\ Manifest(fs, p, s).rev # Frontier
    BY <2>1, Zenon
  <2> DEFINE m == Manifest(fs, p, s)
  <2>3. s \in Slots /\ m \in Contents(fs, Root(p, s)) /\ m.rev \in Nat
    BY <1>2, FoundHeld, Zenon
  <2>4. m.rev <= r \/ m.rev = Frontier
    BY <1>1, <2>3, NamesAre, Zenon DEF Anchored
  <2>5. r <= base.rev /\ base.rev \in Nat
    BY SMTT(30), <1>3, <1>4 DEF Inv, OpenInv
  <2> HIDE DEF m
  <2>6. m.rev > base.rev /\ m.rev # Frontier
    BY <2>2, Zenon DEF m
  <2> QED BY SMTT(30), <1>1, <2>3, <2>4, <2>5, <2>6
<1> QED BY <1>1, <1>3, <1>4, Zenon

-----------------------------------------------------------------------------
(***************************************************************************)
(* The theorems, and the count of outcomes they rest on.                   *)
(***************************************************************************)
INSTANCE FiniteSetTheorems
INSTANCE FunctionTheorems

\* As many outcomes as revisions.
LEMMA OutsSize ==
  ASSUME NEW lg, NEW a \in Nat, NEW b \in Nat, a <= b
  PROVE  Cardinality(Outs(lg, a + 1, b)) = b - a
<1> DEFINE S == (a + 1)..b
           T == Outs(lg, a + 1, b)
           F == [r \in S |-> <<lg[r], r>>]
<1>1. F \in [S -> T]
  BY Zenon DEF Outs
<1>2. \A x \in S, y \in S : F[x] = F[y] => x = y
  BY Zenon
<1>3. \A t \in T : \E x \in S : F[x] = t
  BY Zenon DEF Outs
<1> HIDE DEF F, T, S
<1>4. F \in Bijection(S, T)
  BY <1>1, <1>2, <1>3, Fun_IsBij, Zenon
<1>5. ExistsBijection(S, T)
  BY <1>4, Fun_ExistsBij, Zenon
<1>6. IsFiniteSet(S) /\ Cardinality(S) = IF a + 1 > b THEN 0 ELSE b - (a + 1) + 1
  BY SMTT(30), FS_Interval DEF S
<1>7. Cardinality(T) = Cardinality(S)
  BY <1>5, <1>6, FS_Bijection, Zenon
<1> QED BY SMTT(30), <1>6, <1>7 DEF T

LEMMA SizedHolds == Sized
BY OutsSize, Zenon DEF Sized

\* The inductive invariant holds in every behaviour, whatever fails, crashes or
\* restarts: every manifest on either side of the disk names a complete, durable
\* run (index.rs publish_root), and while a rebase is under way its remaining
\* calls are exactly the ones that fit what is on the disk.
THEOREM InvHolds == Spec => []Inv
<1>1. Inv /\ [Next]_vars => Inv'
  BY NextInv, SizedHolds, Zenon
<1> QED BY <1>1, InitInv, PTL DEF Spec

\* outcome and transaction_outcome find a request exactly at its revision,
\* before, during and after a rebase, however it was cut (disk_coordinator.rs).
THEOREM LookupsMatchTheLog == Spec => []LookupMatchesLog
<1>1. Inv => LookupMatchesLog
  BY LookupIs, Zenon DEF LookupMatchesLog
<1> QED BY <1>1, InvHolds, PTL

\* Unless a process is replaced over unsynchronised files, a complete pair at
\* the last rebase that returned, or a later one, can be admitted at any time,
\* through failed calls, crashes and commits of another writer (rebase.rs).
THEOREM PairsSurvive == Spec => []("restart" \notin world => PairSurvives)
<1>1. Inv /\ DurableInv => ("restart" \notin world => PairSurvives)
  BY PairIs, Zenon
<1>2. Inv /\ DurableInv /\ [Next]_vars => Inv' /\ DurableInv'
  BY NextInv, NextDurable, SizedHolds, Zenon
<1> QED BY <1>1, <1>2, InitInv, InitDurable, PTL DEF Spec

\* Unless a process is replaced over unsynchronised files, the suffix after some
\* complete pair always fits in the overlay, so the store can be opened again,
\* and opened on the newest pair a coordinator can always rebase: the limit that
\* admits a commit never locks the store (disk_coordinator.rs).
THEOREM RecoveryAlwaysFits == Spec => []("restart" \notin world => RecoveryFits)
<1>1. Inv /\ DurableInv /\ FitInv => ("restart" \notin world => RecoveryFits)
  BY FitsIs, Zenon
<1>2. Inv /\ DurableInv /\ FitInv /\ [Next]_vars => Inv' /\ DurableInv' /\ FitInv'
  BY NextInv, NextDurable, NextFits, SizedHolds, Zenon
<1> QED BY <1>1, <1>2, InitInv, InitDurable, InitFits, PTL DEF Spec
=============================================================================
