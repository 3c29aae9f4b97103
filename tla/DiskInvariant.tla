--------------------------- MODULE DiskInvariant ---------------------------
(***************************************************************************)
(* The inductive invariant of the disk-backed commit coordinator.  Each    *)
(* call of a rebase and its failure, a crash, the end of the process, an   *)
(* opening and a commit keep it.                                           *)
(***************************************************************************)
EXTENDS DiskCoordinator, FileOpsProofs

\* The outcomes of revisions a to b of the log lg.
Outs(lg, a, b) == {<<lg[r], r>> : r \in a..b}

\* A manifest m that is on disk, or may be after a crash: it is bound to the
\* outcomes of its revision and its run is durable.
Held(f, lg, m) ==
  /\ m \in ManifestType
  /\ m.rev \in 1..Len(lg) /\ m.digest = Outs(lg, 1, m.rev)
  /\ Solid(f, Run(m.run), RunOf(m.rev, m.digest))

Before(m, k) == m.rev < k.rev /\ m.gen < k.gen

\* A slot never has two manifests, and the two slots of a profile are ordered
\* alike by revision and by generation.
RootsInv(f, lg) ==
  /\ \A n \in RootNames : \A m \in Contents(f, n) : Held(f, lg, m)
  /\ \A n \in RootNames : \A m, k \in Contents(f, n) : m = k
  /\ \A p \in Profiles : \A s, t \in Slots : s # t =>
       \A m \in Contents(f, Root(p, s)), k \in Contents(f, Root(p, t)) :
         Before(m, k) \/ Before(k, m)

\* A reader finds the manifest m in the slot.
Shows(f, p, s, m) == Written(f, Root(p, s), m) /\ m \notin {Hole, Torn}

\* A manifest that readers do not find is older than the one they find in the
\* other slot.
HiddenInv(f) ==
  \A p \in Profiles, s \in Slots : \A m \in Contents(f, Root(p, s)) :
    \/ Shows(f, p, s, m)
    \/ \E t \in Slots \ {s} : \E k \in ManifestType : Shows(f, p, t, k) /\ Before(m, k)

\* The pair of the admitted base b is visible.
BaseShown(f, b) ==
  \A p \in Profiles : \E s \in Slots : \E m \in ManifestType :
    Shows(f, p, s, m) /\ m.rev = b.rev /\ m.run = b.runs[p]

\* A root of profile p at revision r is durable; both roots are.
SolidRoot(f, p, r) ==
  \E s \in Slots : \E m \in ManifestType : Solid(f, Root(p, s), m) /\ m.rev = r
SolidPair(f, r) == \A p \in Profiles : SolidRoot(f, p, r)

\* The log records no request twice.
Once(lg) == \A i, j \in 1..Len(lg) : lg[i] = lg[j] => i = j

-----------------------------------------------------------------------------
(***************************************************************************)
(* Where a rebase is: which calls remain, and what the earlier ones left.  *)
(***************************************************************************)
NewRun(lg) == RunOf(Len(lg), Outs(lg, 1, Len(lg)))

RunsPhase(f, td, a, b, x) ==
  \/ td = <<New(a, x), Sync(a), DirSync(a), New(b, x), Sync(b), DirSync(b)>>
  \/ td = <<Sync(a), DirSync(a), New(b, x), Sync(b), DirSync(b)>> /\ Written(f, a, x)
  \/ td = <<DirSync(a), New(b, x), Sync(b), DirSync(b)>> /\ Flushed(f, a, x)
  \/ td = <<New(b, x), Sync(b), DirSync(b)>> /\ Solid(f, a, x)
  \/ td = <<Sync(b), DirSync(b)>> /\ Solid(f, a, x) /\ Written(f, b, x)
  \/ td = <<DirSync(b)>> /\ Solid(f, a, x) /\ Flushed(f, b, x)
  \/ td = <<>> /\ Solid(f, a, x) /\ Solid(f, b, x)

\* The other slot of profile p holds the root of the base, older than m.
Follows(f, br, p, s, m) ==
  \E t \in Slots \ {s} : \E k \in ManifestType :
    Shows(f, p, t, k) /\ k.rev = br /\ Before(k, m)

\* What the slot holds, or may hold after a crash, is older than the base.
Older(f, n, br) == \A k \in Contents(f, n) : k.rev < br

PublishPhase(f, td, br, n, m) ==
  \/ td = <<Rm(n), DirSync(n), New(n, m), Sync(n), DirSync(n)>> /\ Older(f, n, br)
  \/ td = <<DirSync(n), New(n, m), Sync(n), DirSync(n)>> /\ f.vis[n] = 0 /\ Older(f, n, br)
  \/ td = <<New(n, m), Sync(n), DirSync(n)>> /\ f.vis[n] = 0 /\ f.dur[n] = 0
  \/ td = <<Sync(n), DirSync(n)>> /\ Written(f, n, m)
  \/ td = <<DirSync(n)>> /\ Flushed(f, n, m)
  \/ td = <<>> /\ Solid(f, n, m)

ReusePhase(f, td, n, m) ==
  \/ td = <<Sync(Run(m.run)), Sync(n), DirSync(n)>> /\ Written(f, n, m)
  \/ td = <<Sync(n), DirSync(n)>> /\ Written(f, n, m)
  \/ td = <<DirSync(n)>> /\ Flushed(f, n, m)
  \/ td = <<>> /\ Solid(f, n, m)

RootPhase(f, lg, td, br, o, p) ==
  \/ \E s \in Slots, gen \in Nat :
       LET m == ManifestOf(Len(lg), gen, o, Outs(lg, 1, Len(lg))) IN
       Follows(f, br, p, s, m) /\ PublishPhase(f, td, br, Root(p, s), m)
  \/ \E s \in Slots : \E m \in ManifestType : m.rev = Len(lg) /\ ReusePhase(f, td, Root(p, s), m)
  \/ \E n \in RootNames : td = <<Fail(n)>>

\* No root lies between the base and the frontier.
Between(f, br, fr) ==
  \A p \in Profiles, s \in Slots : \A m \in ManifestType :
    Shows(f, p, s, m) => m.rev <= br \/ m.rev = fr

RebaseInv(ph, f, lg, td, br, mg) ==
  LET a == mg["metadata"]  b == mg["transactions"]  x == NewRun(lg) IN
  /\ Between(f, br, Len(lg)) /\ a \in 1..MaxRuns /\ b \in 1..MaxRuns /\ a # b
  /\ ph = "runs" => RunsPhase(f, td, Run(a), Run(b), x)
  /\ ph # "runs" => Solid(f, Run(a), x) /\ Solid(f, Run(b), x)
  /\ ph = "metadata" => RootPhase(f, lg, td, br, a, "metadata")
  /\ ph = "transactions" =>
       SolidRoot(f, "metadata", Len(lg)) /\ RootPhase(f, lg, td, br, b, "transactions")

-----------------------------------------------------------------------------
(***************************************************************************)
(* The inductive invariant.                                                *)
(***************************************************************************)
TypeInv ==
  /\ world \in Worlds /\ Dir(fs)
  /\ log \in Seq(Requests) /\ Once(log) /\ rebased \in 1..Frontier
  /\ mode \in {"down", "open", "uncertain"}
  /\ phase \in {"idle", "runs", "metadata", "transactions"}

OpenInv ==
  /\ mode # "open" => phase = "idle"
  /\ mode = "open" =>
       /\ base.rev \in 1..Frontier /\ overlay = Outs(log, base.rev + 1, Frontier)
       /\ Frontier - base.rev <= MaxOverlay
       /\ BaseShown(fs, base)
  /\ phase = "idle" => todo = <<>>
  /\ phase # "idle" => required /\ RebaseInv(phase, fs, log, todo, base.rev, merged)

\* What is certain as long as no process is replaced before it has
\* synchronised what it wrote.
DurableInv ==
  "restart" \notin world =>
    /\ mode = "down" => Settled
    /\ mode = "open" => SolidPair(fs, base.rev)
    /\ \E r \in rebased..Frontier : SolidPair(fs, r)
    /\ phase # "idle" => rebased <= base.rev \/ SolidPair(fs, Frontier)

\* Every manifest is of revision r or older, or of the frontier.
Anchored(f, r, fr) ==
  \A n \in RootNames : \A m \in Contents(f, n) : m.rev <= r \/ m.rev = fr
FitInv ==
  "restart" \notin world /\ "legacy" \notin world =>
    /\ mode = "open" /\ ~required =>
         \A n \in RootNames : \A m \in Contents(fs, n) : m.rev <= base.rev
    /\ \E r \in 1..Frontier : SolidPair(fs, r) /\ Frontier - r <= MaxOverlay
                              /\ Anchored(fs, r, Frontier)

Inv == TypeInv /\ RootsInv(fs, log) /\ HiddenInv(fs) /\ OpenInv

-----------------------------------------------------------------------------
LEMMA NamesAre ==
  /\ \A p \in Profiles, s \in Slots : Root(p, s) \in RootNames /\ Root(p, s) \in Names
  /\ \A n \in RootNames : n \in Names /\ \E p \in Profiles, s \in Slots : n = Root(p, s)
  /\ \A o \in 1..MaxRuns : Run(o) \in Names
  /\ \A n \in RootNames : \A o : n # Run(o)
  /\ \A p, q, s, t : Root(p, s) = Root(q, t) => p = q /\ s = t
  /\ \A o, u : Run(o) = Run(u) => o = u
<1>1. /\ \A p \in Profiles, s \in Slots : Root(p, s) \in RootNames /\ Root(p, s) \in Names
      /\ \A o \in 1..MaxRuns : Run(o) \in Names
  BY RootsAssumption DEF Root, Run, RootNames, RunNames
<1>2. \A n \in RootNames : n \in Names /\ \E p \in Profiles, s \in Slots : n = Root(p, s)
  BY RootsAssumption DEF Root, RootNames
<1>3. \A p, q, s, t : Root(p, s) = Root(q, t) => p = q /\ s = t
  BY DEF Root
<1>4. \A o, u : Run(o) = Run(u) => o = u
  BY DEF Run
<1>5. \A n \in RootNames : \A o : n # Run(o)
  BY RootsAssumption DEF Root, Run, RootNames
<1> QED BY <1>1, <1>2, <1>3, <1>4, <1>5

\* Runs and manifests are told from an absent or torn file.
LEMMA Marked ==
  /\ \A m \in ManifestType : m \notin {Hole, Torn}
  /\ \A x \in RunType : x # Hole
BY MarksAssumption

LEMMA OutsTyped ==
  ASSUME NEW lg \in Seq(Requests), NEW a \in Nat, NEW b \in Nat, a >= 1, b <= Len(lg)
  PROVE  Outs(lg, a, b) \in SUBSET (Requests \X Nat)
<1>1. \A r \in a..b : lg[r] \in Requests /\ r \in Nat
  OBVIOUS
<1> QED BY <1>1 DEF Outs

\* In a directory that satisfies RootsInv every manifest a reader finds is
\* usable: its run is complete.
LEMMA ShownHeld ==
  ASSUME NEW f, NEW lg, RootsInv(f, lg), NEW p \in Profiles, NEW s \in Slots,
         NEW m, Shows(f, p, s, m)
  PROVE  m \in Contents(f, Root(p, s)) /\ Held(f, lg, m) /\ Read(f, Root(p, s)) = m
<1>1. m \in Contents(f, Root(p, s))
  BY ContentsIs DEF Shows, Written
<1>2. Held(f, lg, m)
  BY <1>1, NamesAre DEF RootsInv
<1> QED BY <1>1, <1>2, Zenon DEF Shows, Written, Read

LEMMA SlotsShown ==
  ASSUME NEW f, NEW lg \in Seq(Requests), RootsInv(f, lg), NEW p \in Profiles
  PROVE  /\ Usable(f, p) = ManifestSlots(f, p)
         /\ ManifestSlots(f, p) \subseteq Slots
         /\ \A s \in Slots : s \in ManifestSlots(f, p) <=> Shows(f, p, s, Manifest(f, p, s))
         /\ \A s \in Slots : \A m : Shows(f, p, s, m) => m = Manifest(f, p, s)
<1>1. ASSUME NEW s \in Slots, NEW m, Shows(f, p, s, m) PROVE m = Manifest(f, p, s)
  BY <1>1, ShownHeld, Zenon DEF Manifest
<1>2. ASSUME NEW s \in Slots, s \in ManifestSlots(f, p)
      PROVE  Shows(f, p, s, Manifest(f, p, s))
  BY <1>2, Zenon DEF ManifestSlots, LoadSlot, Manifest, Shows, Written, Read
<1>3. ASSUME NEW s \in Slots, Shows(f, p, s, Manifest(f, p, s))
      PROVE  s \in ManifestSlots(f, p) /\ Intact(f, Manifest(f, p, s))
  <2> DEFINE m == Manifest(f, p, s)
  <2>1. Held(f, lg, m) /\ Read(f, Root(p, s)) = m
    BY <1>3, ShownHeld, Zenon
  <2>2. Read(f, Run(m.run)) = RunOf(m.rev, m.digest)
    BY <2>1 DEF Held, Solid, Flushed, Written, Read
  <2>3. RunOf(m.rev, m.digest) \in RunType
    BY <2>1 DEF Held, ManifestType, RunType, RunOf
  <2>4. Read(f, Run(m.run)) # Hole
    BY <2>2, <2>3, Marked
  <2>5. m \notin {Hole, Torn}
    BY <1>3 DEF Shows
  <2> QED BY <2>1, <2>2, <2>4, <2>5, Zenon DEF ManifestSlots, LoadSlot, Intact, Manifest
<1>4. ManifestSlots(f, p) \subseteq Slots
  BY DEF ManifestSlots
<1> QED BY <1>1, <1>2, <1>3, <1>4 DEF Usable

-----------------------------------------------------------------------------
(***************************************************************************)
(* What keeps the roots in order.                                          *)
(***************************************************************************)
LEMMA RootsKept ==
  ASSUME NEW f, NEW g, NEW lg, RootsInv(f, lg),
         \A n \in RootNames : Contents(g, n) \subseteq Contents(f, n),
         \A n \in RootNames : \A m \in Contents(g, n) : Stays(f, g, Run(m.run))
  PROVE  RootsInv(g, lg)
<1>1. ASSUME NEW n \in RootNames, NEW m \in Contents(g, n) PROVE Held(g, lg, m)
  <2>1. Held(f, lg, m) /\ Stays(f, g, Run(m.run))
    BY DEF RootsInv
  <2> QED BY <2>1 DEF Held, Stays
<1>2. \A n \in RootNames : \A m, k \in Contents(g, n) : m = k
  BY DEF RootsInv
<1>3. ASSUME NEW p \in Profiles, NEW s \in Slots, NEW t \in Slots, s # t,
             NEW m \in Contents(g, Root(p, s)), NEW k \in Contents(g, Root(p, t))
      PROVE  Before(m, k) \/ Before(k, m)
  <2>1. m \in Contents(f, Root(p, s)) /\ k \in Contents(f, Root(p, t))
    BY NamesAre
  <2> QED BY <1>3, <2>1, Zenon DEF RootsInv
<1> QED BY <1>1, <1>2, <1>3, Zenon DEF RootsInv

\* Every name is kept.
LEMMA AllKept ==
  ASSUME NEW f, NEW g, NEW lg, RootsInv(f, lg), \A n \in Names : Keeps(f, g, n)
  PROVE  RootsInv(g, lg)
<1>1. \A n \in RootNames : Contents(g, n) \subseteq Contents(f, n)
  BY NamesAre DEF Keeps
<1>2. ASSUME NEW n \in RootNames, NEW m \in Contents(g, n) PROVE Stays(f, g, Run(m.run))
  <2>1. Held(f, lg, m)
    BY <1>1 DEF RootsInv
  <2> QED BY <2>1, NamesAre DEF Held, ManifestType, Keeps
<1> QED BY <1>1, <1>2, RootsKept, Zenon

LEMMA OutsAppend ==
  ASSUME NEW lg \in Seq(Requests), NEW q \in Requests, NEW a \in Nat, NEW b \in Nat,
         a >= 1, b <= Len(lg)
  PROVE  Outs(Append(lg, q), a, b) = Outs(lg, a, b)
<1>1. \A r \in a..b : Append(lg, q)[r] = lg[r]
  OBVIOUS
<1> QED BY <1>1 DEF Outs

LEMMA RootsAppend ==
  ASSUME NEW f, NEW lg \in Seq(Requests), RootsInv(f, lg), NEW q \in Requests
  PROVE  RootsInv(f, Append(lg, q))
<1>1. ASSUME NEW n \in RootNames, NEW m \in Contents(f, n) PROVE Held(f, Append(lg, q), m)
  <2>1. Held(f, lg, m)
    BY DEF RootsInv
  <2>2. m.rev \in 1..Len(lg)
    BY <2>1 DEF Held
  <2>3. m.rev \in 1..Len(Append(lg, q)) /\ Outs(Append(lg, q), 1, m.rev) = Outs(lg, 1, m.rev)
    BY <2>2, OutsAppend
  <2> QED BY <2>1, <2>3 DEF Held
<1> QED BY <1>1 DEF RootsInv

\* WithoutOrphans keeps every name but the runs that no manifest refers to.
LEMMA OrphansGo ==
  ASSUME NEW f, Shape(f), NEW used
  PROVE  LET g == WithoutOrphans(f, used) IN
         /\ Dir(g)
         /\ \A n \in RootNames : Agrees(f, g, n)
         /\ \A o \in 1..MaxRuns : o \in Referenced(f) \cup used => Agrees(f, g, Run(o))
         /\ f.vis = f.dur => g.vis = g.dur
         /\ f.data = f.safe => g.data = g.safe
<1> DEFINE lost == {Run(o) : o \in (1..MaxRuns) \ (Referenced(f) \cup used)}
           cut(dir) == [n \in Names |-> IF n \in lost THEN 0 ELSE dir[n]]
           h == [vis |-> cut(f.vis), dur |-> cut(f.dur), data |-> f.data, safe |-> f.safe]
           g == Tidy(h)
<1>1. WithoutOrphans(f, used) = g
  BY Zenon DEF WithoutOrphans
<1> HIDE DEF lost
<1>2. Shape(h)
  BY Zenon DEF Shape
<1>3. /\ Dir(g) /\ g.vis = h.vis /\ g.dur = h.dur
      /\ \A m \in Names : Agrees(h, g, m)
  BY <1>2, TidyAgrees, Zenon
<1>4. \A n \in Names : n \notin lost => Agrees(f, g, n)
  <2>1. \A n \in Names : n \notin lost => Agrees(f, h, n)
    BY DEF Agrees
  <2> HIDE DEF h, g
  <2> QED BY <1>3, <2>1 DEF Agrees
<1>5. \A n \in RootNames : n \notin lost
  BY NamesAre DEF lost
<1>6. \A o \in 1..MaxRuns : o \in Referenced(f) \cup used => Run(o) \notin lost
  BY NamesAre DEF lost
<1>7. ASSUME f.vis = f.dur PROVE g.vis = g.dur
  BY <1>3, <1>7, Zenon
<1>8. ASSUME f.data = f.safe PROVE g.data = g.safe
  <2> DEFINE a == [x \in Files |-> IF x \in Alive(h) THEN h.data[x] ELSE Hole]
             b == [x \in Files |-> IF x \in Alive(h) THEN h.safe[x] ELSE Hole]
  <2>1. a = b
    BY <1>8
  <2>2. g = [h EXCEPT !.data = a, !.safe = b]
    BY DEF Tidy
  <2> HIDE DEF a, b
  <2>3. g.data = a /\ g.safe = b
    BY <2>2, Zenon
  <2> QED BY <2>1, <2>3, Zenon
<1> HIDE DEF g
<1> QED BY <1>1, <1>3, <1>4, <1>5, <1>6, <1>7, <1>8, NamesAre, Zenon

LEMMA ReferencedIs ==
  ASSUME NEW f, NEW n \in RootNames, NEW m \in Contents(f, n), m.run \in 1..MaxRuns
  PROVE  m.run \in Referenced(f)
<1>1. /\ m \notin {Hole, Torn}
      /\ \E g \in {f.vis[n], f.dur[n]} : g # 0 /\ (m = f.data[g] \/ m = f.safe[g])
  BY ContentsIs
<1> QED BY SMTT(30), <1>1 DEF Referenced

\* Nothing that matters goes with the orphans.
LEMMA OrphansKeep ==
  ASSUME NEW f, Shape(f), NEW lg, RootsInv(f, lg), NEW used
  PROVE  LET g == WithoutOrphans(f, used) IN
         /\ Dir(g) /\ RootsInv(g, lg)
         /\ \A n \in RootNames : Keeps(f, g, n) /\ Looks(f, g, n)
         /\ \A o \in 1..MaxRuns : o \in used => Keeps(f, g, Run(o)) /\ Looks(f, g, Run(o))
<1> DEFINE g == WithoutOrphans(f, used)
<1> HIDE DEF g
<1>1. /\ Dir(g)
      /\ \A n \in RootNames : Agrees(f, g, n)
      /\ \A o \in 1..MaxRuns : o \in Referenced(f) \cup used => Agrees(f, g, Run(o))
  BY OrphansGo DEF g
<1>2. \A n \in RootNames : Keeps(f, g, n) /\ Looks(f, g, n)
  BY <1>1, AgreesKeeps
<1>3. \A o \in 1..MaxRuns : o \in used => Keeps(f, g, Run(o)) /\ Looks(f, g, Run(o))
  BY <1>1, AgreesKeeps
<1>4. ASSUME NEW n \in RootNames, NEW m \in Contents(g, n) PROVE Stays(f, g, Run(m.run))
  <2>1. m \in Contents(f, n)
    BY <1>2 DEF Keeps
  <2>2. m.run \in 1..MaxRuns
    BY <2>1 DEF RootsInv, Held, ManifestType
  <2>3. Agrees(f, g, Run(m.run))
    BY <1>1, <2>1, <2>2, ReferencedIs, Zenon
  <2> QED BY <2>3, AgreesKeeps DEF Keeps
<1>5. RootsInv(g, lg)
  BY <1>2, <1>4, RootsKept, Zenon DEF Keeps
<1> QED BY SMTT(30), <1>1, <1>2, <1>3, <1>5 DEF g

-----------------------------------------------------------------------------
(***************************************************************************)
(* One call of a rebase that succeeds.                                     *)
(***************************************************************************)
\* Every name but n is kept and looks the same; n stays durable if it was.
Touches(f, g, n) ==
  /\ Dir(g) /\ Stays(f, g, n)
  /\ \A m \in Names : m # n => Keeps(f, g, m) /\ Looks(f, g, m)
  /\ \A m \in Names : m # n => \A x : Flushed(f, m, x) => Flushed(g, m, x)

LEMMA SyncTouches ==
  ASSUME NEW f, Dir(f), NEW n \in Names, Possible(f, Sync(n))
  PROVE  LET g == Apply(f, Sync(n)) IN
         /\ Touches(f, g, n) /\ Keeps(f, g, n) /\ Looks(f, g, n)
         /\ \A x : Written(f, n, x) => Flushed(g, n, x)
<1>1. f.vis[n] # 0
  BY Zenon DEF Possible, Sync, Cmd, Exists
<1> QED BY <1>1, SyncDoes DEF Touches, Keeps

LEMMA DirSyncTouches ==
  ASSUME NEW f, Dir(f), NEW n \in Names
  PROVE  LET g == Apply(f, DirSync(n)) IN
         /\ Touches(f, g, n) /\ g.vis = f.vis /\ g.dur = f.vis
         /\ \A m \in Names : /\ Keeps(f, g, m) /\ Looks(f, g, m)
                             /\ \A x : Flushed(f, m, x) => Solid(g, m, x)
BY DirSyncDoes DEF Touches, Keeps, Solid

LEMMA NewTouches ==
  ASSUME NEW f, Dir(f), NEW n \in Names, NEW d, Possible(f, New(n, d))
  PROVE  LET g == Apply(f, New(n, d)) IN
         /\ Touches(f, g, n) /\ Written(g, n, d) /\ f.vis[n] = 0
         /\ Contents(g, n) \subseteq Contents(f, n) \cup {d}
         /\ f.dur[n] = 0 => Contents(g, n) \subseteq {d}
<1> DEFINE g == Apply(f, New(n, d))
<1> HIDE DEF g
<1>1. /\ Dir(g) /\ Written(g, n, d) /\ f.vis[n] = 0
      /\ \A m \in Names : m # n => Agrees(f, g, m)
      /\ Contents(g, n) \subseteq Contents(f, n) \cup {d}
      /\ f.dur[n] = 0 => Contents(g, n) \subseteq {d}
  BY NewDoes, Zenon DEF g
<1>2. \A m \in Names : m # n => Keeps(f, g, m) /\ Looks(f, g, m)
  BY <1>1, AgreesKeeps, Zenon
<1>3. \A m \in Names : m # n => \A x : Flushed(f, m, x) => Flushed(g, m, x)
  BY <1>1 DEF Agrees, Flushed, Written
<1>4. Stays(f, g, n)
  BY <1>1, Zenon DEF Stays, Solid, Flushed, Written
<1> QED BY <1>1, <1>2, <1>3, <1>4, Zenon DEF Touches, g

LEMMA RmTouches ==
  ASSUME NEW f, Dir(f), NEW n \in Names
  PROVE  LET g == Apply(f, Rm(n)) IN
         /\ Dir(g) /\ g.vis[n] = 0 /\ Contents(g, n) \subseteq Contents(f, n)
         /\ \A m \in Names : m # n => Keeps(f, g, m) /\ Looks(f, g, m)
<1> DEFINE g == Apply(f, Rm(n))
<1> HIDE DEF g
<1>1. /\ Dir(g) /\ g.vis[n] = 0 /\ Contents(g, n) \subseteq Contents(f, n)
      /\ \A m \in Names : m # n => Agrees(f, g, m)
  BY RmDoes, Zenon DEF g
<1>2. \A m \in Names : m # n => Keeps(f, g, m) /\ Looks(f, g, m)
  BY <1>1, AgreesKeeps, Zenon
<1> QED BY <1>1, <1>2, Zenon DEF g

LEMMA LooksWritten ==
  ASSUME NEW f, NEW g, NEW n, Looks(f, g, n), NEW x
  PROVE  Written(f, n, x) <=> Written(g, n, x)
BY DEF Looks, Written

\* A call on a run leaves the roots as they are.
LEMMA RunTouched ==
  ASSUME NEW f, NEW g, NEW lg, RootsInv(f, lg), NEW o \in 1..MaxRuns, Touches(f, g, Run(o))
  PROVE  RootsInv(g, lg) /\ \A n \in RootNames : Keeps(f, g, n) /\ Looks(f, g, n)
<1>1. \A n \in RootNames : Keeps(f, g, n) /\ Looks(f, g, n)
  BY NamesAre DEF Touches
<1>2. \A n \in Names : Stays(f, g, n)
  BY Zenon DEF Touches, Keeps
<1>3. ASSUME NEW n \in RootNames, NEW m \in Contents(g, n) PROVE Stays(f, g, Run(m.run))
  <2>1. m.run \in 1..MaxRuns
    BY <1>1 DEF Keeps, RootsInv, Held, ManifestType
  <2> QED BY <1>2, <2>1, NamesAre, Zenon
<1> QED BY <1>1, <1>3, RootsKept, Zenon DEF Keeps

LEMMA RunsStep ==
  ASSUME NEW f, Dir(f), NEW lg, RootsInv(f, lg), NEW a \in 1..MaxRuns, NEW b \in 1..MaxRuns,
         a # b, NEW x, NEW td, RunsPhase(f, td, Run(a), Run(b), x), td # <<>>,
         Possible(f, Head(td))
  PROVE  LET g == Apply(f, Head(td)) IN
         /\ Dir(g) /\ RootsInv(g, lg) /\ RunsPhase(g, Tail(td), Run(a), Run(b), x)
         /\ \A n \in RootNames : Keeps(f, g, n) /\ Looks(f, g, n)
<1> DEFINE r == Run(a)
           u == Run(b)
           g == Apply(f, Head(td))
           Goal == /\ RunsPhase(g, Tail(td), r, u, x)
                   /\ Touches(f, g, r) \/ Touches(f, g, u)
<1>1. r \in Names /\ u \in Names /\ r # u
  BY NamesAre, Zenon
<1> HIDE DEF r, u
<1> SUFFICES Goal
  BY RunTouched, Zenon DEF Touches, r, u
<1>2. CASE td = <<New(r, x), Sync(r), DirSync(r), New(u, x), Sync(u), DirSync(u)>>
  <2>1. Head(td) = New(r, x) /\ Tail(td) = <<Sync(r), DirSync(r), New(u, x), Sync(u), DirSync(u)>>
    BY SMTT(30), <1>2, Unqueue6
  <2>2. Touches(f, g, r) /\ Written(g, r, x)
    BY SMTT(30), <1>1, <2>1, NewTouches
  <2> QED BY <2>1, <2>2 DEF RunsPhase
<1>3. CASE td = <<Sync(r), DirSync(r), New(u, x), Sync(u), DirSync(u)>> /\ Written(f, r, x)
  <2>1. Head(td) = Sync(r) /\ Tail(td) = <<DirSync(r), New(u, x), Sync(u), DirSync(u)>>
    BY <1>3, Unqueue5
  <2>2. Touches(f, g, r) /\ Flushed(g, r, x)
    BY <1>1, <1>3, <2>1, SyncTouches, Zenon
  <2> QED BY <2>1, <2>2 DEF RunsPhase
<1>4. CASE td = <<DirSync(r), New(u, x), Sync(u), DirSync(u)>> /\ Flushed(f, r, x)
  <2>1. Head(td) = DirSync(r) /\ Tail(td) = <<New(u, x), Sync(u), DirSync(u)>>
    BY <1>4, Unqueue4
  <2>2. Touches(f, g, r) /\ Solid(g, r, x)
    BY <1>1, <1>4, <2>1, DirSyncTouches, Zenon
  <2> QED BY <2>1, <2>2, Zenon DEF RunsPhase
<1>5. CASE td = <<New(u, x), Sync(u), DirSync(u)>> /\ Solid(f, r, x)
  <2>1. Head(td) = New(u, x) /\ Tail(td) = <<Sync(u), DirSync(u)>>
    BY SMTT(30), <1>5, Unqueue3
  <2>2. Touches(f, g, u) /\ Written(g, u, x)
    BY SMTT(30), <1>1, <2>1, NewTouches
  <2>3. Solid(g, r, x)
    BY SMTT(30), <1>1, <1>5, <2>2 DEF Touches, Keeps, Stays
  <2> QED BY <2>1, <2>2, <2>3, Zenon DEF RunsPhase
<1>6. CASE td = <<Sync(u), DirSync(u)>> /\ Solid(f, r, x) /\ Written(f, u, x)
  <2>1. Head(td) = Sync(u) /\ Tail(td) = <<DirSync(u)>>
    BY <1>6, Unqueue2
  <2>2. Touches(f, g, u) /\ Flushed(g, u, x)
    BY SMTT(30), <1>1, <1>6, <2>1, SyncTouches
  <2>3. Solid(g, r, x)
    BY SMTT(30), <1>1, <1>6, <2>2 DEF Touches, Keeps, Stays
  <2> QED BY <2>1, <2>2, <2>3 DEF RunsPhase
<1>7. CASE td = <<DirSync(u)>> /\ Solid(f, r, x) /\ Flushed(f, u, x)
  <2>1. Head(td) = DirSync(u) /\ Tail(td) = <<>>
    BY <1>7, Unqueue1, Zenon
  <2>2. Touches(f, g, u) /\ Solid(g, u, x)
    BY <1>1, <1>7, <2>1, DirSyncTouches, Zenon
  <2>3. Solid(g, r, x)
    BY <1>1, <1>7, <2>2, Zenon DEF Touches, Keeps, Stays
  <2> QED BY <2>1, <2>2, <2>3 DEF RunsPhase
<1> QED BY <1>2, <1>3, <1>4, <1>5, <1>6, <1>7, Zenon DEF RunsPhase, r, u

-----------------------------------------------------------------------------
(***************************************************************************)
(* What a rebase over the base of revision br, with the frontier fr, may   *)
(* do to the roots: the base stays visible, a root that appears is of the  *)
(* frontier, and only what is older than the base may go.                  *)
(***************************************************************************)
Moves(f, g, br, fr) ==
  /\ \A p \in Profiles, s \in Slots : \A m : Shows(f, p, s, m) /\ m.rev = br => Shows(g, p, s, m)
  /\ \A p \in Profiles, s \in Slots : \A m : Shows(g, p, s, m) => Shows(f, p, s, m) \/ m.rev = fr
  /\ \A p \in Profiles, r \in Nat : r >= br /\ SolidRoot(f, p, r) => SolidRoot(g, p, r)
  /\ \A p \in Profiles, s \in Slots : \A m \in Contents(g, Root(p, s)) :
       \/ Shows(g, p, s, m) /\ m.rev = fr
       \/ m \in Contents(f, Root(p, s)) /\ (Shows(f, p, s, m) => Shows(g, p, s, m) \/ m.rev <= br)

\* The name n shows what it showed, or a file with nothing in it.
Calm(f, g, n) ==
  /\ Keeps(f, g, n)
  /\ \/ Looks(f, g, n)
     \/ f.vis[n] = 0 /\ \E x \in {Hole, Torn} : Written(g, n, x)

LEMMA CalmShows ==
  ASSUME NEW f, NEW g, NEW p \in Profiles, NEW s \in Slots, Calm(f, g, Root(p, s)), NEW m
  PROVE  Shows(f, p, s, m) <=> Shows(g, p, s, m)
<1>1. CASE Looks(f, g, Root(p, s))
  BY <1>1, LooksWritten, Zenon DEF Shows
<1>2. CASE f.vis[Root(p, s)] = 0 /\ \E x \in {Hole, Torn} : Written(g, Root(p, s), x)
  BY <1>2, Zenon DEF Shows, Written
<1> QED BY <1>1, <1>2, Zenon DEF Calm

LEMMA CalmMoves ==
  ASSUME NEW f, NEW g, NEW br, NEW fr, \A n \in RootNames : Calm(f, g, n)
  PROVE  Moves(f, g, br, fr)
<1>1. \A p \in Profiles, s \in Slots : Calm(f, g, Root(p, s))
  BY NamesAre, Zenon
<1>2. \A p \in Profiles, s \in Slots : \A m : Shows(f, p, s, m) <=> Shows(g, p, s, m)
  BY <1>1, CalmShows, Zenon
<1>3. \A p \in Profiles, r \in Nat : SolidRoot(f, p, r) => SolidRoot(g, p, r)
  BY <1>1, Zenon DEF SolidRoot, Calm, Keeps, Stays
<1>4. \A p \in Profiles, s \in Slots : Contents(g, Root(p, s)) \subseteq Contents(f, Root(p, s))
  BY <1>1, Zenon DEF Calm, Keeps
<1> QED BY <1>2, <1>3, <1>4, Zenon DEF Moves

\* The slot is emptied whose content is older than the base.
LEMMA RmMoves ==
  ASSUME NEW f, NEW g, NEW br \in Nat, NEW fr, NEW p \in Profiles, NEW s \in Slots,
         Older(f, Root(p, s), br), g.vis[Root(p, s)] = 0,
         Contents(g, Root(p, s)) \subseteq Contents(f, Root(p, s)),
         \A m \in Contents(f, Root(p, s)) : m.rev \in Nat,
         \A n \in Names : n # Root(p, s) => Keeps(f, g, n) /\ Looks(f, g, n)
  PROVE  Moves(f, g, br, fr)
<1> DEFINE n == Root(p, s)
<1>1. \A q \in Profiles, t \in Slots : Root(q, t) # n =>
        Keeps(f, g, Root(q, t)) /\ Looks(f, g, Root(q, t))
  BY NamesAre, Zenon
<1>2. \A q \in Profiles, t \in Slots : Root(q, t) = n => q = p /\ t = s
  BY NamesAre
<1> HIDE DEF n
<1>3. \A m : Shows(f, p, s, m) => m.rev < br /\ m.rev \in Nat
  BY ContentsIs, Zenon DEF Older, Shows, Written
<1>4. \A q \in Profiles, t \in Slots : Root(q, t) # n => \A m : Shows(f, q, t, m) <=> Shows(g, q, t, m)
  BY <1>1, LooksWritten, Zenon DEF Shows
<1>5. \A m : ~Shows(g, p, s, m)
  BY Zenon DEF Shows, Written
<1>6. ASSUME NEW q \in Profiles, NEW t \in Slots, NEW m, Shows(f, q, t, m) /\ m.rev = br
      PROVE  Shows(g, q, t, m)
  <2>1. Root(q, t) # n
    <3>1. \A k : Shows(f, p, s, k) => k.rev # br
      BY <1>3, SMTT(30)
    <3> QED BY <1>2, <1>6, <3>1, Zenon
  <2> QED BY <1>4, <1>6, <2>1, Zenon
<1>7. ASSUME NEW q \in Profiles, NEW t \in Slots, NEW m, Shows(g, q, t, m)
      PROVE  Shows(f, q, t, m)
  BY <1>2, <1>4, <1>5, <1>7, Zenon
<1>8. ASSUME NEW q \in Profiles, NEW r \in Nat, r >= br, SolidRoot(f, q, r)
      PROVE  SolidRoot(g, q, r)
  <2>1. PICK t \in Slots, m \in ManifestType : Solid(f, Root(q, t), m) /\ m.rev = r
    BY <1>8, Zenon DEF SolidRoot
  <2>2. Shows(f, q, t, m)
    BY <2>1, Marked, Zenon DEF Shows, Solid, Flushed
  <2>3. Root(q, t) # n
    <3>1. \A k : Shows(f, p, s, k) => k.rev # r
      BY <1>3, <1>8, SMTT(30)
    <3> QED BY <1>2, <2>1, <2>2, <3>1, Zenon
  <2> QED BY <1>1, <2>1, <2>3, Zenon DEF SolidRoot, Keeps, Stays
<1>9. ASSUME NEW q \in Profiles, NEW t \in Slots, NEW m \in Contents(g, Root(q, t))
      PROVE  m \in Contents(f, Root(q, t)) /\ (Shows(f, q, t, m) => Shows(g, q, t, m) \/ m.rev <= br)
  <2>1. CASE Root(q, t) = n
    <3>1. q = p /\ t = s
      BY <1>2, <2>1, Zenon
    <3> QED BY <1>3, <3>1
  <2>2. CASE Root(q, t) # n
    BY <1>1, <1>4, <2>2, Zenon DEF Keeps
  <2> QED BY <2>1, <2>2, Zenon
<1> QED BY <1>6, <1>7, <1>8, <1>9, Zenon DEF Moves

\* A manifest of the frontier appears in a slot that readers find empty.
LEMMA NewMoves ==
  ASSUME NEW f, NEW g, NEW br, NEW fr, NEW p \in Profiles, NEW s \in Slots, NEW m,
         m \notin {Hole, Torn}, m.rev = fr,
         Touches(f, g, Root(p, s)), Written(g, Root(p, s), m), f.vis[Root(p, s)] = 0,
         Contents(g, Root(p, s)) \subseteq {m}
  PROVE  Moves(f, g, br, fr)
<1> DEFINE n == Root(p, s)
<1>1. \A q \in Profiles, t \in Slots : Root(q, t) # n =>
        Keeps(f, g, Root(q, t)) /\ Looks(f, g, Root(q, t))
  BY NamesAre, Zenon DEF Touches
<1>2. \A q \in Profiles, t \in Slots : Stays(f, g, Root(q, t))
  BY <1>1, Zenon DEF Touches, Keeps
<1>3. \A q \in Profiles, t \in Slots : Root(q, t) = n => q = p /\ t = s
  BY NamesAre
<1> HIDE DEF n
<1>4. \A q \in Profiles, t \in Slots : Root(q, t) # n => \A k : Shows(f, q, t, k) <=> Shows(g, q, t, k)
  BY <1>1, LooksWritten, Zenon DEF Shows
<1>5. /\ \A k : ~Shows(f, p, s, k)
      /\ \A k : Shows(g, p, s, k) <=> k = m
  BY Zenon DEF Shows, Written
<1>6. \A q \in Profiles, t \in Slots : \A k : Shows(f, q, t, k) => Shows(g, q, t, k)
  BY <1>3, <1>4, <1>5, Zenon
<1>7. \A q \in Profiles, t \in Slots : \A k : Shows(g, q, t, k) => Shows(f, q, t, k) \/ k.rev = fr
  BY <1>3, <1>4, <1>5, Zenon
<1>8. \A q \in Profiles, r \in Nat : SolidRoot(f, q, r) => SolidRoot(g, q, r)
  BY <1>2, Zenon DEF SolidRoot, Stays
<1>9. ASSUME NEW q \in Profiles, NEW t \in Slots, NEW k \in Contents(g, Root(q, t))
      PROVE  (Shows(g, q, t, k) /\ k.rev = fr) \/ k \in Contents(f, Root(q, t))
  BY <1>1, <1>3, <1>5, Zenon DEF Keeps
<1> QED BY <1>6, <1>7, <1>8, <1>9, Zenon DEF Moves

-----------------------------------------------------------------------------
\* The manifest of the frontier that a rebase publishes.
Fresh(lg, gen, o) == ManifestOf(Len(lg), gen, o, Outs(lg, 1, Len(lg)))

LEMMA FreshHeld ==
  ASSUME NEW f, NEW lg \in Seq(Requests), lg # <<>>, NEW gen \in Nat, NEW o \in 1..MaxRuns,
         Solid(f, Run(o), NewRun(lg))
  PROVE  LET m == Fresh(lg, gen, o) IN
         /\ Held(f, lg, m) /\ m.rev = Len(lg) /\ m.gen = gen /\ m.run = o
         /\ m \in ManifestType /\ m \notin {Hole, Torn}
<1>1. Outs(lg, 1, Len(lg)) \in SUBSET (Requests \X Nat)
  BY OutsTyped
<1>2. Len(lg) \in Nat /\ Len(lg) \in 1..Len(lg)
  OBVIOUS
<1> DEFINE e == Outs(lg, 1, Len(lg))
           l == Len(lg)
           m == Fresh(lg, gen, o)
<1> HIDE DEF e, l
<1>3. m = [rev |-> l, gen |-> gen, run |-> o, digest |-> e]
  BY Zenon DEF Fresh, ManifestOf, e, l
<1>4. m \in ManifestType /\ m.rev = l /\ m.gen = gen /\ m.run = o /\ m.digest = e
  BY SMTT(30), <1>1, <1>2, <1>3 DEF ManifestType, e, l
<1> HIDE DEF m
<1>5. Held(f, lg, m)
  BY <1>2, <1>4, Zenon DEF Held, NewRun, e, l
<1> QED BY <1>4, <1>5, Marked, Zenon DEF m, l

\* The slots of the frontier's manifest and of the base are ordered.
LEMMA NewRootsInv ==
  ASSUME NEW f, NEW g, NEW lg, RootsInv(f, lg), NEW br, NEW p \in Profiles, NEW s \in Slots,
         NEW m, Held(f, lg, m), Follows(f, br, p, s, m), Touches(f, g, Root(p, s)),
         Contents(g, Root(p, s)) \subseteq {m}
  PROVE  RootsInv(g, lg)
<1> DEFINE n == Root(p, s)
<1>1. \A u \in RootNames : u # n => Contents(g, u) \subseteq Contents(f, u)
  BY NamesAre, Zenon DEF Touches, Keeps
<1>2. \A o \in 1..MaxRuns : Stays(f, g, Run(o))
  BY NamesAre, Zenon DEF Touches, Keeps
<1>3. \A k : Held(f, lg, k) => Held(g, lg, k)
  BY <1>2, Zenon DEF Held, ManifestType, Stays
<1> HIDE DEF n
<1>4. \A u \in RootNames : \A k \in Contents(g, u) : Held(g, lg, k)
  BY SMTT(30), <1>1, <1>3 DEF RootsInv, n
<1>5. \A u \in RootNames : \A k, j \in Contents(g, u) : k = j
  BY <1>1 DEF RootsInv, n
<1>6. ASSUME NEW t \in Slots, t # s, NEW k \in Contents(f, Root(p, t)) PROVE Before(k, m)
  <2>1. PICK w \in Slots \ {s}, j \in ManifestType : Shows(f, p, w, j) /\ Before(j, m)
    BY Zenon DEF Follows
  <2>2. w = t
    BY <1>6, <2>1 DEF Slots
  <2>3. j \in Contents(f, Root(p, t))
    BY <2>1, <2>2, ShownHeld, Zenon
  <2>4. Root(p, t) \in RootNames
    BY NamesAre, Zenon
  <2>5. j = k
    BY <2>3, <2>4, Zenon DEF RootsInv
  <2> QED BY <2>1, <2>5, Zenon
<1>7. ASSUME NEW q \in Profiles, NEW t \in Slots, NEW w \in Slots, t # w,
             NEW k \in Contents(g, Root(q, t)), NEW j \in Contents(g, Root(q, w))
      PROVE  Before(k, j) \/ Before(j, k)
  <2>1. Root(q, t) \in RootNames /\ Root(q, w) \in RootNames
    BY NamesAre, Zenon
  <2>2. CASE Root(q, t) = n
    <3>1. q = p /\ t = s /\ Root(q, w) # n
      BY <1>7, <2>2, NamesAre DEF n
    <3>2. k = m /\ Before(j, m)
      BY <1>1, <1>6, <1>7, <2>1, <3>1, Zenon
    <3> QED BY <3>2, Zenon
  <2>3. CASE Root(q, w) = n
    <3>1. q = p /\ w = s /\ Root(q, t) # n
      BY SMTT(30), <1>7, <2>3, NamesAre DEF n
    <3>2. j = m /\ Before(k, m)
      BY <1>1, <1>6, <1>7, <2>1, <3>1, Zenon
    <3> QED BY <3>2, Zenon
  <2>4. CASE Root(q, t) # n /\ Root(q, w) # n
    BY <1>1, <1>7, <2>1, <2>4, Zenon DEF RootsInv
  <2> QED BY <2>2, <2>3, <2>4, Zenon
<1> QED BY <1>4, <1>5, <1>7, Zenon DEF RootsInv

\* Calls that keep every name.
LEMMA QuietCall ==
  ASSUME NEW f, NEW g, NEW lg, RootsInv(f, lg), NEW br,
         \A n \in Names : Keeps(f, g, n) /\ Looks(f, g, n)
  PROVE  /\ RootsInv(g, lg) /\ Moves(f, g, br, Len(lg))
         /\ \A o \in 1..MaxRuns : Stays(f, g, Run(o))
<1>1. \A n \in RootNames : Calm(f, g, n)
  BY NamesAre, Zenon DEF Calm
<1> QED BY <1>1, AllKept, CalmMoves, NamesAre, Zenon DEF Keeps

LEMMA PublishStep ==
  ASSUME NEW f, Dir(f), NEW lg, RootsInv(f, lg), NEW br \in Nat,
         NEW p \in Profiles, NEW s \in Slots, NEW m, Held(f, lg, m), m \notin {Hole, Torn},
         m.rev = Len(lg), Follows(f, br, p, s, m), NEW td,
         PublishPhase(f, td, br, Root(p, s), m), td # <<>>, Possible(f, Head(td))
  PROVE  LET g == Apply(f, Head(td)) IN
         /\ Dir(g) /\ RootsInv(g, lg) /\ PublishPhase(g, Tail(td), br, Root(p, s), m)
         /\ Moves(f, g, br, Len(lg)) /\ Follows(g, br, p, s, m)
         /\ \A o \in 1..MaxRuns : Stays(f, g, Run(o))
<1> DEFINE n == Root(p, s)
           g == Apply(f, Head(td))
           Goal == /\ Dir(g) /\ RootsInv(g, lg) /\ PublishPhase(g, Tail(td), br, n, m)
                   /\ Moves(f, g, br, Len(lg)) /\ \A o \in 1..MaxRuns : Stays(f, g, Run(o))
<1>1. n \in Names /\ n \in RootNames /\ \A o \in 1..MaxRuns : Run(o) \in Names /\ Run(o) # n
  BY NamesAre, Zenon
<1>2. ASSUME Moves(f, g, br, Len(lg)) PROVE Follows(g, br, p, s, m)
  BY <1>2, Zenon DEF Follows, Moves
<1> HIDE DEF n
<1> SUFFICES Goal
  BY <1>2, Zenon DEF n
<1>3. CASE td = <<Rm(n), DirSync(n), New(n, m), Sync(n), DirSync(n)>> /\ Older(f, n, br)
  <2>1. Head(td) = Rm(n) /\ Tail(td) = <<DirSync(n), New(n, m), Sync(n), DirSync(n)>>
    BY <1>3, Unqueue5
  <2>2. /\ Dir(g) /\ g.vis[n] = 0 /\ Contents(g, n) \subseteq Contents(f, n)
        /\ \A k \in Names : k # n => Keeps(f, g, k) /\ Looks(f, g, k)
    BY <1>1, <2>1, RmTouches, Zenon
  <2>3. \A o \in 1..MaxRuns : Stays(f, g, Run(o))
    BY <1>1, <2>2, Zenon DEF Keeps
  <2>4. RootsInv(g, lg)
    <3>1. \A k \in RootNames : Contents(g, k) \subseteq Contents(f, k)
      BY <2>2, NamesAre, Zenon DEF Keeps
    <3>2. \A k \in RootNames : \A j \in Contents(g, k) : Stays(f, g, Run(j.run))
      BY <2>3, <3>1, Zenon DEF RootsInv, Held, ManifestType
    <3> QED BY <3>1, <3>2, RootsKept, Zenon
  <2>5. \A k \in Contents(f, n) : k.rev \in Nat
    BY <1>1 DEF RootsInv, Held, ManifestType
  <2>6. Moves(f, g, br, Len(lg))
    BY <1>3, <2>2, <2>5, RmMoves, Zenon DEF n
  <2>7. Older(g, n, br)
    BY <1>3, <2>2, Zenon DEF Older
  <2> QED BY <2>1, <2>2, <2>3, <2>4, <2>6, <2>7, Zenon DEF PublishPhase
<1>4. CASE /\ td = <<DirSync(n), New(n, m), Sync(n), DirSync(n)>>
           /\ f.vis[n] = 0 /\ Older(f, n, br)
  <2>1. Head(td) = DirSync(n) /\ Tail(td) = <<New(n, m), Sync(n), DirSync(n)>>
    BY <1>4, Unqueue4
  <2>2. /\ Dir(g) /\ g.vis = f.vis /\ g.dur = f.vis
        /\ \A k \in Names : Keeps(f, g, k) /\ Looks(f, g, k)
    BY <1>1, <2>1, DirSyncTouches, Zenon DEF Touches
  <2> QED BY <1>4, <2>1, <2>2, QuietCall, Zenon DEF PublishPhase
<1>5. CASE td = <<New(n, m), Sync(n), DirSync(n)>> /\ f.vis[n] = 0 /\ f.dur[n] = 0
  <2>1. Head(td) = New(n, m) /\ Tail(td) = <<Sync(n), DirSync(n)>>
    BY SMTT(30), <1>5, Unqueue3
  <2>2. Touches(f, g, n) /\ Written(g, n, m) /\ Contents(g, n) \subseteq {m}
    BY SMTT(30), <1>1, <1>5, <2>1, NewTouches
  <2>3. RootsInv(g, lg)
    BY <2>2, NewRootsInv DEF n
  <2>4. Moves(f, g, br, Len(lg))
    BY <1>5, <2>2, NewMoves, Zenon DEF n
  <2>5. Dir(g) /\ \A o \in 1..MaxRuns : Stays(f, g, Run(o))
    BY <1>1, <2>2, Zenon DEF Touches, Keeps
  <2> QED BY <2>1, <2>2, <2>3, <2>4, <2>5, Zenon DEF PublishPhase
<1>6. CASE td = <<Sync(n), DirSync(n)>> /\ Written(f, n, m)
  <2>1. Head(td) = Sync(n) /\ Tail(td) = <<DirSync(n)>>
    BY <1>6, Unqueue2, Zenon
  <2>2. /\ Dir(g) /\ Flushed(g, n, m)
        /\ \A k \in Names : Keeps(f, g, k) /\ Looks(f, g, k)
    BY <1>1, <1>6, <2>1, SyncTouches, Zenon DEF Touches
  <2> QED BY <2>1, <2>2, QuietCall, Zenon DEF PublishPhase
<1>7. CASE td = <<DirSync(n)>> /\ Flushed(f, n, m)
  <2>1. Head(td) = DirSync(n) /\ Tail(td) = <<>>
    BY <1>7, Unqueue1, Zenon
  <2>2. /\ Dir(g) /\ Solid(g, n, m)
        /\ \A k \in Names : Keeps(f, g, k) /\ Looks(f, g, k)
    BY <1>1, <1>7, <2>1, DirSyncTouches, Zenon DEF Touches
  <2> QED BY <2>1, <2>2, QuietCall, Zenon DEF PublishPhase
<1> QED BY <1>3, <1>4, <1>5, <1>6, <1>7, Zenon DEF PublishPhase, n

LEMMA ReuseStep ==
  ASSUME NEW f, Dir(f), NEW lg, RootsInv(f, lg), NEW br,
         NEW p \in Profiles, NEW s \in Slots, NEW m \in ManifestType, NEW td,
         ReusePhase(f, td, Root(p, s), m), td # <<>>, Possible(f, Head(td))
  PROVE  LET g == Apply(f, Head(td)) IN
         /\ Dir(g) /\ RootsInv(g, lg) /\ ReusePhase(g, Tail(td), Root(p, s), m)
         /\ Moves(f, g, br, Len(lg)) /\ \A o \in 1..MaxRuns : Stays(f, g, Run(o))
<1> DEFINE n == Root(p, s)
           u == Run(m.run)
           g == Apply(f, Head(td))
           Goal == /\ Dir(g) /\ ReusePhase(g, Tail(td), n, m)
                   /\ \A k \in Names : Keeps(f, g, k) /\ Looks(f, g, k)
<1>1. n \in Names /\ u \in Names
  BY NamesAre, Zenon DEF ManifestType
<1> HIDE DEF n
<1> SUFFICES Goal
  BY QuietCall, Zenon DEF n
<1>2. CASE td = <<Sync(u), Sync(n), DirSync(n)>> /\ Written(f, n, m)
  <2>1. Head(td) = Sync(u) /\ Tail(td) = <<Sync(n), DirSync(n)>>
    BY <1>2, Unqueue3
  <2>2. Dir(g) /\ \A k \in Names : Keeps(f, g, k) /\ Looks(f, g, k)
    BY <1>1, <2>1, SyncTouches, Zenon DEF Touches
  <2>3. Written(g, n, m)
    BY <1>1, <1>2, <2>2, LooksWritten, Zenon
  <2> QED BY SMTT(30), <2>1, <2>2, <2>3 DEF ReusePhase
<1>3. CASE td = <<Sync(n), DirSync(n)>> /\ Written(f, n, m)
  <2>1. Head(td) = Sync(n) /\ Tail(td) = <<DirSync(n)>>
    BY <1>3, Unqueue2, Zenon
  <2>2. /\ Dir(g) /\ Flushed(g, n, m)
        /\ \A k \in Names : Keeps(f, g, k) /\ Looks(f, g, k)
    BY <1>1, <1>3, <2>1, SyncTouches, Zenon DEF Touches
  <2> QED BY <2>1, <2>2, Zenon DEF ReusePhase
<1>4. CASE td = <<DirSync(n)>> /\ Flushed(f, n, m)
  <2>1. Head(td) = DirSync(n) /\ Tail(td) = <<>>
    BY <1>4, Unqueue1, Zenon
  <2>2. /\ Dir(g) /\ Solid(g, n, m)
        /\ \A k \in Names : Keeps(f, g, k) /\ Looks(f, g, k)
    BY <1>1, <1>4, <2>1, DirSyncTouches, Zenon DEF Touches
  <2> QED BY <2>1, <2>2, Zenon DEF ReusePhase
<1> QED BY <1>2, <1>3, <1>4, Zenon DEF ReusePhase, n

LEMMA RootPhaseStep ==
  ASSUME NEW f, Dir(f), NEW lg \in Seq(Requests), lg # <<>>, RootsInv(f, lg), NEW br \in Nat,
         NEW p \in Profiles, NEW o \in 1..MaxRuns, Solid(f, Run(o), NewRun(lg)), NEW td,
         RootPhase(f, lg, td, br, o, p), td # <<>>, Possible(f, Head(td))
  PROVE  LET g == Apply(f, Head(td)) IN
         /\ Dir(g) /\ RootsInv(g, lg) /\ RootPhase(g, lg, Tail(td), br, o, p)
         /\ Moves(f, g, br, Len(lg)) /\ \A u \in 1..MaxRuns : Stays(f, g, Run(u))
<1> DEFINE g == Apply(f, Head(td))
<1>1. ASSUME NEW s \in Slots, NEW gen \in Nat, Follows(f, br, p, s, Fresh(lg, gen, o)),
             PublishPhase(f, td, br, Root(p, s), Fresh(lg, gen, o))
      PROVE  /\ Dir(g) /\ RootsInv(g, lg) /\ RootPhase(g, lg, Tail(td), br, o, p)
             /\ Moves(f, g, br, Len(lg)) /\ \A u \in 1..MaxRuns : Stays(f, g, Run(u))
  <2> DEFINE m == Fresh(lg, gen, o)
  <2>1. Held(f, lg, m) /\ m.rev = Len(lg) /\ m \notin {Hole, Torn}
    BY FreshHeld
  <2> HIDE DEF m
  <2>2. /\ Dir(g) /\ RootsInv(g, lg) /\ PublishPhase(g, Tail(td), br, Root(p, s), m)
        /\ Moves(f, g, br, Len(lg)) /\ Follows(g, br, p, s, m)
        /\ \A u \in 1..MaxRuns : Stays(f, g, Run(u))
    BY <1>1, <2>1, PublishStep, Zenon DEF m
  <2>3. RootPhase(g, lg, Tail(td), br, o, p)
    BY <2>2, Zenon DEF RootPhase, Fresh, m
  <2> QED BY <2>2, <2>3, Zenon
<1>2. ASSUME NEW s \in Slots, NEW m \in ManifestType, m.rev = Len(lg),
             ReusePhase(f, td, Root(p, s), m)
      PROVE  /\ Dir(g) /\ RootsInv(g, lg) /\ RootPhase(g, lg, Tail(td), br, o, p)
             /\ Moves(f, g, br, Len(lg)) /\ \A u \in 1..MaxRuns : Stays(f, g, Run(u))
  <2>1. /\ Dir(g) /\ RootsInv(g, lg) /\ ReusePhase(g, Tail(td), Root(p, s), m)
        /\ Moves(f, g, br, Len(lg)) /\ \A u \in 1..MaxRuns : Stays(f, g, Run(u))
    BY <1>2, ReuseStep, Zenon
  <2>2. RootPhase(g, lg, Tail(td), br, o, p)
    BY <1>2, <2>1 DEF RootPhase
  <2> QED BY <2>1, <2>2, Zenon
<1>3. ASSUME NEW n, td = <<Fail(n)>> PROVE FALSE
  <2>1. Head(td) = Fail(n)
    BY <1>3, Unqueue1, Zenon
  <2>2. Fail(n).op = "fail"
    BY SMTT(30) DEF Fail, Cmd
  <2> QED BY <2>1, <2>2, Zenon DEF Possible
<1> QED BY <1>1, <1>2, <1>3, Zenon DEF RootPhase, Fresh

LEMMA RebaseStep ==
  ASSUME NEW f, Dir(f), NEW lg \in Seq(Requests), lg # <<>>, RootsInv(f, lg),
         NEW br \in 1..Len(lg), NEW mg, NEW ph \in {"runs", "metadata", "transactions"}, NEW td,
         RebaseInv(ph, f, lg, td, br, mg), td # <<>>, Possible(f, Head(td))
  PROVE  LET g == Apply(f, Head(td)) IN
         /\ Dir(g) /\ RootsInv(g, lg) /\ Moves(f, g, br, Len(lg))
         /\ RebaseInv(ph, g, lg, Tail(td), br, mg)
<1> DEFINE g == Apply(f, Head(td))
           a == mg["metadata"]
           b == mg["transactions"]
           x == NewRun(lg)
<1>1. a \in 1..MaxRuns /\ b \in 1..MaxRuns /\ a # b /\ Between(f, br, Len(lg))
  BY Zenon DEF RebaseInv
<1>2. br \in Nat /\ Len(lg) \in Nat /\ Len(lg) >= br
  OBVIOUS
<1>3. ASSUME Moves(f, g, br, Len(lg)) PROVE Between(g, br, Len(lg))
  BY <1>1, <1>3, Zenon DEF Between, Moves
<1>4. CASE ph = "runs"
  <2>1. RunsPhase(f, td, Run(a), Run(b), x)
    BY <1>4, Zenon DEF RebaseInv
  <2>2. /\ Dir(g) /\ RootsInv(g, lg) /\ RunsPhase(g, Tail(td), Run(a), Run(b), x)
        /\ \A n \in RootNames : Keeps(f, g, n) /\ Looks(f, g, n)
    BY <1>1, <2>1, RunsStep, Zenon
  <2>3. Moves(f, g, br, Len(lg))
    BY <2>2, CalmMoves, Zenon DEF Calm
  <2> QED BY <1>1, <1>3, <1>4, <2>2, <2>3, Zenon DEF RebaseInv
<1>5. CASE ph = "metadata"
  <2>1. RootPhase(f, lg, td, br, a, "metadata") /\ Solid(f, Run(a), x) /\ Solid(f, Run(b), x)
    BY <1>5, Zenon DEF RebaseInv
  <2>2. /\ Dir(g) /\ RootsInv(g, lg) /\ RootPhase(g, lg, Tail(td), br, a, "metadata")
        /\ Moves(f, g, br, Len(lg)) /\ \A u \in 1..MaxRuns : Stays(f, g, Run(u))
    BY <1>1, <1>2, <2>1, RootPhaseStep, DiskAssumption, Zenon
  <2>3. Solid(g, Run(a), x) /\ Solid(g, Run(b), x)
    BY <1>1, <2>1, <2>2, Zenon DEF Stays
  <2> QED BY <1>1, <1>3, <1>5, <2>2, <2>3, Zenon DEF RebaseInv
<1>6. CASE ph = "transactions"
  <2>1. /\ RootPhase(f, lg, td, br, b, "transactions") /\ SolidRoot(f, "metadata", Len(lg))
        /\ Solid(f, Run(a), x) /\ Solid(f, Run(b), x)
    BY <1>6, Zenon DEF RebaseInv
  <2>2. /\ Dir(g) /\ RootsInv(g, lg) /\ RootPhase(g, lg, Tail(td), br, b, "transactions")
        /\ Moves(f, g, br, Len(lg)) /\ \A u \in 1..MaxRuns : Stays(f, g, Run(u))
    BY <1>1, <1>2, <2>1, RootPhaseStep, DiskAssumption, Zenon
  <2>3. Solid(g, Run(a), x) /\ Solid(g, Run(b), x)
    BY <1>1, <2>1, <2>2, Zenon DEF Stays
  <2>4. SolidRoot(g, "metadata", Len(lg))
    BY <1>2, <2>1, <2>2, DiskAssumption, Zenon DEF Moves
  <2> QED BY <1>1, <1>3, <1>6, <2>2, <2>3, <2>4, Zenon DEF RebaseInv
<1> QED BY SMTT(30), <1>4, <1>5, <1>6

-----------------------------------------------------------------------------
(***************************************************************************)
(* The base that is open.                                                  *)
(***************************************************************************)
LEMMA BaseRun ==
  ASSUME NEW f, NEW lg, RootsInv(f, lg), NEW b, BaseShown(f, b), NEW p \in Profiles
  PROVE  Read(f, Run(b.runs[p])).entries = Outs(lg, 1, b.rev) /\ b.runs[p] \in 1..MaxRuns
<1>1. PICK s \in Slots, m \in ManifestType :
        Shows(f, p, s, m) /\ m.rev = b.rev /\ m.run = b.runs[p]
  BY Zenon DEF BaseShown
<1>2. Held(f, lg, m)
  BY <1>1, ShownHeld, Zenon
<1>3. Read(f, Run(m.run)) = RunOf(m.rev, m.digest)
  BY <1>2, Zenon DEF Held, Solid, Flushed, Written, Read
<1>4. RunOf(m.rev, m.digest).entries = m.digest
  BY Zenon DEF RunOf
<1> QED BY <1>1, <1>2, <1>3, <1>4, Zenon DEF Held, ManifestType

LEMMA OutsJoin ==
  ASSUME NEW lg, NEW b \in Nat, NEW n \in Nat, b <= n
  PROVE  Outs(lg, 1, b) \cup Outs(lg, b + 1, n) = Outs(lg, 1, n)
<1>1. \A r : r \in 1..n <=> r \in 1..b \/ r \in (b + 1)..n
  OBVIOUS
<1> QED BY <1>1, Zenon DEF Outs

\* The runs that a rebase writes hold the whole log.
LEMMA MergedIs ==
  ASSUME TypeInv, RootsInv(fs, log), OpenInv, mode = "open", NEW p \in Profiles
  PROVE  Merged(p) = Outs(log, 1, Frontier)
<1>1. base.rev \in 1..Frontier /\ overlay = Outs(log, base.rev + 1, Frontier)
      /\ BaseShown(fs, base) /\ Frontier \in Nat
  BY DEF OpenInv, TypeInv, Frontier
<1>2. Merged(p) = Outs(log, 1, base.rev) \cup Outs(log, base.rev + 1, Frontier)
  BY <1>1, BaseRun, Zenon DEF Merged
<1> QED BY SMTT(30), <1>1, <1>2, OutsJoin

\* In an open coordinator a manifest that readers do not find is older than the
\* base.
LEMMA HiddenOlder ==
  ASSUME NEW f, NEW lg, RootsInv(f, lg), HiddenInv(f), NEW b, BaseShown(f, b),
         NEW p \in Profiles, NEW s \in Slots, NEW m \in Contents(f, Root(p, s)),
         ~Shows(f, p, s, m)
  PROVE  m.rev < b.rev
<1>1. PICK t \in Slots \ {s}, k \in ManifestType : Shows(f, p, t, k) /\ Before(m, k)
  BY Zenon DEF HiddenInv
<1>2. PICK u \in Slots, j \in ManifestType : Shows(f, p, u, j) /\ j.rev = b.rev
  BY Zenon DEF BaseShown
<1>3. j \in Contents(f, Root(p, u)) /\ k \in Contents(f, Root(p, t))
  BY <1>1, <1>2, ShownHeld, Zenon
<1>4. u # s
  <2> SUFFICES ASSUME u = s PROVE FALSE
    BY Zenon
  <2>1. Root(p, s) \in RootNames
    BY NamesAre, Zenon
  <2>2. j = m
    BY <1>3, <2>1, Zenon DEF RootsInv
  <2> QED BY <1>2, <2>2, Zenon
<1>5. u = t
  BY <1>1, <1>2, <1>4 DEF Slots
<1>6. j = k
  BY <1>3, <1>5, NamesAre, Zenon DEF RootsInv
<1> QED BY <1>1, <1>2, <1>6, Zenon DEF Before

\* HiddenInv is kept by what a rebase may do to the roots.
LEMMA MovesHidden ==
  ASSUME NEW f, NEW g, NEW lg, RootsInv(f, lg), HiddenInv(f), NEW b, BaseShown(f, b), NEW fr,
         b.rev \in Nat, Moves(f, g, b.rev, fr)
  PROVE  HiddenInv(g) /\ BaseShown(g, b)
<1>1. BaseShown(g, b)
  BY Zenon DEF BaseShown, Moves
<1>2. ASSUME NEW p \in Profiles, NEW s \in Slots, NEW m \in Contents(g, Root(p, s)),
             ~Shows(g, p, s, m)
      PROVE  \E t \in Slots \ {s} : \E k \in ManifestType : Shows(g, p, t, k) /\ Before(m, k)
  <2>1. /\ m \in Contents(f, Root(p, s))
        /\ Shows(f, p, s, m) => m.rev <= b.rev
    BY <1>2, Zenon DEF Moves
  <2>2. PICK u \in Slots, j \in ManifestType : Shows(f, p, u, j) /\ j.rev = b.rev
    BY Zenon DEF BaseShown
  <2>3. Shows(g, p, u, j) /\ j \in Contents(f, Root(p, u))
    BY <2>2, ShownHeld, Zenon DEF Moves
  <2>4. u # s
    BY <1>2, <2>1, <2>3, NamesAre, Zenon DEF RootsInv
  <2>5. m.rev <= b.rev
    BY SMTT(30), <2>1, HiddenOlder, NamesAre DEF RootsInv, Held, ManifestType
  <2>6. Before(m, j) \/ Before(j, m)
    BY <2>1, <2>3, <2>4, Zenon DEF RootsInv
  <2>7. m.rev \in Nat
    BY SMTT(30), <2>1, NamesAre DEF RootsInv, Held, ManifestType
  <2>8. Before(m, j)
    BY SMTT(30), <2>2, <2>5, <2>6, <2>7 DEF Before
  <2> QED BY <2>3, <2>4, <2>8, Zenon
<1> QED BY <1>1, <1>2, Zenon DEF HiddenInv

-----------------------------------------------------------------------------
(***************************************************************************)
(* publish_or_reuse.                                                       *)
(***************************************************************************)

\* Some candidate has the greatest generation.
LEMMA NewestIs ==
  ASSUME NEW f, NEW p, NEW cands, cands \subseteq Slots, cands # {},
         \A s \in cands : Manifest(f, p, s).gen \in Nat
  PROVE  LET s == NewestSlot(f, p, cands) IN
         s \in cands /\ \A t \in cands : Manifest(f, p, t).gen <= Manifest(f, p, s).gen
<1> DEFINE top(s) == \A t \in cands : Manifest(f, p, t).gen <= Manifest(f, p, s).gen
<1>1. cands \subseteq {1, 2}
  BY DEF Slots
<1>2. \E s \in cands : top(s)
  <2>1. CASE cands = {1} \/ cands = {2}
    BY SMTT(30), <2>1
  <2>2. CASE 1 \in cands /\ 2 \in cands
    <3>1. Manifest(f, p, 1).gen \in Nat /\ Manifest(f, p, 2).gen \in Nat
      BY <2>2, Zenon
    <3>2. CASE Manifest(f, p, 1).gen <= Manifest(f, p, 2).gen
      BY SMTT(30), <1>1, <2>2, <3>1, <3>2
    <3>3. CASE Manifest(f, p, 2).gen <= Manifest(f, p, 1).gen
      BY SMTT(30), <1>1, <2>2, <3>1, <3>3
    <3> QED BY SMTT(30), <3>1, <3>2, <3>3
  <2>3. cands = {1} \/ cands = {2} \/ (1 \in cands /\ 2 \in cands)
    BY <1>1, Zenon
  <2> QED BY <2>1, <2>2, <2>3, Zenon
<1>3. NewestSlot(f, p, cands) = CHOOSE s \in cands : top(s)
  BY DEF NewestSlot
<1> HIDE DEF top
<1>4. LET s == CHOOSE s \in cands : top(s) IN s \in cands /\ top(s)
  BY SMTT(30), <1>2
<1> QED BY <1>3, <1>4, Zenon DEF top

\* The manifests that readers find under a profile, in terms of the slots.
LEMMA FoundHeld ==
  ASSUME NEW f, NEW lg \in Seq(Requests), RootsInv(f, lg), NEW p \in Profiles,
         NEW s \in ManifestSlots(f, p)
  PROVE  LET m == Manifest(f, p, s) IN
         /\ s \in Slots /\ Shows(f, p, s, m) /\ Held(f, lg, m) /\ m \in Contents(f, Root(p, s))
         /\ m \in ManifestType /\ m.rev \in Nat /\ m.gen \in Nat /\ s \in Usable(f, p)
<1>1. s \in Slots /\ s \in Usable(f, p) /\ Shows(f, p, s, Manifest(f, p, s))
  BY SlotsShown, Zenon
<1>2. Held(f, lg, Manifest(f, p, s)) /\ Manifest(f, p, s) \in Contents(f, Root(p, s))
  BY <1>1, ShownHeld, Zenon
<1> QED BY <1>1, <1>2 DEF Held, ManifestType

\* The root of the base is the newest, unless the frontier's is there already.
LEMMA BaseIsNewest ==
  ASSUME NEW f, NEW lg \in Seq(Requests), RootsInv(f, lg), NEW p \in Profiles, NEW br \in Nat,
         NEW t \in Slots, NEW k \in ManifestType, Shows(f, p, t, k), k.rev = br,
         \A s \in ManifestSlots(f, p) : Manifest(f, p, s).rev <= br
  PROVE  /\ t \in ManifestSlots(f, p) /\ Manifest(f, p, t) = k
         /\ NewestSlot(f, p, ManifestSlots(f, p)) = t
         /\ ~Ambiguous(f, p, ManifestSlots(f, p))
<1> DEFINE C == ManifestSlots(f, p)
<1>1. Manifest(f, p, t) = k /\ t \in C /\ C \subseteq Slots
  BY SlotsShown, Zenon
<1>2. ASSUME NEW s \in C, s # t PROVE Manifest(f, p, s).gen < k.gen
  <2> DEFINE m == Manifest(f, p, s)
  <2>1. s \in Slots /\ m \in Contents(f, Root(p, s)) /\ m.rev \in Nat /\ m.rev <= br
    BY FoundHeld, Zenon
  <2>2. k \in Contents(f, Root(p, t))
    BY ShownHeld, Zenon
  <2>3. Before(m, k) \/ Before(k, m)
    BY <1>2, <2>1, <2>2, Zenon DEF RootsInv
  <2> QED BY <2>1, <2>3 DEF Before
<1>3. \A s \in C : Manifest(f, p, s).gen \in Nat
  BY FoundHeld, Zenon
<1> HIDE DEF C
<1>4. LET s == NewestSlot(f, p, C) IN
      s \in C /\ \A u \in C : Manifest(f, p, u).gen <= Manifest(f, p, s).gen
  BY <1>1, <1>3, NewestIs, Zenon
<1>5. NewestSlot(f, p, C) = t
  <2> DEFINE z == NewestSlot(f, p, C)
  <2>1. z \in C /\ Manifest(f, p, t).gen <= Manifest(f, p, z).gen
    BY <1>1, <1>4, Zenon
  <2> HIDE DEF z
  <2>2. SUFFICES ASSUME z # t PROVE FALSE
    BY Zenon DEF z
  <2>3. Manifest(f, p, z).gen < k.gen /\ k.gen <= Manifest(f, p, z).gen
    BY <1>1, <1>2, <2>1, <2>2, Zenon
  <2>4. Manifest(f, p, z).gen \in Nat /\ k.gen \in Nat
    BY <1>1, <1>3, <2>1, Zenon
  <2> QED BY <2>3, <2>4
<1>6. ~Ambiguous(f, p, C)
  <2> SUFFICES ASSUME NEW s \in C, NEW u \in C, Manifest(f, p, s).gen = Manifest(f, p, u).gen,
                      Manifest(f, p, s) # Manifest(f, p, u)
               PROVE  FALSE
    BY Zenon DEF Ambiguous
  <2>1. Manifest(f, p, s).gen \in Nat /\ k.gen \in Nat
    BY <1>1, <1>3, Zenon
  <2>2. s # u
    BY Zenon
  <2>3. s = t \/ u = t
    BY SMTT(30), <1>1, <2>2 DEF Slots
  <2>4. CASE s = t
    BY SMTT(30), <1>1, <1>2, <2>1, <2>2, <2>4
  <2>5. CASE u = t
    BY SMTT(30), <1>1, <1>2, <2>1, <2>2, <2>5
  <2> QED BY <2>3, <2>4, <2>5, Zenon
<1> QED BY <1>1, <1>5, <1>6, Zenon DEF C


LEMMA PublishReady ==
  ASSUME NEW f, NEW lg \in Seq(Requests), RootsInv(f, lg), HiddenInv(f),
         NEW b, BaseShown(f, b), b.rev \in Nat, b.rev < Len(lg), NEW p \in Profiles, NEW o,
         \A s \in ManifestSlots(f, p) : Manifest(f, p, s).rev <= b.rev
  PROVE  RootPhase(f, lg, PublishRoot(f, p, Len(lg), o, Outs(lg, 1, Len(lg))), b.rev, o, p)
<1>1. PICK t \in Slots, k \in ManifestType : Shows(f, p, t, k) /\ k.rev = b.rev
  BY Zenon DEF BaseShown
<1> DEFINE C == ManifestSlots(f, p)
           s == CHOOSE s \in Slots : s # t
           m == ManifestOf(Len(lg), k.gen + 1, o, Outs(lg, 1, Len(lg)))
           n == Root(p, s)
<1>2. /\ t \in C /\ Manifest(f, p, t) = k /\ NewestSlot(f, p, C) = t
      /\ ~Ambiguous(f, p, C) /\ Usable(f, p) = C
  BY SMTT(30), <1>1, BaseIsNewest, SlotsShown
<1>3. s \in Slots /\ s # t
  BY SMTT(30) DEF Slots
<1>4. RootSlot(f, p, C) = s /\ RootGeneration(f, p, C) = k.gen + 1
  <2>1. C # {}
    BY <1>2, Zenon
  <2> HIDE DEF C
  <2> QED BY <1>2, <2>1 DEF RootSlot, RootGeneration
<1>5. k.gen \in Nat /\ k.gen + 1 \in Nat
  BY SMTT(30) DEF ManifestType
<1>6. Before(k, m)
  BY <1>1, <1>5 DEF Before, ManifestOf
<1> HIDE DEF C, s
<1> DEFINE td == (IF Exists(f, n) THEN <<Rm(n)>> ELSE <<>>)
                 \o <<DirSync(n), New(n, m), Sync(n), DirSync(n)>>
<1>7. PublishRoot(f, p, Len(lg), o, Outs(lg, 1, Len(lg))) = td
  BY <1>2, <1>4, Zenon DEF PublishRoot
<1> HIDE DEF m
<1>8. Older(f, n, b.rev)
  <2> SUFFICES ASSUME NEW c \in Contents(f, n) PROVE c.rev < b.rev
    BY Zenon DEF Older
  <2>1. CASE ~Shows(f, p, s, c)
    BY <1>3, <2>1, HiddenOlder, Zenon
  <2>2. CASE Shows(f, p, s, c)
    <3>1. c = Manifest(f, p, s) /\ s \in C
      BY <1>3, <2>2, SlotsShown, Zenon DEF C
    <3>2. c.rev <= b.rev /\ c.rev \in Nat
      BY <3>1, FoundHeld, Zenon DEF C
    <3>3. k \in Contents(f, Root(p, t))
      BY <1>1, ShownHeld, Zenon
    <3>4. Before(c, k) \/ Before(k, c)
      BY <1>3, <3>3, Zenon DEF RootsInv
    <3> QED BY SMTT(30), <1>1, <3>2, <3>4 DEF Before
  <2> QED BY <2>1, <2>2, Zenon
<1>9. Follows(f, b.rev, p, s, m)
  BY <1>1, <1>3, <1>6, Zenon DEF Follows
<1> HIDE DEF n
<1>10. PublishPhase(f, td, b.rev, n, m)
  <2>1. CASE Exists(f, n)
    <3>1. td = <<Rm(n), DirSync(n), New(n, m), Sync(n), DirSync(n)>>
      BY <2>1, JoinOne, Zenon
    <3> HIDE DEF td
    <3> QED BY <1>8, <3>1, Zenon DEF PublishPhase
  <2>2. CASE ~Exists(f, n)
    <3>1. td = <<DirSync(n), New(n, m), Sync(n), DirSync(n)>>
      BY <2>2, JoinNone, Zenon
    <3> HIDE DEF td
    <3> QED BY <1>8, <2>2, <3>1, Zenon DEF PublishPhase, Exists
  <2> QED BY <2>1, <2>2, Zenon
<1> HIDE DEF td
<1>11. \E z \in Slots, gen \in Nat :
         LET w == ManifestOf(Len(lg), gen, o, Outs(lg, 1, Len(lg))) IN
         Follows(f, b.rev, p, z, w) /\ PublishPhase(f, td, b.rev, Root(p, z), w)
  BY <1>3, <1>5, <1>9, <1>10, Zenon DEF n, m
<1> QED BY <1>7, <1>11, Zenon DEF RootPhase

\* A root of the frontier is synchronised again.
LEMMA ReuseReady ==
  ASSUME NEW f, NEW lg \in Seq(Requests), RootsInv(f, lg), NEW p \in Profiles, NEW br, NEW o,
         NEW s \in ManifestSlots(f, p), Manifest(f, p, s).rev = Len(lg)
  PROVE  RootPhase(f, lg, ResyncRoot(f, p, s), br, o, p)
<1> DEFINE m == Manifest(f, p, s)
           n == Root(p, s)
<1>1. s \in Slots /\ Shows(f, p, s, m) /\ m \in ManifestType /\ s \in Usable(f, p)
  BY FoundHeld, Zenon
<1>2. Intact(f, m)
  BY <1>1, Zenon DEF Usable
<1>3. ResyncRoot(f, p, s) = <<Sync(Run(m.run)), Sync(n), DirSync(n)>>
  BY <1>2, Zenon DEF ResyncRoot
<1>4. Written(f, n, m)
  BY <1>1, Zenon DEF Shows
<1>5. ReusePhase(f, ResyncRoot(f, p, s), n, m)
  BY <1>3, <1>4, Zenon DEF ReusePhase
<1> QED BY <1>1, <1>5, Zenon DEF RootPhase

LEMMA RootReady ==
  ASSUME TypeInv, RootsInv(fs, log), HiddenInv(fs), OpenInv, mode = "open", NEW p \in Profiles,
         Between(fs, base.rev, Frontier)
  PROVE  RootPhase(fs, log, PublishOrReuse(p), base.rev, merged[p], p)
<1> DEFINE same == {s \in ManifestSlots(fs, p) : Manifest(fs, p, s).rev = Frontier}
<1>1. /\ log \in Seq(Requests) /\ base.rev \in 1..Frontier /\ BaseShown(fs, base)
      /\ Frontier = Len(log) /\ Frontier \in Nat
  BY DEF TypeInv, OpenInv, Frontier
<1>2. Merged(p) = Outs(log, 1, Len(log))
  BY <1>1, MergedIs, Zenon
<1>3. ASSUME NEW s \in ManifestSlots(fs, p)
      PROVE  Manifest(fs, p, s).rev <= base.rev \/ Manifest(fs, p, s).rev = Frontier
  <2>1. s \in Slots /\ Manifest(fs, p, s) \in ManifestType /\ Shows(fs, p, s, Manifest(fs, p, s))
    BY <1>1, FoundHeld, Zenon
  <2> QED BY <2>1, Zenon DEF Between
<1>4. CASE same = {}
  <2>1. PublishOrReuse(p) = PublishRoot(fs, p, Len(log), merged[p], Outs(log, 1, Len(log)))
    BY <1>1, <1>2, <1>4, Zenon DEF PublishOrReuse
  <2>2. \A s \in ManifestSlots(fs, p) : Manifest(fs, p, s).rev <= base.rev
    BY <1>3, <1>4, Zenon
  <2>3. PICK t \in Slots, k \in ManifestType : Shows(fs, p, t, k) /\ k.rev = base.rev
    BY <1>1, Zenon DEF BaseShown
  <2>4. t \in ManifestSlots(fs, p) /\ Manifest(fs, p, t).rev = base.rev
    BY <1>1, <2>3, SlotsShown, Zenon
  <2>5. base.rev < Len(log) /\ base.rev \in Nat
    BY <1>1, <1>4, <2>4
  <2> QED BY <1>1, <2>1, <2>2, <2>5, PublishReady, Zenon
<1>5. CASE same # {}
  <2> DEFINE s == NewestSlot(fs, p, same)
  <2>1. same \subseteq Slots /\ \A z \in same : Manifest(fs, p, z).gen \in Nat
    BY <1>1, FoundHeld, Zenon
  <2>2. s \in same
    <3> HIDE DEF same
    <3> QED BY <1>5, <2>1, NewestIs, Zenon
  <2>3. s \in ManifestSlots(fs, p) /\ Manifest(fs, p, s).rev = Len(log) /\ Root(p, s) \in RootNames
    BY <1>1, <2>1, <2>2, NamesAre, Zenon
  <2>4. RootPhase(fs, log, ResyncRoot(fs, p, s), base.rev, merged[p], p)
    BY <1>1, <2>3, ReuseReady, Zenon
  <2>5. RootPhase(fs, log, <<Fail(Root(p, s))>>, base.rev, merged[p], p)
    BY <2>3, Zenon DEF RootPhase
  <2>6. PublishOrReuse(p) = ResyncRoot(fs, p, s) \/ PublishOrReuse(p) = <<Fail(Root(p, s))>>
    BY <1>5, Zenon DEF PublishOrReuse
  <2> QED BY <2>4, <2>5, <2>6, Zenon
<1> QED BY <1>4, <1>5, Zenon

-----------------------------------------------------------------------------
(***************************************************************************)
(* The steps that end the process, and the calls of a rebase.              *)
(***************************************************************************)
LEMMA CalmHidden ==
  ASSUME NEW f, NEW g, HiddenInv(f), \A n \in RootNames : Calm(f, g, n)
  PROVE  HiddenInv(g)
<1>1. \A p \in Profiles, s \in Slots : Calm(f, g, Root(p, s))
  BY NamesAre, Zenon
<1>2. \A p \in Profiles, s \in Slots : \A m : Shows(f, p, s, m) <=> Shows(g, p, s, m)
  BY <1>1, CalmShows, Zenon
<1>3. \A p \in Profiles, s \in Slots : Contents(g, Root(p, s)) \subseteq Contents(f, Root(p, s))
  BY <1>1, Zenon DEF Calm, Keeps
<1> QED BY <1>2, <1>3, Zenon DEF HiddenInv

LEMMA OrphansCalm ==
  ASSUME NEW f, Shape(f), NEW lg, RootsInv(f, lg), NEW used
  PROVE  \A n \in RootNames : Calm(f, WithoutOrphans(f, used), n)
BY OrphansKeep, Zenon DEF Calm

\* After a crash readers find all that there is.
LEMMA SettledHidden ==
  ASSUME NEW f, f.vis = f.dur, f.data = f.safe
  PROVE  HiddenInv(f)
<1> SUFFICES ASSUME NEW p \in Profiles, NEW s \in Slots, NEW m \in Contents(f, Root(p, s))
             PROVE  Shows(f, p, s, m)
  BY Zenon DEF HiddenInv
<1> QED BY ContentsIs DEF Shows, Written

LEMMA StoppedInv ==
  ASSUME TypeInv, Stopped, Dir(fs'), RootsInv(fs', log), HiddenInv(fs')
  PROVE  Inv'
<1>1. log' = log /\ mode' = "down" /\ phase' = "idle" /\ todo' = <<>>
      /\ world' = world /\ rebased' = rebased
  BY Zenon DEF Stopped
<1>2. TypeInv'
  BY <1>1, Zenon DEF TypeInv, Frontier
<1>3. OpenInv'
  BY <1>1, Zenon DEF OpenInv
<1> QED BY SMTT(30), <1>1, <1>2, <1>3 DEF Inv

LEMMA CrashInv ==
  ASSUME Inv, Crash
  PROVE  Inv'
<1>1. PICK f \in Crashed(fs) : fs' = WithoutOrphans(f, {})
  BY Zenon DEF Crash
<1>2. Dir(fs) /\ TypeInv /\ RootsInv(fs, log) /\ Stopped
  BY Zenon DEF Inv, TypeInv, Crash
<1>3. Dir(f) /\ f.vis = f.dur /\ f.data = f.safe /\ \A n \in Names : Keeps(fs, f, n)
  BY <1>2, CrashKeeps, Zenon
<1>4. RootsInv(f, log) /\ Shape(f)
  BY <1>2, <1>3, AllKept, Zenon DEF Dir
<1>5. Dir(fs') /\ RootsInv(fs', log)
  BY <1>1, <1>4, OrphansKeep, Zenon
<1>6. fs'.vis = fs'.dur /\ fs'.data = fs'.safe
  BY <1>1, <1>3, <1>4, OrphansGo, Zenon
<1>7. HiddenInv(fs')
  BY <1>6, SettledHidden, Zenon
<1> QED BY <1>2, <1>5, <1>7, StoppedInv, Zenon

LEMMA StopInv ==
  ASSUME Inv, Stop
  PROVE  Inv'
<1>1. /\ Shape(fs) /\ TypeInv /\ RootsInv(fs, log) /\ HiddenInv(fs) /\ Stopped
      /\ fs' = WithoutOrphans(fs, {})
  BY Zenon DEF Inv, TypeInv, Stop, Dir
<1>2. Dir(fs') /\ RootsInv(fs', log)
  BY <1>1, OrphansKeep, Zenon
<1>3. HiddenInv(fs')
  BY <1>1, OrphansCalm, CalmHidden, Zenon
<1> QED BY <1>1, <1>2, <1>3, StoppedInv, Zenon

\* While a call is due, a rebase is under way.
LEMMA Underway ==
  ASSUME Inv, todo # <<>>
  PROVE  /\ mode = "open" /\ phase \in {"runs", "metadata", "transactions"} /\ required
         /\ RebaseInv(phase, fs, log, todo, base.rev, merged)
         /\ base.rev \in 1..Len(log) /\ BaseShown(fs, base) /\ log # <<>> /\ base.rev \in Nat
<1>1. phase # "idle" /\ mode = "open"
  BY Zenon DEF Inv, OpenInv
<1>2. base.rev \in 1..Len(log) /\ BaseShown(fs, base) /\ log \in Seq(Requests)
  BY <1>1, Zenon DEF Inv, OpenInv, TypeInv, Frontier
<1>3. log # <<>> /\ base.rev \in Nat
  BY <1>2
<1> QED BY <1>1, <1>2, <1>3, Zenon DEF Inv, OpenInv, TypeInv

LEMMA StepInv ==
  ASSUME Inv, Step
  PROVE  Inv' /\ Moves(fs, fs', base.rev, Frontier)
<1>1. /\ Dir(fs) /\ TypeInv /\ RootsInv(fs, log) /\ HiddenInv(fs) /\ OpenInv
      /\ log \in Seq(Requests)
  BY Zenon DEF Inv, TypeInv
<1>2. /\ todo # <<>> /\ Possible(fs, Head(todo)) /\ fs' = Apply(fs, Head(todo))
      /\ todo' = Tail(todo)
      /\ UNCHANGED <<world, log, mode, base, overlay, required, phase, merged, rebased>>
  BY Zenon DEF Step
<1>3. /\ mode = "open" /\ phase \in {"runs", "metadata", "transactions"} /\ required
      /\ RebaseInv(phase, fs, log, todo, base.rev, merged)
      /\ base.rev \in 1..Len(log) /\ BaseShown(fs, base) /\ log # <<>> /\ base.rev \in Nat
  BY <1>2, Underway, Zenon
<1>4. /\ Dir(fs') /\ RootsInv(fs', log) /\ Moves(fs, fs', base.rev, Len(log))
      /\ RebaseInv(phase, fs', log, Tail(todo), base.rev, merged)
  BY <1>1, <1>2, <1>3, RebaseStep, Zenon
<1>5. HiddenInv(fs') /\ BaseShown(fs', base)
  BY <1>1, <1>3, <1>4, MovesHidden, Zenon
<1>6. TypeInv'
  BY SMTT(30), <1>1, <1>2, <1>4 DEF TypeInv, Frontier
<1>7. OpenInv'
  BY <1>1, <1>2, <1>3, <1>4, <1>5, Zenon DEF OpenInv, Frontier
<1> QED BY <1>2, <1>4, <1>5, <1>6, <1>7, Zenon DEF Inv, Frontier

\* The name a call is about.
LEMMA PlacesAre ==
  ASSUME NEW n, NEW x
  PROVE  /\ New(n, x).at = n /\ Sync(n).at = n /\ DirSync(n).at = n
         /\ Rm(n).at = n /\ Fail(n).at = n
BY Zenon DEF New, Sync, DirSync, Rm, Fail, Cmd

\* The calls that write the two runs are about these runs.
LEMMA RunsCalls ==
  ASSUME NEW f, NEW td, td # <<>>, NEW a, NEW b, NEW x, RunsPhase(f, td, a, b, x)
  PROVE  Head(td).at \in {a, b}
<1>1. ASSUME td = <<New(a, x), Sync(a), DirSync(a), New(b, x), Sync(b), DirSync(b)>> PROVE Head(td).at \in {a, b}
  <2>1. Head(td) = New(a, x)
    BY SMTT(30), <1>1, Unqueue6
  <2> QED BY <2>1, PlacesAre
<1>2. ASSUME td = <<Sync(a), DirSync(a), New(b, x), Sync(b), DirSync(b)>> PROVE Head(td).at \in {a, b}
  <2>1. Head(td) = Sync(a)
    BY SMTT(30), <1>2, Unqueue5
  <2> QED BY SMTT(30), <2>1, PlacesAre
<1>3. ASSUME td = <<DirSync(a), New(b, x), Sync(b), DirSync(b)>> PROVE Head(td).at \in {a, b}
  <2>1. Head(td) = DirSync(a)
    BY SMTT(30), <1>3, Unqueue4
  <2> QED BY SMTT(30), <2>1, PlacesAre
<1>4. ASSUME td = <<New(b, x), Sync(b), DirSync(b)>> PROVE Head(td).at \in {a, b}
  <2>1. Head(td) = New(b, x)
    BY SMTT(30), <1>4, Unqueue3
  <2> QED BY SMTT(30), <2>1, PlacesAre
<1>5. ASSUME td = <<Sync(b), DirSync(b)>> PROVE Head(td).at \in {a, b}
  <2>1. Head(td) = Sync(b)
    BY SMTT(30), <1>5, Unqueue2
  <2> QED BY SMTT(30), <2>1, PlacesAre
<1>6. ASSUME td = <<DirSync(b)>> PROVE Head(td).at \in {a, b}
  <2>1. Head(td) = DirSync(b)
    BY <1>6, Unqueue1
  <2> QED BY <2>1, PlacesAre
<1> QED BY <1>1, <1>2, <1>3, <1>4, <1>5, <1>6, Zenon DEF RunsPhase

\* The calls that publish a root are about the root.
LEMMA PublishCalls ==
  ASSUME NEW f, NEW td, td # <<>>, NEW br, NEW n, NEW m, PublishPhase(f, td, br, n, m)
  PROVE  Head(td).at \in {n}
<1>1. ASSUME td = <<Rm(n), DirSync(n), New(n, m), Sync(n), DirSync(n)>> PROVE Head(td).at \in {n}
  <2>1. Head(td) = Rm(n)
    BY SMTT(30), <1>1, Unqueue5
  <2> QED BY SMTT(30), <2>1, PlacesAre
<1>2. ASSUME td = <<DirSync(n), New(n, m), Sync(n), DirSync(n)>> PROVE Head(td).at \in {n}
  <2>1. Head(td) = DirSync(n)
    BY SMTT(30), <1>2, Unqueue4
  <2> QED BY SMTT(30), <2>1, PlacesAre
<1>3. ASSUME td = <<New(n, m), Sync(n), DirSync(n)>> PROVE Head(td).at \in {n}
  <2>1. Head(td) = New(n, m)
    BY SMTT(30), <1>3, Unqueue3
  <2> QED BY SMTT(30), <2>1, PlacesAre
<1>4. ASSUME td = <<Sync(n), DirSync(n)>> PROVE Head(td).at \in {n}
  <2>1. Head(td) = Sync(n)
    BY SMTT(30), <1>4, Unqueue2
  <2> QED BY <2>1, PlacesAre
<1>5. ASSUME td = <<DirSync(n)>> PROVE Head(td).at \in {n}
  <2>1. Head(td) = DirSync(n)
    BY <1>5, Unqueue1
  <2> QED BY SMTT(30), <2>1, PlacesAre
<1> QED BY <1>1, <1>2, <1>3, <1>4, <1>5, Zenon DEF PublishPhase

\* The calls that reuse a root are about the root and its run.
LEMMA ReuseCalls ==
  ASSUME NEW f, NEW td, td # <<>>, NEW n, NEW m, ReusePhase(f, td, n, m)
  PROVE  Head(td).at \in {n, Run(m.run)}
<1>1. ASSUME td = <<Sync(Run(m.run)), Sync(n), DirSync(n)>> PROVE Head(td).at \in {n, Run(m.run)}
  <2>1. Head(td) = Sync(Run(m.run))
    BY SMTT(30), <1>1, Unqueue3
  <2> QED BY SMTT(30), <2>1, PlacesAre
<1>2. ASSUME td = <<Sync(n), DirSync(n)>> PROVE Head(td).at \in {n, Run(m.run)}
  <2>1. Head(td) = Sync(n)
    BY SMTT(30), <1>2, Unqueue2
  <2> QED BY SMTT(30), <2>1, PlacesAre
<1>3. ASSUME td = <<DirSync(n)>> PROVE Head(td).at \in {n, Run(m.run)}
  <2>1. Head(td) = DirSync(n)
    BY <1>3, Unqueue1
  <2> QED BY <2>1, PlacesAre
<1> QED BY <1>1, <1>2, <1>3, Zenon DEF ReusePhase

\* Every call of a rebase is on a name of the directory.
LEMMA CallsAreOnNames ==
  ASSUME NEW ph \in {"runs", "metadata", "transactions"}, NEW f, NEW lg, NEW td, td # <<>>,
         NEW br, NEW mg, RebaseInv(ph, f, lg, td, br, mg)
  PROVE  Head(td).at \in Names
<1>1. /\ mg["metadata"] \in 1..MaxRuns /\ mg["transactions"] \in 1..MaxRuns
      /\ ph = "runs" => RunsPhase(f, td, Run(mg["metadata"]), Run(mg["transactions"]), NewRun(lg))
      /\ ph # "runs" => \E p \in Profiles, o \in 1..MaxRuns : RootPhase(f, lg, td, br, o, p)
  BY DiskAssumption, Zenon DEF RebaseInv
<1>2. CASE ph = "runs"
  <2>1. Head(td).at \in {Run(mg["metadata"]), Run(mg["transactions"])}
    BY <1>1, <1>2, RunsCalls, Zenon
  <2> QED BY SMTT(30), <1>1, <2>1, NamesAre
<1>3. CASE ph # "runs"
  <2>1. PICK p \in Profiles, o \in 1..MaxRuns : RootPhase(f, lg, td, br, o, p)
    BY <1>1, <1>3, Zenon
  <2>2. ASSUME NEW s \in Slots, NEW m, PublishPhase(f, td, br, Root(p, s), m)
        PROVE  Head(td).at \in Names
    <3>1. Head(td).at = Root(p, s)
      BY <2>2, PublishCalls, Zenon
    <3> QED BY <3>1, NamesAre
  <2>3. ASSUME NEW s \in Slots, NEW m \in ManifestType, ReusePhase(f, td, Root(p, s), m)
        PROVE  Head(td).at \in Names
    <3>1. Head(td).at \in {Root(p, s), Run(m.run)}
      BY <2>3, ReuseCalls, Zenon
    <3>2. m.run \in 1..MaxRuns
      BY SMTT(30) DEF ManifestType
    <3> QED BY <3>1, <3>2, NamesAre
  <2>4. ASSUME NEW n \in RootNames, td = <<Fail(n)>> PROVE Head(td).at \in Names
    <3>1. Head(td) = Fail(n)
      BY <2>4, Unqueue1
    <3> QED BY SMTT(30), <3>1, NamesAre, PlacesAre
  <2> QED BY <2>1, <2>2, <2>3, <2>4, Zenon DEF RootPhase
<1> QED BY <1>2, <1>3, Zenon

LEMMA StepFailsInv ==
  ASSUME Inv, StepFails
  PROVE  Inv' /\ Moves(fs, fs', base.rev, Frontier) /\ \A n \in RootNames : Keeps(fs, fs', n)
<1> DEFINE used == {base.runs[p] : p \in Profiles}
<1>1. /\ Dir(fs) /\ TypeInv /\ RootsInv(fs, log) /\ HiddenInv(fs) /\ OpenInv
      /\ log \in Seq(Requests)
  BY Zenon DEF Inv, TypeInv
<1>2. /\ todo # <<>> /\ todo' = <<>> /\ phase' = "idle"
      /\ UNCHANGED <<world, log, mode, base, overlay, required, rebased>>
  BY Zenon DEF StepFails
<1>3. PICK f \in Failed(fs, Head(todo)) : fs' = WithoutOrphans(f, used)
  BY Zenon DEF StepFails
<1> HIDE DEF used
<1>4. /\ mode = "open" /\ phase \in {"runs", "metadata", "transactions"}
      /\ RebaseInv(phase, fs, log, todo, base.rev, merged)
      /\ base.rev \in 1..Len(log) /\ BaseShown(fs, base) /\ base.rev \in Nat
  BY <1>2, Underway, Zenon
<1>5. Head(todo).at \in Names
  BY <1>2, <1>4, CallsAreOnNames, Zenon
<1>6. Shape(f) /\ \A n \in Names : Keeps(fs, f, n) /\ Calm(fs, f, n)
  BY <1>1, <1>5, FailedKeeps, Zenon DEF Calm
<1>7. RootsInv(f, log)
  BY <1>1, <1>6, AllKept, Zenon
<1>8. /\ Dir(fs') /\ RootsInv(fs', log) /\ \A n \in RootNames : Calm(f, fs', n)
      /\ \A n \in RootNames : Keeps(f, fs', n)
  BY <1>3, <1>6, <1>7, OrphansKeep, OrphansCalm, Zenon
<1>9. \A n \in RootNames : Calm(fs, f, n) /\ Keeps(fs, f, n)
  BY <1>6, NamesAre, Zenon
<1>10. \A n \in RootNames : Calm(fs, fs', n) /\ Keeps(fs, fs', n)
  <2> SUFFICES ASSUME NEW n \in RootNames PROVE Calm(fs, fs', n) /\ Keeps(fs, fs', n)
    BY Zenon
  <2>1. Calm(fs, f, n) /\ Calm(f, fs', n)
    BY <1>8, <1>9, Zenon
  <2>2. Keeps(fs, fs', n)
    BY <2>1, Zenon DEF Calm, Keeps, Stays
  <2>3. CASE Looks(fs, f, n) /\ Looks(f, fs', n)
    BY <2>2, <2>3, Zenon DEF Calm, Looks
  <2>4. CASE Looks(fs, f, n) /\ f.vis[n] = 0 /\ \E x \in {Hole, Torn} : Written(fs', n, x)
    BY <2>2, <2>4, Zenon DEF Calm, Looks
  <2>5. CASE fs.vis[n] = 0 /\ (\E x \in {Hole, Torn} : Written(f, n, x)) /\ Looks(f, fs', n)
    BY <2>2, <2>5, LooksWritten, Zenon DEF Calm
  <2>6. CASE f.vis[n] = 0 /\ \E x \in {Hole, Torn} : Written(f, n, x)
    BY <2>6, Zenon DEF Written
  <2> QED BY <2>1, <2>3, <2>4, <2>5, <2>6, Zenon DEF Calm
<1>11. Moves(fs, fs', base.rev, Frontier)
  BY <1>10, CalmMoves, Zenon
<1>12. HiddenInv(fs') /\ BaseShown(fs', base)
  BY <1>1, <1>4, <1>11, MovesHidden, Zenon
<1>13. TypeInv'
  BY SMTT(30), <1>1, <1>2, <1>8 DEF TypeInv, Frontier
<1>14. OpenInv'
  BY <1>1, <1>2, <1>4, <1>12, Zenon DEF OpenInv, Frontier
<1> QED BY <1>2, <1>8, <1>10, <1>11, <1>12, <1>13, <1>14, Zenon DEF Inv

-----------------------------------------------------------------------------
(***************************************************************************)
(* Opening, looking up and committing.                                     *)
(***************************************************************************)
\* A pair that recovery admits is visible.
LEMMA PairsShown ==
  ASSUME NEW f, log \in Seq(Requests), RootsInv(f, log), NEW r,
         \A p \in Profiles : SlotsAt(f, p, r) # {}
  PROVE  BaseShown(f, BaseAt(f, r)) /\ BaseAt(f, r).rev = r
<1>1. BaseAt(f, r).rev = r
  BY Zenon DEF BaseAt
<1>2. ASSUME NEW p \in Profiles
      PROVE  \E s \in Slots : \E m \in ManifestType :
               Shows(f, p, s, m) /\ m.rev = r /\ m.run = BaseAt(f, r).runs[p]
  <2> DEFINE s == CHOOSE s \in SlotsAt(f, p, r) : TRUE
             m == Manifest(f, p, s)
  <2>1. s \in SlotsAt(f, p, r)
    BY Zenon
  <2>2. BaseAt(f, r).runs[p] = m.run
    BY Zenon DEF BaseAt
  <2>3. s \in ManifestSlots(f, p) /\ m.rev = r
    BY <2>1, SlotsShown, Zenon DEF SlotsAt
  <2>4. s \in Slots /\ Shows(f, p, s, m) /\ m \in ManifestType
    BY <2>3, FoundHeld, Zenon
  <2> QED BY <2>2, <2>3, <2>4, Zenon
<1> QED BY <1>1, <1>2, Zenon DEF BaseShown

\* A visible root can be admitted.
LEMMA ShownUsable ==
  ASSUME NEW f, log \in Seq(Requests), RootsInv(f, log), NEW p \in Profiles, NEW s \in Slots,
         NEW m, Shows(f, p, s, m)
  PROVE  s \in SlotsAt(f, p, m.rev)
<1>1. s \in Usable(f, p) /\ Manifest(f, p, s) = m /\ Held(f, log, m)
  BY SlotsShown, ShownHeld, Zenon
<1> QED BY <1>1, Zenon DEF SlotsAt, Held, Outs, Outcomes

LEMMA OpenStep ==
  ASSUME Inv, Open
  PROVE  Inv'
<1>1. /\ TypeInv /\ RootsInv(fs, log) /\ HiddenInv(fs) /\ OpenInv
      /\ log \in Seq(Requests) /\ Frontier \in Nat
  BY DEF Inv, TypeInv, Frontier
<1>2. PICK r \in Pairs(fs) : /\ Frontier - r <= MaxOverlay
                             /\ base' = BaseAt(fs, r)
                             /\ overlay' = Outcomes(r + 1, Frontier)
  BY Zenon DEF Open
<1>3. /\ mode = "down" /\ mode' = "open"
      /\ UNCHANGED <<world, fs, log, phase, merged, todo, rebased>>
  BY Zenon DEF Open
<1>4. r \in 1..Frontier /\ BaseShown(fs, base') /\ base'.rev = r
  BY <1>1, <1>2, PairsShown, Zenon DEF Pairs
<1>5. phase = "idle" /\ todo = <<>>
  BY <1>1, <1>3 DEF OpenInv
<1>6. overlay' = Outs(log, r + 1, Frontier)
  BY <1>2, Zenon DEF Outcomes, Outs
<1>7. TypeInv'
  BY <1>1, <1>3, Zenon DEF TypeInv, Frontier
<1>8. OpenInv'
  BY <1>2, <1>3, <1>4, <1>5, <1>6, Zenon DEF OpenInv, Frontier
<1> QED BY <1>1, <1>3, <1>7, <1>8, Zenon DEF Inv

LEMMA LookupIs ==
  ASSUME Inv, mode = "open", NEW p \in Profiles, NEW q
  PROVE  Lookup(p, q) = {r \in 1..Frontier : log[r] = q}
<1>1. /\ base.rev \in 1..Frontier /\ overlay = Outs(log, base.rev + 1, Frontier)
      /\ BaseShown(fs, base) /\ RootsInv(fs, log) /\ Frontier \in Nat /\ Once(log)
      /\ Frontier = Len(log)
  BY DEF Inv, TypeInv, OpenInv, Frontier
<1>2. Read(fs, Run(base.runs[p])).entries = Outs(log, 1, base.rev)
  BY <1>1, BaseRun, Zenon
<1>3. \A r : <<q, r>> \in overlay <=> r \in (base.rev + 1)..Frontier /\ log[r] = q
  BY <1>1, Zenon DEF Outs
<1>4. \A r : <<q, r>> \in Outs(log, 1, base.rev) <=> r \in 1..base.rev /\ log[r] = q
  BY Zenon DEF Outs
<1>5. \A r : r \in 1..Frontier <=> r \in 1..base.rev \/ r \in (base.rev + 1)..Frontier
  BY SMTT(30), <1>1
<1>6. \A r : ~(r \in 1..base.rev /\ r \in (base.rev + 1)..Frontier)
  BY <1>1
<1>7. \A i, j \in 1..Frontier : log[i] = log[j] => i = j
  BY <1>1, Zenon DEF Once
<1>8. ASSUME NEW r \in 1..Frontier
      PROVE  r \in Lookup(p, q) <=> log[r] = q
  <2>1. CASE log[r] = q /\ r \in (base.rev + 1)..Frontier
    BY <1>3, <2>1, Zenon DEF Lookup
  <2>2. CASE log[r] = q /\ r \in 1..base.rev
    <3>1. ~\E later \in 1..Frontier : <<q, later>> \in overlay
      BY <1>3, <1>6, <1>7, <2>2, Zenon
    <3> QED BY <1>2, <1>4, <2>2, <3>1, Zenon DEF Lookup
  <2>3. CASE log[r] # q
    BY <1>2, <1>3, <1>4, <2>3, Zenon DEF Lookup
  <2> QED BY <1>5, <2>1, <2>2, <2>3, Zenon
<1> QED BY <1>8, Zenon DEF Lookup

\* As many outcomes as revisions; OutsSize, at the end, shows it.
Sized ==
  \A lg : \A a, b \in Nat : a <= b => Cardinality(Outs(lg, a + 1, b)) = b - a

LEMMA LogGrows ==
  ASSUME NEW lg \in Seq(Requests), Once(lg), NEW q \in Requests, \A r \in 1..Len(lg) : lg[r] # q
  PROVE  LET new == Append(lg, q) IN
         new \in Seq(Requests) /\ Once(new) /\ Len(new) = Len(lg) + 1 /\ new[Len(lg) + 1] = q
<1> DEFINE new == Append(lg, q)
<1>1. /\ new \in Seq(Requests) /\ Len(new) = Len(lg) + 1 /\ new[Len(lg) + 1] = q
      /\ \A r \in 1..Len(lg) : new[r] = lg[r]
  OBVIOUS
<1> HIDE DEF new
<1>2. Once(new)
  BY SMTT(30), <1>1 DEF Once
<1> QED BY <1>1, <1>2, Zenon DEF new

\* A request that is admitted is not in the log, and the overlay has room.
LEMMA Admitted ==
  ASSUME Sized, Inv, mode = "open", NEW q \in Requests, Admits(q)
  PROVE  (\A r \in 1..Len(log) : log[r] # q) /\ Frontier + 1 - base.rev <= MaxOverlay
<1>1. "metadata" \in Profiles /\ MaxOverlay \in Nat
  BY DiskAssumption, Zenon
<1>2. Lookup("metadata", q) = {} /\ Cardinality(overlay) < MaxOverlay
  BY <1>1, Zenon DEF Admits
<1>3. \A r \in 1..Len(log) : log[r] # q
  BY <1>1, <1>2, LookupIs, Zenon DEF Frontier
<1>4. base.rev \in 1..Frontier /\ overlay = Outs(log, base.rev + 1, Frontier) /\ Frontier \in Nat
  BY DEF Inv, TypeInv, OpenInv, Frontier
<1>5. Cardinality(overlay) = Frontier - base.rev
  BY <1>4 DEF Sized
<1> QED BY SMTT(30), <1>1, <1>2, <1>3, <1>4, <1>5

\* The log takes a request that it does not hold yet.
LEMMA AppendInv ==
  ASSUME TypeInv, RootsInv(fs, log), HiddenInv(fs), NEW q \in Requests,
         \A r \in 1..Len(log) : log[r] # q,
         log' = Append(log, q), UNCHANGED <<world, fs, phase, rebased>>,
         mode' \in {"down", "open", "uncertain"}
  PROVE  TypeInv' /\ RootsInv(fs, log)' /\ HiddenInv(fs)' /\ Frontier' = Frontier + 1
<1>1. log \in Seq(Requests) /\ Once(log) /\ rebased \in 1..Len(log)
  BY Zenon DEF TypeInv, Frontier
<1>2. log' \in Seq(Requests) /\ Once(log') /\ Len(log') = Len(log) + 1
  BY <1>1, LogGrows, Zenon
<1>3. RootsInv(fs, log')
  BY <1>1, RootsAppend, Zenon
<1>4. rebased \in 1..Len(log')
  BY SMTT(30), <1>1, <1>2
<1>5. TypeInv'
  BY <1>2, <1>4, Zenon DEF TypeInv, Frontier
<1> QED BY <1>2, <1>3, <1>5, Zenon DEF Frontier

LEMMA CommitInv ==
  ASSUME Sized, Inv, NEW q \in Requests, Commit(q)
  PROVE  Inv'
<1>1. /\ TypeInv /\ RootsInv(fs, log) /\ HiddenInv(fs) /\ OpenInv
      /\ log \in Seq(Requests) /\ Frontier \in Nat /\ Frontier = Len(log)
  BY DEF Inv, TypeInv, Frontier
<1>2. /\ mode = "open" /\ phase = "idle" /\ Admits(q)
      /\ log' = Append(log, q) /\ overlay' = overlay \cup {<<q, Frontier + 1>>}
      /\ UNCHANGED <<world, fs, mode, base, required, phase, merged, todo, rebased>>
  BY Zenon DEF Commit
<1>3. (\A r \in 1..Len(log) : log[r] # q) /\ Frontier + 1 - base.rev <= MaxOverlay
  BY <1>2, Admitted, Zenon
<1>4. TypeInv' /\ RootsInv(fs, log)' /\ HiddenInv(fs)' /\ Frontier' = Frontier + 1
  BY <1>1, <1>2, <1>3, AppendInv, Zenon DEF TypeInv
<1>5. base.rev \in 1..Frontier /\ overlay = Outs(log, base.rev + 1, Frontier) /\ todo = <<>>
      /\ BaseShown(fs, base)
  BY <1>1, <1>2, Zenon DEF OpenInv
<1>6. overlay' = Outs(log', base.rev + 1, Frontier + 1)
  <2>1. Outs(log', base.rev + 1, Frontier) = Outs(log, base.rev + 1, Frontier)
    <3>1. base.rev + 1 \in Nat /\ base.rev + 1 >= 1 /\ Frontier <= Len(log)
      BY SMTT(30), <1>1, <1>5
    <3> QED BY SMTT(30), <1>1, <1>2, <3>1, OutsAppend
  <2>2. \A r : r \in (base.rev + 1)..(Frontier + 1)
                 <=> r \in (base.rev + 1)..Frontier \/ r = Frontier + 1
    BY SMTT(30), <1>1, <1>5
  <2>3. log'[Frontier + 1] = q
    BY SMTT(30), <1>1, <1>2
  <2> QED BY <1>2, <1>5, <2>1, <2>2, <2>3, Zenon DEF Outs
<1>7. base.rev \in 1..(Frontier + 1)
  BY SMTT(30), <1>1, <1>5
<1>8. OpenInv'
  <2>1. /\ base'.rev \in 1..Frontier' /\ overlay' = Outs(log', base'.rev + 1, Frontier')
        /\ Frontier' - base'.rev <= MaxOverlay /\ BaseShown(fs', base')
    <3>1. base' = base /\ fs' = fs
      BY <1>2, Zenon
    <3>2. base'.rev \in 1..Frontier' /\ overlay' = Outs(log', base'.rev + 1, Frontier')
      BY <1>4, <1>6, <1>7, <3>1, Zenon
    <3>3. Frontier' - base'.rev <= MaxOverlay
      BY SMTT(30), <1>1, <1>3, <1>4, <1>5, <3>1
    <3> QED BY <1>5, <3>1, <3>2, <3>3, Zenon
  <2>2. phase' = "idle" /\ todo' = <<>>
    BY <1>2, <1>5, Zenon
  <2> QED BY <2>1, <2>2, Zenon DEF OpenInv
<1> QED BY <1>4, <1>8, Zenon DEF Inv

LEMMA CommitUncertainInv ==
  ASSUME Sized, Inv, NEW q \in Requests, CommitUncertain(q)
  PROVE  Inv'
<1>1. /\ TypeInv /\ RootsInv(fs, log) /\ HiddenInv(fs) /\ OpenInv
  BY Zenon DEF Inv
<1>2. /\ mode = "open" /\ phase = "idle" /\ Admits(q) /\ mode' = "uncertain"
      /\ log' \in {log, Append(log, q)} /\ UNCHANGED <<world, fs, phase, merged, todo, rebased>>
  BY Zenon DEF CommitUncertain
<1>3. OpenInv'
  BY <1>1, <1>2, Zenon DEF OpenInv
<1>4. CASE log' = log
  BY <1>1, <1>2, <1>3, <1>4, Zenon DEF Inv, TypeInv, Frontier
<1>5. CASE log' = Append(log, q)
  <2>1. TypeInv' /\ RootsInv(fs, log)' /\ HiddenInv(fs)'
    BY <1>1, <1>2, <1>5, Admitted, AppendInv, Zenon
  <2> QED BY <1>3, <2>1, Zenon DEF Inv
<1> QED BY <1>2, <1>4, <1>5, Zenon

LEMMA LegacyCommitInv ==
  ASSUME Inv, NEW q \in Requests, LegacyCommit(q)
  PROVE  Inv'
<1>1. /\ TypeInv /\ RootsInv(fs, log) /\ HiddenInv(fs) /\ OpenInv
  BY Zenon DEF Inv
<1>2. /\ mode = "down" /\ ~Committed(q) /\ log' = Append(log, q)
      /\ UNCHANGED <<world, fs, mode, base, overlay, required, phase, merged, todo, rebased>>
  BY Zenon DEF LegacyCommit
<1>3. TypeInv' /\ RootsInv(fs, log)' /\ HiddenInv(fs)'
  BY <1>1, <1>2, AppendInv, Zenon DEF Committed, Frontier
<1>4. OpenInv'
  BY <1>1, <1>2, Zenon DEF OpenInv
<1> QED BY <1>3, <1>4, Zenon DEF Inv
=============================================================================
