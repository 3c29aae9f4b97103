-------------------------- MODULE CheckpointProofs --------------------------
(***************************************************************************)
(* Proofs about Checkpoint, for any number of chunks, publications and     *)
(* revisions, under failed calls, failed reads and crashes.                *)
(*                                                                         *)
(* The three properties are about what a reader finds or a crash may leave *)
(* now; a crash makes either of two directory entries and of two contents  *)
(* the only one.  So the invariant is about everything a manifest name may *)
(* hold (Contents): one manifest at most, whose chunks are synchronised    *)
(* with their entries, and never one generation in both slots.  What the   *)
(* calls of a publication have reached is PhaseInv.                        *)
(***************************************************************************)
EXTENDS Checkpoint, FileOpsProofs

-----------------------------------------------------------------------------
\* The payload of m is synchronised, chunks and entries.
Backed(f, s, m) == \A c \in 1..m.chunks : Solid(f, Chunk(s, c), Bits(m, c))

\* A slot's manifest name holds one manifest at most, and its payload is there.
SlotInv(f, s) ==
  /\ \A m \in Contents(f, Man(s)) :
       /\ m \in CpType /\ (s = "B" => m.gen > 1) /\ Backed(f, s, m)
  /\ \A m, k \in Contents(f, Man(s)) : m = k

\* The two slots, and that they never hold one generation.
SlotsInv(f) ==
  /\ Dir(f)
  /\ \A s \in Slots : SlotInv(f, s)
  /\ \A s, t \in Slots : s # t =>
       \A m \in Contents(f, Man(s)), k \in Contents(f, Man(t)) : m.gen # k.gen

Gone(f, n) == f.vis[n] = 0 /\ f.dur[n] = 0

\* The first k chunks of a publication are written and synchronised.
Filled(f, p, k) == \A c \in 1..k : Flushed(f, Chunk(p.slot, c), Bits(p.man, c))

Only(f, p) == Contents(f, Man(p.slot)) \subseteq {p.man}

\* What the calls q a publication p still makes say of the directory: the old
\* manifest, a chunk, the new manifest.
InvalidPhase(f, p, q) ==
  LET n == Man(p.slot) IN
  /\ p.part = 0
  /\ \/ q = <<Rm(n), DirSync(n)>>
     \/ q = <<DirSync(n)>> /\ f.vis[n] = 0
     \/ q = <<>> /\ Gone(f, n)

ChunkPhase(f, p, q) ==
  LET n == Chunk(p.slot, p.part)
      b == Bits(p.man, p.part) IN
  /\ p.part \in 1..p.man.chunks /\ Gone(f, Man(p.slot)) /\ Filled(f, p, p.part - 1)
  /\ \/ q = <<Rm(n), New(n, b), Sync(n)>>
     \/ q = <<New(n, b), Sync(n)>>
     \/ q = <<Sync(n)>> /\ Written(f, n, b)
     \/ q = <<>> /\ Flushed(f, n, b)

ManifestPhase(f, p, q) ==
  LET n == Man(p.slot)
      m == p.man IN
  /\ p.part = m.chunks + 1
  /\ \/ q = <<DirSync(n), New(n, m), Sync(n), DirSync(n)>> /\ Gone(f, n) /\ Filled(f, p, m.chunks)
     \/ q = <<New(n, m), Sync(n), DirSync(n)>> /\ Gone(f, n) /\ Backed(f, p.slot, m)
     \/ q = <<Sync(n), DirSync(n)>> /\ Written(f, n, m) /\ Only(f, p)
     \/ q = <<DirSync(n)>> /\ Flushed(f, n, m) /\ Only(f, p)
     \/ q = <<>> /\ Solid(f, n, m) /\ Only(f, p)

PhaseInv(f, p, q) == InvalidPhase(f, p, q) \/ ChunkPhase(f, p, q) \/ ManifestPhase(f, p, q)

\* A publication has a generation the slot it leaves alone does not hold.
FreshInv(f, p) ==
  /\ p \in PublicationType /\ (p.slot = "B" => p.man.gen > 1)
  /\ \A s \in Slots : s # p.slot => \A m \in Contents(f, Man(s)) : m.gen # p.man.gen

Inv ==
  /\ SlotsInv(fs)
  /\ objects \in Nat /\ frontier \in Nat
  /\ new # NoCp => FreshInv(fs, new) /\ PhaseInv(fs, new, todo)
  /\ new = NoCp => todo = <<>>
  /\ held # NoCp => held.slot \in Slots
  /\ told # NoCp => told \in CpType
  /\ StreamedIsHeld

\* Without failed reads and failed synchronisations: whatever a slot's manifest
\* name may hold is durable, and outside the slot of a publication one manifest
\* is as new as the newest that was returned.
Stable(f, s) == \A m \in Contents(f, Man(s)) : Solid(f, Man(s), m)

Covers(f, s, t) == \E m \in CpType : Solid(f, Man(s), m) /\ m.gen >= t.gen

DurableInv ==
  faults = {} =>
    /\ new = NoCp =>
         /\ \A s \in Slots : Stable(fs, s)
         /\ told # NoCp => \E s \in Slots : Covers(fs, s, told)
    /\ new # NoCp =>
         /\ \A s \in Slots : s # new.slot =>
              Stable(fs, s) /\ (told # NoCp => Covers(fs, s, told))
         /\ Len(todo) = 2 /\ new.part = 0 => Stable(fs, new.slot)

-----------------------------------------------------------------------------
(***************************************************************************)
(* Names and marks.                                                        *)
(***************************************************************************)
LEMMA NamesAre ==
  /\ \A s \in Slots : Man(s) \in Names
  /\ \A s \in Slots : \A c \in 1..MaxChunks : Chunk(s, c) \in Names
  /\ \A s, t \in Slots : Man(s) = Man(t) => s = t
  /\ \A s, t \in Slots : \A c \in 1..MaxChunks : Man(s) # Chunk(t, c)
  /\ \A s, t \in Slots : \A c, d \in 1..MaxChunks :
       Chunk(s, c) = Chunk(t, d) => s = t /\ c = d
<1>1. MaxChunks \in Nat /\ \A s \in Slots : \A c \in 0..MaxChunks : <<s, c>> \in Names
  BY CheckpointAssumption
<1> QED BY <1>1 DEF Man, Chunk

LEMMA MarksAre ==
  /\ \A m \in CpType : m \notin {Hole, Torn}
  /\ \A m \in CpType : \A c \in 1..m.chunks :
       c \in 1..MaxChunks /\ Bits(m, c) \notin {Hole, Torn}
<1>1. MaxChunks \in Nat /\ {Hole, Torn} \cap (CpType \cup ChunkType) = {}
  BY CheckpointAssumption
<1>2. ASSUME NEW m \in CpType, NEW c \in 1..m.chunks
      PROVE  c \in 1..MaxChunks /\ Bits(m, c) \in ChunkType
  BY SMTT(30), <1>1 DEF CpType, ChunkType, Bits
<1> QED BY <1>1, <1>2

-----------------------------------------------------------------------------
(***************************************************************************)
(* How a call passes on what is known of a name.                           *)
(***************************************************************************)
LEMMA AgreesPasses ==
  ASSUME NEW f, NEW g, NEW n, Agrees(f, g, n)
  PROVE  /\ Keeps(f, g, n)
         /\ \A x : Flushed(f, n, x) => Flushed(g, n, x)
         /\ Gone(f, n) => Gone(g, n)
BY AgreesKeeps DEF Agrees, Flushed, Written, Gone

LEMMA GoneIsEmpty ==
  ASSUME NEW f, NEW n, Gone(f, n)
  PROVE  Contents(f, n) = {}
BY ContentsIs DEF Gone

\* The slots are well when no manifest appears and the chunks of each one that
\* is left stay.
LEMMA SlotsKept ==
  ASSUME NEW f, NEW g, SlotsInv(f), Dir(g),
         \A s \in Slots : Contents(g, Man(s)) \subseteq Contents(f, Man(s)),
         \A s \in Slots : \A m \in Contents(g, Man(s)) : \A c \in 1..m.chunks :
           Stays(f, g, Chunk(s, c))
  PROVE  SlotsInv(g)
<1>1. ASSUME NEW s \in Slots, NEW m \in Contents(g, Man(s))
      PROVE  m \in CpType /\ (s = "B" => m.gen > 1) /\ Backed(g, s, m)
  <2>1. m \in CpType /\ (s = "B" => m.gen > 1) /\ Backed(f, s, m)
    BY DEF SlotsInv, SlotInv
  <2> QED BY <2>1 DEF Backed, Stays
<1>2. \A s \in Slots : SlotInv(g, s)
  BY <1>1 DEF SlotsInv, SlotInv
<1> QED BY <1>2 DEF SlotsInv

LEMMA AllKept ==
  ASSUME NEW f, NEW g, SlotsInv(f), Dir(g),
         \A n \in Names : Keeps(f, g, n)
  PROVE  SlotsInv(g)
<1>1. \A s \in Slots : Contents(g, Man(s)) \subseteq Contents(f, Man(s))
  BY NamesAre DEF Keeps
<1>2. ASSUME NEW s \in Slots, NEW m \in Contents(g, Man(s)), NEW c \in 1..m.chunks
      PROVE  Stays(f, g, Chunk(s, c))
  <2>1. m \in CpType
    BY <1>1 DEF SlotsInv, SlotInv
  <2> QED BY <2>1, NamesAre, MarksAre DEF Keeps
<1> QED BY <1>1, <1>2, SlotsKept

\* The new manifest appears over its payload.
LEMMA SlotsGain ==
  ASSUME NEW f, NEW g, SlotsInv(f), Dir(g), NEW p, FreshInv(f, p),
         Backed(f, p.slot, p.man), Contents(g, Man(p.slot)) \subseteq {p.man},
         \A n \in Names : n # Man(p.slot) => Keeps(f, g, n)
  PROVE  SlotsInv(g)
<1>1. p.slot \in Slots /\ p.man \in CpType
  BY DEF FreshInv, PublicationType
<1>2. \A s \in Slots : \A c \in 1..MaxChunks : Stays(f, g, Chunk(s, c))
  BY <1>1, NamesAre, Zenon DEF Keeps
<1>3. \A s \in Slots : s # p.slot => Contents(g, Man(s)) \subseteq Contents(f, Man(s))
  BY <1>1, NamesAre DEF Keeps
<1>4. ASSUME NEW s \in Slots, NEW m \in Contents(g, Man(s))
      PROVE  m \in CpType /\ (s = "B" => m.gen > 1) /\ Backed(g, s, m)
  <2>1. m \in CpType /\ (s = "B" => m.gen > 1) /\ Backed(f, s, m)
    BY <1>1, <1>3 DEF SlotsInv, SlotInv, FreshInv
  <2>2. \A c \in 1..m.chunks : c \in 1..MaxChunks
    BY <2>1, MarksAre, Zenon
  <2> QED BY <1>2, <2>1, <2>2 DEF Backed, Stays
<1>5. ASSUME NEW s \in Slots, NEW m \in Contents(g, Man(s)), NEW k \in Contents(g, Man(s))
      PROVE  m = k
  BY <1>3 DEF SlotsInv, SlotInv
<1>6. ASSUME NEW s \in Slots, NEW t \in Slots, s # t,
             NEW m \in Contents(g, Man(s)), NEW k \in Contents(g, Man(t))
      PROVE  m.gen # k.gen
  <2>1. CASE s = p.slot
    BY <1>3, <1>6, <2>1 DEF FreshInv
  <2>2. CASE t = p.slot
    BY <1>3, <1>6, <2>2 DEF FreshInv
  <2>3. CASE s # p.slot /\ t # p.slot
    BY <1>3, <1>6, <2>3, Zenon DEF SlotsInv
  <2> QED BY <2>1, <2>2, <2>3
<1>7. \A s \in Slots : SlotInv(g, s)
  BY <1>4, <1>5 DEF SlotInv
<1> QED BY <1>6, <1>7 DEF SlotsInv

\* What a call of the publication p leaves alone: the other slot.
Apart(f, g, p) ==
  \A s \in Slots : s # p.slot => Keeps(f, g, Man(s))

LEMMA FreshKept ==
  ASSUME NEW f, NEW g, NEW p, FreshInv(f, p), Apart(f, g, p)
  PROVE  FreshInv(g, p)
BY DEF FreshInv, Apart, Keeps

\* What a call leaves, for each of the three phases.
Goes(f, g, p, q) == SlotsInv(g) /\ Apart(f, g, p) /\ PhaseInv(g, p, q)

-----------------------------------------------------------------------------
(***************************************************************************)
(* The calls of a publication, one by one.                                 *)
(***************************************************************************)
\* invalidate_slot: the old manifest goes, before anything under it does.
LEMMA InvalidStep ==
  ASSUME NEW f, SlotsInv(f), NEW p, FreshInv(f, p),
         NEW q, InvalidPhase(f, p, q), q # <<>>
  PROVE  Goes(f, Apply(f, Head(q)), p, Tail(q))
<1> DEFINE n == Man(p.slot)
           g == Apply(f, Head(q))
<1>1. p.slot \in Slots /\ p.man \in CpType /\ n \in Names /\ Dir(f)
  BY NamesAre DEF FreshInv, PublicationType, SlotsInv
<1>2. /\ p.part = 0
      /\ q = <<Rm(n), DirSync(n)>> \/ (q = <<DirSync(n)>> /\ f.vis[n] = 0)
  BY DEF InvalidPhase
<1>3. \A s \in Slots : s # p.slot => Man(s) \in Names /\ Man(s) # n
  BY <1>1, NamesAre
<1>4. \A s \in Slots : \A c \in 1..MaxChunks : Chunk(s, c) \in Names /\ Chunk(s, c) # n
  BY <1>1, NamesAre
<1> HIDE DEF n
<1>5. CASE q = <<Rm(n), DirSync(n)>>
  <2>1. g = Apply(f, Rm(n)) /\ Tail(q) = <<DirSync(n)>>
    BY <1>5, Unqueue2, Zenon
  <2>2. /\ Dir(g) /\ g.vis[n] = 0 /\ Contents(g, n) \subseteq Contents(f, n)
        /\ \A m \in Names : m # n => Agrees(f, g, m)
    BY <1>1, <2>1, RmDoes, Zenon
  <2> HIDE DEF g
  <2>3. Apart(f, g, p)
    BY <1>3, <2>2, AgreesPasses DEF Apart
  <2>4. \A s \in Slots : Contents(g, Man(s)) \subseteq Contents(f, Man(s))
    BY <2>2, <2>3 DEF Apart, Keeps, n
  <2>5. ASSUME NEW s \in Slots, NEW m \in Contents(g, Man(s)), NEW c \in 1..m.chunks
        PROVE  Stays(f, g, Chunk(s, c))
    <3>1. m \in CpType
      BY <2>4 DEF SlotsInv, SlotInv
    <3>2. c \in 1..MaxChunks
      BY <3>1, MarksAre
    <3> QED BY <1>4, <2>2, <3>2, AgreesPasses DEF Keeps
  <2>6. SlotsInv(g)
    BY <2>2, <2>4, <2>5, SlotsKept, Zenon
  <2>7. InvalidPhase(g, p, Tail(q))
    BY <1>2, <2>1, <2>2 DEF InvalidPhase, n
  <2> QED BY <2>3, <2>6, <2>7 DEF Goes, PhaseInv, g
<1>6. CASE q = <<DirSync(n)>> /\ f.vis[n] = 0
  <2>1. g = Apply(f, DirSync(n)) /\ Tail(q) = <<>>
    BY <1>6, Unqueue1, Zenon
  <2>2. /\ Dir(g) /\ g.vis = f.vis /\ g.dur = f.vis
        /\ \A m \in Names : Keeps(f, g, m)
    BY <1>1, <2>1, DirSyncDoes, Zenon
  <2> HIDE DEF g
  <2>3. Apart(f, g, p) /\ SlotsInv(g)
    BY SMTT(30), <1>3, <2>2, AllKept DEF Apart
  <2>4. InvalidPhase(g, p, Tail(q))
    BY SMTT(30), <1>2, <1>6, <2>1, <2>2 DEF InvalidPhase, Gone, n
  <2> QED BY <2>3, <2>4 DEF Goes, PhaseInv, g
<1> QED BY <1>2, <1>5, <1>6, Zenon

\* publish_chunk: no manifest names the chunks of the slot.
LEMMA ChunkStep ==
  ASSUME NEW f, SlotsInv(f), NEW p, FreshInv(f, p),
         NEW q, ChunkPhase(f, p, q), q # <<>>, Possible(f, Head(q))
  PROVE  Goes(f, Apply(f, Head(q)), p, Tail(q))
<1> DEFINE n == Chunk(p.slot, p.part)
           b == Bits(p.man, p.part)
           g == Apply(f, Head(q))
<1>1. p.slot \in Slots /\ p.man \in CpType /\ Dir(f) /\ p.part \in 1..p.man.chunks
  BY DEF FreshInv, PublicationType, SlotsInv, ChunkPhase
<1>2. /\ Gone(f, Man(p.slot)) /\ Filled(f, p, p.part - 1)
      /\ \/ q = <<Rm(n), New(n, b), Sync(n)>>
         \/ q = <<New(n, b), Sync(n)>>
         \/ q = <<Sync(n)>> /\ Written(f, n, b)
  BY Zenon DEF ChunkPhase
<1>3. p.part \in 1..MaxChunks /\ n \in Names
  BY <1>1, NamesAre, MarksAre
<1>4. \A s \in Slots : Man(s) \in Names /\ Man(s) # n
  BY <1>1, <1>3, NamesAre, Zenon
<1>5. \A s \in Slots : \A c \in 1..MaxChunks :
        Chunk(s, c) \in Names /\ (s # p.slot \/ c # p.part => Chunk(s, c) # n)
  BY <1>1, <1>3, NamesAre
<1>6. \A c \in 1..(p.part - 1) : c \in 1..MaxChunks /\ c # p.part
  BY <1>3, CheckpointAssumption
<1> HIDE DEF n, b
\* A call that touches no name but n.
<1>7. ASSUME NEW h, Dir(h), \A m \in Names : m # n => Agrees(f, h, m)
      PROVE  SlotsInv(h) /\ Apart(f, h, p) /\ Gone(h, Man(p.slot)) /\ Filled(h, p, p.part - 1)
  <2>1. \A s \in Slots : Keeps(f, h, Man(s))
    BY <1>4, <1>7, AgreesPasses
  <2>2. Gone(h, Man(p.slot))
    BY <1>1, <1>2, <1>4, <1>7, AgreesPasses, Zenon
  <2>3. Contents(h, Man(p.slot)) = {}
    BY <2>2, GoneIsEmpty, Zenon
  <2>4. ASSUME NEW s \in Slots, NEW m \in Contents(h, Man(s)), NEW c \in 1..m.chunks
        PROVE  Stays(f, h, Chunk(s, c))
    <3>1. m \in CpType /\ s # p.slot
      BY <2>1, <2>3 DEF SlotsInv, SlotInv, Keeps
    <3>2. c \in 1..MaxChunks
      BY <3>1, MarksAre
    <3> QED BY SMTT(30), <1>5, <1>7, <3>1, <3>2, AgreesPasses DEF Keeps
  <2>5. SlotsInv(h)
    BY SMTT(30), <1>7, <2>1, <2>4, SlotsKept DEF Keeps
  <2>6. Filled(h, p, p.part - 1)
    BY SMTT(30), <1>1, <1>2, <1>5, <1>6, <1>7, AgreesPasses DEF Filled
  <2> QED BY <2>1, <2>2, <2>5, <2>6, Zenon DEF Apart
<1>8. CASE q = <<Rm(n), New(n, b), Sync(n)>>
  <2>1. g = Apply(f, Rm(n)) /\ Tail(q) = <<New(n, b), Sync(n)>>
    BY <1>8, Unqueue3, Zenon
  <2>2. Dir(g) /\ \A m \in Names : m # n => Agrees(f, g, m)
    BY <1>1, <1>3, <2>1, RmDoes, Zenon
  <2> HIDE DEF g
  <2>3. SlotsInv(g) /\ Apart(f, g, p) /\ Gone(g, Man(p.slot)) /\ Filled(g, p, p.part - 1)
    BY SMTT(30), <1>7, <2>2
  <2>4. ChunkPhase(g, p, Tail(q))
    BY <1>1, <2>1, <2>3 DEF ChunkPhase, n, b
  <2> QED BY <2>3, <2>4 DEF Goes, PhaseInv, g
<1>9. CASE q = <<New(n, b), Sync(n)>>
  <2>1. g = Apply(f, New(n, b)) /\ Tail(q) = <<Sync(n)>> /\ Possible(f, New(n, b))
    BY <1>9, Unqueue2, Zenon
  <2>2. Dir(g) /\ Written(g, n, b) /\ \A m \in Names : m # n => Agrees(f, g, m)
    BY <1>1, <1>3, <2>1, NewDoes
  <2> HIDE DEF g
  <2>3. SlotsInv(g) /\ Apart(f, g, p) /\ Gone(g, Man(p.slot)) /\ Filled(g, p, p.part - 1)
    BY <1>7, <2>2, Zenon
  <2>4. ChunkPhase(g, p, Tail(q))
    BY <1>1, <2>1, <2>2, <2>3, Zenon DEF ChunkPhase, n, b
  <2> QED BY <2>3, <2>4 DEF Goes, PhaseInv, g
<1>10. CASE q = <<Sync(n)>> /\ Written(f, n, b)
  <2>1. g = Apply(f, Sync(n)) /\ Tail(q) = <<>> /\ f.vis[n] # 0
    BY <1>10, Unqueue1, Zenon DEF Written
  <2>2. /\ Dir(g) /\ g.vis = f.vis /\ g.dur = f.dur
        /\ \A m \in Names : Keeps(f, g, m)
        /\ Flushed(g, n, b)
        /\ \A m \in Names : \A x : Flushed(f, m, x) => Flushed(g, m, x)
    BY <1>1, <1>3, <1>10, <2>1, SyncDoes, Zenon
  <2> HIDE DEF g
  <2>3. SlotsInv(g) /\ Apart(f, g, p) /\ Gone(g, Man(p.slot))
    BY <1>2, <1>4, <2>2, AllKept, Zenon DEF Apart, Gone
  <2>4. Filled(g, p, p.part - 1)
    BY <1>1, <1>2, <1>5, <1>6, <2>2, Zenon DEF Filled
  <2>5. ChunkPhase(g, p, Tail(q))
    BY <1>1, <2>1, <2>2, <2>3, <2>4, Zenon DEF ChunkPhase, n, b
  <2> QED BY <2>3, <2>5, Zenon DEF Goes, PhaseInv, g
<1> QED BY <1>2, <1>8, <1>9, <1>10, Zenon

\* The end of publish_stream: the entries of the chunks are durable before the
\* manifest is created.
LEMMA ManifestStep ==
  ASSUME NEW f, SlotsInv(f), NEW p, FreshInv(f, p),
         NEW q, ManifestPhase(f, p, q), q # <<>>, Possible(f, Head(q))
  PROVE  Goes(f, Apply(f, Head(q)), p, Tail(q))
<1> DEFINE n == Man(p.slot)
           m == p.man
           g == Apply(f, Head(q))
<1>1. p.slot \in Slots /\ m \in CpType /\ n \in Names /\ Dir(f)
  BY NamesAre, Zenon DEF FreshInv, PublicationType, SlotsInv
<1>2. /\ p.part = m.chunks + 1
      /\ \/ q = <<DirSync(n), New(n, m), Sync(n), DirSync(n)>> /\ Gone(f, n) /\ Filled(f, p, m.chunks)
         \/ q = <<New(n, m), Sync(n), DirSync(n)>> /\ Gone(f, n) /\ Backed(f, p.slot, m)
         \/ q = <<Sync(n), DirSync(n)>> /\ Written(f, n, m) /\ Only(f, p)
         \/ q = <<DirSync(n)>> /\ Flushed(f, n, m) /\ Only(f, p)
  BY DEF ManifestPhase
<1>3. \A s \in Slots : s # p.slot => Man(s) \in Names /\ Man(s) # n
  BY <1>1, NamesAre, Zenon
<1>4. \A c \in 1..m.chunks : Chunk(p.slot, c) \in Names /\ Chunk(p.slot, c) # n
  BY <1>1, NamesAre, MarksAre
<1> HIDE DEF n, m
<1>5. CASE q = <<DirSync(n), New(n, m), Sync(n), DirSync(n)>> /\ Gone(f, n) /\ Filled(f, p, m.chunks)
  <2>1. g = Apply(f, DirSync(n)) /\ Tail(q) = <<New(n, m), Sync(n), DirSync(n)>>
    BY <1>5, Unqueue4
  <2>2. /\ Dir(g) /\ g.vis = f.vis /\ g.dur = f.vis
        /\ \A k \in Names : Keeps(f, g, k) /\ \A x : Flushed(f, k, x) => Solid(g, k, x)
    BY <1>1, <2>1, DirSyncDoes, Zenon
  <2> HIDE DEF g
  <2>3. SlotsInv(g) /\ Apart(f, g, p) /\ Gone(g, n)
    BY <1>3, <1>5, <2>2, AllKept, Zenon DEF Apart, Gone
  <2>4. Backed(g, p.slot, m)
    BY <1>4, <1>5, <2>2, Zenon DEF Backed, Filled, m
  <2>5. ManifestPhase(g, p, Tail(q))
    BY <1>2, <2>1, <2>3, <2>4, Zenon DEF ManifestPhase, n, m
  <2> QED BY <2>3, <2>5 DEF Goes, PhaseInv, g
<1>6. CASE q = <<New(n, m), Sync(n), DirSync(n)>> /\ Gone(f, n) /\ Backed(f, p.slot, m)
  <2>1. g = Apply(f, New(n, m)) /\ Tail(q) = <<Sync(n), DirSync(n)>> /\ Possible(f, New(n, m))
    BY <1>6, Unqueue3, Zenon
  <2>2. /\ Dir(g) /\ Written(g, n, m) /\ Contents(g, n) \subseteq {m}
        /\ \A k \in Names : k # n => Agrees(f, g, k)
    BY <1>1, <1>6, <2>1, NewDoes DEF Gone
  <2> HIDE DEF g
  <2>3. \A k \in Names : k # n => Keeps(f, g, k)
    BY <2>2, AgreesPasses, Zenon
  <2>4. SlotsInv(g) /\ Apart(f, g, p)
    BY <1>3, <1>6, <2>2, <2>3, SlotsGain, Zenon DEF Apart, n, m
  <2>5. ManifestPhase(g, p, Tail(q))
    BY <1>2, <2>1, <2>2, Zenon DEF ManifestPhase, Only, n, m
  <2> QED BY <2>4, <2>5, Zenon DEF Goes, PhaseInv, g
<1>7. CASE q = <<Sync(n), DirSync(n)>> /\ Written(f, n, m) /\ Only(f, p)
  <2>1. g = Apply(f, Sync(n)) /\ Tail(q) = <<DirSync(n)>> /\ f.vis[n] # 0
    BY <1>7, Unqueue2, Zenon DEF Written
  <2>2. Dir(g) /\ Flushed(g, n, m) /\ \A k \in Names : Keeps(f, g, k)
    BY <1>1, <1>7, <2>1, SyncDoes, Zenon
  <2> HIDE DEF g
  <2>3. SlotsInv(g) /\ Apart(f, g, p)
    BY <1>3, <2>2, AllKept, Zenon DEF Apart
  <2>4. Only(g, p)
    BY <1>1, <1>7, <2>2, Zenon DEF Only, Keeps, n
  <2>5. ManifestPhase(g, p, Tail(q))
    BY <1>2, <2>1, <2>2, <2>4, Zenon DEF ManifestPhase, n, m
  <2> QED BY <2>3, <2>5, Zenon DEF Goes, PhaseInv, g
<1>8. CASE q = <<DirSync(n)>> /\ Flushed(f, n, m) /\ Only(f, p)
  <2>1. g = Apply(f, DirSync(n)) /\ Tail(q) = <<>>
    BY SMTT(30), <1>8, Unqueue1
  <2>2. Dir(g) /\ Solid(g, n, m) /\ \A k \in Names : Keeps(f, g, k)
    BY <1>1, <1>8, <2>1, DirSyncDoes
  <2> HIDE DEF g
  <2>3. SlotsInv(g) /\ Apart(f, g, p)
    BY <1>3, <2>2, AllKept, Zenon DEF Apart
  <2>4. Only(g, p)
    BY <1>1, <1>8, <2>2, Zenon DEF Only, Keeps, n
  <2>5. ManifestPhase(g, p, Tail(q))
    BY <1>2, <2>1, <2>2, <2>4, Zenon DEF ManifestPhase, n, m
  <2> QED BY <2>3, <2>5, Zenon DEF Goes, PhaseInv, g
<1> QED BY <1>2, <1>5, <1>6, <1>7, <1>8, Zenon

LEMMA CallGoes ==
  ASSUME NEW f, SlotsInv(f), NEW p, FreshInv(f, p),
         NEW q, PhaseInv(f, p, q), q # <<>>, Possible(f, Head(q))
  PROVE  Goes(f, Apply(f, Head(q)), p, Tail(q))
BY InvalidStep, ChunkStep, ManifestStep DEF PhaseInv

LEMMA ChunkHeads ==
  ASSUME NEW n, NEW b
  PROVE  /\ Head(<<Rm(n), New(n, b), Sync(n)>>) = Rm(n)
         /\ Head(<<New(n, b), Sync(n)>>) = New(n, b)
         /\ Head(<<Sync(n)>>) = Sync(n)
BY Unqueue1, Unqueue2, Unqueue3

LEMMA ManifestHeads ==
  ASSUME NEW n, NEW m
  PROVE  /\ Head(<<DirSync(n), New(n, m), Sync(n), DirSync(n)>>) = DirSync(n)
         /\ Head(<<New(n, m), Sync(n), DirSync(n)>>) = New(n, m)
         /\ Head(<<Sync(n), DirSync(n)>>) = Sync(n)
         /\ Head(<<DirSync(n)>>) = DirSync(n)
BY SMTT(30), Unqueue1, Unqueue2, Unqueue3, Unqueue4

LEMMA PlacesAre ==
  ASSUME NEW n, NEW d
  PROVE  Rm(n).at = n /\ New(n, d).at = n /\ Sync(n).at = n /\ DirSync(n).at = n
BY DEF Rm, New, Sync, DirSync, Cmd

\* Every call is about a name of the directory.
LEMMA CallsAreOnNames ==
  ASSUME NEW f, NEW p, FreshInv(f, p),
         NEW q, PhaseInv(f, p, q), q # <<>>
  PROVE  Head(q).at \in Names
<1> DEFINE n == Man(p.slot)
           c == Chunk(p.slot, p.part)
<1>1. p.slot \in Slots /\ p.man \in CpType
  BY Zenon DEF FreshInv, PublicationType
<1>2. n \in Names
  BY <1>1, NamesAre, Zenon
<1>3. CASE InvalidPhase(f, p, q)
  <2>1. Head(q) \in {Rm(n), DirSync(n)}
    BY <1>3, Unqueue1, Unqueue2, Zenon DEF InvalidPhase
  <2> QED BY <1>2, <2>1, PlacesAre, Zenon
<1>4. CASE ChunkPhase(f, p, q)
  <2>1. c \in Names
    BY <1>1, <1>4, NamesAre, MarksAre DEF ChunkPhase
  <2>2. Head(q) \in {Rm(c), New(c, Bits(p.man, p.part)), Sync(c)}
    BY <1>4, ChunkHeads, Zenon DEF ChunkPhase
  <2> QED BY <2>1, <2>2, PlacesAre, Zenon
<1>5. CASE ManifestPhase(f, p, q)
  <2>1. Head(q) \in {DirSync(n), New(n, p.man), Sync(n)}
    BY <1>5, ManifestHeads, Zenon DEF ManifestPhase
  <2> QED BY <1>2, <2>1, PlacesAre, Zenon
<1> QED BY <1>3, <1>4, <1>5 DEF PhaseInv

-----------------------------------------------------------------------------
(***************************************************************************)
(* What a reader finds.                                                    *)
(***************************************************************************)
LEMMA ReadsAre ==
  ASSUME NEW f, NEW n
  PROVE  /\ Read(f, n) \notin {Hole, Torn} => Read(f, n) \in Contents(f, n)
         /\ Safe(f, n) \notin {Hole, Torn} => Safe(f, n) \in Contents(f, n)
         /\ \A x : Solid(f, n, x) => Read(f, n) = x /\ Safe(f, n) = x
BY ContentsIs, Zenon DEF Read, Safe, Solid, Flushed, Written

LEMMA SolidIsHeld ==
  ASSUME NEW f, NEW n, NEW x, Solid(f, n, x), x \notin {Hole, Torn}
  PROVE  x \in Contents(f, n)
BY ContentsIs, Zenon DEF Solid, Flushed, Written

\* A slot whose manifest can be read is a candidate.
LEMMA ValidIs ==
  ASSUME SlotsInv(fs), NEW s \in Slots
  PROVE  /\ Valid(fs, s) <=> Read(fs, Man(s)) \notin {Hole, Torn}
         /\ Valid(fs, s) => /\ Read(fs, Man(s)) \in Contents(fs, Man(s))
                            /\ Read(fs, Man(s)) \in CpType
<1> DEFINE m == Read(fs, Man(s))
<1>1. ASSUME m \notin {Hole, Torn}
      PROVE  m \in Contents(fs, Man(s)) /\ m \in CpType /\ Whole(fs, s, m)
  <2>1. m \in Contents(fs, Man(s))
    BY <1>1, ReadsAre, Zenon
  <2>2. m \in CpType /\ Backed(fs, s, m)
    BY <2>1, Zenon DEF SlotsInv, SlotInv
  <2>3. Whole(fs, s, m)
    BY <2>2, ReadsAre, Zenon DEF Whole, Backed
  <2> QED BY <2>1, <2>2, <2>3, Zenon
<1> QED BY <1>1 DEF Valid

LEMMA NewestIs ==
  ASSUME SlotsInv(fs), NEW cands, cands \subseteq Slots, cands # {},
         \A s \in cands : Valid(fs, s)
  PROVE  /\ Newest(fs, cands) \in cands
         /\ \A t \in cands : Gen(fs, t) <= Gen(fs, Newest(fs, cands))
<1>1. \A s \in cands : Gen(fs, s) \in Nat
  BY ValidIs DEF Gen, CpType
<1>2. \E s \in cands : \A t \in cands : Gen(fs, t) <= Gen(fs, s)
  <2>1. PICK s \in cands : TRUE
    BY Zenon
  <2>2. CASE \A t \in cands : Gen(fs, t) <= Gen(fs, s)
    BY <2>2
  <2>3. CASE ~\A t \in cands : Gen(fs, t) <= Gen(fs, s)
    <3>1. PICK t \in cands : ~(Gen(fs, t) <= Gen(fs, s))
      BY <2>3, Zenon
    <3>2. t # s /\ Gen(fs, s) <= Gen(fs, t) /\ Gen(fs, t) <= Gen(fs, t)
      BY <1>1, <3>1
    <3>3. \A r \in cands : r = s \/ r = t
      BY <3>2, Zenon DEF Slots
    <3> QED BY <3>2, <3>3
  <2> QED BY <2>2, <2>3
<1> QED BY <1>2, Zenon DEF Newest

\* Where a publication goes and which generation it gets: one above the slot it
\* leaves alone, or the first one.
LEMMA TargetIs ==
  ASSUME SlotsInv(fs), NEW cands, cands \subseteq Slots, \A s \in cands : Valid(fs, s)
  PROVE  /\ Target(fs, cands) \in Slots
         /\ \/ cands = {} /\ Target(fs, cands) = "A" /\ NextGeneration(fs, cands) = 1
            \/ /\ cands # {} /\ Newest(fs, cands) \in cands
               /\ Target(fs, cands) # Newest(fs, cands)
               /\ \A s \in Slots : s # Target(fs, cands) => s = Newest(fs, cands)
               /\ NextGeneration(fs, cands) = Read(fs, Man(Newest(fs, cands))).gen + 1
<1>1. CASE cands = {}
  BY <1>1, Zenon DEF Target, NextGeneration, Slots
<1>2. CASE cands # {}
  <2> DEFINE n == Newest(fs, cands)
  <2>1. n \in cands /\ n \in Slots
    BY <1>2, NewestIs
  <2>2. NextGeneration(fs, cands) = Read(fs, Man(n)).gen + 1
    BY <1>2, Zenon DEF NextGeneration, Gen
  <2>3. Target(fs, cands) = CHOOSE s \in Slots : s # n
    BY <1>2, Zenon DEF Target
  <2> HIDE DEF n
  <2>4. \E s \in Slots : s # n
    BY DEF Slots
  <2>5. Target(fs, cands) \in Slots /\ Target(fs, cands) # n
    BY <2>3, <2>4
  <2>6. \A s \in Slots : s # Target(fs, cands) => s = n
    BY <2>1, <2>5, Zenon DEF Slots
  <2> QED BY SMTT(30), <1>2, <2>1, <2>2, <2>5, <2>6 DEF n
<1> QED BY <1>1, <1>2, Zenon

-----------------------------------------------------------------------------
(***************************************************************************)
(* The inductive step, action by action.                                   *)
(***************************************************************************)
LEMMA PublishInv ==
  ASSUME Inv, NEW k \in 1..MaxChunks, Publish(k)
  PROVE  Inv' /\ new' # NoCp
<1>1. PICK seen \in Readable :
        LET cands == Candidates(fs, seen)
            m == [obj |-> objects + 1, gen |-> NextGeneration(fs, cands),
                  rev |-> frontier, chunks |-> k]
        IN /\ new' = [slot |-> Target(fs, cands), man |-> m, part |-> 0]
           /\ todo' = InvalidateSlot(fs, Target(fs, cands))
  BY Zenon DEF Publish
<1> DEFINE cands == Candidates(fs, seen)
           gen == NextGeneration(fs, cands)
           m == [obj |-> objects + 1, gen |-> gen, rev |-> frontier, chunks |-> k]
           s == Target(fs, cands)
           p == [slot |-> s, man |-> m, part |-> 0]
<1>2. new' = p /\ todo' = InvalidateSlot(fs, s)
  BY <1>1, Zenon
<1>3. /\ objects' = objects + 1 /\ new = NoCp
      /\ UNCHANGED <<faults, fs, frontier, held, told, got>>
  BY DEF Publish
<1>4. SlotsInv(fs) /\ objects \in Nat /\ frontier \in Nat
  BY DEF Inv
<1>5. cands \subseteq Slots /\ \A t \in cands : Valid(fs, t)
  BY Zenon DEF Candidates, Readable
<1> HIDE DEF cands
<1>6. /\ s \in Slots
      /\ \/ cands = {} /\ s = "A" /\ gen = 1
         \/ /\ cands # {} /\ Newest(fs, cands) \in cands
            /\ s # Newest(fs, cands)
            /\ \A t \in Slots : t # s => t = Newest(fs, cands)
            /\ gen = Read(fs, Man(Newest(fs, cands))).gen + 1
  BY <1>4, <1>5, TargetIs, Zenon
<1> HIDE DEF gen, s
<1>7. gen \in Nat \ {0} /\ (s = "B" => gen > 1)
  <2>1. CASE cands = {}
    BY SMTT(30), <1>6, <2>1
  <2>2. CASE cands # {}
    <3>1. Read(fs, Man(Newest(fs, cands))) \in CpType
      BY SMTT(30), <1>4, <1>5, <1>6, <2>2, ValidIs
    <3>2. Read(fs, Man(Newest(fs, cands))).gen \in Nat \ {0}
      BY <3>1, Zenon DEF CpType
    <3> QED BY SMTT(30), <1>6, <2>2, <3>2
  <2> QED BY SMTT(30), <2>1, <2>2
<1>8. p \in PublicationType
  BY <1>4, <1>6, <1>7 DEF PublicationType, CpType
<1>9. ASSUME NEW t \in Slots, t # s, NEW x \in Contents(fs, Man(t))
      PROVE  x.gen # gen
  <2>1. x \in CpType /\ (t = "B" => x.gen > 1)
    BY <1>4 DEF SlotsInv, SlotInv
  <2>2. x.gen \in Nat
    BY <2>1 DEF CpType
  <2>3. CASE cands = {}
    <3>1. t = "B" /\ gen = 1
      BY <1>6, <1>9, <2>3 DEF Slots
    <3> QED BY <2>1, <2>2, <3>1
  <2>4. CASE cands # {}
    <3>1. t \in cands /\ gen = Read(fs, Man(t)).gen + 1
      BY <1>6, <1>9, <2>4, Zenon
    <3>2. Read(fs, Man(t)) \in Contents(fs, Man(t))
      BY <1>4, <1>5, <3>1, ValidIs, Zenon
    <3>3. x = Read(fs, Man(t))
      BY <1>4, <3>2 DEF SlotsInv, SlotInv
    <3> QED BY <2>2, <3>1, <3>3
  <2> QED BY <2>3, <2>4, Zenon
<1>10. FreshInv(fs, p)
  BY <1>7, <1>8, <1>9, Zenon DEF FreshInv
<1>11. PhaseInv(fs, p, InvalidateSlot(fs, s))
  <2> DEFINE n == Man(s)
  <2>1. CASE Exists(fs, n)
    BY <2>1, JoinShort, Zenon DEF InvalidateSlot, Remove, PhaseInv, InvalidPhase
  <2>2. CASE ~Exists(fs, n)
    BY <2>2, JoinShort, Zenon DEF InvalidateSlot, Remove, PhaseInv, InvalidPhase, Exists
  <2> QED BY <2>1, <2>2, Zenon
<1>12. new' # NoCp
  BY <1>2, <1>8, CheckpointAssumption
<1> HIDE DEF p
<1> QED BY SMTT(30), <1>2, <1>3, <1>4, <1>10, <1>11, <1>12 DEF Inv, StreamedIsHeld

\* publish_stream goes on once the calls of a part are made.
LEMMA NextPartInv ==
  ASSUME Inv, NextPart
  PROVE  Inv'
<1> DEFINE p == new
           r == new'
<1>1. /\ p # NoCp /\ todo = <<>> /\ p.part <= p.man.chunks
      /\ r = [p EXCEPT !.part = @ + 1]
      /\ todo' = IF p.part < p.man.chunks THEN PublishChunk(fs, p.slot, p.man, p.part + 1)
                 ELSE PublishManifest(p.slot, p.man)
      /\ UNCHANGED <<faults, fs, objects, frontier, held, told, got>>
  BY DEF NextPart
<1>2. SlotsInv(fs) /\ FreshInv(fs, p) /\ PhaseInv(fs, p, <<>>)
  BY <1>1, Zenon DEF Inv
<1>3. p \in PublicationType
  BY <1>2, Zenon DEF FreshInv
<1>4. p.part \in Nat /\ p.man.chunks \in 1..MaxChunks /\ MaxChunks \in Nat
  BY <1>3, CheckpointAssumption DEF PublicationType, CpType
<1>5. r.slot = p.slot /\ r.man = p.man /\ r.part = p.part + 1 /\ r \in PublicationType
  BY <1>1, <1>3, <1>4 DEF PublicationType
<1>6. FreshInv(fs, r) /\ r # NoCp
  BY <1>2, <1>5, CheckpointAssumption, Zenon DEF FreshInv
<1> DEFINE a == Chunk(p.slot, p.part + 1)
           b == Bits(p.man, p.part + 1)
<1>7. Gone(fs, Man(p.slot)) /\ Filled(fs, p, p.part)
  <2>1. CASE InvalidPhase(fs, p, <<>>)
    BY <1>4, <2>1 DEF InvalidPhase, Filled
  <2>2. CASE ChunkPhase(fs, p, <<>>)
    <3>1. Filled(fs, p, p.part - 1) /\ Flushed(fs, Chunk(p.slot, p.part), Bits(p.man, p.part))
          /\ Gone(fs, Man(p.slot))
      BY <2>2, Zenon DEF ChunkPhase
    <3>2. \A c \in 1..p.part : c \in 1..(p.part - 1) \/ c = p.part
      BY <1>4
    <3> QED BY <3>1, <3>2, Zenon DEF Filled
  <2>3. CASE ManifestPhase(fs, p, <<>>)
    BY SMTT(30), <1>1, <1>4, <2>3 DEF ManifestPhase
  <2> QED BY <1>2, <2>1, <2>2, <2>3, Zenon DEF PhaseInv
<1>8. \A k : Filled(fs, r, k) <=> Filled(fs, p, k)
  BY <1>5 DEF Filled
<1>9. CASE p.part < p.man.chunks
  <2>1. todo' \in {<<Rm(a), New(a, b), Sync(a)>>, <<New(a, b), Sync(a)>>}
    BY <1>1, <1>9, JoinShort, Zenon DEF PublishChunk, Remove
  <2>2. r.part \in 1..r.man.chunks /\ r.part - 1 = p.part
    BY <1>4, <1>5, <1>9
  <2>3. Gone(fs, Man(r.slot)) /\ Filled(fs, r, r.part - 1)
    BY <1>5, <1>7, <1>8, <2>2
  <2>4. ChunkPhase(fs, r, todo')
    BY <1>5, <2>1, <2>2, <2>3, Zenon DEF ChunkPhase
  <2> QED BY <1>1, <1>6, <2>4, Zenon DEF Inv, PhaseInv, StreamedIsHeld
<1>10. CASE ~(p.part < p.man.chunks)
  <2>1. todo' = PublishManifest(r.slot, r.man) /\ p.part = p.man.chunks
    BY SMTT(30), <1>1, <1>4, <1>5, <1>10
  <2>2. r.part = r.man.chunks + 1 /\ Gone(fs, Man(r.slot)) /\ Filled(fs, r, r.man.chunks)
    BY <1>5, <1>7, <1>8, <2>1
  <2>3. ManifestPhase(fs, r, todo')
    BY <2>1, <2>2, Zenon DEF ManifestPhase, PublishManifest
  <2> QED BY <1>1, <1>6, <2>3 DEF Inv, PhaseInv, StreamedIsHeld
<1> QED BY <1>9, <1>10, Zenon

\* While there are calls to make, a publication is under way.
LEMMA Underway ==
  ASSUME Inv, todo # <<>>
  PROVE  new # NoCp /\ SlotsInv(fs) /\ FreshInv(fs, new) /\ PhaseInv(fs, new, todo)
BY Zenon DEF Inv

LEMMA StepGoes ==
  ASSUME Inv, Step
  PROVE  Goes(fs, fs', new, todo')
<1>1. todo # <<>> /\ Possible(fs, Head(todo)) /\ fs' = Apply(fs, Head(todo)) /\ todo' = Tail(todo)
  BY Zenon DEF Step
<1> QED BY <1>1, Underway, CallGoes, Zenon

LEMMA StepInv ==
  ASSUME Inv, Step
  PROVE  Inv'
<1>1. UNCHANGED <<faults, new, objects, frontier, held, told, got>> /\ new # NoCp
      /\ FreshInv(fs, new)
  BY Underway, Zenon DEF Step
<1>2. SlotsInv(fs') /\ Apart(fs, fs', new) /\ PhaseInv(fs', new, todo')
  BY StepGoes DEF Goes
<1>3. FreshInv(fs', new)
  BY <1>1, <1>2, FreshKept, Zenon
<1> QED BY <1>1, <1>2, <1>3, Zenon DEF Inv, StreamedIsHeld

\* A failed call and a crash lose nothing durable and leave no new manifest.
LEMMA StepFailsKeeps ==
  ASSUME Inv, StepFails
  PROVE  Dir(fs') /\ \A n \in Names : Keeps(fs, fs', n)
<1>1. todo # <<>> /\ fs' \in Failed(fs, Head(todo))
  BY DEF StepFails
<1>2. Dir(fs) /\ Head(todo).at \in Names
  BY <1>1, Underway, CallsAreOnNames, Zenon DEF SlotsInv
<1> QED BY <1>1, <1>2, FailedIsDir, FailedKeeps

LEMMA CrashLeaves ==
  ASSUME Inv, Crash
  PROVE  /\ Dir(fs') /\ fs'.vis = fs'.dur /\ fs'.data = fs'.safe
         /\ \A n \in Names : Keeps(fs, fs', n)
BY CrashKeeps, Zenon DEF Crash, Inv, SlotsInv

LEMMA EndInv ==
  ASSUME Inv, StepFails \/ Crash
  PROVE  Inv'
<1>1. Dir(fs') /\ \A n \in Names : Keeps(fs, fs', n)
  BY StepFailsKeeps, CrashLeaves
<1>2. SlotsInv(fs')
  BY <1>1, AllKept DEF Inv
<1>3. /\ todo' = <<>> /\ new' = NoCp /\ UNCHANGED <<faults, objects, frontier, told, got>>
      /\ held' \in {held, NoCp}
  BY Zenon DEF StepFails, Crash
<1> QED BY <1>2, <1>3, Zenon DEF Inv, StreamedIsHeld

LEMMA ProducerFailsInv ==
  ASSUME Inv, ProducerFails
  PROVE  Inv'
<1>1. /\ todo = <<>> /\ new' = NoCp
      /\ UNCHANGED <<faults, fs, todo, objects, frontier, held, told, got>>
  BY Zenon DEF ProducerFails
<1> QED BY <1>1, Zenon DEF Inv, StreamedIsHeld

LEMMA PublishedInv ==
  ASSUME Inv, Published
  PROVE  Inv'
<1>1. /\ new # NoCp /\ todo = <<>> /\ told' = new.man /\ new' = NoCp
      /\ UNCHANGED <<faults, fs, todo, objects, frontier, held, got>>
  BY DEF Published
<1>2. new.man \in CpType
  BY <1>1, Zenon DEF Inv, FreshInv, PublicationType
<1> QED BY <1>1, <1>2, Zenon DEF Inv, StreamedIsHeld

\* stream_checkpoint_candidate: the manifest is the candidate's, and every chunk
\* under it is bound to its object.
LEMMA StreamInv ==
  ASSUME Inv, Stream
  PROVE  Inv'
<1> DEFINE s == held.slot
           m == Read(fs, Man(s))
<1>1. /\ held # NoCp /\ m = held.man /\ Valid(fs, s)
      /\ got' = [want |-> held.man.obj, gave |-> Read(fs, Chunk(s, 1)).obj]
      /\ UNCHANGED <<faults, fs, todo, new, objects, frontier, held, told>>
  BY Zenon DEF Stream
<1>2. s \in Slots /\ SlotsInv(fs)
  BY SMTT(30), <1>1 DEF Inv
<1>3. m \in CpType /\ Whole(fs, s, m)
  BY <1>1, <1>2, ValidIs DEF Valid
<1>4. 1 \in 1..m.chunks
  BY <1>3 DEF CpType
<1>5. Read(fs, Chunk(s, 1)).obj = m.obj
  <2>1. Read(fs, Chunk(s, 1)) = Bits(m, 1)
    BY <1>3, <1>4, Zenon DEF Whole
  <2>2. Bits(m, 1).obj = m.obj
    BY Zenon DEF Bits
  <2> QED BY Zenon, <2>1, <2>2
<1>6. StreamedIsHeld'
  BY <1>1, <1>5 DEF StreamedIsHeld
<1> QED BY <1>1, <1>6, Zenon DEF Inv

LEMMA QuietInv ==
  ASSUME Inv, Commit \/ Discover \/ UNCHANGED vars
  PROVE  Inv'
<1>1. CASE Commit
  BY <1>1 DEF Inv, Commit, StreamedIsHeld
<1>2. CASE Discover
  <2>1. held'.slot \in Slots /\ UNCHANGED <<faults, fs, todo, new, objects, frontier, told, got>>
    BY <1>2 DEF Discover, Candidates, Readable
  <2> QED BY <2>1, Zenon DEF Inv, StreamedIsHeld
<1>3. CASE UNCHANGED vars
  BY <1>3, Zenon DEF Inv, vars, StreamedIsHeld
<1> QED BY SMTT(30), <1>1, <1>2, <1>3

LEMMA InitInv ==
  ASSUME Init
  PROVE  Inv
<1>1. fs = NoFiles(Names) /\ new = NoCp
  BY Zenon DEF Init
<1>2. Dir(fs) /\ \A n \in Names : Gone(fs, n)
  BY <1>1, Zenon DEF NoFiles, Dir, Shape, Gone
<1>3. \A s \in Slots : Contents(fs, Man(s)) = {}
  BY <1>2, NamesAre, GoneIsEmpty, Zenon
<1> QED BY <1>2, <1>3, Zenon DEF Init, Inv, SlotsInv, SlotInv, StreamedIsHeld

LEMMA NextInv ==
  ASSUME Inv, [Next]_vars
  PROVE  Inv'
<1>1. CASE \E n \in 1..MaxChunks : Publish(n)
  BY <1>1, PublishInv, Zenon
<1>2. CASE NextPart \/ Step \/ StepFails \/ ProducerFails \/ Published
  BY <1>2, NextPartInv, StepInv, EndInv, ProducerFailsInv, PublishedInv, Zenon
<1>3. CASE Stream \/ Crash
  BY <1>3, StreamInv, EndInv, Zenon
<1>4. CASE Commit \/ Discover \/ UNCHANGED vars
  BY <1>4, QuietInv, Zenon
<1> QED BY <1>1, <1>2, <1>3, <1>4, Zenon DEF Next

-----------------------------------------------------------------------------
(***************************************************************************)
(* What is durable as long as no read and no synchronisation fails.        *)
(***************************************************************************)
LEMMA StableKept ==
  ASSUME NEW f, NEW g, NEW s, Keeps(f, g, Man(s))
  PROVE  /\ Stable(f, s) => Stable(g, s)
         /\ \A t : Covers(f, s, t) => Covers(g, s, t)
BY Zenon DEF Stable, Covers, Keeps, Stays

\* After a crash the two sides of the directory are one.
LEMMA SettledIsStable ==
  ASSUME NEW f, NEW s, f.vis = f.dur, f.data = f.safe
  PROVE  Stable(f, s)
BY ContentsIs DEF Stable, Solid, Flushed, Written

\* A slot that readers find stable holds what they find.
LEMMA StableCovers ==
  ASSUME SlotsInv(fs), NEW s \in Slots, Valid(fs, s), Stable(fs, s), NEW t,
         Gen(fs, s) >= t.gen
  PROVE  Covers(fs, s, t)
BY ValidIs, Zenon DEF Stable, Covers, Gen

LEMMA CoversIsValid ==
  ASSUME SlotsInv(fs), NEW s \in Slots, NEW t, Covers(fs, s, t)
  PROVE  Valid(fs, s) /\ Gen(fs, s) >= t.gen
<1>1. PICK m \in CpType : Solid(fs, Man(s), m) /\ m.gen >= t.gen
  BY Zenon DEF Covers
<1>2. Read(fs, Man(s)) = m /\ m \notin {Hole, Torn}
  BY <1>1, ReadsAre, MarksAre, Zenon
<1> QED BY <1>1, <1>2, ValidIs, Zenon DEF Gen

\* The slot that is left alone is the newest one.
LEMMA PublishDurable ==
  ASSUME Inv, DurableInv, NEW k \in 1..MaxChunks, Publish(k)
  PROVE  DurableInv'
<1> SUFFICES ASSUME faults = {} PROVE DurableInv'
  BY Zenon DEF DurableInv, Publish
<1>1. /\ new = NoCp /\ UNCHANGED <<faults, fs, told>> /\ SlotsInv(fs)
      /\ told # NoCp => told \in CpType
  BY Zenon DEF Publish, Inv
<1>2. PICK seen \in Readable :
        \E m : new' = [slot |-> Target(fs, Candidates(fs, seen)), man |-> m, part |-> 0]
  BY Zenon DEF Publish
<1> DEFINE cands == Candidates(fs, seen)
<1>3. cands = {s \in Slots : Valid(fs, s)}
  BY Zenon DEF Candidates, Readable
<1> HIDE DEF cands
<1>4. /\ \A s \in Slots : Stable(fs, s)
      /\ told # NoCp => \E s \in Slots : Covers(fs, s, told)
  BY <1>1, Zenon DEF DurableInv
<1>5. new'.slot = Target(fs, cands)
  BY <1>2 DEF cands
<1>6. ASSUME told # NoCp, NEW s \in Slots, s # new'.slot
      PROVE  Covers(fs, s, told)
  <2>1. PICK t \in Slots : Covers(fs, t, told)
    BY <1>4, <1>6, Zenon
  <2>2. Valid(fs, t) /\ Gen(fs, t) >= told.gen
    BY <1>1, <2>1, CoversIsValid, Zenon
  <2>3. t \in cands /\ cands # {} /\ cands \subseteq Slots /\ \A r \in cands : Valid(fs, r)
    BY <1>3, <2>2
  <2>4. s = Newest(fs, cands) /\ s \in cands
    BY <1>1, <1>5, <1>6, <2>3, TargetIs, Zenon
  <2>5. Gen(fs, t) <= Gen(fs, s)
    BY <1>1, <2>3, <2>4, NewestIs, Zenon
  <2>6. Gen(fs, t) \in Nat /\ Gen(fs, s) \in Nat /\ told.gen \in Nat
    BY SMTT(30), <1>1, <1>6, <2>3, <2>4, ValidIs DEF Gen, CpType
  <2>7. Gen(fs, s) >= told.gen
    BY SMTT(30), <2>2, <2>5, <2>6
  <2> QED BY <1>1, <1>4, <2>3, <2>4, <2>7, StableCovers, Zenon
<1>7. new'.slot \in Slots
  BY <1>1, <1>3, <1>5, TargetIs
<1>8. new' # NoCp
  BY PublishInv, Zenon
<1> QED BY <1>1, <1>4, <1>6, <1>7, <1>8, Zenon DEF DurableInv

LEMMA NextPartDurable ==
  ASSUME Inv, DurableInv, NextPart
  PROVE  DurableInv'
<1>1. /\ new # NoCp /\ UNCHANGED <<faults, fs, told>>
      /\ new' = [new EXCEPT !.part = @ + 1]
  BY DEF NextPart
<1>2. new \in PublicationType
  BY <1>1 DEF Inv, FreshInv
<1>3. new'.slot = new.slot /\ new'.part # 0 /\ new' \in PublicationType
  BY <1>1, <1>2 DEF PublicationType
<1>4. new' # NoCp
  BY <1>3, CheckpointAssumption, Zenon
<1> QED BY <1>1, <1>3, <1>4, Zenon DEF DurableInv

\* After remove_file two calls are never left of the first part.
LEMMA StepDurable ==
  ASSUME Inv, DurableInv, Step
  PROVE  DurableInv'
<1>1. UNCHANGED <<faults, new, told>> /\ new # NoCp /\ PhaseInv(fs, new, todo)
      /\ todo # <<>> /\ todo' = Tail(todo) /\ FreshInv(fs, new)
  BY Underway DEF Step
<1>2. \A s \in Slots : s # new.slot => Keeps(fs, fs', Man(s))
  BY StepGoes, Zenon DEF Goes, Apart
<1>3. ~(Len(todo') = 2 /\ new.part = 0)
  <2>1. CASE InvalidPhase(fs, new, todo)
    <3> DEFINE n == Man(new.slot)
    <3>1. todo = <<Rm(n), DirSync(n)>> \/ todo = <<DirSync(n)>>
      BY <1>1, <2>1, Zenon DEF InvalidPhase
    <3>2. Tail(<<Rm(n), DirSync(n)>>) = <<DirSync(n)>> /\ Tail(<<DirSync(n)>>) = <<>>
      BY Unqueue1, Unqueue2
    <3>3. todo' = <<DirSync(n)>> \/ todo' = <<>>
      BY <1>1, <3>1, <3>2, Zenon
    <3>4. Len(<<DirSync(n)>>) = 1 /\ Len(<<>>) = 0
      BY Zenon
    <3> QED BY SMTT(30), <3>3, <3>4
  <2>2. CASE ChunkPhase(fs, new, todo)
    BY <2>2 DEF ChunkPhase
  <2>3. CASE ManifestPhase(fs, new, todo)
    <3>1. new.part = new.man.chunks + 1 /\ new.man.chunks \in Nat
      BY <1>1, <2>3 DEF ManifestPhase, FreshInv, PublicationType, CpType
    <3> QED BY SMTT(30), <3>1
  <2> QED BY <1>1, <2>1, <2>2, <2>3, Zenon DEF PhaseInv
<1> QED BY <1>1, <1>2, <1>3, StableKept, Zenon DEF DurableInv

\* Where a call can fail, the slot of the publication holds its old manifest or
\* none.
LEMMA StepFailsDurable ==
  ASSUME Inv, DurableInv, StepFails
  PROVE  DurableInv'
<1> SUFFICES ASSUME faults = {} PROVE DurableInv'
  BY DEF DurableInv, StepFails
<1>1. /\ todo # <<>> /\ Head(todo).op \notin {"sync", "dirsync"}
      /\ new' = NoCp /\ UNCHANGED <<faults, told>>
  BY Zenon DEF StepFails
<1>2. new # NoCp /\ FreshInv(fs, new) /\ PhaseInv(fs, new, todo) /\ new.slot \in Slots
  BY <1>1, Underway, Zenon DEF FreshInv, PublicationType
<1>3. \A s \in Slots : Keeps(fs, fs', Man(s))
  BY StepFailsKeeps, NamesAre, Zenon
<1>4. \A n : Sync(n).op = "sync" /\ DirSync(n).op = "dirsync"
  BY Zenon DEF Sync, DirSync, Cmd
<1>5. Stable(fs, new.slot)
  <2> DEFINE n == Man(new.slot)
  <2>1. CASE InvalidPhase(fs, new, todo)
    <3>1. todo = <<Rm(n), DirSync(n)>>
      BY <1>1, <1>4, <2>1, Unqueue1, Zenon DEF InvalidPhase
    <3> QED BY <1>2, <2>1, <3>1, Zenon DEF DurableInv, InvalidPhase
  <2>2. CASE ChunkPhase(fs, new, todo)
    BY <2>2, GoneIsEmpty, Zenon DEF ChunkPhase, Stable
  <2>3. CASE ManifestPhase(fs, new, todo)
    <3>1. Gone(fs, n)
      BY <1>1, <1>4, <2>3, ManifestHeads, Zenon DEF ManifestPhase
    <3> QED BY <3>1, GoneIsEmpty DEF Stable
  <2> QED BY <1>2, <2>1, <2>2, <2>3, Zenon DEF PhaseInv
<1>6. \A s \in Slots : Stable(fs, s)
  BY <1>2, <1>5, Zenon DEF DurableInv
<1>7. told # NoCp => \E s \in Slots : Covers(fs, s, told)
  <2>1. \E s \in Slots : s # new.slot
    BY Zenon DEF Slots
  <2> QED BY <1>2, <2>1 DEF DurableInv
<1> QED BY <1>1, <1>3, <1>6, <1>7, StableKept, Zenon DEF DurableInv

\* Between the parts, up to the last chunk, the slot holds no manifest.
LEMMA ProducerFailsDurable ==
  ASSUME Inv, DurableInv, ProducerFails
  PROVE  DurableInv'
<1>1. /\ new # NoCp /\ todo = <<>> /\ new.part <= new.man.chunks
      /\ new' = NoCp /\ UNCHANGED <<faults, fs, told>>
  BY Zenon DEF ProducerFails
<1>2. FreshInv(fs, new) /\ PhaseInv(fs, new, <<>>)
  BY <1>1, Zenon DEF Inv
<1>3. new.slot \in Slots /\ new.part \in Nat /\ new.man.chunks \in Nat
  BY <1>2 DEF FreshInv, PublicationType, CpType
<1>4. Gone(fs, Man(new.slot))
  <2>1. CASE InvalidPhase(fs, new, <<>>)
    BY <2>1, Zenon DEF InvalidPhase
  <2>2. CASE ChunkPhase(fs, new, <<>>)
    BY <2>2, Zenon DEF ChunkPhase
  <2>3. ~ManifestPhase(fs, new, <<>>)
    BY <1>1, <1>3 DEF ManifestPhase
  <2> QED BY <1>2, <2>1, <2>2, <2>3, Zenon DEF PhaseInv
<1>5. Stable(fs, new.slot)
  BY <1>4, GoneIsEmpty DEF Stable
<1>6. \E s \in Slots : s # new.slot
  BY Zenon DEF Slots
<1> QED BY <1>1, <1>5, <1>6, Zenon DEF DurableInv

LEMMA CrashDurable ==
  ASSUME Inv, DurableInv, Crash
  PROVE  DurableInv'
<1> SUFFICES ASSUME faults = {} PROVE DurableInv'
  BY Zenon DEF DurableInv, Crash
<1>1. new' = NoCp /\ UNCHANGED <<faults, told>>
  BY Zenon DEF Crash
<1>2. \A s \in Slots : Keeps(fs, fs', Man(s)) /\ Stable(fs', s)
  BY CrashLeaves, SettledIsStable, NamesAre, Zenon
<1>3. told # NoCp => \E s \in Slots : Covers(fs, s, told)
  <2>1. CASE new = NoCp
    BY <2>1, Zenon DEF DurableInv
  <2>2. CASE new # NoCp
    <3>1. \E s \in Slots : s # new.slot
      BY Zenon DEF Slots
    <3> QED BY <2>2, <3>1 DEF DurableInv
  <2> QED BY <2>1, <2>2, Zenon
<1> QED BY <1>1, <1>2, <1>3, StableKept, Zenon DEF DurableInv

\* The returned manifest is the one of its slot.
LEMMA PublishedDurable ==
  ASSUME Inv, DurableInv, Published
  PROVE  DurableInv'
<1>1. /\ new # NoCp /\ todo = <<>> /\ new.part > new.man.chunks
      /\ told' = new.man /\ new' = NoCp /\ UNCHANGED <<faults, fs>>
  BY Zenon DEF Published
<1>2. FreshInv(fs, new) /\ PhaseInv(fs, new, <<>>)
  BY <1>1, Zenon DEF Inv
<1>3. /\ new.slot \in Slots /\ new.man \in CpType /\ new.part \in Nat
      /\ new.man.chunks \in Nat /\ new.man.chunks > 0 /\ new.man.gen \in Nat
  BY SMTT(30), <1>2 DEF FreshInv, PublicationType, CpType
<1>4. ManifestPhase(fs, new, <<>>)
  BY <1>1, <1>2, <1>3 DEF PhaseInv, InvalidPhase, ChunkPhase
<1>5. Solid(fs, Man(new.slot), new.man) /\ Only(fs, new)
  BY <1>4, Zenon DEF ManifestPhase
<1>6. Stable(fs, new.slot) /\ Covers(fs, new.slot, new.man)
  BY <1>3, <1>5 DEF Stable, Only, Covers
<1> QED BY <1>1, <1>3, <1>6, Zenon DEF DurableInv

LEMMA QuietDurable ==
  ASSUME DurableInv, Commit \/ Discover \/ Stream \/ UNCHANGED vars
  PROVE  DurableInv'
<1>1. UNCHANGED <<faults, fs, todo, new, told>>
  BY Zenon DEF Commit, Discover, Stream, vars
<1> QED BY <1>1, Zenon DEF DurableInv

LEMMA InitDurable ==
  ASSUME Init
  PROVE  DurableInv
<1>1. \A n \in Names : Gone(fs, n)
  BY Zenon DEF Init, NoFiles, Gone
<1>2. \A s \in Slots : Stable(fs, s)
  BY <1>1, NamesAre, GoneIsEmpty, Zenon DEF Stable
<1> QED BY <1>2, Zenon DEF Init, DurableInv

LEMMA NextDurable ==
  ASSUME Inv, DurableInv, [Next]_vars
  PROVE  DurableInv'
<1>1. CASE \E n \in 1..MaxChunks : Publish(n)
  BY <1>1, PublishDurable, Zenon
<1>2. CASE NextPart \/ Step \/ StepFails \/ ProducerFails \/ Published
  BY <1>2, NextPartDurable, StepDurable, StepFailsDurable, ProducerFailsDurable,
     PublishedDurable, Zenon
<1>3. CASE Crash
  BY <1>3, CrashDurable
<1>4. CASE Commit \/ Discover \/ Stream \/ UNCHANGED vars
  BY <1>4, QuietDurable, Zenon
<1> QED BY <1>1, <1>2, <1>3, <1>4, Zenon DEF Next

LEMMA Terminal ==
  ASSUME SlotsInv(fs)
  PROVE  ManifestIsTerminal
<1>1. ASSUME NEW s \in Slots, Safe(fs, Man(s)) \notin {Hole, Torn},
             NEW c \in 1..Safe(fs, Man(s)).chunks
      PROVE  Safe(fs, Chunk(s, c)) = Bits(Safe(fs, Man(s)), c)
  <2>1. Safe(fs, Man(s)) \in Contents(fs, Man(s))
    BY <1>1, ReadsAre, Zenon
  <2>2. Solid(fs, Chunk(s, c), Bits(Safe(fs, Man(s)), c))
    BY <1>1, <2>1, Zenon DEF SlotsInv, SlotInv, Backed
  <2> QED BY <2>2, ReadsAre, Zenon
<1>2. ~SplitBrain(fs, Candidates(fs, Slots))
  <2> SUFFICES ASSUME NEW s \in Slots, NEW t \in Slots, s # t, Valid(fs, s), Valid(fs, t),
                      Gen(fs, s) = Gen(fs, t)
               PROVE  FALSE
    BY Zenon DEF SplitBrain, Candidates
  <2>1. /\ Read(fs, Man(s)) \in Contents(fs, Man(s))
        /\ Read(fs, Man(t)) \in Contents(fs, Man(t))
    BY ValidIs, Zenon
  <2> QED BY <2>1, Zenon DEF SlotsInv, Gen
<1> QED BY <1>1, <1>2, Zenon DEF ManifestIsTerminal

LEMMA Survives ==
  ASSUME Inv, DurableInv
  PROVE  PublishedSurvives
<1> SUFFICES ASSUME faults = {}, told # NoCp
             PROVE  \E s \in Slots : Valid(fs, s) /\ Gen(fs, s) >= told.gen
  BY Zenon DEF PublishedSurvives
<1>1. \E s \in Slots : Covers(fs, s, told)
  <2>1. CASE new = NoCp
    BY <2>1, Zenon DEF DurableInv
  <2>2. CASE new # NoCp
    <3>1. \E s \in Slots : s # new.slot
      BY DEF Slots
    <3> QED BY <2>2, <3>1 DEF DurableInv
  <2> QED BY <2>1, <2>2, Zenon
<1> QED BY <1>1, CoversIsValid, Zenon DEF Inv

-----------------------------------------------------------------------------
(***************************************************************************)
(* The theorems.                                                           *)
(***************************************************************************)

\* In every reachable state the two slots, the publication that is under way and
\* the directory entries a crash may leave stand in the relation publish_stream
\* relies on (checkpoint.rs:286-436).
THEOREM SlotsAreKept == Spec => []Inv
<1>1. Init => Inv
  BY InitInv, Zenon
<1>2. Inv /\ [Next]_vars => Inv'
  BY NextInv
<1> QED BY <1>1, <1>2, PTL DEF Spec

\* A manifest that a crash leaves has its whole payload, and the slots never hold
\* two checkpoints of one generation: the order in which publish_stream removes,
\* writes and synchronises is enough, whichever call fails
\* (checkpoint.rs:286-436, 523-535).
THEOREM ManifestsAreTerminal == Spec => []ManifestIsTerminal
<1>1. Inv => ManifestIsTerminal
  BY Terminal DEF Inv
<1> QED BY <1>1, SlotsAreKept, PTL

\* A streamed candidate gives its own payload, whatever was published since it
\* was discovered (stream, checkpoint.rs:482-506).
THEOREM StreamsAreExact == Spec => []StreamedIsHeld
<1>1. Inv => StreamedIsHeld
  BY DEF Inv
<1> QED BY <1>1, SlotsAreKept, PTL

\* A returned publication is never lost to a later one: replacing the older slot
\* leaves a candidate that is as new (publish_stream, target selection,
\* checkpoint.rs:286-330).
THEOREM PublicationsSurvive == Spec => []PublishedSurvives
<1>1. Init => DurableInv
  BY InitDurable
<1>2. Inv /\ DurableInv /\ [Next]_vars => DurableInv'
  BY NextDurable
<1>3. Inv /\ DurableInv => PublishedSurvives
  BY Survives
<1> QED BY <1>1, <1>2, <1>3, SlotsAreKept, PTL DEF Spec
=============================================================================
