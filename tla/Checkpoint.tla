---------------------------- MODULE Checkpoint ----------------------------
(***************************************************************************)
(* The two-slot checkpoint cache of crates/uste-storage/src/checkpoint.rs: *)
(* a publication invalidates the manifest of the older slot, writes the    *)
(* payload chunks there and publishes a new manifest last.  Candidates are *)
(* the slots whose manifest and whole payload authenticate; the journal    *)
(* keeps the authority, so an unreadable slot is just not a candidate.     *)
(*                                                                         *)
(* A publication has a fresh object identity, which every chunk is bound   *)
(* to by its encryption context; payload digest and length are part of it. *)
(***************************************************************************)
EXTENDS FileOps

CONSTANTS
  NoCp,        \* no checkpoint
  MaxObjects,  \* bound: publications
  MaxChunks,   \* bound: chunks of a payload
  MaxRev,      \* bound: journal revisions
  FaultModels  \* the sets of errors that may pass in a behaviour: "read" of a
               \* slot, "sync" of a file

Slots == {"A", "B"}
Man(s) == <<s, 0>>
Chunk(s, c) == <<s, c>>

CpType == [obj : Nat, gen : Nat \ {0}, rev : Nat, chunks : 1..MaxChunks]
ChunkType == [obj : Nat, seq : Nat]
PublicationType == [slot : Slots, man : CpType, part : Nat]

\* The two slots have their names, and no marker is a manifest, a chunk or a
\* publication.
ASSUME CheckpointAssumption ==
  /\ MaxChunks \in Nat
  /\ \A s \in Slots : \A c \in 0..MaxChunks : <<s, c>> \in Names
  /\ {Hole, Torn} \cap (CpType \cup ChunkType) = {}
  /\ NoCp \notin PublicationType \cup CpType

VARIABLES
  faults,      \* the errors that may pass in this behaviour
  fs,          \* the database directory, the checkpoint files of it
  todo,        \* the file calls a part of the publication still makes
  new,         \* the publication: its slot, its manifest and the part it is at,
               \* 0 for the old manifest, then the chunks, then the manifest; or NoCp
  objects,     \* object identities drawn
  frontier,    \* the journal's frontier
  held,        \* a CheckpointStreamCandidate a reader keeps, or NoCp
  told,        \* history: the newest manifest a publication returned, or NoCp
  got          \* history: the last candidate streamed, and what was read

vars == <<faults, fs, todo, new, objects, frontier, held, told, got>>

Init ==
  /\ faults \in FaultModels
  /\ fs = NoFiles(Names) /\ todo = <<>> /\ new = NoCp /\ objects = 0 /\ frontier = 0
  /\ held = NoCp /\ told = NoCp /\ got = NoCp

-----------------------------------------------------------------------------
\* A chunk: its encryption binds it to the object and to its place.
Bits(m, c) == [obj |-> m.obj, seq |-> c]

\* visit_payload: every chunk is there, whole and bound to the object.
Whole(f, s, m) ==
  \A c \in 1..m.chunks : Read(f, Chunk(s, c)) = Bits(m, c)

\* read_manifest, discover_slot: the slot authenticates from end to end.
Valid(f, s) ==
  LET m == Read(f, Man(s)) IN m \notin {Hole, Torn} /\ Whole(f, s, m)

\* discover_candidates over the slots that could be read.
Candidates(f, seen) == {s \in seen : Valid(f, s)}
Gen(f, s) == Read(f, Man(s)).gen

\* Two candidates of one generation that are not the same checkpoint; equal
\* revisions have equal payloads.
SplitBrain(f, cands) ==
  \E s, t \in cands : /\ s # t /\ Gen(f, s) = Gen(f, t)
                      /\ Read(f, Man(s)).rev # Read(f, Man(t)).rev

Newest(f, cands) == CHOOSE s \in cands : \A t \in cands : Gen(f, t) <= Gen(f, s)

NextGeneration(f, cands) ==
  IF cands = {} THEN 1 ELSE Gen(f, Newest(f, cands)) + 1

\* Mutant: the newest slot is replaced.
TargetNewest(f, cands) == IF cands = {} THEN "A" ELSE Newest(f, cands)

\* The slot to replace: A, the other one, or the older one.
Target(f, cands) ==
  IF cands = {} THEN "A" ELSE CHOOSE s \in Slots : s # Newest(f, cands)

Remove(f, n) == IF Exists(f, n) THEN <<Rm(n)>> ELSE <<>>

\* The file calls of invalidate_slot; of publish_chunk.
InvalidateSlot(f, s) == Remove(f, Man(s)) \o <<DirSync(Man(s))>>

PublishChunk(f, s, m, c) ==
  Remove(f, Chunk(s, c)) \o <<New(Chunk(s, c), Bits(m, c)), Sync(Chunk(s, c))>>

\* Mutant: the directory is not synchronised before the manifest.
PublishManifestUnordered(s, m) == <<New(Man(s), m), Sync(Man(s)), DirSync(Man(s))>>

\* The end of publish_stream: the directory, then the manifest.
PublishManifest(s, m) ==
  <<DirSync(Man(s)), New(Man(s), m), Sync(Man(s)), DirSync(Man(s))>>

-----------------------------------------------------------------------------
\* The slots a call can read: a read that fails hides its slot.
Readable == IF "read" \in faults THEN SUBSET Slots ELSE {Slots}

\* The journal commits; only its frontier can be checkpointed.
Commit ==
  /\ new = NoCp /\ frontier < MaxRev /\ frontier' = frontier + 1
  /\ UNCHANGED <<faults, fs, todo, new, objects, held, told, got>>

\* publish_checkpoint up to its first file call; split brain is refused.
Publish(chunks) ==
  /\ new = NoCp /\ frontier > 0 /\ objects < MaxObjects
  /\ \E seen \in Readable :
       LET cands == Candidates(fs, seen)
           m == [obj |-> objects + 1, gen |-> NextGeneration(fs, cands),
                 rev |-> frontier, chunks |-> chunks]
       IN /\ ~SplitBrain(fs, cands)
          /\ new' = [slot |-> Target(fs, cands), man |-> m, part |-> 0]
          /\ todo' = InvalidateSlot(fs, Target(fs, cands))
  /\ objects' = objects + 1
  /\ UNCHANGED <<faults, fs, frontier, held, told, got>>

\* publish_stream goes on to the next chunk, or to the manifest.
NextPart ==
  /\ new # NoCp /\ todo = <<>> /\ new.part <= new.man.chunks
  /\ new' = [new EXCEPT !.part = @ + 1]
  /\ todo' = IF new.part < new.man.chunks
             THEN PublishChunk(fs, new.slot, new.man, new.part + 1)
             ELSE PublishManifest(new.slot, new.man)
  /\ UNCHANGED <<faults, fs, objects, frontier, held, told, got>>

Step ==
  /\ todo # <<>> /\ Possible(fs, Head(todo))
  /\ fs' = Apply(fs, Head(todo)) /\ todo' = Tail(todo)
  /\ UNCHANGED <<faults, new, objects, frontier, held, told, got>>

\* A file call fails: the publication returns early and the journal goes on.
StepFails ==
  /\ todo # <<>>
  /\ Head(todo).op \in {"sync", "dirsync"} => "sync" \in faults
  /\ fs' \in Failed(fs, Head(todo))
  /\ todo' = <<>> /\ new' = NoCp
  /\ UNCHANGED <<faults, objects, frontier, held, told, got>>

\* The payload producer fails, or gives more or fewer bytes than it announced.
ProducerFails ==
  /\ new # NoCp /\ todo = <<>> /\ new.part <= new.man.chunks
  /\ new' = NoCp
  /\ UNCHANGED <<faults, fs, todo, objects, frontier, held, told, got>>

Published ==
  /\ new # NoCp /\ todo = <<>> /\ new.part > new.man.chunks
  /\ told' = new.man /\ new' = NoCp
  /\ UNCHANGED <<faults, fs, todo, objects, frontier, held, got>>

\* checkpoint_stream_candidates: the caller keeps one of them.
Discover ==
  /\ new = NoCp
  /\ \E seen \in Readable :
       LET cands == Candidates(fs, seen) IN
       /\ ~SplitBrain(fs, cands)
       /\ \E s \in cands : held' = [slot |-> s, man |-> Read(fs, Man(s))]
  /\ UNCHANGED <<faults, fs, todo, new, objects, frontier, told, got>>

\* Mutant: the slot is streamed whatever manifest it holds by now.
StreamUnchecked ==
  /\ new = NoCp /\ held # NoCp /\ Valid(fs, held.slot)
  /\ got' = [want |-> held.man.obj, gave |-> Read(fs, Man(held.slot)).obj]
  /\ UNCHANGED <<faults, fs, todo, new, objects, frontier, held, told>>

\* stream_checkpoint_candidate, if it returns Ok: the manifest is unchanged and
\* the payload is read under it.
Stream ==
  /\ new = NoCp /\ held # NoCp
  /\ Read(fs, Man(held.slot)) = held.man /\ Valid(fs, held.slot)
  /\ got' = [want |-> held.man.obj, gave |-> Read(fs, Chunk(held.slot, 1)).obj]
  /\ UNCHANGED <<faults, fs, todo, new, objects, frontier, held, told>>

\* The process or the machine stops.
Crash ==
  /\ fs' \in Crashed(fs) /\ todo' = <<>> /\ new' = NoCp /\ held' = NoCp
  /\ UNCHANGED <<faults, objects, frontier, told, got>>

Next ==
  \/ Commit \/ \E n \in 1..MaxChunks : Publish(n)
  \/ NextPart \/ Step \/ StepFails \/ ProducerFails \/ Published
  \/ Discover \/ Stream \/ Crash

Spec == Init /\ [][Next]_vars

-----------------------------------------------------------------------------
(***************************************************************************)
(* Properties.                                                             *)
(***************************************************************************)

\* A checkpoint whose publication returned stays, or is succeeded by a newer
\* one, whatever later publication is interrupted where: reopening finds the
\* prior complete slot or the new one (checkpoint.rs:286-297).  A slot is chosen
\* from what can be read, so this needs that no synchronisation fails and no
\* read does.
PublishedSurvives ==
  faults = {} /\ told # NoCp => \E s \in Slots : Valid(fs, s) /\ Gen(fs, s) >= told.gen

\* A manifest is terminal: if a crash may leave one that decodes, it leaves its
\* whole payload too, so no reader meets a manifest without its chunks
\* (checkpoint.rs:391-392).  And the two slots never hold different checkpoints
\* of one generation, which every later publication and recovery would refuse
\* (checkpoint.rs:523-535).
ManifestIsTerminal ==
  /\ \A s \in Slots :
       LET m == Safe(fs, Man(s)) IN
       m \notin {Hole, Torn} => \A c \in 1..m.chunks : Safe(fs, Chunk(s, c)) = Bits(m, c)
  /\ ~SplitBrain(fs, Candidates(fs, Slots))

\* A candidate that is streamed after other publications gives its own payload
\* or nothing (stream, checkpoint.rs:482-506).
StreamedIsHeld == got # NoCp => got.want = got.gave
=============================================================================
