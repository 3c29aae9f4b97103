----------------------------- MODULE PackedStore ----------------------------
(***************************************************************************)
(* Packed trees under a journal (uste-storage, journal_packed_trees.rs and *)
(* journal_packed_trees/cache.rs).  A tree is a capability: the root,      *)
(* the commitment and the journal instance that proved its certificate.    *)
(* Batches stage new trees while older ones are read, directly or through  *)
(* a cache that its caller keeps across key sessions and reopens.          *)
(*                                                                         *)
(* Every tree is taken to be published, so that a reopened journal can     *)
(* admit it again; the publication itself is the subject of DiskCoordinator.*)
(* content is the map a tree stands for, kept to state the properties.     *)
(***************************************************************************)
EXTENDS PackedTree

(***************************************************************************)
(* Copy-on-write batches and complete validation of packed trees           *)
(* (uste-storage, packed_tree_batch.rs with plan.rs and emit.rs,           *)
(* packed_index_pack.rs, packed_tree_validation.rs).  A plan holds an      *)
(* arena of dirty nodes; a link leads to a dirty node or to a record of    *)
(* an earlier pack.  The nodes still reachable in the end are written      *)
(* children first.                                                         *)
(***************************************************************************)

Disk(child) == [claimed |-> child.claimed, source |-> <<"disk", child.location>>]
Dirty(index, claimed) == [claimed |-> claimed, source |-> <<"dirty", index>>]
IsDirty(link) == link.source[1] = "dirty"

RootCommitment(plan) == IF plan.root = <<>> THEN EmptyCommitment ELSE plan.root[1].claimed

\* What admit demands of a batch: keys in order, and each with a before or an after.
BatchIsAdmitted(deltas, maxDeltas) ==
    /\ Len(deltas) <= maxDeltas
    /\ \A i \in DOMAIN deltas : deltas[i].before # <<>> \/ deltas[i].after # <<>>
    /\ \A i \in 2..Len(deltas) : KeyBefore(deltas[i - 1].key, deltas[i].key)

-----------------------------------------------------------------------------
(* Planning *)

DirtyCommitment(plan, node) ==
    IF node.kind = "leaf" THEN LeafCommitment(plan.deltas[node.delta].key, node.value)
    ELSE BranchCommitment(node.bit, node.left.claimed, node.right.claimed)

\* A node with its key, or its links: r.record, the plan's reader being r.
Inspect(store, maxPages, plan, link) ==
    LET Planned(node) ==
            IF DirtyCommitment(plan, node) # link.claimed THEN Fails(plan.r, "IntegrityFailure")
            ELSE [plan.r EXCEPT !.record =
                    IF node.kind # "leaf" THEN node
                    ELSE [kind |-> "leaf", key |-> plan.deltas[node.delta].key, value |-> node.value]]
        Stored(read) ==
            IF read.error # "none" THEN read
            ELSE [read EXCEPT !.record =
                    IF @.kind = "leaf" THEN [kind |-> "leaf", key |-> @.key, value |-> @.value]
                    ELSE [@ EXCEPT !.left = Disk(@), !.right = Disk(@)]]
    IN  IF IsDirty(link) THEN Planned(plan.nodes[link.source[2]])
        ELSE Stored(ReadNode(store, maxPages, plan.r,
                             [location |-> link.source[2], claimed |-> link.claimed]))

\* From the root to the leaf that key leads to: [r, frames, leaf, link], link that of the leaf.
RECURSIVE Route(_, _, _, _, _, _)
Route(store, limits, plan, key, current, frames) ==
    LET Stop(r) == [r |-> r, frames |-> frames, leaf |-> <<>>, link |-> <<>>]
        AtBranch(r, node, rightward) ==
            IF Len(frames) >= limits.branches THEN Stop(Fails(r, "ResourceLimit"))
            ELSE IF \/ frames # <<>> /\ Last(frames).bit >= node.bit
                    \/ ChildOf(node, rightward).claimed.entries >= current[1].claimed.entries
                 THEN Stop(Fails(r, "IntegrityFailure"))
            ELSE Route(store, limits, [plan EXCEPT !.r = r], key, <<ChildOf(node, rightward)>>,
                       Append(frames, [original |-> current[1], bit |-> node.bit,
                                       left |-> node.left, right |-> node.right,
                                       rightward |-> rightward]))
        From(r) ==
            IF r.error # "none" THEN Stop(r)
            ELSE IF r.record.kind = "leaf"
                 THEN [r |-> r, frames |-> frames, leaf |-> <<r.record>>, link |-> current]
            ELSE AtBranch(r, r.record, Bit(key, r.record.bit))
    IN  IF current = <<>> THEN Stop(plan.r) ELSE From(Inspect(store, limits.pages, plan, current[1]))

\* Put a node into the arena, in the place of the dirty node it replaces: [plan, link].
PutDirty(limits, plan, original, node) ==
    LET index == IF original # <<>> /\ IsDirty(original[1]) THEN original[1].source[2]
                 ELSE Len(plan.nodes) + 1
    IN  IF index > limits.dirty
        THEN [plan |-> [plan EXCEPT !.r = Fails(@, "ResourceLimit")], link |-> <<>>]
        ELSE [plan |-> [plan EXCEPT !.nodes = IF index > Len(@) THEN Append(@, node)
                                              ELSE [@ EXCEPT ![index] = node]],
              link |-> <<Dirty(index, DirtyCommitment(plan, node))>>]

PutBranch(limits, plan, original, bit, left, right) ==
    PutDirty(limits, plan, original, [kind |-> "branch", bit |-> bit, left |-> left, right |-> right])

\* The subtree beside which a new leaf goes.
DisplacedLeaf(route, keep) == route.link[1]
Displaced(route, keep) ==
    IF keep < Len(route.frames) THEN route.frames[keep + 1].original ELSE route.link[1]

\* What takes the place of the subtree below the first keep frames: [plan, link, keep].
WithInserted(limits, plan, index, route) ==
    LET delta == plan.deltas[index]
        Beside(put, split) ==
            LET keep == BranchesAbove(route.frames, split)
                old == Displaced(route, keep)
            IN  [keep |-> keep] @@
                IF Bit(delta.key, split)
                THEN PutBranch(limits, put.plan, <<>>, split, old, put.link[1])
                ELSE PutBranch(limits, put.plan, <<>>, split, put.link[1], old)
        From(put) ==
            IF put.link = <<>> \/ route.leaf = <<>> \/ route.leaf[1].key = delta.key
            THEN [keep |-> Len(route.frames)] @@ put
            ELSE Beside(put, FirstDifference(delta.key, route.leaf[1].key))
    IN  From(PutDirty(limits, plan, <<>>,
                      [kind |-> "leaf", delta |-> index, value |-> ValueCommitment(delta.after[1])]))

WithRemoved(plan, route) ==
    IF route.frames = <<>> THEN [plan |-> plan, link |-> <<>>, keep |-> 0]
    ELSE [plan |-> plan, keep |-> Len(route.frames) - 1,
          link |-> <<ChildOf(Last(route.frames), ~Last(route.frames).rightward)>>]

\* New branches from the changed subtree up to the root.
RECURSIVE Rebuild(_, _, _)
Rebuild(limits, changed, frames) ==
    LET Put(frame) ==
            IF frame.rightward
            THEN PutBranch(limits, changed.plan, <<frame.original>>, frame.bit, frame.left,
                           changed.link[1])
            ELSE PutBranch(limits, changed.plan, <<frame.original>>, frame.bit, changed.link[1],
                           frame.right)
    IN  IF frames = <<>> \/ changed.plan.r.error # "none" THEN changed
        ELSE Rebuild(limits, Put(Last(frames)), Front(frames))

ApplyToPlan(store, limits, plan, index) ==
    LET delta == plan.deltas[index]
        Rebuilt(route, changed) ==
            Rebuild(limits, [plan |-> changed.plan, link |-> changed.link],
                    SubSeq(route.frames, 1, changed.keep))
        Changed(route, read) ==
            IF delta.after # <<>> THEN WithInserted(limits, read, index, route)
            ELSE WithRemoved(read, route)
        Proven(updated, root) ==
            IF updated.r.error = "none" /\ RootCommitment(updated) # root.value
            THEN [updated EXCEPT !.r = Fails(@, "IntegrityFailure")] ELSE updated
        Rooted(rebuilt) == [rebuilt.plan EXCEPT !.root = rebuilt.link]
        Applied(route, read, root) ==
            IF root.error # "none" THEN [read EXCEPT !.r = Fails(@, root.error)]
            ELSE IF delta.before = delta.after THEN read
            ELSE Proven(Rooted(Rebuilt(route, Changed(route, read))), root)
        LeafOf(route) == [i \in DOMAIN route.leaf |->
                            [key |-> route.leaf[i].key, value |-> route.leaf[i].value]]
        From(route) ==
            IF route.r.error # "none" THEN [plan EXCEPT !.r = route.r]
            ELSE Applied(route, [plan EXCEPT !.r = route.r],
                         ApplyDelta(RootCommitment(plan), delta, LeafOf(route),
                                    ProofOf(route.frames)))
    IN  IF plan.r.error # "none" THEN plan
        ELSE From(Route(store, limits, plan, delta.key, plan.root, <<>>))

-----------------------------------------------------------------------------
(* Writing *)

RecordBytes(record) ==
    CASE record.kind = "leaf" -> 1 + Len(record.key) + Len(record.chunk)
      [] record.kind = "branch" -> 3
      [] record.kind = "chunk" -> 1 + Len(record.data) + Len(record.next)

PageBytes(page) == FoldLeft(LAMBDA total, record : total + 1 + RecordBytes(record), 0, page)

\* A pack being written: [object, revision, pages, error], with the optional last address.
NewWriter(object, revision) ==
    [object |-> object, revision |-> revision, pages |-> << <<>> >>, error |-> "none", at |-> <<>>]

MustRollOver(w, record) ==
    \/ Len(Last(w.pages)) = MaxSlots
    \/ PageBytes(Last(w.pages)) + RecordBytes(record) + 1 > MaxPayload + 1

AppendRecord(w, record) ==
    LET Written(pages) ==
            IF RecordBytes(record) > MaxPayload \/ Len(pages) > MaxPackPages
            THEN [w EXCEPT !.error = "ResourceLimit"]
            ELSE [w EXCEPT !.pages = pages,
                           !.at = <<[object |-> w.object, revision |-> w.revision,
                                     page |-> Len(pages), slot |-> Len(Last(pages))]>>]
    IN  IF w.error # "none" THEN w
        ELSE Written(IF MustRollOver(w, record) THEN Append(w.pages, <<record>>)
                     ELSE Append(Front(w.pages), Append(Last(w.pages), record)))

\* The chunks of a value, the last one first; at is then the first chunk.
RECURSIVE AppendChunks(_, _, _)
AppendChunks(w, data, start) ==
    LET end == Min({start + MaxChunkData, Len(data)})
        Before(following) ==
            AppendRecord(following, [kind |-> "chunk", remaining |-> Len(data) - start,
                                     next |-> following.at, data |-> SubSeq(data, start + 1, end)])
    IN  IF start = Len(data) THEN [w EXCEPT !.at = <<>>]
        ELSE Before(AppendChunks(w, data, end))

RECURSIVE PostOrder(_, _)
PostOrder(nodes, link) ==
    IF ~IsDirty(link) THEN <<>>
    ELSE LET index == link.source[2]
         IN  (IF nodes[index].kind = "leaf" THEN <<>>
              ELSE PostOrder(nodes, nodes[index].left) \o PostOrder(nodes, nodes[index].right))
              \o <<index>>

ResolveLink(link, locations) ==
    IF IsDirty(link) THEN [location |-> locations[link.source[2]], claimed |-> link.claimed]
    ELSE [location |-> link.source[2], claimed |-> link.claimed]

\* Write one dirty node: [w, locations].
EmitNode(plan, state, index) ==
    LET node == plan.nodes[index]
        AppendLeaf(chunks) ==
            AppendRecord(chunks, [kind |-> "leaf", key |-> plan.deltas[node.delta].key,
                                  value |-> node.value, chunk |-> chunks.at])
        Put(w) ==
            IF w.error # "none" THEN [state EXCEPT !.w = w]
            ELSE [w |-> w, locations |-> (index :> w.at[1]) @@ state.locations]
    IN  IF state.w.error # "none" THEN state
        ELSE Put(IF node.kind = "leaf"
                 THEN AppendLeaf(AppendChunks(state.w, plan.deltas[node.delta].after[1], 0))
                 ELSE AppendRecord(state.w, [kind |-> "branch", bit |-> node.bit,
                                             left |-> ResolveLink(node.left, state.locations),
                                             right |-> ResolveLink(node.right, state.locations)]))

\* The end of a batch: [error, root, commitment, pages], pages those of its pack if it needs one.
Emit(plan, object, revision) ==
    LET order == PostOrder(plan.nodes, plan.root[1])
        Result(error, root, pages) ==
            [error |-> error, root |-> root, commitment |-> RootCommitment(plan), pages |-> pages]
        Ended(written) ==
            IF written.w.error # "none" THEN Result(written.w.error, <<>>, written.w.pages)
            ELSE Result("none", <<ResolveLink(plan.root[1], written.locations).location>>,
                        written.w.pages)
    IN  IF plan.r.error # "none" THEN Result(plan.r.error, <<>>, <<>>)
        ELSE IF plan.root = <<>> THEN Result("none", <<>>, <<>>)
        ELSE IF ~IsDirty(plan.root[1]) THEN Result("none", <<plan.root[1].source[2]>>, <<>>)
        ELSE IF ~IsInjective(order) THEN Result("IntegrityFailure", <<>>, <<>>)
        ELSE Ended(FoldLeft(LAMBDA state, index : EmitNode(plan, state, index),
                            [w |-> NewWriter(object, revision), locations |-> <<>>], order))

StageBatch(packs, base, deltas, revision, limits, cache) ==
    LET store == [packs |-> packs, revision |-> base.revision]
        start == [deltas |-> deltas, nodes |-> <<>>, r |-> NewReader(cache),
                  root |-> IF base.root = <<>> THEN <<>> ELSE <<Disk(RootLink(base))>>]
    IN  Emit(FoldLeft(LAMBDA p, index : ApplyToPlan(store, limits, p, index), start,
                      [i \in DOMAIN deltas |-> i]),
             Len(packs) + 1, revision)

-----------------------------------------------------------------------------
(* Validation of a whole tree, in key order *)

RouteFits(key, path) == \A i \in DOMAIN path : Bit(key, path[i].bit) = path[i].rightward

FollowsPrevious(v, key) ==
    v.previous = <<>> \/ (KeyBefore(v.previous, key) /\ FirstDifference(v.previous, key) = v.boundary)

ValidateLeaf(store, limits, v, leaf, path) ==
    LET bytes == v.bytes + Len(leaf.key) + leaf.value.length
    IN  IF ~RouteFits(leaf.key, path) \/ ~FollowsPrevious(v, leaf.key)
        THEN [v EXCEPT !.r = Fails(@, "IntegrityFailure")]
        ELSE IF bytes > limits.bytes THEN [v EXCEPT !.r = Fails(@, "ResourceLimit")]
        ELSE [v EXCEPT !.r = ReadChunks(store, limits.pages, @, leaf.value, leaf.chunk, <<>>),
                       !.bytes = bytes, !.entries = @ + 1, !.previous = leaf.key]

RECURSIVE ValidateFrom(_, _, _, _, _)
ValidateFrom(store, limits, v, link, path) ==
    LET Below(node, rightward) == Append(path, [bit |-> node.bit, rightward |-> rightward])
        AtBranch(seen, node) ==
            IF Len(path) >= limits.branches THEN [v EXCEPT !.r = Fails(@, "ResourceLimit")]
            ELSE IF \/ path # <<>> /\ Last(path).bit >= node.bit
                    \/ Max({node.left.claimed.entries, node.right.claimed.entries})
                           >= link.claimed.entries
                 THEN [v EXCEPT !.r = Fails(@, "IntegrityFailure")]
            ELSE ValidateFrom(store, limits,
                    [ValidateFrom(store, limits, seen, node.left, Below(node, FALSE))
                        EXCEPT !.boundary = node.bit],
                    node.right, Below(node, TRUE))
        From(read, seen) ==
            IF read.error # "none" THEN [v EXCEPT !.r = read]
            ELSE IF read.record.kind = "leaf" THEN ValidateLeaf(store, limits, seen, read.record, path)
            ELSE AtBranch(seen, read.record)
        Seen(read) == From(read, [v EXCEPT !.r = read, !.nodes = @ + 1])
    IN  IF v.r.error # "none" THEN v
        ELSE IF v.nodes >= limits.nodes THEN [v EXCEPT !.r = Fails(@, "ResourceLimit")]
        ELSE Seen(ReadNode(store, limits.pages, v.r, link))

NodesOf(entries) == Max({2 * entries - 1, 0})

\* none if the tree is exactly what its commitment says.
ValidateTree(packs, tree, limits, cache) ==
    LET store == [packs |-> packs, revision |-> tree.revision]
        start == [r |-> NewReader(cache), nodes |-> 0, entries |-> 0, bytes |-> 0,
                  previous |-> <<>>, boundary |-> 0]
        Ended(v) ==
            IF v.r.error # "none" THEN v.r.error
            ELSE IF /\ v.entries = tree.commitment.entries
                    /\ v.bytes = tree.commitment.bytes
                    /\ v.nodes = NodesOf(tree.commitment.entries)
                 THEN "none" ELSE "IntegrityFailure"
    IN  IF \/ NodesOf(tree.commitment.entries) > limits.nodes
           \/ tree.commitment.bytes > limits.bytes
        THEN "ResourceLimit"
        ELSE IF (tree.root = <<>>) # (tree.commitment = EmptyCommitment) THEN "IntegrityFailure"
        ELSE Ended(IF tree.root = <<>> THEN start
                   ELSE ValidateFrom(store, limits, start, RootLink(tree), <<>>))

-----------------------------------------------------------------------------
CONSTANTS
    Scenarios,      \* scenario -> what its behaviours do: batches, requests, limits, bounds
    WideLimits,     \* TreeLookupLimits and TreeCursorLimits of reads without a cache
    StageLimits,    \* TreeBatchLimits
    CheckLimits     \* TreeValidationLimits

VARIABLES
    scenario,       \* the scenario of this behaviour
    packs,          \* object -> pages
    trees,          \* [revision, commitment, root, owner, content]
    vault,          \* [owner, session, locked]: the journal instance, its key session
    cache,          \* the cache of a caller
    cursor,         \* optional [c, owner, tree, seen, failed]
    answer          \* optional outcome of the last read

vars == <<scenario, packs, trees, vault, cache, cursor, answer>>

Plan == Scenarios[scenario]

EmptyTree(owner) ==
    [revision |-> 1, commitment |-> EmptyCommitment, root |-> <<>>, owner |-> owner, content |-> <<>>]

Init ==
    /\ scenario \in DOMAIN Scenarios
    /\ packs = <<>>
    /\ trees = <<EmptyTree(1)>>
    /\ vault = [owner |-> 1, session |-> 1, locked |-> FALSE]
    /\ cache = EmptyCache
    /\ cursor = <<>>
    /\ answer = <<>>

\* A batch over content: key -> the optional value after it.
DeltaOf(content, key, after) ==
    [key |-> key, before |-> IF key \in DOMAIN content THEN <<content[key]>> ELSE <<>>,
     after |-> after]

KeyOrder(keys) == SetToSortSeq(keys, KeyBefore)

DeltasOf(content, batch) ==
    LET order == KeyOrder(DOMAIN batch)
    IN  [i \in DOMAIN order |-> DeltaOf(content, order[i], batch[order[i]])]

Changed(content, deltas) ==
    LET after == [key \in {deltas[i].key : i \in DOMAIN deltas} |->
                     (CHOOSE i \in DOMAIN deltas : deltas[i].key = key)]
        removed == {key \in DOMAIN after : deltas[after[key]].after = <<>>}
    IN  [key \in (DOMAIN content \cup DOMAIN after) \ removed |->
            IF key \in DOMAIN after THEN deltas[after[key]].after[1] ELSE content[key]]

MayUse(tree) == tree.owner = vault.owner /\ ~vault.locked

ValueIn(content, key) == IF key \in DOMAIN content THEN <<content[key]>> ELSE <<>>

BeforesFit(content, deltas) ==
    \A i \in DOMAIN deltas : deltas[i].before = ValueIn(content, deltas[i].key)

\* The outcome of a read; for a batch, request says whether its before-values were right.
Answered(kind, i, request, limits, outcome) ==
    <<[kind |-> kind, tree |-> i, request |-> request, limits |-> limits, error |-> outcome.error,
       found |-> outcome.found, work |-> outcome.work]>>

-----------------------------------------------------------------------------
\* What a batch leaves.  A refused one leaves its pack behind.
Staged(content, deltas, staged) ==
    /\ packs' = IF staged.pages = <<>> THEN packs ELSE Append(packs, staged.pages)
    /\ trees' = IF staged.error # "none" THEN trees
                ELSE Append(trees, [revision |-> Len(trees) + 1, root |-> staged.root,
                                    commitment |-> staged.commitment, owner |-> vault.owner,
                                    content |-> Changed(content, deltas)])
    /\ answer' = Answered("stage", 0, BeforesFit(content, deltas), StageLimits,
                          [error |-> staged.error, found |-> <<>>, work |-> NoWork])

\* A batch on any tree of this journal instance.
Stage(base, deltas) ==
    /\ Len(trees) < Plan.trees
    /\ Len(packs) < Plan.trees
    /\ MayUse(trees[base])
    /\ BatchIsAdmitted(deltas, StageLimits.deltas)
    /\ Staged(trees[base].content, deltas,
              StageBatch(packs, trees[base], deltas, Len(trees) + 1, StageLimits, <<>>))
    /\ UNCHANGED <<scenario, vault, cache, cursor>>

\* A batch with the before-values of its base, or with those of another tree.
StageAny ==
    \E base \in DOMAIN trees, other \in DOMAIN trees :
        \E batch \in (IF base # other THEN Plan.stale
                      ELSE IF Len(trees) = 1 THEN Plan.first ELSE Plan.batches) :
            Stage(base, DeltasOf(trees[other].content, batch))

\* Admission of a published tree by this instance: all of it is read.
Admit(i) ==
    /\ trees[i].owner # vault.owner
    /\ ~vault.locked
    /\ trees' = IF ValidateTree(packs, trees[i], CheckLimits, <<>>) = "none"
                THEN [trees EXCEPT ![i].owner = vault.owner] ELSE trees
    /\ answer' = <<>>
    /\ UNCHANGED <<scenario, packs, vault, cache, cursor>>

\* A cached read fails before it starts when its tree is not of this instance, the key is
\* locked or the cache belongs to another instance.
Bound == Bind(cache, vault.owner, vault.session)

RefusedCache == IF vault.locked THEN EmptyCache ELSE cache

GetOutcome(a) == [error |-> a.error, found |-> a.value, work |-> a.work, cache |-> a.cache]
RangeOutcome(a) == [error |-> a.error, found |-> a.entries, work |-> a.work, cache |-> a.cache]
NoOutcome == [error |-> "InvalidState", found |-> <<>>, work |-> NoWork]

\* bound is the cache as bound to this instance, got what the read gives and makes of it.
CachedRead(kind, i, request, limits, bound, got) ==
    /\ cache' = IF ~MayUse(trees[i]) THEN RefusedCache
                ELSE IF bound = <<>> THEN cache ELSE got.cache[1]
    /\ answer' = Answered(kind, i, request, limits,
                          IF MayUse(trees[i]) /\ bound # <<>> THEN got ELSE NoOutcome)
    /\ UNCHANGED <<scenario, packs, trees, vault, cursor>>

GetCached(i, key, limits) ==
    CachedRead("get", i, key, limits, Bound,
               GetOutcome(Lookup(packs, trees[i], key, limits, Bound)))

RangeCached(i, request, limits) ==
    /\ BoundsAreOrdered(request.lower, request.upper)
    /\ CachedRead("range", i, request, limits, Bound,
                  RangeOutcome(RangeOf(packs, trees[i], request, limits, Bound)))

OpenCursor(i, request, limits) ==
    /\ cursor = <<>>
    /\ MayUse(trees[i])
    /\ BoundsAreOrdered(request.lower, request.upper)
    /\ cursor' = <<[c |-> NewCursor(trees[i], request, limits), owner |-> vault.owner, tree |-> i,
                    seen |-> <<>>, ended |-> FALSE, failed |-> FALSE]>>
    /\ answer' = <<>>
    /\ UNCHANGED <<scenario, packs, trees, vault, cache>>

\* Any error ends the cursor for good.
Advanced(held, cached, usable, step) ==
    /\ ~held.failed
    /\ ~held.ended
    /\ cursor' = IF ~usable \/ step.error # "none"
                 THEN <<[held EXCEPT !.failed = TRUE, !.c.path = <<>>]>>
                 ELSE <<[held EXCEPT !.c = step.c, !.seen = @ \o step.entry,
                                     !.ended = step.entry = <<>>]>>
    /\ cache' = IF ~cached THEN cache
                ELSE IF vault.locked THEN EmptyCache
                ELSE IF usable THEN step.cache[1] ELSE cache

\* The next entry, read directly or through the cache.
NextEntry(cached) ==
    /\ cursor # <<>>
    /\ Advanced(cursor[1], cached,
                cursor[1].owner = vault.owner /\ ~vault.locked /\ (cached => Bound # <<>>),
                Next1(packs, cursor[1].c, IF cached THEN Bound ELSE <<>>))
    /\ answer' = <<>>
    /\ UNCHANGED <<scenario, packs, trees, vault>>

Lock ==
    /\ ~vault.locked
    /\ vault.session < Plan.sessions
    /\ vault' = [vault EXCEPT !.locked = TRUE]
    /\ answer' = <<>>
    /\ UNCHANGED <<scenario, packs, trees, cache, cursor>>

Unlock ==
    /\ vault.locked
    /\ vault' = [vault EXCEPT !.locked = FALSE, !.session = @ + 1]
    /\ answer' = <<>>
    /\ UNCHANGED <<scenario, packs, trees, cache, cursor>>

\* The journal is closed and opened again: a new instance with a new key session.
Reopen ==
    /\ vault.session < Plan.sessions
    /\ vault' = [owner |-> vault.owner + 1, session |-> vault.session + 1, locked |-> FALSE]
    /\ answer' = <<>>
    /\ UNCHANGED <<scenario, packs, trees, cache, cursor>>

ClearCache ==
    /\ cache # EmptyCache
    /\ cache' = EmptyCache
    /\ answer' = <<>>
    /\ UNCHANGED <<scenario, packs, trees, vault, cursor>>

IsDamaged ==
    \E object \in DOMAIN packs : \E page \in DOMAIN packs[object] : packs[object][page] = <<>>

\* A page can no longer be read or authenticated.
Damage(object, page) ==
    /\ Plan.damage
    /\ ~IsDamaged
    /\ packs' = [packs EXCEPT ![object][page] = <<>>]
    /\ answer' = <<>>
    /\ UNCHANGED <<scenario, trees, vault, cache, cursor>>

Next ==
    \/ StageAny
    \/ \E i \in DOMAIN trees :
          \/ Admit(i)
          \/ \E key \in Plan.keys, limits \in Plan.limits : GetCached(i, key, limits)
          \/ \E request \in Plan.ranges, limits \in Plan.limits : RangeCached(i, request, limits)
          \/ \E request \in Plan.cursors, limits \in Plan.limits : OpenCursor(i, request, limits)
    \/ \E cached \in BOOLEAN : NextEntry(cached)
    \/ Lock
    \/ Unlock
    \/ Reopen
    \/ ClearCache
    \/ \E object \in DOMAIN packs : \E page \in DOMAIN packs[object] : Damage(object, page)

Spec == Init /\ [][Next]_vars

-----------------------------------------------------------------------------
(* What a read must answer *)

InRange(request, key) ==
    IF request.reverse
    THEN KeyBefore(request.lower, key) /\ (request.upper = <<>> \/ KeyAtMost(key, request.upper[1]))
    ELSE KeyAtMost(request.lower, key) /\ (request.upper = <<>> \/ KeyBefore(key, request.upper[1]))

RangeEntries(content, request) ==
    LET order == KeyOrder({key \in DOMAIN content : InRange(request, key)})
        directed == IF request.reverse THEN Reverse(order) ELSE order
    IN  [i \in DOMAIN directed |-> [key |-> directed[i], value |-> content[directed[i]]]]

Expected(a) ==
    IF a.kind = "range" THEN RangeEntries(trees[a.tree].content, a.request)
    ELSE ValueIn(trees[a.tree].content, a.request)

\* The same read without a cache.
Fresh(a) ==
    IF a.kind = "range"
    THEN RangeOutcome(RangeOf(packs, trees[a.tree], a.request, a.limits, <<>>))
    ELSE GetOutcome(Lookup(packs, trees[a.tree], a.request, a.limits, <<>>))

ProbesAreExact(tree) ==
    /\ \A key \in Plan.probes.keys :
          Lookup(packs, tree, key, WideLimits, <<>>).value = ValueIn(tree.content, key)
    /\ \A request \in Plan.probes.ranges :
          RangeOf(packs, tree, request, WideLimits, <<>>).entries = RangeEntries(tree.content, request)

AnswerIsExact(a, fresh) ==
    /\ a.error = "none" => a.found = Expected(a) /\ MayUse(trees[a.tree])
    /\ ~IsDamaged /\ a.error # "InvalidState" =>
          /\ fresh.error = a.error /\ a.error \in {"none", "ResourceLimit"}
          /\ a.error = "none" => fresh.found = a.found /\ fresh.work = a.work

\* What a batch stages is canonical: after every batch each tree that was ever staged, whatever was
\* staged on or beside it since, still passes full validation and has the commitment of its
\* content, which does not depend on the order of the batches.  A batch is refused as invalid
\* exactly when a before-value of it is not the one of its base, and never as damaged
\* (packed_tree_batch.rs, packed_tree_validation.rs).
TreesAreCanonical ==
    ~IsDamaged /\ answer # <<>> /\ answer[1].kind = "stage" =>
        /\ \A i \in DOMAIN trees :
              /\ trees[i].commitment = CommitmentOf(trees[i].content)
              /\ ValidateTree(packs, trees[i], CheckLimits, <<>>) = "none"
        /\ answer[1].error # "IntegrityFailure"
        /\ answer[1].error = "none" => answer[1].request
        /\ answer[1].error = "InvalidState" => ~answer[1].request

\* An answered lookup or range is the one of the tree that was asked, also after that tree's pages
\* were evicted, the key locked, the journal reopened or a page damaged; a cache changes neither the
\* outcome nor the work reported; a cursor yields the range of its tree entry by entry
\* (packed_tree_lookup.rs, packed_tree_cursor.rs, packed_page_cache.rs).
TreeReadsAreExact ==
    /\ IsDamaged \/ ProbesAreExact(trees[Len(trees)])
    /\ answer # <<>> /\ answer[1].kind # "stage" => AnswerIsExact(answer[1], Fresh(answer[1]))
    /\ cursor # <<>> =>
          LET held == cursor[1]
              range == RangeEntries(trees[held.tree].content, held.c.request)
          IN  IF held.ended THEN held.seen = range ELSE IsPrefix(held.seen, range)

\* The budgets hold: what a cache accounts for is what it keeps (packed_page_cache/lookup.rs,
\* range.rs).
CacheAccountsAreExact ==
    /\ AccountsOf(cache.lookup, LookupBudget)
    /\ AccountsOf(cache.range, RangeBudget)
    /\ Len(cache.pages) <= PageCapacity
=============================================================================
