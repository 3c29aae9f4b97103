----------------------------- MODULE PackedTree -----------------------------
(***************************************************************************)
(* Packed trees (uste-storage, packed_tree_*.rs and packed_index_*.rs).    *)
(* The nodes of an ordered commitment are records in the pages of          *)
(* immutable packs; a batch writes the nodes it changes to a pack of its   *)
(* own and links the rest.  Every read checks a node against the claim of  *)
(* its parent, starting from a trusted root.                               *)
(*                                                                         *)
(* A store is [packs, revision]: the pages that can be read, and the       *)
(* revision of the tree that is read.  A page that cannot be read or       *)
(* authenticated is an empty sequence.  Reads thread a reader [error,      *)
(* work, cache], cache an optional PackedCache.                            *)
(***************************************************************************)
EXTENDS Integers, Sequences, FiniteSets, SequencesExt, FiniteSetsExt

(***************************************************************************)
(* Ordered content commitments (uste-storage, ordered_commitment.rs).  The *)
(* entries of a map are the leaves of a binary tree that branches at the   *)
(* first position at which its keys differ; a position is a presence bit   *)
(* of a key byte or one of its ByteBits bits.  A digest is the tuple that  *)
(* is hashed: the hash is taken to be free of collisions.                  *)
(***************************************************************************)

CONSTANT
    ByteBits        \* bits of a key byte (8 in the code)

PositionsOfByte == ByteBits + 1

Bit(key, position) ==
    LET byte == position \div PositionsOfByte
        offset == position % PositionsOfByte
    IN  /\ byte < Len(key)
        /\ offset = 0 \/ (key[byte + 1] \div 2^(ByteBits - offset)) % 2 = 1

Differing(a, b) == {i \in 1..Min({Len(a), Len(b)}) : a[i] # b[i]}

\* The first position at which two different keys differ.
FirstDifference(a, b) ==
    LET differing == Differing(a, b)
        base == (Min(differing) - 1) * PositionsOfByte
    IN  IF differing = {} THEN Min({Len(a), Len(b)}) * PositionsOfByte
        ELSE base + Min({offset \in 1..ByteBits : Bit(a, base + offset) # Bit(b, base + offset)})

\* The order of byte strings.
KeyBefore(a, b) ==
    LET differing == Differing(a, b)
    IN  IF differing = {} THEN Len(a) < Len(b) ELSE a[Min(differing)] < b[Min(differing)]

KeyAtMost(a, b) == a = b \/ KeyBefore(a, b)

-----------------------------------------------------------------------------
ValueCommitment(value) == [length |-> Len(value), digest |-> value]

EmptyCommitment == [entries |-> 0, bytes |-> 0, digest |-> <<>>]

LeafCommitment(key, value) ==
    [entries |-> 1, bytes |-> Len(key) + value.length, digest |-> <<key, value>>]

BranchCommitment(bit, left, right) ==
    [entries |-> left.entries + right.entries, bytes |-> left.bytes + right.bytes,
     digest |-> <<bit, left, right>>]

\* The commitment above child along the branches of a path.
Fold(key, child, path) ==
    FoldRight(LAMBDA step, below :
                  IF Bit(key, step.bit) THEN BranchCommitment(step.bit, step.sibling, below)
                  ELSE BranchCommitment(step.bit, below, step.sibling),
              path, child)

ValidateRoute(key, leafKey, path) ==
    \A i \in DOMAIN path :
        /\ i > 1 => path[i - 1].bit < path[i].bit
        /\ path[i].bit <= Len(leafKey) * PositionsOfByte
        /\ Bit(key, path[i].bit) = Bit(leafKey, path[i].bit)

Admitted(value) == [error |-> "none", value |-> value]
Refused(error) == [error |-> error, value |-> <<>>]

\* A leaf is an optional [key, value]; the answer is the value of key in the map of expected.
Verify(expected, key, leaf, path) ==
    IF leaf = <<>>
    THEN IF path = <<>> /\ expected = EmptyCommitment THEN Admitted(<<>>)
         ELSE Refused("IntegrityFailure")
    ELSE IF /\ ValidateRoute(key, leaf[1].key, path)
            /\ Fold(key, LeafCommitment(leaf[1].key, leaf[1].value), path) = expected
         THEN Admitted(IF leaf[1].key = key THEN <<leaf[1].value>> ELSE <<>>)
         ELSE Refused("IntegrityFailure")

\* The number of branches of a path above a position.
BranchesAbove(path, split) == Cardinality({i \in DOMAIN path : path[i].bit < split})

\* The commitment with key inserted beside the leaf that its path leads to.
Inserted(key, new, leaf, path) ==
    LET split == FirstDifference(key, leaf.key)
        at == BranchesAbove(path, split)
        old == Fold(key, LeafCommitment(leaf.key, leaf.value), SubSeq(path, at + 1, Len(path)))
        joined == IF Bit(key, split) THEN BranchCommitment(split, old, new)
                  ELSE BranchCommitment(split, new, old)
    IN  IF at < Len(path) /\ path[at + 1].bit = split THEN Refused("IntegrityFailure")
        ELSE Admitted(Fold(key, joined, SubSeq(path, 1, at)))

\* The root after one delta; before is an exact precondition.
ApplyDelta(expected, delta, leaf, path) ==
    LET key == delta.key
        found == Verify(expected, key, leaf, path)
        before == IF delta.before = <<>> THEN <<>> ELSE <<ValueCommitment(delta.before[1])>>
        new == LeafCommitment(key, ValueCommitment(delta.after[1]))
    IN  IF found.error # "none" THEN found
        ELSE IF found.value # before THEN Refused("InvalidState")
        ELSE IF delta.after = <<>>
             THEN Admitted(IF found.value = <<>> THEN expected
                           ELSE IF path = <<>> THEN EmptyCommitment
                           ELSE Fold(key, Last(path).sibling, Front(path)))
        ELSE IF leaf = <<>> THEN Admitted(new)
        ELSE IF found.value # <<>> THEN Admitted(Fold(key, new, path))
        ELSE Inserted(key, new, leaf[1], path)

-----------------------------------------------------------------------------
\* What a root promises: it depends on the entries alone, not on how they came about.
RECURSIVE CommitmentOfKeys(_, _)
CommitmentOfKeys(content, keys) ==
    IF keys = {} THEN EmptyCommitment
    ELSE IF Cardinality(keys) = 1
         THEN LET key == CHOOSE k \in keys : TRUE IN LeafCommitment(key, ValueCommitment(content[key]))
    ELSE LET split == Min({FirstDifference(p[1], p[2]) : p \in {q \in keys \X keys : q[1] # q[2]}})
             right == {key \in keys : Bit(key, split)}
         IN  BranchCommitment(split, CommitmentOfKeys(content, keys \ right),
                              CommitmentOfKeys(content, right))

CommitmentOf(content) == CommitmentOfKeys(content, DOMAIN content)

-----------------------------------------------------------------------------
(***************************************************************************)
(* The cache of packed pages and of results (uste-storage,                 *)
(* packed_page_cache.rs with lookup.rs and range.rs, index_cache.rs).      *)
(* Three parts share a budget: pages, values found by lookups, complete    *)
(* ranges.  The least recently used entry goes first; lists run from the   *)
(* oldest to the newest.  A result is kept under the index of its interned *)
(* identity (the exact root it was read from), and an index is used again  *)
(* once no result needs it.  Counters of hits and misses are left out.     *)
(***************************************************************************)

CONSTANTS
    PageCapacity,   \* (page_budget - FIXED_BYTES) / ENTRY_BYTES
    LookupBudget,   \* budget of the lookup part, less FIXED
    RangeBudget     \* budget of the range part, less FIXED

EmptyRetained == [used |-> 0, identities |-> <<>>, free |-> <<>>, entries |-> <<>>]

EmptyCache ==
    [owner |-> 0, session |-> 0, pages |-> <<>>, lookup |-> EmptyRetained, range |-> EmptyRetained]

\* Owner 0 is none.  A cache stays with its owner; another key session empties it.
Bind(cache, owner, session) ==
    IF cache.owner \notin {0, owner} THEN <<>>
    ELSE <<[(IF cache.session = session THEN cache ELSE EmptyCache)
            EXCEPT !.owner = owner, !.session = session]>>

-----------------------------------------------------------------------------
(* Pages *)

PositionsOf(list, at) == {i \in DOMAIN list : list[i].at = at}

Touch(list, i) == Append(RemoveAt(list, i), list[i])

InsertPage(pages, entry) ==
    Append(IF Len(pages) = PageCapacity THEN Tail(pages) ELSE pages, entry)

-----------------------------------------------------------------------------
(* Results *)

IdentityIndex(c, identity) ==
    {i \in DOMAIN c.identities : c.identities[i] # <<>> /\ c.identities[i][1].identity = identity}

\* Where a result is kept, if it is.
Locate(c, identity, request) ==
    {i \in DOMAIN c.entries :
        \E index \in IdentityIndex(c, identity) : c.entries[i].at = <<index, request>>}

\* An identity is forgotten with its last result.
ReleaseIdentity(c, index) ==
    IF c.identities[index][1].live = 1
    THEN [c EXCEPT !.identities[index] = <<>>, !.free = Append(@, index)]
    ELSE [c EXCEPT !.identities[index][1].live = @ - 1]

EvictOldest(c) ==
    ReleaseIdentity([c EXCEPT !.entries = Tail(@), !.used = @ - c.entries[1].charge],
                    c.entries[1].at[1])

RECURSIVE EvictFor(_, _, _)
EvictFor(c, budget, charge) ==
    IF c.used > budget - charge THEN EvictFor(EvictOldest(c), budget, charge) ELSE c

RetainIdentity(c, identity) ==
    LET known == IdentityIndex(c, identity)
    IN  IF known # {} THEN [c EXCEPT !.identities[Min(known)][1].live = @ + 1]
        ELSE LET entry == <<[identity |-> identity, live |-> 1]>>
             IN  IF c.free # <<>> THEN [c EXCEPT !.identities[Last(c.free)] = entry, !.free = Front(@)]
                 ELSE [c EXCEPT !.identities = Append(@, entry)]

Retain(c, identity, request, result, work, charge) ==
    LET retained == RetainIdentity(c, identity)
    IN  [retained EXCEPT !.used = @ + charge,
             !.entries = Append(@, [at |-> <<Min(IdentityIndex(retained, identity)), request>>,
                                    result |-> result, work |-> work, charge |-> charge])]

\* A result that does not fit the whole budget is not kept.
InsertResult(c, budget, identity, request, result, work, charge) ==
    IF charge > budget THEN c
    ELSE Retain(EvictFor(c, budget, charge), identity, request, result, work, charge)

-----------------------------------------------------------------------------
(* Lookups: the value of a key *)

LookupAdmitsAny(work, value, limits) == TRUE

LookupAdmits(work, value, limits) ==
    /\ work.pages <= limits.pages
    /\ work.branches <= limits.branches
    /\ Len(value) <= limits.value

\* An optional answer; a hit is charged like the walk it replaces.
LookupGet(cache, identity, key, limits) ==
    LET found == Locate(cache.lookup, identity, key)
        hit == cache.lookup.entries[Min(found)]
    IN  IF found = {} THEN <<>>
        ELSE IF ~LookupAdmits(hit.work, hit.result, limits)
             THEN <<[error |-> "ResourceLimit", value |-> <<>>, work |-> hit.work, cache |-> cache]>>
        ELSE <<[error |-> "none", value |-> <<hit.result>>, work |-> hit.work,
                cache |-> [cache EXCEPT !.lookup.entries = Touch(@, Min(found))]]>>

LookupCharge(key, value) == 1 + Len(key) + Len(value)

LookupInsert(cache, identity, key, value, work) ==
    [cache EXCEPT !.lookup =
        InsertResult(@, LookupBudget, identity, key, value, work, LookupCharge(key, value))]

-----------------------------------------------------------------------------
(* Ranges: all the entries between two bounds, in one direction *)

RangeAdmits(work, limits) ==
    /\ work.pages <= limits.pages
    /\ work.branches <= limits.branches
    /\ work.candidates <= limits.candidates
    /\ work.bytes <= limits.bytes

RangeGet(cache, identity, request, limits) ==
    LET found == Locate(cache.range, identity, request)
        hit == cache.range.entries[Min(found)]
    IN  IF found = {} THEN <<>>
        ELSE IF ~RangeAdmits(hit.work, limits)
             THEN <<[error |-> "ResourceLimit", entries |-> <<>>, work |-> hit.work, cache |-> cache]>>
        ELSE <<[error |-> "none", entries |-> hit.result, work |-> hit.work,
                cache |-> [cache EXCEPT !.range.entries = Touch(@, Min(found))]]>>

EntryBytes(entry) == Len(entry.key) + Len(entry.value)

PayloadOf(entries) == FoldLeft(LAMBDA total, entry : total + 1 + EntryBytes(entry), 0, entries)

RangeCharge(request, entries) ==
    1 + Len(request.lower) + (IF request.upper = <<>> THEN 0 ELSE Len(request.upper[1]))
      + PayloadOf(entries)

\* What validate_result demands of a range before it is kept, besides the order of its keys.
RangeIsConsistent(entries, work) ==
    /\ work.returned = Len(entries)
    /\ work.candidates >= work.returned
    /\ work.bytes = PayloadOf(entries) - Len(entries)
    /\ work.branches <= work.pages
    /\ work.chunks <= work.pages

RangeInsert(cache, identity, request, entries, work) ==
    [cache EXCEPT !.range =
        InsertResult(@, RangeBudget, identity, request, entries, work, RangeCharge(request, entries))]

-----------------------------------------------------------------------------
ChargesOf(c) == FoldLeft(LAMBDA total, entry : total + entry.charge, 0, c.entries)

\* The accounts of a part are exact: used is the sum of the charges and within the budget, an
\* identity is interned once, with as many results as it counts, and a free index has none.
AccountsOf(c, budget) ==
    /\ c.used = ChargesOf(c)
    /\ c.used <= budget
    /\ \A i \in DOMAIN c.identities :
          Cardinality({e \in DOMAIN c.entries : c.entries[e].at[1] = i})
              = IF c.identities[i] = <<>> THEN 0 ELSE c.identities[i][1].live
    /\ \A i \in DOMAIN c.identities : c.identities[i] # <<>> => c.identities[i][1].live > 0
    /\ {i \in DOMAIN c.identities : c.identities[i] = <<>>} = ToSet(c.free)

-----------------------------------------------------------------------------
CONSTANTS
    MaxSlots,       \* records of a page (MAX_SLOTS)
    MaxPayload,     \* bytes of a record, and of a page less one (MAX_RECORD_PAYLOAD)
    MaxChunkData,   \* bytes of a value chunk (MAX_CHUNK_DATA)
    MaxPackPages    \* pages of a pack (PackWriteLimits)

NoWork == [pages |-> 0, branches |-> 0, chunks |-> 0]

NewReader(cache) == [error |-> "none", work |-> NoWork, cache |-> cache, record |-> <<>>]

Fails(r, error) == [r EXCEPT !.error = error]

NodeCommitment(node) ==
    IF node.kind = "leaf" THEN LeafCommitment(node.key, node.value)
    ELSE BranchCommitment(node.bit, node.left.claimed, node.right.claimed)

RecordsOf(packs, at) ==
    IF at.object \in DOMAIN packs /\ at.page \in DOMAIN packs[at.object]
    THEN packs[at.object][at.page] ELSE <<>>

PageOf(location) == [object |-> location.object, page |-> location.page]

\* A page through the cache: [records, cache].  A page without the record is not kept.
CachedPage(packs, cache, location) ==
    LET at == PageOf(location)
        hit == PositionsOf(cache.pages, at)
        records == RecordsOf(packs, at)
    IN  IF hit # {}
        THEN [records |-> cache.pages[Min(hit)].records,
              cache |-> [cache EXCEPT !.pages = Touch(@, Min(hit))]]
        ELSE [records |-> records,
              cache |-> IF location.slot > Len(records) THEN cache
                        ELSE [cache EXCEPT !.pages = InsertPage(@, [at |-> at, records |-> records])]]

PageThrough(packs, cache, location) ==
    LET Through(page) == [records |-> page.records, cache |-> <<page.cache>>]
    IN  IF cache = <<>> THEN [records |-> RecordsOf(packs, PageOf(location)), cache |-> <<>>]
        ELSE Through(CachedPage(packs, cache[1], location))

\* The record at a location.  A cached page costs the same work as one that is read.
ReadRecord(store, maxPages, r, location) ==
    LET From(page) ==
            IF location.slot > Len(page.records)
            THEN Fails([r EXCEPT !.cache = page.cache], "IntegrityFailure")
            ELSE [r EXCEPT !.cache = page.cache, !.work.pages = @ + 1,
                           !.record = page.records[location.slot]]
    IN  IF r.error # "none" THEN r
        ELSE IF r.work.pages >= maxPages THEN Fails(r, "ResourceLimit")
        ELSE IF location.revision > store.revision THEN Fails(r, "IntegrityFailure")
        ELSE From(PageThrough(store.packs, r.cache, location))

\* The node of a link, which must be the one its parent claims.
ReadNode(store, maxPages, r, link) ==
    LET Checked(read) ==
            IF /\ read.error = "none"
               /\ read.record.kind = "chunk" \/ NodeCommitment(read.record) # link.claimed
            THEN Fails(read, "IntegrityFailure") ELSE read
    IN  Checked(ReadRecord(store, maxPages, r, link.location))

\* The bytes of a value, chunk by chunk, as r.record.
RECURSIVE ReadChunks(_, _, _, _, _, _)
ReadChunks(store, maxPages, r, expected, next, bytes) ==
    LET Joined(read) ==
            IF read.error # "none" THEN read
            ELSE IF \/ read.record.kind # "chunk"
                    \/ read.record.remaining # expected.length - Len(bytes)
                 THEN Fails(read, "IntegrityFailure")
            ELSE ReadChunks(store, maxPages, [read EXCEPT !.work.chunks = @ + 1], expected,
                            read.record.next, bytes \o read.record.data)
    IN  IF next # <<>> THEN Joined(ReadRecord(store, maxPages, r, next[1]))
        ELSE IF ValueCommitment(bytes) = expected THEN [r EXCEPT !.record = bytes]
        ELSE Fails(r, "IntegrityFailure")

ReadValue(store, limits, r, leaf) ==
    IF leaf.value.length > limits.value THEN Fails(r, "ResourceLimit")
    ELSE ReadChunks(store, limits.pages, r, leaf.value, leaf.chunk, <<>>)

-----------------------------------------------------------------------------
(* Lookup *)

ChildOf(branch, rightward) == IF rightward THEN branch.right ELSE branch.left

\* From a link down to the leaf that key leads to; path is the route so far.
RECURSIVE Walk(_, _, _, _, _, _)
Walk(store, limits, key, r, link, path) ==
    LET AtLeaf(read, leaf) ==
            IF ~ValidateRoute(key, leaf.key, path) THEN Fails(read, "IntegrityFailure")
            ELSE IF leaf.key # key THEN [read EXCEPT !.record = <<>>]
            ELSE [ReadValue(store, limits, read, leaf) EXCEPT !.record = <<@>>]
        AtBranch(read, node, rightward) ==
            IF Len(path) >= limits.branches THEN Fails(read, "ResourceLimit")
            ELSE IF \/ path # <<>> /\ Last(path).bit >= node.bit
                    \/ ChildOf(node, rightward).claimed.entries >= link.claimed.entries
                 THEN Fails(read, "IntegrityFailure")
            ELSE Walk(store, limits, key, [read EXCEPT !.work.branches = @ + 1],
                      ChildOf(node, rightward),
                      Append(path, [bit |-> node.bit, sibling |-> ChildOf(node, ~rightward).claimed]))
        From(read) ==
            IF read.error # "none" THEN read
            ELSE IF read.record.kind = "leaf" THEN AtLeaf(read, read.record)
            ELSE AtBranch(read, read.record, Bit(key, read.record.bit))
    IN  From(ReadNode(store, limits.pages, r, link))

RootLink(tree) == [location |-> tree.root[1], claimed |-> tree.commitment]

\* The exact root a result was read from.
IdentityOf(tree) == <<tree.revision, RootLink(tree)>>

LookupAnswer(r) ==
    [error |-> r.error, value |-> IF r.error = "none" THEN r.record ELSE <<>>,
     work |-> IF r.error = "none" THEN r.work ELSE NoWork, cache |-> r.cache]

\* A found value is kept; an absent key is not.
KeepFound(tree, key, answer) ==
    IF answer.cache = <<>> \/ answer.error # "none" \/ answer.value = <<>> THEN answer
    ELSE [answer EXCEPT !.cache =
            <<LookupInsert(@[1], IdentityOf(tree), key, answer.value[1], answer.work)>>]

Lookup(packs, tree, key, limits, cache) ==
    LET store == [packs |-> packs, revision |-> tree.revision]
        hit == IF cache = <<>> \/ tree.root = <<>> THEN <<>>
               ELSE LookupGet(cache[1], IdentityOf(tree), key, limits)
    IN  IF tree.root = <<>>
        THEN [error |-> IF tree.commitment = EmptyCommitment THEN "none" ELSE "IntegrityFailure",
              value |-> <<>>, work |-> NoWork, cache |-> cache]
        ELSE IF hit # <<>> THEN [hit[1] EXCEPT !.cache = <<@>>]
        ELSE KeepFound(tree, key,
                       LookupAnswer(Walk(store, limits, key, NewReader(cache), RootLink(tree), <<>>)))

-----------------------------------------------------------------------------
(* Cursors: the entries of [lower, upper), or downwards those of (lower, upper] *)

NoCursorWork ==
    [pages |-> 0, branches |-> 0, chunks |-> 0, candidates |-> 0, returned |-> 0, bytes |-> 0]

BoundsAreOrdered(lower, upper) == upper # <<>> => KeyAtMost(lower, upper[1])

NewCursor(tree, request, limits) ==
    [tree |-> tree, request |-> request, limits |-> limits, path |-> <<>>, previous |-> <<>>,
     work |-> NoCursorWork, started |-> FALSE, failed |-> FALSE,
     done |-> tree.root = <<>> \/ request.upper = <<request.lower>>]

SeekBound(request) ==
    IF request.reverse THEN request.upper
    ELSE IF request.lower = <<>> THEN <<>> ELSE <<request.lower>>

StoreOf(packs, c) == [packs |-> packs, revision |-> c.tree.revision]

\* A step in progress: the cursor, its reader and the optional leaf it has reached.
At(c, r, leaf) == [c |-> c, r |-> r, leaf |-> leaf]

ProofOf(path) ==
    [i \in DOMAIN path |->
        [bit |-> path[i].bit, sibling |-> ChildOf(path[i], ~path[i].rightward).claimed]]

LeafIsProven(c, leaf) ==
    /\ \A i \in DOMAIN c.path : Bit(leaf.key, c.path[i].bit) = c.path[i].rightward
    /\ Verify(c.tree.commitment, leaf.key, <<[key |-> leaf.key, value |-> leaf.value]>>,
              ProofOf(c.path)) = Admitted(<<leaf.value>>)

PushFrame(c, link, node, rightward) ==
    LET path == Append(c.path, [original |-> link, left |-> node.left, right |-> node.right,
                                bit |-> node.bit, rightward |-> rightward])
    IN  [c EXCEPT !.path = path, !.work.branches = Max({@, Len(path)})]

\* Down to a leaf: towards the bound while seeking, else to the near end of the subtree.
RECURSIVE Descend(_, _, _, _, _)
Descend(packs, c, r, link, seek) ==
    LET counted == [c EXCEPT !.work.candidates = @ + 1]
        AtLeaf(read, leaf) ==
            IF LeafIsProven(c, leaf) THEN At(counted, read, <<leaf>>)
            ELSE At(counted, Fails(read, "IntegrityFailure"), <<>>)
        AtBranch(read, node, rightward) ==
            IF Len(c.path) >= c.limits.branches THEN At(c, Fails(read, "ResourceLimit"), <<>>)
            ELSE IF \/ c.path # <<>> /\ Last(c.path).bit >= node.bit
                    \/ Max({node.left.claimed.entries, node.right.claimed.entries})
                           >= link.claimed.entries
                 THEN At(c, Fails(read, "IntegrityFailure"), <<>>)
            ELSE Descend(packs, PushFrame(c, link, node, rightward), read, ChildOf(node, rightward),
                         seek)
        From(read) ==
            IF read.error # "none" THEN At(c, read, <<>>)
            ELSE IF read.record.kind = "leaf" THEN AtLeaf(read, read.record)
            ELSE AtBranch(read, read.record,
                          IF seek THEN Bit(SeekBound(c.request)[1], read.record.bit)
                          ELSE c.request.reverse)
    IN  IF link.claimed.entries = 1 /\ c.work.candidates >= c.limits.candidates
        THEN At(c, Fails(r, "ResourceLimit"), <<>>)
        ELSE From(ReadNode(StoreOf(packs, c), c.limits.pages - c.work.pages, r, link))

\* The next leaf: from the lowest branch of the path whose far side was not visited yet.
Advance(packs, c, r) ==
    LET open == {i \in DOMAIN c.path : c.path[i].rightward = c.request.reverse}
        at == Max(open)
        turned == [c EXCEPT !.path = Append(SubSeq(c.path, 1, at - 1),
                                            [c.path[at] EXCEPT !.rightward = ~c.request.reverse])]
    IN  IF open = {} THEN At([c EXCEPT !.path = <<>>], r, <<>>)
        ELSE Descend(packs, turned, r, ChildOf(c.path[at], ~c.request.reverse), FALSE)

\* From the leaf the bound leads to, to the first leaf of the range.
SettleSeek(packs, reached, bound) ==
    LET c == reached.c
        key == reached.leaf[1].key
        keep == BranchesAbove(c.path, FirstDifference(key, bound))
        cut == [c EXCEPT !.path = SubSeq(@, 1, keep)]
    IN  IF key = bound THEN reached
        ELSE IF KeyBefore(key, bound) # c.request.reverse THEN Advance(packs, cut, reached.r)
        ELSE IF keep < Len(c.path)
             THEN Descend(packs, cut, reached.r, c.path[keep + 1].original, FALSE)
        ELSE reached

Seek(packs, c, r) ==
    LET bound == SeekBound(c.request)
        From(reached) ==
            IF bound = <<>> \/ reached.r.error # "none" THEN reached
            ELSE SettleSeek(packs, reached, bound[1])
    IN  From(Descend(packs, [c EXCEPT !.started = TRUE], r, RootLink(c.tree), bound # <<>>))

\* A leaf that a correct tree could not yield here, and one beyond the end of the range.
OutOfOrder(c, key) ==
    \/ c.request.reverse /\ c.request.upper # <<>> /\ KeyBefore(c.request.upper[1], key)
    \/ ~c.request.reverse /\ KeyBefore(key, c.request.lower)
    \/ /\ c.previous # <<>>
       /\ IF c.request.reverse THEN KeyAtMost(c.previous, key) ELSE KeyAtMost(key, c.previous)

RangeEnded(c, key) ==
    IF c.request.reverse THEN KeyAtMost(key, c.request.lower)
    ELSE c.request.upper # <<>> /\ KeyAtMost(c.request.upper[1], key)

\* The work of a step counts whether it succeeds or not; an error ends the cursor.
Settled(c, r, entry, done) ==
    LET failed == r.error # "none"
        worked == [c EXCEPT !.work.pages = @ + r.work.pages, !.work.chunks = @ + r.work.chunks]
    IN  [error |-> r.error, entry |-> entry, cache |-> r.cache,
         c |-> IF failed THEN [worked EXCEPT !.failed = TRUE, !.path = <<>>, !.previous = <<>>]
               ELSE [worked EXCEPT !.done = done]]

YieldLeaf(packs, c, r, leaf) ==
    LET bytes == c.work.bytes + Len(leaf.key) + leaf.value.length
        moved == [c EXCEPT !.previous = leaf.key, !.work.returned = @ + 1, !.work.bytes = bytes]
        With(read) ==
            IF read.error # "none" THEN Settled(c, read, <<>>, FALSE)
            ELSE Settled(moved, read, <<[key |-> leaf.key, value |-> read.record]>>, FALSE)
    IN  IF bytes > c.limits.bytes THEN Settled(c, Fails(r, "ResourceLimit"), <<>>, FALSE)
        ELSE With(ReadChunks(StoreOf(packs, c), c.limits.pages - c.work.pages, r, leaf.value,
                             leaf.chunk, <<>>))

\* One step of a cursor: [error, entry, cache, c].
Next1(packs, c, cache) ==
    LET r == NewReader(cache)
        From(reached) ==
            IF reached.r.error # "none" THEN Settled(reached.c, reached.r, <<>>, FALSE)
            ELSE IF reached.leaf = <<>> THEN Settled(reached.c, reached.r, <<>>, TRUE)
            ELSE IF OutOfOrder(reached.c, reached.leaf[1].key)
                 THEN Settled(reached.c, Fails(reached.r, "IntegrityFailure"), <<>>, FALSE)
            ELSE IF RangeEnded(reached.c, reached.leaf[1].key)
                 THEN Settled(reached.c, reached.r, <<>>, TRUE)
            ELSE YieldLeaf(packs, reached.c, reached.r, reached.leaf[1])
    IN  IF c.failed THEN [error |-> "NeedsRecovery", entry |-> <<>>, cache |-> cache, c |-> c]
        ELSE IF c.done THEN [error |-> "none", entry |-> <<>>, cache |-> cache, c |-> c]
        ELSE From(IF c.started THEN Advance(packs, c, r) ELSE Seek(packs, c, r))

\* All the entries of a cursor: [error, entries, work, cache].
RECURSIVE Drain(_, _, _, _)
Drain(packs, c, cache, entries) ==
    LET After(step) ==
            IF step.error # "none"
            THEN [error |-> step.error, entries |-> <<>>, work |-> NoCursorWork, cache |-> step.cache]
            ELSE IF step.entry = <<>>
            THEN [error |-> "none", entries |-> entries, work |-> step.c.work, cache |-> step.cache]
            ELSE Drain(packs, step.c, step.cache, Append(entries, step.entry[1]))
    IN  After(Next1(packs, c, cache))

KeepRange(tree, request, answer) ==
    IF answer.cache = <<>> \/ answer.error # "none" \/ tree.root = <<>> THEN answer
    ELSE IF ~RangeIsConsistent(answer.entries, answer.work)
         THEN [answer EXCEPT !.error = "InvalidState", !.entries = <<>>, !.work = NoCursorWork]
    ELSE [answer EXCEPT !.cache =
            <<RangeInsert(@[1], IdentityOf(tree), request, answer.entries, answer.work)>>]

RangeOf(packs, tree, request, limits, cache) ==
    LET hit == IF cache = <<>> \/ tree.root = <<>> THEN <<>>
               ELSE RangeGet(cache[1], IdentityOf(tree), request, limits)
    IN  IF hit # <<>> THEN [hit[1] EXCEPT !.cache = <<@>>]
        ELSE KeepRange(tree, request, Drain(packs, NewCursor(tree, request, limits), cache, <<>>))
=============================================================================
