------------------------------ MODULE IndexRun ------------------------------
(***************************************************************************)
(* Immutable sorted runs (uste-storage, index.rs and index_sparse.rs).     *)
(* A run is a sequence of pages and a page a sequence of fragments: a      *)
(* value that does not fit the rest of its page goes on in the next one.   *)
(* A run is written once, from entries in order or by merging an earlier   *)
(* run with exact changes, and then read by key, by greatest key at or     *)
(* before a bound, by prefix, or whole.                                    *)
(*                                                                         *)
(* A page that authenticates is the page that was written, so pages are    *)
(* read as they are; the page cache, whose keys name run and page, is left *)
(* out.  A digest is what it covers: the entries.  held is the map that    *)
(* the run stands for, kept to state the properties.                       *)
(***************************************************************************)
EXTENDS Integers, Sequences, FiniteSets, SequencesExt

CONSTANTS
    RunPageBytes,       \* room of a page behind its header
    FragmentHeader,     \* bytes of a fragment besides key and value
    MaxKeyBytes, MaxValueBytes, MaxRunPages, MaxRunEntries,
    Stride,             \* fragments between two fences of a page
    RunValues, RunInputs, RunChanges, ProbeKeys,    \* what the operations are tried with
    GetLimits, ScanLimits, ReadLimits, MergeLimits  \* and within which limits

VARIABLES
    run,                \* optional [pages, entries, digest]
    held,               \* key -> value, in ghost
    said                \* optional outcome of the last operation

runVars == <<run, held, said>>

Before(a, b) ==
    \/ IsStrictPrefix(a, b)
    \/ \E i \in DOMAIN a \cap DOMAIN b :
        a[i] < b[i] /\ \A j \in 1..i - 1 : a[j] = b[j]

Lesser(a, b) == IF a < b THEN a ELSE b

KeyFits(key) == key # <<>> /\ Len(key) <= MaxKeyBytes

EntryBytes(entry) == Len(entry.key) + Len(entry.value)

BytesOf(entries) == FoldLeft(LAMBDA sum, entry : sum + EntryBytes(entry), 0, entries)

-----------------------------------------------------------------------------
(* Writing *)

NewWriter == [pages |-> <<>>, page |-> <<>>, digest |-> <<>>, error |-> "none"]

FragmentBytes(f) == FragmentHeader + Len(f.key) + Len(f.value)

Room(w) == RunPageBytes - FoldLeft(LAMBDA sum, f : sum + FragmentBytes(f), 0, w.page)

Refuse(w, error) == [w EXCEPT !.error = error]

FlushPage(w) ==
    IF w.error # "none" THEN w
    ELSE IF w.page = <<>> THEN Refuse(w, "InvalidState")
    ELSE IF Len(w.pages) >= MaxRunPages THEN Refuse(w, "ResourceLimit")
    ELSE [w EXCEPT !.pages = Append(@, w.page), !.page = <<>>]

FragmentAt(entry, offset, length) ==
    [key |-> entry.key, total |-> Len(entry.value), offset |-> offset,
     value |-> SubSeq(entry.value, offset + 1, offset + length)]

RECURSIVE Place(_, _, _)

\* One fragment of a length, and the rest behind it on the next page.
PlaceFragment(w, entry, offset, length) ==
    LET placed == [w EXCEPT !.page = Append(@, FragmentAt(entry, offset, length))]
    IN  IF offset + length = Len(entry.value) THEN placed
        ELSE Place(FlushPage(placed), entry, offset + length)

\* A page with room for the key, and for this much of the value.
PlaceInto(w, entry, offset, available) ==
    IF w.error # "none" THEN w
    ELSE IF available < 0 THEN Refuse(w, "ResourceLimit")
    ELSE IF available = 0 /\ offset < Len(entry.value) THEN Place(FlushPage(w), entry, offset)
    ELSE PlaceFragment(w, entry, offset, Lesser(available, Len(entry.value) - offset))

WithRoom(w, required) == IF Room(w) < required THEN FlushPage(w) ELSE w

PlaceOn(w, entry, offset, required) == PlaceInto(w, entry, offset, Room(w) - required)

\* The fragments of an entry from an offset on.
Place(w, entry, offset) ==
    LET required == FragmentHeader + Len(entry.key)
    IN  PlaceOn(WithRoom(w, required), entry, offset, required)

Push(w, entry) ==
    IF w.error # "none" THEN w
    ELSE IF \/ ~KeyFits(entry.key)
            \/ Len(entry.value) > MaxValueBytes
            \/ w.digest # <<>> /\ ~Before(Last(w.digest).key, entry.key)
         THEN Refuse(w, "InvalidState")
    ELSE IF Len(w.digest) >= MaxRunEntries THEN Refuse(w, "ResourceLimit")
    ELSE Place([w EXCEPT !.digest = Append(@, entry)], entry, 0)

Finish(w) ==
    IF w.error # "none" THEN w
    ELSE IF w.digest = <<>> THEN Refuse(w, "InvalidState")
    ELSE IF w.page # <<>> THEN FlushPage(w) ELSE w

Described(w) == [pages |-> w.pages, entries |-> Len(w.digest), digest |-> w.digest]

WriteRun(entries) == Finish(FoldLeft(Push, NewWriter, entries))

-----------------------------------------------------------------------------
(* Reading whole runs *)

FragmentIsValid(f) ==
    /\ KeyFits(f.key)
    /\ f.total <= MaxValueBytes
    /\ f.offset + Len(f.value) <= f.total
    /\ f.total # 0 => f.value # <<>>

\* What parsing a page demands of its fragments, one by one and in order.
PageIsValid(page) ==
    /\ page # <<>>
    /\ \A i \in DOMAIN page : FragmentIsValid(page[i])
    /\ \A i \in 2..Len(page) :
        \/ Before(page[i - 1].key, page[i].key)
        \/ page[i - 1].key = page[i].key /\ page[i - 1].offset < page[i].offset

\* A fragment that continues the entry of a reader: key, total and offset must be the next ones.
Continues(r, f) == r.key = f.key /\ r.total = f.total /\ Len(r.value) = f.offset

\* A reader that has not begun an entry takes its key and total from the fragment.
Begin(r, f) == [r EXCEPT !.begun = TRUE, !.key = f.key, !.total = f.total, !.value = <<>>]

Stop(r, error) == [r EXCEPT !.error = error]

Complete(r, f) == Len(r.value) + Len(f.value) = f.total

Longer(r, f) == [r EXCEPT !.value = @ \o f.value]

EntryOf(r, f) == [key |-> f.key, value |-> r.value \o f.value]

NewCursor == [begun |-> FALSE, key |-> <<>>, total |-> 0, value |-> <<>>, entries |-> <<>>,
              error |-> "none"]

\* An entry of a whole run is complete.
AcceptEntry(described, limits, r, entry) ==
    IF Len(r.entries) + 1 > described.entries THEN Stop(r, "IntegrityFailure")
    ELSE IF Len(r.entries) + 1 > limits.entries THEN Stop(r, "ResourceLimit")
    ELSE [r EXCEPT !.begun = FALSE, !.entries = Append(@, entry)]

\* A reader within an entry takes its next fragment.
AcceptNext(described, limits, r, f) ==
    IF ~Continues(r, f) THEN Stop(r, "IntegrityFailure")
    ELSE IF ~Complete(r, f) THEN Longer(r, f)
    ELSE AcceptEntry(described, limits, r, EntryOf(r, f))

AcceptFragment(described, limits, r, f) ==
    IF r.error # "none" THEN r
    ELSE IF r.begun THEN AcceptNext(described, limits, r, f)
    ELSE IF f.offset # 0 \/ (r.entries # <<>> /\ ~Before(Last(r.entries).key, f.key))
         THEN Stop(r, "IntegrityFailure")
    ELSE IF BytesOf(r.entries) + Len(f.key) + f.total > limits.bytes THEN Stop(r, "ResourceLimit")
    ELSE AcceptNext(described, limits, Begin(r, f), f)

FinishRead(described, r) ==
    IF \/ r.error # "none"
       \/ ~r.begun /\ Len(r.entries) = described.entries /\ r.entries = described.digest
    THEN r ELSE Stop(r, "IntegrityFailure")

\* The entries a cursor yields, and the error it ends with.
ReadRun(described, limits) ==
    LET Accept(r, f) == AcceptFragment(described, limits, r, f)
        AcceptPage(r, page) ==
            IF PageIsValid(page) THEN FoldLeft(Accept, r, page)
            ELSE IF r.error # "none" THEN r ELSE Stop(r, "IntegrityFailure")
    IN  IF Len(described.pages) > limits.pages \/ described.entries > limits.entries
        THEN Stop(NewCursor, "ResourceLimit")
        ELSE FinishRead(described, FoldLeft(AcceptPage, NewCursor, described.pages))

-----------------------------------------------------------------------------
(* Merging *)

DeltaBytes(d) ==
    Len(d.key) + (IF d.before = <<>> THEN 0 ELSE Len(d.before[1]))
               + (IF d.after = <<>> THEN 0 ELSE Len(d.after[1]))

\* A delta is drawn: in key order, and within the limits.
Draw(m, limits, d) ==
    IF m.previous # <<>> /\ ~Before(m.previous, d.key) THEN Refuse(m, "InvalidState")
    ELSE IF m.count + 1 > limits.deltas \/ m.deltaBytes + DeltaBytes(d) > limits.deltaBytes
         THEN Refuse(m, "ResourceLimit")
    ELSE [m EXCEPT !.delta = <<d>>, !.deltas = Tail(@), !.previous = d.key, !.count = @ + 1,
                   !.deltaBytes = @ + DeltaBytes(d)]

NextDelta(m, limits) ==
    IF m.error # "none" \/ m.deltas = <<>> THEN [m EXCEPT !.delta = <<>>]
    ELSE Draw(m, limits, Head(m.deltas))

\* An entry is drawn from the base; behind the last one comes the error its cursor ends with.
NextBase(m) ==
    IF m.error # "none" THEN m
    ELSE IF m.rest # <<>> THEN [m EXCEPT !.base = <<Head(m.rest)>>, !.rest = Tail(@)]
    ELSE [m EXCEPT !.base = <<>>, !.error = m.baseError]

Written(m, writer) == [m EXCEPT !.writer = writer, !.error = writer.error]

EmitMergedEntry(m, limits, entry) ==
    IF m.error # "none" THEN m
    ELSE IF \/ Len(m.writer.digest) + 1 > limits.entries
            \/ BytesOf(m.writer.digest) + EntryBytes(entry) > limits.bytes
         THEN Refuse(m, "ResourceLimit")
    ELSE Written(m, Push(m.writer, entry))

ApplyAbsentDelta(m, limits, d) ==
    IF d.before # <<>> \/ d.after = <<>> THEN Refuse(m, "InvalidState")
    ELSE EmitMergedEntry(m, limits, [key |-> d.key, value |-> d.after[1]])

ApplyMatchingDelta(m, limits, entry, d) ==
    IF d.before # <<entry.value>> THEN Refuse(m, "InvalidState")
    ELSE IF d.after = <<>> THEN m
    ELSE EmitMergedEntry(m, limits, [key |-> d.key, value |-> d.after[1]])

\* One turn of the merge: the smaller key goes first, equal keys go together.
MergeStep(m, limits) ==
    IF m.delta = <<>> \/ (m.base # <<>> /\ Before(m.base[1].key, m.delta[1].key))
    THEN NextBase(EmitMergedEntry(m, limits, m.base[1]))
    ELSE IF m.base = <<>> \/ Before(m.delta[1].key, m.base[1].key)
    THEN NextDelta(ApplyAbsentDelta(m, limits, m.delta[1]), limits)
    ELSE NextDelta(NextBase(ApplyMatchingDelta(m, limits, m.base[1], m.delta[1])), limits)

RECURSIVE MergeFrom(_, _)
MergeFrom(m, limits) ==
    IF m.error # "none" \/ (m.base = <<>> /\ m.delta = <<>>) THEN m
    ELSE MergeFrom(MergeStep(m, limits), limits)

\* The run that merging leaves, none when nothing is left: [run, error].
MergedRun(w) ==
    IF w.digest = <<>> THEN [run |-> <<>>, error |-> w.error]
    ELSE [run |-> <<Described(w)>>, error |-> w.error]

FinishMerge(m) ==
    IF m.error # "none" THEN [run |-> <<>>, error |-> m.error]
    ELSE MergedRun(IF m.writer.digest = <<>> THEN m.writer ELSE Finish(m.writer))

MergeWith(read, deltas, limits) ==
    FinishMerge(MergeFrom(NextDelta(
        NextBase([base |-> <<>>, rest |-> read.entries, baseError |-> read.error, delta |-> <<>>,
                  deltas |-> deltas, previous |-> <<>>, count |-> 0, deltaBytes |-> 0,
                  writer |-> NewWriter, error |-> "none"]), limits), limits))

MergeRun(base, deltas, limits) ==
    MergeWith(IF base = <<>> THEN NewCursor ELSE ReadRun(base[1], limits.base), deltas, limits)

-----------------------------------------------------------------------------
(* Reading by key *)

LastKey(page) == Last(page).key

NewReader == [begun |-> FALSE, key |-> <<>>, total |-> 0, value |-> <<>>, entries |-> <<>>,
              visits |-> 0, done |-> FALSE, error |-> "none"]

Closed(r) == r.done \/ r.error # "none"

\* Every page that is looked at counts, also one from the cache.
Visit(r, limits, page) ==
    IF r.visits + 1 > limits.visits THEN Stop(r, "ResourceLimit")
    ELSE IF ~PageIsValid(page) THEN Stop(r, "IntegrityFailure")
    ELSE [r EXCEPT !.visits = @ + 1]

RECURSIVE LowerBound(_, _, _, _, _, _)

\* The page in the middle has been visited.
Halve(pages, key, limits, r, low, high, middle) ==
    IF r.error # "none" THEN [r |-> r, page |-> low]
    ELSE IF Before(LastKey(pages[middle + 1]), key)
         THEN LowerBound(pages, key, limits, r, middle + 1, high)
    ELSE LowerBound(pages, key, limits, r, low, middle)

\* Binary search for the first page whose last key is at or behind the key: [r, page].
LowerBound(pages, key, limits, r, low, high) ==
    IF low = high THEN [r |-> r, page |-> low]
    ELSE LET middle == low + ((high - low) \div 2)
         IN  Halve(pages, key, limits, Visit(r, limits, pages[middle + 1]), low, high, middle)

FirstPage(pages, key, limits) == LowerBound(pages, key, limits, NewReader, 0, Len(pages))

\* The fragments from the block before the first fence that is at or behind the key.
FragmentsFrom(page, key) ==
    LET fences == {b \in 0..Len(page) - 1 : b % Stride = 0 /\ Before(page[b + 1].key, key)}
        block == IF Cardinality(fences) = 0 THEN 0 ELSE Cardinality(fences) - 1
    IN  IF Len(page) <= Stride THEN page ELSE SubSeq(page, block * Stride + 1, Len(page))

\* A reader goes on, page by page, until it is closed.
Walk(Fragments(_), Take(_, _), pages, start, limits, reader) ==
    LET TakeOpen(r, f) == IF Closed(r) THEN r ELSE Take(r, f)
        Enter(r, page) == IF Closed(r) THEN r ELSE FoldLeft(TakeOpen, r, Fragments(page))
        Turn(r, page) == IF Closed(r) THEN r ELSE Enter(Visit(r, limits, page), page)
    IN  FoldLeft(Turn, reader, SubSeq(pages, start + 1, Len(pages)))

\* An entry that was begun must not be left.
Ended(r) == IF r.error = "none" /\ r.begun THEN Stop(r, "IntegrityFailure") ELSE r

Found(r, f) == [r EXCEPT !.begun = FALSE, !.entries = Append(@, EntryOf(r, f))]

\* A reader within an entry takes its next fragment; done says that one entry is all it wants.
TakeNext(r, f, done) ==
    IF ~Continues(r, f) THEN Stop(r, "IntegrityFailure")
    ELSE IF Complete(r, f) THEN [Found(r, f) EXCEPT !.done = done]
    ELSE Longer(r, f)

\* A reader that wants this entry: it begins at offset zero, and its result must fit.
TakeFirst(r, f, fits, done) ==
    IF f.offset # 0 THEN Stop(r, "IntegrityFailure")
    ELSE IF ~fits THEN Stop(r, "ResourceLimit")
    ELSE TakeNext(Begin(r, f), f, done)

\* A reader meets a key behind those it wants.
Passed(r) == IF r.begun THEN Stop(r, "IntegrityFailure") ELSE [r EXCEPT !.done = TRUE]

GetFragment(key, limits, r, f) ==
    IF Before(f.key, key) THEN r
    ELSE IF f.key # key THEN Passed(r)
    ELSE IF r.begun THEN TakeNext(r, f, TRUE)
    ELSE TakeFirst(r, f, f.total <= limits.bytes, TRUE)

GetFrom(pages, key, limits, first) ==
    LET Fragments(page) == FragmentsFrom(page, key)
        Take(r, f) == GetFragment(key, limits, r, f)
    IN  IF Closed(first.r) THEN first.r
        ELSE Ended(Walk(Fragments, Take, pages, first.page, limits, first.r))

GetBounded(described, key, limits) ==
    IF ~KeyFits(key) THEN Stop(NewReader, "InvalidState")
    ELSE GetFrom(described.pages, key, limits, FirstPage(described.pages, key, limits))

\* A key without the prefix ends the scan, whatever was begun.
ScanFragment(prefix, limits, r, f) ==
    IF Before(f.key, prefix) THEN r
    ELSE IF ~IsPrefix(prefix, f.key) THEN [r EXCEPT !.done = TRUE]
    ELSE IF r.begun THEN TakeNext(r, f, FALSE)
    ELSE TakeFirst(r, f, /\ Len(r.entries) < limits.results
                         /\ BytesOf(r.entries) + Len(f.key) + f.total <= limits.bytes, FALSE)

Whole(page) == page

ScanFrom(pages, prefix, limits, first) ==
    LET Take(r, f) == ScanFragment(prefix, limits, r, f)
    IN  IF Closed(first.r) THEN first.r
        ELSE Ended(Walk(Whole, Take, pages, first.page, limits, first.r))

ScanPrefix(described, prefix, limits) ==
    IF ~KeyFits(prefix) THEN Stop(NewReader, "InvalidState")
    ELSE ScanFrom(described.pages, prefix, limits, FirstPage(described.pages, prefix, limits))

RECURSIVE StepBack(_, _, _, _)

\* Back to a page that does not begin in the middle of an entry: [r, page].
Backed(pages, page, limits, r) ==
    IF r.error # "none" \/ page = 0 \/ Head(pages[page + 1]).offset = 0
    THEN [r |-> r, page |-> page]
    ELSE StepBack(pages, page - 1, limits, r)

StepBack(pages, page, limits, r) ==
    Backed(pages, page, limits, Visit(r, limits, pages[page + 1]))

\* From the page before the one that the search found, or before the last one.
Preceding(pages, limits, low) ==
    LET probe == Lesser(low.page, Len(pages) - 1)
    IN  IF Closed(low.r) THEN low
        ELSE StepBack(pages, IF probe = 0 THEN 0 ELSE probe - 1, limits, low.r)

\* First pass: the keys with the prefix up to the bound; their values are not kept.
PassFragment(prefix, upper, r, f) ==
    IF r.begun /\ r.key # f.key THEN Stop(r, "IntegrityFailure")
    ELSE IF Before(upper, f.key) THEN Passed(r)
    ELSE IF ~IsPrefix(prefix, f.key) THEN r
    ELSE IF r.begun THEN TakeNext(r, f, FALSE)
    ELSE TakeFirst(r, f, TRUE, FALSE)

\* Second pass: the value of the last of them.
PickFragment(key, limits, r, f) ==
    IF Before(f.key, key) THEN r
    ELSE IF f.key # key THEN Stop(r, "IntegrityFailure")
    ELSE IF r.begun THEN TakeNext(r, f, TRUE)
    ELSE TakeFirst(r, f, Len(key) + f.total <= limits.bytes, TRUE)

Picked(r) == IF r.error = "none" /\ ~r.done THEN Stop(r, "IntegrityFailure") ELSE r

PickFrom(pages, page, limits, passed) ==
    LET Take(r, f) == PickFragment(Last(passed.entries).key, limits, r, f)
    IN  IF passed.error # "none" \/ passed.entries = <<>> THEN passed
        ELSE Picked(Walk(Whole, Take, pages, page, limits,
                         [NewReader EXCEPT !.visits = passed.visits]))

PredecessorFrom(pages, prefix, upper, limits, back) ==
    LET Take(r, f) == PassFragment(prefix, upper, r, f)
    IN  IF Closed(back.r) THEN back.r
        ELSE PickFrom(pages, back.page, limits,
                      Ended(Walk(Whole, Take, pages, back.page, limits, back.r)))

GetPredecessor(described, prefix, upper, limits) ==
    IF ~KeyFits(prefix) \/ ~KeyFits(upper) \/ ~IsPrefix(prefix, upper)
    THEN Stop(NewReader, "InvalidState")
    ELSE PredecessorFrom(described.pages, prefix, upper, limits,
            Preceding(described.pages, limits, FirstPage(described.pages, upper, limits)))

-----------------------------------------------------------------------------
(* The journal's index operations *)

RunInit == run = <<>> /\ held = <<>> /\ said = <<>>

SortedEntries(map) ==
    [i \in 1..Cardinality(DOMAIN map) |->
        LET key == SetToSortSeq(DOMAIN map, Before)[i] IN [key |-> key, value |-> map[key]]]

MapOf(entries) ==
    [key \in {entries[i].key : i \in DOMAIN entries} |->
        entries[CHOOSE i \in DOMAIN entries : entries[i].key = key].value]

Says(what) == said' = <<what>>

PublishIndexRun(entries) ==
    LET written == WriteRun(entries)
    IN  /\ run = <<>>
        /\ IF written.error # "none" THEN UNCHANGED <<run, held>>
           ELSE run' = <<Described(written)>> /\ held' = MapOf(entries)
        /\ Says([op |-> "publish", input |-> entries, error |-> written.error])

Changed(map, deltas) ==
    LET kept == DOMAIN map \ {deltas[i].key : i \in DOMAIN deltas}
        put == {i \in DOMAIN deltas : deltas[i].after # <<>>}
        keys == {deltas[i].key : i \in put}
    IN  [key \in kept \cup keys |->
            IF key \in kept THEN map[key]
            ELSE deltas[CHOOSE i \in put : deltas[i].key = key].after[1]]

MergeIndexRun(deltas, limits) ==
    LET merged == MergeRun(run, deltas, limits)
    IN  /\ IF merged.error # "none" THEN UNCHANGED <<run, held>>
           ELSE run' = merged.run /\ held' = Changed(held, deltas)
        /\ Says([op |-> "merge", input |-> deltas, limits |-> limits, base |-> run, was |-> held,
                 error |-> merged.error])

\* A read of the run: what was asked, and what came back.
Reads(op, input, limits, r) ==
    /\ Says([op |-> op, input |-> input, limits |-> limits, entries |-> r.entries,
             error |-> r.error])
    /\ UNCHANGED <<run, held>>

IndexGet(key, limits) == Reads("get", key, limits, GetBounded(run[1], key, limits))

IndexScanPrefix(prefix, limits) == Reads("scan", prefix, limits, ScanPrefix(run[1], prefix, limits))

IndexGetPredecessor(prefix, upper, limits) ==
    Reads("predecessor", <<prefix, upper>>, limits, GetPredecessor(run[1], prefix, upper, limits))

VisitIndexRun(limits) == Reads("visit", <<>>, limits, ReadRun(run[1], limits))

\* The caller takes the answer.
Taken == said # <<>> /\ said' = <<>> /\ UNCHANGED <<run, held>>

\* The before of a change: the value that is held, or any other.
BeforesOf(key, honest) ==
    LET actual == IF key \in DOMAIN held THEN <<held[key]>> ELSE <<>>
    IN  IF honest THEN {actual} ELSE ({<<>>} \cup {<<v>> : v \in RunValues}) \ {actual}

\* The sequences of deltas of a change [key, after, honest]; one of before and after is present.
DeltasOf(change) ==
    LET Befores(i) == BeforesOf(change[i].key, change[i].honest)
        DeltaWith(i, before) ==
            [key |-> change[i].key, before |-> before, after |-> change[i].after]
    IN  {[i \in DOMAIN change |-> DeltaWith(i, befores[i])] :
            befores \in {b \in [DOMAIN change -> UNION {Befores(i) : i \in DOMAIN change}] :
                \A i \in DOMAIN change :
                    b[i] \in Befores(i) /\ (b[i] # <<>> \/ change[i].after # <<>>)}}

\* The prefixes of a bound, the empty one among them, and a key that is none.
PrefixProbes(upper) == {SubSeq(upper, 1, n) : n \in 0..Len(upper)} \cup {Append(upper, 0)}

Writes ==
    \/ \E entries \in RunInputs : PublishIndexRun(entries)
    \/ \E change \in RunChanges, limits \in MergeLimits :
        \E deltas \in DeltasOf(change) : MergeIndexRun(deltas, limits)

Asks ==
    /\ run # <<>>
    /\ \/ \E key \in ProbeKeys, limits \in GetLimits : IndexGet(key, limits)
       \/ \E prefix \in ProbeKeys, limits \in ScanLimits : IndexScanPrefix(prefix, limits)
       \/ \E upper \in ProbeKeys, limits \in GetLimits :
            \E prefix \in PrefixProbes(upper) : IndexGetPredecessor(prefix, upper, limits)
       \/ \E limits \in ReadLimits : VisitIndexRun(limits)

RunNext == (said = <<>> /\ (Writes \/ Asks)) \/ Taken

-----------------------------------------------------------------------------
(* Properties *)

Sorted(keys) == \A i \in 2..Len(keys) : Before(keys[i - 1], keys[i])

KeysOf(seq) == [i \in DOMAIN seq |-> seq[i].key]

\* A run is a function of its entries: however it came about, its pages are those that writing the
\* entries anew gives, and reading it whole gives the entries back.
RunIsCanonical ==
    run # <<>> =>
        LET written == WriteRun(SortedEntries(held))
        IN  /\ written.error = "none"
            /\ run = <<Described(written)>>
            /\ run[1].digest = SortedEntries(held)

WithinRead(described, limits) ==
    /\ Len(described.pages) <= limits.pages
    /\ described.entries <= limits.entries
    /\ BytesOf(described.digest) <= limits.bytes

\* What a merge may be refused for.
MergeIsDue(m) ==
    LET after == SortedEntries(Changed(m.was, m.input))
    IN  /\ Sorted(KeysOf(m.input))
        /\ \A i \in DOMAIN m.input :
            IF m.input[i].key \in DOMAIN m.was THEN m.input[i].before = <<m.was[m.input[i].key]>>
            ELSE m.input[i].before = <<>>
        /\ m.base # <<>> => WithinRead(m.base[1], m.limits.base)
        /\ Len(m.input) <= m.limits.deltas
        /\ FoldLeft(LAMBDA sum, d : sum + DeltaBytes(d), 0, m.input) <= m.limits.deltaBytes
        /\ Len(after) <= m.limits.entries
        /\ BytesOf(after) <= m.limits.bytes
        /\ Len(after) > 0 => WriteRun(after).error = "none"

\* publish_run and merge_run: a run is canonical; changes are refused exactly when they are out of
\* order, do not match the base or exceed a limit, and a refused one leaves no run.
RunsAreCanonical ==
    /\ RunIsCanonical
    /\ said # <<>> /\ said[1].op = "merge" => (said[1].error = "none") = MergeIsDue(said[1])
    /\ said # <<>> /\ said[1].op = "publish" /\ said[1].error = "none" =>
        Sorted(KeysOf(said[1].input))

\* The visits of a binary search.
Bits(n) == CHOOSE b \in 0..n : 2^b > n /\ (b = 0 \/ 2^(b - 1) <= n)

\* The entries a read should give, and whether its limits leave room for it.
Wanted(q) ==
    LET all == SortedEntries(held)
        upTo == SelectSeq(all, LAMBDA e : IsPrefix(q.input[1], e.key) /\ ~Before(q.input[2], e.key))
    IN  CASE q.op = "get" -> SelectSeq(all, LAMBDA e : e.key = q.input)
          [] q.op = "scan" -> SelectSeq(all, LAMBDA e : IsPrefix(q.input, e.key))
          [] q.op = "predecessor" -> IF upTo = <<>> THEN <<>> ELSE <<Last(upTo)>>
          [] q.op = "visit" -> all

ResultFits(q) ==
    LET wanted == Wanted(q)
    IN  CASE q.op = "get" -> wanted # <<>> => Len(wanted[1].value) <= q.limits.bytes
          [] q.op = "scan" -> Len(wanted) <= q.limits.results /\ BytesOf(wanted) <= q.limits.bytes
          [] q.op = "predecessor" -> BytesOf(wanted) <= q.limits.bytes
          [] q.op = "visit" -> WithinRead(run[1], q.limits)

VisitsSuffice(q) ==
    LET pages == Len(run[1].pages)
    IN  CASE q.op \in {"get", "scan"} -> q.limits.visits >= pages + Bits(pages)
          [] q.op = "predecessor" -> q.limits.visits >= 3 * pages + Bits(pages)
          [] q.op = "visit" -> TRUE

InputFits(q) ==
    CASE q.op \in {"get", "scan"} -> KeyFits(q.input)
      [] q.op = "predecessor" ->
            KeyFits(q.input[1]) /\ KeyFits(q.input[2]) /\ IsPrefix(q.input[1], q.input[2])
      [] q.op = "visit" -> TRUE

\* index_get, index_get_predecessor, index_scan_prefix and visit_index_run: a read gives exactly
\* what the run holds; it never calls its own run damaged; it gives up only when the result or the
\* visits exceed the limits, and the visits that the largest limits allow always suffice.
RunReadsAreExact ==
    said # <<>> /\ said[1].op \in {"get", "scan", "predecessor", "visit"} =>
        LET q == said[1]
        IN  CASE ~InputFits(q) -> q.error = "InvalidState"
              [] q.error = "none" -> q.entries = Wanted(q) /\ ResultFits(q)
              [] OTHER -> q.error = "ResourceLimit" /\ ~(ResultFits(q) /\ VisitsSuffice(q))
=============================================================================
