---------------------------- MODULE RequestStore ----------------------------
(***************************************************************************)
(* The in-memory list of recent requests (pkg/store/memory.go), bounded by *)
(* a number of entries and by a budget of bytes.  A handler keeps the      *)
(* RequestLog it has added, changes it in place without the store's lock   *)
(* and adds it again; the store remembers the size it last accounted.      *)
(***************************************************************************)
EXTENDS Integers, Sequences, SequencesExt, FiniteSetsExt

CONSTANTS
    Ids,        \* requests
    Tags,       \* Ids -> the app tag of each
    MaxSize,    \* entries kept
    MaxBytes,   \* the byte budget
    MaxGrowth   \* the largest RequestLog

VARIABLES
    size,       \* the current Size() of each handler's RequestLog
    requests,   \* the entries, oldest first
    sizeByID,   \* the size accounted for each entry
    totalBytes,
    cache,      \* appTagsCache
    dirty       \* appTagsCacheDirty

vars == <<size, requests, sizeByID, totalBytes, cache, dirty>>

Init ==
    /\ size = [i \in Ids |-> 1]
    /\ requests = <<>> /\ sizeByID = [i \in Ids |-> 0] /\ totalBytes = 0
    /\ cache = {} /\ dirty = FALSE

\* A handler appends to its RequestLog.
Grow(i) ==
    /\ size[i] < MaxGrowth
    /\ size' = [size EXCEPT ![i] = @ + 1]
    /\ UNCHANGED <<requests, sizeByID, totalBytes, cache, dirty>>

\* The store as a record, for the operations composed within one Add.
Store == [list |-> requests, sizes |-> sizeByID, total |-> totalBytes]

\* Variant for evictOldest: the entry's size is computed anew.
evictOldestAnew(s) ==
    [list |-> Tail(s.list), sizes |-> [s.sizes EXCEPT ![Head(s.list)] = 0],
     total |-> IF s.total < size[Head(s.list)] THEN 0 ELSE s.total - size[Head(s.list)]]

\* evictOldest; totalBytes never goes below zero.
evictOldest(s) ==
    [list |-> Tail(s.list), sizes |-> [s.sizes EXCEPT ![Head(s.list)] = 0],
     total |-> IF s.total < s.sizes[Head(s.list)] THEN 0 ELSE s.total - s.sizes[Head(s.list)]]

\* enforceBudget.
RECURSIVE enforceBudget(_)
enforceBudget(s) ==
    IF s.total > MaxBytes /\ s.list # <<>> THEN enforceBudget(evictOldest(s)) ELSE s

\* The overwrite path: the delta is taken against the accounted size.
Overwrite(i, s) ==
    enforceBudget([s EXCEPT !.sizes[i] = size[i], !.total = @ + size[i] - s.sizes[i]])

\* The path of a new entry: the count first, then the bytes.
Insert(i, s) ==
    LET room == IF Len(s.list) >= MaxSize THEN evictOldest(s) ELSE s
    IN  enforceBudget([list |-> Append(room.list, i), sizes |-> [room.sizes EXCEPT ![i] = size[i]],
                       total |-> room.total + size[i]])

\* Variant for Add: only a new entry invalidates the cache of tags.
AddCached(i) ==
    LET known == i \in ToSet(requests)
        s == IF known THEN Overwrite(i, Store) ELSE Insert(i, Store)
    IN  /\ requests' = s.list /\ sizeByID' = s.sizes /\ totalBytes' = s.total
        /\ dirty' = (dirty \/ ~known)
        /\ UNCHANGED <<size, cache>>

\* Add.
Add(i) ==
    LET s == IF i \in ToSet(requests) THEN Overwrite(i, Store) ELSE Insert(i, Store)
    IN  /\ requests' = s.list /\ sizeByID' = s.sizes /\ totalBytes' = s.total
        /\ dirty' = TRUE
        /\ UNCHANGED <<size, cache>>

TagsOf(list) == {Tags[list[k]] : k \in DOMAIN list}

\* GetUniqueAppTags: the cache is filled when it is dirty.
GetUniqueAppTags ==
    /\ dirty
    /\ cache' = TagsOf(requests) /\ dirty' = FALSE
    /\ UNCHANGED <<size, requests, sizeByID, totalBytes>>

Next == (\E i \in Ids : Grow(i) \/ Add(i)) \/ GetUniqueAppTags

Spec == Init /\ [][Next]_vars

-----------------------------------------------------------------------------
\* The shape of the store.
TypeOK ==
    /\ ToSet(requests) \subseteq Ids /\ Len(requests) <= MaxSize
    /\ \A i \in Ids : sizeByID[i] \in 0..MaxGrowth
    /\ totalBytes \in Nat /\ dirty \in BOOLEAN /\ cache \subseteq {Tags[i] : i \in Ids}

\* totalBytes is the sum of what is accounted, the list names each entry once,
\* and the budget holds after every Add, however the entries have grown since.
BytesExact ==
    /\ totalBytes = MapThenFoldSet(+, 0, LAMBDA i : sizeByID[i], LAMBDA S : CHOOSE x \in S : TRUE, Ids)
    /\ \A i \in Ids : sizeByID[i] > 0 <=> i \in ToSet(requests)
    /\ IsInjective(requests)
    /\ totalBytes <= MaxBytes

\* A clean cache of tags lists the tags of the entries there are, also after an
\* overwrite that evicted others.
TagsFresh == ~dirty => cache = TagsOf(requests)
=============================================================================
