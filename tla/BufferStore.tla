---------------------------- MODULE BufferStore ----------------------------
(***************************************************************************)
(* The directory of raw bodies (pkg/bufferstore/store.go): a file is       *)
(* written beside its place and renamed, and the directory is emptied when *)
(* a new file would exceed its limit.  The process may crash between two   *)
(* steps; the directory outlives it.  Files that cannot be looked at are   *)
(* not counted and files that cannot be removed stay: the save goes on,    *)
(* and left remembers them.  A name is <<id, final>>.                      *)
(***************************************************************************)
EXTENDS Naturals, FiniteSets, FiniteSetsExt

CONSTANTS
    Ids,        \* buffer ids
    Sizes,      \* sizes of a body
    MaxSize     \* buffer_max_storage, in the unit of Sizes; there is a limit

VARIABLES
    dir,        \* file name -> [size, whole]
    save,       \* the Save under way (under s.mu): its stage, id and size
    left        \* history: files the last save could not count or remove

vars == <<dir, save, left>>

Idle == [stage |-> "idle", id |-> CHOOSE i \in Ids : TRUE, size |-> 0]

Init == dir = <<>> /\ save = Idle /\ left = {}

Put(name, size, whole) ==
    [n \in DOMAIN dir \cup {name} |-> IF n = name THEN [size |-> size, whole |-> whole] ELSE dir[n]]
Only(names) == [n \in names |-> dir[n]]

\* getTotalSizeLocked, of the entries whose size could be read.
getTotalSizeLocked(names) ==
    MapThenFoldSet(+, 0, LAMBDA n : dir[n].size, LAMBDA S : CHOOSE x \in S : TRUE, names)

\* Variant for cleanupIfNeededLocked: the size of the new file is not counted.
cleanupIfNeededLockedLate(size) ==
    \/ \E seen \in SUBSET DOMAIN dir :
          getTotalSizeLocked(seen) <= MaxSize /\ dir' = dir /\ left' = DOMAIN dir \ seen
    \/ \E kept \in SUBSET DOMAIN dir :
          getTotalSizeLocked(DOMAIN dir) > MaxSize /\ dir' = Only(kept) /\ left' = kept

\* Every file goes, the left-over temporary ones too, but for those that cannot
\* be removed.  Nothing is seen when the directory cannot be read.
cleanupIfNeededLocked(size) ==
    \/ \E seen \in SUBSET DOMAIN dir :
          getTotalSizeLocked(seen) + size <= MaxSize /\ dir' = dir /\ left' = DOMAIN dir \ seen
    \/ \E kept \in SUBSET DOMAIN dir :
          getTotalSizeLocked(DOMAIN dir) + size > MaxSize /\ dir' = Only(kept) /\ left' = kept

\* Save takes the lock and makes room.
Begin(i, size) ==
    /\ save = Idle
    /\ cleanupIfNeededLocked(size)
    /\ save' = [stage |-> "write", id |-> i, size |-> size]

\* What a write that does not end leaves under a name: nothing new, or a part.
Torn(name) == dir' = dir \/ \E got \in 0..save.size : dir' = Put(name, got, FALSE)

\* Variant for WriteTemp: the file is written in its place.
WriteTempInPlace ==
    /\ save.stage = "write" /\ UNCHANGED left
    /\ \/ dir' = Put(<<save.id, TRUE>>, save.size, TRUE) /\ save' = [save EXCEPT !.stage = "rename"]
       \/ Torn(<<save.id, TRUE>>) /\ save' = Idle

\* os.WriteFile to the temporary name.
WriteTemp ==
    /\ save.stage = "write" /\ UNCHANGED left
    /\ \/ dir' = Put(<<save.id, FALSE>>, save.size, TRUE) /\ save' = [save EXCEPT !.stage = "rename"]
       \/ Torn(<<save.id, FALSE>>) /\ save' = Idle

\* os.Rename, or the removal of the temporary file, which may fail too.
Rename ==
    /\ save.stage = "rename" /\ UNCHANGED left
    /\ \/ dir' = [n \in (DOMAIN dir \cup {<<save.id, TRUE>>}) \ {<<save.id, FALSE>>} |->
                    IF n = <<save.id, TRUE>> THEN [size |-> save.size, whole |-> TRUE] ELSE dir[n]]
       \/ dir' = Only(DOMAIN dir \ {<<save.id, FALSE>>})
       \/ dir' = dir
    /\ save' = Idle

Delete(i) ==
    /\ save = Idle
    /\ dir' = Only(DOMAIN dir \ {<<i, TRUE>>}) /\ UNCHANGED <<save, left>>

\* Cleanup, by hand.
Cleanup ==
    /\ save = Idle
    /\ \E kept \in SUBSET DOMAIN dir : dir' = Only(kept)
    /\ UNCHANGED <<save, left>>

\* The process stops; a body being written may be cut short.
Crash ==
    /\ save # Idle /\ save' = Idle /\ UNCHANGED left
    /\ IF save.stage = "write" THEN Torn(<<save.id, FALSE>>) ELSE dir' = dir

Next ==
    \/ \E i \in Ids, size \in Sizes : Begin(i, size)
    \/ \E i \in Ids : Delete(i)
    \/ WriteTemp \/ Rename \/ Cleanup \/ Crash

Spec == Init /\ [][Next]_vars

-----------------------------------------------------------------------------
\* What Get can return is a body that was saved whole, whatever failed or
\* crashed while it or another one was written.
NoTornBuffer == \A n \in DOMAIN dir : n[2] => dir[n].whole

\* The files that the last save counted and could have removed stay within the
\* limit (and one body that exceeds it alone), those that crashes left behind
\* included: what is above the limit is what could not be counted or removed
\* ("storage limit is best effort").
DirectoryBounded == getTotalSizeLocked(DOMAIN dir \ left) <= Max(Sizes \cup {MaxSize})
=============================================================================
