----------------------------- MODULE MCLSMStore -----------------------------
(* Model-checking instance of LSMStore: two keys (so that files can        *)
(* overlap or not), two values and the tombstone (so that a stale version  *)
(* is distinguishable from the newest one), one reader.                    *)
EXTENDS LSMStore

CONSTANTS a, b, r1

MCKeys    == {1, 2}
MCVals    == {a, b}
MCReaders == {r1}

\* A data folder left by an earlier run with one level-1 file, key 2 = b.
Level1Files == 0 :> [level |-> 1, data |-> (2 :> b)]

\* A data folder left by an earlier run whose level 2 holds key 1 = a.  (The
\* level-1 files such a folder also holds cover other keys; they take no part
\* in what happens to keys 1 and 2 in a level-0 compaction.)
Level2Files == 0 :> [level |-> 2, data |-> (1 :> a)]

\* A data folder left by a run that died between an AddFile that put a
\* third file on level 0 and the compaction it notified (level 0 was
\* already over its limit when the run before it died): key 1 = a alone,
\* then a delete of key 2 and a newer file setting it to a; level 1 holds
\* key 2 = b.  Compact(0) first moves the key-1 file down on its own, then
\* merges the two key-2 files with the level-1 file they overlap.
Level0Backlog ==
    0 :> [level |-> 1, data |-> (2 :> b)] @@
    1 :> [level |-> 0, data |-> (1 :> a)] @@
    2 :> [level |-> 0, data |-> (2 :> Tomb)] @@
    3 :> [level |-> 0, data |-> (2 :> a)]

\* One value besides the tombstone: a put and a delete still differ.
OneVal == {a}

\* The same kind of folder with one value, left when AddFile put a second
\* file on level 0: key 1 = a, and a delete of key 2, which level 1 holds
\* as a.  Compact(0) moves the key-1 file down on its own, which leaves
\* the delete alone on level 0, exactly at Level0Limit, for the next
\* Compact(0) to skip; the flush of the writes then merges with level 1.
Level0AtLimit ==
    0 :> [level |-> 1, data |-> (2 :> a)] @@
    1 :> [level |-> 0, data |-> (1 :> a)] @@
    2 :> [level |-> 0, data |-> (2 :> Tomb)]

\* The model follows the store up to its reopen: what a DataBase opened on
\* a folder does is what the runs starting from InitFiles check.
BeforeReopen == restarts = 0

\* Values are interchangeable for the safety properties.
ValSymmetry == Permutations(MCVals)
=============================================================================
