-------------------------- MODULE MCFileMemoryData --------------------------
(***************************************************************************)
(* Small instances of the file store.                                      *)
(***************************************************************************)
EXTENDS FileMemoryData, TLC

CONSTANTS p1, p2, r1, k1, k2

\* the first value is longer than the others
FirstLong == [k \in Keys |-> IF k = k1 THEN 2 ELSE 1]

ThreadsAlike == Permutations(Putters)
=============================================================================
