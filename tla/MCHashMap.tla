----------------------------- MODULE MCHashMap -----------------------------
(* TC_HashMap with up to three blocks and three keys of one bucket: lists  *)
(* of three records under a crash, two crashes in a row, write-back rounds *)
(* alone and among deletions and evictions, backup rounds, no eviction at  *)
(* all, and every operation together.                                      *)
EXTENDS HashMap, TLC

OneBucket == [k \in Keys |-> CHOOSE i \in Buckets : TRUE]

Mode(ops, size, c, n) ==
  [ops |-> ops, size |-> size, calls |-> c, crashes |-> n, dirty |-> {1},
   autoErase |-> TRUE, eraseBySet |-> FALSE]

AllOps ==
  {"set", "setKey", "get", "del", "recover", "setDirty", "setClean", "checkDirty",
   "setDirtyAfterSync", "sync", "syncNext", "backup", "backupNext", "erase"}

HashModes ==
  { Mode({"set", "get", "del", "recover"}, 3, 6, 1),
    Mode({"set", "recover"}, 2, 4, 2),
    [Mode({"set", "setKey", "setDirty", "setClean", "sync", "syncNext"}, 3, 5, 0)
       EXCEPT !.dirty = {0, 1}],
    Mode({"set", "setDirty", "setClean", "del", "erase", "sync", "syncNext"}, 3, 6, 0),
    Mode({"set", "del", "erase", "sync", "syncNext"}, 2, 8, 0),
    Mode({"set", "get", "del", "erase", "backup", "backupNext"}, 3, 7, 0),
    Mode({"set", "setKey"}, 2, 4, 1),
    [Mode({"set", "setKey"}, 1, 3, 0) EXCEPT !.autoErase = FALSE],
    [Mode(AllOps, 2, 3, 1) EXCEPT !.eraseBySet = TRUE] }

Symmetry == Permutations(Blocks) \union Permutations(Keys)
=============================================================================
