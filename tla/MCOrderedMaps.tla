---------------------------- MODULE MCOrderedMaps ----------------------------
(* Enough keys for every rotation, recolouring, split, borrow, merge and    *)
(* rebuild of each structure.                                               *)
EXTENDS OrderedMaps

MCKinds == Plain \cup Cartesian \cup {"scapegoat", "splay", "b-tree", "skip-list", "veb", "x-fast", "y-fast"}

MCKeys ==
    [m \in MCKinds |->
        CASE m \in {"avl", "aa", "llrb", "b-tree"} -> 0..11
          [] m = "scapegoat" -> 0..7
          [] m \in {"weight-balanced", "splay"} -> 0..6
          [] m = "veb" -> 0..LargestKey \ {10, 13}
          [] m = "x-fast" -> {0, 1, 2, 4, 7, 8, 9, 14, 15}
          [] m = "y-fast" -> {0, 1, 5, 12, 15}
          [] OTHER -> 0..5]
==============================================================================
