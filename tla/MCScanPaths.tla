---------------------------- MODULE MCScanPaths -----------------------------
(***************************************************************************)
(* ScanPaths with a root, two directories in it, one of which may be the   *)
(* cache, and files in each.                                               *)
(***************************************************************************)
EXTENDS ScanPaths

MCPath   == {"r", "r/d", "r/d/x", "r/c", "r/c/e", "r/f"}
MCParent == [p \in MCPath |-> CASE p \in {"r/d", "r/c", "r/f"} -> "r"
                                [] p = "r/d/x" -> "r/d"
                                [] p = "r/c/e" -> "r/c"
                                [] OTHER -> p]

\* A link on the way to the root gives it another name.
MCName      == {"link/r", "r/d", "r/c/e"}
MCCanonical == [n \in MCName |-> IF n = "link/r" THEN "r" ELSE n]

MCTrees == {t \in [MCPath -> Kind] :
              /\ t["r"] = "dir"
              /\ t["r/c"] \in {"dir", "file"}
              /\ t["r/d"] \in {"dir", "locked", "dirlink"}
              /\ t["r/d/x"] = "file"
              /\ t["r/c/e"] = IF t["r/c"] = "dir" THEN "file" ELSE "absent"
              /\ t["r/f"] = "filelink"}
=============================================================================
