----------------------------- MODULE ScanPaths ------------------------------
(***************************************************************************)
(* normalize_roots and collect_paths (src/scan/scanner.cpp) on a directory *)
(* tree that other programs change meanwhile: which files a scan finds.    *)
(* Each question to the file system is a step.                             *)
(***************************************************************************)
EXTENDS Naturals, Sequences, FiniteSets

CONSTANTS Path,      \* all the paths there may be
          Parent,    \* of each path; a path of the top is its own
          Name,      \* what roots may be called
          Canonical, \* the path of each name
          RootCount, MaxFiles,
          Cache,     \* the directory of the cache
          Trees,     \* what the paths are at first: [Path -> Kind]
          MaxChanges, ChangeKind, \* how many paths change, and to what
          None

\* A locked directory cannot be opened; a broken entry cannot be inspected.
Kind == {"absent", "file", "filelink", "dir", "locked", "dirlink", "broken"}

ASSUME TreeAssumption ==
  /\ IsFiniteSet(Path)
  /\ Parent \in [Path -> Path] /\ Canonical \in [Name -> Path] /\ Cache \in Path
  /\ Trees \subseteq [Path -> Kind]
  /\ RootCount \in Nat \ {0} /\ MaxFiles \in Nat \ {0} /\ MaxChanges \in Nat
  /\ ChangeKind \subseteq Kind
  /\ None \notin Path

VARIABLES
  kind, changed,     \* of each path; the paths whose kind has changed
  junctions,         \* links to directories look like directories (Windows)
  caching, stop,     \* whether a cache is in use; the caller's stop
  roots, todo,       \* the names given, and how many are dealt with
  dirs,              \* the iterator: of each open directory what is left of it
  entry, listed,     \* the entry it is at, and what this was when it was listed
  recurse,           \* recursion_pending
  status,            \* what the last inspection told
  paths, issues, pc

treeVars   == <<kind, changed, junctions>>
callVars   == <<caching, stop, roots>>
iterVars   == <<dirs, entry, listed, recurse>>
resultVars == <<paths, issues>>
vars == <<treeVars, callVars, todo, iterVars, status, resultVars, pc>>

Init == /\ kind \in Trees /\ changed = {} /\ junctions \in BOOLEAN
        /\ caching \in BOOLEAN /\ stop = FALSE
        /\ roots \in [1..RootCount -> Name] /\ todo = 0
        /\ dirs = << >> /\ entry = None /\ listed = "absent" /\ recurse = FALSE
        /\ status = "none"
        /\ paths = {} /\ issues = {}
        /\ pc = "normalize"

-----------------------------------------------------------------------------
(***************************************************************************)
(* The file system                                                         *)
(***************************************************************************)
Upward == {S \in SUBSET Path : \A x \in S : Parent[x] \in S}

AncestorsOf == [p \in Path |-> {q \in Path : \A S \in Upward : p \in S => q \in S}]

Ancestors(p) == AncestorsOf[p]  \* and p itself

\* The cache has been opened: its constructor makes the directory and resolves
\* the links on the way to it.  It may have gone, or become a file, since.
ASSUME CacheAssumption ==
  \A t \in Trees :
    /\ \A q \in Ancestors(Cache) \ {Cache} : t[q] \in {"dir", "locked"}
    /\ t[Cache] \in {"dir", "locked", "file", "absent"}

Children(p) == {q \in Path \ {p} : Parent[q] = p}

Real(p) == \A q \in Ancestors(p) \ {p} : kind[q] \in {"dir", "locked"}

\* Behind a link is another part of the disk, where anything may be.
BehindLink(p) == \E q \in Ancestors(p) \ {p} : kind[q] = "dirlink"

\* What following links finds (status).
Followed(p) ==
  CASE Real(p) /\ kind[p] \in {"file", "filelink"}         -> {"file"}
    [] Real(p) /\ kind[p] \in {"dir", "locked", "dirlink"} -> {"dir"}
    [] BehindLink(p)                                      -> {"file", "dir", "error"}
    [] OTHER                                              -> {"error"}

\* What a directory found earlier is now, links not followed (symlink_status, or
\* the attributes): a broken entry may be a link to nothing.
Unfollowed(p) ==
  CASE Real(p) /\ kind[p] \in {"dirlink", "filelink"}       -> {"link"}
    [] Real(p) /\ kind[p] \in {"dir", "locked", "file"}     -> {"dir"}
    [] Real(p) /\ kind[p] = "broken"                        -> {"link", "error"}
    [] BehindLink(p)                                        -> {"link", "dir", "error"}
    [] OTHER                                                -> {"error"}

\* Nothing is found on the way, or a file that a directory should be: not_found.
Gone(p) ==
  \E q \in Ancestors(p) :
    /\ Real(q)
    /\ kind[q] = "absent" \/ (q # p /\ kind[q] \in {"file", "filelink"})

Present(p) == {q \in Children(p) : kind[q] # "absent"}

Change(p, k) ==
  /\ Cardinality(changed) < MaxChanges
  /\ kind[p] # k
  /\ kind' = [kind EXCEPT ![p] = k]
  /\ changed' = changed \cup {p}
  /\ UNCHANGED <<junctions, callVars, todo, iterVars, status, resultVars, pc>>

RequestStop ==
  /\ ~stop /\ stop' = TRUE
  /\ UNCHANGED <<treeVars, caching, roots, todo, iterVars, status, resultVars, pc>>

-----------------------------------------------------------------------------
\* The iterator is destroyed.
Ended == /\ dirs' = << >> /\ entry' = None /\ listed' = "absent" /\ recurse' = FALSE
         /\ pc' = "root"

-----------------------------------------------------------------------------
(* Faulty variants, none of them part of the specification. *)

\* A directory that cannot be opened or read ends the iteration unnoticed.
IterationFailsSilently ==
  /\ Ended /\ UNCHANGED issues

\* Only the entries of the cache are compared with it, not what is above them.
InsideDirectly(p) == p = Cache

-----------------------------------------------------------------------------
(***************************************************************************)
(* normalize_roots: an error of any root is thrown.  A name that a change  *)
(* of the tree has put behind a link means another path: taken as an error.*)
(***************************************************************************)
NormalizeRoots ==
  /\ pc = "normalize"
  /\ pc' = IF \A n \in DOMAIN roots :
                LET p == Canonical[roots[n]] IN "error" \notin Followed(p) /\ kind[p] # "dirlink"
             THEN "root" ELSE "invalid"
  /\ UNCHANGED <<treeVars, callVars, todo, iterVars, status, resultVars>>

-----------------------------------------------------------------------------
(***************************************************************************)
(* collect_paths                                                           *)
(***************************************************************************)

\* inside, as long as the cache is a directory: the cache is one of the ancestors.
Inside(p) == Cache \in Ancestors(p)

Excluded(p) == caching /\ "dir" \in Followed(Cache) /\ Inside(p)

Issue(p) == issues' = issues \cup {p}

\* add: a path beyond the budget is thrown for.
Add(p, next) ==
  /\ paths' = paths \cup {p}
  /\ pc' = IF Cardinality(paths') > MaxFiles THEN "length" ELSE next

Root == Canonical[roots[todo]]

NextRoot ==
  /\ pc = "root"
  /\ IF todo = Len(roots) THEN pc' = "done" /\ UNCHANGED todo
     ELSE IF stop THEN pc' = "canceled" /\ UNCHANGED todo
     ELSE /\ todo' = todo + 1
          /\ pc' = IF Excluded(Canonical[roots[todo + 1]]) THEN "root" ELSE "inspectRoot"
  /\ UNCHANGED <<treeVars, callVars, iterVars, status, resultVars>>

\* is_regular_file: a root that is gone is opened all the same; another error is
\* thrown.  A broken root may be a link to nothing, which is gone.
InspectRoot ==
  /\ pc = "inspectRoot"
  /\ \/ "file" \in Followed(Root) /\ Add(Root, "root")
     \/ "dir" \in Followed(Root) /\ pc' = "openRoot" /\ UNCHANGED paths
     \/ "error" \in Followed(Root) /\ pc' = "openRoot" /\ UNCHANGED paths
     \/ "error" \in Followed(Root) /\ ~Gone(Root) /\ pc' = "invalid" /\ UNCHANGED paths
  /\ UNCHANGED <<treeVars, callVars, todo, iterVars, status, issues>>

\* The iterator is at an entry that was listed some time ago, or at the end.
At(stack) ==
  \/ \E n \in 1..Len(stack) :
       /\ \A m \in n + 1..Len(stack) : stack[m] = {}
       /\ \E q \in stack[n] :
            /\ dirs' = SubSeq([stack EXCEPT ![n] = @ \ {q}], 1, n)
            /\ entry' = q
            /\ listed' = IF kind[q] = "dirlink" /\ junctions THEN "dir" ELSE kind[q]
       /\ recurse' = TRUE
       /\ pc' = "inspect"
  \/ /\ \A m \in 1..Len(stack) : stack[m] = {}
     /\ Ended

\* The iteration of the root is over, with an issue.
IterationFails ==
  /\ Issue(IF entry = None THEN Root ELSE entry)
  /\ Ended

\* A directory is opened, and what is in it read little by little; entries of a
\* directory behind a link may be any.
Opened(p) == IF Real(p) /\ kind[p] = "dir" THEN {Present(p)}
             ELSE IF "dir" \in Followed(p) /\ kind[p] # "locked" THEN SUBSET Children(p)
             ELSE {}

OpenRoot ==
  /\ pc = "openRoot"
  /\ \/ \E content \in Opened(Root) : At(<<content>>) /\ UNCHANGED issues
     \/ Opened(Root) = {} /\ IterationFails
  /\ UNCHANGED <<treeVars, callVars, todo, status, paths>>

\* iterator->status
Inspect ==
  /\ pc = "inspect"
  /\ IF stop THEN pc' = "canceled" /\ UNCHANGED status
     ELSE /\ status' \in Followed(entry)
          /\ pc' = IF status' = "dir" THEN "link" ELSE "decide"
  /\ UNCHANGED <<treeVars, callVars, todo, iterVars, resultVars>>

\* directory_link, which does not follow links.
DirectoryLink ==
  /\ pc = "link"
  /\ status' \in Unfollowed(entry)
  /\ pc' = "decide"
  /\ UNCHANGED <<treeVars, callVars, todo, iterVars, resultVars>>

\* What the entry is decides whether it is added, entered or left alone.
Decide ==
  /\ pc = "decide"
  /\ recurse' = (recurse /\ status # "error" /\ status # "link"
                   /\ ~(status = "dir" /\ Excluded(entry)))
  /\ IF status = "error" THEN Issue(entry) ELSE UNCHANGED issues
  /\ IF status = "file" THEN Add(entry, "increment")
                        ELSE pc' = "increment" /\ UNCHANGED paths
  /\ status' = "none"
  /\ UNCHANGED <<treeVars, callVars, todo, dirs, entry, listed>>

\* iterator.increment: a directory that was listed as one is entered, without
\* following a link that has taken its place; junctions cannot be told from it.
Enterable == IF kind[entry] = "dirlink" /\ ~junctions THEN {} ELSE Opened(entry)

Increment ==
  /\ pc = "increment"
  /\ IF recurse /\ listed \in {"dir", "locked"}
       THEN \/ \E content \in Enterable : At(Append(dirs, content)) /\ UNCHANGED issues
            \/ Enterable = {} /\ IterationFails
       ELSE At(dirs) /\ UNCHANGED issues
  /\ UNCHANGED <<treeVars, callVars, todo, status, paths>>

\* An open directory may fail to be read any further.
ReadFails ==
  /\ pc = "increment" /\ IterationFails
  /\ UNCHANGED <<treeVars, callVars, todo, status, paths>>

Step == \/ NormalizeRoots \/ NextRoot \/ InspectRoot \/ OpenRoot \/ Inspect
        \/ DirectoryLink \/ Decide \/ Increment \/ ReadFails

Next == Step \/ RequestStop \/ \E p \in Path, k \in ChangeKind : Change(p, k)

Spec == Init /\ [][Next]_vars

-----------------------------------------------------------------------------
(***************************************************************************)
(* Properties.  They are about paths that nobody has touched since the     *)
(* call began, neither the paths themselves nor what is above them.        *)
(***************************************************************************)
Settled(p) == Ancestors(p) \cap changed = {}

\* A file in the place of the cache is no cache.
InCache(p) == caching /\ kind[Cache] \in {"dir", "locked"} /\ Cache \in Ancestors(p)

RootPaths == {Canonical[roots[n]] : n \in DOMAIN roots}

\* A file is wanted below a root that it is reached from through directories
\* alone, links to files included, unless it is in the cache.
Wanted(p) ==
  /\ kind[p] \in {"file", "filelink"}
  /\ RootPaths \cap Ancestors(p) # {}
  /\ Real(p)
  /\ ~InCache(p)

\* docs/api.md: a traversal error is an issue: a file that a scan should have
\* found and has not is one that a failure to read its root is reported for.
MissingHasIssue ==
  pc = "done" =>
    \A p \in Path : Wanted(p) /\ Settled(p) /\ Settled(Cache) /\ p \notin paths =>
      \E r \in RootPaths \cap Ancestors(p), q \in issues : r \in Ancestors(q)

\* Links to directories are never entered, and nothing of the cache is media:
\* whatever is found is a file that is wanted.  The budget holds for them all.
OnlyWanted ==
  /\ \A p \in paths : Settled(p) /\ Settled(Cache) => Wanted(p)
  /\ pc # "length" => Cardinality(paths) <= MaxFiles
=============================================================================
