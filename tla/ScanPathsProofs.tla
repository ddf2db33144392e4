-------------------------- MODULE ScanPathsProofs --------------------------
(***************************************************************************)
(* Theorems about ScanPaths, for any tree, roots, cache and changes.       *)
(*                                                                         *)
(* Everything is said of paths that nobody has touched, neither them nor   *)
(* what is above them: what was once seen of such a path still holds       *)
(* (SettledFrame).  The invariant says of each path that waits in the      *)
(* iterator that it was reached through real directories (Listed), of the  *)
(* entry in hand what each inspection told (Inspected), and of each wanted *)
(* file not found yet that something above it waits, that a root above it  *)
(* is still to come, or that there is an issue (Pursued).                  *)
(***************************************************************************)
EXTENDS ScanPaths, FiniteSetTheorems, SequenceTheorems, TLAPS

Iterating == {"inspect", "link", "decide", "increment"}
Resting   == {"normalize", "root", "inspectRoot", "openRoot", "done"}
Position  == Iterating \cup Resting \cup {"canceled", "length", "invalid"}

TypeOK ==
  /\ kind \in [Path -> Kind]
  /\ changed \in SUBSET Path
  /\ junctions \in BOOLEAN
  /\ caching \in BOOLEAN
  /\ stop \in BOOLEAN
  /\ roots \in [1..RootCount -> Name]
  /\ todo \in 0..RootCount
  /\ dirs \in Seq(SUBSET Path)
  /\ entry \in Path \cup {None}
  /\ listed \in Kind
  /\ recurse \in BOOLEAN
  /\ status \in {"none", "file", "dir", "link", "error"}
  /\ paths \in SUBSET Path
  /\ issues \in SUBSET Path
  /\ pc \in Position

\* Where the call stands.
Stages ==
  /\ pc \in Resting => dirs = << >> /\ entry = None
  /\ pc \in Iterating => entry \in Path
  /\ pc \in Iterating \cup {"inspectRoot", "openRoot"} => todo >= 1
  /\ pc = "normalize" => todo = 0
  /\ pc = "done" => todo = RootCount

\* Directories up to the path, and a directory itself.
Solid(p) == Real(p) /\ kind[p] \in {"dir", "locked"}

CacheReal == Settled(Cache) =>
  Real(Cache) /\ kind[Cache] \in {"dir", "locked", "file", "absent"}

\* What normalize_roots accepted.
RootsReal ==
  pc \notin {"normalize", "invalid"} =>
    \A r \in RootPaths : Settled(r) =>
      Real(r) /\ kind[r] \in {"file", "filelink", "dir", "locked"}

\* The root in hand is not in the cache.
OutOfCache(p) == ~(Settled(Cache) /\ InCache(p))

RootOutside == pc \in {"inspectRoot", "openRoot"} => OutOfCache(Root)

\* A path that the iterator may list: reached through real directories that
\* are not in the cache.
Listable(q) ==
  /\ Root \in Ancestors(q)
  /\ Settled(q) => Real(q)
  /\ OutOfCache(q) \/ q = Cache

\* All that waits in the open directories.
Heap(stack) == UNION {stack[n] : n \in 1..Len(stack)}

Listed ==
  /\ \A q \in Heap(dirs) : Listable(q)
  /\ entry # None => Listable(entry)

\* What an entry is when it is listed, as the iterator sees it.
Shown(p) == IF kind[p] = "dirlink" /\ junctions THEN "dir" ELSE kind[p]

\* What the inspections told of the entry.
Inspected ==
  /\ pc \in Iterating /\ Settled(entry) => listed = Shown(entry)
  /\ pc \in {"inspect", "link", "decide"} => recurse
  /\ pc = "link" /\ Settled(entry) => kind[entry] \in {"dir", "locked", "dirlink"}
  /\ pc = "decide" /\ Settled(entry) =>
       /\ status = "file" <=> kind[entry] \in {"file", "filelink"}
       /\ status = "dir" <=> kind[entry] \in {"dir", "locked"}
       /\ status = "link" <=> kind[entry] = "dirlink"
  /\ pc = "increment" /\ recurse =>
       /\ Settled(entry) => kind[entry] # "dirlink"
       /\ OutOfCache(entry)
  /\ pc = "increment" /\ ~recurse /\ Settled(entry) /\ kind[entry] \in {"dir", "locked"} =>
       caching /\ Cache \in Ancestors(entry)

\* A file that should be found, and is not yet.
Sought(p) == Wanted(p) /\ Settled(p) /\ Settled(Cache) /\ p \notin paths

Reported(r) == \E q \in issues : r \in Ancestors(q)

\* Something on the way to the path waits, or is in hand.
Ahead(p) == \E q \in Heap(dirs) : q \in Ancestors(p)

InHand(p) == /\ pc \in Iterating
             /\ entry \in Ancestors(p)
             /\ pc = "increment" => entry # p

Pursued ==
  pc \in Iterating \cup (Resting \ {"normalize"}) =>
    \A p \in Path, n \in 1..todo :
      Sought(p) /\ Canonical[roots[n]] \in Ancestors(p) =>
        \/ Reported(Canonical[roots[n]])
        \/ n = todo /\ (pc \in {"inspectRoot", "openRoot"} \/ Ahead(p) \/ InHand(p))

IInv == /\ TypeOK /\ Stages /\ CacheReal /\ RootsReal /\ RootOutside
        /\ Listed /\ Inspected /\ OnlyWanted /\ Pursued

-----------------------------------------------------------------------------
(***************************************************************************)
(* The tree.                                                               *)
(***************************************************************************)
LEMMA AncestorsBasic ==
  ASSUME NEW p \in Path
  PROVE  /\ p \in Ancestors(p)
         /\ Ancestors(p) \subseteq Path
         /\ \A q \in Ancestors(p) : Parent[q] \in Ancestors(p)
         /\ \A S \in Upward : p \in S => Ancestors(p) \subseteq S
<1>1. Ancestors(p) = {q \in Path : \A S \in Upward : p \in S => q \in S}
  BY DEF Ancestors, AncestorsOf
<1> QED BY <1>1, TreeAssumption DEF Upward

LEMMA AncestorsUpward ==
  ASSUME NEW p \in Path
  PROVE  Ancestors(p) \in Upward
  BY AncestorsBasic DEF Upward

LEMMA AncestorsTransitive ==
  ASSUME NEW p \in Path, NEW q \in Ancestors(p)
  PROVE  q \in Path /\ Ancestors(q) \subseteq Ancestors(p)
  BY AncestorsBasic, AncestorsUpward

LEMMA AncestorsChild ==
  ASSUME NEW d \in Path, NEW q \in Children(d)
  PROVE  /\ q \in Path /\ q # d
         /\ Ancestors(q) = {q} \cup Ancestors(d)
<1>1. q \in Path /\ q # d /\ Parent[q] = d
  BY DEF Children
<1>2. Ancestors(d) \subseteq Ancestors(q)
  BY <1>1, AncestorsBasic, AncestorsTransitive
<1>3. {q} \cup Ancestors(d) \in Upward
  BY <1>1, AncestorsBasic DEF Upward
<1>4. Ancestors(q) \subseteq {q} \cup Ancestors(d)
  BY <1>1, <1>3, AncestorsBasic
<1> QED BY <1>1, <1>2, <1>4, AncestorsBasic

\* The way from an ancestor down to a path begins with one of its children.
LEMMA WayDown ==
  ASSUME NEW p \in Path, NEW d \in Ancestors(p), d # p
  PROVE  \E c \in Children(d) : c \in Ancestors(p)
<1> DEFINE S == {x \in Ancestors(p) :
                   x = p \/ \E c \in Ancestors(p) : c # x /\ Parent[c] = x}
<1>1. p \in S
  BY AncestorsBasic
<1>2. S \in Upward
  <2>1. ASSUME NEW x \in S PROVE Parent[x] \in S
    <3>1. Parent[x] \in Ancestors(p)
      BY AncestorsBasic
    <3>2. CASE Parent[x] = x
      BY <3>2
    <3>3. CASE Parent[x] # x
      BY <3>1, <3>3
    <3> QED BY <3>2, <3>3
  <2>2. S \subseteq Path
    BY AncestorsBasic
  <2> HIDE DEF S
  <2> QED BY <2>1, <2>2 DEF Upward
<1>3. d \in S
  BY <1>1, <1>2, AncestorsBasic
<1>4. PICK c \in Ancestors(p) : c # d /\ Parent[c] = d
  BY <1>3
<1> QED BY <1>4, AncestorsBasic DEF Children

\* What is above an untouched path is untouched.
LEMMA SettledUp ==
  ASSUME NEW p \in Path, NEW q \in Ancestors(p), Settled(p)
  PROVE  Settled(q)
  BY AncestorsTransitive DEF Settled

\* What following links finds of a path behind no link.
LEMMA FollowedReal ==
  ASSUME NEW p \in Path, Real(p), kind[p] \in Kind
  PROVE  /\ kind[p] \in {"file", "filelink"} => Followed(p) = {"file"}
         /\ kind[p] \in {"dir", "locked", "dirlink"} => Followed(p) = {"dir"}
         /\ kind[p] \in {"absent", "broken"} => Followed(p) = {"error"}
  BY DEF Followed, Real, BehindLink, Kind

\* What not following them finds, of what was a directory to those who follow.
LEMMA UnfollowedReal ==
  ASSUME NEW p \in Path, Real(p), kind[p] \in {"dir", "locked", "dirlink"}
  PROVE  Unfollowed(p) = IF kind[p] = "dirlink" THEN {"link"} ELSE {"dir"}
  BY DEF Unfollowed, Real, BehindLink

LEMMA FollowedSome ==
  ASSUME NEW p \in Path, kind[p] \in Kind
  PROVE  /\ Followed(p) \subseteq {"file", "dir", "error"}
         /\ "error" \notin Followed(p) => Real(p)
  BY DEF Followed, Real, BehindLink, Kind

\* The children of a directory that was entered on real ground.
LEMMA SolidChildren ==
  ASSUME NEW d \in Path, Solid(d), NEW q \in Children(d)
  PROVE  Real(q)
  BY AncestorsChild DEF Solid, Real

-----------------------------------------------------------------------------
(***************************************************************************)
(* The iterator.                                                           *)
(***************************************************************************)
LEMMA HeapMember ==
  ASSUME NEW stack \in Seq(SUBSET Path)
  PROVE  /\ Heap(stack) \subseteq Path
         /\ \A q : q \in Heap(stack) <=> \E n \in 1..Len(stack) : q \in stack[n]
<1>1. \A n \in 1..Len(stack) : stack[n] \subseteq Path
  BY ElementOfSeq
<1> QED BY <1>1 DEF Heap

\* The iterator goes on with something that waits, or nothing does.
LEMMA AtEffect ==
  ASSUME NEW stack \in Seq(SUBSET Path), At(stack)
  PROVE  \/ /\ pc' = "inspect" /\ recurse' = TRUE
            /\ entry' \in Heap(stack) /\ listed' = Shown(entry')
            /\ dirs' \in Seq(SUBSET Path)
            /\ Heap(stack) = Heap(dirs') \cup {entry'}
         \/ Ended /\ Heap(stack) = {}
<1>t. Len(stack) \in Nat /\ \A n \in 1..Len(stack) : stack[n] \in SUBSET Path
  BY ElementOfSeq, LenProperties
<1>1. ASSUME NEW n \in 1..Len(stack),
             \A m \in n + 1..Len(stack) : stack[m] = {},
             NEW q \in stack[n],
             dirs' = SubSeq([stack EXCEPT ![n] = @ \ {q}], 1, n)
      PROVE  /\ q \in Heap(stack)
             /\ dirs' \in Seq(SUBSET Path)
             /\ Heap(stack) = Heap(dirs') \cup {q}
  <2> DEFINE rest == [stack EXCEPT ![n] = stack[n] \ {q}]
  <2>1. /\ rest \in Seq(SUBSET Path) /\ Len(rest) = Len(stack)
        /\ \A m \in 1..Len(stack) : rest[m] = IF m = n THEN stack[n] \ {q} ELSE stack[m]
    <3>1. stack[n] \ {q} \in SUBSET Path
      BY <1>t
    <3> QED BY <3>1, ExceptSeq
  <2>2. dirs' = SubSeq(rest, 1, n)
    BY <1>1
  <2> HIDE DEF rest
  <2>3. \A m \in 1..n : rest[m] \in SUBSET Path
    BY <1>t, <2>1
  <2>4. /\ SubSeq(rest, 1, n) \in Seq(SUBSET Path)
        /\ Len(SubSeq(rest, 1, n)) = n
        /\ \A m \in 1..n : SubSeq(rest, 1, n)[m] = rest[m]
    <3>1. 1 \in Int /\ n \in Int /\ 1 <= n
      BY <1>t
    <3>2. /\ SubSeq(rest, 1, n) \in Seq(SUBSET Path)
          /\ Len(SubSeq(rest, 1, n)) = IF 1 <= n THEN n - 1 + 1 ELSE 0
          /\ \A m \in 1..n - 1 + 1 : SubSeq(rest, 1, n)[m] = rest[1 + m - 1]
      BY <2>3, <3>1, SubSeqProperties
    <3> QED BY <3>1, <3>2
  <2>5. /\ dirs' \in Seq(SUBSET Path) /\ Len(dirs') = n
        /\ \A m \in 1..n : dirs'[m] = rest[m]
    BY <2>2, <2>4
  <2>6. \A x : x \in Heap(dirs') <=> \E m \in 1..n : x \in rest[m]
    BY <2>5 DEF Heap
  <2>7. \A x : x \in Heap(stack) <=> \E m \in 1..n : x \in stack[m]
    BY <1>t, <1>1 DEF Heap
  <2>8. \A x : x \in Heap(stack) <=> x \in Heap(dirs') \/ x = q
    <3>1. \A m \in 1..n : m \in 1..Len(stack) /\ rest[m] = IF m = n THEN stack[n] \ {q} ELSE stack[m]
      <4>1. \A m \in 1..n : m \in 1..Len(stack)
        BY <1>t
      <4> QED BY <2>1, <4>1
    <3>2. n \in 1..n /\ q \in stack[n]
      BY <1>t, <1>1
    <3>3. ASSUME NEW x, x \in Heap(stack), x # q PROVE x \in Heap(dirs')
      <4>1. PICK m \in 1..n : x \in stack[m]
        BY <2>7, <3>3
      <4>2. x \in rest[m]
        BY <3>1, <3>3, <4>1
      <4> QED BY <2>6, <4>2
    <3>4. ASSUME NEW x, x \in Heap(dirs') PROVE x \in Heap(stack)
      <4>1. PICK m \in 1..n : x \in rest[m]
        BY <2>6, <3>4
      <4>2. x \in stack[m]
        BY <3>1, <4>1
      <4> QED BY <2>7, <4>2
    <3>5. q \in Heap(stack)
      BY <2>7, <3>2
    <3> QED BY <3>3, <3>4, <3>5
  <2> QED BY <2>5, <2>8
<1>2. CASE (\A m \in 1..Len(stack) : stack[m] = {}) /\ Ended
  <2>1. \A q : q \notin Heap(stack)
    BY <1>2, HeapMember
  <2> QED BY <1>2, <2>1
<1>3. CASE \E n \in 1..Len(stack) :
             /\ \A m \in n + 1..Len(stack) : stack[m] = {}
             /\ \E q \in stack[n] :
                  /\ dirs' = SubSeq([stack EXCEPT ![n] = @ \ {q}], 1, n)
                  /\ entry' = q /\ listed' = Shown(q)
             /\ recurse' = TRUE /\ pc' = "inspect"
  <2>1. PICK n \in 1..Len(stack) :
          /\ \A m \in n + 1..Len(stack) : stack[m] = {}
          /\ \E q \in stack[n] :
               /\ dirs' = SubSeq([stack EXCEPT ![n] = @ \ {q}], 1, n)
               /\ entry' = q /\ listed' = Shown(q)
          /\ recurse' = TRUE /\ pc' = "inspect"
    BY <1>3, Zenon
  <2>2. PICK q \in stack[n] :
          /\ dirs' = SubSeq([stack EXCEPT ![n] = @ \ {q}], 1, n)
          /\ entry' = q /\ listed' = Shown(q)
    BY <2>1, Zenon
  <2>3. /\ q \in Heap(stack) /\ dirs' \in Seq(SUBSET Path)
        /\ Heap(stack) = Heap(dirs') \cup {q}
    BY <1>1, <2>1, <2>2
  <2> QED BY <2>1, <2>2, <2>3
<1> QED BY <1>2, <1>3 DEF At, Shown

\* A directory that was entered adds its content to what waits.
LEMMA HeapAppend ==
  ASSUME NEW stack \in Seq(SUBSET Path), NEW content \in SUBSET Path
  PROVE  /\ Append(stack, content) \in Seq(SUBSET Path)
         /\ Heap(Append(stack, content)) = Heap(stack) \cup content
<1>1. /\ Append(stack, content) \in Seq(SUBSET Path)
      /\ Len(Append(stack, content)) = Len(stack) + 1
      /\ \A i \in 1..Len(stack) : Append(stack, content)[i] = stack[i]
      /\ Append(stack, content)[Len(stack) + 1] = content
  BY AppendProperties
<1>2. Len(stack) \in Nat
  BY LenProperties
<1> QED BY <1>1, <1>2 DEF Heap

LEMMA OpenedContent ==
  ASSUME TypeOK, NEW p \in Path, NEW content \in Opened(p)
  PROVE  content \in SUBSET Path /\ content \subseteq Children(p)
  BY DEF Opened, Present, Children

-----------------------------------------------------------------------------
(***************************************************************************)
(* Type correctness, and where the call stands.                            *)
(***************************************************************************)
LEMMA RootType ==
  ASSUME TypeOK, NEW n \in 1..RootCount
  PROVE  Canonical[roots[n]] \in Path
  BY TreeAssumption DEF TypeOK

LEMMA LenRoots == TypeOK => Len(roots) = RootCount /\ DOMAIN roots = 1..RootCount
<1> SUFFICES ASSUME TypeOK PROVE Len(roots) = RootCount /\ DOMAIN roots = 1..RootCount
  OBVIOUS
<1>1. RootCount \in Nat /\ roots \in [1..RootCount -> Name]
  BY TreeAssumption DEF TypeOK
<1>2. roots \in Seq(Name)
  BY <1>1
<1> QED BY <1>1, <1>2, LenProperties

LEMMA TypeStep == TypeOK /\ Stages /\ [Next]_vars => TypeOK' /\ Stages'
<1> SUFFICES ASSUME TypeOK, Stages, [Next]_vars PROVE TypeOK' /\ Stages'
  OBVIOUS
<1> USE DEF treeVars, callVars, iterVars, resultVars
<1>r. todo # 0 => Root \in Path
  BY RootType DEF TypeOK, Root
<1>c. RootCount \in Nat \ {0}
  BY TreeAssumption
<1>p. << >> \in Seq(SUBSET Path)
  BY EmptySeq
<1>e. Ended => /\ dirs' = << >> /\ entry' = None /\ listed' \in Kind
               /\ recurse' \in BOOLEAN /\ pc' = "root"
  BY DEF Ended, Kind
<1>f. IterationFails /\ (entry = None => todo # 0) => Ended /\ issues' \in SUBSET Path
  BY <1>r DEF IterationFails, Issue, TypeOK
<1>a. ASSUME NEW stack \in Seq(SUBSET Path), At(stack)
      PROVE  /\ dirs' \in Seq(SUBSET Path)
             /\ entry' \in Path \cup {None} /\ listed' \in Kind
             /\ recurse' \in BOOLEAN /\ pc' \in {"inspect", "root"}
             /\ pc' = "inspect" => entry' \in Path
             /\ pc' = "root" => dirs' = << >> /\ entry' = None
  <2>1. Heap(stack) \subseteq Path
    BY HeapMember
  <2>2. \A q \in Path : Shown(q) \in Kind
    BY DEF Shown, TypeOK, Kind
  <2> QED BY <1>a, <1>e, <1>p, <2>1, <2>2, AtEffect
<1> USE DEF TypeOK, Stages, Position, Iterating, Resting
<1>1. CASE NormalizeRoots
  BY <1>1 DEF NormalizeRoots
<1>2. CASE NextRoot
  BY <1>2, <1>c, LenRoots DEF NextRoot
<1>3. CASE InspectRoot
  <2>1. Root \in Path
    BY <1>3, <1>r DEF InspectRoot
  <2> QED BY <1>3, <2>1 DEF InspectRoot, Add
<1>4. CASE OpenRoot
  <2>1. Root \in Path /\ entry = None
    BY <1>4, <1>r DEF OpenRoot
  <2>2. ASSUME NEW content \in Opened(Root), At(<<content>>), UNCHANGED issues
        PROVE  TypeOK' /\ Stages'
    <3>1. <<content>> \in Seq(SUBSET Path)
      BY <2>1, OpenedContent
    <3>2. /\ dirs' \in Seq(SUBSET Path)
          /\ entry' \in Path \cup {None} /\ listed' \in Kind
          /\ recurse' \in BOOLEAN /\ pc' \in {"inspect", "root"}
          /\ pc' = "inspect" => entry' \in Path
          /\ pc' = "root" => dirs' = << >> /\ entry' = None
      BY <1>a, <2>2, <3>1
    <3> QED BY <1>4, <2>2, <3>2 DEF OpenRoot
  <2>3. CASE IterationFails
    <3>1. Ended /\ issues' \in SUBSET Path
      BY <1>4, <1>f, <2>3 DEF OpenRoot
    <3> QED BY <1>4, <1>e, <1>p, <3>1 DEF OpenRoot
  <2> QED BY <1>4, <2>2, <2>3 DEF OpenRoot
<1>5. CASE Inspect
  <2>1. Followed(entry) \subseteq {"file", "dir", "error"}
    BY <1>5, FollowedSome DEF Inspect
  <2> QED BY <1>5, <2>1 DEF Inspect
<1>6. CASE DirectoryLink
  <2>1. Unfollowed(entry) \subseteq {"dir", "link", "error"}
    BY DEF Unfollowed
  <2> QED BY <1>6, <2>1 DEF DirectoryLink
<1>7. CASE Decide
  BY <1>7 DEF Decide, Issue, Add
<1>8. CASE Increment
  <2>1. entry \in Path /\ todo # 0
    BY <1>8 DEF Increment
  <2>2. ASSUME NEW content \in Enterable, At(Append(dirs, content)), UNCHANGED issues
        PROVE  TypeOK' /\ Stages'
    <3>1. Append(dirs, content) \in Seq(SUBSET Path)
      BY <2>1, OpenedContent, HeapAppend DEF Enterable
    <3>2. /\ dirs' \in Seq(SUBSET Path)
          /\ entry' \in Path \cup {None} /\ listed' \in Kind
          /\ recurse' \in BOOLEAN /\ pc' \in {"inspect", "root"}
          /\ pc' = "inspect" => entry' \in Path
          /\ pc' = "root" => dirs' = << >> /\ entry' = None
      BY <1>a, <2>2, <3>1
    <3> QED BY <1>8, <2>1, <2>2, <3>2 DEF Increment
  <2>3. CASE IterationFails
    BY <1>8, <1>e, <1>f, <1>p, <2>1, <2>3 DEF Increment
  <2>4. CASE At(dirs) /\ UNCHANGED issues
    <3>2. /\ dirs' \in Seq(SUBSET Path)
          /\ entry' \in Path \cup {None} /\ listed' \in Kind
          /\ recurse' \in BOOLEAN /\ pc' \in {"inspect", "root"}
          /\ pc' = "inspect" => entry' \in Path
          /\ pc' = "root" => dirs' = << >> /\ entry' = None
      BY <1>a, <2>4
    <3> QED BY <1>8, <2>1, <2>4, <3>2 DEF Increment
  <2> QED BY <1>8, <2>2, <2>3, <2>4 DEF Increment
<1>9. CASE ReadFails
  <2>1. todo # 0
    BY <1>9 DEF ReadFails
  <2> QED BY <1>9, <1>e, <1>f, <1>p, <2>1 DEF ReadFails
<1>10. CASE RequestStop
  BY <1>10 DEF RequestStop
<1>11. ASSUME NEW p \in Path, NEW k \in ChangeKind, Change(p, k)
       PROVE  TypeOK' /\ Stages'
  <2>1. k \in Kind
    BY TreeAssumption
  <2> QED BY <1>11, <2>1 DEF Change
<1>12. CASE UNCHANGED vars
  BY <1>12 DEF vars
<1> QED BY <1>1, <1>2, <1>3, <1>4, <1>5, <1>6, <1>7, <1>8, <1>9, <1>10, <1>11, <1>12 DEF Next, Step

-----------------------------------------------------------------------------
(***************************************************************************)
(* What is known of untouched paths stays known.                           *)
(***************************************************************************)
LEMMA SettledFrame ==
  ASSUME TypeOK, [Next]_vars
  PROVE  /\ UNCHANGED <<caching, roots>>
         /\ \A p \in Path : Settled(p)' =>
              /\ Settled(p)
              /\ kind'[p] = kind[p]
              /\ Real(p)' <=> Real(p)
<1>1. UNCHANGED <<caching, roots>>
  BY DEF Next, Step, NormalizeRoots, NextRoot, InspectRoot, OpenRoot, Inspect, DirectoryLink, Decide, Increment, ReadFails, RequestStop, Change, treeVars, callVars, vars
<1>2. /\ changed \subseteq changed'
      /\ \A p \in Path : p \notin changed' => kind'[p] = kind[p]
  <2>1. ASSUME NEW p \in Path, NEW k \in ChangeKind, Change(p, k)
        PROVE  /\ changed \subseteq changed'
               /\ \A q \in Path : q \notin changed' => kind'[q] = kind[q]
    BY <2>1 DEF Change, TypeOK
  <2>2. CASE UNCHANGED <<kind, changed>>
    BY <2>2
  <2>3. Step \/ RequestStop \/ UNCHANGED vars => UNCHANGED <<kind, changed>>
    BY DEF Step, NormalizeRoots, NextRoot, InspectRoot, OpenRoot, Inspect, DirectoryLink, Decide, Increment, ReadFails, RequestStop, treeVars, vars
  <2> QED BY <2>1, <2>2, <2>3 DEF Next
<1>3. ASSUME NEW p \in Path, Settled(p)'
      PROVE  Settled(p) /\ kind'[p] = kind[p] /\ (Real(p)' <=> Real(p))
  <2>1. Ancestors(p) \cap changed' = {}
    BY <1>3 DEF Settled
  <2>2. Settled(p)
    BY <1>2, <2>1 DEF Settled
  <2>3. \A q \in Ancestors(p) : kind'[q] = kind[q]
    BY <1>2, <2>1, AncestorsBasic
  <2> QED BY <2>2, <2>3, AncestorsBasic DEF Real
<1> QED BY <1>1, <1>3

LEMMA CacheRealStep == TypeOK /\ CacheReal /\ [Next]_vars => CacheReal'
  BY SettledFrame, TreeAssumption DEF CacheReal

\* With the cache untouched, what is in it is excluded and nothing else.
LEMMA ExcludedInside ==
  ASSUME TypeOK, CacheReal, Settled(Cache), NEW p \in Path
  PROVE  Excluded(p) <=> InCache(p)
<1>1. "dir" \in Followed(Cache) <=> kind[Cache] \in {"dir", "locked"}
  BY FollowedReal, TreeAssumption DEF CacheReal, TypeOK
<1> QED BY <1>1 DEF Excluded, Inside, InCache

LEMMA RootsRealStep == TypeOK /\ RootsReal /\ [Next]_vars => RootsReal'
<1> SUFFICES ASSUME TypeOK, RootsReal, [Next]_vars, pc' \notin {"normalize", "invalid"}
             PROVE  \A r \in RootPaths' : Settled(r)' =>
                      /\ Real(r)'
                      /\ kind'[r] \in {"file", "filelink", "dir", "locked"}
  BY DEF RootsReal
<1>1. RootPaths' = RootPaths /\ RootPaths \subseteq Path
  BY SettledFrame, RootType, LenRoots DEF RootPaths
<1>2. CASE pc \notin {"normalize", "invalid"}
  BY <1>1, <1>2, SettledFrame DEF RootsReal
<1>3. CASE pc \in {"normalize", "invalid"}
  <2>1. NormalizeRoots
    BY <1>3 DEF Next, Step, NextRoot, InspectRoot, OpenRoot, Inspect, DirectoryLink, Decide, Increment, ReadFails, RequestStop, Change, vars
  <2>2. \A n \in DOMAIN roots : /\ "error" \notin Followed(Canonical[roots[n]])
                               /\ kind[Canonical[roots[n]]] # "dirlink"
    BY <2>1 DEF NormalizeRoots
  <2>3. ASSUME NEW r \in RootPaths
        PROVE  Real(r) /\ kind[r] \in {"file", "filelink", "dir", "locked"}
    <3>1. r \in Path /\ "error" \notin Followed(r) /\ kind[r] # "dirlink"
      BY <1>1, <2>2 DEF RootPaths
    <3>2. kind[r] \in Kind /\ Real(r)
      BY <3>1, FollowedSome DEF TypeOK
    <3> QED BY <3>1, <3>2, FollowedReal DEF Kind
  <2> QED BY <1>1, <2>3, SettledFrame
<1> QED BY <1>2, <1>3

LEMMA RootOutsideStep ==
  TypeOK /\ Stages /\ CacheReal /\ RootOutside /\ [Next]_vars => RootOutside'
<1> SUFFICES ASSUME TypeOK, Stages, CacheReal, RootOutside, [Next]_vars,
                    pc' \in {"inspectRoot", "openRoot"}, Settled(Cache)',
                    caching', kind'[Cache] \in {"dir", "locked"}
             PROVE  ~(Cache \in Ancestors(Root'))
  BY DEF RootOutside, OutOfCache, InCache
<1>1. /\ caching /\ Settled(Cache) /\ kind[Cache] \in {"dir", "locked"}
      /\ roots' = roots
  BY SettledFrame, TreeAssumption
<1>2. CASE NextRoot
  <2>1. todo' = todo + 1 /\ todo # Len(roots) /\ ~Excluded(Canonical[roots[todo + 1]])
    BY <1>2 DEF NextRoot
  <2>2. todo + 1 \in 1..RootCount
    BY <2>1, LenRoots, TreeAssumption DEF TypeOK
  <2>3. Canonical[roots[todo + 1]] \in Path
    BY <2>2, RootType
  <2> QED BY <1>1, <2>1, <2>3, ExcludedInside DEF Root, InCache
<1>3. CASE ~NextRoot
  <2>1. todo' = todo /\ pc \in {"inspectRoot", "openRoot"}
    <3>1. IterationFails => pc' = "root"
      BY DEF IterationFails, Ended
    <3>2. OpenRoot \/ Increment \/ ReadFails => (\E stack : At(stack)) \/ IterationFails
      BY DEF OpenRoot, Increment, ReadFails
    <3>3. \A stack : At(stack) => pc' \in {"inspect", "root"}
      BY DEF At, Ended
    <3> QED BY <1>3, <3>1, <3>2, <3>3 DEF Next, Step, NormalizeRoots, InspectRoot, Inspect, DirectoryLink, Decide, Add, RequestStop, Change, vars
  <2> QED BY <1>1, <2>1 DEF RootOutside, OutOfCache, InCache, Root
<1> QED BY <1>2, <1>3

-----------------------------------------------------------------------------
(***************************************************************************)
(* What the iterator lists.                                                *)
(***************************************************************************)
LEMMA ListableStable ==
  ASSUME TypeOK, [Next]_vars, NEW q \in Path, Listable(q), todo' = todo
  PROVE  Listable(q)'
<1>1. roots' = roots /\ caching' = caching
  BY SettledFrame
<1>2. Root \in Ancestors(q) /\ (OutOfCache(q) \/ q = Cache) /\ (Settled(q) => Real(q))
  BY DEF Listable
<1>3. OutOfCache(q) => OutOfCache(q)'
  BY <1>1, SettledFrame, TreeAssumption DEF OutOfCache, InCache
<1>4. Settled(q)' => Real(q)'
  BY <1>2, SettledFrame
<1>5. Root' = Root
  BY <1>1 DEF Root
<1> QED BY <1>2, <1>3, <1>4, <1>5 DEF Listable

\* What is listed in a directory that was reached on real ground.
LEMMA ContentListable ==
  ASSUME TypeOK, NEW d \in Path, NEW content \in Opened(d),
         Root \in Ancestors(d), OutOfCache(d),
         Settled(d) => Real(d) /\ kind[d] # "dirlink"
  PROVE  \A q \in content : q \in Path /\ Listable(q)
<1> SUFFICES ASSUME NEW q \in content PROVE q \in Path /\ Listable(q)
  OBVIOUS
<1>1. q \in Children(d)
  BY OpenedContent
<1>2. q \in Path /\ Ancestors(q) = {q} \cup Ancestors(d)
  BY <1>1, AncestorsChild
<1>3. Settled(q) => Real(q)
  <2> SUFFICES ASSUME Settled(q) PROVE Real(q)
    OBVIOUS
  <2>1. d \in Ancestors(q) /\ Settled(d)
    BY <1>2, AncestorsBasic, SettledUp
  <2>2. Real(d) /\ kind[d] # "dirlink" /\ kind[d] \in Kind
    BY <2>1 DEF TypeOK
  <2>3. kind[d] = "dir"
    BY <2>2, FollowedReal DEF Opened, Kind
  <2> QED BY <1>1, <2>2, <2>3, SolidChildren DEF Solid
<1>4. OutOfCache(q) \/ q = Cache
  BY <1>2 DEF OutOfCache, InCache
<1> QED BY <1>2, <1>3, <1>4 DEF Listable

LEMMA RootListable ==
  ASSUME TypeOK, Stages, RootsReal, RootOutside, pc = "openRoot"
  PROVE  /\ Root \in Path /\ Root \in Ancestors(Root) /\ OutOfCache(Root)
         /\ Root \in RootPaths
         /\ Settled(Root) => Real(Root) /\ kind[Root] # "dirlink"
<1>1. todo \in 1..RootCount /\ todo \in DOMAIN roots
  BY LenRoots, TreeAssumption DEF TypeOK, Stages
<1>2. Root \in Path /\ Root \in RootPaths
  BY <1>1, RootType DEF Root, RootPaths
<1> QED BY <1>2, AncestorsBasic DEF RootsReal, RootOutside

\* The stack that the iterator goes on with after a step.
LEMMA ListedStep == IInv /\ [Next]_vars => Listed'
<1> SUFFICES ASSUME IInv, [Next]_vars PROVE Listed'
  OBVIOUS
<1> USE DEF IInv
<1>1. ASSUME NEW stack \in Seq(SUBSET Path), At(stack), todo' = todo,
             \A q \in Heap(stack) : Listable(q)
      PROVE  Listed'
  <2>1. Heap(stack) \subseteq Path
    BY HeapMember
  <2>2. \A q \in Heap(stack) : Listable(q)'
    BY <1>1, <2>1, ListableStable
  <2>3. CASE entry' \in Heap(stack) /\ Heap(stack) = Heap(dirs') \cup {entry'}
    <3>1. \A q \in Heap(dirs') : Listable(q)'
      BY <2>2, <2>3
    <3>2. \A q \in Heap(stack) : q = entry' => Listable(entry)'
      BY <2>2
    <3> QED BY <2>3, <3>1, <3>2 DEF Listed, Heap
  <2>4. CASE Ended
    BY <2>4 DEF Ended, Listed, Heap
  <2> QED BY <1>1, <2>3, <2>4, AtEffect
<1>2. CASE Ended
  BY <1>2 DEF Ended, Listed, Heap
<1>3. CASE OpenRoot
  <2>1. ASSUME NEW content \in Opened(Root), At(<<content>>) PROVE Listed'
    <3>1. Root \in Path /\ \A q \in content : q \in Path /\ Listable(q)
      BY <1>3, RootListable, ContentListable DEF OpenRoot
    <3>2. <<content>> \in Seq(SUBSET Path) /\ Heap(<<content>>) = content
      BY <3>1 DEF Heap
    <3> QED BY <1>1, <1>3, <2>1, <3>1, <3>2 DEF OpenRoot
  <2> QED BY <1>2, <1>3, <2>1 DEF OpenRoot, IterationFails
<1>4. CASE Increment
  <2>1. entry \in Path /\ entry # None /\ Listable(entry) /\ todo' = todo
    BY <1>4, TreeAssumption DEF Increment, Stages, Iterating, Listed
  <2>2. ASSUME recurse, NEW content \in Enterable, At(Append(dirs, content)) PROVE Listed'
    <3>1. content \in Opened(entry)
      BY <2>2 DEF Enterable
    <3>2. \A q \in content : q \in Path /\ Listable(q)
      BY <1>4, <2>1, <2>2, <3>1, ContentListable DEF Increment, Inspected, Listable
    <3>3. /\ Append(dirs, content) \in Seq(SUBSET Path)
          /\ Heap(Append(dirs, content)) = Heap(dirs) \cup content
      BY <3>2, HeapAppend DEF TypeOK
    <3> QED BY <1>1, <2>1, <2>2, <3>2, <3>3 DEF Listed
  <2>3. CASE At(dirs)
    BY <1>1, <2>1, <2>3 DEF Listed, TypeOK
  <2> QED BY <1>2, <1>4, <2>2, <2>3 DEF Increment, IterationFails
<1>5. CASE UNCHANGED <<dirs, entry, todo>>
  <2>1. \A q \in Path : Listable(q) => Listable(q)'
    BY <1>5, ListableStable
  <2>2. Heap(dirs) \subseteq Path /\ Heap(dirs)' = Heap(dirs)
    BY <1>5, HeapMember DEF TypeOK, Heap
  <2>3. entry # None => Listable(entry)'
    <3> SUFFICES ASSUME entry # None PROVE Listable(entry)'
      OBVIOUS
    <3>1. PICK e \in Path : e = entry
      BY DEF TypeOK
    <3>2. Listable(e)'
      BY <2>1, <3>1 DEF Listed
    <3> QED BY <1>5, <3>1, <3>2
  <2> QED BY <1>5, <2>1, <2>2, <2>3 DEF Listed
<1>6. CASE NextRoot
  <2>1. UNCHANGED <<dirs, entry>> /\ dirs = << >> /\ entry = None
    BY <1>6 DEF NextRoot, iterVars, Stages, Resting
  <2> QED BY <2>1 DEF Listed, Heap
<1> QED BY <1>2, <1>3, <1>4, <1>5, <1>6 DEF Next, Step, NormalizeRoots, InspectRoot, Inspect, DirectoryLink, Decide, ReadFails, IterationFails, RequestStop, Change, iterVars, vars

-----------------------------------------------------------------------------
(***************************************************************************)
(* What the inspections tell.                                              *)
(***************************************************************************)
LEMMA InspectedStep == IInv /\ [Next]_vars => Inspected'
<1> SUFFICES ASSUME IInv, [Next]_vars, pc' \in Iterating PROVE Inspected'
  BY DEF Inspected, Iterating
<1> USE DEF IInv
<1>1. ASSUME NEW stack \in Seq(SUBSET Path), At(stack), UNCHANGED <<kind, junctions>>
      PROVE  Inspected'
  BY <1>1, AtEffect DEF Ended, Inspected, Iterating, Shown
<1>2. ~Ended
  BY DEF Ended, Iterating
<1>3. CASE OpenRoot
  <2>1. PICK content \in Opened(Root) : At(<<content>>)
    BY <1>2, <1>3 DEF OpenRoot, IterationFails
  <2>2. <<content>> \in Seq(SUBSET Path)
    BY <1>3, <2>1, RootListable, OpenedContent DEF OpenRoot
  <2> QED BY <1>1, <1>3, <2>1, <2>2 DEF OpenRoot, treeVars
<1>4. CASE Increment
  <2>1. PICK stack : At(stack) /\ (stack = dirs \/ \E c \in Enterable : stack = Append(dirs, c))
    BY <1>2, <1>4 DEF Increment, IterationFails
  <2>2. stack \in Seq(SUBSET Path)
    BY <1>4, <2>1, OpenedContent, HeapAppend DEF Increment, Enterable, Stages, Iterating, TypeOK
  <2> QED BY <1>1, <1>4, <2>1, <2>2 DEF Increment, treeVars
<1>5. CASE pc \in Iterating /\ UNCHANGED entry
  <2>1. PICK e \in Path : e = entry /\ e = entry' /\ e # None
    BY <1>5, TreeAssumption DEF Stages
  <2>2. /\ Settled(e)' => Settled(e) /\ kind'[e] = kind[e]
        /\ Settled(e) => Real(e)
        /\ kind[e] \in Kind
        /\ OutOfCache(e) \/ e = Cache
        /\ OutOfCache(e) => OutOfCache(e)'
    BY <2>1, SettledFrame, TreeAssumption DEF Listed, Listable, TypeOK, OutOfCache, InCache
  <2>3. Inspected /\ (Settled(entry) <=> Settled(e)) /\ (Settled(entry)' <=> Settled(e)')
        /\ (OutOfCache(entry) <=> OutOfCache(e)) /\ (OutOfCache(entry)' <=> OutOfCache(e)')
    BY <2>1
  <2>4. CASE Inspect
    <3>1. /\ pc = "inspect" /\ recurse' = recurse /\ listed' = listed /\ UNCHANGED <<kind, junctions>>
          /\ status' \in Followed(e)
          /\ pc' = IF status' = "dir" THEN "link" ELSE "decide"
      BY <2>1, <2>4 DEF Inspect, iterVars, treeVars, Iterating
    <3> QED BY <2>1, <2>2, <2>3, <3>1, FollowedReal DEF Inspected, Shown, Kind, Iterating
  <2>5. CASE DirectoryLink
    <3>1. /\ pc = "link" /\ recurse' = recurse /\ listed' = listed /\ UNCHANGED <<kind, junctions>>
          /\ pc' = "decide"
          /\ status' \in Unfollowed(e)
      BY <2>1, <2>5 DEF DirectoryLink, iterVars, treeVars
    <3>2. Settled(e) => Unfollowed(e) = IF kind[e] = "dirlink" THEN {"link"} ELSE {"dir"}
      BY <2>1, <2>2, <2>3, <3>1, UnfollowedReal DEF Inspected
    <3> QED BY <2>1, <2>2, <2>3, <3>1, <3>2 DEF Inspected, Shown, Iterating
  <2>6. CASE Decide
    <3>1. /\ pc = "decide" /\ listed' = listed /\ UNCHANGED <<kind, junctions, caching>>
          /\ pc' = "increment"
          /\ recurse' = (recurse /\ status # "error" /\ status # "link"
                           /\ ~(status = "dir" /\ Excluded(e)))
      BY <2>1, <2>6 DEF Decide, Add, treeVars, callVars, Iterating
    <3>2. OutOfCache(e)' \/ ~recurse'
      <4> SUFFICES ASSUME ~OutOfCache(e) PROVE ~recurse'
        BY <2>2
      <4>1. e = Cache /\ Settled(Cache) /\ InCache(e)
        BY <2>2 DEF OutOfCache
      <4>2. kind[e] \in {"dir", "locked"} /\ Excluded(e)
        BY <4>1, ExcludedInside DEF InCache
      <4>3. status = "dir"
        BY <2>1, <2>3, <3>1, <4>1, <4>2 DEF Inspected
      <4> QED BY <3>1, <4>2, <4>3
    <3>3. Excluded(e) => caching /\ Cache \in Ancestors(e)
      BY DEF Excluded, Inside
    <3>4. /\ Settled(e)' /\ recurse' => kind[e] # "dirlink"
          /\ Settled(e)' /\ ~recurse' /\ kind[e] \in {"dir", "locked"} => Excluded(e)
          /\ Settled(e)' => listed' = Shown(e)
      BY <2>1, <2>2, <2>3, <3>1 DEF Inspected, Iterating
    <3> QED BY <2>1, <2>2, <2>3, <3>1, <3>2, <3>3, <3>4 DEF Inspected, Shown, Iterating
  <2>7. CASE UNCHANGED <<pc, status, recurse, listed, junctions>>
    <3>1. caching' = caching
      BY SettledFrame
    <3> QED BY <2>1, <2>2, <2>3, <2>7, <3>1 DEF Inspected, Shown
  <2> QED BY <1>2, <1>3, <1>4, <1>5, <2>4, <2>5, <2>6, <2>7 DEF Next, Step, NormalizeRoots, NextRoot, InspectRoot, ReadFails, IterationFails, RequestStop, Change, iterVars, treeVars, vars, Iterating
<1>6. OpenRoot \/ Increment \/ (pc \in Iterating /\ UNCHANGED entry)
  BY <1>2 DEF Next, Step, NormalizeRoots, NextRoot, InspectRoot, Inspect, DirectoryLink, Decide, ReadFails, IterationFails, RequestStop, Change, Add, iterVars, vars, Iterating
<1> QED BY <1>3, <1>4, <1>5, <1>6

-----------------------------------------------------------------------------
(***************************************************************************)
(* What is found.                                                          *)
(***************************************************************************)
LEMMA WantedStable ==
  ASSUME TypeOK, [Next]_vars, NEW p \in Path, Settled(p)'
  PROVE  Wanted(p)' <=> Wanted(p)
<1>1. RootPaths' = RootPaths
  BY SettledFrame DEF RootPaths
<1>2. InCache(p)' <=> InCache(p)
  <2>1. Cache \in Ancestors(p) => kind'[Cache] = kind[Cache]
    <3> SUFFICES ASSUME Cache \in Ancestors(p) PROVE kind'[Cache] = kind[Cache]
      OBVIOUS
    <3>1. Ancestors(Cache) \subseteq Ancestors(p)
      BY AncestorsTransitive
    <3>2. Settled(Cache)'
      BY <3>1 DEF Settled
    <3> QED BY <3>2, SettledFrame, TreeAssumption
  <2> QED BY <2>1, SettledFrame DEF InCache
<1> QED BY <1>1, <1>2, SettledFrame DEF Wanted

\* A path that is added is a file, found where files are wanted.
LEMMA AddedWanted ==
  ASSUME IInv, [Next]_vars, NEW p \in Path, p \in paths', p \notin paths,
         Settled(p), Settled(Cache)
  PROVE  Wanted(p)
<1> USE DEF IInv
<1>1. CASE InspectRoot
  <2>1. todo \in 1..RootCount /\ todo \in DOMAIN roots
    BY <1>1, LenRoots, TreeAssumption DEF InspectRoot, TypeOK, Stages
  <2>2. p = Root /\ "file" \in Followed(Root) /\ Root \in RootPaths
    BY <1>1, <2>1 DEF InspectRoot, Add, Root, RootPaths
  <2>3. Real(p) /\ kind[p] \in {"file", "filelink", "dir", "locked"}
    BY <1>1, <2>2 DEF InspectRoot, RootsReal
  <2>4. kind[p] \in {"file", "filelink"}
    BY <2>2, <2>3, FollowedReal DEF Kind
  <2>5. OutOfCache(p)
    BY <1>1, <2>2 DEF InspectRoot, RootOutside
  <2> QED BY <2>2, <2>3, <2>4, <2>5, AncestorsBasic DEF Wanted, OutOfCache
<1>2. CASE Decide
  <2>1. p = entry /\ status = "file" /\ pc = "decide"
    BY <1>2 DEF Decide, Add
  <2>2. Listable(p) /\ kind[p] \in {"file", "filelink"}
    BY <2>1, TreeAssumption DEF Listed, Inspected
  <2>3. todo \in DOMAIN roots
    BY <2>1, LenRoots, TreeAssumption DEF TypeOK, Stages, Iterating
  <2>4. Root \in RootPaths /\ Root \in Ancestors(p) /\ Real(p)
    BY <2>2, <2>3 DEF Listable, Root, RootPaths
  <2>5. p # Cache \/ ~InCache(p)
    BY <2>2 DEF InCache
  <2> QED BY <2>2, <2>4, <2>5 DEF Wanted, Listable, OutOfCache
<1>3. InspectRoot \/ Decide
  BY DEF Next, Step, NormalizeRoots, NextRoot, OpenRoot, Inspect, DirectoryLink, Increment, ReadFails, RequestStop, Change, resultVars, vars
<1> QED BY <1>1, <1>2, <1>3

LEMMA OnlyWantedStep == IInv /\ TypeOK' /\ [Next]_vars => OnlyWanted'
<1> SUFFICES ASSUME IInv, TypeOK', [Next]_vars PROVE OnlyWanted'
  OBVIOUS
<1>1. ASSUME NEW p \in paths', Settled(p)', Settled(Cache)' PROVE Wanted(p)'
  <2>1. p \in Path /\ Settled(p) /\ Settled(Cache)
    BY <1>1, SettledFrame, TreeAssumption DEF IInv, TypeOK
  <2>2. Wanted(p)
    BY <1>1, <2>1, AddedWanted DEF IInv, OnlyWanted
  <2> QED BY <1>1, <2>1, <2>2, WantedStable DEF IInv
<1>2. pc' # "length" => Cardinality(paths') <= MaxFiles
  <2>1. IsFiniteSet(paths') /\ Cardinality(paths') \in Nat /\ MaxFiles \in Nat
    BY FS_Subset, FS_CardinalityType, TreeAssumption DEF TypeOK
  <2>2. ASSUME NEW x, NEW next, Add(x, next), pc' # "length" PROVE Cardinality(paths') <= MaxFiles
    BY <2>1, <2>2 DEF Add
  <2>3. CASE UNCHANGED paths /\ pc # "length"
    BY <2>3 DEF IInv, OnlyWanted
  <2>4. UNCHANGED paths \/ \E x, next : Add(x, next)
    BY DEF Next, Step, NormalizeRoots, NextRoot, InspectRoot, OpenRoot, Inspect, DirectoryLink, Decide, Increment, ReadFails, RequestStop, Change, resultVars, vars
  <2>5. pc = "length" => pc' = "length"
    BY DEF Next, Step, NormalizeRoots, NextRoot, InspectRoot, OpenRoot, Inspect, DirectoryLink, Decide, Increment, ReadFails, RequestStop, Change, vars
  <2> QED BY <2>2, <2>3, <2>4, <2>5
<1> QED BY <1>1, <1>2 DEF OnlyWanted

-----------------------------------------------------------------------------
(***************************************************************************)
(* What is still to be found.                                              *)
(***************************************************************************)

\* A directory above a wanted file, if it can be read, lists the way to it.
LEMMA EnteredOnWay ==
  ASSUME TypeOK, NEW p \in Path, Wanted(p), Settled(p),
         NEW d \in Ancestors(p), Settled(d) => Real(d),
         NEW content \in Opened(d)
  PROVE  \E c \in content : c \in Ancestors(p)
<1>1. d \in Path /\ Settled(d) /\ Real(d) /\ kind[d] \in Kind
  BY AncestorsBasic, SettledUp DEF TypeOK
<1>2. d # p
  BY <1>1, FollowedReal DEF Wanted, Opened
<1>3. kind[d] \in {"dir", "locked"}
  BY <1>2 DEF Wanted, Real
<1>4. content = Present(d)
  BY <1>1, <1>3, FollowedReal DEF Opened
<1>5. PICK c \in Children(d) : c \in Ancestors(p)
  BY <1>2, WayDown
<1>6. kind[c] # "absent"
  BY <1>5 DEF Wanted, Real
<1> QED BY <1>4, <1>5, <1>6 DEF Present

LEMMA AtPursues ==
  ASSUME NEW stack \in Seq(SUBSET Path), At(stack), NEW p \in Path,
         NEW c \in Heap(stack), c \in Ancestors(p)
  PROVE  pc' \in Iterating /\ (Ahead(p)' \/ InHand(p)')
<1>1. /\ pc' = "inspect" /\ Heap(stack) = Heap(dirs') \cup {entry'}
  BY AtEffect
<1>2. Heap(dirs)' = Heap(dirs')
  BY DEF Heap
<1> QED BY <1>1, <1>2 DEF Ahead, InHand, Iterating

LEMMA PursuedStep == IInv /\ [Next]_vars => Pursued'
<1>s. IInv /\ [Next]_vars => roots' = roots
  BY SettledFrame DEF IInv
<1> SUFFICES ASSUME IInv, [Next]_vars,
                    pc' \in Iterating \cup (Resting \ {"normalize"}),
                    NEW p \in Path, NEW n \in 1..todo', Sought(p)',
                    Canonical[roots'[n]] \in Ancestors(p)
             PROVE  \/ Reported(Canonical[roots[n]])'
                    \/ /\ n = todo'
                       /\ pc' \in {"inspectRoot", "openRoot"} \/ Ahead(p)' \/ InHand(p)'
  BY <1>s DEF Pursued
<1> DEFINE r == Canonical[roots[n]]
<1>t. TypeOK /\ TypeOK' /\ Stages
  BY TypeStep DEF IInv
<1>r. r \in Path /\ r \in Ancestors(p) /\ roots' = roots
  BY <1>t, SettledFrame, AncestorsBasic
<1>w. /\ Sought(p)
      /\ Real(p) /\ kind[p] \in {"file", "filelink"}
      /\ ~InCache(p)
  <2>1. paths \subseteq paths'
    BY DEF Next, Step, NormalizeRoots, NextRoot, InspectRoot, OpenRoot, Inspect, DirectoryLink, Decide, Increment, ReadFails, RequestStop, Change, resultVars, vars, Add
  <2>2. Wanted(p) /\ Settled(p) /\ Settled(Cache) /\ p \notin paths
    BY <1>t, <2>1, SettledFrame, WantedStable, TreeAssumption DEF Sought
  <2> QED BY <2>2 DEF Sought, Wanted
<1>i. issues \subseteq issues' /\ (Reported(r) => Reported(r)')
  <2>1. issues \subseteq issues'
    BY DEF Next, Step, NormalizeRoots, NextRoot, InspectRoot, OpenRoot, Inspect, DirectoryLink, Decide, Increment, ReadFails, RequestStop, Change, resultVars, vars, IterationFails, Issue
  <2>2. r' = r
    BY <1>r
  <2> QED BY <2>1, <2>2 DEF Reported
<1>o. pc # "normalize" /\ n \in 1..todo =>
        \/ Reported(r)
        \/ n = todo /\ (pc \in {"inspectRoot", "openRoot"} \/ Ahead(p) \/ InHand(p))
  <2>1. pc \in Iterating \cup Resting
    BY <1>t DEF TypeOK, Position, Next, Step, NormalizeRoots, NextRoot, InspectRoot, OpenRoot, Inspect, DirectoryLink, Decide, Increment, ReadFails, RequestStop, Change, vars, Iterating, Resting
  <2> QED BY <1>r, <1>w, <2>1 DEF IInv, Pursued
\* The root in hand, and what is above the file and in the iterator's way.
<1>u. ASSUME NEW d \in Ancestors(p), Settled(d) => Real(d)
      PROVE  /\ d \in Path /\ Settled(d) /\ Real(d) /\ kind[d] \in Kind
             /\ d # p => kind[d] \in {"dir", "locked"}
             /\ ~InCache(d)
             /\ d # p /\ Cache \in Ancestors(d) => ~caching
  <2>1. d \in Path /\ Settled(d) /\ Ancestors(d) \subseteq Ancestors(p)
    BY <1>w, AncestorsTransitive, SettledUp DEF Sought
  <2>2. ~InCache(d)
    BY <1>w, <2>1 DEF InCache
  <2>3. d # p => kind[d] \in {"dir", "locked"}
    BY <1>w, <2>1 DEF Real
  <2>4. Cache \in Ancestors(d) /\ d # p => kind[Cache] \in {"dir", "locked"}
    BY <1>u, <2>1, <2>3 DEF Real
  <2> QED BY <1>t, <1>u, <2>1, <2>2, <2>3, <2>4 DEF InCache, TypeOK
<1>v. pc # "normalize" => (Settled(r) => Real(r))
  <2>1. n \in DOMAIN roots
    BY <1>t, LenRoots, TreeAssumption DEF TypeOK
  <2>2. pc # "invalid"
    BY DEF Next, Step, NormalizeRoots, NextRoot, InspectRoot, OpenRoot, Inspect, DirectoryLink, Decide, Increment, ReadFails, RequestStop, Change, vars, Iterating, Resting
  <2> QED BY <2>1, <2>2 DEF IInv, RootsReal, RootPaths
<1>1. CASE NormalizeRoots
  BY <1>1, <1>t DEF NormalizeRoots, Stages
<1>2. CASE NextRoot
  <2>1. pc = "root" /\ dirs = << >>
    BY <1>2, <1>t DEF NextRoot, Stages, Resting
  <2>2. ~Ahead(p) /\ ~InHand(p)
    BY <2>1 DEF Ahead, InHand, Heap, Iterating
  <2>3. n \in 1..todo => Reported(r)'
    BY <1>i, <1>o, <2>1, <2>2
  <2>4. CASE n \notin 1..todo
    <3>1. todo' = todo + 1 /\ n = todo'
      BY <1>2, <1>t, <2>4 DEF NextRoot, TypeOK
    <3>2. pc' = IF Excluded(r) THEN "root" ELSE "inspectRoot"
      BY <1>2, <3>1 DEF NextRoot
    <3>3. ~Excluded(r)
      BY <1>r, <1>t, <1>u, <1>v, <1>w, <2>1, ExcludedInside DEF IInv, Sought
    <3> QED BY <3>1, <3>2, <3>3
  <2> QED BY <2>3, <2>4
<1>3. CASE n \in 1..todo /\ todo' = todo /\ pc # "normalize"
  <2>1. CASE Reported(r)
    BY <1>i, <2>1
  <2>2. CASE n = todo /\ InspectRoot
    <3>1. r = Root
      BY <2>2 DEF Root
    <3>2. "file" \in Followed(r) /\ Add(r, "root") => p \in paths'
      <4>1. "file" \in Followed(r) => r = p
        BY <1>r, <1>u, <1>v, <1>3, FollowedReal
      <4> QED BY <4>1 DEF Add
    <3>3. pc' # "root"
      BY <2>2, <3>1, <3>2 DEF InspectRoot, Sought
    <3> QED BY <1>3, <2>2, <3>3 DEF InspectRoot, Add, Iterating, Resting
  <2>3. CASE n = todo /\ OpenRoot
    <3>1. r = Root /\ entry = None
      BY <1>t, <2>3 DEF Root, OpenRoot, Stages, Resting
    <3>2. CASE IterationFails
      BY <1>r, <3>1, <3>2, AncestorsBasic DEF IterationFails, Issue, Reported
    <3>3. ASSUME NEW content \in Opened(r), At(<<content>>)
          PROVE  Ahead(p)' \/ InHand(p)'
      <4>1. PICK c \in content : c \in Ancestors(p)
        BY <1>3, <1>r, <1>t, <1>v, <1>w, EnteredOnWay DEF Sought
      <4>2. content \in SUBSET Path
        BY <1>r, <1>t, OpenedContent
      <4>3. <<content>> \in Seq(SUBSET Path) /\ c \in Heap(<<content>>)
        BY <4>2 DEF Heap
      <4> QED BY <3>3, <4>1, <4>3, AtPursues
    <3> QED BY <1>3, <2>3, <3>1, <3>2, <3>3 DEF OpenRoot
  <2>4. CASE n = todo /\ (Ahead(p) \/ InHand(p)) /\ (Inspect \/ DirectoryLink)
    <3>1. UNCHANGED <<dirs, entry>> /\ pc' \in {"link", "decide"}
      BY <2>4 DEF Inspect, DirectoryLink, iterVars, Iterating, Resting
    <3> QED BY <1>3, <2>4, <3>1 DEF Ahead, InHand, Heap, Iterating
  <2>5. CASE n = todo /\ (Ahead(p) \/ InHand(p)) /\ Decide
    <3>1. UNCHANGED <<dirs, entry>> /\ pc = "decide" /\ pc' = "increment"
      BY <2>5 DEF Decide, Add, Iterating, Resting
    <3>2. entry = p => p \in paths'
      <4>1. entry = p => status = "file"
        BY <1>w, <3>1 DEF IInv, Inspected, Sought
      <4> QED BY <2>5, <4>1 DEF Decide, Add
    <3>3. entry # p
      BY <3>2 DEF Sought
    <3> QED BY <1>3, <2>5, <3>1, <3>3 DEF Ahead, InHand, Heap, Iterating
  <2>6. CASE n = todo /\ (Ahead(p) \/ InHand(p)) /\ (Increment \/ ReadFails)
    <3>1. /\ pc = "increment" /\ entry \in Path /\ entry # None
          /\ r = Root /\ Root \in Ancestors(entry)
          /\ Settled(entry) => Real(entry)
      BY <1>t, <2>6, TreeAssumption DEF Increment, ReadFails, Root, Stages, Iterating, IInv, Listed, Listable
    <3>2. CASE IterationFails
      <4>1. entry \in issues' /\ r \in Ancestors(entry) /\ r' = r
        BY <1>r, <3>1, <3>2 DEF IterationFails, Issue
      <4> QED BY <4>1 DEF Reported
    <3>3. CASE Increment /\ ~IterationFails
      <4>1. CASE Ahead(p)
        <5>1. PICK c \in Heap(dirs) : c \in Ancestors(p)
          BY <4>1 DEF Ahead
        <5>2. PICK stack : At(stack) /\ (stack = dirs \/ \E content \in Enterable : stack = Append(dirs, content))
          BY <3>3 DEF Increment
        <5>3. ASSUME NEW content \in Enterable
              PROVE  /\ Append(dirs, content) \in Seq(SUBSET Path)
                     /\ c \in Heap(Append(dirs, content))
          <6>1. content \in SUBSET Path /\ dirs \in Seq(SUBSET Path)
            BY <1>t, <3>1, OpenedContent DEF Enterable, TypeOK
          <6> QED BY <5>1, <6>1, HeapAppend
        <5>4. stack \in Seq(SUBSET Path) /\ c \in Heap(stack)
          BY <1>t, <5>1, <5>2, <5>3 DEF TypeOK
        <5> QED BY <1>3, <2>6, <5>1, <5>2, <5>4, AtPursues
      <4>2. CASE InHand(p)
        <5>1. entry \in Ancestors(p) /\ entry # p
          BY <3>1, <4>2 DEF InHand
        <5>2. /\ Settled(entry) /\ kind[entry] \in {"dir", "locked"}
              /\ ~(caching /\ Cache \in Ancestors(entry))
          BY <1>u, <3>1, <5>1
        <5>3. recurse /\ listed \in {"dir", "locked"}
          BY <3>1, <5>2 DEF IInv, Inspected, Shown, Iterating
        <5>4. PICK content \in Enterable : At(Append(dirs, content))
          BY <3>3, <5>3 DEF Increment
        <5>5. content \in Opened(entry)
          BY <5>4 DEF Enterable
        <5>6. PICK c \in content : c \in Ancestors(p)
          BY <1>t, <1>w, <3>1, <5>1, <5>5, EnteredOnWay DEF Sought
        <5>7. content \in SUBSET Path /\ dirs \in Seq(SUBSET Path)
          BY <1>t, <3>1, <5>5, OpenedContent DEF TypeOK
        <5>8. Append(dirs, content) \in Seq(SUBSET Path) /\ c \in Heap(Append(dirs, content))
          BY <5>6, <5>7, HeapAppend
        <5> QED BY <1>3, <2>6, <5>4, <5>6, <5>8, AtPursues
      <4> QED BY <2>6, <4>1, <4>2
    <3> QED BY <2>6, <3>2, <3>3 DEF ReadFails
  <2>7. CASE n = todo /\ UNCHANGED <<dirs, entry, pc>>
    BY <1>3, <1>o, <2>7, <1>i DEF Ahead, InHand, Heap
  <2>8. CASE n = todo /\ ~InspectRoot /\ ~OpenRoot /\ ~(UNCHANGED <<dirs, entry, pc>>)
    <3>1. CASE Ahead(p) \/ InHand(p)
      BY <2>4, <2>5, <2>6, <2>8, <3>1, <1>3, <1>1, <1>2 DEF Next, Step, RequestStop, Change, iterVars, vars
    <3>2. CASE pc \in {"inspectRoot", "openRoot"}
      BY <2>8, <3>2 DEF Next, Step, NormalizeRoots, NextRoot, Inspect, DirectoryLink, Decide, Increment, ReadFails, RequestStop, Change, iterVars, vars
    <3> QED BY <1>3, <1>o, <1>i, <2>8, <3>1, <3>2
  <2> QED BY <1>3, <1>o, <1>i, <2>1, <2>2, <2>3, <2>7, <2>8
<1>4. \/ NormalizeRoots \/ NextRoot
      \/ pc # "normalize" /\ todo' = todo
  BY DEF Next, Step, InspectRoot, OpenRoot, Inspect, DirectoryLink, Decide, Increment, ReadFails, RequestStop, Change, vars, Iterating, Resting
<1> QED BY <1>1, <1>2, <1>3, <1>4

-----------------------------------------------------------------------------
(***************************************************************************)
(* The theorems.                                                           *)
(***************************************************************************)
\* The invariant of the enumeration: what waits was reached as it may be, what
\* inspections told still holds, and no file that is wanted is forgotten.
THEOREM Inductive == Spec => []IInv
<1>1. Init => IInv
  <2> SUFFICES ASSUME Init PROVE IInv
    OBVIOUS
  <2>1. TypeOK
    <3>1. << >> \in Seq(SUBSET Path)
      BY EmptySeq
    <3>2. kind \in [Path -> Kind] /\ todo \in 0..RootCount
      BY TreeAssumption DEF Init
    <3> QED BY <3>1, <3>2 DEF Init, TypeOK, Position, Resting, Kind
  <2>2. Stages /\ RootsReal /\ RootOutside /\ Inspected /\ Pursued
    BY DEF Init, Stages, RootsReal, RootOutside, Inspected, Pursued, Iterating, Resting
  <2>3. CacheReal
    BY CacheAssumption, AncestorsBasic, TreeAssumption DEF Init, CacheReal, Real
  <2>4. Listed
    BY DEF Init, Listed, Heap
  <2>5. OnlyWanted
    BY FS_EmptySet, TreeAssumption DEF Init, OnlyWanted
  <2> QED BY <2>1, <2>2, <2>3, <2>4, <2>5 DEF IInv
<1>2. IInv /\ [Next]_vars => IInv'
  BY TypeStep, CacheRealStep, RootsRealStep, RootOutsideStep, ListedStep, InspectedStep, OnlyWantedStep, PursuedStep DEF IInv
<1> QED BY <1>1, <1>2, PTL DEF Spec

\* Whatever a scan finds is a file below a root, reached through real
\* directories, and not in the cache; and no more than the budget.
THEOREM FoundWanted == Spec => []OnlyWanted
<1>1. IInv => OnlyWanted
  BY DEF IInv
<1> QED BY <1>1, Inductive, PTL

\* A file that a scan should have found and has not is covered by an issue.
THEOREM MissingReported == Spec => []MissingHasIssue
<1>1. IInv => MissingHasIssue
  <2> SUFFICES ASSUME IInv, pc = "done", NEW p \in Path, Sought(p)
               PROVE  \E r \in RootPaths \cap Ancestors(p), q \in issues : r \in Ancestors(q)
    BY DEF MissingHasIssue, Sought
  <2>1. PICK n \in DOMAIN roots : Canonical[roots[n]] \in Ancestors(p)
    BY DEF Sought, Wanted, RootPaths
  <2>2. n \in 1..todo /\ dirs = << >>
    BY <2>1, LenRoots DEF IInv, Stages, Resting
  <2>3. Reported(Canonical[roots[n]])
    BY <2>1, <2>2 DEF IInv, Pursued, Iterating, Resting, Ahead, InHand, Heap
  <2> QED BY <2>1, <2>3 DEF Reported, RootPaths
<1> QED BY <1>1, Inductive, PTL
=============================================================================
