------------------------------ MODULE MihIndex ------------------------------
(***************************************************************************)
(* MihPdqIndex (src/index/mih_pdq.cpp): an index of hashes by their slots. *)
(* Its slots are words (16 of 16 bits).  Each slot value has a chain of    *)
(* the records that have it, through links.  Every statement of insert     *)
(* that allocates is a step, and may fail.                                 *)
(***************************************************************************)
EXTENDS PdqHash, Integers

CONSTANTS Id,         \* identifiers, ordered
          Hash,       \* the hashes inserted
          Query,      \* the hashes searched for
          None,
          End,        \* the position of no record (UINT32_MAX)
          Budget,     \* what a bucket search may cost, by size (size / 64)
          MaxReserve, \* bound on the argument of reserve
          MaxBuild    \* bound on the records an index is built from

ASSUME IndexAssumption ==
  /\ Id \subseteq Nat /\ Id # {} /\ IsFiniteSet(Id)
  /\ End \in Nat \ {0}
  /\ Hash \subseteq AllHash /\ Hash # {} /\ Query \subseteq AllHash
  /\ Budget \in [0..End -> Nat]
  /\ MaxReserve \in Nat /\ MaxBuild \in Nat
  /\ None \notin Hash /\ None \notin [id : Id, hash : Hash]

VARIABLES
  entries,            \* the records, by position (from 0 in the code)
  links,              \* of each record and slot, the next position
  heads, counts,      \* of each slot value, first position and length
  tables,             \* whether heads and counts are allocated
  ids,                \* all the identifiers, or none: entries are sorted
  entryRoom, linkRoom,  \* capacities of the two vectors
  pc,                 \* where the call under way is
  new,                \* the record it inserts
  want,               \* the capacity it reserves
  result              \* how the last call ended

indexVars == <<entries, links, heads, counts, tables, ids>>
roomVars  == <<entryRoom, linkRoom>>
callVars  == <<new, want>>
vars      == <<indexVars, roomVars, pc, callVars, result>>

Size   == Len(entries)
Record == [id : Id, hash : Hash]
NoRecord == CHOOSE r \in Record : TRUE
Bare(x) == [s \in Slot |-> [k \in Value |-> x]]

Init == /\ entries = << >> /\ links = << >>
        /\ heads = Bare(End) /\ counts = Bare(0)
        /\ tables = FALSE
        /\ ids = {}
        /\ entryRoom = 0 /\ linkRoom = 0
        /\ pc = "idle"
        /\ new = NoRecord
        /\ want = 0
        /\ result = "ok"

Larger(a, b) == IF a > b THEN a ELSE b

Unordered == ids # {}
OutOfOrder(i) == entries # << >> /\ i <= entries[Size].id

-----------------------------------------------------------------------------
(***************************************************************************)
(* Faulty variants, none of them part of the specification.                *)
(***************************************************************************)
\* The room in links is not looked at.
RoomFailsUnlinked == Size = entryRoom

\* Sorted records are compared with the last one only.
KnownLast(i) == IF Unordered THEN i \in ids
                ELSE entries # << >> /\ i = entries[Size].id

\* One wider slot too few.
BallNarrow(s, d) ==
  LET radius == IF s < d % Slots THEN d \div Slots ELSE (d \div Slots) - 1
  IN {m \in Value : Cardinality(m) <= radius}

-----------------------------------------------------------------------------
(***************************************************************************)
(* insert and reserve                                                      *)
(***************************************************************************)
\* Looked up in the set, or by bisection in sorted records.
Known(i) == IF Unordered THEN i \in ids
            ELSE OutOfOrder(i) /\ \E p \in 1..Size : entries[p].id = i

Ends(r) == /\ pc' = "idle" /\ result' = r
           /\ new' = NoRecord /\ want' = 0

Growth == LET half == Size \div 2 + 1
          IN IF half < End - Size THEN half ELSE End - Size

RoomFails == Size = entryRoom \/ Size = linkRoom

Insert(i, h) ==
  /\ pc = "idle"
  /\ new' = [id |-> i, hash |-> h]
  /\ pc' = "check"
  /\ UNCHANGED <<indexVars, roomVars, want, result>>

Check ==
  /\ pc = "check"
  /\ IF Known(new.id) THEN Ends("duplicate")
     ELSE IF Size = End THEN Ends("length")
     ELSE /\ want' = IF RoomFails THEN Size + Growth ELSE 0
          /\ pc' = IF RoomFails THEN "insertRoom" ELSE "tables"
          /\ UNCHANGED <<new, result>>
  /\ UNCHANGED <<indexVars, roomVars>>

Reserve(n) ==
  /\ pc = "idle"
  /\ IF n > End THEN Ends("length")
     ELSE want' = n /\ pc' = "reserveRoom" /\ UNCHANGED <<new, result>>
  /\ UNCHANGED <<indexVars, roomVars>>

\* entries_, links_, ids_, in this order; each may fail.
GrowAll ==
  /\ pc \in {"insertRoom", "reserveRoom"}
  /\ entryRoom' = Larger(entryRoom, want)
  /\ linkRoom' = Larger(linkRoom, want)
  /\ IF pc = "insertRoom" THEN pc' = "tables" /\ UNCHANGED <<callVars, result>>
                          ELSE Ends("ok")
  /\ UNCHANGED indexVars

GrowFails ==
  /\ pc \in {"insertRoom", "reserveRoom"}
  /\ \/ UNCHANGED roomVars
     \/ entryRoom' = Larger(entryRoom, want) /\ UNCHANGED linkRoom
     \/ /\ Unordered
        /\ entryRoom' = Larger(entryRoom, want)
        /\ linkRoom' = Larger(linkRoom, want)
  /\ Ends("memory")
  /\ UNCHANGED indexVars

AllocateTables ==
  /\ pc = "tables"
  /\ tables' = TRUE
  /\ pc' = "ids"
  /\ UNCHANGED <<entries, links, heads, counts, ids, roomVars, callVars, result>>

\* The set is built aside, and swapped in.
AddId ==
  /\ pc = "ids"
  /\ ids' = IF Unordered THEN ids \cup {new.id}
            ELSE IF OutOfOrder(new.id)
              THEN {entries[p].id : p \in 1..Size} \cup {new.id}
            ELSE {}
  /\ pc' = "entry"
  /\ UNCHANGED <<entries, links, heads, counts, tables, roomVars, callVars,
                 result>>

PushEntry ==
  /\ pc = "entry"
  /\ entries' = Append(entries, new)
  /\ entryRoom' = Larger(entryRoom, Size + 1)
  /\ pc' = "links"
  /\ UNCHANGED <<links, heads, counts, tables, ids, linkRoom, callVars, result>>

Allocates == CASE pc = "tables" -> ~tables
               [] pc = "ids"    -> Unordered \/ OutOfOrder(new.id)
               [] pc = "entry"  -> Size = entryRoom
               [] pc = "links"  -> Len(links) = linkRoom
               [] OTHER         -> FALSE

AllocationFails ==
  /\ Allocates
  /\ Ends("memory")
  /\ UNCHANGED <<indexVars, roomVars>>

\* link: the record becomes the head of the chain of each of its slots.
Linked(table, p, h) ==
  [links  |-> Append(table.links, [s \in Slot |-> table.heads[s][h[s]]]),
   heads  |-> [s \in Slot |-> [table.heads[s] EXCEPT ![h[s]] = p]],
   counts |-> [s \in Slot |-> [table.counts[s] EXCEPT ![h[s]] = @ + 1]]]

Become(table) == /\ links' = table.links
                 /\ heads' = table.heads
                 /\ counts' = table.counts

PushLinks ==
  /\ pc = "links"
  /\ Become(Linked([links |-> links, heads |-> heads, counts |-> counts],
                   Size - 1, new.hash))
  /\ linkRoom' = Larger(linkRoom, Len(links) + 1)
  /\ Ends("ok")
  /\ UNCHANGED <<entries, tables, ids, entryRoom>>

-----------------------------------------------------------------------------
(***************************************************************************)
(* Construction, assignment                                                *)
(***************************************************************************)
Blank == [links |-> << >>, heads |-> Bare(End), counts |-> Bare(0)]

Tables(records) ==
  LET f[n \in 0..Len(records)] ==
        IF n = 0 THEN Blank ELSE Linked(f[n - 1], n - 1, records[n].hash)
  IN f[Len(records)]

SortedIds(records) ==
  \A p, q \in 1..Len(records) : p < q => records[p].id <= records[q].id

Duplicates(records) ==
  \E p, q \in 1..Len(records) : p # q /\ records[p].id = records[q].id

\* index = MihPdqIndex(records): an exception, which memory may be the cause of
\* before duplicates are looked for or after, leaves index as it was.
Refuses(records) ==
  /\ \/ Len(records) > End /\ Ends("length")
     \/ Len(records) <= End /\ Duplicates(records) /\ Ends("duplicate")
     \/ Len(records) \in 1..End /\ Ends("memory")
  /\ UNCHANGED <<indexVars, roomVars>>

Builds(records) ==
  /\ Len(records) <= End /\ ~Duplicates(records)
  /\ entries' = records
  /\ ids' = IF SortedIds(records) THEN {}
            ELSE {records[p].id : p \in 1..Len(records)}
  /\ tables' = (records # << >>)
  /\ Become(Tables(records))
  /\ entryRoom' = Len(records) /\ linkRoom' = Len(records)
  /\ Ends("ok")

Build(records) == pc = "idle" /\ (Refuses(records) \/ Builds(records))

\* index = copy of index: the vectors of the copy have no room to spare.
Copy ==
  /\ pc = "idle"
  /\ \/ entryRoom' = Size /\ linkRoom' = Size /\ Ends("ok")
     \/ tables /\ Ends("memory") /\ UNCHANGED roomVars
  /\ UNCHANGED indexVars

\* The index is moved from.
MoveFrom ==
  /\ pc = "idle"
  /\ entries' = << >> /\ ids' = {} /\ tables' = FALSE
  /\ Become(Blank)
  /\ entryRoom' = 0 /\ linkRoom' = 0
  /\ Ends("ok")

Step == \/ Check \/ GrowAll \/ GrowFails \/ AllocateTables \/ AddId \/ PushEntry
        \/ AllocationFails \/ PushLinks

Next == \/ \E i \in Id, h \in Hash : Insert(i, h)
        \/ \E n \in 0..MaxReserve : Reserve(n)
        \/ Step
        \/ \E n \in 0..MaxBuild : \E records \in [1..n -> Record] : Build(records)
        \/ Copy
        \/ MoveFrom

Spec == Init /\ [][Next]_vars

-----------------------------------------------------------------------------
(***************************************************************************)
(* search_within                                                           *)
(***************************************************************************)
\* Mixed radii: threshold % Slots + 1 slots are searched one bit wider.
Ball(s, d) ==
  LET radius == IF s < (d % Slots) + 1 THEN d \div Slots ELSE (d \div Slots) - 1
  IN {m \in Value : Cardinality(m) <= radius}

Buckets(q, d) == UNION {{<<s, Changed(q[s], m)>> : m \in Ball(s, d)} : s \in Slot}

\* The positions on the chain of a slot value.
Chain(s, k) ==
  LET f[p \in 0..Len(links) - 1 \cup {End}] ==
        IF p = End THEN {} ELSE {p} \cup f[links[p + 1][s]]
  IN f[heads[s][k]]

\* Lookups and postings are counted against the budget as they are met; both
\* only grow, so the order is of no account.
UsesBuckets(q, d) ==
  /\ d < 3 * Slots /\ Size # 0
  /\ LET probes   == Buckets(q, d)
         postings == MapThenSumSet(LAMBDA k : counts[k[1]][k[2]], probes)
     IN Cardinality(probes) < Budget[Size]
        /\ postings < Budget[Size] - Cardinality(probes)

Candidates(q, d) == IF UsesBuckets(q, d)
                      THEN UNION {Chain(k[1], k[2]) : k \in Buckets(q, d)}
                      ELSE 0..Size - 1

\* In the order of positions, sorted by identifier where it may differ.
Search(q, d) ==
  LET near == {p \in Candidates(q, d) : Distance(q, entries[p + 1].hash) <= d}
      hit(p) == <<entries[p + 1].id, Distance(q, entries[p + 1].hash)>>
      before(p, r) == IF Unordered THEN entries[p + 1].id < entries[r + 1].id
                      ELSE p < r
      order == CHOOSE f \in [1..Cardinality(near) -> near] :
                 \A m, n \in DOMAIN f : m < n => before(f[m], f[n])
  IN [n \in DOMAIN order |-> hit(order[n])]

-----------------------------------------------------------------------------
(***************************************************************************)
(* Properties.                                                             *)
(***************************************************************************)
TypeOK ==
  /\ entries \in Seq(Record) /\ Size <= End
  /\ links \in Seq([Slot -> 0..End])
  /\ heads \in [Slot -> [Value -> 0..End]]
  /\ counts \in [Slot -> [Value -> 0..End]]
  /\ tables \in BOOLEAN
  /\ ids \subseteq Id
  /\ entryRoom \in Nat /\ linkRoom \in Nat
  /\ pc \in {"idle", "check", "insertRoom", "reserveRoom", "tables", "ids", "entry",
             "links"}
  /\ new \in Record /\ want \in 0..End
  /\ result \in {"ok", "duplicate", "length", "memory"}

\* Between calls, however they ended, the chains of each slot partition the
\* records, and the counts that decide on the search are their lengths.
ChainsComplete ==
  pc = "idle" =>
    /\ Len(links) = Size
    /\ Size # 0 => tables
    /\ \A s \in Slot, k \in Value :
         /\ Chain(s, k) = {p \in 0..Size - 1 : entries[p + 1].hash[s] = k}
         /\ counts[s][k] = Cardinality(Chain(s, k))

\* The identifier set is all or nothing, and nothing only if records are sorted.
IdsComplete ==
  pc = "idle" =>
    \/ ids = {entries[p].id : p \in 1..Size}
    \/ ids = {} /\ SortedIds(entries)

\* What a search and an insertion rely on, after every call and every failure.
IndexConsistent == TypeOK /\ ChainsComplete /\ IdsComplete

\* docs/api.md: "Flat and MIH return every hash at Hamming distance <= the
\* threshold, sorted by unique" identifier.
Exact(found, q, d) ==
  /\ {found[n] : n \in DOMAIN found} =
       {<<entries[p].id, Distance(q, entries[p].hash)>> :
          p \in {r \in 1..Size : Distance(q, entries[r].hash) <= d}}
  /\ \A m, n \in DOMAIN found : m < n => found[m][1] < found[n][1]

SearchExact ==
  pc = "idle" =>
    \A q \in Query, d \in 0..Slots * Bits : Exact(Search(q, d), q, d)

\* To its caller an insertion adds the record or, however it fails, changes
\* nothing; exactly the known identifiers are duplicates.
Map == [i \in Id |->
          IF \E p \in 1..Len(links) : entries[p].id = i
            THEN entries[CHOOSE p \in 1..Len(links) : entries[p].id = i].hash
            ELSE None]

Index == INSTANCE PdqIndex WITH
           map  <- Map,
           call <- IF pc \in {"idle", "reserveRoom"} THEN None ELSE new
ImplementsPdqIndex == Index!Spec
=============================================================================
