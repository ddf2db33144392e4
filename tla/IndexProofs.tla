----------------------------- MODULE IndexProofs -----------------------------
(***************************************************************************)
(* Theorems about the two indexes that search by slots: MihIndex, for any  *)
(* identifiers, hashes and slots, any capacity and any budget, and, at the *)
(* end, VpdqCoverage with its index by bytes, for any lists.  Both rest on *)
(* one fact: within a distance, some slot is within its radius.            *)
(*                                                                         *)
(* The invariant of MihIndex describes the tables by the records they were *)
(* linked from (Tabled): heads and links hold the last record before,      *)
(* counts the number of records.  It says what room an insertion has made  *)
(* sure of at each of its statements (Rooms), without which a failed       *)
(* allocation could leave a record that is in no chain.                    *)
(***************************************************************************)
EXTENDS MihIndex, VpdqCoverage, FiniteSetTheorems, SequenceTheorems, TLAPS

(***************************************************************************)
(* The invariant.                                                          *)
(***************************************************************************)

\* The last of the first n records that has this slot value, or End.
IsLast(x, records, n, s, k) ==
  \/ x = End /\ \A p \in 1..n : records[p].hash[s] # k
  \/ /\ x \in 0..n - 1 /\ records[x + 1].hash[s] = k
     /\ \A p \in x + 2..n : records[p].hash[s] # k

\* The positions of the first n records that have this slot value.
Having(records, n, s, k) == {p \in 0..n - 1 : records[p + 1].hash[s] = k}

TableSet == [links  : Seq([Slot -> 0..End]),
             heads  : [Slot -> [Value -> 0..End]],
             counts : [Slot -> [Value -> 0..End]]]

\* The tables are those of the first n records.
Tabled(table, records, n) ==
  /\ table \in TableSet
  /\ Len(table.links) = n
  /\ \A s \in Slot, k \in Value :
       /\ IsLast(table.heads[s][k], records, n, s, k)
       /\ table.counts[s][k] = Cardinality(Having(records, n, s, k))
  /\ \A p \in 1..n, s \in Slot :
       IsLast(table.links[p][s], records, p - 1, s, records[p].hash[s])

Current == [links |-> links, heads |-> heads, counts |-> counts]

\* Every record that is stored is linked, but the one being inserted.
Linking ==
  /\ pc = "links" => Size # 0 /\ entries[Size] = new
  /\ Tabled(Current, entries, IF pc = "links" THEN Size - 1 ELSE Size)

IdsOf(records) == {records[p].id : p \in 1..Len(records)}

\* Identifiers are unique, and the set is all or nothing; it has the new one first.
Identifiers ==
  /\ ~Duplicates(entries)
  /\ pc \in {"insertRoom", "tables", "ids", "entry"} => new.id \notin IdsOf(entries)
  /\ LET known == IF pc = "entry" THEN Append(entries, new) ELSE entries
     IN ids = IdsOf(known) \/ (ids = {} /\ SortedIds(known))

\* What an insertion has made sure of by the time it gets there.
Rooms ==
  /\ entryRoom >= Size /\ linkRoom >= Len(links)
  /\ pc = "insertRoom" => want > Size
  /\ pc \in {"tables", "ids", "entry"} => entryRoom > Size /\ linkRoom > Size
  /\ pc = "links" => linkRoom > Len(links)
  /\ pc \in {"insertRoom", "tables", "ids", "entry"} => Size < End
  /\ Size # 0 \/ pc \in {"ids", "entry"} => tables

IInv == TypeOK /\ Linking /\ Identifiers /\ Rooms

-----------------------------------------------------------------------------
(***************************************************************************)
(* Induction and recursion on numbers.                                     *)
(***************************************************************************)

\* Numbers, if any, have a least one.
LEMMA Least ==
  ASSUME NEW T \in SUBSET Nat, T # {}
  PROVE  \E x \in T : \A y \in T : x <= y
<1> DEFINE R == OpToRel(<, Nat)
<1>1. \A x, y \in Nat : <<x, y>> \in R <=> x < y
  BY DEF OpToRel
<1>2. T \subseteq Nat /\ IsWellFoundedOn(R, Nat)
  BY NatLessThanWellFounded
<1> HIDE DEF R
<1>3. \E x \in T : \A y \in T : ~ (<<y, x>> \in R)
  BY <1>2, WFMin, Zenon
<1>4. PICK x \in T : \A y \in T : ~ (<<y, x>> \in R)
  BY <1>3
<1>5. ASSUME NEW y \in T PROVE x <= y
  <2>1. x \in Nat /\ y \in Nat /\ ~ (<<y, x>> \in R)
    BY <1>4
  <2>2. ~ (y < x)
    BY <1>1, <2>1
  <2> QED BY <2>1, <2>2
<1> QED BY <1>5

\* Induction up to a number.
LEMMA Induct ==
  ASSUME NEW n \in Nat, NEW T \in SUBSET (0..n), 0 \in T,
         \A m \in 0..n - 1 : m \in T => m + 1 \in T
  PROVE  \A m \in 0..n : m \in T
<1> DEFINE Bad == (0..n) \ T
<1> SUFFICES ASSUME Bad # {} PROVE FALSE
  OBVIOUS
<1>1. Bad \in SUBSET Nat
  OBVIOUS
<1>2. PICK m \in Bad : \A i \in Bad : m <= i
  <2> HIDE DEF Bad
  <2> QED BY <1>1, Least
<1>3. m \in 0..n /\ m # 0 /\ m - 1 \in 0..n - 1 /\ m - 1 + 1 = m
  OBVIOUS
<1>4. m - 1 \notin Bad
  BY <1>1, <1>2
<1> QED BY <1>3, <1>4

\* The function has the value, and the next by the step, up to a number.
Recurs(f, a, step, n) ==
  f = [m \in 0..n |-> IF m = 0 THEN a ELSE step[<<m, f[m - 1]>>]]

\* Where each value determines the next, there is a function of all of them.
LEMMA Recursion ==
  ASSUME NEW n \in Nat, NEW S, NEW step, NEW a \in S[0],
         \A m \in 1..n : \A x \in S[m - 1] : step[<<m, x>>] \in S[m]
  PROVE  \E f : Recurs(f, a, step, n) /\ \A m \in 0..n : f[m] \in S[m]
<1> DEFINE Good(f, m) == Recurs(f, a, step, m) /\ \A i \in 0..m : f[i] \in S[i]
           T == {m \in 0..n : \E f : Good(f, m)}
<1>1. 0 \in T
  <2> DEFINE f == [i \in 0..0 |-> a]
  <2>1. Good(f, 0)
    BY DEF Recurs
  <2> HIDE DEF f, Good
  <2> QED BY <2>1
<1>2. ASSUME NEW m \in 0..n - 1, m \in T PROVE m + 1 \in T
  <2>1. PICK f : Good(f, m)
    BY <1>2
  <2> DEFINE g == [i \in 0..m + 1 |-> IF i = 0 THEN a ELSE step[<<i, f[i - 1]>>]]
  <2>2. /\ g = [i \in 0..m + 1 |-> g[i]]
        /\ \A i \in 0..m + 1 : g[i] = IF i = 0 THEN a ELSE step[<<i, f[i - 1]>>]
    OBVIOUS
  <2> HIDE DEF g
  <2>i. \A i \in 0..m : i \in 0..m + 1 /\ g[i] = f[i]
    <3>1. \A i \in 0..m : i \in 0..m + 1 /\ f[i] = IF i = 0 THEN a ELSE step[<<i, f[i - 1]>>]
      BY <2>1 DEF Recurs
    <3> QED BY <2>2, <3>1
  <2>3. \A i \in 0..m + 1 : i # 0 => i - 1 \in 0..m /\ g[i - 1] = f[i - 1]
    BY <2>i
  <2>4. g = [i \in 0..m + 1 |-> IF i = 0 THEN a ELSE step[<<i, g[i - 1]>>]]
    <3>1. \A i \in 0..m + 1 : g[i] = IF i = 0 THEN a ELSE step[<<i, g[i - 1]>>]
      BY <2>2, <2>3
    <3> QED BY <2>2, <3>1
  <2>a. m + 1 \in 1..n /\ m + 1 - 1 = m /\ m + 1 \in 0..m + 1 /\ m + 1 # 0 /\ m \in 0..m
    OBVIOUS
  <2>b. g[m + 1] = step[<<m + 1, f[m + 1 - 1]>>] /\ f[m] \in S[m]
    BY <2>1, <2>2, <2>a
  <2>5. g[m + 1] = step[<<m + 1, f[m]>>] /\ f[m] \in S[m] /\ m + 1 \in 1..n /\ m + 1 - 1 = m
    BY <2>a, <2>b
  <2>6. \A i \in 0..m + 1 : g[i] \in S[i]
    <3>1. g[m + 1] \in S[m + 1]
      BY <2>5
    <3>2. \A i \in 0..m : g[i] \in S[i]
      BY <2>1, <2>i
    <3>3. \A i \in 0..m + 1 : i = m + 1 \/ i \in 0..m
      OBVIOUS
    <3> QED BY <3>1, <3>2, <3>3
  <2>7. Good(g, m + 1)
    BY <2>4, <2>6 DEF Recurs
  <2> HIDE DEF Good
  <2> QED BY <2>7
<1>3. n \in T
  <2> HIDE DEF T
  <2>1. T \in SUBSET (0..n)
    BY DEF T
  <2> QED BY <1>1, <1>2, <2>1, Induct
<1> QED BY <1>3

\* A finite set of numbers can be listed in order.
LEMMA InOrder ==
  ASSUME NEW T \in SUBSET Nat, IsFiniteSet(T)
  PROVE  \E f \in [1..Cardinality(T) -> T] :
           /\ \A x \in T : \E m \in 1..Cardinality(T) : f[m] = x
           /\ \A m, n \in 1..Cardinality(T) : m < n => f[m] < f[n]
<1> DEFINE Listed(U) == \E f \in [1..Cardinality(U) -> U] :
                          /\ \A x \in U : \E m \in 1..Cardinality(U) : f[m] = x
                          /\ \A m, n \in 1..Cardinality(U) : m < n => f[m] < f[n]
           Bad == {Cardinality(U) : U \in {V \in SUBSET T : ~Listed(V)}}
<1>1. ASSUME NEW U \in SUBSET T PROVE IsFiniteSet(U) /\ Cardinality(U) \in Nat
  BY FS_Subset, FS_CardinalityType
<1>2. Bad \in SUBSET Nat
  BY <1>1
<1>3. SUFFICES ASSUME Bad # {} PROVE FALSE
  OBVIOUS
<1>4. PICK c \in Bad : \A d \in Bad : c <= d
  <2> HIDE DEF Bad
  <2> QED BY <1>2, <1>3, Least
<1>5. PICK U \in SUBSET T : ~Listed(U) /\ Cardinality(U) = c
  OBVIOUS
<1>6. U # {}
  <2> SUFFICES ASSUME U = {} PROVE FALSE
    OBVIOUS
  <2>1. Cardinality(U) = 0
    BY FS_EmptySet
  <2>2. 1..Cardinality(U) = {}
    BY <2>1
  <2>3. [m \in 1..Cardinality(U) |-> 0] \in [1..Cardinality(U) -> U]
    BY <2>2
  <2> QED BY <1>5, <2>2, <2>3
<1>7. PICK z \in U : \A x \in U : z <= x
  <2>1. U \in SUBSET Nat
    BY <1>5
  <2> QED BY <1>6, <2>1, Least
<1> DEFINE V == U \ {z}
<1>8. V \in SUBSET T /\ Cardinality(V) = c - 1 /\ c \in Nat \ {0}
  BY <1>1, <1>2, <1>5, <1>6, FS_RemoveElement, FS_EmptySet
<1>9. Listed(V)
  <2> SUFFICES ASSUME ~Listed(V) PROVE FALSE
    OBVIOUS
  <2>1. c - 1 \in Bad
    BY <1>8
  <2> HIDE DEF Bad
  <2> QED BY <1>4, <1>8, <2>1
<1>10. PICK f \in [1..c - 1 -> V] :
          /\ \A x \in V : \E m \in 1..c - 1 : f[m] = x
          /\ \A m, n \in 1..c - 1 : m < n => f[m] < f[n]
  BY <1>8, <1>9
<1> DEFINE g == [m \in 1..c |-> IF m = 1 THEN z ELSE f[m - 1]]
<1>11. /\ g \in [1..c -> U] /\ g[1] = z
       /\ \A m \in 1..c - 1 : g[m + 1] = f[m] /\ z < f[m]
  <2>1. \A m \in 1..c - 1 : m + 1 \in 1..c /\ m + 1 # 1 /\ m + 1 - 1 = m
    BY <1>8
  <2>2. \A m \in 1..c : m # 1 => m - 1 \in 1..c - 1
    BY <1>8
  <2>3. \A m \in 1..c - 1 : f[m] \in U /\ f[m] \in Nat /\ z \in Nat /\ f[m] # z
    BY <1>5, <1>10
  <2>4. \A m \in 1..c - 1 : z < f[m]
    BY <1>7, <2>3
  <2>5. g \in [1..c -> U]
    BY <2>2, <2>3
  <2>6. g[1] = z /\ \A m \in 1..c - 1 : g[m + 1] = f[m]
    BY <1>8, <2>1
  <2> QED BY <2>4, <2>5, <2>6
<1>12. \A x \in U : \E m \in 1..c : g[m] = x
  <2>1. ASSUME NEW x \in V PROVE \E m \in 1..c : g[m] = x
    <3>1. PICK m \in 1..c - 1 : f[m] = x
      BY <1>10
    <3>2. m + 1 \in 1..c /\ g[m + 1] = x
      BY <1>8, <1>11, <3>1
    <3> HIDE DEF g
    <3> QED BY <3>2
  <2>2. 1 \in 1..c
    BY <1>8
  <2> QED BY <1>11, <2>1, <2>2
<1>13. \A m, n \in 1..c : m < n => g[m] < g[n]
  <2> SUFFICES ASSUME NEW m \in 1..c, NEW n \in 1..c, m < n PROVE g[m] < g[n]
    OBVIOUS
  <2>1. n - 1 \in 1..c - 1 /\ g[n] = f[n - 1]
    BY <1>8
  <2>2. CASE m = 1
    BY <1>11, <2>1, <2>2
  <2>3. CASE m # 1
    <3>1. m - 1 \in 1..c - 1 /\ g[m] = f[m - 1] /\ m - 1 < n - 1
      BY <1>8, <2>3
    <3> QED BY <1>10, <2>1, <3>1
  <2> QED BY <2>2, <2>3
<1> HIDE DEF g
<1> QED BY <1>5, <1>11, <1>12, <1>13

-----------------------------------------------------------------------------
(***************************************************************************)
(* The tables.                                                             *)
(***************************************************************************)

\* A chain is no longer than the index.
LEMMA HavingFinite ==
  ASSUME NEW records, NEW n \in Nat, NEW s, NEW k
  PROVE  /\ IsFiniteSet(Having(records, n, s, k))
         /\ Cardinality(Having(records, n, s, k)) \in 0..n
<1>1. IsFiniteSet(0..n - 1) /\ Cardinality(0..n - 1) = n
  BY FS_Interval
<1>2. Having(records, n, s, k) \in SUBSET (0..n - 1)
  BY DEF Having
<1>3. /\ IsFiniteSet(Having(records, n, s, k))
      /\ Cardinality(Having(records, n, s, k)) <= n
  BY <1>1, <1>2, FS_Subset
<1> QED BY <1>3, FS_CardinalityType

\* One record more is on the chains of its own slot values.
LEMMA HavingNext ==
  ASSUME NEW records, NEW n \in Nat, NEW s, NEW k
  PROVE  Cardinality(Having(records, n + 1, s, k)) =
           IF records[n + 1].hash[s] = k THEN Cardinality(Having(records, n, s, k)) + 1
                                         ELSE Cardinality(Having(records, n, s, k))
<1>1. CASE records[n + 1].hash[s] = k
  <2>1. Having(records, n + 1, s, k) = Having(records, n, s, k) \cup {n}
    BY <1>1 DEF Having
  <2>2. n \notin Having(records, n, s, k)
    BY DEF Having
  <2>3. IsFiniteSet(Having(records, n, s, k))
    BY HavingFinite
  <2>4. Cardinality(Having(records, n, s, k) \cup {n}) = Cardinality(Having(records, n, s, k)) + 1
    BY <2>2, <2>3, FS_AddElement
  <2> QED BY <1>1, <2>1, <2>4
<1>2. CASE records[n + 1].hash[s] # k
  <2>1. Having(records, n + 1, s, k) = Having(records, n, s, k)
    BY <1>2 DEF Having
  <2> QED BY <1>2, <2>1
<1> QED BY <1>1, <1>2

\* The last record before stays it past one that has another slot value.
LEMMA LastNext ==
  ASSUME NEW x, NEW records, NEW n \in Nat, NEW s, NEW k,
         IsLast(x, records, n, s, k), records[n + 1].hash[s] # k
  PROVE  IsLast(x, records, n + 1, s, k)
<1>1. CASE x = End /\ \A p \in 1..n : records[p].hash[s] # k
  <2>1. \A p \in 1..n + 1 : records[p].hash[s] # k
    BY <1>1
  <2> QED BY <1>1, <2>1 DEF IsLast
<1>2. CASE /\ x \in 0..n - 1 /\ records[x + 1].hash[s] = k
           /\ \A p \in x + 2..n : records[p].hash[s] # k
  <2>1. \A p \in x + 2..n + 1 : records[p].hash[s] # k
    BY <1>2
  <2>2. x \in 0..n + 1 - 1
    BY <1>2
  <2> QED BY <1>2, <2>1, <2>2 DEF IsLast
<1> QED BY <1>1, <1>2 DEF IsLast

\* link brings the tables to the next record.
LEMMA LinkedTabled ==
  ASSUME NEW table, NEW records, NEW n \in Nat, n < End,
         records[n + 1].hash \in [Slot -> Value], Tabled(table, records, n)
  PROVE  Tabled(Linked(table, n, records[n + 1].hash), records, n + 1)
<1> DEFINE h     == records[n + 1].hash
           row   == [s \in Slot |-> table.heads[s][h[s]]]
           after == Linked(table, n, h)
<1>1. /\ table \in TableSet /\ Len(table.links) = n /\ h \in [Slot -> Value]
      /\ table.links \in Seq([Slot -> 0..End])
      /\ table.heads \in [Slot -> [Value -> 0..End]]
      /\ table.counts \in [Slot -> [Value -> 0..End]]
  BY DEF Tabled, TableSet
<1>h. End \in Nat
  BY IndexAssumption
<1>2. row \in [Slot -> 0..End]
  BY <1>1
<1>3. /\ Append(table.links, row) \in Seq([Slot -> 0..End])
      /\ Len(Append(table.links, row)) = n + 1
      /\ \A p \in 1..n : Append(table.links, row)[p] = table.links[p]
      /\ Append(table.links, row)[n + 1] = row
  <2> HIDE DEF row
  <2>1. \A p \in 1..n : p \in 1..Len(table.links)
    BY <1>1
  <2> QED BY <1>1, <1>2, <2>1, AppendProperties
<1>4. /\ after.links = Append(table.links, row)
      /\ after.heads = [s \in Slot |-> [table.heads[s] EXCEPT ![h[s]] = n]]
      /\ after.counts = [s \in Slot |-> [table.counts[s] EXCEPT ![h[s]] = @ + 1]]
      /\ after = [links |-> after.links, heads |-> after.heads, counts |-> after.counts]
  BY DEF Linked
<1> HIDE DEF after
<1>5. ASSUME NEW s \in Slot, NEW k \in Value
      PROVE  /\ after.heads[s][k] = IF k = h[s] THEN n ELSE table.heads[s][k]
             /\ after.counts[s][k] = IF k = h[s] THEN table.counts[s][k] + 1
                                                 ELSE table.counts[s][k]
  <2>1. /\ table.heads[s] \in [Value -> 0..End] /\ table.counts[s] \in [Value -> 0..End]
        /\ h[s] \in Value
    BY <1>1
  <2>2. /\ after.heads[s] = [table.heads[s] EXCEPT ![h[s]] = n]
        /\ after.counts[s] = [table.counts[s] EXCEPT ![h[s]] = table.counts[s][h[s]] + 1]
    BY <1>4
  <2> QED BY <2>1, <2>2
<1>6. ASSUME NEW s \in Slot, NEW k \in Value
      PROVE  /\ IsLast(after.heads[s][k], records, n + 1, s, k)
             /\ after.counts[s][k] = Cardinality(Having(records, n + 1, s, k))
  <2>1. /\ IsLast(table.heads[s][k], records, n, s, k)
        /\ table.counts[s][k] = Cardinality(Having(records, n, s, k))
    BY DEF Tabled
  <2>2. CASE k = h[s]
    <3>1. n \in 0..n + 1 - 1 /\ n + 2..n + 1 = {}
      OBVIOUS
    <3>2. IsLast(n, records, n + 1, s, k)
      BY <2>2, <3>1 DEF IsLast
    <3>3. Cardinality(Having(records, n + 1, s, k)) = Cardinality(Having(records, n, s, k)) + 1
      BY <2>2, HavingNext
    <3> QED BY <1>5, <2>1, <2>2, <3>2, <3>3
  <2>3. CASE k # h[s]
    BY <1>5, <2>1, <2>3, HavingNext, LastNext
  <2> QED BY <2>2, <2>3
<1>7. ASSUME NEW p \in 1..n + 1, NEW s \in Slot
      PROVE  IsLast(after.links[p][s], records, p - 1, s, records[p].hash[s])
  <2>1. CASE p = n + 1
    <3>1. after.links[p][s] = table.heads[s][h[s]] /\ h[s] \in Value
      <4>1. after.links[p] = row
        BY <1>3, <1>4, <2>1
      <4> QED BY <1>1, <4>1
    <3>2. IsLast(table.heads[s][h[s]], records, n, s, h[s])
      BY <3>1 DEF Tabled
    <3>3. p - 1 = n
      BY <2>1
    <3> QED BY <2>1, <3>1, <3>2, <3>3
  <2>2. CASE p # n + 1
    <3>1. p \in 1..n
      BY <2>2
    <3>2. after.links[p] = table.links[p]
      BY <1>3, <1>4, <3>1
    <3> QED BY <3>1, <3>2 DEF Tabled
  <2> QED BY <2>1, <2>2
<1>8. after \in TableSet
  <2>1. after.heads \in [Slot -> [Value -> 0..End]]
    <3>1. ASSUME NEW s \in Slot
          PROVE  [table.heads[s] EXCEPT ![h[s]] = n] \in [Value -> 0..End]
      <4>1. table.heads[s] \in [Value -> 0..End] /\ n \in 0..End
        BY <1>1, <1>h
      <4> QED BY <4>1
    <3> DEFINE changed(s) == [table.heads[s] EXCEPT ![h[s]] = n]
    <3>2. after.heads = [s \in Slot |-> changed(s)] /\ \A s \in Slot : changed(s) \in [Value -> 0..End]
      BY <1>4, <3>1
    <3> HIDE DEF changed
    <3> QED BY <3>2
  <2>2. after.counts \in [Slot -> [Value -> 0..End]]
    <3>1. \A s \in Slot, k \in Value : after.counts[s][k] \in 0..End
      BY <1>6, <1>h, HavingFinite
    <3>2. \A s \in Slot : after.counts[s] \in [Value -> 0..End]
      <4> TAKE s \in Slot
      <4>1. after.counts[s] = [table.counts[s] EXCEPT ![h[s]] = @ + 1]
        BY <1>4
      <4>2. after.counts[s] = [k \in Value |-> after.counts[s][k]]
        BY <1>1, <4>1
      <4> QED BY <3>1, <4>2
    <3>3. after.counts = [s \in Slot |-> after.counts[s]]
      BY <1>4
    <3> QED BY <3>2, <3>3
  <2> QED BY <1>3, <1>4, <2>1, <2>2 DEF TableSet
<1>9. Len(after.links) = n + 1
  BY <1>3, <1>4
<1>10. Tabled(after, records, n + 1)
  BY <1>6, <1>7, <1>8, <1>9 DEF Tabled
<1> QED BY <1>10 DEF after

\* The tables say nothing of the records behind.
LEMMA TabledPrefix ==
  ASSUME NEW table, NEW records, NEW others, NEW n \in Nat,
         \A p \in 1..n : records[p] = others[p], Tabled(table, records, n)
  PROVE  Tabled(table, others, n)
<1>1. \A p \in 1..n : records[p].hash = others[p].hash
  OBVIOUS
<1>2. ASSUME NEW x, NEW m \in 0..n, NEW s, NEW k, IsLast(x, records, m, s, k)
      PROVE  IsLast(x, others, m, s, k)
  <2>1. CASE x = End /\ \A p \in 1..m : records[p].hash[s] # k
    BY <1>1, <2>1 DEF IsLast
  <2>2. CASE /\ x \in 0..m - 1 /\ records[x + 1].hash[s] = k
             /\ \A p \in x + 2..m : records[p].hash[s] # k
    <3>1. x + 1 \in 1..n /\ \A p \in x + 2..m : p \in 1..n
      BY <2>2
    <3> QED BY <1>1, <2>2, <3>1 DEF IsLast
  <2> QED BY <1>2, <2>1, <2>2 DEF IsLast
<1>3. ASSUME NEW s, NEW k PROVE Having(records, n, s, k) = Having(others, n, s, k)
  <2>1. \A p \in 0..n - 1 : records[p + 1].hash = others[p + 1].hash
    BY <1>1
  <2> QED BY <2>1 DEF Having
<1>4. \A s \in Slot, k \in Value :
        /\ IsLast(table.heads[s][k], others, n, s, k)
        /\ table.counts[s][k] = Cardinality(Having(others, n, s, k))
  <2>1. n \in 0..n
    OBVIOUS
  <2> QED BY <1>2, <1>3, <2>1 DEF Tabled
<1>5. \A p \in 1..n, s \in Slot :
        IsLast(table.links[p][s], others, p - 1, s, others[p].hash[s])
  <2>1. \A p \in 1..n : p - 1 \in 0..n
    OBVIOUS
  <2> QED BY <1>1, <1>2, <2>1 DEF Tabled
<1> QED BY <1>4, <1>5 DEF Tabled

\* Empty tables are those of no record.
LEMMA BlankTabled ==
  ASSUME NEW records
  PROVE  Blank \in TableSet /\ Tabled(Blank, records, 0)
<1>1. End \in Nat /\ 1..0 = {}
  BY IndexAssumption
<1>2. /\ Blank = [links |-> << >>, heads |-> Bare(End), counts |-> Bare(0)]
      /\ Bare(End) \in [Slot -> [Value -> 0..End]] /\ Bare(0) \in [Slot -> [Value -> 0..End]]
      /\ \A s \in Slot, k \in Value : Bare(End)[s][k] = End /\ Bare(0)[s][k] = 0
  BY <1>1 DEF Blank, Bare
<1>3. << >> \in Seq([Slot -> 0..End]) /\ Len(<< >>) = 0
  BY EmptySeq
<1>4. Blank \in TableSet
  BY <1>2, <1>3 DEF TableSet
<1>5. \A s \in Slot, k \in Value : Cardinality(Having(records, 0, s, k)) = 0
  BY HavingFinite
<1>6. \A s \in Slot, k \in Value : IsLast(End, records, 0, s, k)
  BY <1>1 DEF IsLast
<1> QED BY <1>1, <1>2, <1>3, <1>4, <1>5, <1>6 DEF Tabled

\* Built from records, the tables are theirs.
LEMMA TablesTabled ==
  ASSUME NEW records \in Seq(Record), Len(records) <= End
  PROVE  Tables(records) \in TableSet /\ Tabled(Tables(records), records, Len(records))
<1> DEFINE n == Len(records)
           f[m \in 0..n] == IF m = 0 THEN Blank ELSE Linked(f[m - 1], m - 1, records[m].hash)
           S == [m \in 0..n |-> {t \in TableSet : Tabled(t, records, m)}]
           step == [q \in (1..n) \X TableSet |-> Linked(q[2], q[1] - 1, records[q[1]].hash)]
<1>7. Tables(records) = f[n]
  BY Zenon DEF Tables
<1>1. n \in Nat /\ \A m \in 1..n : records[m].hash \in [Slot -> Value]
  BY ElementOfSeq, LenProperties, IndexAssumption DEF Record, AllHash
<1>2. ASSUME NEW m \in 1..n, NEW t \in S[m - 1]
      PROVE  /\ step[<<m, t>>] = Linked(t, m - 1, records[m].hash)
             /\ step[<<m, t>>] \in S[m]
  <2>1. m - 1 \in 0..n /\ m - 1 + 1 = m /\ m - 1 < End /\ m \in 0..n
    BY <1>1, IndexAssumption
  <2>2. t \in TableSet /\ Tabled(t, records, m - 1)
    BY <2>1
  <2>3. step[<<m, t>>] = Linked(t, m - 1, records[m].hash)
    BY <2>2
  <2> HIDE DEF step
  <2>4. Tabled(Linked(t, m - 1, records[m - 1 + 1].hash), records, m - 1 + 1)
    BY <1>1, <2>1, <2>2, LinkedTabled
  <2>5. Tabled(step[<<m, t>>], records, m)
    BY <2>1, <2>3, <2>4
  <2> QED BY <2>1, <2>3, <2>5 DEF Tabled
<1>3. Blank \in S[0]
  BY <1>1, BlankTabled
<1> HIDE DEF S, step, n
<1>r. \A m \in 1..n : \A t \in S[m - 1] : step[<<m, t>>] \in S[m]
  BY <1>2
<1>4. PICK g : Recurs(g, Blank, step, n) /\ \A m \in 0..n : g[m] \in S[m]
  BY <1>1, <1>3, <1>r, Recursion
<1>5. g = [m \in 0..n |-> IF m = 0 THEN Blank ELSE Linked(g[m - 1], m - 1, records[m].hash)]
  <2>1. ASSUME NEW m \in 1..n
        PROVE  step[<<m, g[m - 1]>>] = Linked(g[m - 1], m - 1, records[m].hash)
    <3>1. m - 1 \in 0..n
      BY <1>1
    <3> QED BY <1>2, <1>4, <3>1
  <2>2. \A m \in 0..n : m = 0 \/ m \in 1..n
    BY <1>1
  <2> QED BY <1>4, <2>1, <2>2 DEF Recurs
<1>6. f = [m \in 0..n |-> IF m = 0 THEN Blank ELSE Linked(f[m - 1], m - 1, records[m].hash)]
  BY <1>5, Zenon DEF f
<1>i. \A m \in 0..n : f[m] = IF m = 0 THEN Blank ELSE Linked(f[m - 1], m - 1, records[m].hash)
  <2> HIDE DEF f
  <2> QED BY <1>6
<1> HIDE DEF f
<1> DEFINE T == {m \in 0..n : f[m] \in S[m]}
<1>8. 0 \in T
  BY <1>1, <1>3, <1>i
<1>9. ASSUME NEW m \in 0..n - 1, m \in T PROVE m + 1 \in T
  <2>1. m + 1 \in 1..n /\ m + 1 - 1 = m /\ m + 1 \in 0..n /\ m + 1 # 0
    BY <1>1
  <2>2. f[m + 1] = Linked(f[m], m, records[m + 1].hash)
    BY <1>i, <2>1
  <2>3. f[m] \in S[m + 1 - 1]
    BY <1>9, <2>1
  <2>4. step[<<m + 1, f[m]>>] \in S[m + 1] /\ step[<<m + 1, f[m]>>] = f[m + 1]
    BY <1>2, <2>1, <2>2, <2>3
  <2> QED BY <2>1, <2>4
<1>10. f[n] \in S[n]
  <2>1. T \in SUBSET (0..n) /\ n \in 0..n
    BY <1>1
  <2>2. n \in T
    <3> HIDE DEF T
    <3> QED BY <1>1, <1>8, <1>9, <2>1, Induct
  <2> QED BY <2>2
<1>11. n \in 0..n
  BY <1>1
<1> QED BY <1>7, <1>10, <1>11 DEF S, n

-----------------------------------------------------------------------------
(***************************************************************************)
(* The chains.                                                             *)
(***************************************************************************)

\* A chain that begins at the last record that has a slot value has all of them.
LEMMA FromLast ==
  ASSUME NEW records, NEW n \in Nat, n <= End, NEW s, NEW k, NEW x,
         IsLast(x, records, n, s, k)
  PROVE  /\ x \in 0..n - 1 \cup {End}
         /\ Having(records, n, s, k) =
              IF x = End THEN {} ELSE {r \in 0..x : records[r + 1].hash[s] = k}
<1>1. CASE x = End /\ \A p \in 1..n : records[p].hash[s] # k
  <2>1. \A p \in 0..n - 1 : p + 1 \in 1..n
    OBVIOUS
  <2> QED BY <1>1, <2>1 DEF Having
<1>2. CASE /\ x \in 0..n - 1 /\ records[x + 1].hash[s] = k
           /\ \A p \in x + 2..n : records[p].hash[s] # k
  <2>1. x # End
    BY <1>2, IndexAssumption
  <2>2. ASSUME NEW p \in 0..n - 1, records[p + 1].hash[s] = k PROVE p \in 0..x
    <3>1. p + 1 \notin x + 2..n
      BY <1>2, <2>2
    <3> QED BY <1>2, <3>1
  <2>3. \A p \in 0..x : p \in 0..n - 1
    BY <1>2
  <2> QED BY <1>2, <2>1, <2>2, <2>3 DEF Having
<1> QED BY <1>1, <1>2 DEF IsLast

\* The chain of a slot value is the records that have it.
LEMMA ChainHaving ==
  ASSUME Tabled(Current, entries, Len(links)), Len(links) \in Nat, Len(links) <= End,
         \A p \in 1..Len(links) : entries[p].hash \in [Slot -> Value],
         NEW s \in Slot, NEW k \in Value
  PROVE  Chain(s, k) = Having(entries, Len(links), s, k)
<1> DEFINE D == 0..Len(links) - 1 \cup {End}
           key(p) == entries[p + 1].hash[s]
           f[p \in D] == IF p = End THEN {} ELSE {p} \cup f[links[p + 1][s]]
           g == [p \in D |-> IF p = End THEN {} ELSE {r \in 0..p : key(r) = key(p)}]
<1>1. Chain(s, k) = f[heads[s][k]]
  BY Zenon DEF Chain
<1>2. /\ IsLast(heads[s][k], entries, Len(links), s, k)
      /\ \A p \in 0..Len(links) - 1 : IsLast(links[p + 1][s], entries, p, s, key(p))
  <2>1. Current.links = links /\ Current.heads = heads
    BY DEF Current
  <2>2. \A p \in 0..Len(links) - 1 : p + 1 \in 1..Len(links) /\ p + 1 - 1 = p
    OBVIOUS
  <2> QED BY <2>1, <2>2 DEF Tabled
<1>3. ASSUME NEW p \in 0..Len(links) - 1
      PROVE  /\ p # End /\ links[p + 1][s] \in D
             /\ links[p + 1][s] \in 0..p - 1 \cup {End}
             /\ g[p] = {p} \cup g[links[p + 1][s]]
  <2> DEFINE x == links[p + 1][s]
  <2>1. p \in Nat /\ p < End /\ p \in D /\ IsLast(x, entries, p, s, key(p))
    BY <1>2, IndexAssumption
  <2> HIDE DEF x
  <2>2. /\ x \in 0..p - 1 \cup {End}
        /\ Having(entries, p, s, key(p)) =
             IF x = End THEN {} ELSE {r \in 0..x : key(r) = key(p)}
    <3>1. p <= End
      BY <2>1, IndexAssumption
    <3> QED BY <2>1, <3>1, FromLast
  <2>3. x # End => key(x) = key(p)
    BY <2>1, <2>2 DEF IsLast
  <2>4. x \in D
    BY <2>1, <2>2
  <2>5. g[x] = IF x = End THEN {} ELSE {r \in 0..x : key(r) = key(p)}
    BY <2>3, <2>4
  <2>6. g[p] = {r \in 0..p : key(r) = key(p)}
    BY <2>1, IndexAssumption
  <2>7. {r \in 0..p : key(r) = key(p)} = {p} \cup Having(entries, p, s, key(p))
    BY <2>1 DEF Having
  <2> QED BY <2>1, <2>2, <2>4, <2>5, <2>6, <2>7, IndexAssumption DEF x
<1>4. g = [p \in D |-> IF p = End THEN {} ELSE {p} \cup g[links[p + 1][s]]]
  BY <1>3
<1>5. f = [p \in D |-> IF p = End THEN {} ELSE {p} \cup f[links[p + 1][s]]]
  <2> HIDE DEF g
  <2> QED BY <1>4, Zenon DEF f
<1> HIDE DEF f, g
<1>6. /\ f[End] = {} /\ g[End] = {}
      /\ \A p \in 0..Len(links) - 1 :
           /\ f[p] = {p} \cup f[links[p + 1][s]]
           /\ g[p] = {p} \cup g[links[p + 1][s]]
  BY <1>3, <1>4, <1>5
<1> DEFINE T == {m \in 0..Len(links) : \A p \in 0..m - 1 : f[p] = g[p]}
<1>7. 0 \in T
  OBVIOUS
<1>8. ASSUME NEW m \in 0..Len(links) - 1, m \in T PROVE m + 1 \in T
  <2>1. f[links[m + 1][s]] = g[links[m + 1][s]]
    BY <1>3, <1>6, <1>8
  <2>2. f[m] = g[m]
    BY <1>6, <2>1
  <2>3. \A p \in 0..m + 1 - 1 : p = m \/ p \in 0..m - 1
    OBVIOUS
  <2> QED BY <1>8, <2>2, <2>3
<1>9. \A p \in D : f[p] = g[p]
  <2>1. T \in SUBSET (0..Len(links))
    OBVIOUS
  <2>2. Len(links) \in T
    <3> HIDE DEF T
    <3>1. Len(links) \in 0..Len(links)
      OBVIOUS
    <3> QED BY <1>7, <1>8, <2>1, <3>1, Induct
  <2> QED BY <1>6, <2>2
<1>10. /\ heads[s][k] \in D
       /\ Having(entries, Len(links), s, k) =
            IF heads[s][k] = End THEN {} ELSE {r \in 0..heads[s][k] : key(r) = k}
  BY <1>2, FromLast
<1>11. heads[s][k] # End => key(heads[s][k]) = k
  BY <1>2 DEF IsLast
<1>12. \A x \in D : g[x] = IF x = End THEN {} ELSE {r \in 0..x : key(r) = key(x)}
  BY DEF g
<1>13. g[heads[s][k]] = Having(entries, Len(links), s, k)
  <2> DEFINE x == heads[s][k]
  <2> HIDE DEF x, key, D
  <2>1. g[x] = IF x = End THEN {} ELSE {r \in 0..x : key(r) = key(x)}
    BY <1>10, <1>12 DEF x
  <2>2. CASE x = End
    BY <1>10, <2>1, <2>2 DEF x
  <2>3. CASE x # End
    BY <1>10, <1>11, <2>1, <2>3 DEF x
  <2> QED BY <2>2, <2>3 DEF x
<1> QED BY <1>1, <1>9, <1>10, <1>13

-----------------------------------------------------------------------------
(***************************************************************************)
(* The identifiers.                                                        *)
(***************************************************************************)

\* Identifiers are numbers.
LEMMA IdNat ==
  /\ Id \subseteq Nat
  /\ \A r \in Record : r.id \in Id /\ r.id \in Nat /\ r.hash \in Hash /\ r.hash \in [Slot -> Value]
<1>1. Id \subseteq Nat /\ Hash \subseteq [Slot -> Value]
  BY IndexAssumption DEF AllHash
<1>2. \A r \in Record : r.id \in Id /\ r.hash \in Hash
  BY DEF Record
<1> QED BY <1>1, <1>2

\* A record more has its identifier more.
LEMMA IdsAppend ==
  ASSUME NEW records \in Seq(Record), NEW r \in Record
  PROVE  /\ IdsOf(Append(records, r)) = IdsOf(records) \cup {r.id}
         /\ r.id \notin IdsOf(records) /\ ~Duplicates(records) =>
              ~Duplicates(Append(records, r))
         /\ SortedIds(records) /\ (records = << >> \/ r.id > records[Len(records)].id) =>
              SortedIds(Append(records, r))
<1> DEFINE all == Append(records, r)
           n == Len(records)
<1>1. /\ n \in Nat /\ Len(all) = n + 1 /\ all[n + 1] = r
      /\ \A p \in 1..n : all[p] = records[p]
      /\ \A p \in 1..n + 1 : p = n + 1 \/ p \in 1..n
      /\ n + 1 \in 1..n + 1 /\ \A p \in 1..n : p \in 1..n + 1 /\ p # n + 1
  BY AppendProperties, LenProperties
<1>2. /\ r.id \in Nat
      /\ \A p \in 1..n : records[p].id \in Nat
  BY ElementOfSeq, IdNat
<1> HIDE DEF all
<1>3. IdsOf(all) = IdsOf(records) \cup {r.id}
  BY <1>1 DEF IdsOf
<1>4. ASSUME r.id \notin IdsOf(records), ~Duplicates(records) PROVE ~Duplicates(all)
  <2>1. \A p \in 1..n : records[p].id # r.id
    BY <1>4 DEF IdsOf
  <2>2. \A p, q \in 1..n : p # q => records[p].id # records[q].id
    BY <1>4 DEF Duplicates
  <2> QED BY <1>1, <2>1, <2>2 DEF Duplicates
<1>5. ASSUME SortedIds(records), records = << >> \/ r.id > records[n].id
      PROVE  SortedIds(all)
  <2>1. \A p, q \in 1..n : p < q => records[p].id <= records[q].id
    BY <1>5 DEF SortedIds
  <2>2. ASSUME NEW p \in 1..n PROVE records[p].id <= r.id
    <3>1. n \in 1..n /\ records # << >> /\ r.id > records[n].id
      BY <1>1, <1>5, EmptySeq
    <3>2. records[p].id <= records[n].id
      <4>1. CASE p = n
        BY <1>2, <3>1, <4>1
      <4>2. CASE p # n
        <5>1. p < n
          BY <1>1, <4>2
        <5> QED BY <2>1, <3>1, <5>1
      <4> QED BY <4>1, <4>2
    <3> QED BY <1>2, <3>1, <3>2
  <2>3. ASSUME NEW p \in 1..n + 1, NEW q \in 1..n + 1, p < q PROVE all[p].id <= all[q].id
    <3>1. p \in 1..n
      BY <1>1, <2>3
    <3>2. CASE q = n + 1
      BY <1>1, <2>2, <3>1, <3>2
    <3>3. CASE q # n + 1
      <4>1. q \in 1..n
        BY <1>1, <3>3
      <4> QED BY <1>1, <2>1, <2>3, <3>1, <4>1
    <3> QED BY <3>2, <3>3
  <2> QED BY <1>1, <2>3 DEF SortedIds
<1> QED BY <1>3, <1>4, <1>5 DEF all

\* An identifier that is not known is in no record.
LEMMA UnknownIds ==
  ASSUME TypeOK, NEW i \in Id, ~Known(i),
         ids = IdsOf(entries) \/ (ids = {} /\ SortedIds(entries))
  PROVE  i \notin IdsOf(entries)
<1>1. Size \in Nat /\ i \in Nat /\ \A p \in 1..Size : entries[p].id \in Nat
  BY ElementOfSeq, LenProperties, IdNat DEF TypeOK, Size
<1>2. CASE Unordered
  BY <1>2 DEF Known, Unordered
<1>3. CASE ~Unordered /\ OutOfOrder(i)
  BY <1>3 DEF Known, IdsOf, Size
<1>4. CASE ~Unordered /\ ~OutOfOrder(i)
  <2>1. CASE entries = << >>
    <3>1. 1..Len(entries) = {}
      BY <1>1, <2>1, EmptySeq
    <3> QED BY <3>1 DEF IdsOf
  <2>2. CASE entries # << >>
    <3>1. Size \in 1..Size /\ i > entries[Size].id
      BY <1>1, <1>4, <2>2, EmptySeq DEF OutOfOrder, TypeOK, Size
    <3>2. SortedIds(entries)
      <4>1. entries[Size].id \in IdsOf(entries)
        BY <3>1 DEF IdsOf, Size
      <4> QED BY <1>4, <4>1 DEF Unordered
    <3>3. ASSUME NEW p \in 1..Size PROVE entries[p].id < i
      <4>1. p = Size \/ p < Size
        BY <1>1
      <4> QED BY <1>1, <3>1, <3>2, <4>1 DEF SortedIds, Size
    <3>4. \A p \in 1..Size : entries[p].id # i
      BY <1>1, <3>3
    <3> QED BY <3>4 DEF IdsOf, Size
  <2> QED BY <2>1, <2>2
<1> QED BY <1>2, <1>3, <1>4

-----------------------------------------------------------------------------
(***************************************************************************)
(* The invariant is inductive.                                             *)
(***************************************************************************)

\* What the types say.
LEMMA Sizes ==
  ASSUME TypeOK
  PROVE  /\ Size \in Nat /\ Len(entries) = Size /\ Size <= End /\ End \in Nat \ {0}
         /\ entries \in Seq(Record) /\ Len(links) \in Nat
         /\ Size # 0 <=> entries # << >>
         /\ \A p \in 1..Size : entries[p] \in Record /\ entries[p].hash \in [Slot -> Value]
         /\ NoRecord \in Record
<1>1. Size \in Nat /\ entries \in Seq(Record) /\ Len(links) \in Nat /\ Size <= End
  BY LenProperties DEF TypeOK, Size
<1>2. \A p \in 1..Size : entries[p] \in Record
  BY <1>1, ElementOfSeq DEF Size
<1>3. NoRecord \in Record
  <2>1. PICK i \in Id, h \in Hash : TRUE
    BY IndexAssumption
  <2>2. [id |-> i, hash |-> h] \in Record
    BY DEF Record
  <2> QED BY <2>2 DEF NoRecord
<1>4. Size # 0 <=> entries # << >>
  BY <1>1, EmptySeq DEF Size
<1> QED BY <1>1, <1>2, <1>3, <1>4, IdNat, IndexAssumption DEF Size

\* An index of no record is consistent.
LEMMA Initially == Init => IInv
<1> SUFFICES ASSUME Init PROVE IInv
  OBVIOUS
<1>1. /\ entries = << >> /\ links = << >> /\ heads = Bare(End) /\ counts = Bare(0)
      /\ ids = {} /\ pc = "idle" /\ entryRoom = 0 /\ linkRoom = 0 /\ Size = 0 /\ Len(links) = 0
  BY EmptySeq DEF Init, Size
<1>2. Current = Blank
  BY <1>1 DEF Current, Blank
<1>3. Tabled(Current, entries, 0) /\ Blank \in TableSet
  BY <1>2, BlankTabled
<1>4. TypeOK
  <2>1. /\ links \in Seq([Slot -> 0..End]) /\ heads \in [Slot -> [Value -> 0..End]]
        /\ counts \in [Slot -> [Value -> 0..End]]
    BY <1>2, <1>3 DEF TableSet, Current
  <2>2. NoRecord \in Record
    <3>1. PICK i \in Id, h \in Hash : TRUE
      BY IndexAssumption
    <3>2. [id |-> i, hash |-> h] \in Record
      BY DEF Record
    <3> QED BY <3>2 DEF NoRecord
  <2>3. entries \in Seq(Record) /\ 0 <= End /\ 0 \in 0..End
    BY <1>1, EmptySeq, IndexAssumption
  <2>4. tables = FALSE /\ new = NoRecord /\ want = 0 /\ result = "ok"
    BY DEF Init
  <2> QED BY <1>1, <2>1, <2>2, <2>3, <2>4 DEF TypeOK
<1>5. Linking
  BY <1>1, <1>3 DEF Linking
<1>6. Identifiers
  <2>1. 1..Len(entries) = {}
    BY <1>1, EmptySeq
  <2> QED BY <1>1, <2>1 DEF Identifiers, Duplicates, IdsOf, SortedIds
<1>7. Rooms
  BY <1>1 DEF Rooms
<1> QED BY <1>4, <1>5, <1>6, <1>7 DEF IInv

\* A call that ends, at the latest before the record is stored, and leaves the index
\* and enough room.
LEMMA EndsKeeps ==
  ASSUME IInv, UNCHANGED indexVars, pc \notin {"entry", "links"},
         entryRoom' \in Nat, linkRoom' \in Nat, entryRoom' >= entryRoom, linkRoom' >= linkRoom,
         NEW r \in {"ok", "duplicate", "length", "memory"}, Ends(r)
  PROVE  IInv'
<1>1. /\ entries' = entries /\ links' = links /\ heads' = heads /\ counts' = counts
      /\ tables' = tables /\ ids' = ids /\ pc' = "idle" /\ new' = NoRecord /\ want' = 0
      /\ result' = r
  BY DEF indexVars, Ends
<1>2. TypeOK'
  BY <1>1, Sizes DEF TypeOK, IInv, Size
<1>3. Linking'
  BY <1>1 DEF Linking, IInv, Current, Size
<1>4. Identifiers'
  BY <1>1 DEF Identifiers, IInv
<1>5. Rooms'
  BY <1>1, Sizes DEF Rooms, IInv, Size, TypeOK
<1> QED BY <1>2, <1>3, <1>4, <1>5 DEF IInv

\* The call.
LEMMA InsertStep == ASSUME IInv, NEW i \in Id, NEW h \in Hash, Insert(i, h) PROVE IInv'
<1>1. /\ entries' = entries /\ links' = links /\ heads' = heads /\ counts' = counts
      /\ tables' = tables /\ ids' = ids /\ entryRoom' = entryRoom /\ linkRoom' = linkRoom
      /\ want' = want /\ result' = result
      /\ pc = "idle" /\ pc' = "check" /\ new' = [id |-> i, hash |-> h]
  BY DEF Insert, indexVars, roomVars
<1>2. TypeOK'
  BY <1>1 DEF TypeOK, IInv, Size, Record
<1>3. Linking'
  BY <1>1 DEF Linking, IInv, Current, Size
<1>4. Identifiers'
  BY <1>1 DEF Identifiers, IInv
<1>5. Rooms'
  BY <1>1 DEF Rooms, IInv, Size
<1> QED BY <1>2, <1>3, <1>4, <1>5 DEF IInv

\* Duplicates and the end of the positions are refused; else there is room, or it is made.
LEMMA CheckStep == ASSUME IInv, Check PROVE IInv'
<1>t. TypeOK
  BY DEF IInv
<1>1. /\ entries' = entries /\ links' = links /\ heads' = heads /\ counts' = counts
      /\ tables' = tables /\ ids' = ids /\ entryRoom' = entryRoom /\ linkRoom' = linkRoom
      /\ pc = "check"
  BY DEF Check, indexVars, roomVars
<1>2. CASE Known(new.id) \/ Size = End
  <2>1. PICK r \in {"duplicate", "length"} : Ends(r)
    BY <1>2 DEF Check
  <2>2. UNCHANGED indexVars
    BY <1>1 DEF indexVars
  <2> QED BY <1>1, <1>t, <2>1, <2>2, EndsKeeps DEF TypeOK
<1>3. CASE ~Known(new.id) /\ Size # End
  <2>1. /\ want' = IF RoomFails THEN Size + Growth ELSE 0
        /\ pc' = IF RoomFails THEN "insertRoom" ELSE "tables"
        /\ new' = new /\ result' = result
    BY <1>3 DEF Check
  <2>2. Size \in Nat /\ Size < End /\ End \in Nat /\ Len(links) = Size
    <3>1. Len(Current.links) = Size
      BY <1>1 DEF IInv, Linking, Tabled
    <3> QED BY <1>3, <1>t, <3>1, Sizes DEF Current
  <2>3. Growth \in 1..End - Size
    <3>1. Size \div 2 + 1 \in Nat /\ Size \div 2 + 1 >= 1
      BY <2>2
    <3> DEFINE half == Size \div 2 + 1
    <3> HIDE DEF half
    <3>2. half \in Nat /\ half >= 1 /\ Growth = IF half < End - Size THEN half ELSE End - Size
      BY <3>1 DEF Growth, half
    <3> QED BY <2>2, <3>2
  <2>4. new.id \in Id /\ new.id \notin IdsOf(entries)
    <3>1. new.id \in Id
      BY <1>t, IdNat DEF TypeOK
    <3> QED BY <1>1, <1>3, <1>t, <3>1, UnknownIds DEF IInv, Identifiers
  <2>5. TypeOK'
    <3>1. want' \in 0..End
      BY <2>1, <2>2, <2>3
    <3> QED BY <1>1, <1>t, <2>1, <3>1 DEF TypeOK, Size
  <2>6. Linking'
    BY <1>1, <2>1 DEF Linking, IInv, Current, Size
  <2>7. Identifiers'
    BY <1>1, <2>1, <2>4 DEF Identifiers, IInv
  <2>8. Rooms'
    <3>1. Size' = Size /\ Len(links') = Len(links)
      BY <1>1 DEF Size
    <3>2. RoomFails => want' > Size
      BY <2>1, <2>2, <2>3
    <3>3. ~RoomFails => entryRoom > Size /\ linkRoom > Size
      BY <1>t, <2>2 DEF RoomFails, IInv, Rooms, TypeOK
    <3> QED BY <1>1, <2>1, <2>2, <3>1, <3>2, <3>3 DEF Rooms, IInv
  <2> QED BY <2>5, <2>6, <2>7, <2>8 DEF IInv
<1> QED BY <1>2, <1>3

\* A capacity asked for.
LEMMA ReserveStep == ASSUME IInv, NEW n \in 0..MaxReserve, Reserve(n) PROVE IInv'
<1>t. TypeOK
  BY DEF IInv
<1>1. /\ entries' = entries /\ links' = links /\ heads' = heads /\ counts' = counts
      /\ tables' = tables /\ ids' = ids /\ entryRoom' = entryRoom /\ linkRoom' = linkRoom
      /\ pc = "idle"
  BY DEF Reserve, indexVars, roomVars
<1>2. CASE Ends("length")
  <2>1. UNCHANGED indexVars
    BY <1>1 DEF indexVars
  <2> QED BY <1>1, <1>2, <1>t, <2>1, EndsKeeps DEF TypeOK
<1>3. CASE ~(n > End) /\ want' = n /\ pc' = "reserveRoom" /\ new' = new /\ result' = result
  <2>1. TypeOK'
    <3>1. n \in 0..End
      BY <1>3, IndexAssumption
    <3> QED BY <1>1, <1>3, <1>t, <3>1 DEF TypeOK, Size
  <2>2. Linking'
    BY <1>1, <1>3 DEF Linking, IInv, Current, Size
  <2>3. Identifiers'
    BY <1>1, <1>3 DEF Identifiers, IInv
  <2>4. Rooms'
    BY <1>1, <1>3 DEF Rooms, IInv, Size
  <2> QED BY <2>1, <2>2, <2>3, <2>4 DEF IInv
<1> QED BY <1>2, <1>3 DEF Reserve

\* The larger of two numbers.
LEMMA LargerNat ==
  ASSUME NEW a \in Nat, NEW b \in Nat
  PROVE  Larger(a, b) \in Nat /\ Larger(a, b) >= a /\ Larger(a, b) >= b
BY DEF Larger

\* Room is made.
LEMMA GrowAllStep == ASSUME IInv, GrowAll PROVE IInv'
<1>t. TypeOK
  BY DEF IInv
<1>1. /\ entries' = entries /\ links' = links /\ heads' = heads /\ counts' = counts
      /\ tables' = tables /\ ids' = ids
      /\ entryRoom' = Larger(entryRoom, want) /\ linkRoom' = Larger(linkRoom, want)
      /\ pc \in {"insertRoom", "reserveRoom"}
  BY DEF GrowAll, indexVars
<1>2. /\ entryRoom' \in Nat /\ linkRoom' \in Nat
      /\ entryRoom' >= entryRoom /\ linkRoom' >= linkRoom
      /\ entryRoom' >= want /\ linkRoom' >= want /\ want \in Nat
  BY <1>1, <1>t, LargerNat, IndexAssumption DEF TypeOK
<1>3. CASE Ends("ok")
  <2>1. UNCHANGED indexVars
    BY <1>1 DEF indexVars
  <2> QED BY <1>1, <1>2, <1>3, <2>1, EndsKeeps
<1>4. CASE pc = "insertRoom" /\ pc' = "tables" /\ new' = new /\ want' = want /\ result' = result
  <2>1. TypeOK'
    BY <1>1, <1>2, <1>4, <1>t DEF TypeOK, Size
  <2>2. Linking'
    BY <1>1, <1>4 DEF Linking, IInv, Current, Size
  <2>3. Identifiers'
    BY <1>1, <1>4 DEF Identifiers, IInv
  <2>4. Rooms'
    <3>1. Size' = Size /\ Len(links') = Len(links) /\ Size \in Nat /\ Len(links) \in Nat
      BY <1>1, <1>t, Sizes DEF Size
    <3>2. /\ entryRoom \in Nat /\ linkRoom \in Nat /\ entryRoom >= Size /\ linkRoom >= Len(links)
          /\ want > Size /\ Size < End /\ (Size # 0 => tables)
      BY <1>4, <1>t DEF Rooms, IInv, TypeOK
    <3>3. /\ entryRoom' >= Size /\ linkRoom' >= Len(links)
          /\ entryRoom' > Size /\ linkRoom' > Size
      BY <1>2, <3>1, <3>2
    <3> QED BY <1>1, <1>4, <3>1, <3>2, <3>3 DEF Rooms
  <2> QED BY <2>1, <2>2, <2>3, <2>4 DEF IInv
<1> QED BY <1>3, <1>4 DEF GrowAll, callVars

\* Room is not made, or made in some of the containers.
LEMMA GrowFailsStep == ASSUME IInv, GrowFails PROVE IInv'
<1>t. TypeOK
  BY DEF IInv
<1>1. /\ UNCHANGED indexVars /\ pc \in {"insertRoom", "reserveRoom"} /\ Ends("memory")
      /\ entryRoom' \in {entryRoom, Larger(entryRoom, want)}
      /\ linkRoom' \in {linkRoom, Larger(linkRoom, want)}
  BY DEF GrowFails, roomVars
<1>2. /\ entryRoom' \in Nat /\ linkRoom' \in Nat
      /\ entryRoom' >= entryRoom /\ linkRoom' >= linkRoom
  <2>1. want \in Nat /\ entryRoom \in Nat /\ linkRoom \in Nat
    BY <1>t, IndexAssumption DEF TypeOK
  <2>2. /\ Larger(entryRoom, want) \in Nat /\ Larger(entryRoom, want) >= entryRoom
        /\ Larger(linkRoom, want) \in Nat /\ Larger(linkRoom, want) >= linkRoom
    BY <2>1, LargerNat
  <2> QED BY <1>1, <2>1, <2>2
<1> QED BY <1>1, <1>2, EndsKeeps

\* Heads and counts are there from the first record on.
LEMMA AllocateTablesStep == ASSUME IInv, AllocateTables PROVE IInv'
<1>1. /\ entries' = entries /\ links' = links /\ heads' = heads /\ counts' = counts
      /\ tables' = TRUE /\ ids' = ids /\ entryRoom' = entryRoom /\ linkRoom' = linkRoom
      /\ want' = want /\ result' = result /\ new' = new
      /\ pc = "tables" /\ pc' = "ids"
  BY DEF AllocateTables, roomVars, callVars
<1>2. TypeOK'
  BY <1>1 DEF TypeOK, IInv, Size
<1>3. Linking'
  BY <1>1 DEF Linking, IInv, Current, Size
<1>4. Identifiers'
  BY <1>1 DEF Identifiers, IInv
<1>5. Rooms'
  BY <1>1 DEF Rooms, IInv, Size
<1> QED BY <1>2, <1>3, <1>4, <1>5 DEF IInv

\* The set has the new identifier, or the records stay sorted.
LEMMA AddIdStep == ASSUME IInv, AddId PROVE IInv'
<1>t. TypeOK
  BY DEF IInv
<1>1. /\ entries' = entries /\ links' = links /\ heads' = heads /\ counts' = counts
      /\ tables' = tables /\ entryRoom' = entryRoom /\ linkRoom' = linkRoom
      /\ want' = want /\ result' = result /\ new' = new
      /\ pc = "ids" /\ pc' = "entry"
      /\ ids' = IF Unordered THEN ids \cup {new.id}
                ELSE IF OutOfOrder(new.id) THEN IdsOf(entries) \cup {new.id}
                ELSE {}
  BY DEF AddId, roomVars, callVars, IdsOf, Size
<1>2. new \in Record /\ new.id \in Id /\ entries \in Seq(Record)
  BY <1>t, IdNat, Sizes DEF TypeOK
<1>3. /\ IdsOf(Append(entries, new)) = IdsOf(entries) \cup {new.id}
      /\ SortedIds(entries) /\ (entries = << >> \/ new.id > entries[Len(entries)].id) =>
           SortedIds(Append(entries, new))
  BY <1>2, IdsAppend
<1>4. ids = IdsOf(entries) \/ (ids = {} /\ SortedIds(entries))
  BY <1>1 DEF IInv, Identifiers
<1>5. IdsOf(entries) \subseteq Id
  BY <1>t, Sizes, IdNat DEF IdsOf
<1>6. TypeOK'
  <2>1. ids' \subseteq Id
    BY <1>1, <1>2, <1>5, <1>t DEF TypeOK
  <2> QED BY <1>1, <1>t, <2>1 DEF TypeOK, Size
<1>7. Linking'
  BY <1>1 DEF Linking, IInv, Current, Size
<1>8. Identifiers'
  <2>1. CASE Unordered
    BY <1>1, <1>3, <1>4, <2>1 DEF Identifiers, IInv, Unordered
  <2>2. CASE ~Unordered /\ OutOfOrder(new.id)
    BY <1>1, <1>3, <2>2 DEF Identifiers, IInv
  <2>3. CASE ~Unordered /\ ~OutOfOrder(new.id)
    <3>1. entries = << >> \/ new.id > entries[Len(entries)].id
      <4>1. ASSUME entries # << >> PROVE entries[Size].id \in Nat /\ new.id \in Nat
        BY <1>2, <1>t, <4>1, Sizes, IdNat
      <4> QED BY <2>3, <4>1 DEF OutOfOrder, Size
    <3>2. SortedIds(entries)
      <4>1. CASE entries = << >>
        <5>1. Len(entries) = 0
          BY <4>1, EmptySeq
        <5> QED BY <5>1 DEF SortedIds
      <4>2. CASE entries # << >>
        <5>1. Size \in 1..Len(entries)
          BY <1>t, <4>2, Sizes
        <5>2. entries[Size].id \in IdsOf(entries)
          BY <5>1 DEF IdsOf
        <5> QED BY <1>4, <2>3, <5>2 DEF Unordered
      <4> QED BY <4>1, <4>2
    <3>3. ids' = {} /\ SortedIds(Append(entries, new))
      BY <1>1, <1>3, <2>3, <3>1, <3>2
    <3> QED BY <1>1, <3>3 DEF Identifiers, IInv
  <2> QED BY <2>1, <2>2, <2>3
<1>9. Rooms'
  BY <1>1 DEF Rooms, IInv, Size
<1> QED BY <1>6, <1>7, <1>8, <1>9 DEF IInv

\* The record is stored and not linked yet.
LEMMA PushEntryStep == ASSUME IInv, PushEntry PROVE IInv'
<1>t. TypeOK
  BY DEF IInv
<1>1. /\ entries' = Append(entries, new) /\ links' = links /\ heads' = heads /\ counts' = counts
      /\ tables' = tables /\ ids' = ids
      /\ entryRoom' = Larger(entryRoom, Size + 1) /\ linkRoom' = linkRoom
      /\ want' = want /\ result' = result /\ new' = new
      /\ pc = "entry" /\ pc' = "links"
  BY DEF PushEntry, callVars
<1>2. new \in Record /\ entries \in Seq(Record) /\ Size \in Nat /\ Len(entries) = Size
  BY <1>t, Sizes DEF TypeOK
<1>3. /\ entries' \in Seq(Record) /\ Len(entries') = Size + 1 /\ Size' = Size + 1
      /\ entries'[Size + 1] = new
      /\ \A p \in 1..Size : entries'[p] = entries[p]
  BY <1>1, <1>2, AppendProperties DEF Size
<1>4. Size < End /\ entryRoom > Size /\ linkRoom > Size /\ tables /\ linkRoom \in Nat /\ entryRoom \in Nat
  BY <1>1, <1>t DEF IInv, Rooms, TypeOK
<1>5. Tabled(Current, entries, Size) /\ Current' = Current
  BY <1>1 DEF IInv, Linking, Current
<1>6. TypeOK'
  <2>1. entryRoom' \in Nat
    BY <1>1, <1>2, <1>4, LargerNat
  <2>2. Size' <= End
    BY <1>2, <1>3, <1>4, IndexAssumption
  <2> QED BY <1>1, <1>2, <1>3, <1>t, <2>1, <2>2 DEF TypeOK
<1>7. Linking'
  <2>1. Tabled(Current, entries', Size)
    BY <1>2, <1>3, <1>5, TabledPrefix
  <2>2. Size' - 1 = Size /\ Size' # 0
    BY <1>2, <1>3
  <2>3. Tabled(Current', entries', Size' - 1)
    BY <1>5, <2>1, <2>2
  <2> QED BY <1>1, <1>3, <2>2, <2>3 DEF Linking
<1>8. Identifiers'
  <2>1. new.id \notin IdsOf(entries) /\ ~Duplicates(entries)
    BY <1>1 DEF IInv, Identifiers
  <2>2. ~Duplicates(entries')
    BY <1>1, <1>2, <2>1, IdsAppend
  <2>3. ids = IdsOf(entries') \/ (ids = {} /\ SortedIds(entries'))
    BY <1>1 DEF IInv, Identifiers
  <2> QED BY <1>1, <2>2, <2>3 DEF Identifiers
<1>9. Rooms'
  <2>1. Larger(entryRoom, Size + 1) >= Size + 1
    BY <1>2, <1>4, LargerNat
  <2>2. Len(links) = Size
    BY <1>5 DEF Tabled, Current
  <2> QED BY <1>1, <1>2, <1>3, <1>4, <2>1, <2>2 DEF Rooms
<1> QED BY <1>6, <1>7, <1>8, <1>9 DEF IInv

\* No allocation is left to fail once there is room.
LEMMA AllocationFailsStep == ASSUME IInv, AllocationFails PROVE IInv'
<1>1. pc \notin {"entry", "links"}
  <2>1. Size \in Nat /\ Len(links) \in Nat /\ entryRoom \in Nat /\ linkRoom \in Nat
    BY Sizes DEF IInv, TypeOK
  <2>2. Allocates
    BY DEF AllocationFails
  <2>3. pc = "entry" => Size # entryRoom
    BY <2>1 DEF IInv, Rooms
  <2>4. pc = "links" => Len(links) # linkRoom
    BY <2>1 DEF IInv, Rooms
  <2> QED BY <2>2, <2>3, <2>4 DEF Allocates
<1>2. UNCHANGED indexVars /\ entryRoom' = entryRoom /\ linkRoom' = linkRoom /\ Ends("memory")
  BY DEF AllocationFails, roomVars
<1>3. entryRoom \in Nat /\ linkRoom \in Nat
  BY DEF IInv, TypeOK
<1> QED BY <1>1, <1>2, <1>3, EndsKeeps

\* The record is linked.
LEMMA PushLinksStep == ASSUME IInv, PushLinks PROVE IInv'
<1>t. TypeOK
  BY DEF IInv
<1> DEFINE after == Linked(Current, Size - 1, new.hash)
<1>1. /\ entries' = entries /\ tables' = tables /\ ids' = ids /\ entryRoom' = entryRoom
      /\ linkRoom' = Larger(linkRoom, Len(links) + 1)
      /\ links' = after.links /\ heads' = after.heads /\ counts' = after.counts
      /\ pc = "links" /\ pc' = "idle" /\ new' = NoRecord /\ want' = 0 /\ result' = "ok"
  BY DEF PushLinks, Ends, Become, Current
<1>2. /\ Size \in Nat /\ Size # 0 /\ Size <= End /\ entries[Size] = new
      /\ Tabled(Current, entries, Size - 1)
  BY <1>1, <1>t, Sizes DEF IInv, Linking
<1>3. Size' = Size
  BY <1>1 DEF Size
<1>4. Tabled(after, entries, Size)
  <2>1. Size - 1 \in Nat /\ Size - 1 < End /\ Size - 1 + 1 = Size /\ Size \in 1..Size
    BY <1>2, IndexAssumption
  <2>2. entries[Size - 1 + 1].hash \in [Slot -> Value]
    BY <1>t, <2>1, Sizes
  <2>3. Tabled(Linked(Current, Size - 1, entries[Size - 1 + 1].hash), entries, Size - 1 + 1)
    BY <1>2, <2>1, <2>2, LinkedTabled
  <2> QED BY <1>2, <2>1, <2>3
<1> HIDE DEF after
<1>5. after = Current'
  <2>1. after = [links |-> after.links, heads |-> after.heads, counts |-> after.counts]
    BY DEF after, Linked
  <2> QED BY <1>1, <2>1 DEF Current
<1>6. TypeOK'
  <2>1. /\ links' \in Seq([Slot -> 0..End]) /\ heads' \in [Slot -> [Value -> 0..End]]
        /\ counts' \in [Slot -> [Value -> 0..End]]
    BY <1>4, <1>1 DEF Tabled, TableSet
  <2>2. linkRoom' \in Nat
    BY <1>1, <1>t, Sizes, LargerNat DEF TypeOK
  <2>3. NoRecord \in Record /\ 0 \in 0..End
    BY <1>t, Sizes
  <2> QED BY <1>1, <1>3, <1>t, <2>1, <2>2, <2>3 DEF TypeOK
<1>7. Linking'
  BY <1>1, <1>3, <1>4, <1>5 DEF Linking
<1>8. Identifiers'
  BY <1>1 DEF Identifiers, IInv
<1>9. Rooms'
  <2>1. Len(links') = Size /\ Len(links) = Size - 1
    BY <1>1, <1>2, <1>4 DEF Tabled, Current
  <2>2. linkRoom' >= Len(links) + 1
    BY <1>1, <1>2, <1>t, <2>1, LargerNat DEF TypeOK
  <2>3. entryRoom >= Size /\ (Size # 0 => tables)
    BY DEF IInv, Rooms
  <2> QED BY <1>1, <1>2, <1>3, <2>1, <2>2, <2>3 DEF Rooms
<1> QED BY <1>6, <1>7, <1>8, <1>9 DEF IInv

\* Another index altogether: its records, unique, with their tables and no room to spare.
LEMMA Replaced ==
  ASSUME NEW records \in Seq(Record), Len(records) <= End, ~Duplicates(records),
         NEW table, table \in TableSet, Tabled(table, records, Len(records)),
         entries' = records, ids' = IdsOf(records) \/ (ids' = {} /\ SortedIds(records)),
         tables' \in BOOLEAN, records # << >> => tables', Become(table),
         entryRoom' = Len(records), linkRoom' = Len(records), Ends("ok")
  PROVE  IInv'
<1>1. /\ links' = table.links /\ heads' = table.heads /\ counts' = table.counts
      /\ pc' = "idle" /\ new' = NoRecord /\ want' = 0 /\ result' = "ok"
  BY DEF Become, Ends
<1>2. Size' = Len(records) /\ Len(records) \in Nat /\ End \in Nat
  BY LenProperties, IndexAssumption DEF Size
<1>3. table = Current'
  <2>1. table = [links |-> table.links, heads |-> table.heads, counts |-> table.counts]
    BY DEF TableSet
  <2> QED BY <1>1, <2>1 DEF Current
<1>4. TypeOK'
  <2>1. IdsOf(records) \subseteq Id
    BY ElementOfSeq, IdNat DEF IdsOf
  <2>2. NoRecord \in Record
    <3>1. PICK i \in Id, h \in Hash : TRUE
      BY IndexAssumption
    <3>2. [id |-> i, hash |-> h] \in Record
      BY DEF Record
    <3> QED BY <3>2 DEF NoRecord
  <2>3. /\ links' \in Seq([Slot -> 0..End]) /\ heads' \in [Slot -> [Value -> 0..End]]
        /\ counts' \in [Slot -> [Value -> 0..End]]
    BY <1>1 DEF TableSet
  <2>4. ids' \subseteq Id /\ 0 \in 0..End
    BY <1>2, <2>1
  <2> QED BY <1>1, <1>2, <2>2, <2>3, <2>4 DEF TypeOK
<1>5. Linking'
  BY <1>1, <1>2, <1>3 DEF Linking
<1>6. Identifiers'
  BY <1>1 DEF Identifiers
<1>7. Rooms'
  <2>1. Len(links') = Len(records)
    BY <1>1 DEF Tabled
  <2>2. Len(records) # 0 => records # << >>
    BY EmptySeq
  <2> QED BY <1>1, <1>2, <2>1, <2>2 DEF Rooms
<1> QED BY <1>4, <1>5, <1>6, <1>7 DEF IInv

\* An index built from records, or none.
LEMMA BuildStep ==
  ASSUME IInv, NEW n \in 0..MaxBuild, NEW records \in [1..n -> Record], Build(records)
  PROVE  IInv'
<1>1. records \in Seq(Record)
  OBVIOUS
<1>2. CASE Refuses(records)
  <2>1. PICK r \in {"length", "duplicate", "memory"} : Ends(r)
    BY <1>2 DEF Refuses
  <2>2. UNCHANGED indexVars /\ entryRoom' = entryRoom /\ linkRoom' = linkRoom /\ pc = "idle"
    BY <1>2 DEF Build, Refuses, roomVars
  <2>3. entryRoom \in Nat /\ linkRoom \in Nat
    BY DEF IInv, TypeOK
  <2> QED BY <2>1, <2>2, <2>3, EndsKeeps
<1>3. CASE Builds(records)
  <2>1. /\ entries' = records
        /\ ids' = IF SortedIds(records) THEN {} ELSE IdsOf(records)
        /\ tables' = (records # << >>)
        /\ Become(Tables(records))
        /\ entryRoom' = Len(records) /\ linkRoom' = Len(records)
        /\ Ends("ok") /\ ~Duplicates(records)
    BY <1>3 DEF Builds, IdsOf
  <2>2. Len(records) <= End
    BY <1>3 DEF Builds
  <2>3. Tables(records) \in TableSet /\ Tabled(Tables(records), records, Len(records))
    BY <1>1, <2>2, TablesTabled
  <2>4. ids' = IdsOf(records) \/ (ids' = {} /\ SortedIds(records))
    BY <2>1
  <2>5. tables' \in BOOLEAN /\ (records # << >> => tables')
    BY <2>1
  <2> QED BY <1>1, <2>1, <2>2, <2>3, <2>4, <2>5, Replaced
<1> QED BY <1>2, <1>3 DEF Build

\* A copy has the same records and no room to spare.
LEMMA CopyStep == ASSUME IInv, Copy PROVE IInv'
<1>t. TypeOK
  BY DEF IInv
<1>1. CASE Ends("memory") /\ UNCHANGED roomVars
  <2>1. UNCHANGED indexVars /\ entryRoom' = entryRoom /\ linkRoom' = linkRoom /\ pc = "idle"
    BY <1>1 DEF Copy, roomVars
  <2>2. entryRoom \in Nat /\ linkRoom \in Nat
    BY <1>t DEF TypeOK
  <2> QED BY <1>1, <2>1, <2>2, EndsKeeps
<1>2. CASE entryRoom' = Size /\ linkRoom' = Size /\ Ends("ok")
  <2>1. /\ entries' = entries /\ links' = links /\ heads' = heads /\ counts' = counts
        /\ tables' = tables /\ ids' = ids /\ entryRoom' = Size /\ linkRoom' = Size
        /\ pc = "idle" /\ pc' = "idle" /\ new' = NoRecord /\ want' = 0 /\ result' = "ok"
    BY <1>2 DEF Copy, indexVars, Ends
  <2>2. TypeOK'
    BY <2>1, <1>t, Sizes DEF TypeOK, Size
  <2>3. Linking'
    BY <2>1 DEF Linking, IInv, Current, Size
  <2>4. Identifiers'
    BY <2>1 DEF Identifiers, IInv
  <2>5. Rooms'
    <3>1. Size' = Size /\ Size \in Nat /\ Len(links) = Size
      BY <2>1, <1>t, Sizes DEF Size, IInv, Linking, Tabled, Current
    <3>2. Size # 0 => tables
      BY DEF IInv, Rooms
    <3> QED BY <2>1, <3>1, <3>2 DEF Rooms
  <2> QED BY <2>2, <2>3, <2>4, <2>5 DEF IInv
<1> QED BY <1>1, <1>2 DEF Copy

\* Nothing is left in what is moved from.
LEMMA MoveFromStep == ASSUME IInv, MoveFrom PROVE IInv'
<1>1. << >> \in Seq(Record) /\ Len(<< >>) = 0 /\ 1..0 = {} /\ 0 <= End
  BY EmptySeq, IndexAssumption
<1>2. ~Duplicates(<< >>) /\ IdsOf(<< >>) = {} /\ SortedIds(<< >>)
  BY <1>1 DEF Duplicates, IdsOf, SortedIds
<1>3. Blank \in TableSet /\ Tabled(Blank, << >>, Len(<< >>))
  BY <1>1, BlankTabled
<1>4. /\ entries' = << >> /\ ids' = {} /\ tables' = FALSE /\ Become(Blank)
      /\ entryRoom' = 0 /\ linkRoom' = 0 /\ Ends("ok")
  BY DEF MoveFrom
<1> QED BY <1>1, <1>2, <1>3, <1>4, Replaced

\* Every step keeps the invariant.
LEMMA Inductively == IInv /\ [Next]_vars => IInv'
<1> SUFFICES ASSUME IInv, [Next]_vars PROVE IInv'
  OBVIOUS
<1>1. CASE UNCHANGED vars
  <2>1. /\ entries' = entries /\ links' = links /\ heads' = heads /\ counts' = counts
        /\ tables' = tables /\ ids' = ids /\ entryRoom' = entryRoom /\ linkRoom' = linkRoom
        /\ pc' = pc /\ new' = new /\ want' = want /\ result' = result
    BY <1>1 DEF vars, indexVars, roomVars, callVars
  <2>2. TypeOK' /\ Linking'
    BY <2>1 DEF IInv, TypeOK, Linking, Current, Size
  <2>3. Identifiers' /\ Rooms'
    BY <2>1 DEF IInv, Identifiers, Rooms, Size
  <2> QED BY <2>2, <2>3 DEF IInv
<1>2. CASE Step
  BY <1>2, CheckStep, GrowAllStep, GrowFailsStep, AllocateTablesStep, AddIdStep, PushEntryStep,
     AllocationFailsStep, PushLinksStep DEF Step
<1> QED BY <1>1, <1>2, InsertStep, ReserveStep, BuildStep, CopyStep, MoveFromStep DEF Next

\* The invariant holds, whichever allocations fail.
THEOREM Inductive == Spec => []IInv
BY Initially, Inductively, PTL DEF Spec

-----------------------------------------------------------------------------
\* Between calls the chains and the counts are those of the records.
LEMMA Between ==
  ASSUME IInv, pc = "idle"
  PROVE  /\ Len(links) = Size
         /\ \A s \in Slot, k \in Value :
              /\ Chain(s, k) = Having(entries, Size, s, k)
              /\ counts[s][k] = Cardinality(Having(entries, Size, s, k))
<1>1. Tabled(Current, entries, Size) /\ Current.links = links /\ Current.counts = counts
  BY DEF IInv, Linking, Current
<1>2. Len(links) = Size
  BY <1>1 DEF Tabled
<1>3. /\ Size \in Nat /\ Size <= End
      /\ \A p \in 1..Size : entries[p].hash \in [Slot -> Value]
  BY Sizes DEF IInv
<1>4. \A s \in Slot, k \in Value : Chain(s, k) = Having(entries, Size, s, k)
  BY <1>1, <1>2, <1>3, ChainHaving
<1>5. \A s \in Slot, k \in Value : counts[s][k] = Cardinality(Having(entries, Size, s, k))
  BY <1>1 DEF Tabled
<1> QED BY <1>2, <1>4, <1>5

\* After every call, and whatever failed in it, the chains partition the records,
\* the counts are their lengths, and the identifier set is complete or not needed.
THEOREM IndexStaysConsistent == Spec => []IndexConsistent
<1>1. IInv => IndexConsistent
  <2> SUFFICES ASSUME IInv PROVE IndexConsistent
    OBVIOUS
  <2>1. TypeOK
    BY DEF IInv
  <2>2. ChainsComplete
    <3> SUFFICES ASSUME pc = "idle" PROVE ChainsComplete
      BY DEF ChainsComplete
    <3>1. Size # 0 => tables
      BY DEF IInv, Rooms
    <3> QED BY <3>1, Between DEF ChainsComplete, Having
  <2>3. IdsComplete
    BY DEF IInv, Identifiers, IdsComplete, IdsOf, Size
  <2> QED BY <2>1, <2>2, <2>3 DEF IndexConsistent
<1> QED BY Inductive, <1>1, PTL

-----------------------------------------------------------------------------
(***************************************************************************)
(* The search.                                                             *)
(***************************************************************************)

\* Slot values differ in so many bits.
LEMMA ChangedBits ==
  ASSUME NEW x \in Value, NEW y \in Value
  PROVE  /\ Changed(x, y) \in Value /\ Cardinality(Changed(x, y)) \in Nat
         /\ Changed(x, Changed(x, y)) = y
<1>1. Changed(x, y) \in Value /\ Changed(x, Changed(x, y)) = y
  BY DEF Changed, Value
<1>2. IsFiniteSet(0..Bits - 1)
  BY HashAssumption, FS_Interval
<1>3. IsFiniteSet(Changed(x, y))
  BY <1>1, <1>2, FS_Subset DEF Value
<1> QED BY <1>1, <1>3, FS_CardinalityType

\* The distance of two hashes is a sum over their slots.
LEMMA DistanceSum ==
  ASSUME NEW a \in [Slot -> Value], NEW b \in [Slot -> Value]
  PROVE  \E sum \in [0..Slots -> Nat] :
           /\ Distance(a, b) = sum[Slots]
           /\ sum[0] = 0
           /\ \A s \in Slot : sum[s + 1] = sum[s] + Cardinality(Changed(a[s], b[s]))
<1> DEFINE bits[s \in 0..Slots] ==
             IF s = 0 THEN 0 ELSE bits[s - 1] + Cardinality(Changed(a[s - 1], b[s - 1]))
           S == [m \in 0..Slots |-> Nat]
           step == [q \in (1..Slots) \X Nat |->
                      q[2] + Cardinality(Changed(a[q[1] - 1], b[q[1] - 1]))]
<1>1. Distance(a, b) = bits[Slots]
  BY Zenon DEF Distance
<1>2. Slots \in Nat \ {0} /\ Slot = 0..Slots - 1
  BY HashAssumption DEF Slot
<1>3. \A s \in Slot : Cardinality(Changed(a[s], b[s])) \in Nat
  BY ChangedBits
<1>4. ASSUME NEW m \in 1..Slots, NEW x \in Nat
      PROVE  /\ step[<<m, x>>] = x + Cardinality(Changed(a[m - 1], b[m - 1]))
             /\ step[<<m, x>>] \in Nat
  <2>1. m - 1 \in Slot
    BY <1>2
  <2> QED BY <1>3, <2>1
<1>5. \A m \in 0..Slots : S[m] = Nat
  OBVIOUS
<1> HIDE DEF step, S
<1>6. 0 \in S[0] /\ \A m \in 1..Slots : \A x \in S[m - 1] : step[<<m, x>>] \in S[m]
  BY <1>2, <1>4, <1>5
<1>7. PICK g : Recurs(g, 0, step, Slots) /\ \A m \in 0..Slots : g[m] \in S[m]
  BY <1>2, <1>6, Recursion
<1>8. g = [s \in 0..Slots |->
             IF s = 0 THEN 0 ELSE g[s - 1] + Cardinality(Changed(a[s - 1], b[s - 1]))]
  <2>1. \A s \in 0..Slots : s = 0 \/ (s \in 1..Slots /\ s - 1 \in 0..Slots)
    BY <1>2
  <2>2. ASSUME NEW s \in 1..Slots
        PROVE  step[<<s, g[s - 1]>>] = g[s - 1] + Cardinality(Changed(a[s - 1], b[s - 1]))
    <3>1. g[s - 1] \in Nat
      BY <1>2, <1>5, <1>7
    <3> QED BY <1>4, <3>1
  <2> QED BY <1>7, <2>1, <2>2 DEF Recurs
<1>9. bits = [s \in 0..Slots |->
                IF s = 0 THEN 0 ELSE bits[s - 1] + Cardinality(Changed(a[s - 1], b[s - 1]))]
  BY <1>8, Zenon DEF bits
<1> HIDE DEF bits
<1>10. /\ bits[0] = 0
       /\ \A s \in Slot : bits[s + 1] = bits[s] + Cardinality(Changed(a[s], b[s]))
  <2>1. \A s \in 0..Slots : bits[s] =
          IF s = 0 THEN 0 ELSE bits[s - 1] + Cardinality(Changed(a[s - 1], b[s - 1]))
    BY <1>9
  <2>2. \A s \in Slot : s + 1 \in 0..Slots /\ s + 1 # 0 /\ s + 1 - 1 = s
    BY <1>2
  <2> QED BY <1>2, <2>1, <2>2
<1>11. \A s \in 0..Slots : bits[s] \in Nat
  <2> DEFINE T == {s \in 0..Slots : bits[s] \in Nat}
  <2>1. 0 \in T /\ T \in SUBSET (0..Slots)
    BY <1>2, <1>10
  <2>2. ASSUME NEW s \in 0..Slots - 1, s \in T PROVE s + 1 \in T
    <3>1. s \in Slot /\ s + 1 \in 0..Slots
      BY <1>2
    <3> QED BY <1>3, <1>10, <2>2, <3>1
  <2>3. \A s \in 0..Slots : s \in T
    <3> HIDE DEF T
    <3> QED BY <1>2, <2>1, <2>2, Induct
  <2> QED BY <2>3
<1>12. bits \in [0..Slots -> Nat]
  BY <1>9, <1>11
<1> QED BY <1>1, <1>10, <1>12

\* The distance within which each slot is searched (Ball).
Radius(s, d) == IF s < (d % Slots) + 1 THEN d \div Slots ELSE (d \div Slots) - 1

\* Quotient and remainder.
LEMMA Division ==
  ASSUME NEW d \in Nat, NEW n \in Nat \ {0}
  PROVE  /\ d \div n \in Nat /\ d % n \in 0..n - 1
         /\ d = n * (d \div n) + (d % n)
OBVIOUS

\* Multiplication, one time more.
LEMMA OneTimeMore ==
  ASSUME NEW m \in Nat, NEW q \in Nat
  PROVE  (m + 1) * q = m * q + q /\ m * q \in Nat
OBVIOUS

\* Within the distance, some slot is within its radius: were every slot farther,
\* their sum would exceed the distance.
LEMMA SlotWithin ==
  ASSUME NEW a \in [Slot -> Value], NEW b \in [Slot -> Value], NEW d \in Nat, Distance(a, b) <= d
  PROVE  \E s \in Slot : Cardinality(Changed(a[s], b[s])) <= Radius(s, d)
<1> SUFFICES ASSUME \A s \in Slot : ~(Cardinality(Changed(a[s], b[s])) <= Radius(s, d))
             PROVE  FALSE
  OBVIOUS
<1>1. PICK sum \in [0..Slots -> Nat] :
        /\ Distance(a, b) = sum[Slots]
        /\ sum[0] = 0
        /\ \A s \in Slot : sum[s + 1] = sum[s] + Cardinality(Changed(a[s], b[s]))
  BY DistanceSum
<1> DEFINE q == d \div Slots
           r == d % Slots
           low(m) == IF m < r + 1 THEN m ELSE r + 1
           T == {m \in 0..Slots : sum[m] >= m * q + low(m)}
<1>2. Slots \in Nat \ {0} /\ Slot = 0..Slots - 1
  BY HashAssumption DEF Slot
<1>3. q \in Nat /\ r \in 0..Slots - 1 /\ d = Slots * q + r
  BY <1>2, Division
<1>4. ASSUME NEW s \in Slot
      PROVE  /\ Cardinality(Changed(a[s], b[s])) \in Nat
             /\ Cardinality(Changed(a[s], b[s])) >= IF s < r + 1 THEN q + 1 ELSE q
  <2>1. Cardinality(Changed(a[s], b[s])) \in Nat
    BY ChangedBits
  <2>2. Radius(s, d) = IF s < r + 1 THEN q ELSE q - 1
    BY DEF Radius
  <2> HIDE DEF q, r
  <2> QED BY <1>2, <1>3, <2>1, <2>2
<1> HIDE DEF q, r
<1>5. 0 \in T /\ T \in SUBSET (0..Slots)
  <2>1. 0 * q = 0 /\ low(0) = 0
    BY <1>3
  <2> QED BY <1>1, <1>2, <2>1
<1>6. ASSUME NEW m \in 0..Slots - 1, m \in T PROVE m + 1 \in T
  <2>1. /\ m \in Slot /\ m \in Nat /\ m + 1 \in 0..Slots
        /\ sum[m] \in Nat /\ sum[m + 1] \in Nat
        /\ (m + 1) * q = m * q + q /\ m * q \in Nat
    BY <1>1, <1>2, <1>3, OneTimeMore
  <2>2. low(m + 1) = IF m < r + 1 THEN low(m) + 1 ELSE low(m)
    BY <1>3, <2>1
  <2>3. low(m) \in Nat
    BY <1>3, <2>1
  <2>4. sum[m] >= m * q + low(m)
    BY <1>6
  <2> HIDE DEF low
  <2> DEFINE c == Cardinality(Changed(a[m], b[m]))
             x == m * q
  <2>5. c \in Nat /\ c >= (IF m < r + 1 THEN q + 1 ELSE q) /\ sum[m + 1] = sum[m] + c
    BY <1>1, <1>4, <2>1
  <2>6. x \in Nat /\ (m + 1) * q = x + q /\ sum[m] >= x + low(m)
    BY <2>1, <2>4
  <2> HIDE DEF c, x
  <2>7. sum[m + 1] >= (x + q) + low(m + 1)
    <3>1. q \in Nat /\ low(m) \in Nat /\ sum[m] \in Nat /\ x \in Nat /\ c \in Nat
      BY <1>3, <2>1, <2>3, <2>5, <2>6
    <3>2. CASE m < r + 1
      <4>1. low(m + 1) = low(m) + 1 /\ c >= q + 1
        BY <2>2, <2>5, <3>2
      <4> QED BY <2>5, <2>6, <3>1, <4>1
    <3>3. CASE ~(m < r + 1)
      <4>1. low(m + 1) = low(m) /\ c >= q
        BY <2>2, <2>5, <3>3
      <4> QED BY <2>5, <2>6, <3>1, <4>1
    <3> QED BY <3>2, <3>3
  <2>8. sum[m + 1] >= (m + 1) * q + low(m + 1)
    BY <2>6, <2>7
  <2> QED BY <2>1, <2>8
<1>7. Slots \in T
  <2> HIDE DEF T
  <2>1. \A m \in 0..Slots : m \in T
    BY <1>2, <1>5, <1>6, Induct
  <2> QED BY <1>2, <2>1
<1>8. low(Slots) = r + 1
  BY <1>2, <1>3
<1>9. sum[Slots] >= Slots * q + (r + 1) /\ Slots * q \in Nat
  <2>1. Slots * q \in Nat
    BY <1>2, <1>3, OneTimeMore
  <2> QED BY <1>7, <1>8, <2>1
<1> QED BY <1>1, <1>2, <1>3, <1>9

\* What the buckets or the linear scan turn up within the distance.
LEMMA NearFound ==
  ASSUME IInv, pc = "idle", NEW q \in Query, NEW d \in Nat
  PROVE  {p \in Candidates(q, d) : Distance(q, entries[p + 1].hash) <= d} =
           {p \in 0..Size - 1 : Distance(q, entries[p + 1].hash) <= d}
<1>1. q \in [Slot -> Value]
  BY IndexAssumption DEF AllHash
<1>2. ASSUME NEW p \in 0..Size - 1 PROVE entries[p + 1].hash \in [Slot -> Value]
  <2>1. p + 1 \in 1..Size
    BY Sizes DEF IInv
  <2> QED BY <2>1, Sizes DEF IInv
<1>3. \A s \in Slot, k \in Value : Chain(s, k) = Having(entries, Size, s, k)
  BY Between
<1>4. CASE UsesBuckets(q, d)
  <2>1. Candidates(q, d) = UNION {Chain(k[1], k[2]) : k \in Buckets(q, d)}
    BY <1>4 DEF Candidates
  <2>2. ASSUME NEW k \in Buckets(q, d) PROVE k[1] \in Slot /\ k[2] \in Value
    <3>a. PICK s \in Slot : k \in {<<s, Changed(q[s], m)>> : m \in Ball(s, d)}
      BY DEF Buckets
    <3>1. PICK m \in Ball(s, d) : k = <<s, Changed(q[s], m)>>
      BY <3>a
    <3>2. m \in Value
      BY DEF Ball
    <3>3. Changed(q[s], m) \in Value
      BY <1>1, <3>2, ChangedBits
    <3> QED BY <3>1, <3>3
  <2>3. Candidates(q, d) \subseteq 0..Size - 1
    <3>1. \A k \in Buckets(q, d) : Chain(k[1], k[2]) \subseteq 0..Size - 1
      BY <1>3, <2>2 DEF Having
    <3> QED BY <2>1, <3>1
  <2>4. ASSUME NEW p \in 0..Size - 1, Distance(q, entries[p + 1].hash) <= d
        PROVE  p \in Candidates(q, d)
    <3> DEFINE h == entries[p + 1].hash
    <3>1. PICK s \in Slot : Cardinality(Changed(q[s], h[s])) <= Radius(s, d)
      BY <1>1, <1>2, <2>4, SlotWithin
    <3>2. /\ q[s] \in Value /\ h[s] \in Value
          /\ Changed(q[s], h[s]) \in Value
          /\ Changed(q[s], Changed(q[s], h[s])) = h[s]
      BY <1>1, <1>2, ChangedBits
    <3>3. Changed(q[s], h[s]) \in Ball(s, d)
      BY <3>1, <3>2 DEF Ball, Radius
    <3>4. <<s, h[s]>> \in Buckets(q, d)
      BY <3>2, <3>3 DEF Buckets
    <3>5. p \in Chain(s, h[s])
      BY <1>3, <3>2 DEF Having
    <3> QED BY <2>1, <3>4, <3>5
  <2> QED BY <2>3, <2>4
<1>5. CASE ~UsesBuckets(q, d)
  BY <1>5 DEF Candidates
<1> QED BY <1>4, <1>5

\* What comes first in a result.
Before(p, r) == IF Unordered THEN entries[p + 1].id < entries[r + 1].id ELSE p < r

\* That is by identifier, also where the records are in that order.
LEMMA BeforeIsById ==
  ASSUME IInv, pc = "idle", NEW p \in 0..Size - 1, NEW r \in 0..Size - 1
  PROVE  /\ entries[p + 1].id \in Nat
         /\ Before(p, r) <=> entries[p + 1].id < entries[r + 1].id
         /\ entries[p + 1].id = entries[r + 1].id => p = r
<1>1. /\ Size \in Nat /\ Len(entries) = Size /\ p + 1 \in 1..Size /\ r + 1 \in 1..Size
      /\ entries[p + 1].id \in Nat /\ entries[r + 1].id \in Nat
  <2>1. Size \in Nat /\ Len(entries) = Size /\ \A n \in 1..Size : entries[n] \in Record
    BY Sizes DEF IInv
  <2>2. p + 1 \in 1..Size /\ r + 1 \in 1..Size
    BY <2>1
  <2> QED BY <2>1, <2>2, IdNat
<1>2. entries[p + 1].id = entries[r + 1].id => p = r
  <2>1. \A m, n \in 1..Size : m # n => entries[m].id # entries[n].id
    BY <1>1 DEF IInv, Identifiers, Duplicates
  <2>2. p + 1 = r + 1 => p = r
    OBVIOUS
  <2> QED BY <1>1, <2>1, <2>2
<1>3. Before(p, r) <=> entries[p + 1].id < entries[r + 1].id
  <2>1. CASE Unordered
    BY <2>1 DEF Before
  <2>2. CASE ~Unordered
    <3>1. entries[p + 1].id \in IdsOf(entries)
      BY <1>1 DEF IdsOf
    <3>2. SortedIds(entries)
      BY <2>2, <3>1 DEF IInv, Identifiers, Unordered
    <3>3. \A m, n \in 1..Size : m < n => entries[m].id <= entries[n].id
      BY <1>1, <3>2 DEF SortedIds
    <3>4. p < r => entries[p + 1].id <= entries[r + 1].id
      <4>1. p < r => p + 1 < r + 1
        OBVIOUS
      <4> QED BY <1>1, <3>3, <4>1
    <3>5. r < p => entries[r + 1].id <= entries[p + 1].id
      <4>1. r < p => r + 1 < p + 1
        OBVIOUS
      <4> QED BY <1>1, <3>3, <4>1
    <3>6. p < r \/ p = r \/ r < p
      OBVIOUS
    <3> QED BY <1>1, <1>2, <2>2, <3>4, <3>5, <3>6 DEF Before
  <2> QED BY <2>1, <2>2
<1> QED BY <1>1, <1>2, <1>3

\* A list in that order, as long as the set.
InIdOrder(f, near) ==
  /\ f \in [1..Cardinality(near) -> near]
  /\ \A m, n \in DOMAIN f : m < n => Before(f[m], f[n])

AllInIdOrder(f, near) ==
  /\ {f[n] : n \in DOMAIN f} = near
  /\ \A m, n \in DOMAIN f : m < n => entries[f[m] + 1].id < entries[f[n] + 1].id

\* There is such a list, and it leaves no position out.
LEMMA OrderFound ==
  ASSUME IInv, pc = "idle", NEW near \in SUBSET (0..Size - 1)
  PROVE  /\ \E f : InIdOrder(f, near)
         /\ \A f : InIdOrder(f, near) => AllInIdOrder(f, near)
<1> DEFINE c     == Cardinality(near)
           key   == [p \in near |-> entries[p + 1].id]
           known == {key[p] : p \in near}
<1>1. IsFiniteSet(near) /\ c \in Nat
  <2>1. IsFiniteSet(0..Size - 1)
    BY Sizes, FS_Interval DEF IInv
  <2> QED BY <2>1, FS_Subset, FS_CardinalityType
<1>2. \A p, r \in near :
        /\ key[p] \in Nat /\ key[p] = entries[p + 1].id
        /\ Before(p, r) <=> key[p] < key[r]
        /\ key[p] = key[r] => p = r
  BY BeforeIsById
<1> HIDE DEF key
<1>3. known \in SUBSET Nat /\ IsFiniteSet(known) /\ Cardinality(known) = c
  <2>1. key \in Bijection(near, known)
    <3>1. key \in [near -> known]
      BY DEF key
    <3> QED BY <1>2, <3>1 DEF Bijection, Injection, Surjection, IsInjective
  <2>2. IsFiniteSet(known) /\ Cardinality(known) = Cardinality(near)
    BY <1>1, <2>1, FS_Bijection DEF ExistsBijection
  <2> QED BY <1>2, <2>2
<1> HIDE DEF known
<1>4. PICK g \in [1..c -> known] : \A m, n \in 1..c : m < n => g[m] < g[n]
  BY <1>3, InOrder
<1> DEFINE at == [n \in 1..c |-> CHOOSE p \in near : key[p] = g[n]]
<1>5. ASSUME NEW n \in 1..c PROVE at[n] \in near /\ key[at[n]] = g[n]
  <2>1. g[n] \in known
    BY <1>4
  <2>2. \E p \in near : key[p] = g[n]
    BY <2>1 DEF known
  <2> QED BY <2>2
<1>6. at \in [1..c -> near]
  BY <1>5
<1> HIDE DEF at
<1>7. InIdOrder(at, near)
  <2>1. DOMAIN at = 1..c
    BY <1>6
  <2>2. ASSUME NEW m \in 1..c, NEW n \in 1..c, m < n PROVE Before(at[m], at[n])
    <3>1. key[at[m]] < key[at[n]]
      BY <1>4, <1>5, <2>2
    <3> QED BY <1>2, <1>5, <3>1
  <2> QED BY <1>6, <2>1, <2>2 DEF InIdOrder
<1>8. ASSUME NEW f, InIdOrder(f, near)
      PROVE  AllInIdOrder(f, near)
  <2>1. f \in [1..c -> near] /\ DOMAIN f = 1..c
    BY <1>8 DEF InIdOrder
  <2>2. \A m, n \in 1..c : m < n => key[f[m]] < key[f[n]]
    BY <1>2, <1>8, <2>1 DEF InIdOrder
  <2>3. ASSUME NEW m \in 1..c, NEW n \in 1..c, f[m] = f[n] PROVE m = n
    <3>1. key[f[m]] \in Nat /\ key[f[n]] = key[f[m]]
      BY <1>2, <2>1, <2>3
    <3>2. ~(m < n) /\ ~(n < m)
      BY <2>2, <3>1
    <3> QED BY <1>1, <3>2
  <2>4. f \in Injection(1..c, near)
    BY <2>1, <2>3 DEF Injection, IsInjective
  <2>5. Cardinality(1..c) = c /\ IsFiniteSet(1..c)
    BY <1>1, FS_Interval
  <2>6. f \in Surjection(1..c, near)
    BY <1>1, <2>4, <2>5, FS_Injection
  <2>7. {f[n] : n \in DOMAIN f} = near
    BY <2>1, <2>6 DEF Surjection
  <2>8. \A m \in 1..c : key[f[m]] = entries[f[m] + 1].id
    BY <1>2, <2>1
  <2>9. \A m, n \in 1..c : m < n => entries[f[m] + 1].id < entries[f[n] + 1].id
    BY <2>2, <2>8
  <2> QED BY <2>1, <2>7, <2>9 DEF AllInIdOrder
<1> QED BY <1>7, <1>8

\* Every search, by buckets or by a linear scan, returns every record within the
\* distance, with its distance, and no other, in the order of the identifiers.
THEOREM SearchesAreExact == Spec => []SearchExact
<1>1. IInv => SearchExact
  <2> SUFFICES ASSUME IInv, pc = "idle", NEW q \in Query, NEW d \in 0..Slots * Bits
               PROVE  Exact(Search(q, d), q, d)
    BY DEF SearchExact
  <2> DEFINE dist(p) == Distance(q, entries[p + 1].hash)
             near    == {p \in Candidates(q, d) : dist(p) <= d}
             hit(p)  == <<entries[p + 1].id, dist(p)>>
             order   == CHOOSE f \in [1..Cardinality(near) -> near] :
                          \A m, n \in DOMAIN f : m < n => Before(f[m], f[n])
             found   == [n \in DOMAIN order |-> hit(order[n])]
  <2>1. Search(q, d) = found
    BY Zenon DEF Search, Before
  <2>2. Size \in Nat /\ Len(entries) = Size
    BY Sizes DEF IInv
  <2>3. d \in Nat
    OBVIOUS
  <2>4. near = {p \in 0..Size - 1 : dist(p) <= d}
    BY <2>3, NearFound
  <2> HIDE DEF near
  <2>5. near \in SUBSET (0..Size - 1)
    BY <2>4
  <2>6. \E f : InIdOrder(f, near)
    BY <2>5, OrderFound
  <2>7. InIdOrder(order, near)
    BY <2>6, Zenon DEF InIdOrder
  <2> HIDE DEF order
  <2>8. /\ {order[n] : n \in DOMAIN order} = near
        /\ \A m, n \in DOMAIN order : m < n => entries[order[m] + 1].id < entries[order[n] + 1].id
    <3>1. AllInIdOrder(order, near)
      BY <2>5, <2>7, OrderFound
    <3> QED BY <3>1 DEF AllInIdOrder
  <2>9. /\ DOMAIN found = DOMAIN order
        /\ \A n \in DOMAIN order : found[n] = hit(order[n]) /\ found[n][1] = entries[order[n] + 1].id
    OBVIOUS
  <2> HIDE DEF found
  <2>10. {found[n] : n \in DOMAIN found} = {hit(p) : p \in near}
    <3> HIDE DEF hit
    <3> QED BY <2>8, <2>9
  <2>11. {hit(p) : p \in near} =
           {<<entries[p].id, Distance(q, entries[p].hash)>> :
              p \in {r \in 1..Size : Distance(q, entries[r].hash) <= d}}
    <3>1. ASSUME NEW p \in near
          PROVE  /\ p + 1 \in {r \in 1..Size : Distance(q, entries[r].hash) <= d}
                 /\ hit(p) = <<entries[p + 1].id, Distance(q, entries[p + 1].hash)>>
      BY <2>2, <2>4
    <3>2. ASSUME NEW r \in 1..Size, Distance(q, entries[r].hash) <= d
          PROVE  /\ r - 1 \in near
                 /\ hit(r - 1) = <<entries[r].id, Distance(q, entries[r].hash)>>
      <4>1. r - 1 \in 0..Size - 1 /\ r - 1 + 1 = r
        BY <2>2
      <4> QED BY <2>4, <3>2, <4>1
    <3> HIDE DEF hit
    <3> QED BY <3>1, <3>2
  <2>12. \A m, n \in DOMAIN found : m < n => found[m][1] < found[n][1]
    BY <2>8, <2>9
  <2> QED BY <2>1, <2>10, <2>11, <2>12 DEF Exact
<1> QED BY Inductive, <1>1, PTL

-----------------------------------------------------------------------------
(***************************************************************************)
(* To its callers the index is a map.                                      *)
(***************************************************************************)

\* The map of the first n records.
MapOf(records, n) ==
  [i \in Id |->
     IF \E p \in 1..n : records[p].id = i
       THEN records[CHOOSE p \in 1..n : records[p].id = i].hash ELSE None]

Call == IF pc \in {"idle", "reserveRoom"} THEN None ELSE new

\* With unique identifiers, each record is mapped and nothing else.
LEMMA MapOfIs ==
  ASSUME NEW records, NEW n \in Nat, \A p \in 1..n : records[p] \in Record,
         \A p, q \in 1..n : p # q => records[p].id # records[q].id
  PROVE  /\ MapOf(records, n) \in [Id -> Hash \cup {None}]
         /\ \A p \in 1..n : MapOf(records, n)[records[p].id] = records[p].hash
         /\ \A i \in Id : MapOf(records, n)[i] = None <=> \A p \in 1..n : records[p].id # i
<1> DEFINE at(i) == CHOOSE p \in 1..n : records[p].id = i
<1>1. \A p \in 1..n : records[p].id \in Id /\ records[p].hash \in Hash
  BY IdNat
<1>2. ASSUME NEW p \in 1..n PROVE at(records[p].id) = p
  <2>1. at(records[p].id) \in 1..n /\ records[at(records[p].id)].id = records[p].id
    OBVIOUS
  <2> HIDE DEF at
  <2> QED BY <2>1
<1>3. MapOf(records, n) =
        [i \in Id |-> IF \E p \in 1..n : records[p].id = i THEN records[at(i)].hash ELSE None]
  BY DEF MapOf
<1> HIDE DEF at
<1>4. ASSUME NEW i \in Id, NEW p \in 1..n, records[p].id = i
      PROVE  MapOf(records, n)[i] = records[p].hash /\ records[p].hash \in Hash
  BY <1>1, <1>2, <1>3, <1>4
<1>5. ASSUME NEW i \in Id, \A p \in 1..n : records[p].id # i
      PROVE  MapOf(records, n)[i] = None
  BY <1>3, <1>5
<1>6. None \notin Hash
  BY IndexAssumption
<1>7. \A i \in Id : MapOf(records, n)[i] \in Hash \cup {None}
  BY <1>4, <1>5
<1>8. MapOf(records, n) \in [Id -> Hash \cup {None}]
  BY <1>3, <1>7
<1> QED BY <1>1, <1>4, <1>5, <1>6, <1>8

\* Records with the same beginning have the same map of it.
LEMMA MapOfPrefix ==
  ASSUME NEW records, NEW others, NEW n \in Nat, \A p \in 1..n : records[p] = others[p],
         \A p \in 1..n : records[p] \in Record,
         \A p, q \in 1..n : p # q => records[p].id # records[q].id
  PROVE  MapOf(others, n) = MapOf(records, n)
<1>1. /\ \A p \in 1..n : others[p] \in Record
      /\ \A p, q \in 1..n : p # q => others[p].id # others[q].id
  OBVIOUS
<1>2. ASSUME NEW i \in Id PROVE MapOf(others, n)[i] = MapOf(records, n)[i]
  <2>1. CASE \E p \in 1..n : records[p].id = i
    BY <1>1, <2>1, MapOfIs
  <2>2. CASE \A p \in 1..n : records[p].id # i
    <3>1. \A p \in 1..n : others[p].id # i
      BY <2>2
    <3>2. MapOf(others, n)[i] = None
      BY <1>1, <3>1, MapOfIs
    <3>3. MapOf(records, n)[i] = None
      BY <2>2, MapOfIs
    <3> QED BY <3>2, <3>3
  <2> QED BY <2>1, <2>2
<1>3. MapOf(others, n) \in [Id -> Hash \cup {None}] /\ MapOf(records, n) \in [Id -> Hash \cup {None}]
  BY <1>1, MapOfIs
<1> QED BY <1>2, <1>3

\* What the invariant says of the map.
LEMMA MapIs ==
  ASSUME IInv
  PROVE  /\ Len(links) \in Nat /\ Len(links) <= Size
         /\ Map = MapOf(entries, Len(links)) /\ Map \in [Id -> Hash \cup {None}]
         /\ \A p \in 1..Size : entries[p] \in Record
         /\ \A p, q \in 1..Size : p # q => entries[p].id # entries[q].id
         /\ \A i \in Id : Map[i] = None <=> \A p \in 1..Len(links) : entries[p].id # i
<1>1. /\ Size \in Nat /\ Len(entries) = Size /\ Len(links) \in Nat
      /\ \A p \in 1..Size : entries[p] \in Record
  BY Sizes DEF IInv
<1>2. Len(links) <= Size
  <2>1. Len(Current.links) = IF pc = "links" THEN Size - 1 ELSE Size
    BY DEF IInv, Linking, Tabled
  <2> QED BY <1>1, <2>1 DEF Current
<1>3. \A p, q \in 1..Size : p # q => entries[p].id # entries[q].id
  BY <1>1 DEF IInv, Identifiers, Duplicates
<1>4. Map = MapOf(entries, Len(links))
  BY DEF Map, MapOf
<1>5. \A p \in 1..Len(links) : p \in 1..Size
  BY <1>1, <1>2
<1>6. /\ MapOf(entries, Len(links)) \in [Id -> Hash \cup {None}]
      /\ \A i \in Id : MapOf(entries, Len(links))[i] = None
                         <=> \A p \in 1..Len(links) : entries[p].id # i
  BY <1>1, <1>3, <1>5, MapOfIs
<1> QED BY <1>1, <1>2, <1>3, <1>4, <1>6

\* The map is that of the records linked, which no step but a few changes.
LEMMA MapStays ==
  ASSUME IInv, links' = links, \A p \in 1..Size : entries'[p] = entries[p]
  PROVE  Map' = Map
<1>1. \A p \in 1..Len(links) : p \in 1..Size
  BY MapIs, Sizes DEF IInv
<1>2. MapOf(entries', Len(links)) = MapOf(entries, Len(links))
  BY <1>1, MapIs, MapOfPrefix
<1>3. Map' = MapOf(entries', Len(links'))
  BY DEF Map, MapOf
<1> QED BY <1>2, <1>3, MapIs

\* During an insertion the abstract call is its record, unknown once checked.
LEMMA Inserting ==
  ASSUME IInv, pc \notin {"idle", "reserveRoom"}
  PROVE  /\ Call = new /\ Call # None /\ new \in Record /\ new.id \in Id /\ new.hash \in Hash
         /\ pc # "check" => Map[new.id] = None
<1>1. new \in Record /\ Call = new /\ new.id \in Id /\ new.hash \in Hash
  BY IdNat DEF IInv, TypeOK, Call
<1>2. Call # None
  BY <1>1, IndexAssumption DEF Record
<1>3. ASSUME pc # "check" PROVE Map[new.id] = None
  <2>1. CASE pc = "links"
    <3>1. /\ Size \in Nat /\ Size # 0 /\ entries[Size] = new /\ Len(links) = Size - 1
      BY <2>1, Sizes DEF IInv, Linking, Tabled, Current
    <3>2. \A p \in 1..Len(links) : p \in 1..Size /\ p # Size /\ Size \in 1..Size
      BY <3>1
    <3>3. \A p \in 1..Len(links) : entries[p].id # new.id
      BY <3>1, <3>2, MapIs
    <3> QED BY <1>1, <3>3, MapIs
  <2>2. CASE pc # "links"
    <3>1. pc \in {"insertRoom", "tables", "ids", "entry"}
      BY <1>3, <2>2 DEF IInv, TypeOK
    <3>2. new.id \notin IdsOf(entries)
      BY <3>1 DEF IInv, Identifiers
    <3>3. \A p \in 1..Len(links) : p \in 1..Len(entries)
      BY MapIs, Sizes DEF IInv
    <3>4. \A p \in 1..Len(links) : entries[p].id # new.id
      BY <3>2, <3>3 DEF IdsOf
    <3> QED BY <1>1, <3>4, MapIs
  <2> QED BY <2>1, <2>2
<1> QED BY <1>1, <1>2, <1>3

\* Known identifiers are those in the map.
LEMMA KnownIsMapped ==
  ASSUME IInv, pc = "check"
  PROVE  Known(new.id) <=> Map[new.id] # None
<1>1. /\ new.id \in Id /\ TypeOK /\ Len(entries) = Size
      /\ Len(links) = Size
      /\ ids = IdsOf(entries) \/ (ids = {} /\ SortedIds(entries))
  BY Inserting, Sizes DEF IInv, Linking, Tabled, Current, Identifiers
<1>2. Map[new.id] # None <=> new.id \in IdsOf(entries)
  BY <1>1, MapIs DEF IdsOf
<1>3. Known(new.id) => new.id \in IdsOf(entries)
  <2>1. CASE Unordered
    BY <1>1, <2>1 DEF Known, Unordered
  <2>2. CASE ~Unordered
    BY <1>1, <2>2 DEF Known, IdsOf
  <2> QED BY <2>1, <2>2
<1>4. ~Known(new.id) => new.id \notin IdsOf(entries)
  BY <1>1, UnknownIds
<1> QED BY <1>2, <1>3, <1>4

\* A call that leaves the index ends without effect, for a reason that tells.
LEMMA EndsMaps ==
  ASSUME IInv, UNCHANGED indexVars, NEW r \in {"ok", "duplicate", "length", "memory"}, Ends(r),
         IF pc \in {"idle", "reserveRoom"} THEN TRUE
         ELSE r # "ok" /\ (r = "duplicate" <=> Map[new.id] # None)
  PROVE  Index!Next
<1>1. Map' = Map
  <2>1. links' = links /\ entries' = entries
    BY DEF indexVars
  <2> QED BY <2>1, MapStays
<1>2. Call' = None /\ result' = r
  BY DEF Ends, Call
<1>3. CASE pc \in {"idle", "reserveRoom"}
  <2>1. Call = None
    BY <1>3 DEF Call
  <2>2. Index!Other
    BY <1>1, <1>2, <2>1 DEF Index!Other, Index!Failure, Call
  <2> QED BY <2>2 DEF Index!Next
<1>4. CASE pc \notin {"idle", "reserveRoom"}
  <2>1. Call # None /\ Call = new
    BY <1>4, Inserting
  <2>2. r \in Index!Failure
    BY <1>4 DEF Index!Failure
  <2>3. Index!Fail(r)
    BY <1>1, <1>2, <1>4, <2>1 DEF Index!Fail, Call
  <2> QED BY <2>2, <2>3 DEF Index!Next
<1> QED BY <1>3, <1>4

\* A statement of a call under way that links nothing is no step of the map.
LEMMA StatementMaps ==
  ASSUME IInv, links' = links, \A p \in 1..Size : entries'[p] = entries[p],
         new' = new, result' = result,
         \/ pc \notin {"idle", "reserveRoom"} /\ pc' \notin {"idle", "reserveRoom"}
         \/ pc \in {"idle", "reserveRoom"} /\ pc' \in {"idle", "reserveRoom"}
  PROVE  UNCHANGED Index!vars
<1>1. Map' = Map
  BY MapStays
<1>2. Call' = Call
  BY DEF Call
<1> QED BY <1>1, <1>2 DEF Index!vars, Call

\* The index is replaced by another: any map.
LEMMA ReplacedMaps ==
  ASSUME IInv, IInv', pc = "idle", pc' = "idle", result' = "ok"
  PROVE  Index!Next
<1>1. Call = None /\ Call' = None
  BY DEF Call
<1>2. Map' \in [Id -> Hash \cup {None}]
  <2>1. /\ Len(links') \in Nat
        /\ \A p \in 1..Len(links') : entries'[p] \in Record
        /\ \A p, q \in 1..Len(links') : p # q => entries'[p].id # entries'[q].id
    <3>1. /\ entries' \in Seq(Record) /\ Len(entries') \in Nat
          /\ \A p \in 1..Len(entries') : entries'[p] \in Record
      BY LenProperties, ElementOfSeq DEF IInv, TypeOK
    <3>2. Len(links') = Len(entries')
      BY DEF IInv, Linking, Tabled, Current, Size
    <3>3. \A p, q \in 1..Len(entries') : p # q => entries'[p].id # entries'[q].id
      BY DEF IInv, Identifiers, Duplicates
    <3> QED BY <3>1, <3>2, <3>3
  <2>2. MapOf(entries', Len(links')) \in [Id -> Hash \cup {None}]
    BY <2>1, MapOfIs
  <2> QED BY <2>2 DEF Map, MapOf
<1>3. Index!Assign
  BY <1>1, <1>2 DEF Index!Assign, Call
<1> QED BY <1>3 DEF Index!Next

\* The last statement of an insertion makes its record one of the map.
LEMMA PushLinksMaps == ASSUME IInv, PushLinks PROVE Index!Next
<1>1. /\ entries' = entries /\ pc = "links" /\ pc' = "idle" /\ result' = "ok"
      /\ links' = Append(links, [s \in Slot |-> heads[s][new.hash[s]]])
  BY DEF PushLinks, Ends, Become, Linked
<1>2. /\ Call = new /\ Call # None /\ Call' = None
      /\ new \in Record /\ new.id \in Id /\ new.hash \in Hash /\ Map[new.id] = None
  BY <1>1, Inserting DEF Call
<1>3. /\ Size \in Nat /\ Size # 0 /\ entries[Size] = new /\ Len(links) = Size - 1
      /\ Len(links) \in Nat
  BY <1>1, Sizes DEF IInv, Linking, Tabled, Current
<1>4. Len(links') = Size
  <2>1. Len(links') = Len(links) + 1
    <3>1. IInv'
      BY PushLinksStep
    <3>2. Len(links') = Len(entries')
      BY <1>1, <3>1 DEF IInv, Linking, Tabled, Current, Size
    <3> QED BY <1>1, <1>3, <3>2, Sizes DEF IInv
  <2> QED BY <1>3, <2>1
<1>5. Map' = MapOf(entries, Size) /\ Map = MapOf(entries, Size - 1)
  BY <1>1, <1>3, <1>4 DEF Map, MapOf
<1>6. /\ \A p \in 1..Size : entries[p] \in Record
      /\ \A p, q \in 1..Size : p # q => entries[p].id # entries[q].id
      /\ \A p \in 1..Size - 1 : p \in 1..Size /\ p # Size
      /\ \A p \in 1..Size : p = Size \/ p \in 1..Size - 1
      /\ Size \in 1..Size /\ Size - 1 \in Nat
  BY <1>3, MapIs
<1>7. ASSUME NEW i \in Id
      PROVE  MapOf(entries, Size)[i] =
               IF i = new.id THEN new.hash ELSE MapOf(entries, Size - 1)[i]
  <2>1. CASE i = new.id
    BY <1>3, <1>6, <2>1, MapOfIs
  <2>2. CASE i # new.id /\ \E p \in 1..Size - 1 : entries[p].id = i
    <3>1. PICK p \in 1..Size - 1 : entries[p].id = i
      BY <2>2
    <3>2. MapOf(entries, Size)[i] = entries[p].hash
      BY <1>3, <1>6, <3>1, MapOfIs
    <3>3. MapOf(entries, Size - 1)[i] = entries[p].hash
      BY <1>6, <3>1, MapOfIs
    <3> QED BY <2>2, <3>2, <3>3
  <2>3. CASE i # new.id /\ \A p \in 1..Size - 1 : entries[p].id # i
    <3>1. \A p \in 1..Size : entries[p].id # i
      BY <1>3, <1>6, <2>3
    <3>2. MapOf(entries, Size)[i] = None
      BY <1>3, <1>6, <3>1, MapOfIs
    <3>3. MapOf(entries, Size - 1)[i] = None
      BY <1>6, <2>3, MapOfIs
    <3> QED BY <2>3, <3>2, <3>3
  <2> QED BY <2>1, <2>2, <2>3
<1>8. Map' = [Map EXCEPT ![new.id] = new.hash]
  <2>1. /\ MapOf(entries, Size) \in [Id -> Hash \cup {None}]
        /\ MapOf(entries, Size - 1) \in [Id -> Hash \cup {None}]
    BY <1>3, <1>6, MapOfIs
  <2> QED BY <1>5, <1>7, <2>1
<1>9. Index!Insert
  BY <1>1, <1>2, <1>8 DEF Index!Insert, Call
<1> QED BY <1>9 DEF Index!Next

\* No record, no identifier mapped.
LEMMA MapInit == Init => Index!Init
<1> SUFFICES ASSUME Init PROVE Index!Init
  OBVIOUS
<1>1. links = << >> /\ pc = "idle" /\ result = "ok"
  BY DEF Init
<1>2. 1..Len(links) = {}
  BY <1>1, EmptySeq
<1>3. Map = [i \in Id |-> None]
  BY <1>2 DEF Map
<1> QED BY <1>1, <1>3 DEF Index!Init

\* A duplicate is one to the map too.
LEMMA CheckMaps == ASSUME IInv, Check PROVE Index!Next \/ UNCHANGED Index!vars
<1>1. pc = "check" /\ UNCHANGED indexVars
  BY DEF Check
<1>2. Known(new.id) <=> Map[new.id] # None
  BY <1>1, KnownIsMapped
<1>3. CASE Known(new.id)
  <2>1. Ends("duplicate")
    BY <1>3 DEF Check
  <2> QED BY <1>1, <1>2, <1>3, <2>1, EndsMaps
<1>4. CASE ~Known(new.id) /\ Size = End
  <2>1. Ends("length")
    BY <1>4 DEF Check
  <2> QED BY <1>1, <1>2, <1>4, <2>1, EndsMaps
<1>5. CASE ~Known(new.id) /\ Size # End
  <2>1. new' = new /\ result' = result /\ pc' \in {"insertRoom", "tables"}
    BY <1>5 DEF Check
  <2>2. links' = links /\ entries' = entries
    BY <1>1 DEF indexVars
  <2> QED BY <1>1, <2>1, <2>2, StatementMaps
<1> QED BY <1>3, <1>4, <1>5

\* Room is no matter of the map.
LEMMA RoomMaps == ASSUME IInv, GrowAll \/ GrowFails PROVE Index!Next \/ UNCHANGED Index!vars
<1>1. UNCHANGED indexVars /\ pc \in {"insertRoom", "reserveRoom"}
  BY DEF GrowAll, GrowFails
<1>2. pc = "insertRoom" => Map[new.id] = None
  BY Inserting
<1>3. CASE GrowFails
  <2>1. Ends("memory")
    BY <1>3 DEF GrowFails
  <2> QED BY <1>1, <1>2, <2>1, EndsMaps
<1>4. CASE GrowAll /\ pc = "insertRoom"
  <2>1. new' = new /\ result' = result /\ pc' = "tables"
    BY <1>4 DEF GrowAll, callVars
  <2>2. links' = links /\ entries' = entries
    BY <1>1 DEF indexVars
  <2> QED BY <1>4, <2>1, <2>2, StatementMaps
<1>5. CASE GrowAll /\ pc = "reserveRoom"
  <2>1. Ends("ok")
    BY <1>5 DEF GrowAll
  <2> QED BY <1>1, <1>5, <2>1, EndsMaps
<1> QED BY <1>1, <1>3, <1>4, <1>5

\* A record that is stored and not linked is not in the map.
LEMMA StatementsMap ==
  ASSUME IInv, AllocateTables \/ AddId \/ PushEntry PROVE UNCHANGED Index!vars
<1>1. CASE AllocateTables \/ AddId
  BY <1>1, StatementMaps DEF AllocateTables, AddId, callVars
<1>2. CASE PushEntry
  <2>1. /\ entries' = Append(entries, new) /\ links' = links /\ new' = new /\ result' = result
        /\ pc = "entry" /\ pc' = "links"
    BY <1>2 DEF PushEntry, callVars
  <2>2. new \in Record /\ entries \in Seq(Record) /\ Len(entries) = Size
    BY Sizes DEF IInv, TypeOK
  <2>3. \A p \in 1..Size : entries'[p] = entries[p]
    BY <2>1, <2>2, AppendProperties
  <2> QED BY <2>1, <2>3, StatementMaps
<1> QED BY <1>1, <1>2

\* An allocation that fails ends the call without effect.
LEMMA FailureMaps == ASSUME IInv, AllocationFails PROVE Index!Next
<1>1. UNCHANGED indexVars /\ Ends("memory") /\ pc \in {"tables", "ids", "entry", "links"}
  BY DEF AllocationFails, Allocates
<1>2. Map[new.id] = None
  BY <1>1, Inserting
<1> QED BY <1>1, <1>2, EndsMaps

\* Calls that begin, and calls that are one step.
LEMMA CallsMap ==
  ASSUME IInv, IInv',
         \/ \E i \in Id, h \in Hash : Insert(i, h)
         \/ \E n \in 0..MaxReserve : Reserve(n)
         \/ \E n \in 0..MaxBuild : \E records \in [1..n -> Record] : Build(records)
         \/ Copy
         \/ MoveFrom
  PROVE  Index!Next \/ UNCHANGED Index!vars
<1>1. ASSUME NEW i \in Id, NEW h \in Hash, Insert(i, h) PROVE Index!Next
  <2>1. /\ links' = links /\ entries' = entries /\ pc = "idle" /\ pc' = "check"
        /\ new' = [id |-> i, hash |-> h] /\ result' = result
    BY <1>1 DEF Insert, indexVars
  <2>2. Map' = Map
    BY <2>1, MapStays
  <2>3. Index!Invoke(i, h)
    BY <2>1, <2>2 DEF Index!Invoke
  <2> QED BY <2>3 DEF Index!Next
<1>2. ASSUME NEW n \in 0..MaxReserve, Reserve(n) PROVE Index!Next \/ UNCHANGED Index!vars
  <2>1. UNCHANGED indexVars /\ pc = "idle"
    BY <1>2 DEF Reserve
  <2>2. CASE Ends("length")
    BY <2>1, <2>2, EndsMaps
  <2>3. CASE pc' = "reserveRoom" /\ new' = new /\ result' = result
    <3>1. links' = links /\ entries' = entries
      BY <2>1 DEF indexVars
    <3> QED BY <2>1, <2>3, <3>1, StatementMaps
  <2> QED BY <1>2, <2>2, <2>3 DEF Reserve
<1>3. ASSUME NEW n \in 0..MaxBuild, NEW records \in [1..n -> Record], Build(records)
      PROVE  Index!Next
  <2>1. pc = "idle"
    BY <1>3 DEF Build
  <2>2. CASE Ends("length") /\ UNCHANGED indexVars
    BY <2>1, <2>2, EndsMaps
  <2>3. CASE Ends("duplicate") /\ UNCHANGED indexVars
    BY <2>1, <2>3, EndsMaps
  <2>4. CASE Ends("memory") /\ UNCHANGED indexVars
    BY <2>1, <2>4, EndsMaps
  <2>5. CASE Ends("ok")
    <3>1. pc' = "idle" /\ result' = "ok"
      BY <2>5 DEF Ends
    <3> QED BY <2>1, <3>1, ReplacedMaps
  <2> QED BY <1>3, <2>2, <2>3, <2>4, <2>5 DEF Build, Refuses, Builds
<1>4. ASSUME Copy \/ MoveFrom PROVE Index!Next
  <2>1. CASE Ends("memory") /\ UNCHANGED indexVars /\ pc = "idle"
    BY <2>1, EndsMaps
  <2>2. CASE Ends("ok") /\ pc = "idle"
    <3>1. pc' = "idle" /\ result' = "ok"
      BY <2>2 DEF Ends
    <3> QED BY <2>2, <3>1, ReplacedMaps
  <2> QED BY <1>4, <2>1, <2>2 DEF Copy, MoveFrom
<1> QED BY <1>1, <1>2, <1>3, <1>4

\* Every step is one of the map, or none.
LEMMA MapStep == IInv /\ IInv' /\ [Next]_vars => [Index!Next]_Index!vars
<1> SUFFICES ASSUME IInv, IInv', [Next]_vars PROVE Index!Next \/ UNCHANGED Index!vars
  OBVIOUS
<1>1. CASE UNCHANGED vars
  <2>1. /\ entries' = entries /\ links' = links /\ pc' = pc /\ new' = new /\ result' = result
    BY <1>1 DEF vars, indexVars, callVars
  <2> QED BY <2>1, StatementMaps
<1>2. CASE Step
  BY <1>2, CheckMaps, RoomMaps, StatementsMap, FailureMaps, PushLinksMaps DEF Step
<1>3. CASE \/ \E i \in Id, h \in Hash : Insert(i, h)
           \/ \E n \in 0..MaxReserve : Reserve(n)
           \/ \E n \in 0..MaxBuild : \E records \in [1..n -> Record] : Build(records)
           \/ Copy
           \/ MoveFrom
  BY <1>3, CallsMap
<1> QED BY <1>1, <1>2, <1>3 DEF Next

\* To its callers the index is a map from identifiers to hashes: an insertion adds its
\* record or, whatever fails and wherever, changes nothing.
THEOREM IndexIsMap == Spec => ImplementsPdqIndex
<1>1. IInv /\ [Next]_vars => IInv'
  BY Inductively
<1> QED BY Initially, MapInit, MapStep, <1>1, PTL DEF Spec, ImplementsPdqIndex, Index!Spec

-----------------------------------------------------------------------------
(***************************************************************************)
(* VpdqCoverage, whose index has bytes for slots.                          *)
(***************************************************************************)

\* The hash at position p of the first list has a neighbour at j in the other.
Near(p, list, j) == Distance(from[p + 1], list[j]) <= threshold

\* The hashes of the first list with a neighbour among the first t of the other.
Neighbours(t) == {p \in 0..Len(from) - 1 : \E j \in 1..t : Near(p, to, j)}

\* What has been marked and counted are those with a neighbour so far.
CoverageInv ==
  /\ from \in From /\ to \in To /\ threshold \in Nat
  /\ taken \in 0..Len(to)
  /\ matched = Neighbours(taken)
  /\ matches = Cardinality(matched)

\* Lists of hashes.
LEMMA Lists ==
  ASSUME CoverageInv
  PROVE  /\ from \in Seq([Slot -> Value]) /\ to \in Seq([Slot -> Value])
         /\ Len(from) \in Nat /\ Len(to) \in Nat
         /\ \A p \in 0..Len(from) - 1 : p + 1 \in 1..Len(from) /\ from[p + 1] \in [Slot -> Value]
         /\ \A p, r \in 0..Len(from) - 1 : from[p + 1] = from[r + 1] => p = r
<1>1. from \in Seq([Slot -> Value]) /\ to \in Seq([Slot -> Value])
  BY CoverageAssumption DEF CoverageInv, AllHash
<1>2. \A i, j \in 1..Len(from) : from[i] = from[j] => i = j
  BY <1>1, CoverageAssumption DEF CoverageInv
<1>3. \A p \in 0..Len(from) - 1 : p + 1 \in 1..Len(from) /\ from[p + 1] \in [Slot -> Value]
  BY <1>1
<1>4. ASSUME NEW p \in 0..Len(from) - 1, NEW r \in 0..Len(from) - 1, from[p + 1] = from[r + 1]
      PROVE  p = r
  <2>1. p + 1 = r + 1
    BY <1>2, <1>3, <1>4
  <2> QED BY <2>1
<1> QED BY <1>1, <1>3, <1>4

\* The index finds a neighbour where a scan does.
LEMMA FoundNear ==
  ASSUME NEW chunk \in Seq([Slot -> Value]), NEW a \in [Slot -> Value], NEW method, threshold \in Nat
  PROVE  Found(method, a, chunk) <=>
           \E i \in 1..Len(chunk) : Distance(a, chunk[i]) <= threshold
<1> DEFINE d == threshold
<1>1. DOMAIN chunk = 1..Len(chunk) /\ \A i \in 1..Len(chunk) : chunk[i] \in [Slot -> Value]
  OBVIOUS
<1>2. FoundByScan(a, chunk, d) <=> \E i \in 1..Len(chunk) : Distance(a, chunk[i]) <= d
  BY <1>1 DEF FoundByScan
<1>3. ASSUME NEW s \in Slot, NEW m \in Value, Cardinality(m) \in Nat, Cardinality(m) <= Radius(s, d)
      PROVE  m \in Masks(s, d)
  <2>1. d \div Slots \in Nat /\ d % Slots \in Nat /\ s \in Nat
    <3>1. Slots \in Nat \ {0} /\ s \in 0..Slots - 1
      BY HashAssumption DEF Slot
    <3>2. threshold \div Slots \in Nat /\ threshold % Slots \in 0..Slots - 1
      BY <3>1, Division
    <3> QED BY <3>1, <3>2
  <2>2. Cardinality(m) + 1 <= (d \div Slots) + (IF s <= d % Slots THEN 1 ELSE 0)
    BY <1>3, <2>1 DEF Radius
  <2> QED BY <2>2 DEF Masks
<1>4. ASSUME NEW i \in 1..Len(chunk), Distance(a, chunk[i]) <= d
      PROVE  FoundByIndex(a, chunk, d)
  <2>1. PICK s \in Slot : Cardinality(Changed(a[s], chunk[i][s])) <= Radius(s, d)
    BY <1>1, <1>4, SlotWithin
  <2>2. a[s] \in Value /\ chunk[i][s] \in Value
    BY <1>1
  <2>3. Changed(a[s], chunk[i][s]) \in Value /\ Cardinality(Changed(a[s], chunk[i][s])) \in Nat
    BY <2>2, ChangedBits
  <2>4. Changed(a[s], chunk[i][s]) \in Masks(s, d)
    BY <1>3, <2>1, <2>3
  <2>5. i \in Postings(a, chunk, s, d)
    BY <1>1, <2>4 DEF Postings
  <2> QED BY <1>4, <2>5 DEF FoundByIndex
<1>5. FoundByIndex(a, chunk, d) => \E i \in 1..Len(chunk) : Distance(a, chunk[i]) <= d
  BY <1>1 DEF FoundByIndex, Postings
<1> QED BY <1>2, <1>4, <1>5 DEF Found

\* What a chunk adds: hashes not marked before with a neighbour in it.
Added(chunk) ==
  {p \in 0..Len(from) - 1 : p \notin matched /\ \E j \in 1..Len(chunk) : Near(p, chunk, j)}

Marks(positions) == matched' = matched \cup positions /\ matches' = matches + Cardinality(positions)

LEMMA AddedFinite ==
  ASSUME CoverageInv, NEW chunk, NEW S \in SUBSET Added(chunk)
  PROVE  IsFiniteSet(S) /\ Cardinality(S) \in Nat
<1>1. IsFiniteSet(0..Len(from) - 1)
  BY Lists, FS_Interval
<1>2. S \in SUBSET (0..Len(from) - 1)
  BY DEF Added
<1> QED BY <1>1, <1>2, FS_Subset, FS_CardinalityType

\* Fresh has what is added in its range.
LEMMA FreshAdded ==
  ASSUME CoverageInv, NEW chunk \in Seq([Slot -> Value]), NEW method,
         NEW first \in Nat, NEW last \in Int, last <= Len(from) - 1
  PROVE  Fresh(first, last, method, chunk) = Added(chunk) \cap (first..last)
<1>1. \A p \in first..last : p \in 0..Len(from) - 1
  BY Lists
<1>2. \A p \in 0..Len(from) - 1 :
        Found(method, from[p + 1], chunk) <=> \E j \in 1..Len(chunk) : Near(p, chunk, j)
  BY Lists, FoundNear DEF CoverageInv, Near
<1> QED BY <1>1, <1>2 DEF Fresh, Added

LEMMA CountAllMarks ==
  ASSUME CoverageInv, NEW chunk \in Seq([Slot -> Value]), CountAll(chunk)
  PROVE  Marks(Added(chunk))
<1> DEFINE hits == Fresh(0, Len(from) - 1, "scan", chunk)
<1>1. hits = Added(chunk)
  <2>1. hits = Added(chunk) \cap (0..Len(from) - 1)
    <3>1. 0 \in Nat /\ Len(from) - 1 \in Int /\ Len(from) - 1 <= Len(from) - 1
      BY Lists
    <3> QED BY <3>1, FreshAdded
  <2> QED BY <2>1 DEF Added
<1> QED BY <1>1 DEF CountAll, Mark, Marks

-----------------------------------------------------------------------------
(***************************************************************************)
(* The sample, and the ranges between.                                     *)
(***************************************************************************)

LEMMA MoreTimes ==
  ASSUME NEW m \in Nat, NEW n \in Nat, m < n, NEW q \in Nat
  PROVE  m * q \in Nat /\ n * q \in Nat /\ m * q + q <= n * q
<1>1. PICK k \in Nat : n = (m + 1) + k
  <2>1. n - (m + 1) \in Nat /\ n = (m + 1) + (n - (m + 1))
    OBVIOUS
  <2> QED BY <2>1
<1>2. n * q = (m + 1) * q + k * q /\ k * q \in Nat
  BY <1>1
<1>3. (m + 1) * q = m * q + q /\ m * q \in Nat
  BY OneTimeMore
<1>4. PICK x \in Nat, y \in Nat : x = m * q /\ y = k * q
  BY <1>2, <1>3
<1>5. n * q = (x + q) + y
  BY <1>2, <1>3, <1>4
<1> QED BY <1>3, <1>4, <1>5

\* Sampled positions are in the list and apart.
LEMMA SamplesApart ==
  ASSUME CoverageInv, Len(from) >= Minimum
  PROVE  /\ Probes \in Nat \ {0}
         /\ \A n \in 0..Probes - 1 : Sampled(n) \in 0..Len(from) - 1
         /\ \A m, n \in 0..Probes - 1 : m < n => Sampled(m) < Sampled(n)
<1> DEFINE step == Len(from) \div Probes
<1>1. Probes \in Nat \ {0} /\ Len(from) \in Nat /\ Probes <= Len(from)
  BY Lists, CoverageAssumption
<1>2. /\ step \in Nat /\ Len(from) % Probes \in 0..Probes - 1
      /\ Len(from) = Probes * step + (Len(from) % Probes)
  BY <1>1, Division
<1>3. step # 0
  <2> SUFFICES ASSUME step = 0 PROVE FALSE
    OBVIOUS
  <2>1. Probes * step = 0
    BY <1>1
  <2> QED BY <1>1, <1>2, <2>1
<1>4. \A n : Sampled(n) = n * step
  BY DEF Sampled
<1> HIDE DEF step
<1>5. ASSUME NEW m \in 0..Probes - 1, NEW n \in 0..Probes, m < n
      PROVE  m * step \in Nat /\ m * step + step <= n * step /\ n * step \in Nat
  <2>1. m \in Nat /\ n \in Nat
    BY <1>1
  <2> QED BY <1>2, <1>5, <2>1, MoreTimes
<1>6. ASSUME NEW n \in 0..Probes - 1 PROVE n * step \in 0..Len(from) - 1
  <2>1. n * step \in Nat /\ n * step + step <= Probes * step /\ Probes * step \in Nat
    <3>1. Probes \in 0..Probes /\ n < Probes
      BY <1>1
    <3> QED BY <1>5, <3>1
  <2>2. PICK x \in Nat, y \in Nat : x = n * step /\ y = Probes * step
    BY <2>1
  <2>3. x + step <= y /\ Len(from) >= y
    BY <1>1, <1>2, <2>1, <2>2
  <2>4. x \in 0..Len(from) - 1
    BY <1>1, <1>2, <1>3, <2>2, <2>3
  <2> QED BY <2>2, <2>4
<1>7. ASSUME NEW m \in 0..Probes - 1, NEW n \in 0..Probes - 1, m < n
      PROVE  m * step < n * step
  <2>1. n \in 0..Probes
    BY <1>1
  <2>2. m * step \in Nat /\ m * step + step <= n * step /\ n * step \in Nat
    BY <1>5, <1>7, <2>1
  <2>3. PICK x \in Nat, y \in Nat : x = m * step /\ y = n * step
    BY <2>2
  <2>4. x < y
    BY <1>2, <1>3, <2>2, <2>3
  <2> QED BY <2>3, <2>4
<1> QED BY <1>1, <1>4, <1>6, <1>7

\* With the ranges they cover the list, each position once.
LEMMA RangesCover ==
  ASSUME CoverageInv, Len(from) >= Minimum
  PROVE  /\ \A n \in 0..Probes : /\ After(n) \in Nat /\ Until(n) \in Int
                                 /\ Until(n) <= Len(from) - 1
         /\ \A m, n \in 0..Probes : m < n => Until(m) < After(n)
         /\ \A n \in 0..Probes : \A p \in After(n)..Until(n) :
              \A m \in 0..Probes - 1 : p # Sampled(m)
         /\ \A p \in 0..Len(from) - 1 :
              \/ \E n \in 0..Probes - 1 : p = Sampled(n)
              \/ \E n \in 0..Probes : p \in After(n)..Until(n)
<1> DEFINE at(n) == Sampled(n)
<1>1. /\ Probes \in Nat \ {0} /\ Len(from) \in Nat
      /\ \A n \in 0..Probes - 1 : at(n) \in 0..Len(from) - 1
      /\ \A m, n \in 0..Probes - 1 : m < n => at(m) < at(n)
  BY SamplesApart, Lists
<1>2. \A n : /\ After(n) = IF n = 0 THEN 0 ELSE at(n - 1) + 1
             /\ Until(n) = IF n = Probes THEN Len(from) - 1 ELSE at(n) - 1
  BY DEF After, Until
<1> HIDE DEF at
<1>3. \A n \in 0..Probes : /\ n # 0 => n - 1 \in 0..Probes - 1
                           /\ n # Probes => n \in 0..Probes - 1
  BY <1>1
<1>4. \A m, n \in 0..Probes - 1 : m <= n => at(m) <= at(n)
  BY <1>1
<1>5. ASSUME NEW n \in 0..Probes
      PROVE  /\ After(n) \in Nat /\ Until(n) \in Int
             /\ Until(n) <= Len(from) - 1
  <2>1. CASE n = 0
    <3>1. n # Probes /\ n \in 0..Probes - 1
      BY <1>1, <2>1
    <3>2. at(n) \in 0..Len(from) - 1
      BY <1>1, <3>1
    <3> QED BY <1>1, <1>2, <2>1, <3>1, <3>2
  <2>2. CASE n # 0
    <3>1. at(n - 1) \in 0..Len(from) - 1 /\ After(n) = at(n - 1) + 1
      BY <1>1, <1>2, <1>3, <2>2
    <3>2. n # Probes => at(n) \in 0..Len(from) - 1
      BY <1>1, <1>3
    <3> QED BY <1>1, <1>2, <3>1, <3>2
  <2> QED BY <2>1, <2>2
<1>6. ASSUME NEW m \in 0..Probes, NEW n \in 0..Probes, m < n
      PROVE  Until(m) < After(n)
  <2>1. m # Probes /\ n # 0 /\ m \in 0..Probes - 1 /\ n - 1 \in 0..Probes - 1 /\ m <= n - 1
    BY <1>1, <1>6
  <2>2. at(m) <= at(n - 1) /\ at(m) \in Nat /\ at(n - 1) \in Nat
    BY <1>1, <1>4, <2>1
  <2>3. Until(m) = at(m) - 1 /\ After(n) = at(n - 1) + 1
    BY <1>2, <2>1
  <2> QED BY <2>2, <2>3
<1>7. ASSUME NEW n \in 0..Probes, NEW p \in After(n)..Until(n),
             NEW m \in 0..Probes - 1, p = at(m)
      PROVE  FALSE
  <2>1. p \in Int /\ After(n) <= p /\ p <= Until(n)
    BY <1>5
  <2>2. CASE m < n
    <3>1. n # 0 /\ n - 1 \in 0..Probes - 1 /\ m <= n - 1
      BY <1>1, <2>2
    <3>2. at(m) <= at(n - 1) /\ After(n) = at(n - 1) + 1 /\ at(n - 1) \in Nat
      BY <1>1, <1>2, <1>4, <3>1
    <3> QED BY <1>7, <2>1, <3>2
  <2>3. CASE ~(m < n)
    <3>1. n # Probes /\ n \in 0..Probes - 1 /\ n <= m
      BY <1>1, <2>3
    <3>2. at(n) <= at(m) /\ Until(n) = at(n) - 1 /\ at(n) \in Nat
      BY <1>1, <1>2, <1>4, <3>1
    <3> QED BY <1>7, <2>1, <3>2
  <2> QED BY <2>2, <2>3
<1>8. ASSUME NEW p \in 0..Len(from) - 1
      PROVE  \/ \E n \in 0..Probes - 1 : p = at(n)
             \/ \E n \in 0..Probes : p \in After(n)..Until(n)
  <2> DEFINE later == {n \in 0..Probes - 1 : p <= at(n)}
  <2>1. CASE later = {}
    <3>1. Probes - 1 \in 0..Probes - 1 /\ Probes \in 0..Probes /\ Probes # 0
      BY <1>1
    <3>2. p > at(Probes - 1) /\ at(Probes - 1) \in Nat /\ p \in Nat
      <4>1. PICK k \in 0..Probes - 1 : k = Probes - 1
        BY <3>1
      <4>2. at(k) \in Nat /\ p \in Nat /\ k \notin later
        BY <1>1, <2>1
      <4> QED BY <4>1, <4>2
    <3>3. After(Probes) = at(Probes - 1) + 1 /\ Until(Probes) = Len(from) - 1
      BY <1>2, <3>1
    <3> QED BY <3>1, <3>2, <3>3
  <2>2. CASE later # {}
    <3>1. PICK n \in later : \A m \in later : n <= m
      <4>1. later \in SUBSET Nat
        BY <1>1
      <4> QED BY <2>2, <4>1, Least
    <3>2. n \in 0..Probes - 1 /\ n \in 0..Probes /\ n # Probes /\ at(n) \in Nat /\ p <= at(n)
      BY <1>1, <3>1
    <3>3. CASE p = at(n)
      BY <3>2, <3>3
    <3>4. CASE p < at(n)
      <4>1. Until(n) = at(n) - 1
        BY <1>2, <3>2
      <4>2. After(n) <= p /\ After(n) \in Nat
        <5>1. CASE n = 0
          BY <1>2, <5>1
        <5>2. CASE n # 0
          <6>1. n - 1 \in 0..Probes - 1 /\ n - 1 \notin later
            BY <1>3, <3>1, <3>2, <5>2
          <6>2. p > at(n - 1) /\ at(n - 1) \in Nat
            BY <1>1, <6>1
          <6> QED BY <1>2, <5>2, <6>2
        <5> QED BY <5>1, <5>2
      <4> QED BY <3>2, <3>4, <4>1, <4>2
    <3> QED BY <3>2, <3>3, <3>4
  <2> QED BY <2>1, <2>2
<1> QED BY <1>5, <1>6, <1>7, <1>8 DEF at

\* A recursive sum is defined.
LEMMA SumDefined ==
  ASSUME NEW n \in Nat, NEW c \in [0..n -> Nat]
  PROVE  \E f : /\ f = [m \in 0..n |-> IF m = 0 THEN c[0] ELSE f[m - 1] + c[m]]
                /\ \A m \in 0..n : f[m] \in Nat
<1> DEFINE S == [m \in 0..n |-> Nat]
           step == [q \in (1..n) \X Nat |-> q[2] + c[q[1]]]
<1>1. ASSUME NEW m \in 1..n, NEW x \in Nat PROVE step[<<m, x>>] = x + c[m] /\ step[<<m, x>>] \in Nat
  OBVIOUS
<1>2. /\ \A m \in 0..n : S[m] = Nat
      /\ c[0] \in Nat /\ 0 \in 0..n
      /\ \A m \in 1..n : m \in 0..n /\ m - 1 \in 0..n
  OBVIOUS
<1> HIDE DEF S, step
<1>3. c[0] \in S[0] /\ \A m \in 1..n : \A x \in S[m - 1] : step[<<m, x>>] \in S[m]
  BY <1>1, <1>2
<1>4. PICK f : Recurs(f, c[0], step, n) /\ \A m \in 0..n : f[m] \in S[m]
  BY <1>3, Recursion
<1>5. \A m \in 0..n : f[m] \in Nat
  BY <1>2, <1>4
<1>6. \A m \in 0..n : m = 0 \/ (m \in 1..n /\ step[<<m, f[m - 1]>>] = f[m - 1] + c[m])
  <2>1. ASSUME NEW m \in 1..n PROVE step[<<m, f[m - 1]>>] = f[m - 1] + c[m]
    BY <1>1, <1>2, <1>5
  <2> QED BY <2>1
<1>7. f = [m \in 0..n |-> IF m = 0 THEN c[0] ELSE f[m - 1] + c[m]]
  BY <1>4, <1>6 DEF Recurs
<1> QED BY <1>5, <1>7

\* The elements of sets that are apart are as many as the sets have, added up.
LEMMA SumOfSets ==
  ASSUME NEW n \in Nat, NEW B, \A m \in 0..n : IsFiniteSet(B[m]),
         \A l, m \in 0..n : l < m => B[l] \cap B[m] = {},
         NEW f, f[0] = Cardinality(B[0]),
         \A m \in 0..n - 1 : f[m + 1] = f[m] + Cardinality(B[m + 1])
  PROVE  /\ IsFiniteSet(UNION {B[m] : m \in 0..n})
         /\ Cardinality(UNION {B[m] : m \in 0..n}) = f[n]
<1> DEFINE upto(k) == UNION {B[m] : m \in 0..k}
           T == {k \in 0..n : IsFiniteSet(upto(k)) /\ Cardinality(upto(k)) = f[k]}
<1>1. 0 \in T
  <2>1. upto(0) = B[0] /\ 0 \in 0..n
    OBVIOUS
  <2> QED BY <2>1
<1>2. ASSUME NEW k \in 0..n - 1, k \in T PROVE k + 1 \in T
  <2>1. k + 1 \in 0..n /\ k \in 0..n /\ k \in Nat /\ 0..k + 1 = (0..k) \cup {k + 1}
    OBVIOUS
  <2>2. upto(k + 1) = upto(k) \cup B[k + 1]
    BY <2>1
  <2>3. upto(k) \cap B[k + 1] = {}
    <3>1. \A m \in 0..k : m \in 0..n /\ m < k + 1
      BY <2>1
    <3>2. \A m \in 0..k : B[m] \cap B[k + 1] = {}
      BY <2>1, <3>1
    <3> QED BY <3>2
  <2>4. IsFiniteSet(upto(k)) /\ Cardinality(upto(k)) = f[k] /\ IsFiniteSet(B[k + 1])
    BY <1>2, <2>1
  <2>5. Cardinality(upto(k)) \in Nat /\ Cardinality(B[k + 1]) \in Nat
    BY <2>4, FS_CardinalityType
  <2> HIDE DEF upto
  <2>6. /\ IsFiniteSet(upto(k) \cup B[k + 1])
        /\ Cardinality(upto(k) \cup B[k + 1]) = Cardinality(upto(k)) + Cardinality(B[k + 1]) - Cardinality({})
    BY <2>3, <2>4, FS_Union
  <2>7. Cardinality(upto(k + 1)) = f[k + 1]
    <3>1. f[k + 1] = f[k] + Cardinality(B[k + 1])
      OBVIOUS
    <3>2. Cardinality(upto(k) \cup B[k + 1]) = f[k] + Cardinality(B[k + 1])
      BY <2>4, <2>5, <2>6, FS_EmptySet
    <3> QED BY <2>2, <3>1, <3>2
  <2> QED BY <2>1, <2>2, <2>6, <2>7
<1>3. \A k \in 0..n : k \in T
  <2>1. T \in SUBSET (0..n)
    OBVIOUS
  <2> HIDE DEF T
  <2> QED BY <1>1, <1>2, <2>1, Induct
<1>4. n \in T
  <2> HIDE DEF T
  <2> QED BY <1>3
<1> QED BY <1>4

\* The sampled positions and the ranges make up what is added, and their numbers its number.
LEMMA CountRemainingMarks ==
  ASSUME CoverageInv, Len(from) >= Minimum, NEW chunk \in Seq([Slot -> Value]),
         NEW method, NEW sampled, CountRemaining(sampled, method, chunk),
         sampled = {n \in 0..Probes - 1 : Sampled(n) \in Added(chunk)}
  PROVE  Marks(Added(chunk))
<1> DEFINE between(n) == Fresh(After(n), Until(n), method, chunk)
           count[n \in 0..Probes] ==
             IF n = 0 THEN Cardinality(between(0))
                      ELSE count[n - 1] + Cardinality(between(n))
           B == [n \in 0..Probes |-> Added(chunk) \cap (After(n)..Until(n))]
           ranges == UNION {between(n) : n \in 0..Probes}
           all == UNION {B[n] : n \in 0..Probes}
           P == {Sampled(n) : n \in sampled}
<1>1. /\ matched' = matched \cup (ranges \cup P)
      /\ matches' = matches + (count[Probes] + Cardinality(sampled))
  BY Zenon DEF CountRemaining, Mark
<1>2. /\ Probes \in Nat \ {0} /\ Probes \in 0..Probes /\ 0 \in 0..Probes
      /\ Len(from) \in Nat
      /\ \A n \in 0..Probes - 1 : Sampled(n) \in 0..Len(from) - 1
      /\ \A m, n \in 0..Probes - 1 : m < n => Sampled(m) < Sampled(n)
  <2>1. Len(from) \in Nat
    BY Lists
  <2> HIDE DEF between, count, B, all, P, ranges
  <2>2. /\ Probes \in Nat \ {0}
        /\ \A n \in 0..Probes - 1 : Sampled(n) \in 0..Len(from) - 1
        /\ \A m, n \in 0..Probes - 1 : m < n => Sampled(m) < Sampled(n)
    BY SamplesApart
  <2> QED BY <2>1, <2>2
<1>3. /\ \A n \in 0..Probes : /\ After(n) \in Nat /\ Until(n) \in Int
                              /\ Until(n) <= Len(from) - 1
      /\ \A m, n \in 0..Probes : m < n => Until(m) < After(n)
      /\ \A n \in 0..Probes : \A p \in After(n)..Until(n) :
           \A m \in 0..Probes - 1 : p # Sampled(m)
      /\ \A p \in 0..Len(from) - 1 :
           \/ \E n \in 0..Probes - 1 : p = Sampled(n)
           \/ \E n \in 0..Probes : p \in After(n)..Until(n)
  BY RangesCover
<1>4. ASSUME NEW n \in 0..Probes
      PROVE  /\ between(n) = B[n] /\ IsFiniteSet(B[n])
             /\ Cardinality(between(n)) = Cardinality(B[n]) /\ Cardinality(B[n]) \in Nat
  <2>1. between(n) = B[n]
    <3>1. /\ After(n) \in Nat /\ Until(n) \in Int
          /\ Until(n) <= Len(from) - 1
      BY <1>3
    <3>2. between(n) = Added(chunk) \cap (After(n)..Until(n))
      BY <3>1, FreshAdded
    <3> QED BY <3>2
  <2>2. B[n] \in SUBSET Added(chunk)
    OBVIOUS
  <2> HIDE DEF between, B
  <2>3. IsFiniteSet(B[n]) /\ Cardinality(B[n]) \in Nat
    BY <2>2, AddedFinite
  <2> QED BY <2>1, <2>3
<1>5. \A l, m \in 0..Probes : l < m => B[l] \cap B[m] = {}
  <2> SUFFICES ASSUME NEW l \in 0..Probes, NEW m \in 0..Probes, l < m,
                      NEW p \in B[l], p \in B[m]
               PROVE  FALSE
    OBVIOUS
  <2>1. /\ p \in After(l)..Until(l) /\ p \in After(m)..Until(m)
        /\ Until(l) < After(m)
    BY <1>3
  <2>2. /\ After(l) \in Nat /\ Until(l) \in Int
        /\ After(m) \in Nat /\ Until(m) \in Int
    BY <1>3
  <2> QED BY <2>1, <2>2
<1>6. /\ all \cup P = Added(chunk) /\ all \cap P = {}
      /\ ranges = all
  <2>1. all \subseteq Added(chunk) /\ P \subseteq Added(chunk)
    OBVIOUS
  <2>2. ASSUME NEW p \in Added(chunk) PROVE p \in all \cup P
    <3>1. p \in 0..Len(from) - 1
      BY DEF Added
    <3>2. CASE \E n \in 0..Probes - 1 : p = Sampled(n)
      BY <3>2
    <3>3. CASE \E n \in 0..Probes : p \in After(n)..Until(n)
      BY <3>3
    <3> QED BY <1>3, <3>1, <3>2, <3>3
  <2>3. ASSUME NEW p \in all, p \in P PROVE FALSE
    <3>1. PICK n \in 0..Probes : p \in After(n)..Until(n)
      OBVIOUS
    <3>2. PICK m \in 0..Probes - 1 : p = Sampled(m)
      BY <2>3
    <3> QED BY <1>3, <3>1, <3>2
  <2>4. ranges = all
    <3>1. \A n \in 0..Probes : between(n) = B[n]
      BY <1>4
    <3> HIDE DEF between, B
    <3> QED BY <3>1
  <2> QED BY <2>1, <2>2, <2>3, <2>4
<1>7. count[Probes] = Cardinality(all) /\ IsFiniteSet(all)
  <2> DEFINE c == [n \in 0..Probes |-> Cardinality(B[n])]
  <2>1. c \in [0..Probes -> Nat] /\ \A n \in 0..Probes : c[n] = Cardinality(B[n])
    BY <1>4
  <2> HIDE DEF c
  <2>2. PICK f : /\ f = [m \in 0..Probes |-> IF m = 0 THEN c[0] ELSE f[m - 1] + c[m]]
                 /\ \A m \in 0..Probes : f[m] \in Nat
    BY <1>2, <2>1, SumDefined
  <2>3. \A m \in 0..Probes : c[m] = Cardinality(between(m))
    BY <1>4, <2>1
  <2> HIDE DEF between, B
  <2>4. f = [m \in 0..Probes |-> IF m = 0 THEN Cardinality(between(0))
                                 ELSE f[m - 1] + Cardinality(between(m))]
    BY <1>2, <2>2, <2>3
  <2>5. count = [m \in 0..Probes |-> IF m = 0 THEN Cardinality(between(0))
                                     ELSE count[m - 1] + Cardinality(between(m))]
    BY <2>4, Zenon DEF count
  <2> HIDE DEF count
  <2>6. \A m \in 0..Probes : count[m] = IF m = 0 THEN Cardinality(B[0])
                                        ELSE count[m - 1] + Cardinality(B[m])
    <3>1. \A m \in 0..Probes : Cardinality(between(m)) = Cardinality(B[m])
      BY <1>4
    <3> QED BY <1>2, <2>5, <3>1
  <2>7. count[0] = Cardinality(B[0])
    BY <1>2, <2>6
  <2>8. ASSUME NEW m \in 0..Probes - 1 PROVE count[m + 1] = count[m] + Cardinality(B[m + 1])
    <3>1. PICK k \in 0..Probes : k = m + 1
      BY <1>2
    <3>2. k # 0 /\ k - 1 = m
      BY <1>2, <3>1
    <3> QED BY <2>6, <3>1, <3>2
  <2>9. \A m \in 0..Probes : IsFiniteSet(B[m])
    BY <1>4
  <2>10. Probes \in Nat /\ Probes - 1 \in Int
    BY <1>2
  <2> HIDE DEF all
  <2>11. /\ IsFiniteSet(UNION {B[n] : n \in 0..Probes})
         /\ Cardinality(UNION {B[n] : n \in 0..Probes}) = count[Probes]
    BY <1>5, <2>7, <2>8, <2>9, <2>10, SumOfSets
  <2> QED BY <2>11 DEF all
<1>8. Cardinality(sampled) = Cardinality(P) /\ IsFiniteSet(P) /\ Cardinality(P) \in Nat
  <2> DEFINE f == [n \in sampled |-> Sampled(n)]
  <2>1. IsFiniteSet(sampled)
    <3>1. sampled \in SUBSET (0..Probes - 1)
      OBVIOUS
    <3>2. IsFiniteSet(0..Probes - 1)
      BY <1>2, FS_Interval
    <3> QED BY <3>1, <3>2, FS_Subset
  <2>2. f \in Surjection(sampled, P)
    BY DEF Surjection
  <2>3. f \in Injection(sampled, P)
    <3>1. ASSUME NEW m \in sampled, NEW n \in sampled, Sampled(m) = Sampled(n)
          PROVE  m = n
      <4>1. m \in 0..Probes - 1 /\ n \in 0..Probes - 1
        OBVIOUS
      <4>2. Sampled(m) \in Nat /\ Sampled(n) \in Nat
        BY <1>2, <4>1
      <4>3. ~(m < n) /\ ~(n < m)
        BY <1>2, <3>1, <4>1, <4>2
      <4> QED BY <1>2, <4>1, <4>3
    <3>2. f \in [sampled -> P] /\ \A m \in sampled : f[m] = Sampled(m)
      OBVIOUS
    <3> HIDE DEF f, P
    <3> QED BY <3>1, <3>2 DEF Injection, IsInjective
  <2> HIDE DEF f, P
  <2> QED BY <2>1, <2>2, <2>3, FS_Surjection, FS_CardinalityType
<1> HIDE DEF count, all, P, B, between, ranges
<1>9. Cardinality(Added(chunk)) = Cardinality(all) + Cardinality(P)
  <2>1. Cardinality(all \cup P) = Cardinality(all) + Cardinality(P) - Cardinality({})
    BY <1>6, <1>7, <1>8, FS_Union
  <2>2. Cardinality(all) \in Nat /\ Cardinality({}) = 0
    BY <1>7, FS_CardinalityType, FS_EmptySet
  <2>3. Cardinality(all \cup P) = Cardinality(all) + Cardinality(P)
    BY <1>8, <2>1, <2>2
  <2> QED BY <1>6, <2>3
<1>10. matched' = matched \cup Added(chunk)
  <2>1. matched' = matched \cup (all \cup P)
    BY <1>1, <1>6
  <2> QED BY <1>6, <2>1
<1>11. matches' = matches + Cardinality(Added(chunk))
  BY <1>1, <1>7, <1>8, <1>9
<1> QED BY <1>10, <1>11 DEF Marks

\* So does a chunk, by whatever means.
LEMMA ChunkMarks ==
  ASSUME CoverageInv, NEW chunk \in Seq([Slot -> Value]),
         CountChunk(chunk)
  PROVE  Marks(Added(chunk))
<1> DEFINE probed  == {n \in 0..Probes - 1 : Sampled(n) \notin matched}
           sampled == {n \in probed :
                         Found("scan", from[Sampled(n) + 1], chunk)}
           cheap   == Cheap(chunk, probed)
<1>1. CASE \/ threshold = Farthest \/ Len(from) < Minimum \/ Len(chunk) < Minimum
  <2>1. CountAll(chunk)
    BY <1>1 DEF CountChunk
  <2> QED BY <2>1, CountAllMarks
<1>2. CASE ~(\/ threshold = Farthest \/ Len(from) < Minimum \/ Len(chunk) < Minimum)
  <2>1. CountRemaining(sampled, IF cheap THEN "scan" ELSE "index", chunk)
    BY <1>2 DEF CountChunk
  <2>2. Len(from) >= Minimum
    BY <1>2, Lists, CoverageAssumption
  <2>3. sampled = {n \in 0..Probes - 1 : Sampled(n) \in Added(chunk)}
    <3>1. \A p \in 0..Len(from) - 1 :
            Found("scan", from[p + 1], chunk) <=> \E j \in 1..Len(chunk) : Near(p, chunk, j)
      BY Lists, FoundNear DEF CoverageInv, Near
    <3>2. \A n \in 0..Probes - 1 : Sampled(n) \in 0..Len(from) - 1
      BY <2>2, SamplesApart
    <3> QED BY <3>1, <3>2 DEF Added
  <2> HIDE DEF sampled, cheap
  <2> QED BY <2>1, <2>2, <2>3, CountRemainingMarks
<1> QED BY <1>1, <1>2

\* The invariant holds from the start, and after each chunk.
LEMMA CoverageInitially == InitCoverage => CoverageInv
<1> SUFFICES ASSUME InitCoverage PROVE CoverageInv
  OBVIOUS
<1>1. Len(to) \in Nat
  BY CoverageAssumption DEF InitCoverage
<1>2. Farthest \in Nat
  BY HashAssumption DEF Farthest
<1>3. Neighbours(0) = {}
  BY DEF Neighbours
<1> QED BY <1>1, <1>2, <1>3, FS_EmptySet DEF InitCoverage, CoverageInv

LEMMA ChunkStep == ASSUME CoverageInv, NextChunk PROVE CoverageInv'
<1> DEFINE end == IF Len(to) - taken < ChunkSize THEN Len(to) ELSE taken + ChunkSize
           chunk == SubSeq(to, taken + 1, end)
<1>1. /\ from' = from /\ to' = to /\ threshold' = threshold /\ taken' = end /\ taken < Len(to)
      /\ CountChunk(chunk)
  BY DEF NextChunk, Running
<1>2. /\ taken \in Nat /\ end \in Nat /\ taken <= end /\ end <= Len(to) /\ Len(to) \in Nat
      /\ taken \in Int /\ taken + 1 \in Int
  <2>1. ChunkSize \in Nat \ {0} /\ taken \in 0..Len(to) /\ Len(to) \in Nat
    BY Lists, CoverageAssumption DEF CoverageInv
  <2> QED BY <1>1, <2>1
<1> HIDE DEF end
<1>3. /\ chunk \in Seq([Slot -> Value]) /\ Len(chunk) = end - taken
      /\ \A i \in 1..end - taken : chunk[i] = to[taken + i]
  <2>1. \A i \in taken + 1..end : to[i] \in [Slot -> Value]
    <3>1. \A i \in taken + 1..end : i \in 1..Len(to)
      BY <1>2
    <3> QED BY <3>1, Lists
  <2>2. /\ chunk \in Seq([Slot -> Value])
        /\ Len(chunk) = IF taken + 1 <= end THEN end - (taken + 1) + 1 ELSE 0
        /\ \A i \in 1..end - (taken + 1) + 1 : chunk[i] = to[taken + 1 + i - 1]
    BY <1>2, <2>1, SubSeqProperties
  <2>3. /\ end - (taken + 1) + 1 = end - taken
        /\ \A i \in 1..end - taken : taken + 1 + i - 1 = taken + i
    BY <1>2
  <2> HIDE DEF chunk
  <2>4. Len(chunk) = end - taken
    BY <1>2, <2>2
  <2> QED BY <2>2, <2>3, <2>4
<1> HIDE DEF chunk
<1>4. Marks(Added(chunk))
  BY <1>1, <1>3, ChunkMarks
<1>5. Neighbours(end) = matched \cup Added(chunk)
  <2>1. ASSUME NEW p \in 0..Len(from) - 1
        PROVE  (\E j \in 1..end : Near(p, to, j)) <=>
                 \/ \E j \in 1..taken : Near(p, to, j)
                 \/ \E j \in 1..Len(chunk) : Near(p, chunk, j)
    <3>1. ASSUME NEW j \in 1..Len(chunk) PROVE taken + j \in 1..end /\ chunk[j] = to[taken + j]
      BY <1>2, <1>3
    <3>2. ASSUME NEW j \in 1..end, j \notin 1..taken
          PROVE  j - taken \in 1..Len(chunk) /\ chunk[j - taken] = to[j]
      <4>1. PICK i \in 1..end - taken : j = taken + i /\ i = j - taken
        BY <1>2, <3>2
      <4> QED BY <1>3, <4>1
    <3>3. \A j \in 1..taken : j \in 1..end
      BY <1>2
    <3>4. ASSUME NEW j \in 1..Len(chunk), Near(p, chunk, j) PROVE \E i \in 1..end : Near(p, to, i)
      BY <3>1, <3>4 DEF Near
    <3>5. ASSUME NEW j \in 1..end, Near(p, to, j), j \notin 1..taken
          PROVE  \E i \in 1..Len(chunk) : Near(p, chunk, i)
      BY <3>2, <3>5 DEF Near
    <3> QED BY <3>3, <3>4, <3>5
  <2> QED BY <2>1 DEF CoverageInv, Neighbours, Added
<1>6. /\ IsFiniteSet(matched) /\ IsFiniteSet(Added(chunk)) /\ matched \cap Added(chunk) = {}
      /\ Cardinality(matched) \in Nat /\ Cardinality(Added(chunk)) \in Nat
  <2>1. IsFiniteSet(0..Len(from) - 1)
    BY Lists, FS_Interval
  <2>2. matched \in SUBSET (0..Len(from) - 1)
    BY DEF CoverageInv, Neighbours
  <2>3. matched \cap Added(chunk) = {}
    BY DEF Added
  <2> QED BY <2>1, <2>2, <2>3, AddedFinite, FS_Subset, FS_CardinalityType
<1>7. Cardinality(matched \cup Added(chunk)) = Cardinality(matched) + Cardinality(Added(chunk))
  <2>1. Cardinality(matched \cup Added(chunk)) =
          Cardinality(matched) + Cardinality(Added(chunk)) - Cardinality({})
    BY <1>6, FS_Union
  <2> QED BY <1>6, <2>1, FS_EmptySet
<1>8. matched' = Neighbours(end) /\ matches' = Cardinality(matched')
  BY <1>4, <1>5, <1>7 DEF Marks, CoverageInv
<1>9. Neighbours(taken)' = Neighbours(end)
  BY <1>1 DEF Neighbours, Near
<1>10. from \in From /\ to \in To /\ threshold \in Nat /\ end \in 0..Len(to)
  BY <1>2 DEF CoverageInv
<1> QED BY <1>1, <1>8, <1>9, <1>10 DEF CoverageInv

-----------------------------------------------------------------------------
(***************************************************************************)
(* The count.                                                              *)
(***************************************************************************)

\* No hash is repeated, so that positions count hashes.
LEMMA CoveredNeighbours ==
  ASSUME CoverageInv, NEW t \in 0..Len(to), NEW list,
         Elements(list) = {to[j] : j \in 1..t}
  PROVE  Covered(Elements(from), Elements(list), threshold) =
           Cardinality(Neighbours(t))
<1> DEFINE C == {a \in Elements(from) :
                   \E b \in Elements(list) : Distance(a, b) <= threshold}
           f == [p \in Neighbours(t) |-> from[p + 1]]
<1>1. DOMAIN from = 1..Len(from)
  BY Lists
<1>2. ASSUME NEW p \in Neighbours(t) PROVE p \in 0..Len(from) - 1 /\ from[p + 1] \in C
  <2>1. p \in 0..Len(from) - 1
    BY DEF Neighbours
  <2>2. PICK j \in 1..t : Distance(from[p + 1], to[j]) <= threshold
    BY DEF Neighbours, Near
  <2>3. from[p + 1] \in Elements(from)
    BY <1>1, <2>1, Lists DEF Elements
  <2> QED BY <2>1, <2>2, <2>3
<1>3. ASSUME NEW a \in C PROVE \E p \in Neighbours(t) : from[p + 1] = a
  <2>1. PICK i \in 1..Len(from) : a = from[i]
    BY <1>1 DEF Elements
  <2>2. PICK j \in 1..t : Distance(a, to[j]) <= threshold
    OBVIOUS
  <2>3. PICK p \in 0..Len(from) - 1 : p + 1 = i
    <3>1. i - 1 \in 0..Len(from) - 1 /\ i - 1 + 1 = i
      BY Lists
    <3> QED BY <3>1
  <2>4. p \in Neighbours(t)
    BY <2>1, <2>2, <2>3 DEF Neighbours, Near
  <2> QED BY <2>1, <2>3, <2>4
<1>4. IsFiniteSet(Neighbours(t))
  <2>1. IsFiniteSet(0..Len(from) - 1)
    BY Lists, FS_Interval
  <2>2. Neighbours(t) \in SUBSET (0..Len(from) - 1)
    BY DEF Neighbours
  <2> QED BY <2>1, <2>2, FS_Subset
<1> HIDE DEF C
<1>5. f \in [Neighbours(t) -> C] /\ \A p \in Neighbours(t) : f[p] = from[p + 1]
  BY <1>2
<1>6. \A p, r \in Neighbours(t) : f[p] = f[r] => p = r
  BY <1>2, <1>5, Lists
<1> HIDE DEF f
<1>7. f \in Surjection(Neighbours(t), C) /\ f \in Injection(Neighbours(t), C)
  BY <1>3, <1>5, <1>6 DEF Surjection, Injection, IsInjective
<1>8. Cardinality(C) = Cardinality(Neighbours(t))
  BY <1>4, <1>7, FS_Surjection
<1> QED BY <1>8 DEF C, Covered

LEMMA CountIsExact == ASSUME CoverageInv PROVE CoverageExact
<1>1. taken \in 0..Len(to) /\ Len(to) \in Nat /\ DOMAIN to = 1..Len(to)
  BY Lists DEF CoverageInv
<1>2. Elements(SubSeq(to, 1, taken)) = {to[j] : j \in 1..taken}
  <2>1. \A i \in 1..taken : i \in 1..Len(to) /\ to[i] \in [Slot -> Value]
    BY <1>1, Lists
  <2>2. /\ SubSeq(to, 1, taken) \in Seq([Slot -> Value])
        /\ Len(SubSeq(to, 1, taken)) = IF 1 <= taken THEN taken - 1 + 1 ELSE 0
        /\ \A i \in 1..taken - 1 + 1 : SubSeq(to, 1, taken)[i] = to[1 + i - 1]
    BY <1>1, <2>1, SubSeqProperties
  <2> DEFINE list == SubSeq(to, 1, taken)
  <2> HIDE DEF list
  <2>3. DOMAIN list = 1..taken /\ \A i \in 1..taken : list[i] = to[i]
    BY <1>1, <2>2 DEF list
  <2>4. Elements(list) = {to[j] : j \in 1..taken}
    BY <2>3 DEF Elements
  <2> QED BY <2>4 DEF list
<1>3. Elements(to) = {to[j] : j \in 1..Len(to)}
  BY <1>1 DEF Elements
<1>4. matches = Covered(Elements(from),
                                 Elements(SubSeq(to, 1, taken)), threshold)
  BY <1>1, <1>2, CoveredNeighbours DEF CoverageInv
<1>5. ASSUME ~Running
      PROVE  matches = Covered(Elements(from), Elements(to), threshold)
  <2>1. Neighbours(taken) = Neighbours(Len(to))
    <3>1. CASE taken = Len(to)
      BY <3>1
    <3>2. CASE taken < Len(to)
      <4> DEFINE all == 0..Len(from) - 1
      <4>1. IsFiniteSet(all) /\ Cardinality(all) = Len(from) /\ Len(from) \in Nat
        <5>1. PICK n \in Nat : n = Len(from)
          BY Lists
        <5>2. IsFiniteSet(0..n - 1) /\ Cardinality(0..n - 1) = n
          BY FS_Interval
        <5> QED BY <5>1, <5>2
      <4>2. Neighbours(taken) \in SUBSET all
        BY DEF Neighbours
      <4>3. Cardinality(Neighbours(taken)) >= Len(from) /\ Cardinality(Neighbours(taken)) \in Nat
        <5>1. ~(matches < Len(from))
          BY <1>5, <3>2 DEF Running
        <5>2. Cardinality(Neighbours(taken)) \in Nat
          BY <4>1, <4>2, FS_Subset, FS_CardinalityType
        <5> QED BY <4>1, <5>1, <5>2 DEF CoverageInv
      <4>4. Neighbours(taken) = all
        <5> HIDE DEF all
        <5>1. Cardinality(Neighbours(taken)) <= Cardinality(all)
          BY <4>1, <4>2, FS_Subset
        <5>2. Cardinality(Neighbours(taken)) = Cardinality(all)
          BY <4>1, <4>3, <5>1
        <5> QED BY <4>1, <4>2, <5>2, FS_Subset
      <4>5. \A j \in 1..taken : j \in 1..Len(to)
        BY <1>1
      <4> QED BY <4>4, <4>5 DEF Neighbours
    <3> DEFINE n == Len(to)
    <3>3. n \in Nat /\ taken \in 0..n
      BY <1>1
    <3> HIDE DEF n
    <3>4. taken = n \/ taken < n
      BY <3>3
    <3> QED BY <3>1, <3>2, <3>4 DEF n
  <2>2. Len(to) \in 0..Len(to)
    BY <1>1
  <2> QED BY <1>3, <2>1, <2>2, CoveredNeighbours DEF CoverageInv
<1> QED BY <1>4, <1>5 DEF CoverageExact, CoverageInv

\* For any lists, any sizes of chunks and samples and any costs: after each chunk every hash
\* with a neighbour so far is counted once, and at the end, early or not, every hash with a
\* neighbour at all (vpdq_coverage_count).
THEOREM CountsAreExact == SpecCoverage => []CoverageExact
<1>1. CoverageInv /\ [NextChunk]_coverageVars => CoverageInv'
  <2> SUFFICES ASSUME CoverageInv, [NextChunk]_coverageVars PROVE CoverageInv'
    OBVIOUS
  <2>1. CASE UNCHANGED coverageVars
    BY <2>1 DEF coverageVars, CoverageInv, Neighbours, Near
  <2>2. CASE NextChunk
    BY <2>2, ChunkStep
  <2> QED BY <2>1, <2>2
<1>2. CoverageInv => CoverageExact
  BY CountIsExact
<1> QED BY CoverageInitially, <1>1, <1>2, PTL DEF SpecCoverage
=============================================================================
