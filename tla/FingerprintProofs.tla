------------------------- MODULE FingerprintProofs -------------------------
(***************************************************************************)
(* What is done with fingerprints once they are there.  One that was       *)
(* stored comes back as it was, and no other bytes are read as one: for    *)
(* bytes and fields of any width and any fingerprints and payloads.  The   *)
(* key of the settings tells all of them apart.                            *)
(*                                                                         *)
(* The search for matches of images and of videos loses none and adds      *)
(* none: for any catalogues, queries and policies.  The codec and the two  *)
(* searches are written as loops, and share the lemmas on recursion, on    *)
(* lists put together, and on lists in order.                              *)
(***************************************************************************)
EXTENDS FingerprintCodec, ImageMatch, VideoMatch, FiniteSetTheorems, FunctionTheorems,
        SequenceTheorems, WellFoundedInduction, TLAPS

-----------------------------------------------------------------------------
(***************************************************************************)
(* Induction and recursion on numbers.                                     *)
(***************************************************************************)

\* Numbers, if any, have a least one.
LEMMA Least ==
  ASSUME NEW T \in SUBSET Nat, T # {}
  PROVE  \E x \in T : \A y \in T : x <= y
<1> DEFINE R == OpToRel(<, Nat)
<1>1. \A x, y \in Nat : <<x, y>> \in R <=> x < y
  BY DEF OpToRel
<1>2. T \subseteq Nat /\ IsWellFoundedOn(R, Nat)
  BY NatLessThanWellFounded
<1> HIDE DEF R
<1>3. \E x \in T : \A y \in T : ~ (<<y, x>> \in R)
  BY <1>2, WFMin, Zenon
<1>4. PICK x \in T : \A y \in T : ~ (<<y, x>> \in R)
  BY <1>3
<1>5. ASSUME NEW y \in T PROVE x <= y
  <2>1. x \in Nat /\ y \in Nat /\ ~ (<<y, x>> \in R)
    BY <1>4
  <2>2. ~ (y < x)
    BY <1>1, <2>1
  <2> QED BY <2>1, <2>2
<1> QED BY <1>5

\* Induction up to a number.
LEMMA Induct ==
  ASSUME NEW n \in Nat, NEW T \in SUBSET (0..n), 0 \in T,
         \A m \in 0..n - 1 : m \in T => m + 1 \in T
  PROVE  \A m \in 0..n : m \in T
<1> DEFINE Bad == (0..n) \ T
<1> SUFFICES ASSUME Bad # {} PROVE FALSE
  OBVIOUS
<1>1. Bad \in SUBSET Nat
  OBVIOUS
<1>2. PICK m \in Bad : \A i \in Bad : m <= i
  <2> HIDE DEF Bad
  <2> QED BY <1>1, Least
<1>3. m \in 0..n /\ m # 0 /\ m - 1 \in 0..n - 1 /\ m - 1 + 1 = m
  OBVIOUS
<1>4. m - 1 \notin Bad
  BY <1>1, <1>2
<1> QED BY <1>3, <1>4

\* The function has the value, and the next by the step, up to a number.
Recurs(f, a, step, n) ==
  f = [m \in 0..n |-> IF m = 0 THEN a ELSE step[<<m, f[m - 1]>>]]

\* Where each value determines the next, there is a function of all of them.
LEMMA Recursion ==
  ASSUME NEW n \in Nat, NEW S, NEW step, NEW a \in S[0],
         \A m \in 1..n : \A x \in S[m - 1] : step[<<m, x>>] \in S[m]
  PROVE  \E f : Recurs(f, a, step, n) /\ \A m \in 0..n : f[m] \in S[m]
<1> DEFINE Good(f, m) == Recurs(f, a, step, m) /\ \A i \in 0..m : f[i] \in S[i]
           T == {m \in 0..n : \E f : Good(f, m)}
<1>1. 0 \in T
  <2> DEFINE f == [i \in 0..0 |-> a]
  <2>1. Good(f, 0)
    BY DEF Recurs
  <2> HIDE DEF f, Good
  <2> QED BY <2>1
<1>2. ASSUME NEW m \in 0..n - 1, m \in T PROVE m + 1 \in T
  <2>1. PICK f : Good(f, m)
    BY <1>2
  <2> DEFINE g == [i \in 0..m + 1 |-> IF i = 0 THEN a ELSE step[<<i, f[i - 1]>>]]
  <2>2. /\ g = [i \in 0..m + 1 |-> g[i]]
        /\ \A i \in 0..m + 1 : g[i] = IF i = 0 THEN a ELSE step[<<i, f[i - 1]>>]
    OBVIOUS
  <2> HIDE DEF g
  <2>i. \A i \in 0..m : i \in 0..m + 1 /\ g[i] = f[i]
    <3>1. \A i \in 0..m : i \in 0..m + 1 /\ f[i] = IF i = 0 THEN a ELSE step[<<i, f[i - 1]>>]
      BY <2>1 DEF Recurs
    <3> QED BY <2>2, <3>1
  <2>3. \A i \in 0..m + 1 : i # 0 => i - 1 \in 0..m /\ g[i - 1] = f[i - 1]
    BY <2>i
  <2>4. g = [i \in 0..m + 1 |-> IF i = 0 THEN a ELSE step[<<i, g[i - 1]>>]]
    <3>1. \A i \in 0..m + 1 : g[i] = IF i = 0 THEN a ELSE step[<<i, g[i - 1]>>]
      BY <2>2, <2>3
    <3> QED BY <2>2, <3>1
  <2>a. m + 1 \in 1..n /\ m + 1 - 1 = m /\ m + 1 \in 0..m + 1 /\ m + 1 # 0 /\ m \in 0..m
    OBVIOUS
  <2>b. g[m + 1] = step[<<m + 1, f[m + 1 - 1]>>] /\ f[m] \in S[m]
    BY <2>1, <2>2, <2>a
  <2>5. g[m + 1] = step[<<m + 1, f[m]>>] /\ f[m] \in S[m] /\ m + 1 \in 1..n /\ m + 1 - 1 = m
    BY <2>a, <2>b
  <2>6. \A i \in 0..m + 1 : g[i] \in S[i]
    <3>1. g[m + 1] \in S[m + 1]
      BY <2>5
    <3>2. \A i \in 0..m : g[i] \in S[i]
      BY <2>1, <2>i
    <3>3. \A i \in 0..m + 1 : i = m + 1 \/ i \in 0..m
      OBVIOUS
    <3> QED BY <3>1, <3>2, <3>3
  <2>7. Good(g, m + 1)
    BY <2>4, <2>6 DEF Recurs
  <2> HIDE DEF Good
  <2> QED BY <2>7
<1>3. n \in T
  <2> HIDE DEF T
  <2>1. T \in SUBSET (0..n)
    BY DEF T
  <2> QED BY <1>1, <1>2, <2>1, Induct
<1> QED BY <1>3

-----------------------------------------------------------------------------
(***************************************************************************)
(* Numbers and their bytes.                                                *)
(***************************************************************************)

\* Quotient and remainder.
LEMMA Division ==
  ASSUME NEW d \in Nat, NEW n \in Nat \ {0}
  PROVE  /\ d \div n \in Nat /\ d % n \in 0..n - 1
         /\ d = n * (d \div n) + (d % n)
OBVIOUS

\* They are the only ones.
LEMMA DivisionUnique ==
  ASSUME NEW q \in Nat, NEW n \in Nat \ {0}, NEW r \in 0..n - 1
  PROVE  /\ n * q + r \in Nat
         /\ (n * q + r) \div n = q /\ (n * q + r) % n = r
OBVIOUS

\* Multiples of a number are ordered as their factors are.
LEMMA Multiples ==
  ASSUME NEW n \in Nat \ {0}, NEW x \in Nat, NEW y \in Nat
  PROVE  /\ n * x \in Nat /\ n * (x + 1) = n * x + n
         /\ x < y => n * x + n <= n * y
         /\ n * x < n * y => x < y
<1>1. ASSUME NEW a \in Nat, NEW b \in Nat PROVE n * (a + b) = n * a + n * b /\ n * b \in Nat
  OBVIOUS
<1>2. n * x \in Nat /\ n * y \in Nat /\ n * (x + 1) = n * x + n
  OBVIOUS
<1>3. ASSUME x < y PROVE n * x + n <= n * y
  <2>1. PICK d \in Nat : y = (x + 1) + d
    <3>1. y - (x + 1) \in Nat /\ y = (x + 1) + (y - (x + 1))
      BY <1>3
    <3> QED BY <3>1
  <2>2. n * y = n * (x + 1) + n * d /\ n * d \in Nat
    BY <1>1, <2>1
  <2> QED BY <1>2, <2>2
<1>4. ASSUME ~ (x < y) PROVE ~ (n * x < n * y)
  <2>1. PICK d \in Nat : x = y + d
    <3>1. x - y \in Nat /\ x = y + (x - y)
      BY <1>4
    <3> QED BY <3>1
  <2>2. n * x = n * y + n * d /\ n * d \in Nat
    BY <1>1, <2>1
  <2> QED BY <1>2, <2>2
<1> QED BY <1>2, <1>3, <1>4

\* The powers are products of the base.
LEMMA PowerDefined ==
  ASSUME NEW w \in Nat
  PROVE  \E p \in [0..w -> Nat \ {0}] :
           /\ Power(w) = p[w] /\ p[0] = 1
           /\ \A n \in 1..w : p[n] = Base * p[n - 1]
<1> DEFINE power[n \in 0..w] == IF n = 0 THEN 1 ELSE Base * power[n - 1]
           S == [m \in 0..w |-> Nat]
           step == [q \in (1..w) \X Nat |-> Base * q[2]]
<1>1. Power(w) = power[w]
  BY Zenon DEF Power
<1>2. Base \in Nat \ {0}
  BY CodecAssumption
<1>3. \A m \in 1..w, x \in Nat : step[<<m, x>>] = Base * x /\ Base * x \in Nat
  BY <1>2
<1>4. \A m \in 0..w : S[m] = Nat
  OBVIOUS
<1> HIDE DEF step, S
<1>5. 1 \in S[0] /\ \A m \in 1..w : \A x \in S[m - 1] : step[<<m, x>>] \in S[m]
  BY <1>3, <1>4
<1>6. PICK g : Recurs(g, 1, step, w) /\ \A m \in 0..w : g[m] \in S[m]
  BY <1>5, Recursion
<1>7. g = [n \in 0..w |-> IF n = 0 THEN 1 ELSE Base * g[n - 1]]
  <2>1. \A n \in 0..w : n = 0 \/ (n \in 1..w /\ n - 1 \in 0..w)
    OBVIOUS
  <2>2. ASSUME NEW n \in 1..w PROVE step[<<n, g[n - 1]>>] = Base * g[n - 1]
    <3>1. g[n - 1] \in Nat
      BY <1>4, <1>6
    <3> QED BY <1>3, <3>1
  <2> QED BY <1>6, <2>1, <2>2 DEF Recurs
<1>8. power = [n \in 0..w |-> IF n = 0 THEN 1 ELSE Base * power[n - 1]]
  BY <1>7, Zenon DEF power
<1> HIDE DEF power
<1>9. power[0] = 1 /\ \A n \in 1..w : power[n] = Base * power[n - 1]
  BY <1>8
<1>10. \A n \in 0..w : power[n] \in Nat \ {0}
  <2> DEFINE T == {n \in 0..w : power[n] \in Nat \ {0}}
  <2>1. 0 \in T /\ T \in SUBSET (0..w)
    BY <1>9
  <2>2. ASSUME NEW n \in 0..w - 1, n \in T PROVE n + 1 \in T
    <3>1. n + 1 \in 1..w /\ n + 1 - 1 = n /\ power[n] \in Nat \ {0}
      BY <2>2
    <3>2. power[n + 1] = Base * power[n]
      BY <1>9, <3>1
    <3> QED BY <1>2, <3>1, <3>2
  <2>3. \A n \in 0..w : n \in T
    <3> HIDE DEF T
    <3> QED BY <2>1, <2>2, Induct
  <2> QED BY <2>3
<1>11. power \in [0..w -> Nat \ {0}]
  BY <1>8, <1>10
<1> QED BY <1>1, <1>9, <1>11

\* Each byte is the rest of a division, and the next of its quotient.
LEMMA BytesDefined ==
  ASSUME NEW w \in Nat, NEW v \in Nat
  PROVE  \E shifted \in [0..w -> Nat] :
           /\ Bytes(w, v) = [i \in 1..w |-> shifted[i - 1] % Base]
           /\ shifted[0] = v
           /\ \A i \in 1..w : shifted[i] = shifted[i - 1] \div Base
<1> DEFINE shifted[i \in 0..w] == IF i = 0 THEN v ELSE shifted[i - 1] \div Base
           S == [m \in 0..w |-> Nat]
           step == [q \in (1..w) \X Nat |-> q[2] \div Base]
<1>1. Bytes(w, v) = [i \in 1..w |-> shifted[i - 1] % Base]
  BY Zenon DEF Bytes
<1>2. Base \in Nat \ {0}
  BY CodecAssumption
<1>3. \A m \in 1..w, x \in Nat : step[<<m, x>>] = x \div Base /\ x \div Base \in Nat
  BY <1>2, Division
<1>4. \A m \in 0..w : S[m] = Nat
  OBVIOUS
<1> HIDE DEF step, S
<1>5. v \in S[0] /\ \A m \in 1..w : \A x \in S[m - 1] : step[<<m, x>>] \in S[m]
  BY <1>3, <1>4
<1>6. PICK g : Recurs(g, v, step, w) /\ \A m \in 0..w : g[m] \in S[m]
  BY <1>5, Recursion
<1>7. g = [i \in 0..w |-> IF i = 0 THEN v ELSE g[i - 1] \div Base]
  <2>1. \A i \in 0..w : i = 0 \/ (i \in 1..w /\ i - 1 \in 0..w)
    OBVIOUS
  <2>2. ASSUME NEW i \in 1..w PROVE step[<<i, g[i - 1]>>] = g[i - 1] \div Base
    <3>1. g[i - 1] \in Nat
      BY <1>4, <1>6
    <3> QED BY <1>3, <3>1
  <2> QED BY <1>6, <2>1, <2>2 DEF Recurs
<1>8. shifted = [i \in 0..w |-> IF i = 0 THEN v ELSE shifted[i - 1] \div Base]
  BY <1>7, Zenon DEF shifted
<1> HIDE DEF shifted
<1>9. shifted[0] = v /\ \A i \in 1..w : shifted[i] = shifted[i - 1] \div Base
  BY <1>8
<1>10. \A i \in 0..w : shifted[i] \in Nat
  <2> DEFINE T == {i \in 0..w : shifted[i] \in Nat}
  <2>1. 0 \in T /\ T \in SUBSET (0..w)
    BY <1>9
  <2>2. ASSUME NEW i \in 0..w - 1, i \in T PROVE i + 1 \in T
    <3>1. i + 1 \in 1..w /\ i + 1 - 1 = i /\ shifted[i] \in Nat
      BY <2>2
    <3>2. shifted[i + 1] = shifted[i] \div Base
      BY <1>9, <3>1
    <3>3. shifted[i] \div Base \in Nat
      BY <1>2, <3>1, Division
    <3> QED BY <3>1, <3>2, <3>3
  <2>3. \A i \in 0..w : i \in T
    <3> HIDE DEF T
    <3> QED BY <2>1, <2>2, Induct
  <2> QED BY <2>3
<1>11. shifted \in [0..w -> Nat]
  BY <1>8, <1>10
<1> QED BY <1>1, <1>9, <1>11

\* The number of more bytes is made from the number of those after the first.
LEMMA NumberDefined ==
  ASSUME NEW bytes \in Seq(Byte)
  PROVE  \E last \in [0..Len(bytes) -> Nat] :
           /\ Number(bytes) = last[Len(bytes)] /\ last[0] = 0
           /\ \A n \in 1..Len(bytes) : last[n] = bytes[Len(bytes) + 1 - n] + Base * last[n - 1]
<1> DEFINE N == Len(bytes)
           last[n \in 0..N] == IF n = 0 THEN 0 ELSE bytes[N + 1 - n] + Base * last[n - 1]
           S == [m \in 0..N |-> Nat]
           step == [q \in (1..N) \X Nat |-> bytes[N + 1 - q[1]] + Base * q[2]]
<1>1. Number(bytes) = last[N]
  BY Zenon DEF Number
<1>2. Base \in Nat \ {0} /\ N \in Nat
  BY CodecAssumption
<1>3. ASSUME NEW m \in 1..N PROVE bytes[N + 1 - m] \in Nat
  <2>1. N + 1 - m \in 1..N
    BY <1>2
  <2> QED BY <1>2, <2>1 DEF Byte
<1>4. \A m \in 0..N : S[m] = Nat
  OBVIOUS
<1>5. ASSUME NEW m \in 1..N, NEW x \in Nat
      PROVE  step[<<m, x>>] = bytes[N + 1 - m] + Base * x /\ step[<<m, x>>] \in Nat
  <2>1. step[<<m, x>>] = bytes[N + 1 - m] + Base * x
    OBVIOUS
  <2>2. bytes[N + 1 - m] \in Nat /\ Base \in Nat
    BY <1>2, <1>3
  <2>3. \A y, z \in Nat : y * z \in Nat
    OBVIOUS
  <2>4. Base * x \in Nat
    BY <2>2, <2>3
  <2> HIDE DEF step, N
  <2> QED BY <2>1, <2>2, <2>4
<1> HIDE DEF step, S, N
<1>6. 0 \in S[0] /\ \A m \in 1..N : \A x \in S[m - 1] : step[<<m, x>>] \in S[m]
  BY <1>2, <1>4, <1>5
<1>7. PICK g : Recurs(g, 0, step, N) /\ \A m \in 0..N : g[m] \in S[m]
  BY <1>2, <1>6, Recursion
<1>8. g = [n \in 0..N |-> IF n = 0 THEN 0 ELSE bytes[N + 1 - n] + Base * g[n - 1]]
  <2>1. \A n \in 0..N : n = 0 \/ (n \in 1..N /\ n - 1 \in 0..N)
    BY <1>2
  <2>2. ASSUME NEW n \in 1..N PROVE step[<<n, g[n - 1]>>] = bytes[N + 1 - n] + Base * g[n - 1]
    <3>1. g[n - 1] \in Nat
      BY <1>2, <1>4, <1>7
    <3> QED BY <1>5, <3>1
  <2> QED BY <1>7, <2>1, <2>2 DEF Recurs
<1>9. last = [n \in 0..N |-> IF n = 0 THEN 0 ELSE bytes[N + 1 - n] + Base * last[n - 1]]
  BY <1>8, Zenon DEF last
<1> HIDE DEF last
<1>10. last[0] = 0 /\ \A n \in 1..N : last[n] = bytes[N + 1 - n] + Base * last[n - 1]
  BY <1>2, <1>9
<1>11. \A n \in 0..N : last[n] \in Nat
  <2> DEFINE T == {n \in 0..N : last[n] \in Nat}
  <2>1. 0 \in T /\ T \in SUBSET (0..N)
    BY <1>2, <1>10
  <2>2. ASSUME NEW n \in 0..N - 1, n \in T PROVE n + 1 \in T
    <3>1. n + 1 \in 1..N /\ n + 1 - 1 = n /\ last[n] \in Nat
      BY <1>2, <2>2
    <3>2. PICK k : k = n + 1
      OBVIOUS
    <3>3. last[k] = bytes[N + 1 - k] + Base * last[n] /\ bytes[N + 1 - k] \in Nat
      BY <1>3, <1>10, <3>1, <3>2
    <3>4. last[k] \in Nat
      BY <1>2, <3>1, <3>3
    <3> QED BY <3>1, <3>2, <3>4
  <2>3. \A n \in 0..N : n \in T
    <3> HIDE DEF T
    <3> QED BY <1>2, <2>1, <2>2, Induct
  <2> QED BY <2>3
<1>12. last \in [0..N -> Nat]
  BY <1>9, <1>11
<1> QED BY <1>1, <1>10, <1>12 DEF N

\* A number is read from the bytes it was written as.
LEMMA NumberOfBytes ==
  ASSUME NEW w \in Nat, NEW v \in Word(w)
  PROVE  /\ Bytes(w, v) \in Seq(Byte) /\ Len(Bytes(w, v)) = w
         /\ Number(Bytes(w, v)) = v
<1>1. PICK p \in [0..w -> Nat \ {0}] :
        /\ Power(w) = p[w] /\ p[0] = 1
        /\ \A n \in 1..w : p[n] = Base * p[n - 1]
  BY PowerDefined
<1>2. v \in Nat /\ v < p[w]
  BY <1>1 DEF Word
<1>3. PICK shifted \in [0..w -> Nat] :
        /\ Bytes(w, v) = [i \in 1..w |-> shifted[i - 1] % Base]
        /\ shifted[0] = v
        /\ \A i \in 1..w : shifted[i] = shifted[i - 1] \div Base
  BY <1>2, BytesDefined
<1>4. Base \in Nat \ {0}
  BY CodecAssumption
<1>5. ASSUME NEW i \in 1..w
      PROVE  /\ shifted[i - 1] % Base \in Byte
             /\ shifted[i - 1] = (shifted[i - 1] % Base) + Base * shifted[i]
  <2>1. PICK x : x = shifted[i - 1]
    OBVIOUS
  <2>2. x \in Nat /\ shifted[i] = x \div Base
    BY <1>3, <2>1
  <2>3. x % Base \in Byte /\ x \div Base \in Nat /\ x = Base * (x \div Base) + (x % Base)
    BY <1>4, <2>2, Division DEF Byte
  <2>4. Base * (x \div Base) \in Nat
    BY <1>4, <2>3, Multiples
  <2>5. x = (x % Base) + Base * (x \div Base)
    BY <2>3, <2>4 DEF Byte
  <2> QED BY <2>1, <2>2, <2>3, <2>5
<1>6. Bytes(w, v) \in Seq(Byte) /\ Len(Bytes(w, v)) = w
  <2>1. Bytes(w, v) \in [1..w -> Byte]
    BY <1>3, <1>5
  <2> QED BY <2>1
<1>7. PICK last \in [0..w -> Nat] :
        /\ Number(Bytes(w, v)) = last[w] /\ last[0] = 0
        /\ \A n \in 1..w : last[n] = Bytes(w, v)[w + 1 - n] + Base * last[n - 1]
  <2> DEFINE bytes == Bytes(w, v)
  <2>1. bytes \in Seq(Byte) /\ w = Len(bytes)
    BY <1>6
  <2> HIDE DEF bytes
  <2>2. PICK last \in [0..Len(bytes) -> Nat] :
          /\ Number(bytes) = last[Len(bytes)] /\ last[0] = 0
          /\ \A n \in 1..Len(bytes) : last[n] = bytes[Len(bytes) + 1 - n] + Base * last[n - 1]
    BY <2>1, NumberDefined
  <2>3. /\ last \in [0..w -> Nat] /\ Number(bytes) = last[w] /\ last[0] = 0
        /\ \A n \in 1..w : last[n] = bytes[w + 1 - n] + Base * last[n - 1]
    BY <2>1, <2>2
  <2> QED BY <2>3 DEF bytes
<1>8. \A i \in 0..w : shifted[i] < p[w - i]
  <2> DEFINE T == {i \in 0..w : shifted[i] < p[w - i]}
  <2>1. 0 \in T /\ T \in SUBSET (0..w)
    BY <1>2, <1>3
  <2>2. ASSUME NEW i \in 0..w - 1, i \in T PROVE i + 1 \in T
    <3>1. PICK k : k = i + 1
      OBVIOUS
    <3>2. PICK m : m = w - i
      OBVIOUS
    <3>3. k \in 1..w /\ k - 1 = i /\ m \in 1..w /\ m - 1 = w - k
      BY <3>1, <3>2
    <3>4. PICK x, y : x = shifted[k] /\ y = p[w - k]
      OBVIOUS
    <3>5. p[m] = Base * y /\ x \in Nat /\ y \in Nat /\ shifted[i] \in Nat /\ shifted[i] < p[m]
      BY <1>1, <1>3, <2>2, <3>2, <3>3, <3>4
    <3>6. shifted[i] % Base \in Nat /\ shifted[i] = (shifted[i] % Base) + Base * x
      BY <1>5, <3>3, <3>4 DEF Byte
    <3>7. Base * x \in Nat /\ Base * y \in Nat
      BY <1>4, <3>5, Multiples
    <3>8. Base * x < Base * y
      BY <3>5, <3>6, <3>7
    <3>9. x < y
      BY <1>4, <3>5, <3>8, Multiples
    <3>10. shifted[k] < p[w - k] /\ k \in 0..w
      <4>1. k \in 0..w
        BY <3>3
      <4> QED BY <3>4, <3>9, <4>1
    <3> QED BY <3>1, <3>10
  <2>3. \A i \in 0..w : i \in T
    <3> HIDE DEF T
    <3> QED BY <2>1, <2>2, Induct
  <2> QED BY <2>3
<1>9. \A n \in 0..w : last[n] = shifted[w - n]
  <2> DEFINE T == {n \in 0..w : last[n] = shifted[w - n]}
  <2>1. 0 \in T /\ T \in SUBSET (0..w)
    <3>1. shifted[w] < p[0] /\ shifted[w] \in Nat
      BY <1>3, <1>8
    <3> QED BY <1>1, <1>7, <3>1
  <2>2. ASSUME NEW n \in 0..w - 1, n \in T PROVE n + 1 \in T
    <3>1. PICK k : k = n + 1
      OBVIOUS
    <3>2. k \in 1..w /\ k - 1 = n /\ w + 1 - k \in 1..w /\ w + 1 - k - 1 = w - k /\ w + 1 - k = w - n
      BY <3>1
    <3>3. last[k] = Bytes(w, v)[w + 1 - k] + Base * last[n]
      BY <1>7, <3>2
    <3>4. Bytes(w, v)[w + 1 - k] = shifted[w - k] % Base
      BY <1>3, <3>2
    <3>5. shifted[w - k] = (shifted[w - k] % Base) + Base * shifted[w - n]
      BY <1>5, <3>2
    <3>6. last[k] = shifted[w - k]
      BY <2>2, <3>3, <3>4, <3>5
    <3> QED BY <3>1, <3>2, <3>6
  <2>3. \A n \in 0..w : n \in T
    <3> HIDE DEF T
    <3> QED BY <2>1, <2>2, Induct
  <2> QED BY <2>3
<1>10. Number(Bytes(w, v)) = v
  BY <1>3, <1>7, <1>9
<1> QED BY <1>6, <1>10

\* Bytes are the ones that their number is written as.
LEMMA BytesOfNumber ==
  ASSUME NEW bytes \in Seq(Byte)
  PROVE  Number(bytes) \in Word(Len(bytes)) /\ Bytes(Len(bytes), Number(bytes)) = bytes
<1> DEFINE w == Len(bytes)
           v == Number(bytes)
<1>1. w \in Nat /\ Base \in Nat \ {0}
  BY CodecAssumption
<1>2. PICK last \in [0..w -> Nat] :
        /\ v = last[w] /\ last[0] = 0
        /\ \A n \in 1..w : last[n] = bytes[w + 1 - n] + Base * last[n - 1]
  BY NumberDefined
<1>3. \A i \in 1..w : bytes[i] \in 0..Base - 1
  <2>1. \A i \in 1..w : bytes[i] \in Byte
    BY ElementOfSeq
  <2> QED BY <2>1 DEF Byte
<1>4. bytes = [i \in 1..w |-> bytes[i]]
  OBVIOUS
<1> HIDE DEF w, v
<1>5. v \in Nat
  BY <1>1, <1>2
<1>6. PICK p \in [0..w -> Nat \ {0}] :
        /\ Power(w) = p[w] /\ p[0] = 1
        /\ \A n \in 1..w : p[n] = Base * p[n - 1]
  BY <1>1, PowerDefined
<1>7. PICK shifted \in [0..w -> Nat] :
        /\ Bytes(w, v) = [i \in 1..w |-> shifted[i - 1] % Base]
        /\ shifted[0] = v
        /\ \A i \in 1..w : shifted[i] = shifted[i - 1] \div Base
  BY <1>1, <1>5, BytesDefined
<1>8. \A n \in 0..w : last[n] < p[n]
  <2> DEFINE T == {n \in 0..w : last[n] < p[n]}
  <2>1. 0 \in T /\ T \in SUBSET (0..w)
    BY <1>1, <1>2, <1>6
  <2>2. ASSUME NEW n \in 0..w - 1, n \in T PROVE n + 1 \in T
    <3>1. PICK k : k = n + 1
      OBVIOUS
    <3>2. k \in 1..w /\ k - 1 = n /\ w + 1 - k \in 1..w
      BY <1>1, <3>1
    <3>3. last[k] = bytes[w + 1 - k] + Base * last[n] /\ p[k] = Base * p[n]
      BY <1>2, <1>6, <3>2
    <3>4. PICK x, y : x = last[n] /\ y = p[n]
      OBVIOUS
    <3>5. bytes[w + 1 - k] \in 0..Base - 1 /\ x < y /\ x \in Nat /\ y \in Nat
      BY <1>2, <1>3, <1>6, <2>2, <3>2, <3>4
    <3>6. Base * x + Base <= Base * y /\ Base * x \in Nat /\ Base * y \in Nat
      BY <1>1, <3>5, Multiples
    <3>7. last[k] < p[k]
      <4>1. PICK b : b = bytes[w + 1 - k]
        OBVIOUS
      <4>2. last[k] = b + Base * x /\ p[k] = Base * y
        BY <3>3, <3>4, <4>1
      <4>3. b \in 0..Base - 1
        BY <3>5, <4>1
      <4>4. b + Base * x < Base * y
        BY <1>1, <3>6, <4>3
      <4> QED BY <4>2, <4>4
    <3> QED BY <3>1, <3>2, <3>7
  <2>3. \A n \in 0..w : n \in T
    <3> HIDE DEF T
    <3> QED BY <1>1, <2>1, <2>2, Induct
  <2> QED BY <2>3
<1>9. ASSUME NEW i \in 1..w
      PROVE  /\ last[w + 1 - i] \div Base = last[w - i]
             /\ last[w + 1 - i] % Base = bytes[i]
  <2>1. PICK k : k = w + 1 - i
    OBVIOUS
  <2>2. k \in 1..w /\ w + 1 - k = i /\ k - 1 = w - i
    BY <1>1, <2>1
  <2>c. last[k] = bytes[w + 1 - k] + Base * last[k - 1]
    BY <1>2, <2>2
  <2>d. w - i \in 0..w
    BY <1>1
  <2>3. PICK x, b : x = last[w - i] /\ b = bytes[i]
    OBVIOUS
  <2>4. last[k] = b + Base * x /\ x \in Nat /\ b \in 0..Base - 1
    BY <1>2, <1>3, <2>2, <2>3, <2>c, <2>d
  <2>5. Base * x \in Nat
    BY <1>1, <2>4, Multiples
  <2>6. last[k] = Base * x + b
    BY <1>1, <2>4, <2>5
  <2>7. (Base * x + b) \div Base = x /\ (Base * x + b) % Base = b
    BY <1>1, <2>4, DivisionUnique
  <2> QED BY <2>1, <2>3, <2>6, <2>7
<1>10. \A i \in 0..w : shifted[i] = last[w - i]
  <2> DEFINE T == {i \in 0..w : shifted[i] = last[w - i]}
  <2>1. 0 \in T /\ T \in SUBSET (0..w)
    BY <1>1, <1>2, <1>7
  <2>2. ASSUME NEW i \in 0..w - 1, i \in T PROVE i + 1 \in T
    <3>1. PICK k : k = i + 1
      OBVIOUS
    <3>2. k \in 1..w /\ k - 1 = i /\ w + 1 - k = w - i
      BY <1>1, <3>1
    <3>3. shifted[k] = shifted[i] \div Base /\ shifted[i] = last[w - i]
      BY <1>7, <2>2, <3>2
    <3>4. last[w - i] \div Base = last[w - k]
      BY <1>9, <3>2
    <3> QED BY <3>1, <3>2, <3>3, <3>4
  <2>3. \A i \in 0..w : i \in T
    <3> HIDE DEF T
    <3> QED BY <1>1, <2>1, <2>2, Induct
  <2> QED BY <2>3
<1>11. ASSUME NEW i \in 1..w PROVE shifted[i - 1] % Base = bytes[i]
  <2>1. i - 1 \in 0..w /\ w - (i - 1) = w + 1 - i
    BY <1>1
  <2> QED BY <1>9, <1>10, <2>1
<1>12. Bytes(w, v) = bytes
  BY <1>4, <1>7, <1>11
<1>13. v \in Word(w)
  <2>1. v < p[w] /\ p[w] \in Nat /\ Power(w) = p[w]
    BY <1>1, <1>2, <1>6, <1>8
  <2> QED BY <1>5, <2>1 DEF Word
<1> QED BY <1>12, <1>13 DEF w, v

\* A byte is written as itself.
LEMMA OneByte ==
  ASSUME NEW v \in Byte
  PROVE  Bytes(1, v) = <<v>>
<1>1. v \in Nat /\ Base \in Nat \ {0} /\ v < Base
  BY CodecAssumption DEF Byte
<1>2. PICK shifted \in [0..1 -> Nat] :
        Bytes(1, v) = [i \in 1..1 |-> shifted[i - 1] % Base] /\ shifted[0] = v
  BY <1>1, BytesDefined
<1>3. v % Base = v
  BY <1>1
<1>4. Bytes(1, v) = [i \in 1..1 |-> v]
  BY <1>2, <1>3
<1> QED BY <1>4

\* The count of microseconds is the same after both bit casts.
LEMMA SignedUnsigned ==
  /\ \A t \in Time : Unsigned(t) \in Word(TimeWidth) /\ Signed(Unsigned(t)) = t
  /\ \A x \in Word(TimeWidth) : Signed(x) \in Time /\ Unsigned(Signed(x)) = x
<1>1. Power(TimeWidth) \in Nat \ {0}
  <2>1. TimeWidth \in Nat
    BY CodecAssumption
  <2>2. PICK p \in [0..TimeWidth -> Nat \ {0}] : Power(TimeWidth) = p[TimeWidth]
    BY <2>1, PowerDefined
  <2> QED BY <2>1, <2>2
<1> QED BY <1>1 DEF Time, Word, Signed, Unsigned

-----------------------------------------------------------------------------
(***************************************************************************)
(* Bytes that are put together and cut apart.                              *)
(***************************************************************************)

\* What two sequences were put together from.
LEMMA Joined ==
  ASSUME NEW s \in Seq(Byte), NEW t \in Seq(Byte)
  PROVE  /\ s \o t \in Seq(Byte) /\ Len(s \o t) = Len(s) + Len(t)
         /\ \A i \in 1..Len(s) : (s \o t)[i] = s[i]
         /\ \A m, n \in 1..Len(s) : SubSeq(s \o t, m, n) = SubSeq(s, m, n)
         /\ SubSeq(s \o t, 1, Len(s)) = s
         /\ SubSeq(s \o t, Len(s) + 1, Len(s) + Len(t)) = t
<1> DEFINE u == s \o t
<1>1. /\ u \in Seq(Byte) /\ Len(u) = Len(s) + Len(t)
      /\ \A i \in 1..Len(s) + Len(t) : u[i] = IF i <= Len(s) THEN s[i] ELSE t[i - Len(s)]
  BY ConcatProperties
<1>2. Len(s) \in Nat /\ Len(t) \in Nat
  BY LenProperties
<1>3. ASSUME NEW m \in 1..Len(u) + 1, NEW n \in 0..Len(u)
      PROVE  /\ SubSeq(u, m, n) \in Seq(Byte)
             /\ Len(SubSeq(u, m, n)) = IF m <= n THEN n - m + 1 ELSE 0
             /\ \A i \in 1..n - m + 1 : SubSeq(u, m, n)[i] = u[m + i - 1]
  <2> HIDE DEF u
  <2>1. \A i \in m..n : u[i] \in Byte
    BY <1>1, <1>2, ElementOfSeq
  <2>2. m \in Int /\ n \in Int
    BY <1>1, <1>2
  <2> QED BY <2>1, <2>2, SubSeqProperties
<1>4. \A m, n \in 1..Len(s) : SubSeq(u, m, n) = SubSeq(s, m, n)
  BY SubSeqOfConcat1
<1>5. SubSeq(u, 1, Len(s)) = s
  <2> HIDE DEF u
  <2> DEFINE c == SubSeq(u, 1, Len(s))
  <2>1. /\ c \in Seq(Byte) /\ Len(c) = Len(s)
        /\ \A i \in 1..Len(s) : c[i] = u[i]
    BY <1>1, <1>2, <1>3
  <2>2. \A i \in 1..Len(s) : u[i] = s[i]
    BY <1>1, <1>2
  <2> HIDE DEF c
  <2>3. c = s
    BY <2>1, <2>2, SeqEqual
  <2> QED BY <2>3 DEF c
<1>6. SubSeq(u, Len(s) + 1, Len(s) + Len(t)) = t
  <2> HIDE DEF u
  <2> DEFINE c == SubSeq(u, Len(s) + 1, Len(s) + Len(t))
  <2>1. Len(s) + 1 \in 1..Len(u) + 1 /\ Len(s) + Len(t) \in 0..Len(u)
    BY <1>1, <1>2
  <2>2. /\ c \in Seq(Byte)
        /\ Len(c) = IF Len(s) + 1 <= Len(s) + Len(t) THEN Len(s) + Len(t) - (Len(s) + 1) + 1 ELSE 0
        /\ \A i \in 1..Len(s) + Len(t) - (Len(s) + 1) + 1 : c[i] = u[Len(s) + 1 + i - 1]
    BY <1>3, <2>1
  <2> HIDE DEF c
  <2>3. Len(c) = Len(t)
    BY <1>2, <2>2
  <2>4. ASSUME NEW i \in 1..Len(c) PROVE c[i] = t[i]
    <3>1. PICK k : k = Len(s) + i
      OBVIOUS
    <3>2. /\ k \in 1..Len(s) + Len(t) /\ ~(k <= Len(s)) /\ k - Len(s) = i
          /\ Len(s) + 1 + i - 1 = k
          /\ i \in 1..Len(s) + Len(t) - (Len(s) + 1) + 1
      BY <1>2, <2>3, <3>1
    <3>3. u[k] = t[i]
      BY <1>1, <3>2
    <3>4. c[i] = u[k]
      BY <2>2, <3>2
    <3> QED BY <3>3, <3>4
  <2>5. c = t
    BY <2>2, <2>3, <2>4, SeqEqual
  <2> QED BY <2>5 DEF c
<1> QED BY <1>1, <1>2, <1>4, <1>5, <1>6

\* A cut.
LEMMA CutAt ==
  ASSUME NEW s \in Seq(Byte), NEW a \in 0..Len(s), NEW b \in a..Len(s)
  PROVE  SubSeq(s, a + 1, b) \in Seq(Byte) /\ Len(SubSeq(s, a + 1, b)) = b - a
<1>1. Len(s) \in Nat
  BY LenProperties
<1>2. \A i \in a + 1..b : s[i] \in Byte
  BY <1>1, ElementOfSeq
<1>3. a + 1 \in Int /\ b \in Int
  BY <1>1
<1>4. /\ SubSeq(s, a + 1, b) \in Seq(Byte)
      /\ Len(SubSeq(s, a + 1, b)) = IF a + 1 <= b THEN b - (a + 1) + 1 ELSE 0
  BY <1>2, <1>3, SubSeqProperties
<1> QED BY <1>1, <1>4

\* One byte that is cut out.
LEMMA OneCut ==
  ASSUME NEW s \in Seq(Byte), NEW k \in 1..Len(s)
  PROVE  SubSeq(s, k, k) = <<s[k]>> /\ s[k] \in Byte
<1>1. Len(s) \in Nat
  BY LenProperties
<1>2. s[k] \in Byte
  BY ElementOfSeq
<1>3. \A i \in k..k : s[i] \in Byte
  BY <1>1, <1>2
<1>4. k \in Int
  BY <1>1
<1>5. /\ Len(SubSeq(s, k, k)) = 1 /\ SubSeq(s, k, k) \in Seq(Byte)
      /\ SubSeq(s, k, k)[1] = s[k]
  <2>1. /\ SubSeq(s, k, k) \in Seq(Byte)
        /\ Len(SubSeq(s, k, k)) = IF k <= k THEN k - k + 1 ELSE 0
        /\ \A i \in 1..k - k + 1 : SubSeq(s, k, k)[i] = s[k + i - 1]
    BY <1>3, <1>4, SubSeqProperties
  <2>2. k - k + 1 = 1 /\ k <= k /\ k + 1 - 1 = k /\ 1 \in 1..k - k + 1
    BY <1>4
  <2> QED BY <2>1, <2>2
<1>6. \A c \in Seq(Byte) : Len(c) = 1 => c = <<c[1]>>
  OBVIOUS
<1> QED BY <1>2, <1>5, <1>6

\* Two sequences with a byte between them.
LEMMA Between ==
  ASSUME NEW s \in Seq(Byte), NEW q \in Byte, NEW t \in Seq(Byte),
         NEW u, u = s \o <<q>> \o t
  PROVE  /\ u \in Seq(Byte) /\ Len(u) = Len(s) + 1 + Len(t)
         /\ SubSeq(u, 1, Len(s)) = s /\ u[Len(s) + 1] = q
         /\ SubSeq(u, Len(s) + 2, Len(u)) = t
<1> DEFINE v == s \o <<q>>
<1>1. <<q>> \in Seq(Byte) /\ Len(<<q>>) = 1
  OBVIOUS
<1>2. Len(s) \in Nat /\ Len(t) \in Nat
  BY LenProperties
<1>3. /\ v \in Seq(Byte) /\ Len(v) = Len(s) + 1
      /\ SubSeq(v, 1, Len(s)) = s /\ v[Len(s) + 1] = q
  <2>1. v = Append(s, q)
    BY AppendIsConcat
  <2>2. v[Len(s) + 1] = q
    BY <2>1, AppendProperties
  <2> QED BY <1>1, <2>2, Joined
<1> HIDE DEF v
<1>4. u = v \o t
  BY DEF v
<1>5. /\ v \o t \in Seq(Byte) /\ Len(v \o t) = Len(v) + Len(t)
      /\ \A i \in 1..Len(v) : (v \o t)[i] = v[i]
      /\ \A m, n \in 1..Len(v) : SubSeq(v \o t, m, n) = SubSeq(v, m, n)
      /\ SubSeq(v \o t, Len(v) + 1, Len(v) + Len(t)) = t
  BY <1>3, Joined
<1>6. u \in Seq(Byte) /\ Len(u) = Len(s) + 1 + Len(t)
  BY <1>3, <1>4, <1>5
<1>7. u[Len(s) + 1] = q
  <2>1. Len(s) + 1 \in 1..Len(v)
    BY <1>2, <1>3
  <2> QED BY <1>3, <1>4, <1>5, <2>1
<1>8. SubSeq(u, 1, Len(s)) = s
  <2>1. CASE Len(s) = 0
    <3>1. s = << >>
      BY <2>1, EmptySeq
    <3>2. SubSeq(u, 1, 0) = << >>
      BY SubSeqEmpty
    <3> QED BY <2>1, <3>1, <3>2
  <2>2. CASE Len(s) # 0
    <3>1. 1 \in 1..Len(v) /\ Len(s) \in 1..Len(v)
      BY <1>2, <1>3, <2>2
    <3> QED BY <1>3, <1>4, <1>5, <3>1
  <2> QED BY <2>1, <2>2
<1>9. SubSeq(u, Len(s) + 2, Len(u)) = t
  <2>1. Len(s) + 2 = Len(v) + 1 /\ Len(u) = Len(v) + Len(t)
    BY <1>2, <1>3, <1>4, <1>5
  <2> QED BY <1>4, <1>5, <2>1
<1> QED BY <1>6, <1>7, <1>8, <1>9

\* A sequence is its start, the byte after it, and its end.
LEMMA CutBetween ==
  ASSUME NEW u \in Seq(Byte), NEW k \in Nat, k < Len(u)
  PROVE  SubSeq(u, 1, k) \o <<u[k + 1]>> \o SubSeq(u, k + 2, Len(u)) = u
<1>1. Len(u) \in Nat
  BY LenProperties
<1>2. k + 1 \in 1..Len(u)
  BY <1>1
<1>3. SubSeq(u, k + 1, k + 1) = <<u[k + 1]>>
  BY <1>2, OneCut
<1>4. SubSeq(u, 1, k) \o SubSeq(u, k + 1, k + 1) = SubSeq(u, 1, k + 1)
  <2>1. 1 \in 1..Len(u) + 1 /\ k \in 1 - 1..Len(u) /\ k + 1 \in k..Len(u)
    BY <1>1, <1>2
  <2> QED BY <2>1, ConcatAdjacentSubSeq
<1>5. SubSeq(u, 1, k + 1) \o SubSeq(u, k + 1 + 1, Len(u)) = SubSeq(u, 1, Len(u))
  <2>1. 1 \in 1..Len(u) + 1 /\ k + 1 \in 1 - 1..Len(u) /\ Len(u) \in k + 1..Len(u)
    BY <1>1, <1>2
  <2> QED BY <2>1, ConcatAdjacentSubSeq
<1>6. SubSeq(u, 1, Len(u)) = u
  BY SubSeqFull
<1>7. k + 1 + 1 = k + 2
  OBVIOUS
<1> QED BY <1>3, <1>4, <1>5, <1>6, <1>7

\* A number of sequences.
Lists(n, Element) == [1..n -> Seq(Element)]

\* What the first of the sequences, the first two, ... make.
Joins(flat, seqs, n) ==
  /\ FlattenSeq(seqs) = flat[n] /\ flat[1] = seqs[1]
  /\ \A i \in 1..n - 1 : flat[i + 1] = flat[i] \o seqs[i + 1]

\* Sequences are put together one after the other.
LEMMA FlattenDefined ==
  ASSUME NEW Element, NEW n \in Nat \ {0}, NEW seqs \in Lists(n, Element)
  PROVE  \E flat \in Lists(n, Element) : Joins(flat, seqs, n)
<1> USE DEF Lists
<1> DEFINE flatten[i \in 1..Len(seqs)] == IF i = 1 THEN seqs[i] ELSE flatten[i - 1] \o seqs[i]
           S == [m \in 0..n - 1 |-> Seq(Element)]
           step == [q \in (1..n - 1) \X Seq(Element) |-> q[2] \o seqs[q[1] + 1]]
<1>1. seqs \in Seq(Seq(Element)) /\ Len(seqs) = n
  OBVIOUS
<1>2. FlattenSeq(seqs) = flatten[Len(seqs)]
  <2>1. ~(Len(seqs) = 0)
    BY <1>1
  <2> QED BY <2>1, Zenon DEF FlattenSeq
<1>3. ASSUME NEW m \in 1..n - 1, NEW x \in Seq(Element)
      PROVE  step[<<m, x>>] = x \o seqs[m + 1] /\ step[<<m, x>>] \in Seq(Element)
  <2>1. seqs[m + 1] \in Seq(Element)
    OBVIOUS
  <2>2. step[<<m, x>>] = x \o seqs[m + 1]
    OBVIOUS
  <2> HIDE DEF step
  <2> QED BY <2>1, <2>2, ConcatProperties
<1>4. \A m \in 0..n - 1 : S[m] = Seq(Element)
  OBVIOUS
<1> HIDE DEF step, S
<1>5. seqs[1] \in S[0] /\ \A m \in 1..n - 1 : \A x \in S[m - 1] : step[<<m, x>>] \in S[m]
  <2>1. seqs[1] \in S[0]
    <3>1. 1 \in 1..n /\ 0 \in 0..n - 1
      OBVIOUS
    <3> QED BY <1>4, <3>1
  <2>2. ASSUME NEW m \in 1..n - 1, NEW x \in S[m - 1] PROVE step[<<m, x>>] \in S[m]
    <3>1. m - 1 \in 0..n - 1 /\ m \in 0..n - 1
      OBVIOUS
    <3>2. x \in Seq(Element)
      BY <1>4, <3>1
    <3> QED BY <1>3, <1>4, <3>1, <3>2
  <2> QED BY <2>1, <2>2
<1>6. n - 1 \in Nat
  OBVIOUS
<1>7. PICK g : Recurs(g, seqs[1], step, n - 1) /\ \A m \in 0..n - 1 : g[m] \in S[m]
  BY <1>5, <1>6, Recursion
<1> DEFINE f == [i \in 1..n |-> g[i - 1]]
<1>8. f = [i \in 1..n |-> IF i = 1 THEN seqs[i] ELSE f[i - 1] \o seqs[i]]
  <2>1. ASSUME NEW i \in 1..n PROVE f[i] = IF i = 1 THEN seqs[i] ELSE f[i - 1] \o seqs[i]
    <3>1. CASE i = 1
      BY <1>7, <3>1 DEF Recurs
    <3>2. CASE i # 1
      <4>1. PICK m : m = i - 1
        OBVIOUS
      <4>2. m \in 1..n - 1 /\ m \in 0..n - 1 /\ m # 0 /\ m - 1 \in 0..n - 1 /\ m + 1 = i
        BY <3>2, <4>1
      <4>3. g[m] = step[<<m, g[m - 1]>>] /\ g[m - 1] \in Seq(Element)
        BY <1>4, <1>7, <4>2 DEF Recurs
      <4>4. g[m] = g[m - 1] \o seqs[i]
        BY <1>3, <4>2, <4>3
      <4>5. f[i] = g[m] /\ f[i - 1] = g[m - 1]
        BY <4>1, <4>2
      <4> QED BY <3>2, <4>4, <4>5
    <3> QED BY <3>1, <3>2
  <2> QED BY <2>1
<1>9. f = [i \in 1..Len(seqs) |-> IF i = 1 THEN seqs[i] ELSE f[i - 1] \o seqs[i]]
  BY <1>1, <1>8
<1> HIDE DEF f
<1>10. flatten = [i \in 1..Len(seqs) |-> IF i = 1 THEN seqs[i] ELSE flatten[i - 1] \o seqs[i]]
  BY <1>9, Zenon DEF flatten
<1> HIDE DEF flatten
<1>11. \A i \in 1..n : flatten[i] = IF i = 1 THEN seqs[i] ELSE flatten[i - 1] \o seqs[i]
  BY <1>1, <1>10
<1>12. ASSUME NEW i \in 1..n - 1 PROVE flatten[i + 1] = flatten[i] \o seqs[i + 1]
  <2>1. PICK k : k = i + 1
    OBVIOUS
  <2>2. k \in 1..n /\ k # 1 /\ k - 1 = i
    BY <2>1
  <2> QED BY <1>11, <2>1, <2>2
<1>13. flatten[1] = seqs[1]
  BY <1>11
<1>14. \A i \in 1..n : flatten[i] \in Seq(Element)
  <2> DEFINE T == {m \in 0..n - 1 : flatten[m + 1] \in Seq(Element)}
  <2>1. 0 \in T /\ T \in SUBSET (0..n - 1)
    BY <1>13
  <2>2. ASSUME NEW m \in 0..n - 1 - 1, m \in T PROVE m + 1 \in T
    <3>1. PICK k : k = m + 1
      OBVIOUS
    <3>2. k \in 1..n - 1 /\ k \in 0..n - 1 /\ seqs[k + 1] \in Seq(Element) /\ flatten[k] \in Seq(Element)
      BY <2>2, <3>1
    <3>3. flatten[k + 1] = flatten[k] \o seqs[k + 1]
      BY <1>12, <3>2
    <3>4. flatten[k] \o seqs[k + 1] \in Seq(Element)
      BY <3>2, ConcatProperties
    <3> QED BY <3>1, <3>2, <3>3, <3>4
  <2>3. \A m \in 0..n - 1 : m \in T
    <3> HIDE DEF T
    <3> QED BY <1>6, <2>1, <2>2, Induct
  <2>4. ASSUME NEW i \in 1..n PROVE flatten[i] \in Seq(Element)
    <3>1. i - 1 \in 0..n - 1 /\ i - 1 + 1 = i
      OBVIOUS
    <3> QED BY <2>3, <3>1
  <2> QED BY <2>4
<1>15. flatten \in [1..n -> Seq(Element)]
  BY <1>1, <1>10, <1>14
<1>16. FlattenSeq(seqs) = flatten[n]
  BY <1>1, <1>2
<1> QED BY <1>12, <1>13, <1>15, <1>16 DEF Joins

\* The bounds of a piece are within those of the pieces.
LEMMA PieceWithin ==
  ASSUME NEW w \in Nat \ {0}, NEW n \in Nat, NEW m \in 1..n
  PROVE  /\ (m - 1) * w \in Nat /\ m * w \in Nat /\ n * w \in Nat
         /\ m * w = (m - 1) * w + w /\ m * w <= n * w
<1>1. m \in Nat /\ m - 1 \in Nat /\ m - 1 < n /\ m - 1 + 1 = m
  OBVIOUS
<1>2. \A x \in Nat : x * w = w * x
  OBVIOUS
<1>3. /\ w * (m - 1) \in Nat /\ w * n \in Nat
      /\ w * (m - 1) + w <= w * n
      /\ w * (m - 1 + 1) = w * (m - 1) + w
  BY <1>1, Multiples
<1> QED BY <1>1, <1>2, <1>3

\* Pieces of one width are found again where they were put.
LEMMA FlattenPieces ==
  ASSUME NEW w \in Nat \ {0}, NEW n \in Nat, NEW seqs \in [1..n -> Seq(Byte)],
         \A m \in 1..n : Len(seqs[m]) = w
  PROVE  /\ FlattenSeq(seqs) \in Seq(Byte) /\ Len(FlattenSeq(seqs)) = n * w
         /\ \A m \in 1..n : SubSeq(FlattenSeq(seqs), (m - 1) * w + 1, m * w) = seqs[m]
<1>1. CASE n = 0
  <2>1. seqs = << >> /\ Len(seqs) = 0
    BY <1>1
  <2>2. FlattenSeq(seqs) = << >>
    BY <2>1 DEF FlattenSeq
  <2>3. n * w = 0
    BY <1>1
  <2> QED BY <1>1, <2>2, <2>3, EmptySeq
<1>2. CASE n # 0
  <2> DEFINE Good(s, i) == /\ s \in Seq(Byte) /\ Len(s) = i * w
                           /\ \A m \in 1..i : SubSeq(s, (m - 1) * w + 1, m * w) = seqs[m]
  <2>1. n \in Nat \ {0} /\ n - 1 \in Nat
    BY <1>2
  <2>2. PICK flat \in [1..n -> Seq(Byte)] :
          /\ FlattenSeq(seqs) = flat[n] /\ flat[1] = seqs[1]
          /\ \A i \in 1..n - 1 : flat[i + 1] = flat[i] \o seqs[i + 1]
    <3>1. seqs \in Lists(n, Byte)
      BY DEF Lists
    <3>2. PICK flat \in Lists(n, Byte) : Joins(flat, seqs, n)
      BY <2>1, <3>1, FlattenDefined
    <3> QED BY <3>2 DEF Lists, Joins
  <2> DEFINE T == {m \in 0..n - 1 : Good(flat[m + 1], m + 1)}
  <2>3. Good(flat[1], 1)
    <3>1. seqs[1] \in Seq(Byte) /\ Len(seqs[1]) = w /\ 1 * w = w /\ (1 - 1) * w = 0
      BY <2>1
    <3>2. SubSeq(seqs[1], 1, w) = seqs[1]
      BY <3>1, SubSeqFull
    <3>3. \A m \in 1..1 : m = 1
      OBVIOUS
    <3> QED BY <2>2, <3>1, <3>2, <3>3
  <2>4. ASSUME NEW i \in 1..n - 1, Good(flat[i], i) PROVE Good(flat[i + 1], i + 1)
    <3>1. PICK k : k = i + 1
      OBVIOUS
    <3>2. i \in 1..n /\ k \in 1..n /\ k - 1 = i
      BY <3>1
    <3> DEFINE s == flat[i]
               t == seqs[k]
    <3>3. s \in Seq(Byte) /\ t \in Seq(Byte) /\ Len(s) = i * w /\ Len(t) = w /\ flat[k] = s \o t
      BY <2>2, <2>4, <3>1, <3>2
    <3>4. \A m \in 1..i : SubSeq(s, (m - 1) * w + 1, m * w) = seqs[m]
      BY <2>4
    <3> HIDE DEF s, t
    <3>5. /\ s \o t \in Seq(Byte) /\ Len(s \o t) = Len(s) + Len(t)
          /\ \A m1, m2 \in 1..Len(s) : SubSeq(s \o t, m1, m2) = SubSeq(s, m1, m2)
          /\ SubSeq(s \o t, Len(s) + 1, Len(s) + Len(t)) = t
      BY <3>3, Joined
    <3>6. k * w = i * w + w /\ i * w \in Nat /\ k \in Nat
      BY <3>2, PieceWithin
    <3>7. ASSUME NEW m \in 1..k
          PROVE  SubSeq(s \o t, (m - 1) * w + 1, m * w) = seqs[m]
      <4>1. CASE m = k
        <5>1. SubSeq(s \o t, i * w + 1, k * w) = t
          BY <3>3, <3>5, <3>6
        <5> QED BY <3>2, <4>1, <5>1 DEF t
      <4>2. CASE m # k
        <5>1. m \in 1..i /\ i \in Nat
          BY <3>2, <4>2
        <5>2. /\ (m - 1) * w \in Nat /\ m * w \in Nat /\ i * w \in Nat
              /\ m * w = (m - 1) * w + w /\ m * w <= i * w
          BY <5>1, PieceWithin
        <5>a. PICK x, y : x = (m - 1) * w /\ y = m * w
          OBVIOUS
        <5>b. x \in Nat /\ y \in Nat /\ y = x + w /\ y <= Len(s) /\ Len(s) \in Nat
          BY <3>3, <5>2, <5>a
        <5>c. x + 1 \in 1..Len(s) /\ y \in 1..Len(s)
          BY <5>b
        <5>3. (m - 1) * w + 1 \in 1..Len(s) /\ m * w \in 1..Len(s)
          BY <5>a, <5>c
        <5> QED BY <3>4, <3>5, <5>1, <5>3
      <4> QED BY <4>1, <4>2
    <3>8. Good(flat[k], k)
      BY <3>3, <3>5, <3>6, <3>7
    <3> QED BY <3>1, <3>8
  <2> HIDE DEF Good
  <2>5. 0 \in T /\ T \in SUBSET (0..n - 1)
    BY <2>1, <2>3
  <2>6. ASSUME NEW m \in 0..n - 1 - 1, m \in T PROVE m + 1 \in T
    <3>1. PICK k : k = m + 1
      OBVIOUS
    <3>2. k \in 1..n - 1 /\ k \in 0..n - 1 /\ Good(flat[k], k)
      BY <2>6, <3>1
    <3>3. Good(flat[k + 1], k + 1)
      BY <2>4, <3>2
    <3> QED BY <3>1, <3>2, <3>3
  <2>7. \A m \in 0..n - 1 : m \in T
    <3> HIDE DEF T
    <3> QED BY <2>1, <2>5, <2>6, Induct
  <2>8. Good(flat[n], n)
    <3>1. n - 1 \in 0..n - 1 /\ n - 1 + 1 = n
      BY <2>1
    <3> QED BY <2>7, <3>1
  <2> QED BY <2>2, <2>8 DEF Good
<1> QED BY <1>1, <1>2

\* Bytes that are cut into pieces of one width are those pieces.
LEMMA FlattenCuts ==
  ASSUME NEW w \in Nat \ {0}, NEW n \in Nat, NEW body \in Seq(Byte), Len(body) = n * w
  PROVE  FlattenSeq([m \in 1..n |-> SubSeq(body, (m - 1) * w + 1, m * w)]) = body
<1> DEFINE seqs == [m \in 1..n |-> SubSeq(body, (m - 1) * w + 1, m * w)]
<1>1. CASE n = 0
  <2>1. seqs = << >> /\ Len(seqs) = 0
    BY <1>1
  <2> HIDE DEF seqs
  <2>2. FlattenSeq(seqs) = << >>
    BY <2>1 DEF FlattenSeq
  <2>3. n * w = 0
    BY <1>1
  <2>4. body = << >>
    BY <2>3, EmptySeq
  <2> QED BY <2>2, <2>4 DEF seqs
<1>2. CASE n # 0
  <2>1. n \in Nat \ {0} /\ n - 1 \in Nat
    BY <1>2
  <2>2. ASSUME NEW m \in 1..n
        PROVE  /\ (m - 1) * w \in Nat /\ m * w \in Nat
               /\ m * w = (m - 1) * w + w /\ m * w <= Len(body)
    BY PieceWithin
  <2>3. ASSUME NEW m \in 1..n
        PROVE  seqs[m] \in Seq(Byte) /\ seqs[m] = SubSeq(body, (m - 1) * w + 1, m * w)
    <3>1. (m - 1) * w \in 0..Len(body) /\ m * w \in (m - 1) * w..Len(body)
      <4>1. Len(body) \in Nat
        BY LenProperties
      <4> QED BY <2>2, <4>1
    <3>2. SubSeq(body, (m - 1) * w + 1, m * w) \in Seq(Byte)
      BY <3>1, CutAt
    <3> QED BY <3>2
  <2>4. seqs \in [1..n -> Seq(Byte)]
    BY <2>3
  <2> HIDE DEF seqs
  <2>5. PICK flat \in [1..n -> Seq(Byte)] :
          /\ FlattenSeq(seqs) = flat[n] /\ flat[1] = seqs[1]
          /\ \A i \in 1..n - 1 : flat[i + 1] = flat[i] \o seqs[i + 1]
    <3>1. seqs \in Lists(n, Byte)
      BY <2>4 DEF Lists
    <3>2. PICK flat \in Lists(n, Byte) : Joins(flat, seqs, n)
      BY <2>1, <3>1, FlattenDefined
    <3> QED BY <3>2 DEF Lists, Joins
  <2> DEFINE T == {m \in 0..n - 1 : flat[m + 1] = SubSeq(body, 1, (m + 1) * w)}
  <2>6. 0 \in T /\ T \in SUBSET (0..n - 1)
    <3>1. 1 \in 1..n /\ (1 - 1) * w + 1 = 1 /\ 0 + 1 = 1 /\ 0 \in 0..n - 1
      BY <2>1
    <3>2. seqs[1] = SubSeq(body, 1, 1 * w)
      BY <2>3, <3>1
    <3> QED BY <2>5, <3>1, <3>2
  <2>7. ASSUME NEW m \in 0..n - 1 - 1, m \in T PROVE m + 1 \in T
    <3>1. PICK k, j : k = m + 1 /\ j = k + 1
      OBVIOUS
    <3>a. k \in 1..n - 1 /\ k \in 0..n - 1 /\ k \in 1..n /\ j \in 1..n /\ j - 1 = k
      BY <3>1
    <3>b. flat[k] = SubSeq(body, 1, k * w)
      BY <2>7, <3>1
    <3>c. flat[j] = flat[k] \o seqs[j]
      BY <2>5, <3>1, <3>a
    <3>2. /\ k \in 1..n - 1 /\ k \in 0..n - 1 /\ k \in 1..n /\ j \in 1..n /\ j - 1 = k
          /\ flat[k] = SubSeq(body, 1, k * w) /\ flat[j] = flat[k] \o seqs[j]
      BY <3>a, <3>b, <3>c
    <3>3. seqs[j] = SubSeq(body, k * w + 1, j * w)
      BY <2>3, <3>2
    <3>4. SubSeq(body, 1, k * w) \o SubSeq(body, k * w + 1, j * w) = SubSeq(body, 1, j * w)
      <4>1. /\ k * w \in Nat /\ j * w \in Nat /\ j * w = k * w + w /\ j * w <= Len(body)
            /\ Len(body) \in Nat
        BY <2>2, <3>2, LenProperties
      <4>2. 1 \in 1..Len(body) + 1 /\ k * w \in 1 - 1..Len(body) /\ j * w \in k * w..Len(body)
        BY <4>1
      <4> QED BY <4>2, ConcatAdjacentSubSeq
    <3> QED BY <3>1, <3>2, <3>3, <3>4
  <2>8. \A m \in 0..n - 1 : m \in T
    <3> HIDE DEF T
    <3> QED BY <2>1, <2>6, <2>7, Induct
  <2>9. flat[n] = SubSeq(body, 1, n * w)
    <3>1. n - 1 \in 0..n - 1 /\ n - 1 + 1 = n
      BY <2>1
    <3> QED BY <2>8, <3>1
  <2>10. SubSeq(body, 1, Len(body)) = body
    BY SubSeqFull
  <2> QED BY <2>5, <2>9, <2>10 DEF seqs
<1> QED BY <1>1, <1>2

\* A header and what follows it.
LEMMA HeaderParts ==
  ASSUME NEW m \in Byte, NEW k \in Byte, NEW c \in Seq(Byte), NEW d \in Seq(Byte),
         NEW p, p = <<m>> \o <<k>> \o c \o d
  PROVE  /\ p \in Seq(Byte) /\ Len(p) = 2 + Len(c) + Len(d)
         /\ p[1] = m /\ p[2] = k
         /\ SubSeq(p, 3, 2 + Len(c)) = c
         /\ SubSeq(p, 2 + Len(c) + 1, Len(p)) = d
<1> DEFINE a == <<m>> \o <<k>>
           b == a \o c
<1>1. a \in Seq(Byte) /\ Len(a) = 2 /\ a[1] = m /\ a[2] = k
  <2>1. <<m>> \in Seq(Byte) /\ Len(<<m>>) = 1 /\ <<m>>[1] = m
    OBVIOUS
  <2>2. a = Append(<<m>>, k)
    BY <2>1, AppendIsConcat
  <2>3. 1 \in 1..1 /\ 1 + 1 = 2
    OBVIOUS
  <2> QED BY <2>1, <2>2, <2>3, AppendProperties
<1> HIDE DEF a
<1>2. Len(c) \in Nat /\ Len(d) \in Nat
  BY LenProperties
<1>3. /\ b \in Seq(Byte) /\ Len(b) = 2 + Len(c)
      /\ b[1] = m /\ b[2] = k
      /\ SubSeq(b, 2 + 1, 2 + Len(c)) = c
  <2>1. /\ a \o c \in Seq(Byte) /\ Len(a \o c) = Len(a) + Len(c)
        /\ \A i \in 1..Len(a) : (a \o c)[i] = a[i]
        /\ SubSeq(a \o c, Len(a) + 1, Len(a) + Len(c)) = c
    BY <1>1, Joined
  <2>2. 1 \in 1..2 /\ 2 \in 1..2
    OBVIOUS
  <2> QED BY <1>1, <2>1, <2>2
<1> HIDE DEF b
<1>4. p = b \o d
  BY DEF a, b
<1>5. /\ b \o d \in Seq(Byte) /\ Len(b \o d) = Len(b) + Len(d)
      /\ \A i \in 1..Len(b) : (b \o d)[i] = b[i]
      /\ \A i, j \in 1..Len(b) : SubSeq(b \o d, i, j) = SubSeq(b, i, j)
      /\ SubSeq(b \o d, Len(b) + 1, Len(b) + Len(d)) = d
  BY <1>3, Joined
<1>6. p[1] = m /\ p[2] = k
  <2>1. 1 \in 1..Len(b) /\ 2 \in 1..Len(b)
    BY <1>2, <1>3
  <2> QED BY <1>3, <1>4, <1>5, <2>1
<1>7. SubSeq(p, 3, 2 + Len(c)) = c
  <2>1. CASE Len(c) = 0
    <3>1. c = << >>
      BY <2>1, EmptySeq
    <3>2. SubSeq(p, 3, 2) = << >>
      BY SubSeqEmpty
    <3> QED BY <2>1, <3>1, <3>2
  <2>2. CASE Len(c) # 0
    <3>1. 3 \in 1..Len(b) /\ 2 + Len(c) \in 1..Len(b) /\ 2 + 1 = 3
      BY <1>2, <1>3, <2>2
    <3> QED BY <1>3, <1>4, <1>5, <3>1
  <2> QED BY <2>1, <2>2
<1> QED BY <1>2, <1>3, <1>4, <1>5, <1>6, <1>7

\* A sequence is its first two bytes, the next ones, and those after them.
LEMMA HeaderCut ==
  ASSUME NEW p \in Seq(Byte), NEW w \in Nat, 2 + w <= Len(p)
  PROVE  /\ p[1] \in Byte /\ p[2] \in Byte
         /\ SubSeq(p, 3, 2 + w) \in Seq(Byte) /\ Len(SubSeq(p, 3, 2 + w)) = w
         /\ SubSeq(p, 2 + w + 1, Len(p)) \in Seq(Byte)
         /\ <<p[1]>> \o <<p[2]>> \o SubSeq(p, 3, 2 + w) \o SubSeq(p, 2 + w + 1, Len(p)) = p
<1>1. Len(p) \in Nat
  BY LenProperties
<1>2. 1 \in 1..Len(p) /\ 2 \in 1..Len(p)
  BY <1>1
<1>3. /\ SubSeq(p, 1, 1) = <<p[1]>> /\ SubSeq(p, 2, 2) = <<p[2]>>
      /\ p[1] \in Byte /\ p[2] \in Byte
  BY <1>2, OneCut
<1>4. /\ SubSeq(p, 2 + 1, 2 + w) \in Seq(Byte) /\ Len(SubSeq(p, 2 + 1, 2 + w)) = 2 + w - 2
      /\ SubSeq(p, 2 + w + 1, Len(p)) \in Seq(Byte)
  <2>1. 2 \in 0..Len(p) /\ 2 + w \in 2..Len(p) /\ 2 + w \in 0..Len(p) /\ Len(p) \in 2 + w..Len(p)
    BY <1>1
  <2> QED BY <2>1, CutAt
<1>5. SubSeq(p, 1, 1) \o SubSeq(p, 1 + 1, 2) = SubSeq(p, 1, 2)
  <2>1. 1 \in 1..Len(p) + 1 /\ 1 \in 1 - 1..Len(p) /\ 2 \in 1..Len(p)
    BY <1>1
  <2> QED BY <2>1, ConcatAdjacentSubSeq
<1>6. SubSeq(p, 1, 2) \o SubSeq(p, 2 + 1, 2 + w) = SubSeq(p, 1, 2 + w)
  <2>1. 1 \in 1..Len(p) + 1 /\ 2 \in 1 - 1..Len(p) /\ 2 + w \in 2..Len(p)
    BY <1>1
  <2> QED BY <2>1, ConcatAdjacentSubSeq
<1>7. SubSeq(p, 1, 2 + w) \o SubSeq(p, 2 + w + 1, Len(p)) = SubSeq(p, 1, Len(p))
  <2>1. 1 \in 1..Len(p) + 1 /\ 2 + w \in 1 - 1..Len(p) /\ Len(p) \in 2 + w..Len(p)
    BY <1>1
  <2> QED BY <2>1, ConcatAdjacentSubSeq
<1>8. SubSeq(p, 1, Len(p)) = p
  BY SubSeqFull
<1>9. 1 + 1 = 2 /\ 2 + 1 = 3 /\ 2 + w - 2 = w
  OBVIOUS
<1> QED BY <1>3, <1>4, <1>5, <1>6, <1>7, <1>8, <1>9

-----------------------------------------------------------------------------
(***************************************************************************)
(* Items.                                                                  *)
(***************************************************************************)

Kinds == {"image", "video"}

\* The widths of the fields are the model's.
LEMMA Widths ==
  /\ HashWidth \in Nat \ {0} /\ CountWidth \in Nat \ {0} /\ TimeWidth \in Nat \ {0}
  /\ Base \in Nat \ {0} /\ MaxQuality \in Byte
  /\ \A kind \in Kinds : /\ Kind(kind) \in Byte
                         /\ Width(Kind(kind)) \in Nat \ {0}
                         /\ Width(Kind(kind)) = HashWidth + 1 + IF kind = "image" THEN 0 ELSE TimeWidth
<1>1. /\ HashWidth \in Nat \ {0} /\ CountWidth \in Nat \ {0} /\ TimeWidth \in Nat \ {0}
      /\ Base \in Nat \ {0} /\ Base > 2 /\ MaxQuality \in Byte
  BY CodecAssumption
<1> QED BY <1>1 DEF Kinds, Kind, Width, Byte

\* An item is read from the bytes it was written as.
LEMMA ItemRead ==
  ASSUME NEW kind \in Kinds, NEW item \in Item(kind)
  PROVE  /\ ItemBytes(kind, item) \in Seq(Byte)
         /\ Len(ItemBytes(kind, item)) = Width(Kind(kind))
         /\ ItemAt(ItemBytes(kind, item), Kind(kind)) = item
         /\ item.quality <= MaxQuality
<1> DEFINE h == Bytes(HashWidth, item.hash)
           t == IF kind = "image" THEN << >> ELSE Bytes(TimeWidth, Unsigned(item.time))
           u == ItemBytes(kind, item)
<1>1. /\ item.hash \in Word(HashWidth) /\ item.quality \in 0..MaxQuality
      /\ kind # "image" => item.time \in Time
  BY DEF Item
<1>2. item.quality \in Byte /\ item.quality <= MaxQuality
  BY <1>1, Widths DEF Byte
<1>3. h \in Seq(Byte) /\ Len(h) = HashWidth /\ Number(h) = item.hash
  BY <1>1, Widths, NumberOfBytes
<1>4. kind # "image" =>
        /\ t \in Seq(Byte) /\ Len(t) = TimeWidth
        /\ Signed(Number(t)) = item.time
  <2> SUFFICES ASSUME kind # "image"
               PROVE  /\ t \in Seq(Byte) /\ Len(t) = TimeWidth
                      /\ Signed(Number(t)) = item.time
    OBVIOUS
  <2>1. Unsigned(item.time) \in Word(TimeWidth) /\ Signed(Unsigned(item.time)) = item.time
    BY <1>1, SignedUnsigned
  <2>2. /\ Bytes(TimeWidth, Unsigned(item.time)) \in Seq(Byte)
        /\ Len(Bytes(TimeWidth, Unsigned(item.time))) = TimeWidth
        /\ Number(Bytes(TimeWidth, Unsigned(item.time))) = Unsigned(item.time)
    BY <2>1, Widths, NumberOfBytes
  <2> QED BY <2>1, <2>2
<1>5. t \in Seq(Byte) /\ Len(t) = IF kind = "image" THEN 0 ELSE TimeWidth
  BY <1>4, EmptySeq
<1>6. u = h \o <<item.quality>> \o t
  BY <1>2, OneByte DEF ItemBytes
<1> HIDE DEF h, t, u
<1>7. /\ u \in Seq(Byte) /\ Len(u) = Len(h) + 1 + Len(t)
      /\ SubSeq(u, 1, Len(h)) = h /\ u[Len(h) + 1] = item.quality
      /\ SubSeq(u, Len(h) + 2, Len(u)) = t
  BY <1>2, <1>3, <1>5, <1>6, Between
<1>8. Len(u) = Width(Kind(kind))
  BY <1>3, <1>5, <1>7, Widths
<1>9. ItemAt(u, Kind(kind)) = item
  <2>1. CASE kind = "image"
    <3>1. item = [hash |-> item.hash, quality |-> item.quality]
      BY <2>1 DEF Item
    <3>2. ItemAt(u, Kind(kind)) =
            [hash |-> Number(SubSeq(u, 1, HashWidth)), quality |-> u[HashWidth + 1]]
      BY <2>1 DEF ItemAt, Kind
    <3> QED BY <1>3, <1>7, <3>1, <3>2
  <2>2. CASE kind # "image"
    <3>1. item = [hash |-> item.hash, quality |-> item.quality, time |-> item.time]
      BY <2>2 DEF Item
    <3>2. ItemAt(u, Kind(kind)) =
            [hash |-> Number(SubSeq(u, 1, HashWidth)), quality |-> u[HashWidth + 1],
             time |-> Signed(Number(SubSeq(u, HashWidth + 2, Len(u))))]
      BY <2>2 DEF ItemAt, Kind
    <3>3. /\ Number(SubSeq(u, 1, HashWidth)) = item.hash /\ u[HashWidth + 1] = item.quality
          /\ Signed(Number(SubSeq(u, HashWidth + 2, Len(u)))) = item.time
      BY <1>3, <1>4, <1>7, <2>2
    <3> QED BY <3>1, <3>2, <3>3
  <2> QED BY <2>1, <2>2
<1> QED BY <1>2, <1>7, <1>8, <1>9 DEF u

\* Bytes are the ones that the item read from them is written as.
LEMMA ItemWritten ==
  ASSUME NEW kind \in Kinds, NEW u \in Seq(Byte), Len(u) = Width(Kind(kind))
  PROVE  ItemBytes(kind, ItemAt(u, Kind(kind))) = u
<1> DEFINE h == SubSeq(u, 1, HashWidth)
           t == SubSeq(u, HashWidth + 2, Len(u))
           item == ItemAt(u, Kind(kind))
<1>1. /\ HashWidth \in Nat \ {0} /\ TimeWidth \in Nat \ {0}
      /\ Len(u) = HashWidth + 1 + IF kind = "image" THEN 0 ELSE TimeWidth
  BY Widths
<1>2. /\ h \in Seq(Byte) /\ Len(h) = HashWidth
      /\ t \in Seq(Byte) /\ Len(t) = IF kind = "image" THEN 0 ELSE TimeWidth
  <2>1. 0 \in 0..Len(u) /\ HashWidth \in 0..Len(u)
    BY <1>1
  <2>2. SubSeq(u, 0 + 1, HashWidth) \in Seq(Byte) /\ Len(SubSeq(u, 0 + 1, HashWidth)) = HashWidth - 0
    BY <2>1, CutAt
  <2>3. HashWidth + 1 \in 0..Len(u) /\ Len(u) \in HashWidth + 1..Len(u)
    BY <1>1
  <2>4. /\ SubSeq(u, HashWidth + 1 + 1, Len(u)) \in Seq(Byte)
        /\ Len(SubSeq(u, HashWidth + 1 + 1, Len(u))) = Len(u) - (HashWidth + 1)
    BY <2>3, CutAt
  <2>5. /\ 0 + 1 = 1 /\ HashWidth - 0 = HashWidth /\ HashWidth + 1 + 1 = HashWidth + 2
        /\ Len(u) - (HashWidth + 1) = IF kind = "image" THEN 0 ELSE TimeWidth
    BY <1>1
  <2> QED BY <2>2, <2>4, <2>5
<1>3. u[HashWidth + 1] \in Byte
  <2>1. HashWidth + 1 \in 1..Len(u)
    BY <1>1
  <2> QED BY <2>1, ElementOfSeq
<1>4. h \o <<u[HashWidth + 1]>> \o t = u
  <2>1. HashWidth < Len(u) /\ HashWidth \in Nat
    BY <1>1
  <2> QED BY <2>1, CutBetween
<1>5. /\ item.hash = Number(h) /\ item.quality = u[HashWidth + 1]
      /\ kind # "image" => item.time = Signed(Number(t))
  BY DEF ItemAt, Kind
<1> HIDE DEF h, t, item
<1>6. Bytes(HashWidth, item.hash) = h
  BY <1>2, <1>5, BytesOfNumber
<1>7. Bytes(1, item.quality) = <<u[HashWidth + 1]>>
  BY <1>3, <1>5, OneByte
<1>8. (IF kind = "image" THEN << >> ELSE Bytes(TimeWidth, Unsigned(item.time))) = t
  <2>1. CASE kind = "image"
    BY <1>2, <2>1, EmptySeq
  <2>2. CASE kind # "image"
    <3>1. Number(t) \in Word(TimeWidth) /\ Bytes(TimeWidth, Number(t)) = t
      BY <1>2, <2>2, BytesOfNumber
    <3>2. Unsigned(Signed(Number(t))) = Number(t)
      BY <3>1, SignedUnsigned
    <3> QED BY <1>5, <2>2, <3>1, <3>2
  <2> QED BY <2>1, <2>2
<1>9. ItemBytes(kind, item) = u
  BY <1>4, <1>6, <1>7, <1>8 DEF ItemBytes
<1> QED BY <1>9 DEF item

-----------------------------------------------------------------------------
(***************************************************************************)
(* Fingerprints.                                                           *)
(***************************************************************************)

\* What is accepted: the kind, the count and the length fit each other.
LEMMA Multiple ==
  ASSUME NEW w \in Nat \ {0}, NEW n \in Nat, NEW k \in Nat
  PROVE  Fits(n, w, k) <=> k = n * w
<1>1. k \div w \in Nat /\ k % w \in 0..w - 1 /\ k = w * (k \div w) + (k % w)
  BY Division
<1>2. w * n + 0 \in Nat /\ (w * n + 0) \div w = n /\ (w * n + 0) % w = 0
  <2>1. 0 \in 0..w - 1
    OBVIOUS
  <2> QED BY <2>1, DivisionUnique
<1>3. n * w = w * n + 0 /\ n * w \in Nat
  OBVIOUS
<1>4. ASSUME k = n * w PROVE Fits(n, w, k)
  BY <1>2, <1>3, <1>4 DEF Fits
<1>5. ASSUME Fits(n, w, k) PROVE k = n * w
  <2>1. n = k \div w /\ k % w = 0
    BY <1>5 DEF Fits
  <2>2. k = w * n + 0
    BY <1>1, <2>1
  <2> QED BY <1>3, <2>2
<1> QED BY <1>4, <1>5

\* The parts of a payload that follow the header.
Count(p)      == Number(SubSeq(p, 3, HeaderWidth))
BodyOf(p)     == SubSeq(p, HeaderWidth + 1, Len(p))
ItemsOf(p)    == Items(BodyOf(p), p[2], Count(p))
Accepted(p)   == /\ CountValid(p[2], Count(p)) /\ Fits(Count(p), Width(p[2]), Len(BodyOf(p)))
                 /\ \A n \in 1..Count(p) : ~(ItemsOf(p)[n].quality > MaxQuality)

\* deserialize_fingerprint in terms of them.
LEMMA DeserializedParts ==
  ASSUME sum = payload, ~(Len(payload) < HeaderWidth), payload[1] = Magic
  PROVE  Deserialized =
           IF Accepted(payload)
             THEN [kind |-> IF payload[2] = 1 THEN "image" ELSE "video", items |-> ItemsOf(payload)]
             ELSE Refused
<1>1. DOMAIN ItemsOf(payload) = 1..Count(payload)
  BY DEF ItemsOf, Items
<1>2. Deserialized =
        IF ~(CountValid(payload[2], Count(payload))
               /\ Fits(Count(payload), Width(payload[2]), Len(BodyOf(payload)))) THEN Refused
        ELSE IF \E n \in DOMAIN ItemsOf(payload) : ItemsOf(payload)[n].quality > MaxQuality THEN Refused
        ELSE [kind |-> IF payload[2] = 1 THEN "image" ELSE "video", items |-> ItemsOf(payload)]
  BY Zenon DEF Deserialized, Count, BodyOf, ItemsOf
<1> QED BY <1>1, <1>2, Zenon DEF Accepted

\* The bytes of a fingerprint, in their parts.
LEMMA SerializedParts ==
  ASSUME NEW f \in Fingerprint, NEW p, p = Serialized(f)
  PROVE  /\ f.kind \in Kinds /\ f.items \in Seq(Item(f.kind))
         /\ f = [kind |-> f.kind, items |-> f.items]
         /\ p \in Seq(Byte) /\ ~(Len(p) < HeaderWidth)
         /\ p[1] = Magic /\ p[2] = Kind(f.kind) /\ Count(p) = Len(f.items)
         /\ Len(BodyOf(p)) = Len(f.items) * Width(Kind(f.kind))
         /\ ItemsOf(p) = f.items
<1> DEFINE n == Len(f.items)
           w == Width(Kind(f.kind))
           seqs == [m \in DOMAIN f.items |-> ItemBytes(f.kind, f.items[m])]
           c == Bytes(CountWidth, n)
           d == FlattenSeq(seqs)
<1>1. /\ f.kind \in Kinds /\ f.items \in Seq(Item(f.kind))
      /\ f = [kind |-> f.kind, items |-> f.items]
  <2>1. \/ f \in [kind : {"image"}, items : Seq(Item("image"))]
        \/ f \in [kind : {"video"}, items : Seq(Item("video"))]
    BY CodecAssumption
  <2> QED BY <2>1 DEF Kinds
<1>2. /\ n \in Nat /\ DOMAIN f.items = 1..n /\ n \in Word(CountWidth)
      /\ f.items = [m \in 1..n |-> f.items[m]]
      /\ \A m \in 1..n : f.items[m] \in Item(f.kind)
  <2>1. n \in Word(CountWidth)
    BY CodecAssumption
  <2> QED BY <1>1, <2>1, LenProperties, ElementOfSeq
<1>3. w \in Nat \ {0} /\ Kind(f.kind) \in Byte
  BY <1>1, Widths
<1>4. \A m \in 1..n : /\ seqs[m] = ItemBytes(f.kind, f.items[m])
                      /\ seqs[m] \in Seq(Byte) /\ Len(seqs[m]) = w
                      /\ ItemAt(seqs[m], Kind(f.kind)) = f.items[m]
  BY <1>1, <1>2, ItemRead
<1>5. seqs \in [1..n -> Seq(Byte)]
  BY <1>2, <1>4
<1>6. c \in Seq(Byte) /\ Len(c) = CountWidth /\ Number(c) = n
  BY <1>2, Widths, NumberOfBytes
<1>7. p = <<Magic>> \o <<Kind(f.kind)>> \o c \o d
  BY <1>3, OneByte DEF Serialized
<1> HIDE DEF n, w, seqs
<1>8. /\ d \in Seq(Byte) /\ Len(d) = n * w
      /\ \A m \in 1..n : SubSeq(d, (m - 1) * w + 1, m * w) = seqs[m]
  <2>1. n \in Nat /\ w \in Nat \ {0} /\ seqs \in [1..n -> Seq(Byte)]
    BY <1>2, <1>3, <1>5
  <2>2. \A m \in 1..n : Len(seqs[m]) = w
    BY <1>4
  <2>3. /\ FlattenSeq(seqs) \in Seq(Byte) /\ Len(FlattenSeq(seqs)) = n * w
        /\ \A m \in 1..n : SubSeq(FlattenSeq(seqs), (m - 1) * w + 1, m * w) = seqs[m]
    BY <2>1, <2>2, FlattenPieces
  <2> QED BY <2>3
<1>9. Magic \in Byte
  BY Widths DEF Magic, Byte
<1> HIDE DEF c, d
<1>10. /\ p \in Seq(Byte) /\ Len(p) = 2 + Len(c) + Len(d)
       /\ p[1] = Magic /\ p[2] = Kind(f.kind)
       /\ SubSeq(p, 3, 2 + Len(c)) = c
       /\ SubSeq(p, 2 + Len(c) + 1, Len(p)) = d
  <2>1. Magic \in Byte /\ Kind(f.kind) \in Byte /\ c \in Seq(Byte) /\ d \in Seq(Byte)
    BY <1>3, <1>6, <1>8, <1>9
  <2>2. PICK m, k : m = Magic /\ k = Kind(f.kind)
    OBVIOUS
  <2>3. m \in Byte /\ k \in Byte /\ p = <<m>> \o <<k>> \o c \o d
    BY <1>7, <2>1, <2>2
  <2>4. /\ p \in Seq(Byte) /\ Len(p) = 2 + Len(c) + Len(d)
        /\ p[1] = m /\ p[2] = k
        /\ SubSeq(p, 3, 2 + Len(c)) = c
        /\ SubSeq(p, 2 + Len(c) + 1, Len(p)) = d
    BY <2>1, <2>3, HeaderParts
  <2> QED BY <2>2, <2>4
<1>11. HeaderWidth = 2 + CountWidth /\ CountWidth \in Nat /\ Len(d) \in Nat
  BY <1>8, Widths, LenProperties DEF HeaderWidth
<1>12. Count(p) = n /\ BodyOf(p) = d /\ ~(Len(p) < HeaderWidth)
  <2>1. 2 + Len(c) = HeaderWidth
    BY <1>6, <1>11
  <2>2. SubSeq(p, 3, HeaderWidth) = c /\ SubSeq(p, HeaderWidth + 1, Len(p)) = d
    BY <1>10, <2>1
  <2>3. Len(p) = HeaderWidth + Len(d) /\ HeaderWidth \in Nat
    <3>1. Len(p) = 2 + Len(c) + Len(d)
      BY <1>10
    <3>2. HeaderWidth \in Nat
      BY <1>11
    <3> QED BY <2>1, <3>1, <3>2
  <2>4. ~(Len(p) < HeaderWidth)
    BY <1>11, <2>3
  <2> QED BY <1>6, <2>2, <2>4 DEF Count, BodyOf
<1>13. ItemsOf(p) = f.items
  <2>1. ItemsOf(p) = [m \in 1..n |-> ItemAt(SubSeq(d, (m - 1) * w + 1, m * w), Kind(f.kind))]
    BY <1>10, <1>12 DEF ItemsOf, Items, w
  <2>2. \A m \in 1..n : ItemAt(SubSeq(d, (m - 1) * w + 1, m * w), Kind(f.kind)) = f.items[m]
    BY <1>4, <1>8
  <2> QED BY <1>2, <2>1, <2>2
<1> QED BY <1>1, <1>8, <1>10, <1>12, <1>13 DEF n, w

\* A fingerprint is read from its own bytes, within the budget.
LEMMA ReadBack ==
  ASSUME NEW f \in Fingerprint, Valid(f), budget \in Nat,
         payload = Serialized(f), sum = payload
  PROVE  Deserialized = IF f.kind = "video" /\ Len(f.items) > budget THEN Refused ELSE f
<1>1. /\ f.kind \in Kinds /\ f.items \in Seq(Item(f.kind))
      /\ f = [kind |-> f.kind, items |-> f.items]
      /\ ~(Len(payload) < HeaderWidth)
      /\ payload[1] = Magic /\ payload[2] = Kind(f.kind) /\ Count(payload) = Len(f.items)
      /\ Len(BodyOf(payload)) = Len(f.items) * Width(Kind(f.kind))
      /\ ItemsOf(payload) = f.items
  BY SerializedParts
<1>2. Len(f.items) \in Nat /\ Width(Kind(f.kind)) \in Nat \ {0}
  BY <1>1, Widths, LenProperties
<1>3. Fits(Count(payload), Width(payload[2]), Len(BodyOf(payload)))
  <2>1. Len(f.items) * Width(Kind(f.kind)) \in Nat
    BY <1>2
  <2> QED BY <1>1, <1>2, <2>1, Multiple
<1>4. \A n \in 1..Count(payload) : ~(ItemsOf(payload)[n].quality > MaxQuality)
  <2>1. ASSUME NEW n \in 1..Len(f.items) PROVE ~(f.items[n].quality > MaxQuality)
    <3>1. f.items[n] \in Item(f.kind)
      BY <1>1, ElementOfSeq
    <3>2. \A kind, item : item \in Item(kind) => item.quality \in 0..MaxQuality
      BY DEF Item
    <3>3. f.items[n].quality \in 0..MaxQuality
      BY <3>1, <3>2
    <3>4. MaxQuality \in Nat
      BY Widths DEF Byte
    <3> QED BY <3>3, <3>4
  <2> QED BY <1>1, <2>1
<1>5. CountValid(payload[2], Count(payload)) <=> ~(f.kind = "video" /\ Len(f.items) > budget)
  <2>1. CASE f.kind = "image"
    BY <1>1, <2>1 DEF CountValid, Kind, Valid
  <2>2. CASE f.kind = "video"
    BY <1>1, <1>2, <2>2 DEF CountValid, Kind
  <2> QED BY <1>1, <2>1, <2>2 DEF Kinds
<1>6. Accepted(payload) <=> ~(f.kind = "video" /\ Len(f.items) > budget)
  BY <1>3, <1>4, <1>5 DEF Accepted
<1>7. f = [kind |-> IF payload[2] = 1 THEN "image" ELSE "video", items |-> ItemsOf(payload)]
  BY <1>1 DEF Kind, Kinds
<1> QED BY <1>1, <1>6, <1>7, DeserializedParts

\* Accepted bytes are the ones that their fingerprint is written as.
LEMMA WrittenBack ==
  ASSUME payload \in Seq(Byte), budget \in Nat, Deserialized # Refused
  PROVE  Valid(Deserialized) /\ Serialized(Deserialized) = payload
<1>1. sum = payload /\ ~(Len(payload) < HeaderWidth) /\ payload[1] = Magic
  BY Zenon DEF Deserialized
<1>2. /\ Accepted(payload)
      /\ Deserialized = [kind  |-> IF payload[2] = 1 THEN "image" ELSE "video",
                         items |-> ItemsOf(payload)]
  BY <1>1, DeserializedParts
<1>3. PICK kind \in Kinds : payload[2] = Kind(kind) /\ kind = IF payload[2] = 1 THEN "image" ELSE "video"
  <2>1. payload[2] = 1 \/ payload[2] = 2
    BY <1>2 DEF Accepted, CountValid
  <2> QED BY <2>1 DEF Kinds, Kind
<1> DEFINE n == Count(payload)
           w == Width(Kind(kind))
           c == SubSeq(payload, 3, HeaderWidth)
           d == BodyOf(payload)
           it == Deserialized
           cuts == [m \in 1..n |-> SubSeq(d, (m - 1) * w + 1, m * w)]
<1>4. HeaderWidth = 2 + CountWidth /\ CountWidth \in Nat /\ w \in Nat \ {0} /\ Len(payload) \in Nat
  BY Widths, LenProperties DEF HeaderWidth
<1>5. /\ c \in Seq(Byte) /\ Len(c) = CountWidth /\ d \in Seq(Byte)
      /\ <<payload[1]>> \o <<payload[2]>> \o c \o d = payload
      /\ payload[2] \in Byte
  <2>1. 2 + CountWidth <= Len(payload)
    BY <1>1, <1>4
  <2> QED BY <1>4, <2>1, HeaderCut DEF BodyOf
<1>6. n \in Word(CountWidth) /\ Bytes(CountWidth, n) = c /\ n \in Nat
  <2>1. Number(c) \in Word(CountWidth) /\ Bytes(CountWidth, Number(c)) = c
    BY <1>5, BytesOfNumber
  <2> QED BY <2>1 DEF Count, Word
<1>7. Len(d) \in Nat /\ Len(d) = n * w
  <2>1. Len(d) \in Nat
    BY <1>5, LenProperties
  <2>2. Fits(n, w, Len(d))
    BY <1>2, <1>3 DEF Accepted
  <2> QED BY <1>4, <1>6, <2>1, <2>2, Multiple
<1>8. /\ it.kind = kind /\ it.items = [m \in 1..n |-> ItemAt(cuts[m], Kind(kind))]
      /\ DOMAIN it.items = 1..n /\ Len(it.items) = n
  <2>1. it.kind = kind /\ it.items = ItemsOf(payload)
    BY <1>2, <1>3
  <2>2. ItemsOf(payload) = [m \in 1..n |-> ItemAt(SubSeq(d, (m - 1) * w + 1, m * w), Kind(kind))]
    BY <1>3 DEF ItemsOf, Items
  <2>3. it.items = [m \in 1..n |-> ItemAt(cuts[m], Kind(kind))]
    BY <2>1, <2>2
  <2> HIDE DEF it, n, cuts
  <2> QED BY <1>6, <2>1, <2>3
<1> HIDE DEF it, n, w, c, d
<1>9. \A m \in 1..n : ItemBytes(kind, it.items[m]) = cuts[m]
  <2> SUFFICES ASSUME NEW m \in 1..n PROVE ItemBytes(kind, it.items[m]) = cuts[m]
    OBVIOUS
  <2>1. /\ (m - 1) * w \in Nat /\ m * w \in Nat
        /\ m * w = (m - 1) * w + w /\ m * w <= n * w
    BY <1>4, <1>6, PieceWithin
  <2>2. PICK x, y : x = (m - 1) * w /\ y = m * w
    OBVIOUS
  <2>3. x \in 0..Len(d) /\ y \in x..Len(d) /\ y - x = w
    BY <1>4, <1>7, <2>1, <2>2
  <2>4. SubSeq(d, x + 1, y) \in Seq(Byte) /\ Len(SubSeq(d, x + 1, y)) = w
    BY <1>5, <2>3, CutAt
  <2>5. cuts[m] \in Seq(Byte) /\ Len(cuts[m]) = w
    BY <2>2, <2>4
  <2> HIDE DEF cuts
  <2>6. ItemBytes(kind, ItemAt(cuts[m], Kind(kind))) = cuts[m]
    BY <2>5, ItemWritten DEF w
  <2> QED BY <1>8, <2>6
<1>10. [m \in DOMAIN it.items |-> ItemBytes(it.kind, it.items[m])] = cuts
  <2>1. cuts = [m \in 1..n |-> cuts[m]]
    OBVIOUS
  <2> HIDE DEF cuts
  <2> QED BY <1>8, <1>9, <2>1
<1>11. FlattenSeq(cuts) = d
  BY <1>4, <1>5, <1>6, <1>7, FlattenCuts
<1>12. Serialized(it) = payload
  <2>1. Bytes(1, Kind(kind)) = <<payload[2]>>
    BY <1>3, <1>5, OneByte
  <2> HIDE DEF cuts
  <2>2. Serialized(it) = <<Magic>> \o <<payload[2]>> \o c \o d
    BY <1>6, <1>8, <1>10, <1>11, <2>1 DEF Serialized
  <2> QED BY <1>1, <1>5, <2>2
<1>13. Valid(it)
  <2>1. kind = "image" => n \in 1..MaxVariants
    BY <1>2, <1>3 DEF Accepted, CountValid, Kind, n
  <2> QED BY <1>8, <2>1 DEF Valid
<1> QED BY <1>12, <1>13 DEF it

-----------------------------------------------------------------------------
(***************************************************************************)
(* The key of the settings.                                                *)
(***************************************************************************)

\* Decoding options with the same words are the same.
LEMMA OptionsFromWords ==
  ASSUME NEW o \in OptionsType, NEW p \in OptionsType,
         OptionWords(o) = OptionWords(p)
  PROVE  o = p
<1>1. /\ o.dimension = p.dimension /\ o.pixels = p.pixels
      /\ o.background = p.background
      /\ o.exposure = p.exposure /\ o.peak = p.peak
  BY DEF OptionWords
<1> QED BY <1>1 DEF OptionsType

\* A pruning distance of zero and none are written differently.
LEMMA PruneFromWords ==
  ASSUME NEW x \in Nat \cup {None}, NEW y \in Nat \cup {None},
         PruneWords(x) = PruneWords(y)
  PROVE  x = y
<1>1. CASE x = None
  BY <1>1 DEF PruneWords
<1>2. CASE x # None
  BY <1>2 DEF PruneWords
<1> QED BY <1>1, <1>2

\* The words of fingerprint_settings_key determine the settings.
THEOREM KeyInjective ==
  ASSUME NEW s \in SettingsType, NEW t \in SettingsType, Key(s) = Key(t)
  PROVE  s = t
<1>1. /\ s.kinds = t.kinds /\ s.target = t.target /\ s.transforms = t.transforms
      /\ s.interval = t.interval /\ s.maxFrames = t.maxFrames
  BY DEF Key
<1>2. s.image = t.image
  <2>1. OptionWords(s.image) = OptionWords(t.image)
    BY DEF Key
  <2> QED BY <2>1, OptionsFromWords DEF SettingsType
<1>3. s.video = t.video
  <2>1. OptionWords(s.video) = OptionWords(t.video)
    BY DEF Key
  <2> QED BY <2>1, OptionsFromWords DEF SettingsType
<1>4. s.prune = t.prune
  <2>1. PruneWords(s.prune) = PruneWords(t.prune)
    BY DEF Key
  <2> QED BY <2>1, PruneFromWords DEF SettingsType
<1> QED BY <1>1, <1>2, <1>3, <1>4 DEF SettingsType

-----------------------------------------------------------------------------
(***************************************************************************)
(* The invariant.                                                          *)
(***************************************************************************)

\* A fingerprint that was stored has its own checksum beside it, whatever has
\* become of its bytes.
Stored ==
  /\ fingerprint \in Fingerprint \cup {None} /\ budget \in Nat
  /\ payload \in Seq(Byte)
  /\ pc \in {"start", "stored", "received", "damaged", "read", "keys", "invalid"}
  /\ fingerprint = None => pc \notin {"stored", "damaged"}
  /\ fingerprint # None /\ pc \in {"stored", "damaged", "read"} =>
       Valid(fingerprint) /\ sum = Serialized(fingerprint)
  /\ fingerprint # None => pc # "received"

\* What was read is what these bytes are read as.
Read == pc = "read" => result = Deserialized

\* Where the keys of two settings are compared, both are settings of the run.
Compared == pc = "keys" => settings \in Settings \X Settings

CodecInv == Stored /\ Read /\ Compared

\* It holds of every state.
THEOREM CodecInductive == Spec => []CodecInv
<1>1. Init => CodecInv
  <2> SUFFICES ASSUME Init PROVE CodecInv
    OBVIOUS
  <2>1. budget \in Nat /\ payload \in Seq(Byte)
    BY CodecAssumption, EmptySeq DEF Init
  <2> QED BY <2>1 DEF Init, CodecInv, Stored, Read, Compared
<1>2. CodecInv /\ [Next]_vars => CodecInv'
  <2> SUFFICES ASSUME CodecInv, [Next]_vars PROVE CodecInv'
    OBVIOUS
  <2> USE DEF CodecInv
  <2>1. CASE Serialize
    <3>1. CASE Valid(fingerprint)
      <4>1. /\ fingerprint \in Fingerprint /\ payload' = Serialized(fingerprint)
            /\ sum' = payload' /\ pc' = "stored"
            /\ fingerprint' = fingerprint /\ budget' = budget
        BY <2>1, <3>1 DEF Serialize, Stored
      <4>2. payload' \in Seq(Byte)
        BY <4>1, SerializedParts
      <4>3. Stored'
        BY <2>1, <3>1, <4>1, <4>2 DEF Stored, Serialize, Valid, Serialized
      <4> QED BY <4>1, <4>3 DEF Read, Compared
    <3>2. CASE ~Valid(fingerprint)
      BY <2>1, <3>2 DEF Serialize, Stored, Read, Compared
    <3> QED BY <3>1, <3>2
  <2>2. CASE Receive
    <3>1. payload' \in Seq(Byte)
      BY <2>2, CodecAssumption DEF Receive
    <3> QED BY <2>2, <3>1 DEF Receive, Stored, Read, Compared
  <2>3. CASE Damage
    <3>1. payload' \in Seq(Byte)
      <4>1. ASSUME NEW n \in 0..Len(payload) - 1 PROVE SubSeq(payload, 1, n) \in Seq(Byte)
        <5>1. 0 \in 0..Len(payload) /\ n \in 0..Len(payload) /\ 0 + 1 = 1
          BY LenProperties DEF Stored
        <5>2. SubSeq(payload, 0 + 1, n) \in Seq(Byte)
          BY <5>1, CutAt DEF Stored
        <5> QED BY <5>1, <5>2
      <4>2. ASSUME NEW n \in DOMAIN payload
            PROVE  [payload EXCEPT ![n] = (@ + 1) % Base] \in Seq(Byte)
        <5>1. payload \in Seq(Byte) /\ n \in 1..Len(payload) /\ Base \in Nat \ {0}
          BY Widths, LenProperties DEF Stored
        <5>2. payload[n] \in Byte
          BY <5>1, ElementOfSeq
        <5>3. (payload[n] + 1) % Base \in Byte
          BY <5>1, <5>2 DEF Byte
        <5> QED BY <5>1, <5>3, ExceptSeq
      <4> QED BY <2>3, <4>1, <4>2 DEF Damage
    <3> QED BY <2>3, <3>1 DEF Damage, Stored, Read, Compared, Valid, Serialized
  <2>4. CASE Deserialize
    <3>1. Stored'
      BY <2>4 DEF Deserialize, Stored, Valid, Serialized
    <3>2. Read'
      BY <2>4, Zenon DEF Deserialize, Read, Deserialized, CountValid, Count
    <3> QED BY <2>4, <3>1, <3>2 DEF Deserialize, Compared
  <2>5. CASE Choose
    BY <2>5 DEF Choose, Stored, Read, Compared
  <2>6. CASE UNCHANGED vars
    <3>1. Stored'
      BY <2>6 DEF vars, Stored
    <3>2. Read'
      BY <2>6 DEF vars, Read, Deserialized, CountValid
    <3> QED BY <2>6, <3>1, <3>2 DEF vars, Compared
  <2> QED BY <2>1, <2>2, <2>3, <2>4, <2>5, <2>6 DEF Next
<1> QED BY <1>1, <1>2, PTL DEF Spec

\* A stored fingerprint that was not damaged comes back as it was, or is refused
\* for the budget; a damaged one is refused; and whatever bytes are accepted, they
\* are the ones that their fingerprint is written as.
THEOREM RoundTrip == Spec => []CodecExact
<1>1. CodecInv => CodecExact
  <2> SUFFICES ASSUME CodecInv, pc = "read"
               PROVE  /\ fingerprint # None /\ sum = payload =>
                           result = IF fingerprint.kind = "video" /\ Len(fingerprint.items) > budget
                                      THEN Refused ELSE fingerprint
                      /\ sum # payload => result = Refused
                      /\ result # Refused => Valid(result) /\ Serialized(result) = payload
    BY DEF CodecExact
  <2>1. result = Deserialized /\ payload \in Seq(Byte) /\ budget \in Nat
    BY DEF CodecInv, Read, Stored
  <2>2. ASSUME fingerprint # None, sum = payload
        PROVE  Deserialized = IF fingerprint.kind = "video" /\ Len(fingerprint.items) > budget
                                THEN Refused ELSE fingerprint
    <3>1. fingerprint \in Fingerprint /\ Valid(fingerprint) /\ payload = Serialized(fingerprint)
      BY <2>2 DEF CodecInv, Stored
    <3> QED BY <2>1, <2>2, <3>1, ReadBack
  <2>3. sum # payload => Deserialized = Refused
    BY Zenon DEF Deserialized
  <2>4. Deserialized # Refused => Valid(Deserialized) /\ Serialized(Deserialized) = payload
    BY <2>1, WrittenBack
  <2> QED BY <2>1, <2>2, <2>3, <2>4
<1> QED BY CodecInductive, <1>1, PTL

\* Different settings never share an entry of the cache.
THEOREM DistinctSettings == Spec => []SettingsDistinct
<1>1. CodecInv => SettingsDistinct
  <2> SUFFICES ASSUME Compared, pc = "keys", Key(settings[1]) = Key(settings[2])
               PROVE  settings[1] = settings[2]
    BY DEF CodecInv, SettingsDistinct
  <2>1. settings[1] \in SettingsType /\ settings[2] \in SettingsType
    BY CodecAssumption DEF Compared
  <2> QED BY <2>1, KeyInjective
<1> QED BY CodecInductive, <1>1, PTL

-----------------------------------------------------------------------------
(***************************************************************************)
(* Lists in order.                                                         *)
(***************************************************************************)

\* The pairs of a strict total order.
StrictOrder(S, R) ==
  /\ \A x \in S : <<x, x>> \notin R
  /\ \A x, y, z \in S : <<x, y>> \in R /\ <<y, z>> \in R => <<x, z>> \in R
  /\ \A x, y \in S : x = y \/ <<x, y>> \in R \/ <<y, x>> \in R

\* A list of as many elements of a set as it has, in order.
InOrder(list, S, R) ==
  /\ list \in [1..Cardinality(S) -> S]
  /\ \A i, j \in 1..Cardinality(S) : i < j => <<list[i], list[j]>> \in R

\* A finite set can be put in order.
LEMMA Sortable ==
  ASSUME NEW S, IsFiniteSet(S), NEW R,
         StrictOrder(S, R)
  PROVE  \E list : InOrder(list, S, R)
<1> DEFINE n == Cardinality(S)
           Below(x) == {y \in S : <<y, x>> \in R}
           rank == [x \in S |-> Cardinality(Below(x)) + 1]
<1>1. n \in Nat
  BY FS_CardinalityType
<1>2. ASSUME NEW x \in S
      PROVE  /\ IsFiniteSet(Below(x)) /\ Cardinality(Below(x)) \in Nat
             /\ Cardinality(Below(x)) < n
  <2>1. IsFiniteSet(S \ {x}) /\ Cardinality(S \ {x}) = n - 1
    BY FS_RemoveElement
  <2>2. Below(x) \in SUBSET (S \ {x})
    BY DEF StrictOrder
  <2> HIDE DEF Below
  <2>3. IsFiniteSet(Below(x)) /\ Cardinality(Below(x)) <= n - 1
    BY <2>1, <2>2, FS_Subset
  <2> QED BY <1>1, <2>3, FS_CardinalityType
<1>3. ASSUME NEW x \in S, NEW y \in S, <<x, y>> \in R
      PROVE  rank[x] < rank[y]
  <2>1. Below(x) \in SUBSET Below(y) /\ Below(x) # Below(y)
    BY <1>3 DEF StrictOrder
  <2> HIDE DEF Below
  <2>2. Cardinality(Below(x)) <= Cardinality(Below(y)) /\ Cardinality(Below(x)) # Cardinality(Below(y))
    <3>1. IsFiniteSet(Below(y))
      BY <1>2
    <3>2. /\ Cardinality(Below(x)) <= Cardinality(Below(y))
          /\ Cardinality(Below(y)) = Cardinality(Below(x)) => Below(y) = Below(x)
      BY <2>1, <3>1, FS_Subset
    <3> QED BY <2>1, <3>2
  <2> QED BY <1>2, <2>2
<1>4. rank \in [S -> 1..n]
  <2> HIDE DEF Below
  <2>1. ASSUME NEW x \in S PROVE Cardinality(Below(x)) + 1 \in 1..n
    BY <1>1, <1>2
  <2> QED BY <2>1
<1> HIDE DEF rank, Below
<1>5. \A x, y \in S : rank[x] = rank[y] => x = y
  <2>1. \A x \in S : rank[x] \in Nat
    BY <1>1, <1>4
  <2> SUFFICES ASSUME NEW x \in S, NEW y \in S, rank[x] = rank[y], x # y PROVE FALSE
    OBVIOUS
  <2>2. CASE <<x, y>> \in R
    BY <1>3, <2>1, <2>2
  <2>3. CASE <<y, x>> \in R
    BY <1>3, <2>1, <2>3
  <2> QED BY <2>2, <2>3 DEF StrictOrder
<1>6. IsFiniteSet(1..n) /\ Cardinality(1..n) = n
  BY <1>1, FS_Interval
<1>7. rank \in Injection(S, 1..n)
  BY <1>4, <1>5, Fun_IsInj
<1>8. rank \in Surjection(S, 1..n)
  BY <1>6, <1>7, FS_Injection
<1>9. \A i \in 1..n : \E x \in S : rank[x] = i
  BY <1>8, Fun_SurjectionProperties
<1> DEFINE list == [i \in 1..n |-> CHOOSE x \in S : rank[x] = i]
<1>10. \A i \in 1..n : list[i] \in S /\ rank[list[i]] = i
  BY <1>9
<1>11. list \in [1..n -> S]
  BY <1>10
<1> HIDE DEF list
<1>12. ASSUME NEW i \in 1..n, NEW j \in 1..n, i < j
       PROVE  <<list[i], list[j]>> \in R
  <2>1. list[i] \in S /\ list[j] \in S /\ rank[list[i]] = i /\ rank[list[j]] = j
    BY <1>10
  <2>2. ~ (<<list[j], list[i]>> \in R) /\ list[i] # list[j]
    BY <1>1, <1>3, <1>12, <2>1
  <2> QED BY <2>1, <2>2 DEF StrictOrder
<1> QED BY <1>11, <1>12 DEF InOrder

\* In order, a list of as many elements as the set has them all, each once.
LEMMA SortedAll ==
  ASSUME NEW S, IsFiniteSet(S), NEW R,
         StrictOrder(S, R), NEW list, InOrder(list, S, R)
  PROVE  /\ Cardinality(S) \in Nat
         /\ \A i, j \in 1..Cardinality(S) : list[i] = list[j] => i = j
         /\ \A x \in S : \E i \in 1..Cardinality(S) : list[i] = x
<1> DEFINE n == Cardinality(S)
<1>1. n \in Nat
  BY FS_CardinalityType
<1>2. \A i, j \in 1..n : list[i] = list[j] => i = j
  <2>1. \A i, j \in 1..n : i < j \/ j < i \/ i = j
    BY <1>1
  <2> QED BY <2>1 DEF InOrder, StrictOrder
<1>3. IsFiniteSet(1..n) /\ Cardinality(1..n) = n
  BY <1>1, FS_Interval
<1>4. list \in Injection(1..n, S)
  BY <1>2, Fun_IsInj DEF InOrder
<1>5. list \in Surjection(1..n, S)
  BY <1>3, <1>4, FS_Injection
<1> QED BY <1>1, <1>2, <1>5, Fun_SurjectionProperties

\* There is one such list only.
LEMMA SortedUnique ==
  ASSUME NEW S, IsFiniteSet(S), NEW R,
         StrictOrder(S, R),
         NEW f, InOrder(f, S, R), NEW g, InOrder(g, S, R)
  PROVE  f = g
<1> DEFINE n == Cardinality(S)
           Bad == {i \in 1..n : f[i] # g[i]}
<1> SUFFICES ASSUME Bad # {} PROVE FALSE
  <2>1. ASSUME Bad = {} PROVE f = g
    <3>1. \A i \in 1..n : f[i] = g[i]
      BY <2>1
    <3>2. f \in [1..n -> S] /\ g \in [1..n -> S]
      BY DEF InOrder
    <3>3. f = [i \in 1..n |-> f[i]] /\ g = [i \in 1..n |-> g[i]]
      BY <3>2
    <3>4. [i \in 1..n |-> f[i]] = [i \in 1..n |-> g[i]]
      BY <3>1
    <3> QED BY <3>3, <3>4, Zenon
  <2> QED BY <2>1
<1>1. n \in Nat
  BY FS_CardinalityType
<1>2. Bad \in SUBSET Nat
  BY <1>1
<1>3. PICK i \in Bad : \A j \in Bad : i <= j
  <2> HIDE DEF Bad
  <2> QED BY <1>2, Least
<1>4. i \in 1..n /\ f[i] # g[i] /\ f[i] \in S /\ g[i] \in S
  BY DEF InOrder
<1>5. \A j \in 1..n : j < i => f[j] = g[j]
  BY <1>1, <1>3
<1>6. /\ \A x \in S : \E j \in 1..n : f[j] = x
      /\ \A x \in S : \E j \in 1..n : g[j] = x
      /\ \A j, k \in 1..n : f[j] = f[k] => j = k
      /\ \A j, k \in 1..n : g[j] = g[k] => j = k
  <2>1. /\ \A x \in S : \E j \in 1..n : f[j] = x
        /\ \A j, k \in 1..n : f[j] = f[k] => j = k
    BY SortedAll
  <2>2. /\ \A x \in S : \E j \in 1..n : g[j] = x
        /\ \A j, k \in 1..n : g[j] = g[k] => j = k
    BY SortedAll
  <2> QED BY <2>1, <2>2
<1> HIDE DEF n, Bad
<1>7. CASE <<f[i], g[i]>> \in R
  <2>1. PICK j \in 1..n : g[j] = f[i]
    BY <1>4, <1>6
  <2>2. j < i \/ j = i \/ i < j
    BY <1>1, <1>4
  <2>3. CASE j < i
    BY <1>4, <1>5, <1>6, <2>1, <2>3, <1>1
  <2>4. CASE i < j
    <3>1. <<g[i], f[i]>> \in R
      BY <1>4, <2>1, <2>4 DEF n, InOrder
    <3> QED BY <1>4, <1>7, <3>1 DEF StrictOrder
  <2> QED BY <1>4, <2>1, <2>2, <2>3, <2>4
<1>8. CASE <<g[i], f[i]>> \in R
  <2>1. PICK j \in 1..n : f[j] = g[i]
    BY <1>4, <1>6
  <2>2. j < i \/ j = i \/ i < j
    BY <1>1, <1>4
  <2>3. CASE j < i
    BY <1>4, <1>5, <1>6, <2>1, <2>3, <1>1
  <2>4. CASE i < j
    <3>1. <<f[i], g[i]>> \in R
      BY <1>4, <2>1, <2>4 DEF n, InOrder
    <3> QED BY <1>4, <1>8, <3>1 DEF StrictOrder
  <2> QED BY <1>4, <2>1, <2>2, <2>3, <2>4
<1> QED BY <1>4, <1>7, <1>8 DEF StrictOrder

\* Numbers in ascending order.
LEMMA AscendingIs ==
  ASSUME NEW S \in SUBSET Nat, IsFiniteSet(S)
  PROVE  /\ Cardinality(S) \in Nat
         /\ Ascending(S) \in [1..Cardinality(S) -> S]
         /\ \A i, j \in 1..Cardinality(S) : i < j => Ascending(S)[i] < Ascending(S)[j]
         /\ \A x \in S : \E i \in 1..Cardinality(S) : Ascending(S)[i] = x
<1> DEFINE R == {p \in S \X S : p[1] < p[2]}
<1>1. \A x, y \in S : <<x, y>> \in R <=> x < y
  OBVIOUS
<1> HIDE DEF R
<1>2. StrictOrder(S, R)
  <2>1. S \subseteq Nat
    OBVIOUS
  <2> QED BY <1>1, <2>1 DEF StrictOrder
<1>3. PICK list : InOrder(list, S, R)
  BY <1>2, Sortable
<1>4. \E f \in [1..Cardinality(S) -> S] : \A i, j \in 1..Cardinality(S) : i < j => f[i] < f[j]
  BY <1>1, <1>3 DEF InOrder
<1>5. /\ Ascending(S) \in [1..Cardinality(S) -> S]
      /\ \A i, j \in 1..Cardinality(S) : i < j => Ascending(S)[i] < Ascending(S)[j]
  BY <1>4 DEF Ascending, Ordered
<1>6. InOrder(Ascending(S), S, R)
  BY <1>1, <1>5 DEF InOrder
<1> QED BY <1>2, <1>5, <1>6, SortedAll

-----------------------------------------------------------------------------
(***************************************************************************)
(* Distances.                                                              *)
(***************************************************************************)

\* Slot values differ in so many bits.
LEMMA ChangedBits ==
  ASSUME NEW x \in Value, NEW y \in Value
  PROVE  /\ Cardinality(Changed(x, y)) \in 0..Bits
         /\ Changed(x, y) = Changed(y, x)
         /\ Cardinality(Changed(x, y)) = 0 <=> x = y
<1>1. Changed(x, y) \in Value /\ Changed(x, y) = Changed(y, x) /\ (Changed(x, y) = {} <=> x = y)
  BY DEF Changed, Value
<1>2. IsFiniteSet(0..Bits - 1) /\ Cardinality(0..Bits - 1) = Bits
  BY HashAssumption, FS_Interval
<1>3. IsFiniteSet(Changed(x, y)) /\ Cardinality(Changed(x, y)) <= Bits
  BY <1>1, <1>2, FS_Subset DEF Value
<1> QED BY <1>1, <1>3, HashAssumption, FS_CardinalityType, FS_EmptySet

\* The distance of two hashes is a total over their slots.
LEMMA DistanceSum ==
  ASSUME NEW a \in [Slot -> Value], NEW b \in [Slot -> Value]
  PROVE  \E total \in [0..Slots -> Nat] :
           /\ Distance(a, b) = total[Slots]
           /\ total[0] = 0
           /\ \A s \in Slot : total[s + 1] = total[s] + Cardinality(Changed(a[s], b[s]))
<1> DEFINE bits[s \in 0..Slots] ==
             IF s = 0 THEN 0 ELSE bits[s - 1] + Cardinality(Changed(a[s - 1], b[s - 1]))
           S == [m \in 0..Slots |-> Nat]
           step == [q \in (1..Slots) \X Nat |->
                      q[2] + Cardinality(Changed(a[q[1] - 1], b[q[1] - 1]))]
<1>1. Distance(a, b) = bits[Slots]
  BY Zenon DEF Distance
<1>2. Slots \in Nat \ {0} /\ Slot = 0..Slots - 1
  BY HashAssumption DEF Slot
<1>3. \A s \in Slot : Cardinality(Changed(a[s], b[s])) \in Nat
  BY ChangedBits, HashAssumption
<1>4. ASSUME NEW m \in 1..Slots, NEW x \in Nat
      PROVE  /\ step[<<m, x>>] = x + Cardinality(Changed(a[m - 1], b[m - 1]))
             /\ step[<<m, x>>] \in Nat
  <2>1. m - 1 \in Slot
    BY <1>2
  <2> QED BY <1>3, <2>1
<1>5. \A m \in 0..Slots : S[m] = Nat
  OBVIOUS
<1> HIDE DEF step, S
<1>6. 0 \in S[0] /\ \A m \in 1..Slots : \A x \in S[m - 1] : step[<<m, x>>] \in S[m]
  BY <1>2, <1>4, <1>5
<1>7. PICK g : Recurs(g, 0, step, Slots) /\ \A m \in 0..Slots : g[m] \in S[m]
  BY <1>2, <1>6, Recursion
<1>8. g = [s \in 0..Slots |->
             IF s = 0 THEN 0 ELSE g[s - 1] + Cardinality(Changed(a[s - 1], b[s - 1]))]
  <2>1. \A s \in 0..Slots : s = 0 \/ (s \in 1..Slots /\ s - 1 \in 0..Slots)
    BY <1>2
  <2>2. ASSUME NEW s \in 1..Slots
        PROVE  step[<<s, g[s - 1]>>] = g[s - 1] + Cardinality(Changed(a[s - 1], b[s - 1]))
    <3>1. g[s - 1] \in Nat
      BY <1>2, <1>5, <1>7
    <3> QED BY <1>4, <3>1
  <2> QED BY <1>7, <2>1, <2>2 DEF Recurs
<1>9. bits = [s \in 0..Slots |->
                IF s = 0 THEN 0 ELSE bits[s - 1] + Cardinality(Changed(a[s - 1], b[s - 1]))]
  BY <1>8, Zenon DEF bits
<1> HIDE DEF bits
<1>10. /\ bits[0] = 0
       /\ \A s \in Slot : bits[s + 1] = bits[s] + Cardinality(Changed(a[s], b[s]))
  <2>1. \A s \in 0..Slots : bits[s] =
          IF s = 0 THEN 0 ELSE bits[s - 1] + Cardinality(Changed(a[s - 1], b[s - 1]))
    BY <1>9
  <2>2. \A s \in Slot : s + 1 \in 0..Slots /\ s + 1 # 0 /\ s + 1 - 1 = s
    BY <1>2
  <2> QED BY <1>2, <2>1, <2>2
<1>11. \A s \in 0..Slots : bits[s] \in Nat
  <2> DEFINE T == {s \in 0..Slots : bits[s] \in Nat}
  <2>1. 0 \in T /\ T \in SUBSET (0..Slots)
    BY <1>2, <1>10
  <2>2. ASSUME NEW s \in 0..Slots - 1, s \in T PROVE s + 1 \in T
    <3>1. s \in Slot /\ s + 1 \in 0..Slots
      BY <1>2
    <3> QED BY <1>3, <1>10, <2>2, <3>1
  <2>3. \A s \in 0..Slots : s \in T
    <3> HIDE DEF T
    <3> QED BY <1>2, <2>1, <2>2, Induct
  <2> QED BY <2>3
<1>12. bits \in [0..Slots -> Nat]
  BY <1>9, <1>11
<1> QED BY <1>1, <1>10, <1>12


\* A distance is at most the number of bits, the same both ways, and zero
\* between equal hashes only.
LEMMA DistanceIs ==
  ASSUME NEW a \in AllHash, NEW b \in AllHash
  PROVE  /\ Distance(a, b) \in Nat /\ Farthest \in Nat /\ Distance(a, b) <= Farthest
         /\ Distance(a, b) = Distance(b, a)
         /\ Distance(a, b) = 0 <=> a = b
<1>1. a \in [Slot -> Value] /\ b \in [Slot -> Value]
  BY DEF AllHash
<1>2. PICK f \in [0..Slots -> Nat] :
           /\ Distance(a, b) = f[Slots] /\ f[0] = 0
           /\ \A s \in Slot : f[s + 1] = f[s] + Cardinality(Changed(a[s], b[s]))
  BY <1>1, DistanceSum
<1>3. PICK g \in [0..Slots -> Nat] :
           /\ Distance(b, a) = g[Slots] /\ g[0] = 0
           /\ \A s \in Slot : g[s + 1] = g[s] + Cardinality(Changed(b[s], a[s]))
  BY <1>1, DistanceSum
<1>4. Slots \in Nat \ {0} /\ Bits \in Nat \ {0} /\ Slot = 0..Slots - 1
  BY HashAssumption DEF Slot
<1>5. \A s \in Slot : /\ Cardinality(Changed(a[s], b[s])) \in 0..Bits
                      /\ Changed(a[s], b[s]) = Changed(b[s], a[s])
                      /\ Cardinality(Changed(a[s], b[s])) = 0 <=> a[s] = b[s]
  BY <1>1, ChangedBits
<1> DEFINE T == {m \in 0..Slots : /\ f[m] = g[m] /\ f[m] <= m * Bits
                                  /\ f[m] = 0 <=> \A s \in Slot : s < m => a[s] = b[s]}
<1>6. 0 \in T
  BY <1>2, <1>3, <1>4
<1>7. ASSUME NEW m \in 0..Slots - 1, m \in T PROVE m + 1 \in T
  <2>1. m \in Slot /\ m \in Nat /\ m + 1 \in 0..Slots
    BY <1>4
  <2>2. PICK c \in 0..Bits : c = Cardinality(Changed(a[m], b[m]))
    BY <1>5, <2>1
  <2>3. f[m + 1] = f[m] + c /\ g[m + 1] = g[m] + c /\ f[m] \in Nat /\ (c = 0 <=> a[m] = b[m])
    <3>1. f[m + 1] = f[m] + c /\ (c = 0 <=> a[m] = b[m])
      BY <1>2, <1>5, <2>1, <2>2
    <3>2. c = Cardinality(Changed(b[m], a[m]))
      BY <1>5, <2>1, <2>2
    <3>3. g[m + 1] = g[m] + c
      BY <1>3, <2>1, <3>2
    <3>4. f[m] \in Nat
      BY <1>2, <1>4, <2>1
    <3> QED BY <3>1, <3>3, <3>4
  <2>4. f[m] = g[m] /\ f[m] <= m * Bits /\ (f[m] = 0 <=> \A s \in Slot : s < m => a[s] = b[s])
    BY <1>7
  <2>5. (m + 1) * Bits = m * Bits + Bits /\ m * Bits \in Nat
    BY <1>4, <2>1
  <2>6. f[m + 1] = g[m + 1] /\ f[m + 1] <= (m + 1) * Bits
    BY <1>4, <2>2, <2>3, <2>4, <2>5
  <2>7. f[m + 1] = 0 <=> f[m] = 0 /\ c = 0
    BY <1>4, <2>2, <2>3
  <2>8. \A s \in Slot : s < m + 1 <=> s < m \/ s = m
    BY <1>4, <2>1
  <2>9. f[m + 1] = 0 <=> \A s \in Slot : s < m + 1 => a[s] = b[s]
    BY <2>1, <2>3, <2>4, <2>7, <2>8
  <2> QED BY <2>1, <2>6, <2>9
<1>8. Slots \in T
  <2>1. T \in SUBSET (0..Slots) /\ Slots \in 0..Slots /\ Slots \in Nat
    BY <1>4
  <2> HIDE DEF T
  <2> QED BY <1>6, <1>7, <2>1, Induct
<1>9. Farthest \in Nat /\ Farthest = Slots * Bits
  BY <1>4 DEF Farthest
<1>10. f[Slots] \in Nat /\ f[Slots] = g[Slots] /\ f[Slots] <= Slots * Bits
  BY <1>2, <1>4, <1>8
<1>11. f[Slots] = 0 <=> a = b
  <2>1. f[Slots] = 0 <=> \A s \in Slot : a[s] = b[s]
    BY <1>4, <1>8
  <2> HIDE DEF T
  <2>2. (\A s \in Slot : a[s] = b[s]) => a = b
    BY <1>1
  <2> QED BY <2>1, <2>2
<1> QED BY <1>2, <1>3, <1>9, <1>10, <1>11

-----------------------------------------------------------------------------
(***************************************************************************)
(* The elements of lists.                                                  *)
(***************************************************************************)

LEMMA JoinedElements ==
  ASSUME NEW S, NEW s \in Seq(S), NEW t \in Seq(S)
  PROVE  s \o t \in Seq(S) /\ ToSet(s \o t) = ToSet(s) \cup ToSet(t)
<1>1. /\ s \o t \in Seq(S) /\ Len(s \o t) = Len(s) + Len(t)
      /\ \A i \in 1..Len(s) + Len(t) :
           (s \o t)[i] = IF i <= Len(s) THEN s[i] ELSE t[i - Len(s)]
  BY ConcatProperties
<1>2. /\ Len(s) \in Nat /\ Len(t) \in Nat
      /\ DOMAIN s = 1..Len(s) /\ DOMAIN t = 1..Len(t)
      /\ DOMAIN (s \o t) = 1..Len(s) + Len(t)
  BY <1>1, LenProperties
<1>3. PICK u : u = s \o t
  OBVIOUS
<1>4. /\ DOMAIN u = 1..Len(s) + Len(t)
      /\ \A i \in 1..Len(s) + Len(t) : u[i] = IF i <= Len(s) THEN s[i] ELSE t[i - Len(s)]
  BY <1>1, <1>2, <1>3
<1>5. ASSUME NEW x \in ToSet(u) PROVE x \in ToSet(s) \cup ToSet(t)
  <2>1. PICK i \in 1..Len(s) + Len(t) : x = u[i]
    BY <1>4, <1>5 DEF ToSet
  <2>2. i <= Len(s) => i \in 1..Len(s)
    OBVIOUS
  <2>3. ~(i <= Len(s)) => i - Len(s) \in 1..Len(t)
    BY <1>2
  <2> QED BY <1>2, <1>4, <2>1, <2>2, <2>3 DEF ToSet
<1>6. ASSUME NEW x \in ToSet(s) PROVE x \in ToSet(u)
  <2>1. PICK i \in 1..Len(s) : x = s[i]
    BY <1>2, <1>6 DEF ToSet
  <2>2. i \in 1..Len(s) + Len(t) /\ i <= Len(s)
    BY <1>2
  <2> QED BY <1>4, <2>1, <2>2 DEF ToSet
<1>7. ASSUME NEW x \in ToSet(t) PROVE x \in ToSet(u)
  <2>1. PICK i \in 1..Len(t) : x = t[i]
    BY <1>2, <1>7 DEF ToSet
  <2>2. /\ i + Len(s) \in 1..Len(s) + Len(t) /\ ~(i + Len(s) <= Len(s))
        /\ i + Len(s) - Len(s) = i
    BY <1>2
  <2>3. t[i] = u[i + Len(s)]
    BY <1>4, <2>2
  <2> QED BY <1>4, <2>1, <2>2, <2>3 DEF ToSet
<1> QED BY <1>1, <1>3, <1>5, <1>6, <1>7

LEMMA OneElement == ASSUME NEW S, NEW x \in S PROVE <<x>> \in Seq(S) /\ ToSet(<<x>>) = {x}
<1>1. DOMAIN <<x>> = {1}
  OBVIOUS
<1> QED BY <1>1 DEF ToSet

LEMMA AppendedElements ==
  ASSUME NEW S, NEW s \in Seq(S), NEW x \in S
  PROVE  Append(s, x) \in Seq(S) /\ ToSet(Append(s, x)) = ToSet(s) \cup {x}
<1>1. Append(s, x) = s \o <<x>>
  BY AppendIsConcat
<1>2. <<x>> \in Seq(S) /\ ToSet(<<x>>) = {x}
  BY OneElement
<1>3. s \o <<x>> \in Seq(S) /\ ToSet(s \o <<x>>) = ToSet(s) \cup ToSet(<<x>>)
  BY <1>2, JoinedElements
<1> QED BY <1>1, <1>2, <1>3

LEMMA FiniteElements ==
  ASSUME NEW S, NEW s \in Seq(S)
  PROVE  IsFiniteSet(ToSet(s)) /\ ToSet(s) \subseteq S /\ DOMAIN s = 1..Len(s) /\ Len(s) \in Nat
<1>1. Len(s) \in Nat /\ DOMAIN s = 1..Len(s) /\ \A i \in 1..Len(s) : s[i] \in S
  BY LenProperties, ElementOfSeq
<1>2. s \in [1..Len(s) -> ToSet(s)]
  BY <1>1 DEF ToSet
<1>3. s \in Surjection(1..Len(s), ToSet(s))
  BY <1>1, <1>2, Fun_IsSurj DEF ToSet
<1>4. IsFiniteSet(1..Len(s))
  BY <1>1, FS_Interval
<1> QED BY <1>1, <1>3, <1>4, FS_Surjection DEF ToSet

LEMMA InsertedElements ==
  ASSUME NEW S, NEW s \in Seq(S), NEW i \in 1..Len(s) + 1, NEW x \in S
  PROVE  InsertAt(s, i, x) \in Seq(S) /\ ToSet(InsertAt(s, i, x)) = ToSet(s) \cup {x}
<1>1. Len(s) \in Nat /\ DOMAIN s = 1..Len(s) /\ \A j \in 1..Len(s) : s[j] \in S
  BY FiniteElements, ElementOfSeq
<1>2. PICK a : a = SubSeq(s, 1, i - 1)
  OBVIOUS
<1>3. PICK b : b = SubSeq(s, i, Len(s))
  OBVIOUS
<1>4. a = [j \in 1..i - 1 |-> s[j]]
  BY <1>1, <1>2
<1>5. b = [j \in 1..Len(s) - i + 1 |-> s[i + j - 1]]
  <2>1. b = [j \in 1..1 + Len(s) - i |-> s[i + j - 1]]
    BY <1>1, <1>3
  <2> QED BY <1>1, <2>1
<1>6. a \in Seq(S) /\ b \in Seq(S)
  <2>1. \A j \in 1..i - 1 : j \in 1..Len(s)
    BY <1>1
  <2>2. \A j \in 1..Len(s) - i + 1 : i + j - 1 \in 1..Len(s)
    BY <1>1
  <2>3. i - 1 \in Nat /\ Len(s) - i + 1 \in Nat
    BY <1>1
  <2> QED BY <1>1, <1>4, <1>5, <2>1, <2>2, <2>3
<1>7. InsertAt(s, i, x) = (a \o <<x>>) \o b
  BY <1>2, <1>3 DEF InsertAt
<1>8. ToSet(a) \cup ToSet(b) = ToSet(s)
  <2>1. ASSUME NEW y \in ToSet(s) PROVE y \in ToSet(a) \cup ToSet(b)
    <3>1. PICK j \in 1..Len(s) : y = s[j]
      BY <1>1, <2>1 DEF ToSet
    <3>2. CASE j < i
      <4>1. j \in 1..i - 1
        BY <1>1, <3>2
      <4> QED BY <1>4, <3>1, <4>1 DEF ToSet
    <3>3. CASE ~(j < i)
      <4>1. j - i + 1 \in 1..Len(s) - i + 1 /\ i + (j - i + 1) - 1 = j
        BY <1>1, <3>3
      <4> QED BY <1>5, <3>1, <4>1 DEF ToSet
    <3> QED BY <3>2, <3>3
  <2>2. \A j \in 1..i - 1 : j \in 1..Len(s)
    BY <1>1
  <2>3. \A j \in 1..Len(s) - i + 1 : i + j - 1 \in 1..Len(s)
    BY <1>1
  <2>4. ToSet(a) \subseteq ToSet(s) /\ ToSet(b) \subseteq ToSet(s)
    BY <1>1, <1>4, <1>5, <2>2, <2>3 DEF ToSet
  <2> QED BY <2>1, <2>4
<1>9. <<x>> \in Seq(S) /\ ToSet(<<x>>) = {x}
  BY OneElement
<1>10. PICK q, c : q = <<x>> /\ c = a \o q
  OBVIOUS
<1>11. c \in Seq(S) /\ ToSet(c) = ToSet(a) \cup ToSet(q)
  <2>1. q \in Seq(S)
    BY <1>9, <1>10
  <2>2. a \o q \in Seq(S) /\ ToSet(a \o q) = ToSet(a) \cup ToSet(q)
    BY <1>6, <2>1, JoinedElements
  <2> QED BY <1>10, <2>2
<1>12. c \o b \in Seq(S) /\ ToSet(c \o b) = ToSet(c) \cup ToSet(b)
  BY <1>6, <1>11, JoinedElements
<1> QED BY <1>7, <1>8, <1>9, <1>10, <1>11, <1>12

\* Sorting loses no number.
LEMMA AscendingElements ==
  ASSUME NEW S \in SUBSET Nat, IsFiniteSet(S)
  PROVE  /\ Ascending(S) \in Seq(Nat) /\ DOMAIN Ascending(S) = 1..Cardinality(S)
         /\ ToSet(Ascending(S)) = S
<1>1. PICK f : f = Ascending(S)
  OBVIOUS
<1>2. /\ Cardinality(S) \in Nat
      /\ f \in [1..Cardinality(S) -> S]
      /\ \A x \in S : \E i \in 1..Cardinality(S) : f[i] = x
  BY <1>1, AscendingIs
<1>3. f \in [1..Cardinality(S) -> Nat]
  BY <1>2
<1>4. f \in Seq(Nat)
  BY <1>2, <1>3
<1> QED BY <1>1, <1>2, <1>4 DEF ToSet

\* What a function gives for a finite set is finite.
LEMMA FiniteValues ==
  ASSUME NEW S, IsFiniteSet(S), NEW f
  PROVE  IsFiniteSet({f[x] : x \in S})
<1> DEFINE T == {f[x] : x \in S}
           g == [x \in S |-> f[x]]
<1>1. g \in [S -> T] /\ \A t \in T : \E x \in S : g[x] = t
  OBVIOUS
<1> HIDE DEF T, g
<1>2. g \in Surjection(S, T)
  BY <1>1, Fun_IsSurj
<1>3. IsFiniteSet(T)
  BY <1>2, FS_Surjection
<1> QED BY <1>3 DEF T

\* The least of some numbers is one of them, and no more than any.
LEMMA MinIs ==
  ASSUME NEW S \in SUBSET Nat, S # {}
  PROVE  Min(S) \in S /\ \A x \in S : Min(S) <= x
<1>1. \E x \in S : \A y \in S : x <= y
  BY Least
<1> QED BY <1>1 DEF Min

-----------------------------------------------------------------------------
(***************************************************************************)
(* The candidates of an image.                                             *)
(***************************************************************************)

\* The merge of two lists has the elements of both, sorted or not.
LEMMA SetUnionIs ==
  ASSUME NEW a \in Seq(Nat), NEW b \in Seq(Nat)
  PROVE  SetUnion(a, b) \in Seq(Nat) /\ ToSet(SetUnion(a, b)) = ToSet(a) \cup ToSet(b)
<1> DEFINE N == Len(a) + Len(b)
           First(x)  == x.first < Len(a) /\ (x.second = Len(b) \/ a[x.first + 1] <= b[x.second + 1])
           Second(x) == x.second < Len(b) /\ (x.first = Len(a) \/ b[x.second + 1] <= a[x.first + 1])
           Take(x) == [first  |-> IF First(x) THEN x.first + 1 ELSE x.first,
                       second |-> IF Second(x) THEN x.second + 1 ELSE x.second,
                       list   |-> CASE First(x)  -> Append(x.list, a[x.first + 1])
                                    [] ~First(x) /\ Second(x) -> Append(x.list, b[x.second + 1])
                                    [] OTHER -> x.list]
           start == [first |-> 0, second |-> 0, list |-> << >>]
           merge[n \in 0..N] == IF n = 0 THEN start ELSE Take(merge[n - 1])
           X == [first : 0..Len(a), second : 0..Len(b), list : Seq(Nat)]
           S == [m \in 0..N |-> X]
           step == [q \in (1..N) \X X |-> Take(q[2])]
           Given(x) == {a[i] : i \in 1..x.first} \cup {b[i] : i \in 1..x.second}
           Done(x) == x.first = Len(a) /\ x.second = Len(b)
<1>1. /\ Len(a) \in Nat /\ Len(b) \in Nat /\ N \in Nat
      /\ DOMAIN a = 1..Len(a) /\ DOMAIN b = 1..Len(b)
      /\ \A i \in 1..Len(a) : a[i] \in Nat
      /\ \A i \in 1..Len(b) : b[i] \in Nat
  BY FiniteElements, ElementOfSeq
<1>2. SetUnion(a, b) = merge[N].list
  BY Zenon DEF SetUnion
<1>3. ASSUME NEW x \in X
      PROVE  /\ Take(x) \in X
             /\ ToSet(x.list) = Given(x) => ToSet(Take(x).list) = Given(Take(x))
             /\ Done(x) => Done(Take(x))
             /\ ~Done(x) => Take(x).first + Take(x).second > x.first + x.second
  <2>1. x.first \in 0..Len(a) /\ x.second \in 0..Len(b) /\ x.list \in Seq(Nat)
    OBVIOUS
  <2>2. /\ x.first < Len(a) => x.first + 1 \in 1..Len(a)
        /\ x.second < Len(b) => x.second + 1 \in 1..Len(b)
    BY <1>1, <2>1
  <2>a. /\ {a[i] : i \in 1..x.first + 1} = {a[i] : i \in 1..x.first} \cup {a[x.first + 1]}
        /\ {b[i] : i \in 1..x.second + 1} = {b[i] : i \in 1..x.second} \cup {b[x.second + 1]}
    <3>1. x.first \in Nat /\ x.second \in Nat
      BY <1>1, <2>1
    <3>2. /\ 1..x.first + 1 = (1..x.first) \cup {x.first + 1}
          /\ 1..x.second + 1 = (1..x.second) \cup {x.second + 1}
      BY <3>1
    <3> QED BY <3>2
  <2>3. CASE First(x)
    <3>1. x.first + 1 \in 1..Len(a) /\ a[x.first + 1] \in Nat
      BY <1>1, <2>2, <2>3
    <3>2. /\ Append(x.list, a[x.first + 1]) \in Seq(Nat)
          /\ ToSet(Append(x.list, a[x.first + 1])) = ToSet(x.list) \cup {a[x.first + 1]}
      BY <2>1, <3>1, AppendedElements
    <3>3. CASE Second(x)
      <4>1. Take(x) = [first |-> x.first + 1, second |-> x.second + 1, list |-> Append(x.list, a[x.first + 1])]
        BY <2>3, <3>3
      <4>2. x.second + 1 \in 1..Len(b) /\ b[x.second + 1] \in Nat
        BY <1>1, <2>2, <3>3
      <4>3. a[x.first + 1] = b[x.second + 1]
        BY <1>1, <2>1, <2>3, <3>1, <3>3, <4>2
      <4> HIDE DEF Take, First, Second
      <4>y. PICK y : y = Take(x)
        OBVIOUS
      <4>f. y.first = x.first + 1 /\ y.second = x.second + 1 /\ y.list = Append(x.list, a[x.first + 1])
        BY <4>1, <4>y
      <4>x. y \in X
        BY <3>1, <3>2, <4>2, <4>1, <4>y
      <4>g. Given(y) = Given(x) \cup {a[x.first + 1]}
        BY <2>a, <4>f, <4>3
      <4>m. ~Done(x) /\ y.first + y.second > x.first + x.second
        BY <1>1, <2>1, <3>1, <4>f
      <4> HIDE DEF Given, Done, X
      <4> QED BY <3>2, <4>y, <4>f, <4>x, <4>g, <4>m
    <3>4. CASE ~Second(x)
      <4>1. Take(x) = [first |-> x.first + 1, second |-> x.second, list |-> Append(x.list, a[x.first + 1])]
        BY <2>3, <3>4
      <4> HIDE DEF Take, First, Second
      <4>y. PICK y : y = Take(x)
        OBVIOUS
      <4>f. y.first = x.first + 1 /\ y.second = x.second /\ y.list = Append(x.list, a[x.first + 1])
        BY <4>1, <4>y
      <4>x. y \in X
        BY <2>1, <3>1, <3>2, <4>1, <4>y
      <4>g. Given(y) = Given(x) \cup {a[x.first + 1]}
        BY <2>a, <4>f
      <4>m. ~Done(x) /\ y.first + y.second > x.first + x.second
        BY <1>1, <2>1, <3>1, <4>f
      <4> HIDE DEF Given, Done, X
      <4> QED BY <3>2, <4>y, <4>f, <4>x, <4>g, <4>m
    <3> QED BY <3>3, <3>4
  <2>4. CASE ~First(x) /\ Second(x)
    <3>1. x.second + 1 \in 1..Len(b) /\ b[x.second + 1] \in Nat
      BY <1>1, <2>2, <2>4
    <3>2. /\ Append(x.list, b[x.second + 1]) \in Seq(Nat)
          /\ ToSet(Append(x.list, b[x.second + 1])) = ToSet(x.list) \cup {b[x.second + 1]}
      BY <2>1, <3>1, AppendedElements
    <3>3. Take(x) = [first |-> x.first, second |-> x.second + 1, list |-> Append(x.list, b[x.second + 1])]
      BY <2>4
    <3> HIDE DEF Take, First, Second
    <3>y. PICK y : y = Take(x)
      OBVIOUS
    <3>f. y.first = x.first /\ y.second = x.second + 1 /\ y.list = Append(x.list, b[x.second + 1])
      BY <3>3, <3>y
    <3>x. y \in X
      BY <2>1, <3>1, <3>2, <3>3, <3>y
    <3>g. Given(y) = Given(x) \cup {b[x.second + 1]}
      BY <2>a, <3>f
    <3>m. ~Done(x) /\ y.first + y.second > x.first + x.second
      BY <1>1, <2>1, <3>1, <3>f
    <3> HIDE DEF Given, Done, X
    <3> QED BY <3>2, <3>y, <3>f, <3>x, <3>g, <3>m
  <2>5. CASE ~First(x) /\ ~Second(x)
    <3>1. Take(x) = [first |-> x.first, second |-> x.second, list |-> x.list]
      BY <2>5
    <3>2. Done(x)
      <4>1. CASE x.first < Len(a) /\ x.second < Len(b)
        <5>1. a[x.first + 1] \in Nat /\ b[x.second + 1] \in Nat
          BY <1>1, <2>2, <4>1
        <5> QED BY <2>5, <4>1, <5>1
      <4> QED BY <1>1, <2>1, <2>5, <4>1
    <3> HIDE DEF Take, First, Second
    <3>3. Take(x) = x
      BY <2>1, <3>1
    <3> QED BY <3>2, <3>3
  <2> QED BY <2>3, <2>4, <2>5
<1>4. ASSUME NEW m \in 1..N, NEW x \in X PROVE step[<<m, x>>] = Take(x) /\ step[<<m, x>>] \in X
  <2> HIDE DEF Take, X
  <2> QED BY <1>3
<1>5. \A m \in 0..N : S[m] = X
  <2> HIDE DEF X, N
  <2> QED OBVIOUS
<1>6. start \in X
  BY <1>1
<1> HIDE DEF step, S, X, Take
<1>7. start \in S[0] /\ \A m \in 1..N : \A x \in S[m - 1] : step[<<m, x>>] \in S[m]
  <2>1. 0 \in 0..N /\ \A m \in 1..N : m \in 0..N /\ m - 1 \in 0..N
    BY <1>1
  <2> HIDE DEF N, start
  <2> QED BY <1>4, <1>5, <1>6, <2>1
<1>8. PICK g : Recurs(g, start, step, N) /\ \A m \in 0..N : g[m] \in S[m]
  <2> HIDE DEF N, start
  <2> QED BY <1>1, <1>7, Recursion
<1>9. g = [n \in 0..N |-> IF n = 0 THEN start ELSE Take(g[n - 1])]
  <2>1. \A n \in 0..N : n = 0 \/ (n \in 1..N /\ n - 1 \in 0..N)
    BY <1>1
  <2> HIDE DEF N, start
  <2>2. ASSUME NEW n \in 1..N PROVE step[<<n, g[n - 1]>>] = Take(g[n - 1])
    <3>1. n - 1 \in 0..N
      BY <1>1
    <3>2. g[n - 1] \in X
      BY <1>5, <1>8, <3>1
    <3> QED BY <1>4, <3>2
  <2> QED BY <1>8, <2>1, <2>2 DEF Recurs
<1>10. merge = [n \in 0..N |-> IF n = 0 THEN start ELSE Take(merge[n - 1])]
  <2> HIDE DEF N, start
  <2> QED BY <1>9, Zenon DEF merge
<1> HIDE DEF merge
<1>11. merge[0] = start /\ \A n \in 0..N - 1 : merge[n + 1] = Take(merge[n])
  <2>1. \A n \in 0..N - 1 : n + 1 \in 0..N /\ n + 1 # 0 /\ n + 1 - 1 = n
    BY <1>1
  <2>2. 0 \in 0..N
    BY <1>1
  <2> HIDE DEF N, start
  <2>3. ASSUME NEW n \in 0..N - 1 PROVE merge[n + 1] = Take(merge[n])
    <3>1. PICK k : k = n + 1
      OBVIOUS
    <3>2. k \in 0..N /\ k # 0 /\ k - 1 = n
      BY <2>1, <3>1
    <3> QED BY <1>10, <3>1, <3>2
  <2> QED BY <1>10, <2>2, <2>3
<1> DEFINE T == {m \in 0..N : /\ merge[m] \in X
                              /\ ToSet(merge[m].list) = Given(merge[m])
                              /\ Done(merge[m]) \/ merge[m].first + merge[m].second >= m}
<1>12. 0 \in T
  <2>1. ToSet(<< >>) = {}
    BY DEF ToSet
  <2>2. Given(start) = {}
    OBVIOUS
  <2> QED BY <1>1, <1>6, <1>11, <2>1, <2>2
<1>13. ASSUME NEW m \in 0..N - 1, m \in T PROVE m + 1 \in T
  <2>1. PICK x \in X : /\ x = merge[m] /\ ToSet(x.list) = Given(x)
                       /\ Done(x) \/ x.first + x.second >= m
    BY <1>13
  <2>2. PICK y \in X : y = Take(x) /\ merge[m + 1] = y
    BY <1>3, <1>11, <2>1
  <2>3. ToSet(y.list) = Given(y) /\ (Done(x) => Done(y))
    BY <1>3, <2>1, <2>2
  <2>4. ~Done(x) => y.first + y.second >= m + 1
    <3>1. x.first \in Nat /\ x.second \in Nat /\ y.first \in Nat /\ y.second \in Nat
      BY <1>1 DEF X
    <3>2. ~Done(x) => y.first + y.second > x.first + x.second
      BY <1>3, <2>2
    <3> HIDE DEF Done
    <3> QED BY <2>1, <3>1, <3>2
  <2>5. m + 1 \in 0..N
    BY <1>1
  <2> HIDE DEF Done, Given
  <2> QED BY <2>2, <2>3, <2>4, <2>5
<1>14. N \in T
  <2>1. T \in SUBSET (0..N) /\ N \in 0..N
    BY <1>1
  <2> HIDE DEF T, N
  <2> QED BY <1>1, <1>12, <1>13, <2>1, Induct
<1>15. PICK x \in X : x = merge[N] /\ ToSet(x.list) = Given(x) /\ (Done(x) \/ x.first + x.second >= N)
  <2> HIDE DEF N, Given, Done
  <2> QED BY <1>14
<1>16. Done(x) /\ x.list \in Seq(Nat)
  BY <1>1, <1>15 DEF X
<1>17. Given(x) = ToSet(a) \cup ToSet(b)
  BY <1>1, <1>16 DEF ToSet
<1> HIDE DEF N, Given, Done
<1> QED BY <1>2, <1>15, <1>16, <1>17

\* FlatPdqIndex's record, with the hash of an image.
Entry == [id : Nat \ {Missing}, hash : AllHash]

\* A search finds the identifiers of the entries within the distance.
LEMMA SearchWithinIs ==
  ASSUME entries \in Seq(Entry), NEW h, NEW d
  PROVE  /\ SearchWithin(h, d) \in Seq(Nat)
         /\ ToSet(SearchWithin(h, d)) = {e.id : e \in {e \in ToSet(entries) : Distance(h, e.hash) <= d}}
<1> DEFINE P == {p \in DOMAIN entries : Distance(h, entries[p].hash) <= d}
<1>1. /\ DOMAIN entries = 1..Len(entries) /\ Len(entries) \in Nat
      /\ \A p \in DOMAIN entries : entries[p] \in Entry
  BY FiniteElements, ElementOfSeq
<1>2. P \in SUBSET Nat /\ IsFiniteSet(P)
  <2>1. IsFiniteSet(1..Len(entries)) /\ P \in SUBSET (1..Len(entries))
    BY <1>1, FS_Interval
  <2>2. IsFiniteSet(P)
    BY <2>1, FS_Subset
  <2> QED BY <1>1, <2>1, <2>2
<1>3. PICK near : near = Ascending(P)
  OBVIOUS
<1>4. /\ near \in Seq(Nat) /\ DOMAIN near = 1..Cardinality(P) /\ ToSet(near) = P
      /\ Cardinality(P) \in Nat
  <2> HIDE DEF P
  <2> QED BY <1>2, <1>3, AscendingElements, FS_CardinalityType
<1>5. SearchWithin(h, d) = [n \in 1..Cardinality(P) |-> entries[near[n]].id]
  BY <1>3, <1>4 DEF SearchWithin
<1>6. \A n \in 1..Cardinality(P) : near[n] \in P
  BY <1>4 DEF ToSet
<1>7. \A p \in P : \E n \in 1..Cardinality(P) : near[n] = p
  BY <1>4 DEF ToSet
<1>8. \A p \in P : entries[p] \in Entry /\ entries[p].id \in Nat
  BY <1>1 DEF Entry
<1>9. SearchWithin(h, d) \in Seq(Nat)
  <2>1. PICK c : c = Cardinality(P)
    OBVIOUS
  <2>2. c \in Nat /\ \A n \in 1..c : entries[near[n]].id \in Nat
    BY <1>4, <1>6, <1>8, <2>1
  <2>3. [n \in 1..c |-> entries[near[n]].id] \in Seq(Nat)
    BY <2>2
  <2> HIDE DEF P
  <2> QED BY <1>5, <2>1, <2>3
<1>10. ToSet(SearchWithin(h, d)) = {entries[p].id : p \in P}
  <2> HIDE DEF P
  <2> QED BY <1>5, <1>6, <1>7 DEF ToSet
<1>11. {entries[p].id : p \in P} = {e.id : e \in {e \in ToSet(entries) : Distance(h, e.hash) <= d}}
  BY DEF ToSet
<1> QED BY <1>9, <1>10, <1>11

\* All the variants together.
LEMMA MergedIs ==
  ASSUME entries \in Seq(Entry), NEW V, query \in Seq(V)
  PROVE  /\ Merged \in Seq(Nat)
         /\ ToSet(Merged) =
              {e.id : e \in {e \in ToSet(entries) :
                 \E v \in ToSet(query) : Distance(v.hash, e.hash) <= policy.distance}}
<1> DEFINE N == Len(query)
           found(n) == SearchWithin(query[n].hash, policy.distance)
           merged[n \in 0..N] == IF n = 0 THEN << >> ELSE SetUnion(merged[n - 1], found(n))
           S == [m \in 0..N |-> Seq(Nat)]
           step == [q \in (1..N) \X Seq(Nat) |-> SetUnion(q[2], found(q[1]))]
           Within(n) == {e \in ToSet(entries) :
                           \E i \in 1..n : Distance(query[i].hash, e.hash) <= policy.distance}
<1>1. N \in Nat /\ DOMAIN query = 1..N
  BY FiniteElements
<1>2. Merged = merged[N]
  BY Zenon DEF Merged
<1>3. ASSUME NEW n \in 1..N
      PROVE  /\ found(n) \in Seq(Nat)
             /\ ToSet(found(n)) =
                  {e.id : e \in {e \in ToSet(entries) : Distance(query[n].hash, e.hash) <= policy.distance}}
  BY SearchWithinIs
<1> HIDE DEF found
<1>4. ASSUME NEW n \in 1..N, NEW x \in Seq(Nat)
      PROVE  /\ SetUnion(x, found(n)) \in Seq(Nat)
             /\ ToSet(SetUnion(x, found(n))) = ToSet(x) \cup ToSet(found(n))
             /\ step[<<n, x>>] = SetUnion(x, found(n))
  <2> HIDE DEF N
  <2> QED BY <1>3, SetUnionIs
<1>5. \A m \in 0..N : S[m] = Seq(Nat)
  OBVIOUS
<1> HIDE DEF step, S
<1>6. << >> \in S[0] /\ \A m \in 1..N : \A x \in S[m - 1] : step[<<m, x>>] \in S[m]
  <2>1. 0 \in 0..N /\ \A m \in 1..N : m \in 0..N /\ m - 1 \in 0..N
    BY <1>1
  <2> HIDE DEF N
  <2>2. << >> \in S[0]
    <3>1. S[0] = Seq(Nat)
      BY <1>5, <2>1
    <3>2. << >> \in Seq(Nat)
      OBVIOUS
    <3> QED BY <3>1, <3>2
  <2>3. ASSUME NEW m \in 1..N, NEW x \in S[m - 1] PROVE step[<<m, x>>] \in S[m]
    <3>1. x \in Seq(Nat)
      BY <1>5, <2>1
    <3>2. step[<<m, x>>] \in Seq(Nat)
      BY <1>4, <3>1
    <3> QED BY <1>5, <2>1, <3>2
  <2> QED BY <2>2, <2>3
<1>7. PICK g : Recurs(g, << >>, step, N) /\ \A m \in 0..N : g[m] \in S[m]
  <2> HIDE DEF N
  <2> QED BY <1>1, <1>6, Recursion
<1>8. g = [n \in 0..N |-> IF n = 0 THEN << >> ELSE SetUnion(g[n - 1], found(n))]
  <2>1. \A n \in 0..N : n = 0 \/ (n \in 1..N /\ n - 1 \in 0..N)
    BY <1>1
  <2> HIDE DEF N
  <2>2. ASSUME NEW n \in 1..N PROVE step[<<n, g[n - 1]>>] = SetUnion(g[n - 1], found(n))
    <3>1. n - 1 \in 0..N
      BY <1>1
    <3>2. g[n - 1] \in Seq(Nat)
      BY <1>5, <1>7, <3>1
    <3> QED BY <1>4, <3>2
  <2> QED BY <1>7, <2>1, <2>2 DEF Recurs
<1>9. merged = [n \in 0..N |-> IF n = 0 THEN << >> ELSE SetUnion(merged[n - 1], found(n))]
  <2> HIDE DEF N
  <2> QED BY <1>8, Zenon DEF merged
<1> HIDE DEF merged
<1> DEFINE T == {n \in 0..N : merged[n] \in Seq(Nat) /\ ToSet(merged[n]) = {e.id : e \in Within(n)}}
<1>10. 0 \in T
  <2>1. merged[0] = << >> /\ 0 \in 0..N
    BY <1>1, <1>9
  <2>2. ToSet(<< >>) = {}
    BY DEF ToSet
  <2>3. Within(0) = {}
    OBVIOUS
  <2> HIDE DEF Within, N
  <2>4. {e.id : e \in Within(0)} = {}
    BY <2>3
  <2>5. << >> \in Seq(Nat)
    OBVIOUS
  <2> QED BY <2>1, <2>2, <2>4, <2>5
<1>11. ASSUME NEW n \in 0..N - 1, n \in T PROVE n + 1 \in T
  <2>1. PICK k : k = n + 1
    OBVIOUS
  <2>2. n \in Nat /\ k \in 0..N /\ k \in 1..N /\ k # 0 /\ k - 1 = n
    BY <1>1, <2>1
  <2>3. merged[k] = SetUnion(merged[n], found(k))
    <3> HIDE DEF N
    <3> QED BY <1>9, <2>2
  <2>4. merged[n] \in Seq(Nat) /\ ToSet(merged[n]) = {e.id : e \in Within(n)}
    BY <1>11
  <2>5. /\ merged[k] \in Seq(Nat)
        /\ ToSet(merged[k]) = ToSet(merged[n]) \cup
             {e.id : e \in {e \in ToSet(entries) : Distance(query[k].hash, e.hash) <= policy.distance}}
    <3> HIDE DEF N, Within
    <3> QED BY <1>3, <1>4, <2>2, <2>3, <2>4
  <2>6. 1..k = (1..n) \cup {k}
    BY <2>1, <2>2
  <2>7. Within(k) = Within(n) \cup {e \in ToSet(entries) : Distance(query[k].hash, e.hash) <= policy.distance}
    BY <2>6
  <2> HIDE DEF Within, N
  <2>8. ToSet(merged[k]) = {e.id : e \in Within(k)}
    BY <2>4, <2>5, <2>7
  <2> QED BY <2>1, <2>2, <2>5, <2>8
<1>12. N \in T
  <2>1. T \in SUBSET (0..N) /\ N \in 0..N
    BY <1>1
  <2> HIDE DEF T, N
  <2> QED BY <1>1, <1>10, <1>11, <2>1, Induct
<1>13. Within(N) = {e \in ToSet(entries) :
                      \E v \in ToSet(query) : Distance(v.hash, e.hash) <= policy.distance}
  BY <1>1 DEF ToSet
<1> HIDE DEF N, Within
<1> QED BY <1>2, <1>12, <1>13

-----------------------------------------------------------------------------
(***************************************************************************)
(* The matches of an image.                                                *)
(***************************************************************************)

\* The matches that no other of the same image is nearer than.
Nearest(A) == {x \in A : \A y \in A : y.media = x.media => y.distance >= x.distance}

Found == [media : Nat, distance : Nat]

\* Sorted by image and then by distance, the first match of each image is its
\* nearest one, and these are in the order of images.
LEMMA FirstOfEachIs ==
  ASSUME NEW A \in SUBSET Found, IsFiniteSet(A)
  PROVE  FirstOfEach(Ordered(A, NearerFirst)) = Ordered(Nearest(A), LAMBDA a, b : a.media < b.media)
<1> DEFINE R == {p \in A \X A : NearerFirst(p[1], p[2])}
           N == Nearest(A)
           Q == {p \in N \X N : p[1].media < p[2].media}
           n == Cardinality(A)
<1>1. \A x \in A : /\ x.media \in Nat /\ x.distance \in Nat
                   /\ x = [media |-> x.media, distance |-> x.distance]
  BY DEF Found
<1>2. \A x, y \in A : x.media = y.media /\ x.distance = y.distance => x = y
  BY <1>1
<1>3. \A x, y \in A : <<x, y>> \in R <=> x.media < y.media \/ (x.media = y.media /\ x.distance < y.distance)
  BY DEF NearerFirst
<1>4. StrictOrder(A, R)
  <2> HIDE DEF R
  <2>1. \A x \in A : x.media \in Nat /\ x.distance \in Nat
    BY <1>1
  <2>2. \A x \in A : <<x, x>> \notin R
    BY <1>3, <2>1
  <2>3. \A x, y, z \in A : <<x, y>> \in R /\ <<y, z>> \in R => <<x, z>> \in R
    BY <1>3, <2>1
  <2>4. ASSUME NEW x \in A, NEW y \in A PROVE x = y \/ <<x, y>> \in R \/ <<y, x>> \in R
    <3>1. \/ x.media < y.media \/ y.media < x.media
          \/ x.media = y.media /\ (x.distance < y.distance \/ y.distance < x.distance \/ x.distance = y.distance)
      BY <2>1
    <3> QED BY <1>2, <1>3, <3>1
  <2> QED BY <2>2, <2>3, <2>4 DEF StrictOrder
<1>5. PICK L : L = Ordered(A, NearerFirst)
  OBVIOUS
<1>6. InOrder(L, A, R)
  <2>1. PICK list : InOrder(list, A, R)
    <3> HIDE DEF R
    <3> QED BY <1>4, Sortable
  <2>2. \A f \in [1..n -> A] :
          (\A i, j \in 1..n : i < j => NearerFirst(f[i], f[j])) <=> InOrder(f, A, R)
    BY DEF InOrder
  <2>3. \E f \in [1..n -> A] : \A i, j \in 1..n : i < j => NearerFirst(f[i], f[j])
    <3> HIDE DEF R
    <3> QED BY <2>1, <2>2 DEF InOrder
  <2>4. L \in [1..n -> A] /\ \A i, j \in 1..n : i < j => NearerFirst(L[i], L[j])
    BY <1>5, <2>3 DEF Ordered
  <2> HIDE DEF R
  <2> QED BY <2>2, <2>4
<1> HIDE DEF R
<1>7. /\ n \in Nat /\ L \in [1..n -> A] /\ DOMAIN L = 1..n
      /\ \A i, j \in 1..n : i < j => <<L[i], L[j]>> \in R
      /\ \A i, j \in 1..n : L[i] = L[j] => i = j
      /\ \A x \in A : \E i \in 1..n : L[i] = x
  <2>1. n \in Nat /\ L \in [1..n -> A] /\ \A i, j \in 1..n : i < j => <<L[i], L[j]>> \in R
    BY <1>6, FS_CardinalityType DEF InOrder
  <2>2. /\ \A i, j \in 1..n : L[i] = L[j] => i = j
        /\ \A x \in A : \E i \in 1..n : L[i] = x
    BY <1>4, <1>6, SortedAll
  <2> HIDE DEF n
  <2>3. DOMAIN L = 1..n
    BY <2>1
  <2> QED BY <2>1, <2>2, <2>3
<1> DEFINE F == {k \in DOMAIN L : k = 1 \/ L[k].media # L[k - 1].media}
<1>8. F \in SUBSET Nat /\ F \in SUBSET (1..n) /\ IsFiniteSet(F)
  <2>1. IsFiniteSet(1..n) /\ F \in SUBSET (1..n) /\ F \in SUBSET Nat
    BY <1>7, FS_Interval
  <2> HIDE DEF F
  <2> QED BY <2>1, FS_Subset
<1>9. PICK s : s = Ascending(F)
  OBVIOUS
<1>10. /\ Cardinality(F) \in Nat /\ s \in [1..Cardinality(F) -> F]
       /\ \A i, j \in 1..Cardinality(F) : i < j => s[i] < s[j]
       /\ \A x \in F : \E i \in 1..Cardinality(F) : s[i] = x
  <2> HIDE DEF F
  <2> QED BY <1>8, <1>9, AscendingIs
<1> DEFINE M == [k \in 1..Cardinality(F) |-> L[s[k]]]
<1>11. FirstOfEach(L) = M
  <2>1. FirstOfEach(L) = [k \in DOMAIN s |-> L[s[k]]]
    BY <1>9 DEF FirstOfEach
  <2> HIDE DEF F
  <2> QED BY <1>10, <2>1
<1>12. ASSUME NEW j \in 1..n, NEW k \in F, j < k
       PROVE  L[j].media < L[k].media
  <2>1. k \in 1..n /\ k - 1 \in 1..n /\ k - 1 < k /\ (j < k - 1 \/ j = k - 1)
    BY <1>7, <1>8, <1>12
  <2>2. L[k].media # L[k - 1].media
    BY <1>7, <1>12, <2>1
  <2>3. L[j] \in A /\ L[k] \in A /\ L[k - 1] \in A
    BY <1>7, <2>1
  <2>4. <<L[k - 1], L[k]>> \in R
    BY <1>7, <2>1
  <2>5. L[k - 1].media < L[k].media
    BY <1>1, <1>3, <2>2, <2>3, <2>4
  <2>6. j < k - 1 => <<L[j], L[k - 1]>> \in R
    BY <1>7, <2>1
  <2>7. L[j].media <= L[k - 1].media
    BY <1>1, <1>3, <2>1, <2>3, <2>6
  <2> QED BY <1>1, <2>3, <2>5, <2>7
<1>13. ASSUME NEW k \in F PROVE L[k] \in N
  <2>1. k \in 1..n /\ L[k] \in A
    BY <1>7, <1>8
  <2>2. ASSUME NEW y \in A, y.media = L[k].media PROVE y.distance >= L[k].distance
    <3>1. PICK j \in 1..n : L[j] = y
      BY <1>7
    <3>2. ~(j < k)
      BY <1>1, <1>12, <2>1, <2>2, <3>1
    <3>3. CASE j = k
      BY <1>1, <2>1, <3>1, <3>3
    <3>4. CASE k < j
      <4>1. <<L[k], y>> \in R
        BY <1>7, <2>1, <3>1, <3>4
      <4> QED BY <1>1, <1>3, <2>1, <2>2, <4>1
    <3> HIDE DEF F
    <3> QED BY <1>7, <2>1, <3>2, <3>3, <3>4
  <2> QED BY <2>1, <2>2 DEF Nearest
<1>14. ASSUME NEW x \in N PROVE \E k \in F : L[k] = x
  <2>1. x \in A /\ \A y \in A : y.media = x.media => y.distance >= x.distance
    BY DEF Nearest
  <2>2. PICK k \in 1..n : L[k] = x
    BY <1>7, <2>1
  <2>3. CASE k = 1
    BY <1>7, <2>2, <2>3
  <2>4. CASE k # 1
    <3>1. k - 1 \in 1..n /\ k - 1 < k /\ L[k - 1] \in A
      BY <1>7, <2>2, <2>4
    <3>2. <<L[k - 1], x>> \in R
      BY <1>7, <2>2, <3>1
    <3>3. L[k - 1].media # x.media
      BY <1>1, <1>3, <2>1, <3>1, <3>2
    <3> QED BY <1>7, <2>2, <3>3
  <2> QED BY <2>3, <2>4
<1>15. N \in SUBSET A /\ IsFiniteSet(N)
  <2>1. N \in SUBSET A
    BY DEF Nearest
  <2> HIDE DEF N
  <2> QED BY <2>1, FS_Subset
<1>16. Cardinality(N) = Cardinality(F)
  <2> DEFINE b == [k \in F |-> L[k]]
  <2>1. b \in [F -> N]
    BY <1>13
  <2>2. \A i, j \in F : b[i] = b[j] => i = j
    BY <1>7, <1>8
  <2>3. \A x \in N : \E k \in F : b[k] = x
    BY <1>14
  <2> HIDE DEF b, F, N
  <2>4. b \in Injection(F, N) /\ b \in Surjection(F, N)
    BY <2>1, <2>2, <2>3, Fun_IsInj, Fun_IsSurj
  <2>5. ExistsBijection(F, N)
    BY <2>4 DEF ExistsBijection, Bijection
  <2> QED BY <1>8, <2>5, FS_Bijection
<1> HIDE DEF F, N
<1>17. \A x, y \in N : <<x, y>> \in Q <=> x.media < y.media
  OBVIOUS
<1>18. StrictOrder(N, Q)
  <2> HIDE DEF Q
  <2>1. \A x \in N : x \in A /\ x.media \in Nat /\ x.distance \in Nat
    BY <1>1, <1>15
  <2>2. \A x, y \in N : x.media = y.media => x = y
    <3>1. \A x, y \in N : x.media = y.media => x.distance >= y.distance /\ y.distance >= x.distance
      BY DEF N, Nearest
    <3> QED BY <1>2, <2>1, <3>1
  <2>3. \A x \in N : <<x, x>> \notin Q
    BY <1>17, <2>1
  <2>4. \A x, y, z \in N : <<x, y>> \in Q /\ <<y, z>> \in Q => <<x, z>> \in Q
    BY <1>17, <2>1
  <2>5. \A x, y \in N : x = y \/ <<x, y>> \in Q \/ <<y, x>> \in Q
    <3>1. \A x, y \in N : x.media < y.media \/ y.media < x.media \/ x.media = y.media
      BY <2>1
    <3> QED BY <1>17, <2>2, <3>1
  <2> QED BY <2>3, <2>4, <2>5 DEF StrictOrder
<1>19. InOrder(M, N, Q)
  <2>1. \A k \in 1..Cardinality(F) : s[k] \in F /\ L[s[k]] \in N
    BY <1>10, <1>13
  <2>2. M \in [1..Cardinality(N) -> N]
    BY <1>16, <2>1
  <2>3. ASSUME NEW i \in 1..Cardinality(N), NEW j \in 1..Cardinality(N), i < j
        PROVE  <<M[i], M[j]>> \in Q
    <3>1. i \in 1..Cardinality(F) /\ j \in 1..Cardinality(F)
      BY <1>16
    <3>2. s[i] < s[j] /\ s[i] \in 1..n /\ s[j] \in F
      BY <1>8, <1>10, <2>3, <3>1
    <3>3. L[s[i]].media < L[s[j]].media
      BY <1>12, <3>2
    <3>4. M[i] = L[s[i]] /\ M[j] = L[s[j]] /\ M[i] \in N /\ M[j] \in N
      BY <2>1, <3>1
    <3> HIDE DEF M, Q
    <3> QED BY <1>17, <3>3, <3>4
  <2> HIDE DEF M
  <2> QED BY <2>2, <2>3 DEF InOrder
<1>20. PICK O : O = Ordered(N, LAMBDA a, b : a.media < b.media)
  OBVIOUS
<1>21. InOrder(O, N, Q)
  <2>1. \A f \in [1..Cardinality(N) -> N] :
          (\A i, j \in 1..Cardinality(N) : i < j => f[i].media < f[j].media) <=> InOrder(f, N, Q)
    BY DEF InOrder
  <2>2. \E f \in [1..Cardinality(N) -> N] :
          \A i, j \in 1..Cardinality(N) : i < j => f[i].media < f[j].media
    <3> HIDE DEF Q, M
    <3> QED BY <1>19, <2>1 DEF InOrder
  <2>3. /\ O \in [1..Cardinality(N) -> N]
        /\ \A i, j \in 1..Cardinality(N) : i < j => O[i].media < O[j].media
    BY <1>20, <2>2 DEF Ordered
  <2> HIDE DEF Q
  <2> QED BY <2>1, <2>3
<1> HIDE DEF Q, M
<1>22. O = M
  BY <1>15, <1>18, <1>19, <1>21, SortedUnique
<1> QED BY <1>5, <1>11, <1>20, <1>22 DEF N

\* Where one set is part of another and has a match as near as each of that,
\* both have the same nearest ones.
LEMMA SameNearest ==
  ASSUME NEW P \in SUBSET Found, NEW A \in SUBSET P,
         \A y \in P : \E a \in A : a.media = y.media /\ a.distance <= y.distance
  PROVE  Nearest(A) = Nearest(P)
<1>1. \A x \in P : x.media \in Nat /\ x.distance \in Nat /\ x = [media |-> x.media, distance |-> x.distance]
  BY DEF Found
<1>2. ASSUME NEW x \in Nearest(A) PROVE x \in Nearest(P)
  <2>1. x \in P /\ \A y \in A : y.media = x.media => y.distance >= x.distance
    BY DEF Nearest
  <2>2. ASSUME NEW y \in P, y.media = x.media PROVE y.distance >= x.distance
    <3>1. PICK a \in A : a.media = y.media /\ a.distance <= y.distance
      OBVIOUS
    <3>2. a \in P /\ a.distance >= x.distance
      BY <2>1, <2>2, <3>1
    <3> QED BY <1>1, <2>1, <3>1, <3>2
  <2> QED BY <2>1, <2>2 DEF Nearest
<1>3. ASSUME NEW x \in Nearest(P) PROVE x \in Nearest(A)
  <2>1. x \in P /\ \A y \in P : y.media = x.media => y.distance >= x.distance
    BY DEF Nearest
  <2>2. PICK a \in A : a.media = x.media /\ a.distance <= x.distance
    BY <2>1
  <2>3. a \in P /\ a.distance = x.distance
    BY <1>1, <2>1, <2>2
  <2>4. a = x
    BY <1>1, <2>1, <2>2, <2>3
  <2> QED BY <2>1, <2>2, <2>4 DEF Nearest
<1> QED BY <1>2, <1>3

\* No two records have one identifier, and the index holds what the catalogue does.
OneOfEach    == \A r, s \in ToSet(records) : r.id = s.id => r = s
IndexFollows == ToSet(entries) = {[id |-> r.id, hash |-> r.hash] : r \in ToSet(records)}

\* Of every record near a variant the identifier is among the candidates.
NearOffered ==
  \A r \in ToSet(records), v \in ToSet(query) :
    Distance(v.hash, r.hash) <= policy.distance => r.id \in ToSet(candidates)

ImageInv ==
  /\ /\ records \in Seq(Record) /\ entries \in Seq(Entry) /\ candidates \in Seq(Nat)
     /\ query \in Query /\ policy \in ImagePolicy
  /\ OneOfEach
  /\ IndexFollows
  /\ phase \in {"verify", "verifyMore"} => NearOffered
  /\ phase = "verify" => ToSet(candidates) \subseteq ImageIds
  /\ phase = "verifyMore" => ToSet(candidates) \subseteq ImageIds \cup {Missing}
  /\ BestMatches

\* The record that a candidate stands for is the only one with the identifier.
LEMMA AtIs ==
  ASSUME OneOfEach, NEW r \in ToSet(records)
  PROVE  At(r.id) = r
BY DEF OneOfEach, At

\* The nearest pairs are what is verified of candidates that leave out no
\* record near a variant.
LEMMA MatchesAre ==
  ASSUME ImageInv, NearOffered, ToSet(candidates) \subseteq ImageIds
  PROVE  LET found == {At(id) : id \in ToSet(candidates)}
             all   == {[media |-> r.media, distance |-> Min(Distances(r))] :
                         r \in {r \in found : Verified(r)}}
         IN FirstOfEach(Ordered(all, NearerFirst))
              = Ordered({x \in Pairs : \A y \in Pairs : y.media = x.media => y.distance >= x.distance},
                        LAMBDA a, b : a.media < b.media)
<1> DEFINE found == {At(id) : id \in ToSet(candidates)}
           A     == {[media |-> r.media, distance |-> Min(Distances(r))] :
                       r \in {r \in found : Verified(r)}}
<1>1. /\ policy.distance \in Nat /\ query \in Seq(PdqFingerprint) /\ records \in Seq(Record)
      /\ OneOfEach
  BY ImageAssumption DEF ImageInv
<1>2. \A r \in ToSet(records) : r.media \in Nat /\ r.hash \in AllHash
  BY <1>1, FiniteElements, ImageAssumption
<1>3. \A v \in ToSet(query) : v.hash \in AllHash
  <2>1. ToSet(query) \subseteq PdqFingerprint
    BY <1>1, FiniteElements
  <2> QED BY <2>1 DEF PdqFingerprint
<1>4. \A r \in ToSet(records), v \in ToSet(query) :
         /\ Distance(v.hash, r.hash) \in Nat
         /\ Distance(v.hash, r.hash) = Distance(r.hash, v.hash)
  BY <1>2, <1>3, DistanceIs
<1>5. found \subseteq ToSet(records)
  <2>1. ASSUME NEW id \in ToSet(candidates) PROVE At(id) \in ToSet(records)
    <3>1. PICK r \in ToSet(records) : r.id = id
      BY DEF ImageIds
    <3> QED BY <1>1, <3>1, AtIs
  <2> QED BY <2>1
<1>6. \A r \in ToSet(records) : \A d :
         d \in Distances(r) <=>
           /\ d \in 0..policy.distance
           /\ \E v \in ToSet(query) : v.quality >= policy.quality /\ d = Distance(v.hash, r.hash)
  BY DEF Distances
<1>7. \A x : x \in Pairs <=>
         \E r \in ToSet(records), v \in ToSet(query) :
           /\ r.quality >= policy.quality /\ v.quality >= policy.quality
           /\ r.media # self /\ Distance(r.hash, v.hash) <= policy.distance
           /\ x = [media |-> r.media, distance |-> Distance(r.hash, v.hash)]
  <2> DEFINE good == {x \in ToSet(records) \X ToSet(query) :
                 /\ x[1].quality >= policy.quality /\ x[2].quality >= policy.quality
                 /\ x[1].media # self /\ Distance(x[1].hash, x[2].hash) <= policy.distance}
  <2>1. \A r, v : <<r, v>> \in good <=>
           /\ r \in ToSet(records) /\ v \in ToSet(query)
           /\ r.quality >= policy.quality /\ v.quality >= policy.quality
           /\ r.media # self /\ Distance(r.hash, v.hash) <= policy.distance
    OBVIOUS
  <2>3. Pairs = {[media |-> x[1].media, distance |-> Distance(x[1].hash, x[2].hash)] : x \in good}
    BY DEF Pairs
  <2>4. \A r, v : <<r, v>> \in good =>
           [media |-> r.media, distance |-> Distance(r.hash, v.hash)] \in Pairs
    <3>1. \A r, v : <<r, v>>[1] = r /\ <<r, v>>[2] = v
      OBVIOUS
    <3> HIDE DEF good
    <3> QED BY <2>3, <3>1
  <2>5. ASSUME NEW x \in Pairs
        PROVE  \E r, v : <<r, v>> \in good /\ x = [media |-> r.media, distance |-> Distance(r.hash, v.hash)]
    <3>1. PICK p \in good : x = [media |-> p[1].media, distance |-> Distance(p[1].hash, p[2].hash)]
      BY <2>3
    <3>2. p = <<p[1], p[2]>>
      OBVIOUS
    <3> HIDE DEF good
    <3> QED BY <3>1, <3>2
  <2> HIDE DEF good
  <2> QED BY <2>1, <2>4, <2>5
<1>8. \A r \in ToSet(records) : Verified(r) =>
         /\ r.media # self /\ r.quality >= policy.quality
         /\ Min(Distances(r)) \in Distances(r) /\ \A d \in Distances(r) : Min(Distances(r)) <= d
  <2>1. \A r \in ToSet(records) : Distances(r) \in SUBSET Nat
    BY <1>1, <1>6
  <2> QED BY <2>1, MinIs DEF Verified
<1>9. Pairs \in SUBSET Found
  BY <1>2, <1>4, <1>7 DEF Found
<1>10. A \in SUBSET Pairs
  <2>1. ASSUME NEW r \in found, Verified(r)
        PROVE  [media |-> r.media, distance |-> Min(Distances(r))] \in Pairs
    <3>1. r \in ToSet(records)
      BY <1>5
    <3>2. PICK v \in ToSet(query) : v.quality >= policy.quality /\ Min(Distances(r)) = Distance(v.hash, r.hash)
      BY <1>6, <1>8, <2>1, <3>1
    <3>3. Min(Distances(r)) = Distance(r.hash, v.hash) /\ Distance(r.hash, v.hash) <= policy.distance
      BY <1>1, <1>4, <1>6, <1>8, <2>1, <3>1, <3>2
    <3> QED BY <1>7, <1>8, <2>1, <3>1, <3>2, <3>3
  <2> HIDE DEF found
  <2> QED BY <2>1
<1>11. \A y \in Pairs : \E a \in A : a.media = y.media /\ a.distance <= y.distance
  <2>1. SUFFICES ASSUME NEW y \in Pairs PROVE \E a \in A : a.media = y.media /\ a.distance <= y.distance
    OBVIOUS
  <2>2. PICK r \in ToSet(records), v \in ToSet(query) :
           /\ r.quality >= policy.quality /\ v.quality >= policy.quality
           /\ r.media # self /\ Distance(r.hash, v.hash) <= policy.distance
           /\ y = [media |-> r.media, distance |-> Distance(r.hash, v.hash)]
    BY <1>7
  <2>3. r \in found
    BY <1>1, <1>4, <2>2, AtIs DEF NearOffered
  <2>4. Distance(r.hash, v.hash) \in Distances(r)
    BY <1>1, <1>4, <1>6, <2>2
  <2>5. Verified(r)
    BY <2>2, <2>4 DEF Verified
  <2>6. Min(Distances(r)) <= Distance(r.hash, v.hash)
    BY <1>8, <2>2, <2>4, <2>5
  <2>7. [media |-> r.media, distance |-> Min(Distances(r))] \in A
    BY <2>3, <2>5
  <2> HIDE DEF A
  <2> QED BY <2>2, <2>6, <2>7
<1>12. IsFiniteSet(A)
  <2> DEFINE f == [i \in 1..Len(records) |->
                     [media |-> records[i].media, distance |-> Min(Distances(records[i]))]]
             V == {f[i] : i \in 1..Len(records)}
  <2>1. Len(records) \in Nat /\ DOMAIN records = 1..Len(records)
    BY <1>1, FiniteElements
  <2>2. IsFiniteSet(V)
    <3>1. IsFiniteSet(1..Len(records))
      BY <2>1, FS_Interval
    <3> HIDE DEF f
    <3> QED BY <3>1, FiniteValues
  <2>3. \A r \in ToSet(records) : [media |-> r.media, distance |-> Min(Distances(r))] \in V
    BY <2>1 DEF ToSet
  <2>4. A \in SUBSET V
    <3> HIDE DEF V, f, found
    <3> QED BY <1>5, <2>3
  <2> HIDE DEF V, A
  <2> QED BY <2>2, <2>4, FS_Subset
<1> HIDE DEF A, found
<1>13. Nearest(A) = Nearest(Pairs)
  BY <1>9, <1>10, <1>11, SameNearest
<1>14. A \in SUBSET Found
  BY <1>9, <1>10
<1>15. FirstOfEach(Ordered(A, NearerFirst)) = Ordered(Nearest(A), LAMBDA a, b : a.media < b.media)
  BY <1>12, <1>14, FirstOfEachIs
<1>16. FirstOfEach(Ordered(A, NearerFirst)) = Ordered(Nearest(Pairs), LAMBDA a, b : a.media < b.media)
  BY <1>13, <1>15
<1> QED BY <1>16 DEF Nearest, A, found

\* One record can be inserted at its place.
LEMMA PlaceIs ==
  ASSUME NEW S, entries \in Seq(S), NEW id
  PROVE  Place(id) \in 1..Len(entries) + 1
<1> DEFINE P == {p \in DOMAIN entries : entries[p].id < id}
<1>1. Len(entries) \in Nat /\ DOMAIN entries = 1..Len(entries)
  BY FiniteElements
<1>2. P \in SUBSET (1..Len(entries))
  BY <1>1
<1>3. IsFiniteSet(1..Len(entries)) /\ Cardinality(1..Len(entries)) = Len(entries)
  BY <1>1, FS_Interval
<1> HIDE DEF P
<1>4. IsFiniteSet(P) /\ Cardinality(P) <= Len(entries)
  BY <1>2, <1>3, FS_Subset
<1>5. Cardinality(P) \in Nat
  BY <1>4, FS_CardinalityType
<1>6. Cardinality(P) + 1 \in 1..Len(entries) + 1
  BY <1>1, <1>4, <1>5
<1> QED BY <1>6 DEF P, Place

\* Every step keeps what the matches depend on, and the last one gives the best.
LEMMA ImageStep == ImageInv /\ [NextImages]_imageVars => ImageInv'
<1> SUFFICES ASSUME ImageInv, [NextImages]_imageVars PROVE ImageInv'
  OBVIOUS
<1>1. /\ records \in Seq(Record) /\ entries \in Seq(Entry) /\ candidates \in Seq(Nat)
      /\ query \in Query /\ policy \in ImagePolicy /\ OneOfEach /\ IndexFollows
  BY DEF ImageInv
<1>2. ASSUME NEW r \in Record, Insert(r) PROVE ImageInv'
  <2> DEFINE e == [id |-> r.id, hash |-> r.hash]
  <2>1. /\ phase = "fill" /\ ~Known(r.id)
        /\ entries' = InsertAt(entries, Place(r.id), e) /\ records' = Append(records, r)
        /\ UNCHANGED <<query, policy, self, candidates, phase, matches>>
    BY <1>2 DEF Insert
  <2>2. e \in Entry
    BY ImageAssumption DEF Entry
  <2>3. records' \in Seq(Record) /\ ToSet(records') = ToSet(records) \cup {r}
    BY <1>1, <2>1, AppendedElements
  <2>4. entries' \in Seq(Entry) /\ ToSet(entries') = ToSet(entries) \cup {e}
    <3>1. Place(r.id) \in 1..Len(entries) + 1
      BY <1>1, PlaceIs
    <3> HIDE DEF e
    <3> QED BY <1>1, <2>1, <2>2, <3>1, InsertedElements
  <2>5. \A s \in ToSet(records) : s.id # r.id
    <3>1. \A x \in ToSet(entries) : x.id # r.id
      BY <2>1 DEF Known, ToSet
    <3>2. \A s \in ToSet(records) : [id |-> s.id, hash |-> s.hash] \in ToSet(entries)
      BY <1>1 DEF IndexFollows
    <3> QED BY <3>1, <3>2
  <2>6. OneOfEach'
    BY <1>1, <2>3, <2>5 DEF OneOfEach
  <2>7. IndexFollows'
    <3>1. ToSet(entries) = {[id |-> x.id, hash |-> x.hash] : x \in ToSet(records)}
      BY <1>1 DEF IndexFollows
    <3>2. ToSet(entries)' = {[id |-> x.id, hash |-> x.hash] : x \in ToSet(records)'}
      BY <2>3, <2>4, <3>1
    <3> QED BY <3>2 DEF IndexFollows
  <2>8. BestMatches'
    BY <2>1 DEF BestMatches
  <2> QED BY <1>1, <2>1, <2>3, <2>4, <2>6, <2>7, <2>8 DEF ImageInv
<1>3. CASE FindImageCandidates
  <2>1. /\ UNCHANGED <<records, entries, query, policy, self, matches>>
        /\ \/ phase' = "invalid" /\ UNCHANGED candidates
           \/ phase' = "verify" /\ candidates' = Merged
    BY <1>3 DEF FindImageCandidates
  <2>2. /\ Merged \in Seq(Nat)
        /\ ToSet(Merged) = {e.id : e \in {e \in ToSet(entries) :
             \E v \in ToSet(query) : Distance(v.hash, e.hash) <= policy.distance}}
    <3>1. query \in Seq(PdqFingerprint)
      BY <1>1, ImageAssumption
    <3> QED BY <1>1, <3>1, MergedIs
  <2>3. OneOfEach' /\ IndexFollows' /\ BestMatches'
    BY <1>1, <2>1 DEF OneOfEach, IndexFollows, BestMatches
  <2>4. ASSUME NEW r \in ToSet(records), NEW v \in ToSet(query),
               Distance(v.hash, r.hash) <= policy.distance
        PROVE  r.id \in ToSet(Merged)
    <3>1. [id |-> r.id, hash |-> r.hash] \in ToSet(entries)
      BY <1>1 DEF IndexFollows
    <3> QED BY <2>2, <2>4, <3>1
  <2>5. ToSet(Merged) \subseteq ImageIds
    <3>1. \A e \in ToSet(entries) : \E r \in ToSet(records) : e.id = r.id
      BY <1>1 DEF IndexFollows
    <3> QED BY <2>2, <3>1 DEF ImageIds
  <2>6. CASE phase' = "verify" /\ candidates' = Merged
    <3>1. NearOffered'
      BY <2>1, <2>4, <2>6 DEF NearOffered
    <3>2. (ToSet(candidates) \subseteq ImageIds)'
      BY <2>1, <2>5, <2>6 DEF ImageIds
    <3> QED BY <1>1, <2>1, <2>2, <2>3, <2>6, <3>1, <3>2 DEF ImageInv
  <2>7. CASE phase' = "invalid" /\ UNCHANGED candidates
    BY <1>1, <2>1, <2>3, <2>7 DEF ImageInv
  <2> QED BY <2>1, <2>6, <2>7
<1>4. CASE OtherImageCandidates
  <2>1. /\ UNCHANGED <<records, entries, query, policy, self, matches>>
        /\ phase = "verify" /\ phase' = "verifyMore"
        /\ \E id \in ImageIds \cup {Missing} : candidates' = <<id>> \o candidates
    BY <1>4 DEF OtherImageCandidates, AddCandidate
  <2>2. PICK id \in ImageIds \cup {Missing} : candidates' = <<id>> \o candidates
    BY <2>1
  <2>3. id \in Nat
    <3>1. ToSet(records) \subseteq Record
      BY <1>1, FiniteElements
    <3> QED BY <3>1, ImageAssumption DEF ImageIds
  <2>4. candidates' \in Seq(Nat) /\ ToSet(candidates') = {id} \cup ToSet(candidates)
    <3>1. PICK one : one = <<id>>
      OBVIOUS
    <3>2. one \in Seq(Nat) /\ ToSet(one) = {id}
      BY <2>3, <3>1, OneElement
    <3>3. candidates' = one \o candidates
      BY <2>2, <3>1
    <3> QED BY <1>1, <3>2, <3>3, JoinedElements
  <2>5. NearOffered /\ ToSet(candidates) \subseteq ImageIds
    BY <2>1 DEF ImageInv
  <2>6. NearOffered'
    BY <2>1, <2>4, <2>5 DEF NearOffered
  <2>7. (ToSet(candidates) \subseteq ImageIds \cup {Missing})'
    BY <2>1, <2>2, <2>4, <2>5 DEF ImageIds
  <2>8. OneOfEach' /\ IndexFollows' /\ BestMatches'
    BY <1>1, <2>1 DEF OneOfEach, IndexFollows, BestMatches
  <2> QED BY <1>1, <2>1, <2>4, <2>6, <2>7, <2>8 DEF ImageInv
<1>5. CASE VerifyImageCandidates
  <2> DEFINE found == {At(id) : id \in ToSet(candidates)}
             A     == {[media |-> r.media, distance |-> Min(Distances(r))] :
                         r \in {r \in found : Verified(r)}}
             list  == FirstOfEach(Ordered(A, NearerFirst))
  <2>1. /\ UNCHANGED <<records, entries, query, policy, self, candidates>>
        /\ phase \in {"verify", "verifyMore"}
        /\ \/ ~ToSet(candidates) \subseteq ImageIds /\ phase' = "out_of_range"
           \/ /\ ToSet(candidates) \subseteq ImageIds
              /\ matches' = list /\ phase' = "matched"
    BY <1>5 DEF VerifyImageCandidates
  <2> HIDE DEF list
  <2>2. OneOfEach' /\ IndexFollows'
    BY <1>1, <2>1 DEF OneOfEach, IndexFollows
  <2>3. BestMatches'
    <3>1. CASE phase' = "out_of_range" /\ ~ToSet(candidates) \subseteq ImageIds
      <4>1. Missing \in ToSet(candidates)
        BY <2>1, <3>1 DEF ImageInv
      <4> QED BY <2>1, <3>1, <4>1 DEF BestMatches
    <3>2. CASE ToSet(candidates) \subseteq ImageIds /\ matches' = list /\ phase' = "matched"
      <4> DEFINE nearest == {x \in Pairs : \A y \in Pairs : y.media = x.media => y.distance >= x.distance}
      <4>1. NearOffered
        BY <2>1 DEF ImageInv
      <4>2. list = Ordered(nearest, LAMBDA a, b : a.media < b.media)
        BY <3>2, <4>1, MatchesAre DEF list
      <4>3. Pairs' = Pairs
        BY <2>1 DEF Pairs
      <4>4. nearest' = nearest
        BY <4>3
      <4>5. matches' = Ordered(nearest', LAMBDA a, b : a.media < b.media)
        BY <3>2, <4>2, <4>4
      <4> QED BY <3>2, <4>5 DEF BestMatches, Ordered
    <3> QED BY <2>1, <3>1, <3>2
  <2> QED BY <1>1, <2>1, <2>2, <2>3 DEF ImageInv
<1>6. CASE UNCHANGED imageVars
  <2>1. UNCHANGED <<records, query, policy, self, candidates, phase, matches, entries>>
    BY <1>6 DEF imageVars
  <2>2. OneOfEach' /\ IndexFollows'
    BY <1>1, <2>1 DEF OneOfEach, IndexFollows
  <2>4. BestMatches'
    <3>1. BestMatches
      BY DEF ImageInv
    <3>2. Pairs' = Pairs
      BY <2>1 DEF Pairs
    <3> QED BY <2>1, <3>1, <3>2 DEF BestMatches, Ordered
  <2>3. NearOffered' = NearOffered /\ ImageIds' = ImageIds
    BY <2>1 DEF NearOffered, ImageIds
  <2> QED BY <1>1, <2>1, <2>2, <2>3, <2>4 DEF ImageInv
<1> QED BY <1>2, <1>3, <1>4, <1>5, <1>6 DEF NextImages

\* Whatever order the index was filled in, what comes out of the search and the
\* verification is the nearest distance of each image: all of them, once each.
THEOREM MatchesAreBest == SpecImages => []BestMatches
<1>1. InitImages => ImageInv
  <2> SUFFICES ASSUME InitImages PROVE ImageInv
    OBVIOUS
  <2>1. /\ records = << >> /\ entries = << >> /\ candidates = << >> /\ phase = "fill"
        /\ query \in Query /\ policy \in ImagePolicy
    BY DEF InitImages
  <2>2. records \in Seq(Record) /\ entries \in Seq(Entry) /\ candidates \in Seq(Nat)
    BY <2>1
  <2>3. ToSet(records) = {} /\ ToSet(entries) = {}
    BY <2>1 DEF ToSet
  <2> QED BY <2>1, <2>2, <2>3 DEF ImageInv, OneOfEach, IndexFollows, BestMatches
<1>2. ImageInv => BestMatches
  BY DEF ImageInv
<1> QED BY <1>1, <1>2, ImageStep, PTL DEF SpecImages

SameLengths(a, b, n) == \A i \in 1..n : Len(a[i]) = Len(b[i])

\* The elements of the same places are at the same positions.
Parallel(a, b, n) ==
  /\ DOMAIN FlattenSeq(a) = DOMAIN FlattenSeq(b) /\ IsFiniteSet(DOMAIN FlattenSeq(a))
  /\ \A p \in DOMAIN FlattenSeq(a) : \E i \in 1..n : \E k \in 1..Len(a[i]) :
       FlattenSeq(a)[p] = a[i][k] /\ FlattenSeq(b)[p] = b[i][k]
  /\ \A i \in 1..n : \A k \in 1..Len(a[i]) : \E p \in DOMAIN FlattenSeq(a) :
       FlattenSeq(a)[p] = a[i][k] /\ FlattenSeq(b)[p] = b[i][k]

\* Two lists of sequences of the same lengths are put together alike.
LEMMA FlattenBoth ==
  ASSUME NEW C, NEW D, NEW n \in Nat, NEW a \in Lists(n, C), NEW b \in Lists(n, D),
         SameLengths(a, b, n)
  PROVE  Parallel(a, b, n)
<1> SUFFICES
      /\ DOMAIN FlattenSeq(a) = DOMAIN FlattenSeq(b) /\ IsFiniteSet(DOMAIN FlattenSeq(a))
      /\ \A p \in DOMAIN FlattenSeq(a) : \E i \in 1..n : \E k \in 1..Len(a[i]) :
           FlattenSeq(a)[p] = a[i][k] /\ FlattenSeq(b)[p] = b[i][k]
      /\ \A i \in 1..n : \A k \in 1..Len(a[i]) : \E p \in DOMAIN FlattenSeq(a) :
           FlattenSeq(a)[p] = a[i][k] /\ FlattenSeq(b)[p] = b[i][k]
  BY DEF Parallel
<1> DEFINE Good(x, y, m) ==
             /\ Len(x) = Len(y)
             /\ \A p \in 1..Len(x) : \E i \in 1..m : \E k \in 1..Len(a[i]) : x[p] = a[i][k] /\ y[p] = b[i][k]
             /\ \A i \in 1..m : \A k \in 1..Len(a[i]) : \E p \in 1..Len(x) : x[p] = a[i][k] /\ y[p] = b[i][k]
<1>1. \A i \in 1..n : a[i] \in Seq(C) /\ b[i] \in Seq(D) /\ Len(a[i]) \in Nat
  BY DEF Lists
<1>0. \A i \in 1..n : Len(a[i]) = Len(b[i])
  BY DEF SameLengths
<1>2. CASE n = 0
  <2>1. a = << >> /\ b = << >> /\ Len(a) = 0 /\ Len(b) = 0
    BY <1>2 DEF Lists
  <2>2. FlattenSeq(a) = << >> /\ FlattenSeq(b) = << >>
    BY <2>1 DEF FlattenSeq
  <2>3. DOMAIN << >> = {} /\ 1..n = {}
    BY <1>2
  <2> QED BY <2>2, <2>3, FS_EmptySet
<1>3. CASE n # 0
  <2>1. n \in Nat \ {0} /\ a \in Lists(n, C) /\ b \in Lists(n, D)
    BY <1>3 DEF Lists
  <2>a. PICK f \in Lists(n, C) : Joins(f, a, n)
    BY <2>1, FlattenDefined
  <2>b. PICK g \in Lists(n, D) : Joins(g, b, n)
    BY <2>1, FlattenDefined
  <2>2. /\ f \in [1..n -> Seq(C)] /\ FlattenSeq(a) = f[n] /\ f[1] = a[1]
        /\ \A i \in 1..n - 1 : f[i + 1] = f[i] \o a[i + 1]
    BY <2>a DEF Lists, Joins
  <2>3. /\ g \in [1..n -> Seq(D)] /\ FlattenSeq(b) = g[n] /\ g[1] = b[1]
        /\ \A i \in 1..n - 1 : g[i + 1] = g[i] \o b[i + 1]
    BY <2>b DEF Lists, Joins
  <2> DEFINE T == {m \in 0..n - 1 : Good(f[m + 1], g[m + 1], m + 1)}
  <2>4. Good(f[1], g[1], 1)
    <3>1. 1 \in 1..n /\ \A i \in 1..1 : i = 1
      BY <2>1
    <3> QED BY <1>0, <2>2, <2>3, <3>1
  <2>5. ASSUME NEW i \in 1..n - 1, Good(f[i], g[i], i) PROVE Good(f[i + 1], g[i + 1], i + 1)
    <3>1. PICK m : m = i + 1
      OBVIOUS
    <3>2. i \in 1..n /\ m \in 1..n /\ i \in Nat /\ \A j \in 1..m : j = m \/ j \in 1..i
      BY <3>1
    <3>3. PICK x \in Seq(C), y \in Seq(D) : x = f[i] /\ y = g[i]
      BY <2>2, <2>3, <3>2
    <3>4. PICK s \in Seq(C), t \in Seq(D) : s = a[m] /\ t = b[m]
      BY <1>1, <3>2
    <3>5. f[m] = x \o s /\ g[m] = y \o t
      BY <2>2, <2>3, <3>1, <3>3, <3>4
    <3>6. Len(x) = Len(y) /\ Len(s) = Len(t) /\ Len(x) \in Nat /\ Len(s) \in Nat
      BY <1>0, <2>5, <3>2, <3>3, <3>4
    <3>7. /\ Len(x \o s) = Len(x) + Len(s) /\ Len(y \o t) = Len(x) + Len(s)
          /\ \A p \in 1..Len(x) + Len(s) :
               /\ (x \o s)[p] = IF p <= Len(x) THEN x[p] ELSE s[p - Len(x)]
               /\ (y \o t)[p] = IF p <= Len(x) THEN y[p] ELSE t[p - Len(x)]
      <4>1. /\ x \o s \in Seq(C) /\ Len(x \o s) = Len(x) + Len(s)
            /\ \A p \in 1..Len(x) + Len(s) : (x \o s)[p] = IF p <= Len(x) THEN x[p] ELSE s[p - Len(x)]
        BY ConcatProperties
      <4>2. /\ y \o t \in Seq(D) /\ Len(y \o t) = Len(y) + Len(t)
            /\ \A p \in 1..Len(y) + Len(t) : (y \o t)[p] = IF p <= Len(y) THEN y[p] ELSE t[p - Len(y)]
        BY ConcatProperties
      <4> QED BY <3>6, <4>1, <4>2
    <3>8. PICK u, v : u = x \o s /\ v = y \o t
      OBVIOUS
    <3>9. ASSUME NEW p \in 1..Len(u)
          PROVE  \E j \in 1..m : \E k \in 1..Len(a[j]) : u[p] = a[j][k] /\ v[p] = b[j][k]
      <4>1. p \in 1..Len(x) + Len(s) /\ (p <= Len(x) => p \in 1..Len(x))
            /\ (~(p <= Len(x)) => p - Len(x) \in 1..Len(s))
        BY <3>6, <3>7, <3>8, <3>9
      <4>2. CASE p <= Len(x)
        <5>1. u[p] = x[p] /\ v[p] = y[p] /\ p \in 1..Len(x)
          BY <3>7, <3>8, <4>1, <4>2
        <5>2. PICK j \in 1..i : \E k \in 1..Len(a[j]) : x[p] = a[j][k] /\ y[p] = b[j][k]
          BY <2>5, <3>3, <5>1
        <5>3. j \in 1..m
          BY <3>1, <3>2
        <5> QED BY <5>1, <5>2, <5>3
      <4>3. CASE ~(p <= Len(x))
        <5>1. u[p] = s[p - Len(x)] /\ v[p] = t[p - Len(x)] /\ p - Len(x) \in 1..Len(s)
          BY <3>7, <3>8, <4>1, <4>3
        <5>2. m \in 1..m
          BY <3>2
        <5> QED BY <3>4, <5>1, <5>2
      <4> QED BY <4>2, <4>3
    <3>10. ASSUME NEW j \in 1..m, NEW k \in 1..Len(a[j])
           PROVE  \E p \in 1..Len(u) : u[p] = a[j][k] /\ v[p] = b[j][k]
      <4>1. CASE j = m
        <5>1. k \in 1..Len(s) /\ k \in Nat
          BY <3>4, <3>10, <4>1
        <5>2. PICK p : p = Len(x) + k
          OBVIOUS
        <5>3. p \in 1..Len(x) + Len(s) /\ ~(p <= Len(x)) /\ p - Len(x) = k
          BY <3>6, <5>1, <5>2
        <5>4. u[p] = s[k] /\ v[p] = t[k] /\ p \in 1..Len(u)
          BY <3>7, <3>8, <5>3
        <5> QED BY <3>4, <4>1, <5>4
      <4>2. CASE j # m
        <5>1. j \in 1..i
          BY <3>2, <4>2
        <5>2. PICK p \in 1..Len(x) : x[p] = a[j][k] /\ y[p] = b[j][k]
          BY <2>5, <3>3, <5>1
        <5>3. p \in 1..Len(x) + Len(s) /\ p <= Len(x)
          BY <3>6
        <5>4. u[p] = x[p] /\ v[p] = y[p] /\ p \in 1..Len(u)
          BY <3>7, <3>8, <5>3
        <5> QED BY <5>2, <5>4
      <4> QED BY <4>1, <4>2
    <3>11. Len(u) = Len(v)
      BY <3>7, <3>8
    <3>12. Good(u, v, m)
      BY <3>9, <3>10, <3>11
    <3> HIDE DEF Good
    <3> QED BY <3>1, <3>5, <3>8, <3>12
  <2> HIDE DEF Good
  <2>6. n - 1 \in T
    <3>1. T \in SUBSET (0..n - 1) /\ n - 1 \in Nat
      BY <2>1
    <3>2. 0 \in T
      <4>1. 0 \in 0..n - 1 /\ 0 + 1 = 1
        BY <2>1
      <4> QED BY <2>4, <4>1
    <3>3. ASSUME NEW m \in 0..(n - 1) - 1, m \in T PROVE m + 1 \in T
      <4>1. m + 1 \in 1..n - 1 /\ m + 1 \in 0..n - 1
        BY <2>1
      <4> QED BY <2>5, <3>3, <4>1
    <3>4. PICK w \in Nat : w = n - 1
      BY <3>1
    <3> HIDE DEF T
    <3>5. \A m \in 0..w : m \in T
      BY <3>1, <3>2, <3>3, <3>4, Induct
    <3> QED BY <3>4, <3>5
  <2>7. Good(f[n], g[n], n)
    <3>1. n - 1 + 1 = n
      BY <2>1
    <3> QED BY <2>6, <3>1
  <2>8. PICK x \in Seq(C), y \in Seq(D) : x = FlattenSeq(a) /\ y = FlattenSeq(b) /\ Good(x, y, n)
    <3>1. n \in 1..n
      BY <2>1
    <3> QED BY <2>2, <2>3, <2>7, <3>1
  <2>9. DOMAIN x = 1..Len(x) /\ DOMAIN y = 1..Len(y) /\ IsFiniteSet(1..Len(x))
    BY FiniteElements, FS_Interval
  <2>10. /\ Len(x) = Len(y)
         /\ \A p \in 1..Len(x) : \E i \in 1..n : \E k \in 1..Len(a[i]) : x[p] = a[i][k] /\ y[p] = b[i][k]
         /\ \A i \in 1..n : \A k \in 1..Len(a[i]) : \E p \in 1..Len(x) : x[p] = a[i][k] /\ y[p] = b[i][k]
    BY <2>8 DEF Good
  <2>11. DOMAIN x = DOMAIN y /\ IsFiniteSet(DOMAIN x)
    BY <2>9, <2>10
  <2>12. \A p \in DOMAIN x : \E i \in 1..n : \E k \in 1..Len(a[i]) : x[p] = a[i][k] /\ y[p] = b[i][k]
    BY <2>9, <2>10
  <2>13. \A i \in 1..n : \A k \in 1..Len(a[i]) : \E p \in DOMAIN x : x[p] = a[i][k] /\ y[p] = b[i][k]
    <3>1. ASSUME NEW i \in 1..n, NEW k \in 1..Len(a[i])
          PROVE  \E p \in DOMAIN x : x[p] = a[i][k] /\ y[p] = b[i][k]
      <4>1. PICK p \in 1..Len(x) : x[p] = a[i][k] /\ y[p] = b[i][k]
        BY <2>10
      <4>2. p \in DOMAIN x
        BY <2>9
      <4> QED BY <4>1, <4>2
    <3> QED BY <3>1
  <2> QED BY <2>8, <2>11, <2>12, <2>13
<1> QED BY <1>2, <1>3

-----------------------------------------------------------------------------
(***************************************************************************)
(* The matches of a video.                                                 *)
(***************************************************************************)

\* VideoFingerprintRecord
VideoRecord == [id : Nat \ {Missing}, signature : Seq(PdqFingerprint)]

\* The record matches the query by the definition.
Matches(r) ==
  /\ r.id # self /\ Eligible(query) # {} /\ Eligible(r.signature) # {}
  /\ Covers(policy.query, Eligible(query), Eligible(r.signature))
  /\ Covers(policy.candidate, Eligible(r.signature), Eligible(query))

\* The catalogue holds the records given, no two of one identifier, and their frames.
Built ==
  /\ ToSet(records) = ToSet(input)
  /\ \A r, s \in ToSet(input) : r.id = s.id => r = s
  /\ frames = FramesOf(records)

VideoInv ==
  /\ /\ input \in Input /\ query \in Signature /\ policy \in VideoPolicy
     /\ records \in Seq(VideoRecord) /\ candidates \in Seq(Nat)
  /\ phase \in {"find", "verify", "verifyMore", "matched"} => Built
  /\ phase \in {"verify", "verifyMore"} => \A r \in ToSet(input) : Matches(r) => r.id \in ToSet(candidates)
  /\ phase = "verify" => ToSet(candidates) \subseteq VideoIds
  /\ phase = "verifyMore" => ToSet(candidates) \subseteq VideoIds \cup {Missing}
  /\ MatchesExact

\* Every frame of a record has its hash in the index and its video and quality
\* in the catalogue, under one identifier, and there is nothing else.
LEMMA FramesAre ==
  ASSUME NEW list \in Seq(VideoRecord)
  PROVE  /\ DOMAIN IndexEntries(list) = DOMAIN FramesOf(list) /\ IsFiniteSet(DOMAIN IndexEntries(list))
         /\ \A p \in DOMAIN IndexEntries(list) :
              \E r \in ToSet(list) : \E k \in DOMAIN r.signature :
                /\ IndexEntries(list)[p] = r.signature[k].hash
                /\ FramesOf(list)[p] = [video |-> r.id, quality |-> r.signature[k].quality]
         /\ \A r \in ToSet(list) : \A k \in DOMAIN r.signature :
              \E p \in DOMAIN IndexEntries(list) :
                /\ IndexEntries(list)[p] = r.signature[k].hash
                /\ FramesOf(list)[p] = [video |-> r.id, quality |-> r.signature[k].quality]
<1> DEFINE n == Len(list)
           hashes(i) == [k \in DOMAIN list[i].signature |-> list[i].signature[k].hash]
           frame(i)  == [k \in DOMAIN list[i].signature |->
                          [video |-> list[i].id, quality |-> list[i].signature[k].quality]]
           Videos == [video : Nat \ {Missing}, quality : Quality]
           a == [i \in DOMAIN list |-> hashes(i)]
           b == [i \in DOMAIN list |-> frame(i)]
<1>1. n \in Nat /\ DOMAIN list = 1..n
  BY FiniteElements
<1>2. ASSUME NEW i \in 1..n
      PROVE  /\ hashes(i) \in Seq(AllHash) /\ frame(i) \in Seq(Videos)
             /\ Len(hashes(i)) = Len(list[i].signature) /\ Len(frame(i)) = Len(list[i].signature)
             /\ DOMAIN list[i].signature = 1..Len(list[i].signature)
  <2>1. list[i] \in VideoRecord
    BY ElementOfSeq
  <2>2. PICK s \in Seq(PdqFingerprint) : s = list[i].signature /\ list[i].id \in Nat \ {Missing}
    BY <2>1 DEF VideoRecord
  <2>3. Len(s) \in Nat /\ DOMAIN s = 1..Len(s) /\ \A k \in 1..Len(s) : s[k] \in PdqFingerprint
    BY FiniteElements, ElementOfSeq
  <2>4. \A k \in 1..Len(s) : s[k].hash \in AllHash /\ s[k].quality \in Quality
    BY <2>3 DEF PdqFingerprint
  <2>5. hashes(i) = [k \in 1..Len(s) |-> s[k].hash]
    BY <2>2, <2>3
  <2>6. frame(i) = [k \in 1..Len(s) |-> [video |-> list[i].id, quality |-> s[k].quality]]
    BY <2>2, <2>3
  <2>7. hashes(i) \in Seq(AllHash) /\ Len(hashes(i)) = Len(s)
    BY <2>3, <2>4, <2>5
  <2>8. frame(i) \in Seq(Videos) /\ Len(frame(i)) = Len(s)
    <3>1. \A k \in 1..Len(s) : [video |-> list[i].id, quality |-> s[k].quality] \in Videos
      BY <2>2, <2>4
    <3>2. PICK m, f : m \in Nat /\ m = Len(s) /\ f = frame(i)
      BY <2>3
    <3>3. m \in Nat /\ f \in [1..m -> Videos]
      BY <2>6, <3>1, <3>2
    <3> HIDE DEF Videos, frame
    <3>4. f \in Seq(Videos) /\ Len(f) = m
      BY <3>3
    <3> QED BY <3>2, <3>4
  <2> QED BY <2>2, <2>3, <2>7, <2>8
<1>3. IndexEntries(list) = FlattenSeq(a) /\ FramesOf(list) = FlattenSeq(b)
  BY DEF IndexEntries, FramesOf
<1>4. /\ a \in Lists(n, AllHash) /\ b \in Lists(n, Videos)
      /\ \A i \in 1..n : Len(a[i]) = Len(b[i])
      /\ \A i \in 1..n : Len(a[i]) = Len(list[i].signature)
  <2> HIDE DEF Videos, hashes, frame, n
  <2> QED BY <1>1, <1>2 DEF Lists
<1>5. \A i \in 1..n : \A k \in 1..Len(list[i].signature) :
         a[i][k] = list[i].signature[k].hash
         /\ b[i][k] = [video |-> list[i].id, quality |-> list[i].signature[k].quality]
  <2>1. ASSUME NEW i \in 1..n, NEW k \in 1..Len(list[i].signature)
        PROVE  /\ a[i][k] = list[i].signature[k].hash
               /\ b[i][k] = [video |-> list[i].id, quality |-> list[i].signature[k].quality]
    <3>1. k \in DOMAIN list[i].signature /\ i \in DOMAIN list
      BY <1>1, <1>2
    <3>2. a[i] = hashes(i) /\ b[i] = frame(i)
      BY <3>1
    <3> QED BY <3>1, <3>2
  <2> QED BY <2>1
<1> HIDE DEF a, b, Videos, n
<1>6. /\ DOMAIN FlattenSeq(a) = DOMAIN FlattenSeq(b) /\ IsFiniteSet(DOMAIN FlattenSeq(a))
      /\ \A p \in DOMAIN FlattenSeq(a) : \E i \in 1..n : \E k \in 1..Len(a[i]) :
           FlattenSeq(a)[p] = a[i][k] /\ FlattenSeq(b)[p] = b[i][k]
      /\ \A i \in 1..n : \A k \in 1..Len(a[i]) : \E p \in DOMAIN FlattenSeq(a) :
           FlattenSeq(a)[p] = a[i][k] /\ FlattenSeq(b)[p] = b[i][k]
  <2>1. SameLengths(a, b, n)
    BY <1>4 DEF SameLengths
  <2>2. Parallel(a, b, n)
    BY <1>1, <1>4, <2>1, FlattenBoth
  <2> QED BY <2>2 DEF Parallel
<1>7. PICK E, F : E = IndexEntries(list) /\ F = FramesOf(list)
  OBVIOUS
<1>8. /\ DOMAIN E = DOMAIN F /\ IsFiniteSet(DOMAIN E)
      /\ \A p \in DOMAIN E : \E i \in 1..n : \E k \in 1..Len(a[i]) :
           E[p] = a[i][k] /\ F[p] = b[i][k]
      /\ \A i \in 1..n : \A k \in 1..Len(a[i]) : \E p \in DOMAIN E :
           E[p] = a[i][k] /\ F[p] = b[i][k]
  BY <1>3, <1>6, <1>7
<1>9. \A i \in 1..n : list[i] \in ToSet(list) /\ DOMAIN list[i].signature = 1..Len(list[i].signature)
  BY <1>1, <1>2 DEF ToSet
<1>10. ASSUME NEW p \in DOMAIN E
       PROVE  \E r \in ToSet(list) : \E k \in DOMAIN r.signature :
                /\ E[p] = r.signature[k].hash
                /\ F[p] = [video |-> r.id, quality |-> r.signature[k].quality]
  <2>1. PICK i \in 1..n : \E k \in 1..Len(a[i]) : E[p] = a[i][k] /\ F[p] = b[i][k]
    BY <1>8
  <2>2. PICK k \in 1..Len(list[i].signature) : E[p] = a[i][k] /\ F[p] = b[i][k]
    BY <1>4, <2>1
  <2> QED BY <1>5, <1>9, <2>2
<1>11. ASSUME NEW r \in ToSet(list), NEW k \in DOMAIN r.signature
       PROVE  \E p \in DOMAIN E :
                /\ E[p] = r.signature[k].hash
                /\ F[p] = [video |-> r.id, quality |-> r.signature[k].quality]
  <2>1. PICK i \in 1..n : r = list[i]
    BY <1>1 DEF ToSet
  <2>2. k \in 1..Len(list[i].signature) /\ k \in 1..Len(a[i])
    BY <1>4, <1>9, <2>1
  <2>3. PICK p \in DOMAIN E : E[p] = a[i][k] /\ F[p] = b[i][k]
    BY <1>8, <2>2
  <2> QED BY <1>5, <2>1, <2>2, <2>3
<1> QED BY <1>7, <1>8, <1>10, <1>11

\* The first frame of a hash decides, in the code and in the definition.
LEMMA EligibleIs ==
  ASSUME NEW s \in Seq(PdqFingerprint), policy.quality \in Nat
  PROVE  /\ MatchingHashes(s, policy.quality) = Eligible(s)
         /\ Eligible(s) \in SUBSET AllHash /\ IsFiniteSet(Eligible(s))
         /\ \A h \in Eligible(s) : \E k \in DOMAIN s : s[k].hash = h /\ s[k].quality >= policy.quality
<1>1. Len(s) \in Nat /\ DOMAIN s = 1..Len(s) /\ \A i \in 1..Len(s) : s[i].hash \in AllHash
  <2>1. Len(s) \in Nat /\ DOMAIN s = 1..Len(s) /\ \A i \in 1..Len(s) : s[i] \in PdqFingerprint
    BY FiniteElements, ElementOfSeq
  <2> QED BY <2>1 DEF PdqFingerprint
<1> DEFINE First(i, h) == s[i].hash = h /\ \A j \in 1..i - 1 : s[j].hash # h
           first(h) == CHOOSE i \in DOMAIN s : First(i, h)
<1>2. ASSUME NEW h, NEW i \in DOMAIN s, s[i].hash = h
      PROVE  first(h) \in DOMAIN s /\ First(first(h), h)
  <2> DEFINE T == {j \in DOMAIN s : s[j].hash = h}
  <2>1. T \in SUBSET Nat /\ T # {}
    BY <1>1, <1>2
  <2>2. PICK x \in T : \A y \in T : x <= y
    <3> HIDE DEF T
    <3> QED BY <2>1, Least
  <2>3. \A j \in 1..x - 1 : j \in DOMAIN s /\ ~(x <= j)
    BY <1>1
  <2>4. First(x, h) /\ x \in DOMAIN s
    BY <2>2, <2>3
  <2> HIDE DEF First
  <2> QED BY <2>4
<1>3. \A i, j \in DOMAIN s : \A h : First(i, h) /\ First(j, h) => i = j
  <2>1. \A i, j \in DOMAIN s : i = j \/ i \in 1..j - 1 \/ j \in 1..i - 1
    BY <1>1
  <2> QED BY <2>1
<1>4. \A i \in DOMAIN s : First(i, s[i].hash) <=> \A j \in 1..i - 1 : s[j].hash # s[i].hash
  OBVIOUS
<1>5. \A h : h \in Eligible(s) <=>
         (\E i \in DOMAIN s : s[i].hash = h) /\ s[first(h)].quality >= policy.quality
  BY DEF Eligible
<1>6. \A h : h \in MatchingHashes(s, policy.quality) <=>
         \E i \in DOMAIN s : s[i].hash = h /\ First(i, h) /\ s[i].quality >= policy.quality
  BY DEF MatchingHashes
<1> HIDE DEF First, first
<1>7. \A h : h \in Eligible(s) <=> h \in MatchingHashes(s, policy.quality)
  <2>1. ASSUME NEW h \in Eligible(s) PROVE h \in MatchingHashes(s, policy.quality)
    <3>1. first(h) \in DOMAIN s /\ First(first(h), h) /\ s[first(h)].quality >= policy.quality
      BY <1>2, <1>5
    <3>2. s[first(h)].hash = h
      BY <3>1 DEF First
    <3> QED BY <1>6, <3>1, <3>2
  <2>2. ASSUME NEW h \in MatchingHashes(s, policy.quality) PROVE h \in Eligible(s)
    <3>1. PICK i \in DOMAIN s : s[i].hash = h /\ First(i, h) /\ s[i].quality >= policy.quality
      BY <1>6
    <3>2. first(h) = i
      BY <1>2, <1>3, <3>1
    <3> QED BY <1>5, <3>1, <3>2
  <2> QED BY <2>1, <2>2
<1>8. IsFiniteSet(Eligible(s))
  <2> DEFINE f == [i \in 1..Len(s) |-> s[i].hash]
             V == {f[i] : i \in 1..Len(s)}
  <2>1. IsFiniteSet(V)
    <3>1. IsFiniteSet(1..Len(s))
      BY <1>1, FS_Interval
    <3> HIDE DEF f
    <3> QED BY <3>1, FiniteValues
  <2>2. Eligible(s) \in SUBSET V
    BY <1>1, <1>5
  <2> HIDE DEF V
  <2> QED BY <2>1, <2>2, FS_Subset
<1>9. Eligible(s) \in SUBSET AllHash
  BY <1>1, <1>5
<1>10. \A h \in Eligible(s) : \E k \in DOMAIN s : s[k].hash = h /\ s[k].quality >= policy.quality
  BY <1>6, <1>7
<1>11. MatchingHashes(s, policy.quality) = Eligible(s)
  BY <1>7
<1> QED BY <1>8, <1>9, <1>10, <1>11

\* What is counted is how many hashes have one near on the other side, at both
\* ends of the range of distances too.
LEMMA MatchedIs ==
  ASSUME NEW from \in SUBSET AllHash, NEW to \in SUBSET AllHash, IsFiniteSet(from),
         policy.distance \in 0..Farthest
  PROVE  Matched(from, to, policy.distance) = Cardinality(Near(from, to))
<1>1. \A a \in from, b \in to :
         /\ Distance(a, b) \in Nat /\ Farthest \in Nat /\ Distance(a, b) <= Farthest
         /\ Distance(a, b) = 0 <=> a = b
  BY DistanceIs
<1>2. CASE from = {} \/ to = {}
  <2>1. Near(from, to) = {}
    BY <1>2 DEF Near
  <2> QED BY <1>2, <2>1, FS_EmptySet DEF Matched
<1>3. CASE ~(from = {} \/ to = {}) /\ policy.distance = Farthest
  <2>1. Near(from, to) = from
    BY <1>1, <1>3 DEF Near
  <2> QED BY <1>3, <2>1 DEF Matched
<1>4. CASE ~(from = {} \/ to = {}) /\ policy.distance # Farthest /\ policy.distance = 0
  <2>1. Near(from, to) = from \cap to
    BY <1>1, <1>4 DEF Near
  <2> QED BY <1>4, <2>1 DEF Matched
<1>5. CASE ~(from = {} \/ to = {}) /\ policy.distance # Farthest /\ policy.distance # 0
  BY <1>5 DEF Matched, Covered, Near
<1> QED BY <1>2, <1>3, <1>4, <1>5

\* To cover a positive share of something, something must be near.
LEMMA CoversSome ==
  ASSUME NEW from, IsFiniteSet(from), from # {}, NEW to,
         NEW m, m[1] \in Nat \ {0}, m[2] \in Nat, Covers(m, from, to)
  PROVE  Near(from, to) # {}
<1>1. SUFFICES ASSUME Near(from, to) = {} PROVE FALSE
  OBVIOUS
<1>2. Cardinality(from) \in Nat /\ Cardinality(from) # 0 /\ Cardinality(Near(from, to)) = 0
  BY <1>1, FS_EmptySet, FS_CardinalityType
<1>3. 0 * m[2] >= m[1] * Cardinality(from)
  BY <1>2 DEF Covers
<1>4. 0 * m[2] = 0
  OBVIOUS
<1>5. \A x, y \in Nat : x # 0 /\ y # 0 => x * y > 0
  OBVIOUS
<1>6. m[1] * Cardinality(from) > 0 /\ m[1] * Cardinality(from) \in Nat
  BY <1>2, <1>5
<1> QED BY <1>3, <1>4, <1>6

\* Records of different identifiers can be sorted; none is lost.
LEMMA SortedIs ==
  ASSUME NEW list \in Seq(VideoRecord), \A r, s \in ToSet(list) : r.id = s.id => r = s
  PROVE  Sorted(list) \in Seq(VideoRecord) /\ ToSet(Sorted(list)) = ToSet(list)
<1>1. PICK A : A = ToSet(list)
  OBVIOUS
<1>2. IsFiniteSet(A) /\ A \subseteq VideoRecord /\ Cardinality(A) \in Nat
  BY <1>1, FiniteElements, FS_CardinalityType
<1> DEFINE R == {p \in A \X A : p[1].id < p[2].id}
           n == Cardinality(A)
<1>3. \A x, y \in A : <<x, y>> \in R <=> x.id < y.id
  OBVIOUS
<1> HIDE DEF R
<1>4. StrictOrder(A, R)
  <2>1. \A x \in A : x.id \in Nat
    BY <1>2 DEF VideoRecord
  <2>2. \A x, y \in A : x.id < y.id \/ y.id < x.id \/ x.id = y.id
    BY <2>1
  <2>3. \A x, y \in A : x = y \/ <<x, y>> \in R \/ <<y, x>> \in R
    BY <1>1, <1>3, <2>2
  <2> QED BY <1>3, <2>1, <2>3 DEF StrictOrder
<1>5. PICK L : L = Ordered(A, LAMBDA a, b : a.id < b.id)
  OBVIOUS
<1>6. InOrder(L, A, R)
  <2>1. PICK f : InOrder(f, A, R)
    BY <1>2, <1>4, Sortable
  <2>2. \E f1 \in [1..n -> A] : \A i, j \in 1..n : i < j => f1[i].id < f1[j].id
    BY <1>3, <2>1 DEF InOrder
  <2>3. L \in [1..n -> A] /\ \A i, j \in 1..n : i < j => L[i].id < L[j].id
    BY <1>5, <2>2 DEF Ordered
  <2> QED BY <1>3, <2>3 DEF InOrder
<1>7. L \in [1..n -> A] /\ \A x \in A : \E i \in 1..n : L[i] = x
  BY <1>2, <1>4, <1>6, SortedAll DEF InOrder
<1> HIDE DEF n
<1>8. L \in Seq(VideoRecord) /\ ToSet(L) = A
  <2>1. n \in Nat
    BY <1>2 DEF n
  <2>2. L \in Seq(VideoRecord) /\ DOMAIN L = 1..n
    BY <1>2, <1>7, <2>1
  <2> QED BY <1>7, <2>2 DEF ToSet
<1>9. Sorted(list) = L
  BY <1>1, <1>5 DEF Sorted
<1> QED BY <1>1, <1>8, <1>9

\* What the assumption says of the policy.
LEMMA PolicyIs ==
  ASSUME policy \in VideoPolicy
  PROVE  /\ policy.distance \in 0..Farthest /\ policy.quality \in Nat
         /\ policy.query[1] \in Nat /\ policy.query[2] \in Nat
         /\ policy.candidate[1] \in Nat /\ policy.candidate[2] \in Nat
<1>1. policy.distance \in 0..Farthest /\ policy.quality \in 0..100
      /\ \A m \in {policy.query, policy.candidate} : m[1] \in 0..m[2] /\ m[2] \in Nat \ {0}
  BY VideoAssumption DEF PolicyOK, Quality
<1> QED BY <1>1

\* The identifiers of the catalogue.
LEMMA VideoIdsAre ==
  ASSUME records \in Seq(VideoRecord)
  PROVE  /\ VideoIds = {r.id : r \in ToSet(records)}
         /\ VideoIds \in SUBSET Nat /\ IsFiniteSet(VideoIds)
<1>1. Len(records) \in Nat /\ DOMAIN records = 1..Len(records) /\ ToSet(records) \subseteq VideoRecord
  BY FiniteElements
<1>2. VideoIds = {r.id : r \in ToSet(records)}
  BY DEF VideoIds, ToSet
<1>3. VideoIds \in SUBSET Nat
  BY <1>1, <1>2 DEF VideoRecord
<1>4. IsFiniteSet(VideoIds)
  <2> DEFINE f == [i \in 1..Len(records) |-> records[i].id]
             V == {f[i] : i \in 1..Len(records)}
  <2>1. IsFiniteSet(V)
    <3>1. IsFiniteSet(1..Len(records))
      BY <1>1, FS_Interval
    <3> HIDE DEF f
    <3> QED BY <3>1, FiniteValues
  <2>2. VideoIds = V
    BY <1>1 DEF VideoIds
  <2> QED BY <2>1, <2>2
<1> QED BY <1>2, <1>3, <1>4

\* The frames an index finds near the query.
FoundFrames == UNION {Hits(hash) : hash \in MatchingHashes(query, policy.quality)}

\* They are frames of the catalogue, and with a minimum each video that
\* matches is among those of them that have the quality.
LEMMA RetrievedIs ==
  ASSUME records \in Seq(VideoRecord), query \in Seq(PdqFingerprint), policy \in VideoPolicy,
         frames = FramesOf(records)
  PROVE  /\ Retrieved(FoundFrames) \subseteq VideoIds
         /\ ~(policy.query[1] = 0 /\ policy.candidate[1] = 0) =>
              \A r \in ToSet(records) : Matches(r) => r.id \in Retrieved(FoundFrames)
<1>1. PICK E : E = IndexEntries(records)
  OBVIOUS
<1>2. /\ \A p \in DOMAIN E : \E r \in ToSet(records) : \E k \in DOMAIN r.signature :
           /\ E[p] = r.signature[k].hash
           /\ frames[p] = [video |-> r.id, quality |-> r.signature[k].quality]
      /\ \A r \in ToSet(records) : \A k \in DOMAIN r.signature : \E p \in DOMAIN E :
           /\ E[p] = r.signature[k].hash
           /\ frames[p] = [video |-> r.id, quality |-> r.signature[k].quality]
  BY <1>1, FramesAre
<1>3. \A h : Hits(h) = {p \in DOMAIN E : Distance(h, E[p]) <= policy.distance}
  BY <1>1 DEF Hits
<1>4. Retrieved(FoundFrames) \subseteq VideoIds
  <2>1. ASSUME NEW v \in Retrieved(FoundFrames) PROVE v \in VideoIds
    <3>1. PICK p \in FoundFrames : v = frames[p].video
      BY DEF Retrieved
    <3>2. p \in DOMAIN E
      BY <1>3, <3>1 DEF FoundFrames
    <3>3. PICK r \in ToSet(records) : \E k \in DOMAIN r.signature :
             frames[p] = [video |-> r.id, quality |-> r.signature[k].quality]
      BY <1>2, <3>2
    <3>4. v = r.id
      BY <3>1, <3>3
    <3> QED BY <3>4, VideoIdsAre
  <2> QED BY <2>1
<1>5. ASSUME ~(policy.query[1] = 0 /\ policy.candidate[1] = 0), NEW r \in ToSet(records), Matches(r)
      PROVE  r.id \in Retrieved(FoundFrames)
  <2>1. r.signature \in Seq(PdqFingerprint)
    <3>1. r \in VideoRecord
      BY FiniteElements
    <3> QED BY <3>1 DEF VideoRecord
  <2>2. PICK from, to : from = Eligible(query) /\ to = Eligible(r.signature)
    OBVIOUS
  <2>3. /\ policy.distance \in 0..Farthest /\ policy.quality \in Nat
        /\ policy.query[1] \in Nat /\ policy.query[2] \in Nat
        /\ policy.candidate[1] \in Nat /\ policy.candidate[2] \in Nat
    BY PolicyIs
  <2>4. /\ from \in SUBSET AllHash /\ IsFiniteSet(from)
        /\ to \in SUBSET AllHash /\ IsFiniteSet(to)
        /\ from = MatchingHashes(query, policy.quality)
        /\ \A h \in to : \E k \in DOMAIN r.signature :
             r.signature[k].hash = h /\ r.signature[k].quality >= policy.quality
    BY <2>1, <2>2, <2>3, EligibleIs
  <2>5. from # {} /\ to # {} /\ Covers(policy.query, from, to) /\ Covers(policy.candidate, to, from)
    BY <1>5, <2>2 DEF Matches
  <2>6. PICK a \in from, b \in to : Distance(a, b) <= policy.distance
    <3>1. CASE policy.query[1] # 0
      <4>1. Near(from, to) # {}
        BY <2>3, <2>4, <2>5, <3>1, CoversSome
      <4> QED BY <4>1 DEF Near
    <3>2. CASE policy.candidate[1] # 0
      <4>1. Near(to, from) # {}
        BY <2>3, <2>4, <2>5, <3>2, CoversSome
      <4>2. PICK b \in to, a \in from : Distance(b, a) <= policy.distance
        BY <4>1 DEF Near
      <4>3. Distance(b, a) = Distance(a, b)
        BY <2>4, DistanceIs
      <4> QED BY <4>2, <4>3
    <3> QED BY <1>5, <3>1, <3>2
  <2>7. PICK k \in DOMAIN r.signature : r.signature[k].hash = b /\ r.signature[k].quality >= policy.quality
    BY <2>4
  <2>8. PICK p \in DOMAIN E : E[p] = b /\ frames[p] = [video |-> r.id, quality |-> r.signature[k].quality]
    BY <1>2, <2>7
  <2>9. p \in FoundFrames
    BY <1>3, <2>4, <2>6, <2>8 DEF FoundFrames
  <2> QED BY <2>7, <2>8, <2>9 DEF Retrieved
<1> QED BY <1>4, <1>5

\* The counts of a record, by the definition.
QueryCount(i)     == Cardinality(Near(Eligible(query), Eligible(input[i].signature)))
CandidateCount(i) == Cardinality(Near(Eligible(input[i].signature), Eligible(query)))

\* What MatchesExact says of a list of matches.
Exact(list) ==
  /\ {list[n].id : n \in DOMAIN list} = {input[i].id : i \in MatchingRecords}
  /\ \A m, n \in DOMAIN list : m < n => list[m].id < list[n].id
  /\ \A i \in MatchingRecords, n \in DOMAIN list :
       list[n].id = input[i].id =>
         list[n].query = QueryCount(i) /\ list[n].candidate = CandidateCount(i)

\* The verification of candidates that leave out no record that matches.
LEMMA VerifiedIs ==
  ASSUME query \in Seq(PdqFingerprint), policy \in VideoPolicy, candidates \in Seq(Nat),
         records \in Seq(VideoRecord), Built, ToSet(candidates) \subseteq VideoIds,
         \A r \in ToSet(input) : Matches(r) => r.id \in ToSet(candidates)
  PROVE  LET queries    == MatchingHashes(query, policy.quality)
             hashes(id) == MatchingHashes(SignatureOf(id), policy.quality)
             accepted   == {id \in ToSet(candidates) \ {self} : Enough(queries, hashes(id))}
             order      == Ascending(accepted)
         IN Exact([n \in DOMAIN order |-> Match(order[n], queries, hashes(order[n]))])
<1> DEFINE queries    == MatchingHashes(query, policy.quality)
           hashes(id) == MatchingHashes(SignatureOf(id), policy.quality)
           accepted   == {id \in ToSet(candidates) \ {self} : Enough(queries, hashes(id))}
           order      == Ascending(accepted)
           list       == [n \in DOMAIN order |-> Match(order[n], queries, hashes(order[n]))]
<1>1. /\ policy.distance \in 0..Farthest /\ policy.quality \in Nat
  BY PolicyIs
<1>2. /\ ToSet(records) = ToSet(input) /\ ToSet(records) \subseteq VideoRecord
      /\ \A r, s \in ToSet(records) : r.id = s.id => r = s
  BY FiniteElements DEF Built
<1>3. VideoIds = {r.id : r \in ToSet(records)} /\ VideoIds \in SUBSET Nat /\ IsFiniteSet(VideoIds)
  BY VideoIdsAre
<1>4. ASSUME NEW r \in ToSet(records)
      PROVE  /\ r.signature \in Seq(PdqFingerprint) /\ SignatureOf(r.id) = r.signature
             /\ hashes(r.id) = Eligible(r.signature)
  <2>1. r.signature \in Seq(PdqFingerprint)
    BY <1>2 DEF VideoRecord
  <2>2. SignatureOf(r.id) = r.signature
    <3>1. \E i \in DOMAIN records : records[i].id = r.id
      BY DEF ToSet
    <3>2. PICK i \in DOMAIN records : /\ records[i].id = r.id
                                      /\ SignatureOf(r.id) = records[i].signature
      BY <3>1 DEF SignatureOf
    <3>3. records[i] \in ToSet(records)
      BY DEF ToSet
    <3> QED BY <1>2, <3>2, <3>3
  <2> QED BY <1>1, <2>1, <2>2, EligibleIs
<1>5. queries = Eligible(query) /\ queries \in SUBSET AllHash /\ IsFiniteSet(queries)
  BY <1>1, EligibleIs
<1>6. ASSUME NEW r \in ToSet(records)
      PROVE  /\ Matched(queries, hashes(r.id), policy.distance) = Cardinality(Near(queries, Eligible(r.signature)))
             /\ Matched(hashes(r.id), queries, policy.distance) = Cardinality(Near(Eligible(r.signature), queries))
  <2>1. PICK to : to = Eligible(r.signature) /\ to = hashes(r.id)
    BY <1>4
  <2>2. to \in SUBSET AllHash /\ IsFiniteSet(to)
    BY <1>1, <1>4, <2>1, EligibleIs
  <2>3. PICK from : from = queries
    OBVIOUS
  <2> HIDE DEF queries, hashes
  <2>4. /\ Matched(from, to, policy.distance) = Cardinality(Near(from, to))
        /\ Matched(to, from, policy.distance) = Cardinality(Near(to, from))
    BY <1>1, <1>5, <2>2, <2>3, MatchedIs
  <2> QED BY <2>1, <2>3, <2>4
<1> HIDE DEF queries, hashes
<1>7. ASSUME NEW r \in ToSet(records)
      PROVE  r.id \in accepted <=> Matches(r)
  <2>1. Enough(queries, hashes(r.id)) <=>
          /\ Eligible(query) # {} /\ Eligible(r.signature) # {}
          /\ Covers(policy.query, Eligible(query), Eligible(r.signature))
          /\ Covers(policy.candidate, Eligible(r.signature), Eligible(query))
    BY <1>4, <1>5, <1>6 DEF Enough, Reaches, Covers
  <2>2. Matches(r) => r.id \in ToSet(candidates)
    BY <1>2
  <2> QED BY <2>1, <2>2 DEF Matches
<1>8. accepted \in SUBSET Nat /\ IsFiniteSet(accepted) /\ \A id \in accepted : \E r \in ToSet(records) : id = r.id
  <2>1. accepted \in SUBSET VideoIds
    OBVIOUS
  <2> HIDE DEF accepted
  <2> QED BY <1>3, <2>1, FS_Subset
<1>9. PICK o, N : o = order /\ N = Cardinality(accepted)
  OBVIOUS
<1>10. /\ N \in Nat /\ o \in [1..N -> accepted] /\ DOMAIN o = 1..N
       /\ \A i, j \in 1..N : i < j => o[i] < o[j]
       /\ \A x \in accepted : \E i \in 1..N : o[i] = x
  <2> HIDE DEF accepted
  <2> QED BY <1>8, <1>9, AscendingIs
<1>11. PICK l : l = list
  OBVIOUS
<1>12. /\ DOMAIN l = 1..N
       /\ \A n \in 1..N : /\ l[n].id = o[n]
                          /\ l[n].query = Matched(queries, hashes(o[n]), policy.distance)
                          /\ l[n].candidate = Matched(hashes(o[n]), queries, policy.distance)
  <2>1. l = [n \in 1..N |-> Match(o[n], queries, hashes(o[n]))]
    BY <1>9, <1>10, <1>11
  <2> HIDE DEF list, order, accepted
  <2> QED BY <2>1 DEF Match
<1> HIDE DEF list, order, accepted
<1>13. /\ \A i \in MatchingRecords : input[i] \in ToSet(records) /\ Matches(input[i])
       /\ \A r \in ToSet(records) : Matches(r) => \E i \in MatchingRecords : r = input[i]
  <2>1. \A i : i \in MatchingRecords <=> i \in DOMAIN input /\ Matches(input[i])
    BY DEF MatchingRecords, Matches
  <2> QED BY <1>2, <2>1 DEF ToSet
<1>14. {l[n].id : n \in DOMAIN l} = {input[i].id : i \in MatchingRecords}
  <2>1. \A n \in DOMAIN l : \E i \in MatchingRecords : l[n].id = input[i].id
    <3>1. ASSUME NEW n \in DOMAIN l PROVE \E i \in MatchingRecords : l[n].id = input[i].id
      <4>1. l[n].id \in accepted
        BY <1>10, <1>12
      <4>2. PICK r \in ToSet(records) : l[n].id = r.id
        BY <1>8, <4>1
      <4> QED BY <1>7, <1>13, <4>1, <4>2
    <3> QED BY <3>1
  <2>2. \A i \in MatchingRecords : \E n \in DOMAIN l : l[n].id = input[i].id
    <3>1. ASSUME NEW i \in MatchingRecords PROVE \E n \in DOMAIN l : l[n].id = input[i].id
      <4>1. input[i].id \in accepted
        BY <1>7, <1>13
      <4> QED BY <1>10, <1>12, <4>1
    <3> QED BY <3>1
  <2> QED BY <2>1, <2>2
<1>15. \A m, n \in DOMAIN l : m < n => l[m].id < l[n].id
  BY <1>10, <1>12
<1>16. ASSUME NEW i \in MatchingRecords, NEW n \in DOMAIN l, l[n].id = input[i].id
       PROVE  l[n].query = QueryCount(i) /\ l[n].candidate = CandidateCount(i)
  <2>1. PICK r \in ToSet(records) : r = input[i] /\ o[n] = r.id
    BY <1>12, <1>13, <1>16
  <2> QED BY <1>5, <1>6, <1>12, <2>1 DEF QueryCount, CandidateCount
<1>17. Exact(l)
  BY <1>14, <1>15, <1>16 DEF Exact
<1> QED BY <1>11, <1>17 DEF list, order, accepted, queries, hashes

\* That depends on the records given and on the query, and on nothing else.
LEMMA ExactStays ==
  ASSUME UNCHANGED <<input, query, policy, self>>, NEW list, Exact(list)
  PROVE  Exact(list)'
<1>1. MatchingRecords' = MatchingRecords
  BY DEF MatchingRecords, Eligible, Covers, Near
<1>2. ASSUME NEW i PROVE QueryCount(i)' = QueryCount(i) /\ CandidateCount(i)' = CandidateCount(i)
  BY DEF QueryCount, CandidateCount, Eligible, Near
<1> QED BY <1>1, <1>2 DEF Exact

\* Every step keeps what the matches depend on, and the last one is exact.
LEMMA VideoStep == VideoInv /\ [NextVideos]_videoVars => VideoInv'
<1> SUFFICES ASSUME VideoInv, [NextVideos]_videoVars PROVE VideoInv'
  OBVIOUS
<1>1. /\ input \in Input /\ query \in Signature /\ policy \in VideoPolicy
      /\ records \in Seq(VideoRecord) /\ candidates \in Seq(Nat)
      /\ query \in Seq(PdqFingerprint) /\ input \in Seq(VideoRecord)
  BY VideoAssumption DEF VideoInv, VideoRecord
<1>2. CASE Build
  <2>1. /\ phase = "build" /\ UNCHANGED <<input, query, policy, self, candidates, matches>>
        /\ \/ Duplicates(input) /\ phase' = "refused" /\ UNCHANGED <<records, frames>>
           \/ /\ ~Duplicates(input) /\ phase' = "find"
              /\ records' = Sorted(input) /\ frames' = FramesOf(Sorted(input))
    BY <1>2 DEF Build
  <2>2. MatchesExact'
    BY <2>1 DEF MatchesExact
  <2>3. CASE Duplicates(input) /\ phase' = "refused" /\ UNCHANGED <<records, frames>>
    BY <1>1, <2>1, <2>2, <2>3 DEF VideoInv
  <2>4. CASE ~Duplicates(input) /\ phase' = "find" /\ records' = Sorted(input) /\ frames' = FramesOf(Sorted(input))
    <3>1. \A r, s \in ToSet(input) : r.id = s.id => r = s
      BY <2>4 DEF Duplicates, ToSet
    <3>2. records' \in Seq(VideoRecord) /\ ToSet(records') = ToSet(input)
      BY <1>1, <2>4, <3>1, SortedIs
    <3>3. frames' = FramesOf(records')
      BY <2>4
    <3>4. Built'
      BY <2>1, <3>1, <3>2, <3>3 DEF Built
    <3> QED BY <1>1, <2>1, <2>2, <2>4, <3>2, <3>4 DEF VideoInv
  <2> QED BY <2>1, <2>3, <2>4
<1>3. CASE FindVideoCandidates
  <2> DEFINE found == IF policy.query[1] = 0 /\ policy.candidate[1] = 0 THEN VideoIds ELSE Retrieved(FoundFrames)
  <2>1. /\ phase = "find" /\ phase' = "verify"
        /\ UNCHANGED <<input, records, frames, query, policy, self, matches>>
        /\ candidates' = Ascending(found)
    BY <1>3 DEF FindVideoCandidates, FoundFrames
  <2>2. Built
    BY <2>1 DEF VideoInv
  <2>3. /\ VideoIds = {r.id : r \in ToSet(records)}
        /\ VideoIds \in SUBSET Nat /\ IsFiniteSet(VideoIds)
    BY <1>1, VideoIdsAre
  <2>4. /\ Retrieved(FoundFrames) \subseteq VideoIds
        /\ ~(policy.query[1] = 0 /\ policy.candidate[1] = 0) =>
             \A r \in ToSet(records) : Matches(r) => r.id \in Retrieved(FoundFrames)
    BY <1>1, <2>2, RetrievedIs DEF Built
  <2>5. found \in SUBSET VideoIds /\ \A r \in ToSet(records) : Matches(r) => r.id \in found
    BY <2>3, <2>4
  <2> HIDE DEF found
  <2>6. candidates' \in Seq(Nat) /\ ToSet(candidates') = found
    <3>1. found \in SUBSET Nat /\ IsFiniteSet(found)
      BY <2>3, <2>5, FS_Subset
    <3> QED BY <2>1, <3>1, AscendingElements
  <2>7. Built'
    BY <2>1, <2>2 DEF Built
  <2>8. \A r : Matches(r)' <=> Matches(r)
    BY <2>1 DEF Matches, Eligible, Covers, Near
  <2>9. (\A r \in ToSet(input) : Matches(r) => r.id \in ToSet(candidates))'
    BY <2>1, <2>2, <2>5, <2>6, <2>8 DEF Built
  <2>10. (ToSet(candidates) \subseteq VideoIds)'
    BY <2>1, <2>5, <2>6 DEF VideoIds
  <2>11. MatchesExact'
    BY <2>1 DEF MatchesExact
  <2> QED BY <1>1, <2>1, <2>6, <2>7, <2>9, <2>10, <2>11 DEF VideoInv
<1>4. CASE OtherVideoCandidates
  <2>1. /\ UNCHANGED <<input, records, frames, query, policy, self, matches>>
        /\ phase = "verify" /\ phase' = "verifyMore"
        /\ \E id \in VideoIds \cup {Missing} : candidates' = <<id>> \o candidates
    BY <1>4 DEF OtherVideoCandidates, AddCandidate
  <2>2. PICK id \in VideoIds \cup {Missing} : candidates' = <<id>> \o candidates
    BY <2>1
  <2>3. id \in Nat
    BY <1>1, VideoIdsAre, VideoAssumption
  <2>4. candidates' \in Seq(Nat) /\ ToSet(candidates') = {id} \cup ToSet(candidates)
    <3>1. PICK one : one = <<id>>
      OBVIOUS
    <3>2. one \in Seq(Nat) /\ ToSet(one) = {id}
      BY <2>3, <3>1, OneElement
    <3>3. candidates' = one \o candidates
      BY <2>2, <3>1
    <3> QED BY <1>1, <3>2, <3>3, JoinedElements
  <2>5. /\ Built /\ ToSet(candidates) \subseteq VideoIds
        /\ \A r \in ToSet(input) : Matches(r) => r.id \in ToSet(candidates)
    BY <2>1 DEF VideoInv
  <2>6. Built'
    BY <2>1, <2>5 DEF Built
  <2>7. \A r : Matches(r)' <=> Matches(r)
    BY <2>1 DEF Matches, Eligible, Covers, Near
  <2>8. (\A r \in ToSet(input) : Matches(r) => r.id \in ToSet(candidates))'
    BY <2>1, <2>4, <2>5, <2>7
  <2>9. (ToSet(candidates) \subseteq VideoIds \cup {Missing})'
    BY <2>1, <2>2, <2>4, <2>5 DEF VideoIds
  <2>10. MatchesExact'
    BY <2>1 DEF MatchesExact
  <2> QED BY <1>1, <2>1, <2>4, <2>6, <2>8, <2>9, <2>10 DEF VideoInv
<1>5. CASE VerifyVideoCandidates
  <2> DEFINE queries    == MatchingHashes(query, policy.quality)
             hashes(id) == MatchingHashes(SignatureOf(id), policy.quality)
             accepted   == {id \in ToSet(candidates) \ {self} : Enough(queries, hashes(id))}
             order      == Ascending(accepted)
             list       == [n \in DOMAIN order |-> Match(order[n], queries, hashes(order[n]))]
  <2>1. /\ UNCHANGED <<input, records, frames, query, policy, self, candidates>>
        /\ phase \in {"verify", "verifyMore"}
        /\ \/ ~ToSet(candidates) \subseteq VideoIds /\ phase' = "out_of_range"
           \/ /\ ToSet(candidates) \subseteq VideoIds
              /\ matches' = list /\ phase' = "matched"
    BY <1>5 DEF VerifyVideoCandidates
  <2> HIDE DEF list
  <2>2. Built /\ \A r \in ToSet(input) : Matches(r) => r.id \in ToSet(candidates)
    BY <2>1 DEF VideoInv
  <2>3. Built'
    BY <2>1, <2>2 DEF Built
  <2>4. CASE phase' = "out_of_range" /\ ~ToSet(candidates) \subseteq VideoIds
    <3>1. Missing \in ToSet(candidates)
      BY <2>1, <2>4 DEF VideoInv
    <3>2. MatchesExact'
      BY <2>1, <2>4, <3>1 DEF MatchesExact
    <3> QED BY <1>1, <2>1, <2>3, <2>4, <3>2 DEF VideoInv
  <2>5. CASE ToSet(candidates) \subseteq VideoIds /\ matches' = list /\ phase' = "matched"
    <3>1. Exact(list)
      BY <1>1, <2>2, <2>5, VerifiedIs DEF list
    <3>2. PICK l : l = list
      OBVIOUS
    <3>3. Exact(l)'
      BY <2>1, <3>1, <3>2, ExactStays
    <3>4. matches' = l
      BY <2>5, <3>2
    <3>5. MatchesExact'
      BY <2>5, <3>3, <3>4 DEF MatchesExact, Exact, QueryCount, CandidateCount
    <3> QED BY <1>1, <2>1, <2>3, <2>5, <3>5 DEF VideoInv
  <2> QED BY <2>1, <2>4, <2>5
<1>6. CASE UNCHANGED videoVars
  <2>1. UNCHANGED <<records, query, policy, self, candidates, phase, matches, input, frames>>
    BY <1>6 DEF videoVars
  <2>2. Built' <=> Built
    BY <2>1 DEF Built
  <2>3. \A r : Matches(r)' <=> Matches(r)
    BY <2>1 DEF Matches, Eligible, Covers, Near
  <2>4. MatchesExact'
    <3>1. MatchesExact
      BY DEF VideoInv
    <3>2. CASE phase = "matched"
      <4>1. Exact(matches)
        BY <3>1, <3>2 DEF MatchesExact, Exact, QueryCount, CandidateCount
      <4>2. PICK l : l = matches
        OBVIOUS
      <4>3. Exact(l)' /\ matches' = l
        BY <2>1, <4>1, <4>2, ExactStays
      <4> QED BY <2>1, <3>2, <4>3 DEF MatchesExact, Exact, QueryCount, CandidateCount
    <3>3. CASE phase # "matched"
      BY <2>1, <3>1, <3>3 DEF MatchesExact
    <3> QED BY <3>2, <3>3
  <2>5. VideoIds' = VideoIds
    BY <2>1 DEF VideoIds
  <2> QED BY <1>1, <2>1, <2>2, <2>3, <2>4, <2>5 DEF VideoInv
<1> QED BY <1>2, <1>3, <1>4, <1>5, <1>6 DEF NextVideos

\* What comes out of the catalogue, an index and the verification is what
\* comparing the query with each record by the definition gives.
THEOREM MatchesAreExact == SpecVideos => []MatchesExact
<1>1. InitVideos => VideoInv
  <2> SUFFICES ASSUME InitVideos PROVE VideoInv
    OBVIOUS
  <2>1. /\ records = << >> /\ candidates = << >> /\ phase = "build"
        /\ input \in Input /\ query \in Signature /\ policy \in VideoPolicy
    BY DEF InitVideos
  <2>2. records \in Seq(VideoRecord) /\ candidates \in Seq(Nat)
    BY <2>1
  <2> QED BY <2>1, <2>2 DEF VideoInv, MatchesExact
<1>2. VideoInv => MatchesExact
  BY DEF VideoInv
<1> QED BY <1>1, <1>2, VideoStep, PTL DEF SpecVideos
=============================================================================
