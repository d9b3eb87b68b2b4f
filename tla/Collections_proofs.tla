--------------------------- MODULE Collections_proofs ---------------------------
(***************************************************************************)
(* What holds of the collections for any keys, data and items: the ordered *)
(* list, and the map in it, are maps; the queue, which goes round in an    *)
(* array, and the list, which is laid out in one, are sequences.           *)
(***************************************************************************)
EXTENDS Blocks_proofs

Node == [key : Keys, data : Data]

InOrder(s) == \A i, j \in 1 .. Len(s) : i < j => s[i].key < s[j].key

-------------------------------------------------------------------------------
(* The search, at the place x of the list s.                               *)

ProbesOf(n) ==
  {x \in [index : 0 .. n - 1, lowerBound : 0 .. n - 1, upperBound : 0 .. n - 1] :
     x.lowerBound <= x.index /\ x.index <= x.upperBound}

Hits(s, key, x) == key = s[x.index + 1].key

Lower(s, key, x) == IF key > s[x.index + 1].key THEN x.index + 1 ELSE x.lowerBound

Upper(s, key, x) == IF key < s[x.index + 1].key THEN x.index - 1 ELSE x.upperBound

Misses(s, key, x) == Lower(s, key, x) > Upper(s, key, x)

Onward(s, key, x) ==
  [index |-> Lower(s, key, x) + (Upper(s, key, x) - Lower(s, key, x)) \div 2,
   lowerBound |-> Lower(s, key, x), upperBound |-> Upper(s, key, x)]

\* r is what there is to be found between the bounds of x.
Right(s, key, x, r) ==
  IF \E j \in x.lowerBound .. x.upperBound : s[j + 1].key = key
    THEN /\ r = [exists |-> TRUE, index |-> r.index]
         /\ r.index \in x.lowerBound .. x.upperBound /\ s[r.index + 1].key = key
    ELSE /\ r = [exists |-> FALSE, index |-> r.index]
         /\ r.index \in x.lowerBound .. x.upperBound + 1
         /\ \A j \in x.lowerBound .. x.upperBound :
              IF j < r.index THEN s[j + 1].key < key ELSE key < s[j + 1].key

\* The search goes on between bounds that are nearer to one another.
LEMMA OnwardIsNarrower ==
  ASSUME NEW n \in Nat, NEW s, NEW key, NEW x \in ProbesOf(n),
         ~ Misses(s, key, x), ~ Hits(s, key, x),
         key \in Int, s[x.index + 1].key \in Int
  PROVE  /\ Onward(s, key, x) \in ProbesOf(n)
         /\ Upper(s, key, x) - Lower(s, key, x) < x.upperBound - x.lowerBound
         /\ Onward(s, key, x).lowerBound = Lower(s, key, x)
         /\ Onward(s, key, x).upperBound = Upper(s, key, x)
<1> PICK i, l, u, k, l2, u2, m :
      /\ i = x.index /\ l = x.lowerBound /\ u = x.upperBound /\ k = s[x.index + 1].key
      /\ l2 = Lower(s, key, x) /\ u2 = Upper(s, key, x)
      /\ m = l2 + (u2 - l2) \div 2
  OBVIOUS
<1>1. /\ i \in 0 .. n - 1 /\ l \in 0 .. n - 1 /\ u \in 0 .. n - 1
      /\ l <= i /\ i <= u
  BY DEF ProbesOf
<1>2. /\ l2 = (IF key > k THEN i + 1 ELSE l) /\ u2 = (IF key < k THEN i - 1 ELSE u)
      /\ ~ (l2 > u2) /\ key # k
  BY DEF Lower, Upper, Misses, Hits
<1>3. /\ l2 \in 0 .. n - 1 /\ u2 \in 0 .. n - 1 /\ l2 <= u2 /\ u2 - l2 < u - l
  BY <1>1, <1>2
<1>4. m \in 0 .. n - 1 /\ l2 <= m /\ m <= u2
  BY <1>3
<1>5. Onward(s, key, x) = [index |-> m, lowerBound |-> l2, upperBound |-> u2]
  BY DEF Onward
<1>6. Onward(s, key, x) \in ProbesOf(n)
  BY <1>3, <1>4, <1>5 DEF ProbesOf
<1> QED BY <1>3, <1>5, <1>6

\* What holds where the search ends, and where it holds one step on, holds
\* everywhere.
LEMMA SearchEnds ==
  ASSUME NEW n \in Nat, NEW s, NEW key \in Int,
         \A i \in 1 .. n : s[i].key \in Int,
         NEW D,
         \A x \in ProbesOf(n) :
           Hits(s, key, x) \/ Misses(s, key, x) \/ Onward(s, key, x) \in D => x \in D
  PROVE  ProbesOf(n) \subseteq D
<1> DEFINE W == {w \in 1 .. n : \E x \in ProbesOf(n) : x \notin D
                                  /\ x.upperBound - x.lowerBound + 1 = w}
<1> SUFFICES ASSUME NEW y \in ProbesOf(n), y \notin D PROVE FALSE
  OBVIOUS
<1>1. \A x \in ProbesOf(n) :
        /\ x.upperBound - x.lowerBound + 1 \in 1 .. n
        /\ x.index + 1 \in 1 .. n
  BY DEF ProbesOf
<1>2. y.upperBound - y.lowerBound + 1 \in W
  BY <1>1
<1>3. PICK w \in W : \A v \in W : w <= v
  BY <1>2, LeastNumber
<1>4. PICK x \in ProbesOf(n) : x \notin D /\ x.upperBound - x.lowerBound + 1 = w
  BY <1>3
<1>5. ~ Hits(s, key, x) /\ ~ Misses(s, key, x) /\ Onward(s, key, x) \notin D
  BY <1>4
<1>6. s[x.index + 1].key \in Int
  BY <1>1
<1>7. PICK z : z = Onward(s, key, x)
  OBVIOUS
<1>8. /\ z \in ProbesOf(n) /\ z.upperBound - z.lowerBound < x.upperBound - x.lowerBound
  BY <1>5, <1>6, <1>7, OnwardIsNarrower
<1>9. z.upperBound - z.lowerBound + 1 \in W
  BY <1>1, <1>5, <1>7, <1>8
<1>10. /\ z.upperBound \in Int /\ z.lowerBound \in Int
       /\ x.upperBound \in Int /\ x.lowerBound \in Int
  BY <1>8 DEF ProbesOf
<1> QED BY <1>3, <1>4, <1>8, <1>9, <1>10

\* What has been left out is on its side of the key.
Parted(s, key, x, l, u) ==
  /\ x.lowerBound <= l /\ u <= x.upperBound /\ l <= u + 1
  /\ l \in Nat /\ u \in Int
  /\ \A j \in x.lowerBound .. x.upperBound :
       /\ j < l => s[j + 1].key < key
       /\ j > u => key < s[j + 1].key

LEMMA NarrowedRightly ==
  ASSUME NEW s, Len(s) \in Nat, InOrder(s), \A i \in 1 .. Len(s) : s[i].key \in Int,
         NEW key \in Int, NEW x \in ProbesOf(Len(s)), ~ Hits(s, key, x)
  PROVE  Parted(s, key, x, Lower(s, key, x), Upper(s, key, x))
<1> PICK i, l, u, k, l2, u2, n :
      /\ i = x.index /\ l = x.lowerBound /\ u = x.upperBound /\ k = s[x.index + 1].key
      /\ l2 = Lower(s, key, x) /\ u2 = Upper(s, key, x) /\ n = Len(s)
  OBVIOUS
<1>1. /\ i \in 0 .. n - 1 /\ l \in 0 .. n - 1 /\ u \in 0 .. n - 1
      /\ l <= i /\ i <= u /\ n \in Nat /\ i + 1 \in 1 .. n /\ k \in Int
  <2>1. /\ i \in 0 .. n - 1 /\ l \in 0 .. n - 1 /\ u \in 0 .. n - 1
        /\ l <= i /\ i <= u /\ n \in Nat
    BY DEF ProbesOf
  <2>2. i + 1 \in 1 .. n
    BY <2>1
  <2>3. x.index + 1 \in 1 .. Len(s)
    BY <2>1 DEF ProbesOf
  <2>4. s[x.index + 1].key \in Int
    BY <2>3
  <2> QED BY <2>1, <2>2, <2>4, Zenon
<1>2. /\ l2 = (IF key > k THEN i + 1 ELSE l) /\ u2 = (IF key < k THEN i - 1 ELSE u)
      /\ key # k
  BY DEF Lower, Upper, Hits
<1>3. /\ l <= l2 /\ u2 <= u /\ l2 <= u2 + 1 /\ l2 \in Nat /\ u2 \in Int
  <2>1. CASE key > k
    <3>1. l2 = i + 1 /\ u2 = u
      BY <1>1, <1>2, <2>1
    <3> QED BY <1>1, <3>1
  <2>2. CASE key < k
    <3>1. l2 = l /\ u2 = i - 1
      BY <1>1, <1>2, <2>2
    <3> QED BY <1>1, <3>1
  <2> QED BY <1>1, <1>2, <2>1, <2>2
<1>4. ASSUME NEW j \in l .. u
      PROVE  /\ j < l2 => s[j + 1].key < key
             /\ j > u2 => key < s[j + 1].key
  <2>1. /\ j + 1 \in 1 .. n /\ s[j + 1].key \in Int /\ j \in Int
        /\ j < i => s[j + 1].key < k
        /\ i < j => k < s[j + 1].key
    <3>1. j + 1 \in 1 .. n /\ s[j + 1].key \in Int /\ j \in Int
      BY <1>1
    <3>2. \A a, b \in 1 .. n : a < b => s[a].key < s[b].key
      BY DEF InOrder
    <3>3. (j < i => j + 1 < i + 1) /\ (i < j => i + 1 < j + 1)
      BY <1>1, <3>1
    <3> QED BY <1>1, <3>1, <3>2, <3>3
  <2>2. j = i => s[j + 1].key = k
    OBVIOUS
  <2>3. PICK m : m = s[j + 1].key
    OBVIOUS
  <2>4. /\ m \in Int /\ j \in Int /\ (j < i => m < k) /\ (i < j => k < m)
        /\ (j = i => m = k)
    BY <2>1, <2>2, <2>3
  <2>5. j < l2 => m < key
    BY <1>1, <1>2, <2>4
  <2>6. j > u2 => key < m
    BY <1>1, <1>2, <2>4
  <2> QED BY <2>3, <2>5, <2>6
<1>5. /\ x.lowerBound <= l2 /\ u2 <= x.upperBound
      /\ \A j \in x.lowerBound .. x.upperBound :
           /\ j < l2 => s[j + 1].key < key
           /\ j > u2 => key < s[j + 1].key
  BY <1>3, <1>4
<1> QED BY <1>3, <1>5 DEF Parted

LEMMA RightStays ==
  ASSUME NEW s, NEW key \in Int, NEW x \in ProbesOf(Len(s)), Len(s) \in Nat,
         \A i \in 1 .. Len(s) : s[i].key \in Int,
         NEW y, Parted(s, key, x, y.lowerBound, y.upperBound),
         NEW r, Right(s, key, y, r)
  PROVE  Right(s, key, x, r)
<1> PICK l, u, l2, u2, n :
      /\ l = x.lowerBound /\ u = x.upperBound /\ n = Len(s)
      /\ l2 = y.lowerBound /\ u2 = y.upperBound
  OBVIOUS
<1>1. /\ l \in 0 .. n - 1 /\ u \in 0 .. n - 1 /\ n \in Nat
      /\ \A j \in l .. u : j + 1 \in 1 .. n /\ s[j + 1].key \in Int
  BY DEF ProbesOf
<1>2. /\ l <= l2 /\ u2 <= u /\ l2 <= u2 + 1 /\ l2 \in Nat /\ u2 \in Int
      /\ \A j \in l .. u : /\ j < l2 => s[j + 1].key < key
                           /\ j > u2 => key < s[j + 1].key
  BY DEF Parted
<1>3. \A j \in l2 .. u2 : j \in l .. u
  BY <1>1, <1>2
<1>4. ASSUME NEW j \in l .. u, s[j + 1].key = key
      PROVE  j \in l2 .. u2
  <2>1. j \in Int /\ ~ (key < key)
    BY <1>1
  <2>2. ~ (j < l2) /\ ~ (j > u2)
    BY <1>2, <1>4, <2>1
  <2> QED BY <1>2, <2>1, <2>2
<1>5. (\E j \in l .. u : s[j + 1].key = key) <=> \E j \in l2 .. u2 : s[j + 1].key = key
  BY <1>3, <1>4
<1>6. CASE \E j \in l2 .. u2 : s[j + 1].key = key
  <2>1. /\ r = [exists |-> TRUE, index |-> r.index]
        /\ r.index \in l2 .. u2 /\ s[r.index + 1].key = key
    BY <1>6 DEF Right
  <2> QED BY <1>3, <1>5, <1>6, <2>1 DEF Right
<1>7. CASE ~ \E j \in l2 .. u2 : s[j + 1].key = key
  <2>1. /\ r = [exists |-> FALSE, index |-> r.index]
        /\ r.index \in l2 .. u2 + 1
        /\ \A j \in l2 .. u2 :
             IF j < r.index THEN s[j + 1].key < key ELSE key < s[j + 1].key
    BY <1>7 DEF Right
  <2>2. PICK p : p = r.index
    OBVIOUS
  <2>3. p \in l .. u + 1
    BY <1>1, <1>2, <2>1, <2>2
  <2>4. ASSUME NEW j \in l .. u
        PROVE  IF j < p THEN s[j + 1].key < key ELSE key < s[j + 1].key
    <3>1. CASE j < l2
      BY <1>1, <1>2, <2>1, <2>2, <3>1
    <3>2. CASE j > u2
      BY <1>1, <1>2, <2>1, <2>2, <3>2
    <3>3. CASE j \in l2 .. u2
      BY <2>1, <2>2, <3>3
    <3> QED BY <1>1, <1>2, <3>1, <3>2, <3>3
  <2> QED BY <1>5, <1>7, <2>1, <2>2, <2>3, <2>4 DEF Right
<1> QED BY <1>6, <1>7

\* What the search says at x, where f is what it says further on.
Answer(s, key, f, x) ==
  IF Hits(s, key, x) THEN [exists |-> TRUE, index |-> x.index]
  ELSE IF Misses(s, key, x) THEN [exists |-> FALSE, index |-> Lower(s, key, x)]
  ELSE f[Onward(s, key, x)]

Searchable(s) ==
  Len(s) \in Nat /\ InOrder(s) /\ \A i \in 1 .. Len(s) : s[i].key \in Int

LEMMA AnswerIsRight ==
  ASSUME NEW s, Searchable(s), NEW key \in Int, NEW x \in ProbesOf(Len(s)), NEW f,
         \/ Hits(s, key, x) \/ Misses(s, key, x)
         \/ Right(s, key, Onward(s, key, x), f[Onward(s, key, x)])
  PROVE  Right(s, key, x, Answer(s, key, f, x))
<1> PICK l, u, n : l = x.lowerBound /\ u = x.upperBound /\ n = Len(s)
  OBVIOUS
<1>1. /\ l \in 0 .. n - 1 /\ u \in 0 .. n - 1 /\ n \in Nat
      /\ x.index \in l .. u
  BY DEF ProbesOf, Searchable
<1>2. CASE Hits(s, key, x)
  <2>1. Answer(s, key, f, x) = [exists |-> TRUE, index |-> x.index]
    BY <1>2 DEF Answer
  <2>2. s[x.index + 1].key = key
    BY <1>2 DEF Hits
  <2> QED BY <1>1, <2>1, <2>2 DEF Right
<1>3. CASE ~ Hits(s, key, x)
  <2>1. Parted(s, key, x, Lower(s, key, x), Upper(s, key, x))
    BY <1>3, NarrowedRightly DEF Searchable
  <2>2. CASE Misses(s, key, x)
    <3> PICK p, q : p = Lower(s, key, x) /\ q = Upper(s, key, x)
      OBVIOUS
    <3>1. Answer(s, key, f, x) = [exists |-> FALSE, index |-> p]
      BY <1>3, <2>2 DEF Answer
    <3>2. /\ p \in Nat /\ q \in Int /\ l <= p /\ p <= q + 1 /\ q <= u /\ p > q
          /\ \A j \in l .. u : /\ j < p => s[j + 1].key < key
                               /\ j > q => key < s[j + 1].key
      BY <2>1, <2>2 DEF Parted, Misses
    <3>3. p = q + 1 /\ p \in l .. u + 1
      BY <1>1, <3>2
    <3>4. \A j \in l .. u :
            IF j < p THEN s[j + 1].key < key ELSE key < s[j + 1].key
      BY <1>1, <3>2, <3>3
    <3>5. \A j \in l .. u : s[j + 1].key # key
      <4>1. ~ (key < key)
        OBVIOUS
      <4> QED BY <3>4, <4>1
    <3> QED BY <3>1, <3>3, <3>4, <3>5 DEF Right
  <2>3. CASE ~ Misses(s, key, x)
    <3> PICK y : y = Onward(s, key, x)
      OBVIOUS
    <3>1. Answer(s, key, f, x) = f[y] /\ Right(s, key, y, f[y])
      BY <1>3, <2>3 DEF Answer
    <3>2. y.lowerBound = Lower(s, key, x) /\ y.upperBound = Upper(s, key, x)
      BY DEF Onward
    <3>3. Parted(s, key, x, y.lowerBound, y.upperBound)
      BY <2>1, <3>2
    <3>4. Right(s, key, x, f[y])
      BY <3>1, <3>3, RightStays DEF Searchable
    <3> QED BY <3>1, <3>4
  <2> QED BY <2>2, <2>3
<1> QED BY <1>2, <1>3

\* There is one right answer.
LEMMA RightOnce ==
  ASSUME NEW s, Searchable(s), NEW key \in Int, NEW x \in ProbesOf(Len(s)),
         NEW q, Right(s, key, x, q), NEW r, Right(s, key, x, r)
  PROVE  q = r
<1> PICK l, u, n : l = x.lowerBound /\ u = x.upperBound /\ n = Len(s)
  OBVIOUS
<1>1. /\ l \in 0 .. n - 1 /\ u \in 0 .. n - 1 /\ n \in Nat
      /\ \A j \in l .. u : j + 1 \in 1 .. n
  BY DEF ProbesOf, Searchable
<1>2. CASE \E j \in l .. u : s[j + 1].key = key
  <2>1. PICK a, b :
          /\ q = [exists |-> TRUE, index |-> a] /\ r = [exists |-> TRUE, index |-> b]
          /\ a \in l .. u /\ s[a + 1].key = key
          /\ b \in l .. u /\ s[b + 1].key = key
    BY <1>2 DEF Right
  <2>2. a + 1 \in 1 .. n /\ b + 1 \in 1 .. n /\ a \in Int /\ b \in Int
    BY <1>1, <2>1
  <2>3. \A i, j \in 1 .. n : i < j => s[i].key < s[j].key
    BY DEF Searchable, InOrder
  <2>4. ~ (a < b) /\ ~ (b < a)
    <3>1. ~ (key < key)
      OBVIOUS
    <3>2. (a < b => a + 1 < b + 1) /\ (b < a => b + 1 < a + 1)
      BY <2>2
    <3> QED BY <2>1, <2>2, <2>3, <3>1, <3>2
  <2>5. a = b
    BY <2>2, <2>4
  <2> QED BY <2>1, <2>5, Zenon
<1>3. CASE ~ \E j \in l .. u : s[j + 1].key = key
  <2>1. PICK a, b :
          /\ q = [exists |-> FALSE, index |-> a] /\ r = [exists |-> FALSE, index |-> b]
          /\ a \in l .. u + 1 /\ b \in l .. u + 1
          /\ \A j \in l .. u :
               /\ IF j < a THEN s[j + 1].key < key ELSE key < s[j + 1].key
               /\ IF j < b THEN s[j + 1].key < key ELSE key < s[j + 1].key
    BY <1>3 DEF Right
  <2>2. \A j \in l .. u : s[j + 1].key \in Int
    BY <1>1 DEF Searchable
  <2>3. ~ (a < b)
    <3> SUFFICES ASSUME a < b PROVE FALSE
      OBVIOUS
    <3>1. a \in l .. u
      BY <1>1, <2>1
    <3>2. ~ (a < a)
      BY <3>1, <1>1
    <3>3. PICK k : k = s[a + 1].key
      OBVIOUS
    <3>4. k \in Int /\ k < key /\ key < k
      BY <2>1, <2>2, <3>1, <3>2, <3>3
    <3> QED BY <3>4
  <2>4. ~ (b < a)
    <3> SUFFICES ASSUME b < a PROVE FALSE
      OBVIOUS
    <3>1. b \in l .. u
      BY <1>1, <2>1
    <3>2. ~ (b < b)
      BY <3>1, <1>1
    <3>3. PICK k : k = s[b + 1].key
      OBVIOUS
    <3>4. k \in Int /\ k < key /\ key < k
      BY <2>1, <2>2, <3>1, <3>2, <3>3
    <3> QED BY <3>4
  <2>5. a \in Int /\ b \in Int
    BY <1>1, <2>1
  <2>6. a = b
    BY <2>3, <2>4, <2>5
  <2> QED BY <2>1, <2>6, Zenon
<1> QED BY <1>2, <1>3

IsSearch(s, key, f) == f = [x \in ProbesOf(Len(s)) |-> Answer(s, key, f, x)]

\* Whatever has been said further on is right, then, and there is something that
\* has been said.
LEMMA SearchIsRight ==
  ASSUME NEW s, Searchable(s), NEW key \in Int, NEW f, IsSearch(s, key, f),
         NEW x \in ProbesOf(Len(s))
  PROVE  Right(s, key, x, f[x])
<1> DEFINE D == {y \in ProbesOf(Len(s)) : Right(s, key, y, f[y])}
<1>1. \A y \in ProbesOf(Len(s)) : f[y] = Answer(s, key, f, y)
  BY DEF IsSearch
<1>2. ASSUME NEW y \in ProbesOf(Len(s)),
             Hits(s, key, y) \/ Misses(s, key, y) \/ Onward(s, key, y) \in D
      PROVE  y \in D
  <2>1. Onward(s, key, y) \in D
          => Right(s, key, Onward(s, key, y), f[Onward(s, key, y)])
    OBVIOUS
  <2>2. Right(s, key, y, Answer(s, key, f, y))
    BY <1>2, <2>1, AnswerIsRight
  <2> QED BY <1>1, <2>2
<1>3. Len(s) \in Nat /\ \A i \in 1 .. Len(s) : s[i].key \in Int
  BY DEF Searchable
<1>4. PICK n : n = Len(s)
  OBVIOUS
<1> HIDE DEF D
<1>5. ProbesOf(n) \subseteq D
  BY <1>2, <1>3, <1>4, SearchEnds
<1> QED BY <1>4, <1>5 DEF D

LEMMA ThereIsASearch ==
  ASSUME NEW s, Searchable(s), NEW key \in Int
  PROVE  \E f : IsSearch(s, key, f)
<1> DEFINE D == {y \in ProbesOf(Len(s)) : \E r : Right(s, key, y, r)}
           f == [x \in ProbesOf(Len(s)) |-> CHOOSE r : Right(s, key, x, r)]
<1>1. ASSUME NEW y \in ProbesOf(Len(s)),
             Hits(s, key, y) \/ Misses(s, key, y) \/ Onward(s, key, y) \in D
      PROVE  y \in D
  <2>1. PICK r : Onward(s, key, y) \in D => Right(s, key, Onward(s, key, y), r)
    OBVIOUS
  <2>2. PICK g : g = [z \in {Onward(s, key, y)} |-> r]
    OBVIOUS
  <2>3. g[Onward(s, key, y)] = r
    BY <2>2
  <2>4. Right(s, key, y, Answer(s, key, g, y))
    BY <1>1, <2>1, <2>3, AnswerIsRight
  <2> QED BY <2>4
<1>2. PICK n : n = Len(s) /\ n \in Nat /\ \A i \in 1 .. n : s[i].key \in Int
  BY DEF Searchable
<1>3. ProbesOf(n) \subseteq D
  <2> HIDE DEF D
  <2> QED BY <1>1, <1>2, SearchEnds
<1>4. ASSUME NEW y \in ProbesOf(Len(s))
      PROVE  Right(s, key, y, f[y])
  <2>1. \E r : Right(s, key, y, r)
    BY <1>2, <1>3
  <2> QED BY <2>1
<1>5. ASSUME NEW y \in ProbesOf(Len(s))
      PROVE  f[y] = Answer(s, key, f, y)
  <2> HIDE DEF f
  <2>1. \/ Hits(s, key, y) \/ Misses(s, key, y)
        \/ Right(s, key, Onward(s, key, y), f[Onward(s, key, y)])
    <3> SUFFICES ASSUME ~ Hits(s, key, y), ~ Misses(s, key, y)
                 PROVE  Onward(s, key, y) \in ProbesOf(Len(s))
      BY <1>4
    <3>1. y.index + 1 \in 1 .. n
      BY <1>2 DEF ProbesOf
    <3>2. s[y.index + 1].key \in Int
      BY <1>2, <3>1
    <3> QED BY <1>2, <3>2, OnwardIsNarrower
  <2>2. Right(s, key, y, Answer(s, key, f, y))
    BY <2>1, AnswerIsRight
  <2> QED BY <1>4, <2>2, RightOnce
<1>6. f = [x \in ProbesOf(Len(s)) |-> Answer(s, key, f, x)]
  BY <1>5
<1> QED BY <1>6 DEF IsSearch

\* r is where the key is in s, or where it belongs.
Found(s, key, r) ==
  IF \E i \in 1 .. Len(s) : s[i].key = key
    THEN r.exists = TRUE /\ r.index + 1 \in 1 .. Len(s) /\ s[r.index + 1].key = key
    ELSE /\ r.exists = FALSE /\ r.index \in 0 .. Len(s)
         /\ \A i \in 1 .. Len(s) :
              IF i <= r.index THEN s[i].key < key ELSE key < s[i].key

LEMMA GetIndexFinds ==
  ASSUME Searchable(orderedList), NEW key \in Int
  PROVE  Found(orderedList, key, Ordered!GetIndexFromKey(key))
<1> PICK list, n : list = orderedList /\ n = Len(list)
  OBVIOUS
<1>1. n \in Nat /\ Searchable(list)
  BY DEF Searchable
<1>2. Ordered!Size = n /\ Ordered!Probes = ProbesOf(n)
  BY DEF Ordered!Size, Ordered!Probes, ProbesOf
<1>3. \A i : Ordered!Element(i) = list[i + 1]
  BY DEF Ordered!Element

<1> DEFINE
      says(f, x) ==
        IF key = Ordered!Element(x.index).key THEN [exists |-> TRUE, index |-> x.index]
        ELSE IF Ordered!LowerBound(key, x) > Ordered!UpperBound(key, x)
          THEN [exists |-> FALSE,
                index |-> Ordered!NotFound(Ordered!LowerBound(key, x),
                                           Ordered!UpperBound(key, x))]
        ELSE f[Ordered!Narrowed(Ordered!LowerBound(key, x),
                                Ordered!UpperBound(key, x))]
      probe == CHOOSE f : f = [x \in Ordered!Probes |-> says(f, x)]
      start == [index |-> Ordered!Size \div 2, lowerBound |-> 0,
                upperBound |-> Ordered!Size - 1]
<1>4. Ordered!GetIndexFromKey(key)
        = IF Ordered!Size = 0 THEN [exists |-> FALSE, index |-> 0] ELSE probe[start]
  BY DEF Ordered!GetIndexFromKey
<1>5. ASSUME NEW f, NEW x \in ProbesOf(n)
      PROVE  says(f, x) = Answer(list, key, f, x)
  BY <1>3 DEF Ordered!LowerBound, Ordered!UpperBound, Ordered!NotFound,
     Ordered!Narrowed, Answer, Hits, Misses, Lower, Upper, Onward
<1>6. probe = [x \in Ordered!Probes |-> says(probe, x)]
  <2>1. PICK f : IsSearch(list, key, f)
    BY <1>1, ThereIsASearch
  <2>2. f = [x \in ProbesOf(n) |-> Answer(list, key, f, x)]
    BY <2>1 DEF IsSearch
  <2>3. f = [x \in Ordered!Probes |-> says(f, x)]
    BY <1>2, <1>5, <2>2
  <2> QED BY <2>3
<1> HIDE DEF probe, says, start
<1>7. PICK f : f = probe
  OBVIOUS
<1>8. IsSearch(list, key, f)
  BY <1>2, <1>5, <1>6, <1>7 DEF IsSearch
<1>9. CASE n = 0
  <2>1. Ordered!GetIndexFromKey(key) = [exists |-> FALSE, index |-> 0]
    BY <1>2, <1>4, <1>9
  <2>2. \A i \in 1 .. n : FALSE
    BY <1>9
  <2> QED BY <1>1, <2>1, <2>2 DEF Found
<1>10. CASE n # 0
  <2>1. start = [index |-> n \div 2, lowerBound |-> 0, upperBound |-> n - 1]
    BY <1>2 DEF start
  <2>2. start \in ProbesOf(n) /\ start.lowerBound = 0 /\ start.upperBound = n - 1
    BY <1>1, <1>10, <2>1 DEF ProbesOf
  <2>3. PICK r : r = f[start]
    OBVIOUS
  <2>4. Right(list, key, start, r)
    BY <1>1, <1>8, <2>2, <2>3, SearchIsRight
  <2>5. Ordered!GetIndexFromKey(key) = r
    BY <1>2, <1>4, <1>7, <1>10, <2>3
  <2>6. Found(list, key, r)
    <3>1. \A i \in 1 .. n : i - 1 \in 0 .. n - 1 /\ (i - 1) + 1 = i
      BY <1>1
    <3>2. CASE \E j \in 0 .. n - 1 : list[j + 1].key = key
      <4>1. r.exists = TRUE /\ r.index \in 0 .. n - 1 /\ list[r.index + 1].key = key
        BY <2>2, <2>4, <3>2 DEF Right
      <4>2. r.index + 1 \in 1 .. n
        BY <1>1, <4>1
      <4> QED BY <4>1, <4>2 DEF Found
    <3>3. CASE ~ \E j \in 0 .. n - 1 : list[j + 1].key = key
      <4>1. /\ r.exists = FALSE /\ r.index \in 0 .. n - 1 + 1
            /\ \A j \in 0 .. n - 1 :
                 IF j < r.index THEN list[j + 1].key < key ELSE key < list[j + 1].key
        BY <2>2, <2>4, <3>3 DEF Right
      <4>2. r.index \in 0 .. n
        BY <1>1, <4>1
      <4>3. ASSUME NEW i \in 1 .. n
            PROVE  IF i <= r.index THEN list[i].key < key ELSE key < list[i].key
        <5>1. i - 1 < r.index <=> i <= r.index
          BY <4>2
        <5> QED BY <3>1, <4>1, <5>1
      <4>4. ~ \E i \in 1 .. n : list[i].key = key
        BY <3>1, <3>3
      <4> QED BY <4>1, <4>2, <4>3, <4>4 DEF Found
    <3> QED BY <3>2, <3>3
  <2> QED BY <2>5, <2>6
<1> QED BY <1>9, <1>10

-------------------------------------------------------------------------------
(* A sequence with an element more, and one less.                          *)

\* What becomes of q when e comes to its ith place.
Longer(q, i, e, r) ==
  /\ i \in 1 .. Len(q) + 1 /\ Len(r) = Len(q) + 1
  /\ \A j \in 1 .. Len(q) + 1 :
       r[j] = IF j < i THEN q[j] ELSE IF j = i THEN e ELSE q[j - 1]

Widened(q, i, e) == SubSeq(q, 1, i - 1) \o <<e>> \o SubSeq(q, i, Len(q))

LEMMA WidenedLonger ==
  ASSUME NEW U, NEW q \in Seq(U), NEW i \in 1 .. Len(q) + 1, NEW e \in U
  PROVE  Widened(q, i, e) \in Seq(U) /\ Longer(q, i, e, Widened(q, i, e))
<1> PICK r, a, b, c, n :
      /\ r = Widened(q, i, e) /\ n = Len(q)
      /\ a = SubSeq(q, 1, i - 1) /\ b = SubSeq(q, i, n) /\ c = a \o <<e>>
  OBVIOUS
<1>1. /\ n \in Nat /\ i \in 1 .. n + 1 /\ \A j \in 1 .. n : q[j] \in U
      /\ i - 1 \in Int /\ i \in Int /\ n \in Int /\ 1 \in Int
  BY LenProperties, ElementOfSeq
<1>2. a \in Seq(U) /\ Len(a) = i - 1 /\ \A j \in 1 .. i - 1 : a[j] = q[j]
  <2>1. \A j \in 1 .. i - 1 : q[j] \in U
    BY <1>1
  <2>2. /\ a \in Seq(U) /\ Len(a) = (IF 1 <= i - 1 THEN (i - 1) - 1 + 1 ELSE 0)
        /\ \A j \in 1 .. (i - 1) - 1 + 1 : a[j] = q[1 + j - 1]
    BY <1>1, <2>1, SubSeqProperties
  <2>3. (i - 1) - 1 + 1 = i - 1 /\ \A j \in 1 .. i - 1 : 1 + j - 1 = j
    BY <1>1
  <2> QED BY <1>1, <2>2, <2>3
<1>3. /\ b \in Seq(U) /\ Len(b) = n + 1 - i
      /\ \A j \in 1 .. n + 1 - i : b[j] = q[i + j - 1]
  <2>1. \A j \in i .. n : q[j] \in U
    BY <1>1
  <2>2. /\ b \in Seq(U) /\ Len(b) = (IF i <= n THEN n - i + 1 ELSE 0)
        /\ \A j \in 1 .. n - i + 1 : b[j] = q[i + j - 1]
    BY <1>1, <2>1, SubSeqProperties
  <2>3. n - i + 1 = n + 1 - i
    BY <1>1
  <2> QED BY <1>1, <2>2, <2>3
<1>4. /\ c \in Seq(U) /\ Len(c) = i
      /\ \A j \in 1 .. i : c[j] = IF j < i THEN q[j] ELSE e
  <2>1. /\ <<e>> \in Seq(U) /\ Len(<<e>>) = 1 /\ <<e>>[1] = e
    OBVIOUS
  <2>2. /\ a \o <<e>> \in Seq(U) /\ Len(a \o <<e>>) = Len(a) + Len(<<e>>)
        /\ \A j \in 1 .. Len(a) + Len(<<e>>) :
             (a \o <<e>>)[j] = IF j <= Len(a) THEN a[j] ELSE <<e>>[j - Len(a)]
    BY <1>2, <2>1, ConcatProperties
  <2>3. Len(a) + Len(<<e>>) = i
    <3>1. PICK k, l : k = Len(a) /\ l = Len(<<e>>)
      OBVIOUS
    <3>2. k = i - 1 /\ l = 1
      BY <1>2, <2>1, <3>1
    <3>3. k + l = i
      BY <1>1, <3>2
    <3> QED BY <3>1, <3>3
  <2>4. ASSUME NEW j \in 1 .. i
        PROVE  c[j] = IF j < i THEN q[j] ELSE e
    <3>1. c[j] = IF j <= Len(a) THEN a[j] ELSE <<e>>[j - Len(a)]
      BY <2>2, <2>3
    <3>2. Len(a) = i - 1
      BY <1>2
    <3>3. CASE j < i
      <4>1. j <= Len(a) /\ j \in 1 .. i - 1
        BY <1>1, <3>2, <3>3
      <4> QED BY <1>2, <3>1, <3>3, <4>1
    <3>4. CASE ~ (j < i)
      <4>1. ~ (j <= Len(a)) /\ j - Len(a) = 1
        BY <1>1, <3>2, <3>4
      <4> QED BY <2>1, <3>1, <3>4, <4>1
    <3> QED BY <3>3, <3>4
  <2> QED BY <2>2, <2>3, <2>4
<1>5. /\ r \in Seq(U) /\ Len(r) = Len(c) + Len(b)
      /\ \A j \in 1 .. Len(c) + Len(b) :
           r[j] = IF j <= Len(c) THEN c[j] ELSE b[j - Len(c)]
  <2>1. r = c \o b
    BY DEF Widened
  <2>2. c \in Seq(U) /\ b \in Seq(U)
    BY <1>3, <1>4
  <2>3. /\ c \o b \in Seq(U) /\ Len(c \o b) = Len(c) + Len(b)
        /\ \A j \in 1 .. Len(c) + Len(b) :
             (c \o b)[j] = IF j <= Len(c) THEN c[j] ELSE b[j - Len(c)]
    BY ONLY <2>2, ConcatProperties
  <2> QED BY ONLY <2>1, <2>3, Zenon
<1>6. Len(c) + Len(b) = n + 1 /\ Len(c) = i
  <2>1. PICK k, l : k = Len(c) /\ l = Len(b)
    OBVIOUS
  <2>2. k = i /\ l = n + 1 - i
    BY <1>3, <1>4, <2>1
  <2>3. k + l = n + 1
    BY <1>1, <2>2
  <2> QED BY <2>1, <2>2, <2>3, Zenon
<1>7. ASSUME NEW j \in 1 .. n + 1
      PROVE  r[j] = IF j < i THEN q[j] ELSE IF j = i THEN e ELSE q[j - 1]
  <2>1. r[j] = IF j <= i THEN c[j] ELSE b[j - i]
    BY <1>5, <1>6
  <2>2. CASE j <= i
    <3>1. j \in 1 .. i /\ (j < i \/ j = i) /\ ~ (i < i)
      BY <1>1, <2>2
    <3> QED BY <1>4, <2>1, <2>2, <3>1
  <2>3. CASE ~ (j <= i)
    <3>1. /\ j - i \in 1 .. n + 1 - i /\ ~ (j < i) /\ j # i
          /\ i + (j - i) - 1 = j - 1
      BY <1>1, <2>3
    <3>2. b[j - i] = q[i + (j - i) - 1]
      BY <1>3, <3>1
    <3> QED BY <2>1, <2>3, <3>1, <3>2
  <2> QED BY <2>2, <2>3
<1>8. Longer(q, i, e, r)
  BY <1>1, <1>5, <1>6, <1>7 DEF Longer
<1> QED BY <1>5, <1>8

-------------------------------------------------------------------------------
(* The map that a list in order stands for.                                *)

KeysOf(s) == {s[i].key : i \in 1 .. Len(s)}

MapOf(s) ==
  [k \in KeysOf(s) |-> s[CHOOSE i \in 1 .. Len(s) : s[i].key = k].data]

LEMMA MapAt ==
  ASSUME NEW s, Searchable(s)
  PROVE  /\ DOMAIN MapOf(s) = KeysOf(s)
         /\ \A i \in 1 .. Len(s) :
              s[i].key \in KeysOf(s) /\ MapOf(s)[s[i].key] = s[i].data
<1>1. ASSUME NEW i \in 1 .. Len(s)
      PROVE  s[i].key \in KeysOf(s) /\ MapOf(s)[s[i].key] = s[i].data
  <2>1. s[i].key \in KeysOf(s)
    BY DEF KeysOf
  <2>2. PICK j : j = CHOOSE l \in 1 .. Len(s) : s[l].key = s[i].key
    OBVIOUS
  <2>3. j \in 1 .. Len(s) /\ s[j].key = s[i].key
    BY <2>2
  <2>4. /\ \A a, b \in 1 .. Len(s) : a < b => s[a].key < s[b].key
        /\ s[i].key \in Int /\ Len(s) \in Nat
    BY DEF Searchable, InOrder
  <2>5. i = j
    <3>1. PICK k : k = s[i].key
      OBVIOUS
    <3>2. k \in Int /\ ~ (k < k) /\ s[j].key = k
      BY <2>3, <2>4, <3>1
    <3>3. ~ (i < j) /\ ~ (j < i)
      BY <2>3, <2>4, <3>1, <3>2
    <3> QED BY <2>3, <2>4, <3>3
  <2>6. MapOf(s)[s[i].key] = s[j].data
    BY <2>1, <2>2 DEF MapOf
  <2> QED BY <2>1, <2>5, <2>6
<1>2. DOMAIN MapOf(s) = KeysOf(s)
  BY DEF MapOf
<1> QED BY <1>1, <1>2

\* It is the only one that has each datum at its key.
LEMMA MapIs ==
  ASSUME NEW s, Searchable(s), NEW D, D = KeysOf(s), NEW m, m = [k \in D |-> m[k]],
         \A i \in 1 .. Len(s) : m[s[i].key] = s[i].data
  PROVE  m = MapOf(s)
<1>1. ASSUME NEW k \in D
      PROVE  m[k] = MapOf(s)[k]
  <2>1. PICK i \in 1 .. Len(s) : k = s[i].key
    BY DEF KeysOf
  <2>2. MapOf(s)[s[i].key] = s[i].data
    BY MapAt
  <2> QED BY <2>1, <2>2
<1>2. MapOf(s) = [k \in D |-> MapOf(s)[k]]
  BY DEF MapOf
<1> QED BY <1>1, <1>2

\* The map m with a datum for the key, and without the key.
WithOf(m, key, data) ==
  [k \in DOMAIN m \cup {key} |-> IF k = key THEN data ELSE m[k]]

WithoutOf(m, key) == [k \in DOMAIN m \ {key} |-> m[k]]

\* The ith is where the key belongs in s.
Belongs(s, i, key) ==
  \A j \in 1 .. Len(s) : IF j < i THEN s[j].key < key ELSE key < s[j].key

LEMMA LongerMap ==
  ASSUME NEW q, Searchable(q), NEW key \in Int, NEW data, NEW i, NEW r,
         Longer(q, i, [key |-> key, data |-> data], r), Belongs(q, i, key)
  PROVE  Searchable(r) /\ MapOf(r) = WithOf(MapOf(q), key, data)
<1> PICK n, e : n = Len(q) /\ e = [key |-> key, data |-> data]
  OBVIOUS
<1>1. /\ n \in Nat /\ Len(r) = n + 1 /\ i \in 1 .. n + 1
      /\ \A j \in 1 .. n + 1 :
           r[j] = IF j < i THEN q[j] ELSE IF j = i THEN e ELSE q[j - 1]
      /\ \A j \in 1 .. n : q[j].key \in Int
      /\ \A a, b \in 1 .. n : a < b => q[a].key < q[b].key
      /\ \A j \in 1 .. n : IF j < i THEN q[j].key < key ELSE key < q[j].key
  BY DEF Longer, Searchable, InOrder, Belongs
<1>2. ASSUME NEW j \in 1 .. n + 1
      PROVE  /\ j < i => j \in 1 .. n /\ r[j] = q[j]
             /\ j = i => r[j] = e
             /\ j > i => j - 1 \in 1 .. n /\ ~ (j - 1 < i) /\ r[j] = q[j - 1]
  BY <1>1
<1>3. e.key = key /\ e.data = data
  OBVIOUS
<1>4. ASSUME NEW j \in 1 .. n + 1
      PROVE  /\ r[j].key \in Int
             /\ j < i => r[j].key < key
             /\ j > i => key < r[j].key
  <2>1. CASE j < i
    BY <1>1, <1>2, <2>1
  <2>2. CASE j = i
    BY <1>1, <1>2, <1>3, <2>2
  <2>3. CASE j > i
    BY <1>1, <1>2, <2>3
  <2> QED BY <1>1, <2>1, <2>2, <2>3
<1>5. ASSUME NEW a \in 1 .. n + 1, NEW b \in 1 .. n + 1, a < b
      PROVE  r[a].key < r[b].key
  <2>1. CASE b < i
    BY <1>1, <1>2, <1>5, <2>1
  <2>2. CASE a > i
    <3>1. a - 1 < b - 1 /\ b > i
      BY <1>1, <1>5, <2>2
    <3>2. r[a] = q[a - 1] /\ r[b] = q[b - 1] /\ a - 1 \in 1 .. n /\ b - 1 \in 1 .. n
      BY <1>2, <2>2, <3>1
    <3> QED BY <1>1, <3>1, <3>2
  <2>3. CASE a <= i /\ i <= b
    <3>1. PICK k, l : k = r[a].key /\ l = r[b].key
      OBVIOUS
    <3>2. k \in Int /\ l \in Int /\ (a < i => k < key) /\ (b > i => key < l)
      BY <1>4, <3>1
    <3>3. (a = i => k = key) /\ (b = i => l = key)
      BY <1>2, <1>3, <3>1
    <3>4. k < l
      BY <1>1, <1>5, <2>3, <3>2, <3>3
    <3> QED BY <3>1, <3>4
  <2> QED BY <1>1, <2>1, <2>2, <2>3
<1>6. Searchable(r)
  BY <1>1, <1>4, <1>5 DEF Searchable, InOrder
<1>7. KeysOf(r) = KeysOf(q) \cup {key}
  <2>1. ASSUME NEW j \in 1 .. n + 1
        PROVE  r[j].key \in KeysOf(q) \cup {key}
    <3>1. CASE j < i
      BY <1>2, <3>1 DEF KeysOf
    <3>2. CASE j = i
      BY <1>2, <1>3, <3>2
    <3>3. CASE j > i
      BY <1>2, <3>3 DEF KeysOf
    <3> QED BY <1>1, <3>1, <3>2, <3>3
  <2>2. key \in KeysOf(r)
    BY <1>1, <1>2, <1>3 DEF KeysOf
  <2>3. ASSUME NEW j \in 1 .. n
        PROVE  q[j].key \in KeysOf(r)
    <3>1. CASE j < i
      <4>1. j \in 1 .. n + 1
        BY <1>1
      <4> QED BY <1>1, <1>2, <3>1, <4>1 DEF KeysOf
    <3>2. CASE ~ (j < i)
      <4>1. j + 1 \in 1 .. n + 1 /\ j + 1 > i /\ (j + 1) - 1 = j
        BY <1>1, <3>2
      <4>2. r[j + 1] = q[j]
        BY <1>2, <4>1
      <4> QED BY <1>1, <4>1, <4>2 DEF KeysOf
    <3> QED BY <3>1, <3>2
  <2> QED BY <1>1, <2>1, <2>2, <2>3 DEF KeysOf
<1> PICK m : m = MapOf(q)
  OBVIOUS
<1>8. /\ DOMAIN m = KeysOf(q)
      /\ \A j \in 1 .. n : q[j].key \in KeysOf(q) /\ m[q[j].key] = q[j].data
  BY MapAt
<1> PICK w : w = WithOf(m, key, data)
  OBVIOUS
<1>9. /\ w = [k \in KeysOf(r) |-> w[k]]
      /\ \A k \in KeysOf(r) : w[k] = IF k = key THEN data ELSE m[k]
  BY <1>7, <1>8 DEF WithOf
<1>10. ASSUME NEW j \in 1 .. n + 1
       PROVE  w[r[j].key] = r[j].data
  <2>1. r[j].key \in KeysOf(r)
    BY <1>1 DEF KeysOf
  <2>2. CASE j = i
    BY <1>2, <1>3, <1>9, <2>1, <2>2
  <2>3. CASE j < i
    <3>1. r[j].key # key
      <4>1. ~ (key < key)
        OBVIOUS
      <4> QED BY <1>4, <2>3, <4>1
    <3> QED BY <1>2, <1>8, <1>9, <2>1, <2>3, <3>1
  <2>4. CASE j > i
    <3>1. r[j].key # key
      <4>1. ~ (key < key)
        OBVIOUS
      <4> QED BY <1>4, <2>4, <4>1
    <3> QED BY <1>2, <1>8, <1>9, <2>1, <2>4, <3>1
  <2> QED BY <1>1, <2>2, <2>3, <2>4
<1>11. w = MapOf(r)
  BY <1>1, <1>6, <1>9, <1>10, MapIs
<1> QED BY <1>6, <1>11

LEMMA ShorterMap ==
  ASSUME NEW q, Searchable(q), NEW i, NEW r, Shorter(q, i, r)
  PROVE  /\ Searchable(r) /\ q[i].key \in KeysOf(q)
         /\ MapOf(r) = WithoutOf(MapOf(q), q[i].key)
<1> PICK n, key : n = Len(q) /\ key = q[i].key
  OBVIOUS
<1>1. /\ n \in Nat /\ Len(r) = n - 1 /\ i \in 1 .. n
      /\ \A j \in 1 .. n - 1 : r[j] = IF j < i THEN q[j] ELSE q[j + 1]
      /\ \A j \in 1 .. n : q[j].key \in Int
      /\ \A a, b \in 1 .. n : a < b => q[a].key < q[b].key
  BY DEF Shorter, Searchable, InOrder
<1>2. ASSUME NEW j \in 1 .. n - 1
      PROVE  /\ j < i => j \in 1 .. n /\ r[j] = q[j]
             /\ j >= i => j + 1 \in 1 .. n /\ j + 1 > i /\ r[j] = q[j + 1]
  BY <1>1
<1>3. ASSUME NEW a \in 1 .. n - 1, NEW b \in 1 .. n - 1, a < b
      PROVE  r[a].key < r[b].key
  <2>1. CASE b < i
    BY <1>1, <1>2, <1>3, <2>1
  <2>2. CASE a < i /\ b >= i
    <3>1. a < b + 1
      BY <1>3
    <3> QED BY <1>1, <1>2, <2>2, <3>1
  <2>3. CASE a >= i
    <3>1. a + 1 < b + 1 /\ b >= i
      BY <1>1, <1>3, <2>3
    <3> QED BY <1>1, <1>2, <2>3, <3>1
  <2> QED BY <1>1, <2>1, <2>2, <2>3
<1>4. \A j \in 1 .. n - 1 : r[j].key \in Int
  <2> SUFFICES ASSUME NEW j \in 1 .. n - 1 PROVE r[j].key \in Int
    OBVIOUS
  <2>1. CASE j < i
    BY <1>1, <1>2, <2>1
  <2>2. CASE j >= i
    BY <1>1, <1>2, <2>2
  <2> QED BY <1>1, <2>1, <2>2
<1>5. Searchable(r)
  <2>1. n - 1 \in Nat
    BY <1>1
  <2> QED BY <1>1, <1>3, <1>4, <2>1 DEF Searchable, InOrder
<1>6. key \in KeysOf(q)
  BY <1>1 DEF KeysOf
<1>7. \A j \in 1 .. n : j # i => q[j].key # key
  <2> SUFFICES ASSUME NEW j \in 1 .. n, j # i, q[j].key = key PROVE FALSE
    OBVIOUS
  <2>1. key \in Int /\ ~ (key < key)
    BY <1>1
  <2>2. j < i \/ i < j
    BY <1>1
  <2> QED BY <1>1, <2>1, <2>2
<1>8. ASSUME NEW j \in 1 .. n - 1
      PROVE  \E k \in 1 .. n : k # i /\ r[j] = q[k]
  <2>1. CASE j < i
    BY <1>1, <1>2, <2>1
  <2>2. CASE j >= i
    <3>1. j + 1 # i
      BY <1>1, <2>2
    <3> QED BY <1>2, <2>2, <3>1
  <2> QED BY <1>1, <2>1, <2>2
<1>9. KeysOf(r) = KeysOf(q) \ {key}
  <2>1. ASSUME NEW j \in 1 .. n - 1
        PROVE  r[j].key \in KeysOf(q) \ {key}
    BY <1>7, <1>8 DEF KeysOf
  <2>2. ASSUME NEW j \in 1 .. n, j # i
        PROVE  q[j].key \in KeysOf(r)
    <3>1. CASE j < i
      <4>1. j \in 1 .. n - 1
        BY <1>1, <3>1
      <4> QED BY <1>1, <1>2, <3>1, <4>1 DEF KeysOf
    <3>2. CASE j > i
      <4>1. j - 1 \in 1 .. n - 1 /\ j - 1 >= i /\ (j - 1) + 1 = j
        BY <1>1, <3>2
      <4>2. r[j - 1] = q[j]
        BY <1>2, <4>1
      <4> QED BY <1>1, <4>1, <4>2 DEF KeysOf
    <3> QED BY <1>1, <2>2, <3>1, <3>2
  <2>3. ASSUME NEW k \in KeysOf(q) \ {key}
        PROVE  k \in KeysOf(r)
    <3>1. PICK j \in 1 .. n : k = q[j].key
      BY DEF KeysOf
    <3> QED BY <2>2, <3>1
  <2> QED BY <1>1, <2>1, <2>3 DEF KeysOf
<1> PICK m : m = MapOf(q)
  OBVIOUS
<1>10. /\ DOMAIN m = KeysOf(q)
       /\ \A j \in 1 .. n : q[j].key \in KeysOf(q) /\ m[q[j].key] = q[j].data
  BY MapAt
<1> PICK w : w = WithoutOf(m, key)
  OBVIOUS
<1>11. w = [k \in KeysOf(r) |-> w[k]] /\ \A k \in KeysOf(r) : w[k] = m[k]
  BY <1>9, <1>10 DEF WithoutOf
<1>12. ASSUME NEW j \in 1 .. n - 1
       PROVE  w[r[j].key] = r[j].data
  <2>1. PICK k \in 1 .. n : r[j] = q[k]
    BY <1>8
  <2>2. r[j].key \in KeysOf(r)
    BY <1>1 DEF KeysOf
  <2> QED BY <1>10, <1>11, <2>1, <2>2
<1>13. w = MapOf(r)
  <2>1. Len(r) = n - 1
    BY <1>1
  <2> QED BY ONLY <1>5, <1>11, <1>12, <2>1, MapIs
<1> QED BY <1>5, <1>6, <1>13

\* The ith element with another datum.
LEMMA ChangedMap ==
  ASSUME NEW q, Searchable(q), NEW i \in 1 .. Len(q), NEW data, NEW r, Len(r) = Len(q),
         \A j \in 1 .. Len(q) :
           /\ r[j].key = q[j].key
           /\ r[j].data = IF j = i THEN data ELSE q[j].data
  PROVE  Searchable(r) /\ MapOf(r) = WithOf(MapOf(q), q[i].key, data)
<1> PICK n, key : n = Len(q) /\ key = q[i].key
  OBVIOUS
<1>1. /\ n \in Nat /\ Len(r) = n /\ i \in 1 .. n
      /\ \A j \in 1 .. n : q[j].key \in Int
      /\ \A a, b \in 1 .. n : a < b => q[a].key < q[b].key
  BY DEF Searchable, InOrder
<1>2. Searchable(r)
  BY <1>1 DEF Searchable, InOrder
<1>3. \A j \in 1 .. n : j # i => q[j].key # key
  <2> SUFFICES ASSUME NEW j \in 1 .. n, j # i, q[j].key = key PROVE FALSE
    OBVIOUS
  <2>1. key \in Int /\ ~ (key < key)
    BY <1>1
  <2>2. j < i \/ i < j
    BY <1>1
  <2> QED BY <1>1, <2>1, <2>2
<1>4. KeysOf(r) = KeysOf(q)
  BY <1>1 DEF KeysOf
<1> PICK m : m = MapOf(q)
  OBVIOUS
<1>5. /\ DOMAIN m = KeysOf(q)
      /\ \A j \in 1 .. n : q[j].key \in KeysOf(q) /\ m[q[j].key] = q[j].data
  BY MapAt
<1> PICK w : w = WithOf(m, key, data)
  OBVIOUS
<1>6. KeysOf(q) \cup {key} = KeysOf(q)
  BY <1>1, <1>5
<1>7. /\ w = [k \in KeysOf(r) |-> w[k]]
      /\ \A k \in KeysOf(r) : w[k] = IF k = key THEN data ELSE m[k]
  BY <1>4, <1>5, <1>6 DEF WithOf
<1>8. ASSUME NEW j \in 1 .. n
      PROVE  w[r[j].key] = r[j].data
  <2>1. r[j].key = q[j].key /\ q[j].key \in KeysOf(r)
    BY <1>4, <1>5
  <2>2. CASE j = i
    BY <1>1, <1>7, <2>1, <2>2
  <2>3. CASE j # i
    BY <1>3, <1>5, <1>7, <2>1, <2>3
  <2> QED BY <2>2, <2>3
<1>9. w = MapOf(r)
  BY <1>1, <1>2, <1>7, <1>8, MapIs
<1> QED BY <1>2, <1>9

\* There are as many keys before the ith as places.
LEMMA RankOf ==
  ASSUME NEW s, Searchable(s)
  PROVE  /\ Cardinality(KeysOf(s)) = Len(s)
         /\ \A i \in 1 .. Len(s) :
              Cardinality({k \in KeysOf(s) : k < s[i].key}) = i - 1
<1> PICK n : n = Len(s)
  OBVIOUS
<1>1. /\ n \in Nat /\ \A j \in 1 .. n : s[j].key \in Int
      /\ \A a, b \in 1 .. n : a < b => s[a].key < s[b].key
  BY DEF Searchable, InOrder
<1>2. \A a, b \in 1 .. n : s[a].key = s[b].key => a = b
  <2> SUFFICES ASSUME NEW a \in 1 .. n, NEW b \in 1 .. n, s[a].key = s[b].key, a # b
               PROVE  FALSE
    OBVIOUS
  <2>1. PICK k : k = s[a].key
    OBVIOUS
  <2>2. k \in Int /\ ~ (k < k) /\ s[b].key = k
    BY <1>1, <2>1
  <2>3. a < b \/ b < a
    BY <1>1
  <2> QED BY <1>1, <2>1, <2>2, <2>3
<1> PICK f : f = [j \in 1 .. n |-> s[j].key]
  OBVIOUS
<1>3. \A j \in 1 .. n : f[j] = s[j].key
  OBVIOUS
<1>4. \A a, b \in 1 .. n : f[a] = f[b] => a = b
  BY <1>2, <1>3
<1>5. Cardinality(KeysOf(s)) = n
  <2>1. Cardinality(Values(f, n)) = n
    BY <1>1, <1>4, SizeOfRange
  <2>2. Values(f, n) = KeysOf(s)
    BY <1>3 DEF Values, KeysOf
  <2> QED BY <2>1, <2>2
<1>6. ASSUME NEW i \in 1 .. n
      PROVE  Cardinality({k \in KeysOf(s) : k < s[i].key}) = i - 1
  <2>1. i - 1 \in Nat /\ \A j \in 1 .. i - 1 : j \in 1 .. n /\ j < i
    BY <1>1
  <2>2. Cardinality(Values(f, i - 1)) = i - 1
    BY <1>4, <2>1, SizeOfRange
  <2>3. ASSUME NEW k \in Values(f, i - 1)
        PROVE  k \in KeysOf(s) /\ k < s[i].key
    <3>1. PICK j \in 1 .. i - 1 : k = f[j]
      BY DEF Values
    <3>2. k = s[j].key /\ j \in 1 .. n /\ j < i
      BY <1>3, <2>1, <3>1
    <3> QED BY <1>1, <3>2 DEF KeysOf
  <2>4. ASSUME NEW k \in KeysOf(s), k < s[i].key
        PROVE  k \in Values(f, i - 1)
    <3>1. PICK j \in 1 .. n : k = s[j].key
      BY DEF KeysOf
    <3>2. PICK l : l = s[i].key
      OBVIOUS
    <3>3. k \in Int /\ l \in Int /\ k < l /\ ~ (l < k) /\ k # l
      BY <1>1, <2>4, <3>1, <3>2
    <3>4. j # i /\ ~ (i < j)
      BY <1>1, <3>1, <3>2, <3>3
    <3>5. j \in 1 .. i - 1
      BY <1>1, <3>4
    <3> QED BY <1>3, <3>1, <3>5 DEF Values
  <2>5. {k \in KeysOf(s) : k < s[i].key} = Values(f, i - 1)
    BY <2>3, <2>4
  <2> QED BY <2>2, <2>5
<1> QED BY <1>5, <1>6

-------------------------------------------------------------------------------
(* The list is in order, and its calls are those of a map.                 *)

\* Keys are numbers: what the comparison tells apart.
KeyConstants == Keys \in SUBSET Int

OrderedInv == orderedList \in Seq(Node) /\ InOrder(orderedList)

LEMMA OrderedFacts ==
  ASSUME KeyConstants, OrderedInv
  PROVE  /\ Searchable(orderedList) /\ Ordered!Size = Len(orderedList)
         /\ orderedList \in [1 .. Len(orderedList) -> Node]
         /\ Ordered!Mapping = MapOf(orderedList)
         /\ DOMAIN Ordered!Mapping = KeysOf(orderedList)
         /\ \A key : Ordered!AsMap!Holds(key) <=> key \in KeysOf(orderedList)
<1>1. Len(orderedList) \in Nat /\ orderedList \in [1 .. Len(orderedList) -> Node]
  BY LenProperties DEF OrderedInv
<1>2. \A i \in 1 .. Len(orderedList) : orderedList[i].key \in Int
  BY <1>1 DEF Node, KeyConstants
<1>3. Searchable(orderedList)
  BY <1>1, <1>2 DEF Searchable, OrderedInv
<1>4. Ordered!Mapping = MapOf(orderedList)
  BY DEF Ordered!Mapping, Ordered!Size, MapOf, KeysOf
<1>5. DOMAIN Ordered!Mapping = KeysOf(orderedList)
  BY <1>3, <1>4, MapAt
<1>6. \A key : Ordered!AsMap!Holds(key) <=> key \in KeysOf(orderedList)
  BY <1>5 DEF Ordered!AsMap!Holds
<1> QED BY <1>1, <1>3, <1>4, <1>5, <1>6 DEF Ordered!Size

\* What the search tells of a key that is there, and of one that is not.
Told(key) ==
  LET i == Ordered!GetIndexFromKey(key).index + 1
  IN IF key \in KeysOf(orderedList)
       THEN /\ Ordered!HasData(key) = TRUE /\ i \in 1 .. Len(orderedList)
            /\ orderedList[i].key = key
       ELSE /\ Ordered!HasData(key) = FALSE /\ i \in 1 .. Len(orderedList) + 1
            /\ Belongs(orderedList, i, key)

LEMMA ToldRightly ==
  ASSUME KeyConstants, OrderedInv, NEW key \in Keys
  PROVE  Told(key)
<1> PICK list, n, r : /\ list = orderedList /\ n = Len(list)
                      /\ r = Ordered!GetIndexFromKey(key)
  OBVIOUS
<1>1. /\ Found(list, key, r) /\ n \in Nat
      /\ \A i \in 1 .. n : list[i].key \in Int
  <2>1. key \in Int /\ Searchable(orderedList)
    BY OrderedFacts DEF KeyConstants
  <2> QED BY <2>1, GetIndexFinds DEF Searchable
<1>2. Ordered!HasData(key) = r.exists
  BY DEF Ordered!HasData
<1>3. key \in KeysOf(list) <=> \E i \in 1 .. n : list[i].key = key
  BY DEF KeysOf
<1>4. CASE key \in KeysOf(list)
  <2>1. r.exists = TRUE /\ r.index + 1 \in 1 .. n /\ list[r.index + 1].key = key
    BY <1>1, <1>3, <1>4 DEF Found
  <2> QED BY <1>2, <1>4, <2>1 DEF Told
<1>5. CASE key \notin KeysOf(list)
  <2>1. /\ r.exists = FALSE /\ r.index \in 0 .. n
        /\ \A i \in 1 .. n :
             IF i <= r.index THEN list[i].key < key ELSE key < list[i].key
    BY <1>1, <1>3, <1>5 DEF Found
  <2>2. r.index + 1 \in 1 .. n + 1
    BY <1>1, <2>1
  <2>3. \A j \in 1 .. n : j <= r.index <=> j < r.index + 1
    BY <2>1
  <2>4. Belongs(list, r.index + 1, key)
    BY <2>1, <2>3 DEF Belongs
  <2> QED BY <1>2, <1>5, <2>1, <2>2, <2>4 DEF Told
<1> QED BY <1>4, <1>5

LEMMA InsertionKeeps ==
  ASSUME KeyConstants, OrderedInv, NEW key \in Keys, NEW data \in Data,
         NEW i \in 1 .. Len(orderedList) + 1, Belongs(orderedList, i, key),
         orderedList' = Ordered!Ext!InsertAt(orderedList, i, [key |-> key, data |-> data])
  PROVE  /\ OrderedInv'
         /\ Ordered!Mapping' = WithOf(Ordered!Mapping, key, data)
<1> PICK q, r, e : /\ q = orderedList /\ r = orderedList'
                   /\ e = [key |-> key, data |-> data]
  OBVIOUS
<1>1. q \in Seq(Node) /\ e \in Node /\ r = Widened(q, i, e)
  BY DEF OrderedInv, Node, Ordered!Ext!InsertAt, Widened
<1>2. r \in Seq(Node) /\ Longer(q, i, e, r)
  BY <1>1, WidenedLonger
<1>3. Searchable(q) /\ key \in Int /\ Belongs(q, i, key)
  BY OrderedFacts DEF KeyConstants
<1>4. Searchable(r) /\ MapOf(r) = WithOf(MapOf(q), key, data)
  BY <1>2, <1>3, LongerMap
<1>5. OrderedInv'
  BY <1>2, <1>4 DEF OrderedInv, Searchable
<1>6. Ordered!Mapping = MapOf(q) /\ Ordered!Mapping' = MapOf(r)
  BY DEF Ordered!Mapping, Ordered!Size, MapOf, KeysOf
<1> QED BY <1>4, <1>5, <1>6

LEMMA RemovalKeeps ==
  ASSUME KeyConstants, OrderedInv, NEW i \in 1 .. Len(orderedList),
         orderedList' = Ordered!Ext!RemoveAt(orderedList, i)
  PROVE  /\ OrderedInv' /\ orderedList[i].key \in KeysOf(orderedList)
         /\ Ordered!Mapping' = WithoutOf(Ordered!Mapping, orderedList[i].key)
<1> PICK q, r : q = orderedList /\ r = orderedList'
  OBVIOUS
<1>1. q \in Seq(Node) /\ r = Blocks!Removed(q, i)
  BY DEF OrderedInv, Ordered!Ext!RemoveAt, Blocks!Removed
<1>2. r \in Seq(Node) /\ Shorter(q, i, r)
  BY <1>1, RemovedShorter
<1>3. Searchable(q)
  BY OrderedFacts
<1>4. /\ Searchable(r) /\ q[i].key \in KeysOf(q)
      /\ MapOf(r) = WithoutOf(MapOf(q), q[i].key)
  BY <1>2, <1>3, ShorterMap
<1>5. OrderedInv'
  BY <1>2, <1>4 DEF OrderedInv, Searchable
<1>6. Ordered!Mapping = MapOf(q) /\ Ordered!Mapping' = MapOf(r)
  BY DEF Ordered!Mapping, Ordered!Size, MapOf, KeysOf
<1> QED BY <1>4, <1>5, <1>6

LEMMA SameList ==
  ASSUME OrderedInv, UNCHANGED orderedList
  PROVE  OrderedInv' /\ UNCHANGED Ordered!Mapping
BY DEF OrderedInv, Ordered!Mapping, Ordered!Size

LEMMA InsertAdds ==
  ASSUME KeyConstants, OrderedInv, NEW key \in Keys, NEW data \in Data,
         Ordered!Insert(key, data)
  PROVE  OrderedInv' /\ Ordered!AsMap!Add(key, data)
<1>1. /\ orderedList' = IF Ordered!HasData(key) THEN orderedList
                        ELSE Ordered!Inserted(key, data)
      /\ orderedResult' = ~ Ordered!HasData(key)
      /\ orderedCall' = [op |-> "add", key |-> key, data |-> data]
  BY DEF Ordered!Insert, Ordered!Calls
<1>2. Told(key) /\ (Ordered!AsMap!Holds(key) <=> key \in KeysOf(orderedList))
  BY ToldRightly, OrderedFacts
<1>3. CASE key \in KeysOf(orderedList)
  <2>1. UNCHANGED orderedList /\ orderedResult' = ~ Ordered!AsMap!Holds(key)
    BY <1>1, <1>2, <1>3 DEF Told
  <2>2. OrderedInv' /\ UNCHANGED Ordered!Mapping
    BY <2>1, SameList
  <2> QED BY <1>1, <1>2, <1>3, <2>1, <2>2
             DEF Ordered!AsMap!Add, Ordered!AsMap!Calls
<1>4. CASE key \notin KeysOf(orderedList)
  <2>1. PICK i : i = Ordered!GetIndexFromKey(key).index + 1
    OBVIOUS
  <2>2. /\ Ordered!HasData(key) = FALSE /\ i \in 1 .. Len(orderedList) + 1
        /\ Belongs(orderedList, i, key)
    BY <1>2, <1>4, <2>1 DEF Told
  <2>3. orderedList' = Ordered!Ext!InsertAt(orderedList, i, [key |-> key, data |-> data])
    BY <1>1, <2>1, <2>2 DEF Ordered!Inserted, Ordered!InsertedAt
  <2>4. OrderedInv' /\ Ordered!Mapping' = WithOf(Ordered!Mapping, key, data)
    BY <2>2, <2>3, InsertionKeeps
  <2>5. orderedResult' = ~ Ordered!AsMap!Holds(key)
    BY <1>1, <1>2, <1>4, <2>2
  <2>6. Ordered!Mapping' = Ordered!AsMap!With(key, data)
    BY <2>4 DEF WithOf, Ordered!AsMap!With
  <2> QED BY <1>1, <1>2, <1>4, <2>4, <2>5, <2>6
             DEF Ordered!AsMap!Add, Ordered!AsMap!Calls
<1> QED BY <1>3, <1>4

LEMMA InsertAtIndexAdds ==
  ASSUME KeyConstants, OrderedInv, NEW key \in Keys, NEW data \in Data,
         NEW index \in 0 .. Ordered!Size, Ordered!InsertAtIndex(key, data, index)
  PROVE  OrderedInv' /\ Ordered!AsMap!Add(key, data)
<1> PICK q, n : q = orderedList /\ n = Len(q)
  OBVIOUS
<1>1. /\ orderedList' = Ordered!Ext!InsertAt(q, index + 1, [key |-> key, data |-> data])
      /\ orderedResult' = TRUE
      /\ orderedCall' = [op |-> "add", key |-> key, data |-> data]
  BY DEF Ordered!InsertAtIndex, Ordered!InsertedAt, Ordered!Calls
<1>2. /\ n \in Nat /\ index \in 0 .. n /\ key \in Int
      /\ \A j \in 1 .. n : q[j].key \in Int
      /\ \A a, b \in 1 .. n : a < b => q[a].key < q[b].key
  BY OrderedFacts DEF Searchable, InOrder, KeyConstants
<1>3. /\ index > 0 => q[(index - 1) + 1].key < key
      /\ index < n => key < q[index + 1].key
  BY OrderedFacts DEF Ordered!InsertAtIndex, Ordered!Element
<1>4. ASSUME NEW j \in 1 .. n
      PROVE  IF j < index + 1 THEN q[j].key < key ELSE key < q[j].key
  <2>1. CASE j < index + 1
    <3>1. index > 0 /\ index \in 1 .. n /\ (index - 1) + 1 = index
      BY <1>2, <2>1
    <3>2. PICK k, l : k = q[index].key /\ l = q[j].key
      OBVIOUS
    <3>3. k \in Int /\ l \in Int /\ k < key
      BY <1>2, <1>3, <3>1, <3>2
    <3>4. CASE j = index
      BY <2>1, <3>2, <3>3, <3>4
    <3>5. CASE j < index
      <4>1. l < k
        BY <1>2, <3>1, <3>2, <3>5
      <4>2. l < key
        BY <1>2, <3>3, <4>1
      <4> QED BY <2>1, <3>2, <4>2
    <3> QED BY <1>2, <2>1, <3>4, <3>5
  <2>2. CASE ~ (j < index + 1)
    <3>1. index < n /\ index + 1 \in 1 .. n
      BY <1>2, <2>2
    <3>2. PICK k, l : k = q[index + 1].key /\ l = q[j].key
      OBVIOUS
    <3>3. k \in Int /\ l \in Int /\ key < k
      BY <1>2, <1>3, <3>1, <3>2
    <3>4. CASE j = index + 1
      BY <2>2, <3>2, <3>3, <3>4
    <3>5. CASE index + 1 < j
      <4>1. k < l
        BY <1>2, <3>1, <3>2, <3>5
      <4>2. key < l
        BY <1>2, <3>3, <4>1
      <4> QED BY <2>2, <3>2, <4>2
    <3> QED BY <1>2, <2>2, <3>4, <3>5
  <2> QED BY <2>1, <2>2
<1>5. PICK i : i = index + 1
  OBVIOUS
<1>6. i \in 1 .. Len(orderedList) + 1 /\ Belongs(orderedList, i, key)
  BY <1>2, <1>4, <1>5 DEF Belongs
<1>7. OrderedInv' /\ Ordered!Mapping' = WithOf(Ordered!Mapping, key, data)
  BY <1>1, <1>5, <1>6, InsertionKeeps
<1>8. ~ Ordered!AsMap!Holds(key)
  <2>1. ASSUME NEW j \in 1 .. n
        PROVE  q[j].key # key
    <3>1. ~ (key < key)
      BY <1>2
    <3> QED BY <1>4, <3>1
  <2>2. key \notin KeysOf(q)
    BY <2>1 DEF KeysOf
  <2> QED BY <2>2, OrderedFacts
<1>9. Ordered!Mapping' = Ordered!AsMap!With(key, data)
  BY <1>7 DEF WithOf, Ordered!AsMap!With
<1> QED BY <1>1, <1>7, <1>8, <1>9 DEF Ordered!AsMap!Add, Ordered!AsMap!Calls

LEMMA RemoveRemoves ==
  ASSUME KeyConstants, OrderedInv, NEW key \in Keys, Ordered!Remove(key)
  PROVE  OrderedInv' /\ Ordered!AsMap!Remove(key)
<1>1. /\ orderedList' = Ordered!Without(key)
      /\ orderedResult' = Ordered!HasData(key)
      /\ orderedCall' = [op |-> "remove", key |-> key, data |-> NoData]
  BY DEF Ordered!Remove, Ordered!Calls
<1>2. /\ Told(key) /\ (Ordered!AsMap!Holds(key) <=> key \in KeysOf(orderedList))
      /\ DOMAIN Ordered!Mapping = KeysOf(orderedList)
      /\ Ordered!AsMap!Holds(key) \in BOOLEAN
  BY ToldRightly, OrderedFacts DEF Ordered!AsMap!Holds
<1>3. CASE key \in KeysOf(orderedList)
  <2>1. PICK i : i = Ordered!GetIndexFromKey(key).index + 1
    OBVIOUS
  <2>2. /\ Ordered!HasData(key) = TRUE /\ i \in 1 .. Len(orderedList)
        /\ orderedList[i].key = key
    BY <1>2, <1>3, <2>1 DEF Told
  <2>3. orderedList' = Ordered!Ext!RemoveAt(orderedList, i)
    BY <1>1, <2>1, <2>2 DEF Ordered!Without
  <2>4. OrderedInv' /\ Ordered!Mapping' = WithoutOf(Ordered!Mapping, key)
    BY <2>2, <2>3, RemovalKeeps
  <2>5. Ordered!Mapping'
          = Ordered!AsMap!Restrict(Ordered!Mapping, DOMAIN Ordered!Mapping \ {key})
    BY <2>4 DEF WithoutOf, Ordered!AsMap!Restrict
  <2>6. orderedResult' = Ordered!AsMap!Holds(key)
    BY <1>1, <1>2, <1>3, <2>2
  <2> QED BY <1>1, <2>4, <2>5, <2>6 DEF Ordered!AsMap!Remove, Ordered!AsMap!Calls
<1>4. CASE key \notin KeysOf(orderedList)
  <2>1. Ordered!HasData(key) = FALSE /\ UNCHANGED orderedList
    BY <1>1, <1>2, <1>4 DEF Told, Ordered!Without
  <2>2. OrderedInv' /\ UNCHANGED Ordered!Mapping
    BY <2>1, SameList
  <2>3. Ordered!Mapping = [k \in KeysOf(orderedList) |-> Ordered!Mapping[k]]
    BY <1>2, OrderedFacts DEF MapOf
  <2>4. DOMAIN Ordered!Mapping \ {key} = KeysOf(orderedList)
    BY <1>2, <1>4
  <2>5. Ordered!Mapping'
          = Ordered!AsMap!Restrict(Ordered!Mapping, DOMAIN Ordered!Mapping \ {key})
    BY <2>2, <2>3, <2>4 DEF Ordered!AsMap!Restrict
  <2>6. orderedResult' = Ordered!AsMap!Holds(key)
    BY <1>1, <1>2, <1>4, <2>1
  <2> QED BY <1>1, <2>2, <2>5, <2>6 DEF Ordered!AsMap!Remove, Ordered!AsMap!Calls
<1> QED BY <1>3, <1>4

LEMMA RemoveAtIndexRemoves ==
  ASSUME KeyConstants, OrderedInv, NEW index \in 0 .. Ordered!Size - 1,
         Ordered!RemoveAtIndex(index)
  PROVE  OrderedInv' /\ \E key \in Keys : Ordered!AsMap!Remove(key)
<1>1. PICK i, key : i = index + 1 /\ key = orderedList[i].key
  OBVIOUS
<1>2. /\ i \in 1 .. Len(orderedList)
      /\ orderedList \in [1 .. Len(orderedList) -> Node]
  BY <1>1, OrderedFacts DEF Searchable
<1>3. /\ orderedList' = Ordered!Ext!RemoveAt(orderedList, i)
      /\ orderedResult' = TRUE
      /\ orderedCall' = [op |-> "remove", key |-> key, data |-> NoData]
  BY <1>1 DEF Ordered!RemoveAtIndex, Ordered!Calls, Ordered!Element
<1>4. /\ OrderedInv' /\ key \in KeysOf(orderedList)
      /\ Ordered!Mapping' = WithoutOf(Ordered!Mapping, key)
  BY <1>1, <1>2, <1>3, RemovalKeeps
<1>5. Ordered!AsMap!Holds(key) = TRUE
  BY <1>4, OrderedFacts DEF Ordered!AsMap!Holds
<1>6. Ordered!Mapping'
        = Ordered!AsMap!Restrict(Ordered!Mapping, DOMAIN Ordered!Mapping \ {key})
  BY <1>4 DEF WithoutOf, Ordered!AsMap!Restrict
<1>7. Ordered!AsMap!Remove(key)
  BY <1>3, <1>5, <1>6 DEF Ordered!AsMap!Remove, Ordered!AsMap!Calls
<1>8. key \in Keys
  BY <1>1, <1>2 DEF Node
<1> QED BY <1>4, <1>7, <1>8

LEMMA GetElementLooks ==
  ASSUME KeyConstants, OrderedInv, NEW key \in Keys, Ordered!GetElementFromKey(key)
  PROVE  OrderedInv' /\ Ordered!AsMap!Look(key)
<1>1. PICK i : i = Ordered!GetIndexFromKey(key).index + 1
  OBVIOUS
<1>2. /\ orderedResult' = IF Ordered!HasData(key) THEN orderedList[i].data ELSE NoData
      /\ orderedCall' = [op |-> "look", key |-> key, data |-> NoData]
      /\ UNCHANGED orderedList
  BY <1>1 DEF Ordered!GetElementFromKey, Ordered!Calls, Ordered!Element
<1>3. OrderedInv' /\ UNCHANGED Ordered!Mapping
  BY <1>2, SameList
<1>4. /\ Told(key) /\ (Ordered!AsMap!Holds(key) <=> key \in KeysOf(orderedList))
      /\ Ordered!Mapping = MapOf(orderedList) /\ Searchable(orderedList)
  BY ToldRightly, OrderedFacts
<1>5. orderedResult' = IF Ordered!AsMap!Holds(key) THEN Ordered!Mapping[key] ELSE NoData
  <2>1. CASE key \in KeysOf(orderedList)
    <3>1. /\ Ordered!HasData(key) = TRUE /\ i \in 1 .. Len(orderedList)
          /\ orderedList[i].key = key
      BY <1>1, <1>4, <2>1 DEF Told
    <3>2. Ordered!Mapping[key] = orderedList[i].data
      BY <1>4, <3>1, MapAt
    <3> QED BY <1>2, <1>4, <2>1, <3>1, <3>2
  <2>2. CASE key \notin KeysOf(orderedList)
    BY <1>2, <1>4, <2>2 DEF Told
  <2> QED BY <2>1, <2>2
<1> QED BY <1>2, <1>3, <1>5 DEF Ordered!AsMap!Look, Ordered!AsMap!Calls

\* The operators that the abstract map brings with it are those of FiniteSets.
LEMMA SameCount == \A S : Ordered!AsMap!Cardinality(S) = Cardinality(S)
BY DEF Ordered!AsMap!Cardinality, Cardinality

LEMMA GetIsAt ==
  ASSUME KeyConstants, OrderedInv, NEW index \in 0 .. Ordered!Size - 1,
         Ordered!Get(index)
  PROVE  /\ OrderedInv'
         /\ \E n \in 0 .. Ordered!AsMap!Cardinality(DOMAIN Ordered!Mapping) - 1 :
              Ordered!AsMap!At(n)
<1>1. PICK i, key : i = index + 1 /\ key = orderedList[i].key
  OBVIOUS
<1>2. /\ orderedResult' = <<key, orderedList[i].data>>
      /\ orderedCall' = [op |-> "at", key |-> index, data |-> NoData]
      /\ UNCHANGED orderedList
  BY <1>1 DEF Ordered!Get, Ordered!Calls, Ordered!Element
<1>3. OrderedInv' /\ UNCHANGED Ordered!Mapping
  BY <1>2, SameList
<1>4. /\ Searchable(orderedList) /\ Ordered!Size = Len(orderedList)
      /\ Ordered!Mapping = MapOf(orderedList)
      /\ DOMAIN Ordered!Mapping = KeysOf(orderedList)
  BY OrderedFacts
<1>5. i \in 1 .. Len(orderedList) /\ i - 1 = index
  BY <1>1, <1>4 DEF Searchable
<1>6. key \in KeysOf(orderedList) /\ Ordered!Mapping[key] = orderedList[i].data
  BY <1>1, <1>4, <1>5, MapAt
<1>7. /\ Cardinality(KeysOf(orderedList)) = Len(orderedList)
      /\ Cardinality({k \in KeysOf(orderedList) : k < key}) = index
  BY <1>1, <1>4, <1>5, RankOf
<1>8. Ordered!AsMap!Cardinality({k \in DOMAIN Ordered!Mapping : k < key}) = index
  BY <1>4, <1>7, SameCount
<1>9. Ordered!AsMap!At(index)
  BY <1>2, <1>3, <1>4, <1>6, <1>8 DEF Ordered!AsMap!At, Ordered!AsMap!Calls
<1>10. index \in 0 .. Ordered!AsMap!Cardinality(DOMAIN Ordered!Mapping) - 1
  BY <1>4, <1>7, SameCount
<1> QED BY <1>3, <1>9, <1>10

LEMMA EmptyMap ==
  ASSUME NEW s, s = <<>>
  PROVE  MapOf(s) = <<>> /\ InOrder(s) /\ s \in Seq(Node)
<1>1. Len(s) = 0 /\ s \in Seq(Node)
  BY EmptySeq
<1>2. KeysOf(s) = {} /\ InOrder(s)
  BY <1>1 DEF KeysOf, InOrder
<1>3. MapOf(s) = <<>>
  BY <1>2 DEF MapOf
<1> QED BY <1>1, <1>2, <1>3

LEMMA ClearClears ==
  ASSUME Ordered!Clear
  PROVE  OrderedInv' /\ Ordered!AsMap!Clear
<1>1. PICK r : r = orderedList' /\ r = <<>>
  BY DEF Ordered!Clear
<1>2. MapOf(r) = <<>> /\ InOrder(r) /\ r \in Seq(Node)
  BY <1>1, EmptyMap
<1>3. Ordered!Mapping' = <<>>
  BY <1>1, <1>2 DEF Ordered!Mapping, Ordered!Size, MapOf, KeysOf
<1> QED BY <1>1, <1>2, <1>3 DEF OrderedInv, Ordered!Clear, Ordered!Calls,
           Ordered!AsMap!Clear, Ordered!AsMap!Calls

LEMMA OrderedStarts ==
  ASSUME Ordered!Init
  PROVE  OrderedInv /\ Ordered!AsMap!Init
<1>1. PICK r : r = orderedList /\ r = <<>>
  BY DEF Ordered!Init
<1>2. MapOf(r) = <<>> /\ InOrder(r) /\ r \in Seq(Node)
  BY <1>1, EmptyMap
<1>3. Ordered!Mapping = <<>>
  BY <1>1, <1>2 DEF Ordered!Mapping, Ordered!Size, MapOf, KeysOf
<1> QED BY <1>1, <1>2, <1>3 DEF OrderedInv, Ordered!Init, Ordered!AsMap!Init

LEMMA SetPuts ==
  ASSUME KeyConstants, OrderedInv, NEW key \in Keys, NEW data \in Data,
         Ordered!Set(key, data)
  PROVE  OrderedInv' /\ Ordered!AsMap!Put(key, data)
<1> PICK q, i : q = orderedList /\ i = Ordered!GetIndexFromKey(key).index + 1
  OBVIOUS
<1>1. /\ orderedList' = IF Ordered!HasData(key) THEN [q EXCEPT ![i].data = data]
                        ELSE Ordered!Inserted(key, data)
      /\ orderedResult' = NoData
      /\ orderedCall' = [op |-> "put", key |-> key, data |-> data]
  BY DEF Ordered!Set, Ordered!Calls
<1>2. /\ Told(key) /\ Searchable(q) /\ q \in [1 .. Len(q) -> Node]
      /\ q \in Seq(Node) /\ Ordered!Mapping = MapOf(q)
  BY ToldRightly, OrderedFacts DEF OrderedInv
<1>3. OrderedInv' /\ Ordered!Mapping' = WithOf(Ordered!Mapping, key, data)
  <2>1. CASE key \in KeysOf(q)
    <3>1. Ordered!HasData(key) = TRUE /\ i \in 1 .. Len(q) /\ q[i].key = key
      BY <1>2, <2>1 DEF Told
    <3>2. PICK r : r = [q EXCEPT ![i].data = data]
      OBVIOUS
    <3>3. ASSUME NEW j \in 1 .. Len(q)
          PROVE  /\ r[j] \in Node /\ r[j].key = q[j].key
                 /\ r[j].data = IF j = i THEN data ELSE q[j].data
      <4>1. q[j] \in Node
        BY <1>2
      <4>2. r[j] = IF j = i THEN [q[j] EXCEPT !.data = data] ELSE q[j]
        BY <1>2, <3>2
      <4> QED BY <4>1, <4>2 DEF Node
    <3>4. r \in [1 .. Len(q) -> Node]
      <4>1. r = [j \in 1 .. Len(q) |-> r[j]]
        BY <1>2, <3>2
      <4> QED BY <3>3, <4>1
    <3>5. Len(q) \in Nat
      BY <1>2 DEF Searchable
    <3>6. r \in Seq(Node) /\ Len(r) = Len(q)
      BY <3>4, <3>5
    <3>7. Searchable(r) /\ MapOf(r) = WithOf(MapOf(q), q[i].key, data)
      <4>1. Searchable(q) /\ i \in 1 .. Len(q) /\ Len(r) = Len(q)
        BY <1>2, <3>1, <3>6
      <4>2. \A j \in 1 .. Len(q) : /\ r[j].key = q[j].key
                                   /\ r[j].data = IF j = i THEN data ELSE q[j].data
        BY <3>3
      <4> QED BY ONLY <4>1, <4>2, ChangedMap, Zenon
    <3>8. orderedList' = r
      BY <1>1, <3>1, <3>2
    <3>9. Ordered!Mapping' = MapOf(r)
      BY <3>8 DEF Ordered!Mapping, Ordered!Size, MapOf, KeysOf
    <3> QED BY <1>2, <3>1, <3>6, <3>7, <3>8, <3>9 DEF OrderedInv, Searchable
  <2>2. CASE key \notin KeysOf(q)
    <3>1. /\ Ordered!HasData(key) = FALSE /\ i \in 1 .. Len(orderedList) + 1
          /\ Belongs(orderedList, i, key)
      BY <1>2, <2>2 DEF Told
    <3>2. orderedList'
            = Ordered!Ext!InsertAt(orderedList, i, [key |-> key, data |-> data])
      BY <1>1, <3>1 DEF Ordered!Inserted, Ordered!InsertedAt
    <3> QED BY <3>1, <3>2, InsertionKeeps
  <2> QED BY <2>1, <2>2
<1>4. Ordered!Mapping' = Ordered!AsMap!With(key, data)
  BY <1>3 DEF WithOf, Ordered!AsMap!With
<1> QED BY <1>1, <1>3, <1>4 DEF Ordered!AsMap!Put, Ordered!AsMap!Calls

\* Each call of the list, and each of the map, is one of the abstract map.
LEMMA OrderedStep ==
  ASSUME KeyConstants, OrderedInv, Ordered!Next
  PROVE  OrderedInv' /\ Ordered!AsMap!Next
<1>1. ASSUME NEW key \in Keys, NEW data \in Data, Ordered!Insert(key, data)
      PROVE  OrderedInv' /\ Ordered!AsMap!Next
  BY <1>1, InsertAdds DEF Ordered!AsMap!Next
<1>2. ASSUME NEW key \in Keys, NEW data \in Data, NEW index \in 0 .. Ordered!Size,
             Ordered!InsertAtIndex(key, data, index)
      PROVE  OrderedInv' /\ Ordered!AsMap!Next
  BY <1>2, InsertAtIndexAdds DEF Ordered!AsMap!Next
<1>3. ASSUME NEW key \in Keys, Ordered!Remove(key)
      PROVE  OrderedInv' /\ Ordered!AsMap!Next
  BY <1>3, RemoveRemoves DEF Ordered!AsMap!Next
<1>4. ASSUME NEW key \in Keys, Ordered!GetElementFromKey(key)
      PROVE  OrderedInv' /\ Ordered!AsMap!Next
  BY <1>4, GetElementLooks DEF Ordered!AsMap!Next
<1>5. ASSUME NEW index \in 0 .. Ordered!Size - 1, Ordered!Get(index)
      PROVE  OrderedInv' /\ Ordered!AsMap!Next
  BY <1>5, GetIsAt DEF Ordered!AsMap!Next
<1>6. ASSUME NEW index \in 0 .. Ordered!Size - 1, Ordered!RemoveAtIndex(index)
      PROVE  OrderedInv' /\ Ordered!AsMap!Next
  BY <1>6, RemoveAtIndexRemoves DEF Ordered!AsMap!Next
<1>7. CASE Ordered!Clear
  BY <1>7, ClearClears DEF Ordered!AsMap!Next
<1> QED BY <1>1, <1>2, <1>3, <1>4, <1>5, <1>6, <1>7 DEF Ordered!Next

LEMMA MapStep ==
  ASSUME KeyConstants, OrderedInv, Ordered!MapNext
  PROVE  OrderedInv' /\ Ordered!AsMap!Next
<1>1. ASSUME NEW key \in Keys, NEW data \in Data,
             Ordered!Set(key, data) \/ Ordered!SetExisting(key, data)
      PROVE  OrderedInv' /\ Ordered!AsMap!Next
  BY <1>1, SetPuts DEF Ordered!AsMap!Next, Ordered!SetExisting
<1>2. ASSUME NEW key \in Keys, NEW data \in Data, Ordered!SetNew(key, data)
      PROVE  OrderedInv' /\ Ordered!AsMap!Next
  BY <1>2, InsertAdds DEF Ordered!AsMap!Next, Ordered!SetNew
<1>3. ASSUME NEW key \in Keys, Ordered!MapGet(key)
      PROVE  OrderedInv' /\ Ordered!AsMap!Next
  BY <1>3, GetElementLooks DEF Ordered!AsMap!Next, Ordered!MapGet
<1>4. ASSUME NEW key \in Keys, Ordered!Pop(key) \/ Ordered!Delete(key)
      PROVE  OrderedInv' /\ Ordered!AsMap!Next
  BY <1>4, RemoveRemoves DEF Ordered!AsMap!Next, Ordered!Pop, Ordered!Delete
<1>5. ASSUME NEW position \in 0 .. Ordered!Size - 1, Ordered!GetAtIndex(position)
      PROVE  OrderedInv' /\ Ordered!AsMap!Next
  BY <1>5, GetIsAt DEF Ordered!AsMap!Next, Ordered!GetAtIndex
<1>6. ASSUME NEW position \in 0 .. Ordered!Size - 1, Ordered!RemoveAtIndex(position)
      PROVE  OrderedInv' /\ Ordered!AsMap!Next
  BY <1>6, RemoveAtIndexRemoves DEF Ordered!AsMap!Next
<1>7. CASE Ordered!Clear
  BY <1>7, ClearClears DEF Ordered!AsMap!Next
<1> QED BY <1>1, <1>2, <1>3, <1>4, <1>5, <1>6, <1>7 DEF Ordered!MapNext

LEMMA OrderedKeeps ==
  ASSUME KeyConstants, OrderedInv, [CollectionsNext]_collections
  PROVE  /\ OrderedInv'
         /\ Takes("orderedlist", Ordered!AsMap!Next, Ordered!AsMap!vars)
         /\ Takes("map", Ordered!AsMap!Next, Ordered!AsMap!vars)
<1>1. CASE CollectionsNext /\ part = "orderedlist"
  <2>1. Ordered!Next
    BY <1>1 DEF CollectionsNext, Moves
  <2> QED BY <1>1, <2>1, OrderedStep DEF Takes
<1>2. CASE CollectionsNext /\ part = "map"
  <2>1. Ordered!MapNext
    BY <1>2 DEF CollectionsNext, Moves
  <2> QED BY <1>2, <2>1, MapStep DEF Takes
<1>3. CASE UNCHANGED orderedVars
  <2>1. UNCHANGED <<orderedList, orderedCall, orderedResult>>
    BY <1>3 DEF orderedVars
  <2>2. OrderedInv' /\ UNCHANGED Ordered!AsMap!vars
    BY <2>1, SameList DEF Ordered!AsMap!vars
  <2> QED BY <2>2 DEF Takes
<1> QED BY <1>1, <1>2, <1>3 DEF CollectionsNext, collections

\* The list is in order whatever is put in and taken out (DS_OrderedList.h:118-171).
THEOREM OrderIsKept == KeyConstants /\ CollectionsSpec => []OrderedInv
<1> SUFFICES ASSUME KeyConstants PROVE CollectionsSpec => []OrderedInv
  OBVIOUS
<1>1. CollectionsInit => OrderedInv
  BY OrderedStarts DEF CollectionsInit
<1>2. OrderedInv /\ [CollectionsNext]_collections => OrderedInv'
  BY OrderedKeeps
<1> QED BY <1>1, <1>2, PTL DEF CollectionsSpec

\* The ordered list and the map in it implement the abstract map: the binary search
\* finds each key that is there and the place of each that is not, and every call
\* does and returns what the map promises (DS_OrderedList.h, DS_Map.h).
THEOREM MapsAreMaps == KeyConstants /\ CollectionsSpec => OrderedListIsMap
<1> SUFFICES ASSUME KeyConstants PROVE CollectionsSpec => OrderedListIsMap
  OBVIOUS
<1>1. CollectionsInit => Ordered!AsMap!Init
  BY OrderedStarts DEF CollectionsInit
<1>2. OrderedInv /\ [CollectionsNext]_collections
        => /\ Takes("orderedlist", Ordered!AsMap!Next, Ordered!AsMap!vars)
           /\ Takes("map", Ordered!AsMap!Next, Ordered!AsMap!vars)
  BY OrderedKeeps
<1>3. CollectionsSpec => []OrderedInv
  BY OrderIsKept
<1> QED BY <1>1, <1>2, <1>3, PTL DEF CollectionsSpec, OrderedListIsMap

-------------------------------------------------------------------------------
(* Doublings.                                                              *)

IsDoubling(f, start) ==
  f = [k \in Nat |-> IF k = 0 THEN start ELSE 2 * f[k - 1]]

DoublesTo(g, n, start) ==
  /\ g \in [0 .. n -> Nat]
  /\ \A k \in 0 .. n : g[k] = IF k = 0 THEN start ELSE 2 * g[k - 1]

\* What holds of no doubling, and after each of which it holds, holds of all.
LEMMA ByDoublings ==
  ASSUME NEW D, 0 \in D, \A k \in Nat \ {0} : k - 1 \in D => k \in D
  PROVE  Nat \subseteq D
<1> SUFFICES ASSUME NEW n \in Nat, n \notin D PROVE FALSE
  OBVIOUS
<1>1. n \in {k \in 1 .. n : k \notin D}
  OBVIOUS
<1>2. PICK x \in {k \in 1 .. n : k \notin D} :
        \A y \in {k \in 1 .. n : k \notin D} : x <= y
  BY <1>1, LeastNumber
<1>3. x - 1 \notin D /\ x - 1 \in Nat /\ x - 1 # 0
  <2>1. x \in Nat \ {0} /\ x \notin D /\ x - 1 \in Nat
    OBVIOUS
  <2> QED BY <2>1
<1>4. x - 1 \in 1 .. n /\ ~ (x <= x - 1)
  BY <1>3
<1> QED BY <1>2, <1>3, <1>4

LEMMA ThereAreDoublings ==
  ASSUME NEW start \in Nat \ {0}
  PROVE  \E f : IsDoubling(f, start)
<1> DEFINE D == {n \in Nat : \E g : DoublesTo(g, n, start)}
<1>1. 0 \in D
  <2> PICK g : g = [k \in 0 .. 0 |-> start]
    OBVIOUS
  <2>1. DoublesTo(g, 0, start)
    BY DEF DoublesTo
  <2> QED BY <2>1
<1>2. ASSUME NEW n \in Nat \ {0}, n - 1 \in D
      PROVE  n \in D
  <2>1. PICK g : DoublesTo(g, n - 1, start)
    BY <1>2
  <2>2. PICK h : h = [k \in 0 .. n |-> IF k = n THEN 2 * g[n - 1] ELSE g[k]]
    OBVIOUS
  <2>3. g[n - 1] \in Nat /\ \A k \in 0 .. n - 1 : g[k] \in Nat
    BY <2>1 DEF DoublesTo
  <2>4. ASSUME NEW k \in 0 .. n
        PROVE  h[k] \in Nat /\ h[k] = IF k = 0 THEN start ELSE 2 * h[k - 1]
    <3>1. CASE k = n
      <4>1. n - 1 \in 0 .. n /\ n - 1 # n /\ n # 0
        OBVIOUS
      <4> QED BY <2>2, <2>3, <3>1, <4>1
    <3>2. CASE k # n
      <4>1. k \in 0 .. n - 1 /\ (k # 0 => k - 1 \in 0 .. n /\ k - 1 # n)
        BY <3>2
      <4>2. g[k] = IF k = 0 THEN start ELSE 2 * g[k - 1]
        BY <2>1, <4>1 DEF DoublesTo
      <4> QED BY <2>2, <2>3, <3>2, <4>1, <4>2
    <3> QED BY <3>1, <3>2
  <2>5. DoublesTo(h, n, start)
    <3>1. h \in [0 .. n -> Nat]
      BY <2>2, <2>4
    <3> QED BY <2>4, <3>1 DEF DoublesTo
  <2> QED BY <2>5
<1>3. ASSUME NEW n \in Nat
      PROVE  \E g : DoublesTo(g, n, start)
  <2>1. Nat \subseteq D
    <3> HIDE DEF D
    <3> QED BY <1>1, <1>2, ByDoublings
  <2> QED BY <2>1
<1> DEFINE Same == {k \in Nat : \A n, m \in Nat : \A g, h :
                     DoublesTo(g, n, start) /\ DoublesTo(h, m, start)
                       /\ k <= n /\ k <= m => g[k] = h[k]}
<1>4. 0 \in Same
  <2> SUFFICES ASSUME NEW n \in Nat, NEW m \in Nat, NEW g, NEW h,
                      DoublesTo(g, n, start), DoublesTo(h, m, start)
               PROVE  g[0] = h[0]
    OBVIOUS
  <2>1. 0 \in 0 .. n /\ 0 \in 0 .. m
    OBVIOUS
  <2> QED BY <2>1 DEF DoublesTo
<1>5. ASSUME NEW k \in Nat \ {0}, k - 1 \in Same
      PROVE  k \in Same
  <2> SUFFICES ASSUME NEW n \in Nat, NEW m \in Nat, NEW g, NEW h,
                      DoublesTo(g, n, start), DoublesTo(h, m, start), k <= n, k <= m
               PROVE  g[k] = h[k]
    OBVIOUS
  <2>1. k \in 0 .. n /\ k \in 0 .. m /\ k - 1 <= n /\ k - 1 <= m /\ k # 0
    OBVIOUS
  <2>2. g[k - 1] = h[k - 1]
    BY <1>5, <2>1
  <2> QED BY <2>1, <2>2 DEF DoublesTo
<1>6. Nat \subseteq Same
  <2> HIDE DEF Same
  <2> QED BY <1>4, <1>5, ByDoublings
<1> DEFINE f == [k \in Nat |-> (CHOOSE g : DoublesTo(g, k, start))[k]]
<1>7. ASSUME NEW k \in Nat
      PROVE  f[k] = IF k = 0 THEN start ELSE 2 * f[k - 1]
  <2>1. PICK g : g = (CHOOSE e : DoublesTo(e, k, start))
    OBVIOUS
  <2>2. DoublesTo(g, k, start) /\ f[k] = g[k] /\ k \in 0 .. k
    BY <1>3, <2>1
  <2>3. CASE k = 0
    BY <2>2, <2>3 DEF DoublesTo
  <2>4. CASE k # 0
    <3>1. PICK h : h = (CHOOSE e : DoublesTo(e, k - 1, start))
      OBVIOUS
    <3>2. k - 1 \in Nat /\ k - 1 <= k /\ k - 1 <= k - 1
      BY <2>4
    <3>3. DoublesTo(h, k - 1, start) /\ f[k - 1] = h[k - 1]
      BY <1>3, <3>1, <3>2
    <3>4. g[k - 1] = h[k - 1]
      BY <1>6, <2>2, <3>2, <3>3
    <3>5. g[k] = 2 * g[k - 1]
      BY <2>2, <2>4 DEF DoublesTo
    <3> QED BY <2>2, <2>4, <3>3, <3>4, <3>5
  <2> QED BY <2>3, <2>4
<1>8. IsDoubling(f, start)
  <2>1. f = [k \in Nat |-> f[k]]
    OBVIOUS
  <2> HIDE DEF f
  <2>2. \A k \in Nat : f[k] = IF k = 0 THEN start ELSE 2 * f[k - 1]
    BY <1>7
  <2>3. f = [k \in Nat |-> IF k = 0 THEN start ELSE 2 * f[k - 1]]
    BY <2>1, <2>2
  <2> QED BY <2>3 DEF IsDoubling
<1> QED BY <1>8

\* Doublings reach every number.
LEMMA DoublingsGrow ==
  ASSUME NEW start \in Nat \ {0}, NEW f, IsDoubling(f, start)
  PROVE  \A k \in Nat : f[k] \in Nat /\ f[k] > k
<1> DEFINE D == {k \in Nat : f[k] \in Nat /\ f[k] > k}
<1>1. \A k \in Nat : f[k] = IF k = 0 THEN start ELSE 2 * f[k - 1]
  <2>1. PICK g : g = [k \in Nat |-> IF k = 0 THEN start ELSE 2 * f[k - 1]]
    OBVIOUS
  <2>2. \A k \in Nat : g[k] = IF k = 0 THEN start ELSE 2 * f[k - 1]
    BY <2>1
  <2>3. g = f
    BY <2>1 DEF IsDoubling
  <2> QED BY <2>2, <2>3
<1>2. 0 \in D
  BY <1>1
<1>3. ASSUME NEW k \in Nat \ {0}, k - 1 \in D
      PROVE  k \in D
  <2>1. f[k] = 2 * f[k - 1] /\ f[k - 1] \in Nat /\ f[k - 1] > k - 1
    BY <1>1, <1>3
  <2>2. PICK e : e = f[k - 1]
    OBVIOUS
  <2>3. e \in Nat /\ e > k - 1 => 2 * e \in Nat /\ 2 * e > k
    OBVIOUS
  <2> QED BY <2>1, <2>2, <2>3
<1>4. Nat \subseteq D
  <2> HIDE DEF D
  <2> QED BY <1>2, <1>3, ByDoublings
<1> QED BY <1>4

-------------------------------------------------------------------------------
(* Sequences by their elements.                                            *)

Elements(s, n, U) == n \in Nat /\ s \in [1 .. n -> U]

LEMMA ElementsMake ==
  ASSUME NEW n, NEW U, NEW s, Elements(s, n, U)
  PROVE  s \in Seq(U) /\ Len(s) = n /\ DOMAIN s = 1 .. n
<1>1. n \in Nat /\ s \in [1 .. n -> U]
  BY DEF Elements
<1>2. s \in Seq(U)
  BY <1>1, SeqDef
<1>3. DOMAIN s = 1 .. n /\ DOMAIN s = 1 .. Len(s) /\ Len(s) \in Nat
  BY <1>1, <1>2, LenProperties
<1>4. PICK m : m = Len(s)
  OBVIOUS
<1>5. 1 .. n = 1 .. m /\ m \in Nat
  BY <1>3, <1>4
<1>6. n = m
  BY <1>1, <1>5
<1> QED BY <1>2, <1>3, <1>4, <1>6

LEMMA ElementsAre ==
  ASSUME NEW U, NEW s \in Seq(U)
  PROVE  Elements(s, Len(s), U)
BY LenProperties DEF Elements

\* Sequences with the same elements are the same.
LEMMA SameElements ==
  ASSUME NEW n, NEW U, NEW s, NEW r, Elements(s, n, U), Elements(r, n, U),
         \A i \in 1 .. n : s[i] = r[i]
  PROVE  s = r
BY DEF Elements

\* s is q with e at its ith place.
LEMMA LongerIsWidened ==
  ASSUME NEW n, NEW U, NEW q, Elements(q, n, U), NEW i \in 1 .. n + 1, NEW e \in U,
         NEW s, Elements(s, n + 1, U),
         \A j \in 1 .. n + 1 :
           s[j] = IF j < i THEN q[j] ELSE IF j = i THEN e ELSE q[j - 1]
  PROVE  s = Widened(q, i, e)
<1>1. q \in Seq(U) /\ Len(q) = n
  BY ElementsMake
<1> PICK r : r = Widened(q, i, e)
  OBVIOUS
<1>2. r \in Seq(U) /\ Longer(q, i, e, r)
  BY <1>1, WidenedLonger
<1>3. /\ Len(r) = n + 1
      /\ \A j \in 1 .. n + 1 :
           r[j] = IF j < i THEN q[j] ELSE IF j = i THEN e ELSE q[j - 1]
  BY <1>1, <1>2 DEF Longer
<1>4. Elements(r, n + 1, U)
  BY <1>2, <1>3, ElementsAre
<1>5. \A j \in 1 .. n + 1 : s[j] = r[j]
  BY <1>3
<1> QED BY <1>4, <1>5, SameElements

\* s is q without its ith element.
LEMMA ShorterIsRemoved ==
  ASSUME NEW n, NEW U, NEW q, Elements(q, n, U), NEW i \in 1 .. n,
         NEW s, Elements(s, n - 1, U),
         \A j \in 1 .. n - 1 : s[j] = IF j < i THEN q[j] ELSE q[j + 1]
  PROVE  s = Blocks!Removed(q, i)
<1>1. q \in Seq(U) /\ Len(q) = n
  BY ElementsMake
<1> PICK r : r = Blocks!Removed(q, i)
  OBVIOUS
<1>2. r \in Seq(U) /\ Shorter(q, i, r)
  BY <1>1, RemovedShorter
<1>3. /\ Len(r) = n - 1
      /\ \A j \in 1 .. n - 1 : r[j] = IF j < i THEN q[j] ELSE q[j + 1]
  BY <1>1, <1>2 DEF Shorter
<1>4. Elements(r, n - 1, U)
  BY <1>2, <1>3, ElementsAre
<1>5. \A j \in 1 .. n - 1 : s[j] = r[j]
  BY <1>3
<1> QED BY <1>4, <1>5, SameElements

\* s is the beginning of q.
LEMMA BeginningIsCut ==
  ASSUME NEW n, NEW U, NEW q, Elements(q, n, U), NEW i \in 0 .. n,
         NEW s, Elements(s, i, U), \A j \in 1 .. i : s[j] = q[j]
  PROVE  s = SubSeq(q, 1, i)
<1>1. q \in Seq(U) /\ Len(q) = n /\ n \in Nat /\ \A j \in 1 .. i : q[j] \in U
  BY ElementsMake DEF Elements
<1> PICK r : r = SubSeq(q, 1, i)
  OBVIOUS
<1>2. /\ r \in Seq(U) /\ Len(r) = (IF 1 <= i THEN i - 1 + 1 ELSE 0)
      /\ \A j \in 1 .. i - 1 + 1 : r[j] = q[1 + j - 1]
  BY <1>1, SubSeqProperties
<1>3. i - 1 + 1 = i /\ \A j \in 1 .. i : 1 + j - 1 = j
  OBVIOUS
<1>4. Elements(r, i, U)
  <2>1. Len(r) = i
    BY <1>2, <1>3
  <2> QED BY <1>2, <2>1, ElementsAre
<1>5. \A j \in 1 .. i : s[j] = r[j]
  BY <1>2, <1>3
<1> QED BY <1>4, <1>5, SameElements

-------------------------------------------------------------------------------
(* The list.                                                               *)

\* An array that starts has room for an item and one more place, and sizes are
\* natural numbers.
ArrayConstants ==
  /\ FirstAllocation \in Nat \ {0, 1}
  /\ MaxSize \in Nat
  /\ ForcedSizes \in SUBSET Nat

Cells == Data \cup {Unset}

Holds(a, m, n) ==
  /\ m \in Nat /\ n \in 0 .. m /\ n <= MaxSize
  /\ a \in [0 .. m - 1 -> Cells]

ListInv == Holds(listArray, listAllocation, list_size)

Held(a, n) == [i \in 1 .. n |-> a[i - 1]]

LEMMA HeldElements ==
  ASSUME NEW a, NEW m, NEW n, Holds(a, m, n)
  PROVE  /\ Elements(Held(a, n), n, Cells)
         /\ Len(Held(a, n)) = n /\ DOMAIN Held(a, n) = 1 .. n
         /\ \A i \in 1 .. n : Held(a, n)[i] = a[i - 1]
         /\ n \in Nat
<1>1. m \in Nat /\ n \in 0 .. m /\ a \in [0 .. m - 1 -> Cells] /\ n \in Nat
  BY DEF Holds
<1>2. \A i \in 1 .. n : Held(a, n)[i] = a[i - 1]
  BY DEF Held
<1>3. \A i \in 1 .. n : i - 1 \in 0 .. m - 1
  BY <1>1
<1>4. \A i \in 1 .. n : a[i - 1] \in Cells
  BY <1>1, <1>3
<1>5. Elements(Held(a, n), n, Cells)
  BY <1>1, <1>4 DEF Elements, Held
<1> QED BY <1>1, <1>2, <1>5, ElementsMake

Relaid(a, n, size) == [i \in 0 .. size - 1 |-> IF i < n THEN a[i] ELSE Unset]

\* The items have come along.
LEMMA MovedHolds ==
  ASSUME NEW a, NEW m, NEW n, Holds(a, m, n), NEW size \in Nat, n <= size
  PROVE  /\ Holds(Relaid(a, n, size), size, n)
         /\ \A i \in 0 .. n - 1 : Relaid(a, n, size)[i] = a[i]
<1>1. m \in Nat /\ n \in 0 .. m /\ n <= MaxSize /\ a \in [0 .. m - 1 -> Cells]
  BY DEF Holds
<1>2. ASSUME NEW i \in 0 .. size - 1
      PROVE  (IF i < n THEN a[i] ELSE Unset) \in Cells
  <2>1. i < n => i \in 0 .. m - 1
    BY <1>1
  <2> QED BY <1>1, <2>1 DEF Cells
<1>3. Relaid(a, n, size) \in [0 .. size - 1 -> Cells]
  BY <1>2 DEF Relaid
<1>4. n \in 0 .. size
  BY <1>1
<1>5. \A i \in 0 .. n - 1 : i \in 0 .. size - 1 /\ i < n
  BY <1>1
<1>6. \A i \in 0 .. n - 1 : Relaid(a, n, size)[i] = a[i]
  BY <1>5 DEF Relaid
<1> QED BY <1>1, <1>3, <1>4, <1>6 DEF Holds

\* Arrays that hold the same.
LEMMA SameHeld ==
  ASSUME NEW a, NEW m, NEW n, Holds(a, m, n), NEW b, NEW k, Holds(b, k, n),
         \A i \in 0 .. n - 1 : b[i] = a[i]
  PROVE  Held(b, n) = Held(a, n)
<1>1. \A i \in 1 .. n : i - 1 \in 0 .. n - 1
  BY DEF Holds
<1> QED BY <1>1 DEF Held

\* A place for one more.
LEMMA HeldLonger ==
  ASSUME NEW a, NEW m, NEW n, Holds(a, m, n), n < m, n < MaxSize, MaxSize \in Nat,
         NEW e \in Cells, NEW k \in 0 .. n, NEW b,
         b = [i \in DOMAIN a |-> IF i = k THEN e
                                 ELSE IF i \in k + 1 .. n THEN a[i - 1] ELSE a[i]]
  PROVE  Holds(b, m, n + 1) /\ Held(b, n + 1) = Widened(Held(a, n), k + 1, e)
<1>1. m \in Nat /\ n \in 0 .. m /\ a \in [0 .. m - 1 -> Cells]
  BY DEF Holds
<1>2. ASSUME NEW i \in 0 .. m - 1
      PROVE  /\ b[i] = IF i = k THEN e ELSE IF i \in k + 1 .. n THEN a[i - 1] ELSE a[i]
             /\ b[i] \in Cells
  <2>1. i \in k + 1 .. n => i - 1 \in 0 .. m - 1
    BY <1>1
  <2> QED BY <1>1, <2>1
<1>3. b \in [0 .. m - 1 -> Cells]
  BY <1>1, <1>2
<1>4. Holds(b, m, n + 1)
  <2>1. n + 1 \in 0 .. m /\ n + 1 <= MaxSize
    BY <1>1
  <2> QED BY <1>1, <1>3, <2>1 DEF Holds
<1>5. ASSUME NEW j \in 1 .. n + 1
      PROVE  Held(b, n + 1)[j] = IF j < k + 1 THEN Held(a, n)[j]
                                 ELSE IF j = k + 1 THEN e ELSE Held(a, n)[j - 1]
  <2>1. j - 1 \in 0 .. m - 1 /\ Held(b, n + 1)[j] = b[j - 1]
    BY <1>1, <1>4, HeldElements
  <2>2. CASE j < k + 1
    <3>1. /\ j \in 1 .. n /\ j - 1 # k /\ j - 1 \notin k + 1 .. n
      BY <1>1, <2>2
    <3>2. Held(a, n)[j] = a[j - 1]
      BY <3>1, HeldElements
    <3> QED BY <1>2, <2>1, <2>2, <3>1, <3>2
  <2>3. CASE j = k + 1
    <3>1. ~ (j < k + 1) /\ j - 1 = k
      BY <2>3
    <3> QED BY <1>2, <2>1, <2>3, <3>1
  <2>4. CASE ~ (j < k + 1) /\ j # k + 1
    <3>1. /\ j - 1 \in 1 .. n /\ j - 1 # k /\ j - 1 \in k + 1 .. n
      BY <1>1, <2>4
    <3>2. Held(a, n)[j - 1] = a[j - 1 - 1]
      BY <3>1, HeldElements
    <3> QED BY <1>2, <2>1, <2>4, <3>1, <3>2
  <2> QED BY <2>2, <2>3, <2>4
<1>6. Elements(Held(a, n), n, Cells) /\ Elements(Held(b, n + 1), n + 1, Cells)
  BY <1>4, HeldElements
<1>7. k + 1 \in 1 .. n + 1
  BY <1>1
<1> QED BY <1>4, <1>5, <1>6, <1>7, LongerIsWidened

\* The gap at k is closed.
LEMMA HeldShorter ==
  ASSUME NEW a, NEW m, NEW n, Holds(a, m, n), MaxSize \in Nat,
         NEW k \in 0 .. n - 1, NEW b,
         b = [i \in DOMAIN a |-> IF i \in k .. n - 2 THEN a[i + 1] ELSE a[i]]
  PROVE  Holds(b, m, n - 1) /\ Held(b, n - 1) = Blocks!Removed(Held(a, n), k + 1)
<1>1. /\ m \in Nat /\ n \in 0 .. m /\ a \in [0 .. m - 1 -> Cells] /\ n \in 1 .. m
      /\ n - 1 <= n
  BY DEF Holds
<1>2. ASSUME NEW i \in 0 .. m - 1
      PROVE  /\ b[i] = IF i \in k .. n - 2 THEN a[i + 1] ELSE a[i]
             /\ b[i] \in Cells
  <2>1. i \in k .. n - 2 => i + 1 \in 0 .. m - 1
    BY <1>1
  <2> QED BY <1>1, <2>1
<1>3. b \in [0 .. m - 1 -> Cells]
  BY <1>1, <1>2
<1>4. Holds(b, m, n - 1)
  <2>1. n - 1 \in 0 .. m
    BY <1>1
  <2>2. n - 1 <= MaxSize
    BY <1>1 DEF Holds
  <2> QED BY <1>1, <1>3, <2>1, <2>2 DEF Holds
<1>5. ASSUME NEW j \in 1 .. n - 1
      PROVE  Held(b, n - 1)[j] = IF j < k + 1 THEN Held(a, n)[j] ELSE Held(a, n)[j + 1]
  <2>1. j - 1 \in 0 .. m - 1
    BY <1>1
  <2>2. Held(b, n - 1)[j] = b[j - 1]
    BY <1>4, HeldElements
  <2>3. CASE j < k + 1
    <3>1. j \in 1 .. n /\ j - 1 \notin k .. n - 2
      BY <1>1, <2>3
    <3>2. Held(a, n)[j] = a[j - 1]
      BY <3>1, HeldElements
    <3> QED BY <1>2, <2>1, <2>2, <2>3, <3>1, <3>2
  <2>4. CASE ~ (j < k + 1)
    <3>1. j + 1 \in 1 .. n /\ j - 1 \in k .. n - 2 /\ (j - 1) + 1 = (j + 1) - 1
      BY <1>1, <2>4
    <3>2. Held(a, n)[j + 1] = a[(j + 1) - 1]
      BY <3>1, HeldElements
    <3> QED BY <1>2, <2>1, <2>2, <2>4, <3>1, <3>2
  <2> QED BY <2>3, <2>4
<1>6. Elements(Held(a, n), n, Cells) /\ Elements(Held(b, n - 1), n - 1, Cells)
  BY <1>4, HeldElements
<1>7. k + 1 \in 1 .. n
  BY <1>1
<1> QED BY <1>4, <1>5, <1>6, <1>7, ShorterIsRemoved

\* The first k items.
LEMMA HeldCut ==
  ASSUME NEW a, NEW m, NEW n, Holds(a, m, n), MaxSize \in Nat, NEW k \in 0 .. n
  PROVE  Holds(a, m, k) /\ Held(a, k) = SubSeq(Held(a, n), 1, k)
<1>1. m \in Nat /\ n \in 0 .. m /\ n <= MaxSize /\ a \in [0 .. m - 1 -> Cells]
  BY DEF Holds
<1>2. k \in 0 .. m /\ k <= MaxSize
  BY <1>1
<1>3. Holds(a, m, k)
  BY <1>1, <1>2 DEF Holds
<1>4. \A j \in 1 .. k : j \in 1 .. n
  BY <1>1
<1>5. \A j \in 1 .. k : Held(a, k)[j] = Held(a, n)[j]
  BY <1>3, <1>4, HeldElements
<1>6. Elements(Held(a, n), n, Cells) /\ Elements(Held(a, k), k, Cells)
  BY <1>3, HeldElements
<1> QED BY <1>3, <1>5, <1>6, BeginningIsCut

LEMMA ContentsHeld == List!Contents = Held(listArray, list_size)
BY DEF List!Contents, Held

LEMMA ListConstants ==
  ASSUME ArrayConstants
  PROVE  /\ FirstAllocation \in Nat \ {0, 1} /\ MaxSize \in Nat
         /\ ForcedSizes \in SUBSET Nat
BY DEF ArrayConstants

\* What the list holds, by other names.
ListAre(a, m, n, s) ==
  /\ a = listArray /\ m = listAllocation /\ n = list_size
  /\ s = List!Contents

LEMMA ListNow ==
  ASSUME ListInv, NEW a, NEW m, NEW n, NEW s, ListAre(a, m, n, s)
  PROVE  /\ Holds(a, m, n) /\ s = Held(a, n)
         /\ Len(s) = n /\ DOMAIN s = 1 .. n /\ n \in Nat /\ m \in Nat /\ n <= m
         /\ \A i \in 1 .. n : s[i] = a[i - 1]
         /\ Elements(s, n, Cells)
<1>1. Holds(a, m, n) /\ s = Held(a, n)
  BY ContentsHeld DEF ListInv, ListAre
<1>2. m \in Nat /\ n \in 0 .. m
  BY <1>1 DEF Holds
<1> QED BY <1>1, <1>2, HeldElements

\* What the list holds after a step, when its array, memory and size are known.
LEMMA ListThen ==
  ASSUME NEW a, NEW m, NEW n, Holds(a, m, n),
         listArray' = a, listAllocation' = m, list_size' = n
  PROVE  ListInv' /\ List!Contents' = Held(a, n)
BY DEF ListInv, List!Contents, Held

LEMMA ListMoves ==
  ASSUME NEW size
  PROVE  List!MovedTo(size) = Relaid(listArray, list_size, size)
BY DEF List!MovedTo, Relaid

LEMMA ListInserts ==
  ASSUME ArrayConstants, ListInv, NEW item \in Data, NEW position \in 0 .. list_size,
         List!Insert(item, position)
  PROVE  ListInv' /\ List!Sequence!Next
<1> PICK a, m, n, s : ListAre(a, m, n, s)
  BY DEF ListAre
<1>1. /\ Holds(a, m, n) /\ s = Held(a, n) /\ Len(s) = n /\ n \in Nat /\ m \in Nat
      /\ n <= m
  BY ListNow
<1> PICK room, m1 : /\ room = (IF List!MustGrow THEN List!MovedTo(List!Doubled) ELSE listArray)
                    /\ m1 = (IF List!MustGrow THEN List!Doubled ELSE listAllocation)
  OBVIOUS
<1>2. /\ list_size = n /\ n < MaxSize
      /\ listAllocation' = m1
      /\ listArray' = [i \in DOMAIN room |->
                         IF i = position THEN item
                         ELSE IF i \in position + 1 .. n THEN room[i - 1]
                         ELSE room[i]]
      /\ list_size' = n + 1
      /\ listCall' = [op |-> "insert", place |-> position + 1, item |-> item]
      /\ listResult' = NoItem
  BY DEF List!Insert, List!Called, ListAre
<1>3. Holds(room, m1, n) /\ Held(room, n) = s /\ n < m1
  <2>1. CASE List!MustGrow
    <3>1. n = m /\ m1 = IF m = 0 THEN FirstAllocation ELSE 2 * m
      BY <2>1 DEF List!MustGrow, List!Doubled, ListAre
    <3>2. m1 \in Nat /\ n < m1
      BY <1>1, <3>1, ListConstants
    <3>3. room = Relaid(a, n, m1)
      BY <2>1, ListMoves DEF ListAre
    <3>4. n <= m1
      BY <1>1, <3>2
    <3>5. Holds(room, m1, n) /\ \A i \in 0 .. n - 1 : room[i] = a[i]
      BY <1>1, <3>2, <3>3, <3>4, MovedHolds
    <3> QED BY <1>1, <3>2, <3>5, SameHeld
  <2>2. CASE ~ List!MustGrow
    <3>1. n # m /\ m1 = m /\ room = a
      BY <2>2 DEF List!MustGrow, ListAre
    <3>2. n < m
      BY <1>1, <3>1
    <3> QED BY <1>1, <3>1, <3>2
  <2> QED BY <2>1, <2>2
<1> PICK b : b = [i \in DOMAIN room |->
                    IF i = position THEN item
                    ELSE IF i \in position + 1 .. n THEN room[i - 1] ELSE room[i]]
  OBVIOUS
<1>4. position \in 0 .. n /\ item \in Cells
  BY <1>2 DEF Cells
<1>5. Holds(b, m1, n + 1) /\ Held(b, n + 1) = Widened(s, position + 1, item)
  BY <1>2, <1>3, <1>4, ListConstants, HeldLonger
<1>6. listArray' = b
  BY <1>2
<1>7. ListInv' /\ List!Contents' = Widened(s, position + 1, item)
  BY <1>2, <1>5, <1>6, ListThen
<1>8. List!Sequence!Insert(position + 1, item)
  BY <1>2, <1>7 DEF List!Sequence!Insert, List!Sequence!InsertAt, Widened, ListAre
<1>9. position + 1 \in 1 .. Len(List!Contents) + 1
  <2>1. Len(List!Contents) = n
    BY <1>1 DEF ListAre
  <2>2. position + 1 \in 1 .. n + 1
    BY <1>1, <1>4
  <2> QED BY <2>1, <2>2
<1> QED BY <1>7, <1>8, <1>9 DEF List!Sequence!Next

LEMMA ListRemoves ==
  ASSUME ArrayConstants, ListInv, NEW position \in 0 .. list_size - 1,
         List!RemoveAtIndex(position)
  PROVE  ListInv' /\ List!Sequence!Next
<1> PICK a, m, n, s, b :
      /\ ListAre(a, m, n, s)
      /\ b = [i \in DOMAIN a |-> IF i \in position .. n - 2 THEN a[i + 1] ELSE a[i]]
  BY DEF ListAre
<1>1. /\ Holds(a, m, n) /\ s = Held(a, n) /\ Len(s) = n /\ n \in Nat /\ m \in Nat
      /\ \A i \in 1 .. n : s[i] = a[i - 1]
  BY ListNow
<1>2. /\ position \in 0 .. n - 1
      /\ listArray' = b /\ list_size' = n - 1 /\ listAllocation' = m
      /\ listCall' = [op |-> "delete", place |-> position + 1, item |-> NoItem]
      /\ listResult' = a[position]
  BY DEF List!RemoveAtIndex, List!Closed, List!Called, ListAre
<1>3. Holds(b, m, n - 1) /\ Held(b, n - 1) = Blocks!Removed(s, position + 1)
  BY <1>1, <1>2, ListConstants, HeldShorter
<1>4. ListInv' /\ List!Contents' = Blocks!Removed(s, position + 1)
  BY <1>2, <1>3, ListThen
<1>5. position + 1 \in 1 .. n /\ (position + 1) - 1 = position
  BY <1>1, <1>2
<1>6. listResult' = s[position + 1]
  BY <1>1, <1>2, <1>5
<1>7. List!Sequence!Delete(position + 1)
  BY <1>2, <1>4, <1>6 DEF List!Sequence!Delete, List!Sequence!RemoveAt, Blocks!Removed, ListAre
<1>8. position + 1 \in 1 .. Len(List!Contents)
  BY <1>1, <1>5 DEF ListAre
<1> QED BY <1>4, <1>7, <1>8 DEF List!Sequence!Next

\* An item at a place, with fillers before it when that is beyond the end.
Stored(a, n, k, e, f) ==
  IF k >= n THEN [i \in DOMAIN a |-> IF i = k THEN e ELSE IF i \in n .. k THEN f ELSE a[i]]
  ELSE [a EXCEPT ![k] = e]

Filled(s, n, k, e, f) ==
  [i \in 1 .. n \cup 1 .. k + 1 |-> IF i = k + 1 THEN e
                                   ELSE IF i \in 1 .. n THEN s[i] ELSE f]

LEMMA HeldStored ==
  ASSUME NEW a, NEW m, NEW n, Holds(a, m, n), MaxSize \in Nat,
         NEW k \in 0 .. m - 1, k < MaxSize, NEW e \in Cells, NEW f \in Cells,
         NEW b, b = Stored(a, n, k, e, f), NEW n2, n2 = IF k >= n THEN k + 1 ELSE n
  PROVE  /\ Holds(b, m, n2)
         /\ Held(b, n2) = Filled(Held(a, n), n, k, e, f)
<1>1. /\ m \in Nat /\ n \in 0 .. m /\ a \in [0 .. m - 1 -> Cells] /\ k \in Nat
      /\ n \in Nat /\ n <= MaxSize
  BY DEF Holds
<1>2. ASSUME NEW i \in 0 .. m - 1
      PROVE  b[i] = IF i = k THEN e ELSE IF k >= n /\ i \in n .. k THEN f ELSE a[i]
  BY <1>1 DEF Stored
<1>3. b \in [0 .. m - 1 -> Cells]
  <2>1. CASE k >= n
    BY <1>1, <2>1 DEF Stored
  <2>2. CASE ~ (k >= n)
    BY <1>1, <2>2 DEF Stored
  <2> QED BY <2>1, <2>2
<1>4. /\ n2 \in 0 .. m /\ n2 <= MaxSize /\ 1 .. n \cup 1 .. k + 1 = 1 .. n2
  BY <1>1
<1>5. Holds(b, m, n2)
  BY <1>1, <1>3, <1>4 DEF Holds
<1>6. ASSUME NEW i \in 1 .. n2
      PROVE  Held(b, n2)[i] = IF i = k + 1 THEN e
                              ELSE IF i \in 1 .. n THEN Held(a, n)[i] ELSE f
  <2>1. Held(b, n2)[i] = b[i - 1]
    BY <1>5, HeldElements
  <2>2. i - 1 \in 0 .. m - 1
    BY <1>1, <1>4
  <2>3. CASE i = k + 1
    <3>1. i - 1 = k
      BY <1>1, <2>3
    <3> QED BY <1>2, <2>1, <2>2, <2>3, <3>1
  <2>4. CASE i # k + 1 /\ i \in 1 .. n
    <3>1. i - 1 # k /\ ~ (i - 1 \in n .. k)
      BY <1>1, <2>4
    <3>2. Held(a, n)[i] = a[i - 1]
      BY <2>4, HeldElements
    <3> QED BY <1>2, <2>1, <2>2, <2>4, <3>1, <3>2
  <2>5. CASE i # k + 1 /\ i \notin 1 .. n
    <3>1. i - 1 # k /\ i - 1 \in n .. k /\ k >= n
      BY <1>1, <1>4, <2>5
    <3> QED BY <1>2, <2>1, <2>2, <2>5, <3>1
  <2> QED BY <2>3, <2>4, <2>5
<1>7. Held(b, n2) = [i \in 1 .. n2 |-> IF i = k + 1 THEN e
                                       ELSE IF i \in 1 .. n THEN Held(a, n)[i] ELSE f]
  <2>1. Held(b, n2) = [i \in 1 .. n2 |-> Held(b, n2)[i]]
    BY DEF Held
  <2> QED BY <1>6, <2>1
<1> QED BY <1>4, <1>5, <1>7 DEF Filled

LEMMA ListStores ==
  ASSUME ArrayConstants, ListInv, NEW item \in Data, NEW filler \in Data,
         NEW position \in 0 .. MaxSize - 1, List!Replace(item, filler, position)
  PROVE  ListInv' /\ List!Sequence!Next
<1> PICK a, m, n, s : ListAre(a, m, n, s)
  BY DEF ListAre
<1>1. /\ Holds(a, m, n) /\ s = Held(a, n) /\ DOMAIN s = 1 .. n /\ n \in Nat /\ m \in Nat
      /\ n <= m
  BY ListNow
<1> PICK room, m1, n2, b :
      /\ room = (IF position >= m THEN Relaid(a, n, position + 1) ELSE a)
      /\ m1 = (IF position >= m THEN position + 1 ELSE m)
      /\ n2 = (IF position >= n THEN position + 1 ELSE n)
      /\ b = Stored(room, n, position, item, filler)
  OBVIOUS
<1>2. position \in Nat /\ position < MaxSize /\ MaxSize \in Nat
  BY ListConstants
<1>3. /\ listAllocation' = m1
      /\ listArray' = b
      /\ list_size' = n2
      /\ listCall' = [op |-> "store", place |-> position + 1, item |-> item]
      /\ listResult' = NoItem
  <2>1. /\ listAllocation' = m1
        /\ listCall' = [op |-> "store", place |-> position + 1, item |-> item]
        /\ listResult' = NoItem
    BY DEF List!Replace, List!Called, ListAre
  <2>2. CASE position >= n
    <3>1. room = (IF position >= listAllocation THEN List!MovedTo(position + 1) ELSE listArray)
      BY ListMoves DEF ListAre
    <3>2. /\ listArray' = [i \in DOMAIN room |->
                             IF i = position THEN item
                             ELSE IF i \in n .. position THEN filler ELSE room[i]]
          /\ list_size' = position + 1
      BY <2>2, <3>1 DEF List!Replace, List!Beyond, ListAre
    <3> QED BY <2>1, <2>2, <3>2 DEF Stored
  <2>3. CASE ~ (position >= n)
    <3>1. ~ (position >= m)
      BY <1>1, <1>2, <2>3
    <3>2. /\ listArray' = [a EXCEPT ![position] = item] /\ list_size' = n
      BY <2>3 DEF List!Replace, List!Beyond, ListAre
    <3> QED BY <2>1, <2>3, <3>1, <3>2 DEF Stored
  <2> QED BY <2>2, <2>3
<1>4. Holds(room, m1, n) /\ Held(room, n) = s /\ position \in 0 .. m1 - 1
  <2>1. CASE position >= m
    <3>1. m1 \in Nat /\ n <= m1 /\ position \in 0 .. m1 - 1
      BY <1>1, <1>2, <2>1
    <3>2. room = Relaid(a, n, m1)
      BY <2>1
    <3>3. Holds(room, m1, n) /\ \A i \in 0 .. n - 1 : room[i] = a[i]
      BY <1>1, <3>1, <3>2, MovedHolds
    <3> QED BY <1>1, <3>1, <3>3, SameHeld
  <2>2. CASE ~ (position >= m)
    <3>1. position \in 0 .. m - 1
      BY <1>1, <1>2, <2>2
    <3> QED BY <1>1, <2>2, <3>1
  <2> QED BY <2>1, <2>2
<1>5. item \in Cells /\ filler \in Cells
  BY DEF Cells
<1>6. /\ Holds(b, m1, n2)
      /\ Held(b, n2) = [i \in 1 .. n \cup 1 .. position + 1 |->
                          IF i = position + 1 THEN item
                          ELSE IF i \in 1 .. n THEN s[i] ELSE filler]
  <2>1. Holds(b, m1, n2) /\ Held(b, n2) = Filled(Held(room, n), n, position, item, filler)
    BY <1>2, <1>4, <1>5, HeldStored
  <2> QED BY <1>4, <2>1 DEF Filled
<1>7. ListInv' /\ List!Contents' = Held(b, n2)
  BY <1>3, <1>6, ListThen
<1>8. List!Sequence!Store(position + 1, item, filler)
  <2>1. s = List!Contents
    BY DEF ListAre
  <2>2. List!Contents' = [i \in DOMAIN List!Contents \cup 1 .. position + 1 |->
                            IF i = position + 1 THEN item
                            ELSE IF i \in DOMAIN List!Contents THEN List!Contents[i]
                                 ELSE filler]
    BY <1>1, <1>6, <1>7, <2>1
  <2> QED BY <1>3, <2>2 DEF List!Sequence!Store
<1>9. position + 1 \in 1 .. MaxSize
  BY <1>2
<1> QED BY <1>7, <1>8, <1>9 DEF List!Sequence!Next

LEMMA ListGets ==
  ASSUME ListInv, NEW position \in 0 .. list_size - 1, List!Get(position)
  PROVE  ListInv' /\ List!Sequence!Next
<1> PICK a, m, n, s : ListAre(a, m, n, s)
  BY DEF ListAre
<1>1. /\ Holds(a, m, n) /\ s = Held(a, n) /\ Len(s) = n /\ n \in Nat
      /\ \A i \in 1 .. n : s[i] = a[i - 1]
  BY ListNow
<1>2. /\ position \in 0 .. n - 1
      /\ listArray' = a /\ list_size' = n /\ listAllocation' = m
      /\ listCall' = [op |-> "look", place |-> position + 1, item |-> NoItem]
      /\ listResult' = a[position]
  BY DEF List!Get, List!list, List!Called, ListAre
<1>3. ListInv' /\ List!Contents' = s
  BY <1>1, <1>2, ListThen
<1>4. position + 1 \in 1 .. n /\ (position + 1) - 1 = position
  BY <1>1, <1>2
<1>5. listResult' = s[position + 1]
  BY <1>1, <1>2, <1>4
<1>6. List!Sequence!Look(position + 1)
  BY <1>2, <1>3, <1>5 DEF List!Sequence!Look, ListAre
<1>7. position + 1 \in 1 .. Len(List!Contents)
  BY <1>1, <1>4 DEF ListAre
<1> QED BY <1>3, <1>6, <1>7 DEF List!Sequence!Next

LEMMA ListPops ==
  ASSUME ArrayConstants, ListInv, List!Pop
  PROVE  ListInv' /\ List!Sequence!Next
<1> PICK a, m, n, s : ListAre(a, m, n, s)
  BY DEF ListAre
<1>1. /\ Holds(a, m, n) /\ s = Held(a, n) /\ Len(s) = n /\ n \in Nat /\ m \in Nat
      /\ \A i \in 1 .. n : s[i] = a[i - 1]
      /\ Elements(s, n, Cells)
  BY ListNow
<1>2. /\ n > 0
      /\ listArray' = a /\ list_size' = n - 1 /\ listAllocation' = m
      /\ listCall' = [op |-> "delete", place |-> n, item |-> NoItem]
      /\ listResult' = a[n - 1]
  BY DEF List!Pop, List!Called, ListAre
<1>3. n \in 1 .. n /\ n - 1 \in 0 .. n /\ \A j \in 1 .. n - 1 : j < n /\ j \in 1 .. n
  BY <1>1, <1>2
<1>4. Holds(a, m, n - 1)
  BY <1>1, <1>3, ListConstants, HeldCut
<1>5. /\ Elements(Held(a, n - 1), n - 1, Cells)
      /\ \A j \in 1 .. n - 1 : Held(a, n - 1)[j] = a[j - 1]
  BY <1>4, HeldElements
<1>6. \A j \in 1 .. n - 1 : Held(a, n - 1)[j] = s[j]
  BY <1>1, <1>3, <1>5
<1>7. Held(a, n - 1) = Blocks!Removed(s, n)
  <2>1. \A j \in 1 .. n - 1 : Held(a, n - 1)[j] = IF j < n THEN s[j] ELSE s[j + 1]
    BY <1>3, <1>6
  <2>2. Elements(s, n, Cells) /\ Elements(Held(a, n - 1), n - 1, Cells) /\ n \in 1 .. n
    BY <1>1, <1>3, <1>5
  <2> QED BY ONLY <2>1, <2>2, ShorterIsRemoved
<1>8. ListInv' /\ List!Contents' = Blocks!Removed(s, n)
  BY <1>2, <1>4, <1>7, ListThen
<1>9. listResult' = s[n]
  BY <1>1, <1>2, <1>3
<1>10. List!Sequence!Delete(n)
  BY <1>2, <1>8, <1>9 DEF List!Sequence!Delete, List!Sequence!RemoveAt, Blocks!Removed, ListAre
<1>11. n \in 1 .. Len(List!Contents)
  BY <1>1, <1>3 DEF ListAre
<1> QED BY <1>8, <1>10, <1>11 DEF List!Sequence!Next

LEMMA ListRemovesFast ==
  ASSUME ArrayConstants, ListInv, NEW position \in 0 .. list_size - 1,
         List!RemoveAtIndexFast(position)
  PROVE  ListInv' /\ List!Sequence!Next
<1> PICK a, m, n, s : ListAre(a, m, n, s)
  BY DEF ListAre
<1> PICK b, q : /\ b = [a EXCEPT ![position] = a[n - 1]]
                /\ q = [s EXCEPT ![position + 1] = s[n]]
  OBVIOUS
<1>1. /\ Holds(a, m, n) /\ Len(s) = n /\ n \in Nat /\ m \in Nat /\ n <= m
      /\ \A i \in 1 .. n : s[i] = a[i - 1]
      /\ Elements(s, n, Cells)
  BY ListNow
<1>2. /\ position \in 0 .. n - 1
      /\ listArray' = b /\ list_size' = n - 1 /\ listAllocation' = m
      /\ listCall' = [op |-> "deletefast", place |-> position + 1, item |-> NoItem]
      /\ listResult' = NoItem
  BY DEF List!RemoveAtIndexFast, List!Called, ListAre
<1>3. /\ n \in 1 .. n /\ n - 1 \in 0 .. m - 1 /\ position + 1 \in 1 .. n
      /\ n - 1 \in 0 .. n
  BY <1>1, <1>2
<1>4. a \in [0 .. m - 1 -> Cells] /\ a[n - 1] \in Cells
  BY <1>1, <1>3 DEF Holds
<1>5. Holds(b, m, n)
  BY <1>1, <1>4 DEF Holds
<1>6. Holds(b, m, n - 1)
  BY <1>3, <1>5, ListConstants, HeldCut
<1>7. Elements(q, n, Cells)
  <2>1. s \in [1 .. n -> Cells] /\ s[n] \in Cells
    BY <1>1, <1>3 DEF Elements
  <2> QED BY <1>1, <2>1 DEF Elements
<1>8. ASSUME NEW j \in 1 .. n - 1
      PROVE  Held(b, n - 1)[j] = IF j < n THEN q[j] ELSE q[j + 1]
  <2>1. j < n /\ j \in 1 .. n /\ j - 1 \in 0 .. m - 1
    BY <1>1
  <2>2. Held(b, n - 1)[j] = b[j - 1]
    BY <1>6, HeldElements, Zenon
  <2>3. DOMAIN s = 1 .. n
    BY ListNow
  <2>4. CASE j = position + 1
    <3>1. j - 1 = position
      BY <1>2, <2>4
    <3>2. b[j - 1] = a[n - 1] /\ q[j] = s[n]
      BY <1>4, <2>1, <2>3, <2>4, <3>1
    <3> QED BY <1>1, <1>3, <2>1, <2>2, <3>2
  <2>5. CASE j # position + 1
    <3>1. j - 1 # position
      BY <1>2, <2>5
    <3>2. b[j - 1] = a[j - 1] /\ q[j] = s[j]
      BY <1>4, <2>1, <2>3, <2>5, <3>1
    <3> QED BY <1>1, <2>1, <2>2, <3>2
  <2> QED BY <2>4, <2>5
<1>9. Elements(Held(b, n - 1), n - 1, Cells)
  BY <1>6, HeldElements
<1>10. Held(b, n - 1) = Blocks!Removed(q, n)
  BY <1>3, <1>7, <1>8, <1>9, ShorterIsRemoved
<1>11. ListInv' /\ List!Contents' = Blocks!Removed(q, n)
  BY <1>2, <1>6, <1>10, ListThen
<1>12. Len(q) = n
  BY <1>7, ElementsMake
<1>13. List!Sequence!DeleteFast(position + 1)
  <2>1. List!Contents' = List!Sequence!RemoveAt(q, n)
    BY <1>11 DEF List!Sequence!RemoveAt, Blocks!Removed
  <2>2. s = List!Contents /\ Len(s) = n
    BY <1>1 DEF ListAre
  <2> QED BY <1>2, <2>1, <2>2 DEF List!Sequence!DeleteFast
<1>14. position + 1 \in 1 .. Len(List!Contents)
  BY <1>1, <1>3 DEF ListAre
<1> QED BY <1>11, <1>13, <1>14 DEF List!Sequence!Next

LEMMA ListTruncates ==
  ASSUME ArrayConstants, ListInv, NEW num \in 0 .. list_size, List!RemoveFromEnd(num)
  PROVE  ListInv' /\ List!Sequence!Next
<1> PICK a, m, n, s : ListAre(a, m, n, s)
  BY DEF ListAre
<1>1. Holds(a, m, n) /\ s = Held(a, n) /\ Len(s) = n /\ n \in Nat
  BY ListNow
<1>2. /\ num \in 0 .. n
      /\ listArray' = a /\ list_size' = n - num /\ listAllocation' = m
      /\ listCall' = [op |-> "truncate", place |-> n - num, item |-> NoItem]
      /\ listResult' = NoItem
  BY DEF List!RemoveFromEnd, List!Called, ListAre
<1>3. n - num \in 0 .. n
  BY <1>1, <1>2
<1>4. Holds(a, m, n - num) /\ Held(a, n - num) = SubSeq(s, 1, n - num)
  BY <1>1, <1>3, ListConstants, HeldCut
<1>5. ListInv' /\ List!Contents' = SubSeq(s, 1, n - num)
  BY <1>2, <1>4, ListThen
<1>6. List!Sequence!Truncate(n - num)
  BY <1>2, <1>5 DEF List!Sequence!Truncate, ListAre
<1>7. n - num \in 0 .. Len(List!Contents)
  BY <1>1, <1>3 DEF ListAre
<1> QED BY <1>5, <1>6, <1>7 DEF List!Sequence!Next

LeastOf(S) == CHOOSE x \in S : \A y \in S : x <= y

\* The least of some places that are counted from one is one more than the least of
\* them counted from zero.
LEMMA LeastPlace ==
  ASSUME NEW n \in Nat, NEW S \in SUBSET (1 .. n), S # {}, NEW Z,
         Z = {i \in 0 .. n - 1 : i + 1 \in S}
  PROVE  Z # {} /\ LeastOf(Z) = LeastOf(S) - 1
<1>1. PICK x \in S : \A y \in S : x <= y
  BY LeastNumber
<1>2. PICK z : z = LeastOf(S)
  OBVIOUS
<1>3. z \in S /\ \A y \in S : z <= y
  BY <1>1, <1>2 DEF LeastOf
<1>4. z - 1 \in 0 .. n - 1 /\ (z - 1) + 1 = z /\ z \in Nat
  BY <1>3
<1>5. z - 1 \in Z
  BY <1>3, <1>4
<1>6. \A j \in Z : z - 1 <= j
  <2> SUFFICES ASSUME NEW j \in Z PROVE z - 1 <= j
    OBVIOUS
  <2>1. j \in Nat /\ j + 1 \in S
    OBVIOUS
  <2>2. z <= j + 1
    BY <1>3, <2>1
  <2> QED BY <1>4, <2>1, <2>2
<1>7. PICK w : w = LeastOf(Z)
  OBVIOUS
<1>8. w \in Z /\ \A j \in Z : w <= j
  BY <1>5, <1>6, <1>7 DEF LeastOf
<1>9. w <= z - 1 /\ z - 1 <= w /\ w \in Nat
  BY <1>5, <1>6, <1>8
<1>10. w = z - 1
  BY <1>4, <1>9
<1> QED BY <1>2, <1>5, <1>7, <1>10

LEMMA ListLocates ==
  ASSUME ListInv, NEW item \in Data, List!GetIndexOf(item)
  PROVE  ListInv' /\ List!Sequence!Next
<1> PICK a, m, n, s : ListAre(a, m, n, s)
  BY DEF ListAre
<1> PICK Z, S : /\ Z = {i \in 0 .. n - 1 : a[i] = item}
                /\ S = {x \in DOMAIN s : s[x] = item}
  OBVIOUS
<1>1. /\ Holds(a, m, n) /\ s = Held(a, n) /\ DOMAIN s = 1 .. n /\ n \in Nat
      /\ \A i \in 1 .. n : s[i] = a[i - 1]
  BY ListNow
<1>2. /\ listArray' = a /\ list_size' = n /\ listAllocation' = m
      /\ listCall' = [op |-> "locate", place |-> 0, item |-> item]
      /\ listResult' = IF Z = {} THEN -1 ELSE CHOOSE i \in Z : \A j \in Z : i <= j
  BY DEF List!GetIndexOf, List!list, List!Called, ListAre
<1>3. ListInv' /\ List!Contents' = s
  BY <1>1, <1>2, ListThen
<1>4. S \in SUBSET (1 .. n) /\ Z = {i \in 0 .. n - 1 : i + 1 \in S}
  <2>1. ASSUME NEW i \in 0 .. n - 1
        PROVE  a[i] = item <=> i + 1 \in S
    <3>1. i + 1 \in 1 .. n /\ (i + 1) - 1 = i
      BY <1>1
    <3> QED BY <1>1, <3>1
  <2> QED BY <1>1, <2>1
<1>5. item \in List!Sequence!ToSet(s) <=> S # {}
  BY DEF List!Sequence!ToSet
<1>6. listResult' = IF S # {} THEN List!Sequence!Min(S) - 1 ELSE -1
  <2>1. CASE S # {}
    <3>1. Z # {} /\ LeastOf(Z) = LeastOf(S) - 1
      <4>1. n \in Nat
        BY <1>1
      <4> QED BY ONLY <1>4, <2>1, <4>1, LeastPlace
    <3>2. List!Sequence!Min(S) = LeastOf(S)
      BY DEF List!Sequence!Min, LeastOf
    <3>3. listResult' = LeastOf(Z)
      BY <1>2, <3>1 DEF LeastOf
    <3> QED BY <2>1, <3>1, <3>2, <3>3
  <2>2. CASE S = {}
    <3>1. Z = {}
      BY <1>4, <2>2
    <3> QED BY <1>2, <2>2, <3>1
  <2> QED BY <2>1, <2>2
<1>7. List!Sequence!Locate(item)
  BY <1>2, <1>3, <1>5, <1>6 DEF List!Sequence!Locate, ListAre
<1> QED BY <1>3, <1>7 DEF List!Sequence!Next

\* No items, in no memory and in any.
LEMMA HeldNone ==
  ASSUME MaxSize \in Nat
  PROVE  /\ Holds(<<>>, 0, 0) /\ \A a : Held(a, 0) = <<>>
         /\ \A a, m, n : Holds(a, m, n) => Holds(a, m, 0)
<1>1. <<>> \in [0 .. 0 - 1 -> Cells]
  <2>1. \A i : i \notin 0 .. 0 - 1
    OBVIOUS
  <2>2. <<>> = [i \in {} |-> i]
    OBVIOUS
  <2> QED BY <2>1, <2>2
<1>2. Holds(<<>>, 0, 0)
  BY <1>1 DEF Holds
<1>3. \A a : Held(a, 0) = <<>>
  BY DEF Held
<1>4. ASSUME NEW a, NEW m, NEW n, Holds(a, m, n)
      PROVE  Holds(a, m, 0)
  BY <1>4 DEF Holds
<1> QED BY <1>2, <1>3, <1>4

LEMMA ListClears ==
  ASSUME ArrayConstants, ListInv, NEW how, List!Clear(how)
  PROVE  ListInv' /\ List!Sequence!Next
<1> PICK a, m, n, s : ListAre(a, m, n, s)
  BY DEF ListAre
<1>1. Holds(a, m, n)
  BY ListNow
<1>2. /\ list_size' = 0
      /\ \/ listArray' = <<>> /\ listAllocation' = 0
         \/ listArray' = a /\ listAllocation' = m
      /\ listCall' = [op |-> "empty", place |-> 0, item |-> NoItem]
      /\ listResult' = NoItem
  BY DEF List!Clear, List!Called, ListAre
<1>3. ListInv' /\ List!Contents' = <<>>
  <2>1. /\ Holds(<<>>, 0, 0) /\ Held(<<>>, 0) = <<>>
        /\ Holds(a, m, 0) /\ Held(a, 0) = <<>>
    BY <1>1, ListConstants, HeldNone
  <2>2. CASE listArray' = <<>> /\ listAllocation' = 0
    BY <1>2, <2>1, <2>2, ListThen
  <2>3. CASE listArray' = a /\ listAllocation' = m
    BY <1>2, <2>1, <2>3, ListThen
  <2> QED BY <1>2, <2>2, <2>3
<1>4. List!Sequence!Empty
  BY <1>2, <1>3 DEF List!Sequence!Empty
<1> QED BY <1>3, <1>4 DEF List!Sequence!Next

\* The items are moved to an array of another size.
LEMMA ListRearranges ==
  ASSUME ListInv, NEW size \in Nat, list_size <= size,
         NEW way \in {"compress", "copy", "preallocate"},
         listArray' = List!MovedTo(size), listAllocation' = size,
         list_size' = list_size, List!Called(way, 0, NoItem), listResult' = NoItem
  PROVE  ListInv' /\ List!Sequence!Next
<1> PICK a, m, n, s, b : ListAre(a, m, n, s) /\ b = Relaid(a, n, size)
  BY DEF ListAre
<1>1. Holds(a, m, n) /\ s = Held(a, n) /\ n <= size
  BY ListNow DEF ListAre
<1>2. /\ listArray' = b /\ list_size' = n /\ listAllocation' = size
  BY ListMoves DEF ListAre
<1>3. Holds(b, size, n) /\ \A i \in 0 .. n - 1 : b[i] = a[i]
  BY <1>1, MovedHolds
<1>4. Held(b, n) = s
  BY <1>1, <1>3, SameHeld
<1>5. ListInv' /\ List!Contents' = s
  BY <1>2, <1>3, <1>4, ListThen
<1>6. List!Sequence!Rearrange(way)
  BY <1>5 DEF List!Sequence!Rearrange, List!Called, ListAre
<1> QED BY <1>5, <1>6 DEF List!Sequence!Next

\* The least number of doublings that is enough.
EnoughDoublings(f, limit, least) ==
  f[LeastOf({k \in 0 .. limit : f[k] >= least})]

LEMMA DoublingsSuffice ==
  ASSUME NEW start \in Nat \ {0}, NEW limit \in Nat, NEW least \in 0 .. limit + 1
  PROVE  \A f : f = (CHOOSE g : IsDoubling(g, start)) =>
           /\ EnoughDoublings(f, limit, least) \in Nat
           /\ EnoughDoublings(f, limit, least) >= least
<1> SUFFICES ASSUME NEW f, f = (CHOOSE g : IsDoubling(g, start))
             PROVE  /\ EnoughDoublings(f, limit, least) \in Nat
                    /\ EnoughDoublings(f, limit, least) >= least
  OBVIOUS
<1>1. \A k \in Nat : f[k] \in Nat /\ f[k] > k
  <2>1. IsDoubling(f, start)
    BY ThereAreDoublings
  <2> QED BY <2>1, DoublingsGrow
<1> PICK Z, S : /\ Z = {k \in 0 .. limit : f[k] >= least}
                /\ S = {k \in 1 .. limit + 1 : k - 1 \in Z}
  OBVIOUS
<1>2. limit \in Z
  <2>1. f[limit] \in Nat /\ f[limit] > limit
    BY <1>1
  <2> QED BY <2>1
<1>3. limit + 1 \in S
  <2>1. limit + 1 \in 1 .. limit + 1 /\ (limit + 1) - 1 = limit
    OBVIOUS
  <2> QED BY <1>2, <2>1
<1>4. PICK x \in S : \A y \in S : x <= y
  <2>1. S \in SUBSET (1 .. limit + 1) /\ limit + 1 \in Nat
    OBVIOUS
  <2> QED BY <1>3, <2>1, LeastNumber
<1>5. x - 1 \in Z /\ \A k \in Z : x - 1 <= k
  <2> SUFFICES ASSUME NEW k \in Z PROVE x - 1 <= k
    BY <1>4
  <2>1. k \in 0 .. limit /\ (k + 1) - 1 = k /\ k + 1 \in 1 .. limit + 1
    OBVIOUS
  <2>2. k + 1 \in S
    BY <2>1
  <2>3. x <= k + 1 /\ x \in Int
    BY <1>4, <2>2
  <2> QED BY <2>1, <2>3
<1>6. LeastOf(Z) \in Z
  BY <1>5 DEF LeastOf
<1>7. EnoughDoublings(f, limit, least) = f[LeastOf(Z)]
  BY DEF EnoughDoublings
<1>8. f[LeastOf(Z)] \in Nat /\ f[LeastOf(Z)] >= least
  BY <1>1, <1>6
<1> QED BY <1>7, <1>8

LEMMA NeededIsEnough ==
  ASSUME ArrayConstants, ListInv, NEW countNeeded \in 0 .. MaxSize
  PROVE  List!Needed(countNeeded) \in Nat
<1>1. MaxSize \in Nat /\ countNeeded \in 0 .. MaxSize + 1
  BY ListConstants
<1>2. List!AtLeastFirst \in Nat \ {0}
  <2>1. listAllocation \in Nat
    BY DEF ListInv, Holds
  <2> QED BY <2>1, ListConstants DEF List!AtLeastFirst
<1>3. List!Grown = CHOOSE g : IsDoubling(g, List!AtLeastFirst)
  BY DEF List!Grown, IsDoubling
<1>4. EnoughDoublings(List!Grown, MaxSize, countNeeded) \in Nat
  BY <1>1, <1>2, <1>3, DoublingsSuffice
<1>5. List!Needed(countNeeded) = EnoughDoublings(List!Grown, MaxSize, countNeeded)
  BY DEF List!Needed, EnoughDoublings, LeastOf
<1> QED BY <1>4, <1>5

LEMMA ListStarts ==
  ASSUME ArrayConstants, List!Init
  PROVE  ListInv /\ List!Sequence!Init
<1>1. /\ listArray = <<>> /\ list_size = 0 /\ listAllocation = 0
      /\ listCall = [op |-> "empty", place |-> 0, item |-> NoItem]
      /\ listResult = NoItem
  BY DEF List!Init
<1>2. Holds(<<>>, 0, 0) /\ Held(<<>>, 0) = <<>>
  BY ListConstants, HeldNone
<1>3. ListInv /\ List!Contents = <<>>
  BY <1>1, <1>2, ContentsHeld DEF ListInv
<1> QED BY <1>1, <1>3 DEF List!Sequence!Init

\* Each call of the list is one of the sequence.
LEMMA ListStep ==
  ASSUME ArrayConstants, ListInv, List!Next
  PROVE  ListInv' /\ List!Sequence!Next
<1>1. ASSUME NEW item \in Data, NEW position \in 0 .. list_size,
             List!Insert(item, position)
      PROVE  ListInv' /\ List!Sequence!Next
  BY <1>1, ListInserts
<1>2. ASSUME NEW item \in Data, NEW filler \in Data, NEW position \in 0 .. MaxSize - 1,
             List!Replace(item, filler, position)
      PROVE  ListInv' /\ List!Sequence!Next
  BY <1>2, ListStores
<1>3. ASSUME NEW item \in Data, List!GetIndexOf(item)
      PROVE  ListInv' /\ List!Sequence!Next
  BY <1>3, ListLocates
<1>4. ASSUME NEW position \in 0 .. list_size - 1, List!Get(position)
      PROVE  ListInv' /\ List!Sequence!Next
  BY <1>4, ListGets
<1>5. ASSUME NEW position \in 0 .. list_size - 1, List!RemoveAtIndex(position)
      PROVE  ListInv' /\ List!Sequence!Next
  BY <1>5, ListRemoves
<1>6. ASSUME NEW position \in 0 .. list_size - 1, List!RemoveAtIndexFast(position)
      PROVE  ListInv' /\ List!Sequence!Next
  BY <1>6, ListRemovesFast
<1>7. CASE List!Pop
  BY <1>7, ListPops
<1>8. PICK m, n : m = listAllocation /\ n = list_size /\ m \in Nat /\ n \in 0 .. m
  BY DEF ListInv, Holds
<1>9. CASE List!Compress
  <2>1. /\ listArray' = List!MovedTo(m) /\ listAllocation' = m /\ list_size' = n
        /\ List!Called("compress", 0, NoItem) /\ listResult' = NoItem
    BY <1>8, <1>9 DEF List!Compress
  <2>2. m \in Nat /\ n <= m
    BY <1>8
  <2> QED BY <1>8, <2>1, <2>2, ListRearranges
<1>10. CASE List!Copy
  <2>1. /\ listArray' = List!MovedTo(n) /\ listAllocation' = n /\ list_size' = n
        /\ List!Called("copy", 0, NoItem) /\ listResult' = NoItem
    BY <1>8, <1>10 DEF List!Copy
  <2>2. n \in Nat /\ n <= n
    BY <1>8
  <2> QED BY <1>8, <2>1, <2>2, ListRearranges
<1>11. ASSUME NEW countNeeded \in 0 .. MaxSize, List!Preallocate(countNeeded)
       PROVE  ListInv' /\ List!Sequence!Next
  <2> PICK size : size = List!Needed(countNeeded)
    OBVIOUS
  <2>1. /\ listArray' = List!MovedTo(size) /\ listAllocation' = size /\ list_size' = n
        /\ List!Called("preallocate", 0, NoItem) /\ listResult' = NoItem /\ m < size
    BY <1>8, <1>11 DEF List!Preallocate
  <2>2. size \in Nat /\ n <= size
    BY <1>8, <2>1, NeededIsEnough
  <2> QED BY <1>8, <2>1, <2>2, ListRearranges
<1>12. ASSUME NEW num \in 0 .. list_size, List!RemoveFromEnd(num)
       PROVE  ListInv' /\ List!Sequence!Next
  BY <1>12, ListTruncates
<1>13. ASSUME NEW how \in BOOLEAN, List!Clear(how)
       PROVE  ListInv' /\ List!Sequence!Next
  BY <1>13, ListClears
<1> QED
  BY <1>1, <1>2, <1>3, <1>4, <1>5, <1>6, <1>7, <1>9, <1>10, <1>11, <1>12, <1>13
  DEF List!Next

-------------------------------------------------------------------------------
(* The queue.                                                              *)

\* The place of the ith item, from zero, in an array of m that starts at h.
Cell(h, m, i) == IF h + i >= m THEN h + i - m ELSE h + i

LEMMA CellIs ==
  ASSUME NEW m \in Nat \ {0}, NEW h \in 0 .. m - 1, NEW i \in 0 .. m - 1
  PROVE  Cell(h, m, i) \in 0 .. m - 1 /\ (h + i) % m = Cell(h, m, i)
<1>1. CASE h + i >= m
  <2>1. PICK r : r = h + i - m
    OBVIOUS
  <2>2. r \in 0 .. m - 1 /\ h + i = m + r /\ Cell(h, m, i) = r
    BY <1>1, <2>1 DEF Cell
  <2>3. (m + r) % m = r
    BY <2>2
  <2> QED BY <2>2, <2>3
<1>2. CASE ~ (h + i >= m)
  <2>1. PICK r : r = h + i
    OBVIOUS
  <2>2. r \in 0 .. m - 1 /\ Cell(h, m, i) = r
    BY <1>2, <2>1 DEF Cell
  <2>3. r % m = r
    BY <2>2
  <2> QED BY <2>1, <2>2, <2>3
<1> QED BY <1>1, <1>2

\* Items have places of their own.
LEMMA CellsApart ==
  ASSUME NEW m \in Nat \ {0}, NEW h \in 0 .. m - 1, NEW i \in 0 .. m - 1,
         NEW j \in 0 .. m - 1, Cell(h, m, i) = Cell(h, m, j)
  PROVE  i = j
BY DEF Cell

\* The place before an item's, and the place after it.
BeforeIn(m, p) == IF p = 0 THEN m - 1 ELSE p - 1
AfterIn(m, p) == IF p + 1 = m THEN 0 ELSE p + 1

LEMMA CellSteps ==
  ASSUME NEW m \in Nat \ {0}, NEW h \in 0 .. m - 1, NEW i \in 0 .. m - 1
  PROVE  /\ i > 0 => BeforeIn(m, Cell(h, m, i)) = Cell(h, m, i - 1)
         /\ i + 1 < m => AfterIn(m, Cell(h, m, i)) = Cell(h, m, i + 1)
         /\ i + 1 = m => AfterIn(m, Cell(h, m, i)) = h
         /\ i > 0 => Cell(AfterIn(m, h), m, i - 1) = Cell(h, m, i)
         /\ Cell(h, m, 0) = h
BY DEF Cell, BeforeIn, AfterIn

\* An array of m holds n items in the circle from h up to t.
Circle(a, h, t, m, n) ==
  /\ m \in Nat /\ n \in Nat /\ n <= MaxSize
  /\ a \in [0 .. m - 1 -> Cells]
  /\ m = 0 => n = 0 /\ h = 0 /\ t = 0
  /\ m # 0 => h \in 0 .. m - 1 /\ n \in 0 .. m - 1 /\ t = Cell(h, m, n)

CircleInv == Circle(array, head, tail, allocation_size, Queue!Size)

Around(a, h, m, n) == [i \in 1 .. n |-> a[Cell(h, m, i - 1)]]

LEMMA AroundElements ==
  ASSUME NEW a, NEW h, NEW t, NEW m, NEW n, Circle(a, h, t, m, n)
  PROVE  /\ Elements(Around(a, h, m, n), n, Cells)
         /\ Len(Around(a, h, m, n)) = n /\ DOMAIN Around(a, h, m, n) = 1 .. n
         /\ \A i \in 1 .. n : Around(a, h, m, n)[i] = a[Cell(h, m, i - 1)]
         /\ n \in Nat /\ m \in Nat /\ a \in [0 .. m - 1 -> Cells]
<1>1. m \in Nat /\ n \in Nat /\ a \in [0 .. m - 1 -> Cells]
  BY DEF Circle
<1>2. \A i \in 1 .. n : Around(a, h, m, n)[i] = a[Cell(h, m, i - 1)]
  BY DEF Around
<1>3. ASSUME NEW i \in 1 .. n
      PROVE  a[Cell(h, m, i - 1)] \in Cells
  <2>1. m \in Nat \ {0} /\ h \in 0 .. m - 1 /\ i - 1 \in 0 .. m - 1
    BY <1>1 DEF Circle
  <2>2. Cell(h, m, i - 1) \in 0 .. m - 1
    BY <2>1, CellIs
  <2> QED BY <1>1, <2>2
<1>4. Elements(Around(a, h, m, n), n, Cells)
  BY <1>1, <1>3 DEF Elements, Around
<1> QED BY <1>1, <1>2, <1>4, ElementsMake

\* The length and the items that the queue tells, of what is in its circle.
LEMMA CircleTold ==
  ASSUME NEW a, NEW h, NEW t, NEW m, NEW n, Circle(a, h, t, m, n)
  PROVE  /\ n = IF h <= t THEN t - h ELSE m - h + t
         /\ [i \in 1 .. n |-> a[(h + i - 1) % m]] = Around(a, h, m, n)
         /\ n = 0 <=> h = t
<1>1. /\ n = IF h <= t THEN t - h ELSE m - h + t
      /\ n = 0 <=> h = t
  <2>1. CASE m = 0
    BY <2>1 DEF Circle
  <2>2. CASE m # 0
    BY <2>2 DEF Circle, Cell
  <2> QED BY <2>1, <2>2
<1>2. ASSUME NEW i \in 1 .. n
      PROVE  (h + i - 1) % m = Cell(h, m, i - 1)
  <2>1. /\ m \in Nat \ {0} /\ h \in 0 .. m - 1 /\ i - 1 \in 0 .. m - 1
        /\ h + i - 1 = h + (i - 1)
    BY DEF Circle
  <2>2. (h + (i - 1)) % m = Cell(h, m, i - 1)
    BY <2>1, CellIs
  <2> QED BY <2>1, <2>2
<1> QED BY <1>1, <1>2 DEF Around

\* What the queue holds, by other names.
QueueAre(a, h, t, m, n, s) ==
  /\ a = array /\ h = head /\ t = tail /\ m = allocation_size /\ n = Queue!Size
  /\ s = Queue!Contents

LEMMA QueueNow ==
  ASSUME CircleInv, NEW a, NEW h, NEW t, NEW m, NEW n, NEW s,
         QueueAre(a, h, t, m, n, s)
  PROVE  /\ Circle(a, h, t, m, n) /\ s = Around(a, h, m, n)
         /\ Len(s) = n /\ DOMAIN s = 1 .. n /\ n \in Nat /\ m \in Nat
         /\ \A i \in 1 .. n : s[i] = a[Cell(h, m, i - 1)]
         /\ Elements(s, n, Cells)
         /\ m # 0 => /\ h \in 0 .. m - 1 /\ n \in 0 .. m - 1 /\ t = Cell(h, m, n)
                     /\ t \in 0 .. m - 1
         /\ m = 0 => n = 0
         /\ n <= MaxSize /\ a \in [0 .. m - 1 -> Cells]
         /\ n = 0 <=> h = t
<1>1. Circle(a, h, t, m, n)
  BY DEF CircleInv, QueueAre
<1>2. s = Around(a, h, m, n)
  <2>1. s = [i \in 1 .. n |-> a[(h + i - 1) % m]]
    BY DEF QueueAre, Queue!Contents
  <2> QED BY <1>1, <2>1, CircleTold
<1>3. m # 0 => t \in 0 .. m - 1
  <2> SUFFICES ASSUME m # 0 PROVE t \in 0 .. m - 1
    OBVIOUS
  <2>1. m \in Nat \ {0} /\ h \in 0 .. m - 1 /\ n \in 0 .. m - 1 /\ t = Cell(h, m, n)
    BY <1>1 DEF Circle
  <2> QED BY <2>1, CellIs
<1>4. /\ m # 0 => h \in 0 .. m - 1 /\ n \in 0 .. m - 1 /\ t = Cell(h, m, n)
      /\ m = 0 => n = 0
      /\ n <= MaxSize /\ n \in Nat
  BY <1>1 DEF Circle
<1>5. n = 0 <=> h = t
  BY <1>1, CircleTold
<1> QED BY <1>1, <1>2, <1>3, <1>4, <1>5, AroundElements

LEMMA QueueThen ==
  ASSUME NEW a, NEW h, NEW t, NEW m, NEW n, Circle(a, h, t, m, n),
         array' = a, head' = h, tail' = t, allocation_size' = m
  PROVE  CircleInv' /\ Queue!Contents' = Around(a, h, m, n)
<1>1. Queue!Size' = n
  BY CircleTold DEF Queue!Size
<1>2. Queue!Contents' = Around(a, h, m, n)
  BY <1>1, CircleTold DEF Queue!Contents
<1> QED BY <1>1, <1>2 DEF CircleInv

\* A place is written at the end of the circle.
Written(a, t, e) == [a EXCEPT ![t] = e]

EndsWith(b, h, m, n, s, e) ==
  \A i \in 0 .. n : b[Cell(h, m, i)] = IF i < n THEN s[i + 1] ELSE e

LEMMA WrittenAround ==
  ASSUME NEW a, NEW h, NEW t, NEW m, NEW n, Circle(a, h, t, m, n), m # 0,
         NEW e \in Cells
  PROVE  /\ Written(a, t, e) \in [0 .. m - 1 -> Cells]
         /\ EndsWith(Written(a, t, e), h, m, n, Around(a, h, m, n), e)
<1>1. /\ m \in Nat \ {0} /\ h \in 0 .. m - 1 /\ n \in 0 .. m - 1 /\ t = Cell(h, m, n)
      /\ a \in [0 .. m - 1 -> Cells]
  BY DEF Circle
<1>2. t \in 0 .. m - 1
  BY <1>1, CellIs
<1>3. Written(a, t, e) \in [0 .. m - 1 -> Cells]
  BY <1>1, <1>2 DEF Written
<1>4. ASSUME NEW i \in 0 .. n
      PROVE  Written(a, t, e)[Cell(h, m, i)] =
               IF i < n THEN Around(a, h, m, n)[i + 1] ELSE e
  <2>1. i \in 0 .. m - 1 /\ i \in Nat
    BY <1>1
  <2>2. Cell(h, m, i) \in 0 .. m - 1
    BY <1>1, <2>1, CellIs
  <2>3. CASE i = n
    <3>1. ~ (i < n)
      BY <1>1, <2>3
    <3> QED BY <1>1, <1>2, <2>3, <3>1 DEF Written
  <2>4. CASE i # n
    <3>1. i < n /\ i + 1 \in 1 .. n /\ (i + 1) - 1 = i
      BY <1>1, <2>1, <2>4
    <3>2. Cell(h, m, i) # t
      BY <1>1, <2>1, <2>4, CellsApart
    <3>3. Written(a, t, e)[Cell(h, m, i)] = a[Cell(h, m, i)]
      BY <1>1, <2>2, <3>2 DEF Written
    <3>4. Around(a, h, m, n)[i + 1] = a[Cell(h, m, (i + 1) - 1)]
      BY <3>1, AroundElements
    <3> QED BY <3>1, <3>3, <3>4
  <2> QED BY <2>3, <2>4
<1> QED BY <1>3, <1>4 DEF EndsWith

\* An array whose circle has one more item at its end.
AppendedTo(b, h, t, m, n, s, e) ==
  Circle(b, h, t, m, n + 1) /\ Around(b, h, m, n + 1) = Widened(s, n + 1, e)

LEMMA Appended ==
  ASSUME NEW n \in Nat, NEW s, Elements(s, n, Cells), NEW e \in Cells,
         NEW b, NEW h, NEW t, NEW m, Circle(b, h, t, m, n + 1),
         EndsWith(b, h, m, n, s, e)
  PROVE  AppendedTo(b, h, t, m, n, s, e)
<1>1. Elements(Around(b, h, m, n + 1), n + 1, Cells)
  BY AroundElements
<1>2. ASSUME NEW j \in 1 .. n + 1
      PROVE  Around(b, h, m, n + 1)[j] =
               IF j < n + 1 THEN s[j] ELSE IF j = n + 1 THEN e ELSE s[j - 1]
  <2>1. Around(b, h, m, n + 1)[j] = b[Cell(h, m, j - 1)]
    BY AroundElements
  <2>2. j - 1 \in 0 .. n /\ (j - 1 < n <=> j < n + 1) /\ (j - 1) + 1 = j
        /\ (j < n + 1 \/ j = n + 1)
    OBVIOUS
  <2>3. b[Cell(h, m, j - 1)] = IF j - 1 < n THEN s[(j - 1) + 1] ELSE e
    BY <2>2 DEF EndsWith
  <2> QED BY <2>1, <2>2, <2>3
<1>3. n + 1 \in 1 .. n + 1
  OBVIOUS
<1> QED BY <1>1, <1>2, <1>3, LongerIsWidened DEF AppendedTo

LEMMA PushedAppends ==
  ASSUME ArrayConstants, CircleInv, Queue!Size < MaxSize, NEW item \in Data,
         NEW new, new = Queue!Pushed(item), NEW s, s = Queue!Contents
  PROVE  AppendedTo(new.a, new.h, new.t, new.n, Queue!Size, s, item)
<1> PICK a, h, t, m, n : QueueAre(a, h, t, m, n, s)
  BY DEF QueueAre
<1>1. /\ Circle(a, h, t, m, n) /\ s = Around(a, h, m, n) /\ n \in Nat /\ m \in Nat
      /\ Elements(s, n, Cells)
      /\ m # 0 => h \in 0 .. m - 1 /\ n \in 0 .. m - 1 /\ t = Cell(h, m, n)
      /\ m = 0 => n = 0
      /\ a \in [0 .. m - 1 -> Cells]
  BY QueueNow
<1>2. /\ n + 1 <= MaxSize /\ n + 1 \in Nat /\ item \in Cells /\ n = Queue!Size
      /\ FirstAllocation \in Nat \ {0, 1} /\ MaxSize \in Nat
  <2>1. n < MaxSize /\ MaxSize \in Nat
    BY ListConstants DEF QueueAre
  <2> QED BY <1>1, <2>1, ListConstants DEF Cells, QueueAre
<1>3. CASE m = 0
  <2> PICK F, b : F = FirstAllocation /\ b = [Queue!New(F) EXCEPT ![0] = item]
    OBVIOUS
  <2>1. new = [a |-> b, h |-> 0, t |-> 1, n |-> F]
    BY <1>3 DEF Queue!Pushed, QueueAre
  <2>2. F \in Nat /\ F >= 2 /\ 0 \in 0 .. F - 1 /\ 1 \in 0 .. F - 1 /\ F # 0
        /\ Cell(0, F, 1) = 1 /\ Cell(0, F, 0) = 0
    BY <1>2 DEF Cell
  <2>3. Queue!New(F) = [i \in 0 .. F - 1 |-> Unset]
    BY DEF Queue!New
  <2>4. Queue!New(F) \in [0 .. F - 1 -> Cells]
    BY <2>3 DEF Cells
  <2>5. b \in [0 .. F - 1 -> Cells] /\ b[0] = item
    BY <1>2, <2>2, <2>4
  <2>6. n = 0
    BY <1>1, <1>3
  <2>7. Circle(b, 0, 1, F, n + 1)
    BY <1>2, <2>2, <2>5, <2>6 DEF Circle
  <2>8. EndsWith(b, 0, F, n, s, item)
    BY <2>2, <2>5, <2>6 DEF EndsWith
  <2>9. AppendedTo(b, 0, 1, F, n, s, item)
    BY <1>1, <1>2, <2>7, <2>8, Appended
  <2> QED BY <1>2, <2>1, <2>9
<1>4. CASE m # 0
  <2> PICK w, x : w = Written(a, t, item) /\ x = AfterIn(m, t)
    OBVIOUS
  <2>1. new = IF x = h
                THEN [a |-> [i \in 0 .. 2 * m - 1 |->
                               IF i < m THEN w[(h + i) % m] ELSE Unset],
                      h |-> 0, t |-> m, n |-> 2 * m]
                ELSE [a |-> w, h |-> h, t |-> x, n |-> m]
    BY <1>4 DEF Queue!Pushed, Queue!Full, Queue!MovedTo, AfterIn, Written, QueueAre
  <2>2. /\ w \in [0 .. m - 1 -> Cells]
        /\ EndsWith(w, h, m, n, s, item)
    <3>1. Circle(a, h, t, m, n) /\ item \in Cells /\ s = Around(a, h, m, n)
      BY <1>1, <1>2
    <3>2. w = Written(a, t, item)
      OBVIOUS
    <3> QED BY ONLY <1>4, <3>1, <3>2, WrittenAround
  <2>3. m \in Nat \ {0} /\ h \in 0 .. m - 1 /\ n \in 0 .. m - 1 /\ t = Cell(h, m, n)
    BY <1>1, <1>4
  <2>4. /\ n + 1 < m => x = Cell(h, m, n + 1)
        /\ n + 1 = m => x = h
    BY <2>3, CellSteps
  <2>5. CASE x = h
    <3>1. n + 1 = m
      <4> SUFFICES ASSUME n + 1 < m PROVE FALSE
        BY <2>3
      <4>1. n + 1 \in 0 .. m - 1 /\ 0 \in 0 .. m - 1 /\ n + 1 # 0
        BY <2>3
      <4>2. Cell(h, m, n + 1) = Cell(h, m, 0)
        BY <2>3, <2>4, <2>5, CellSteps
      <4> QED BY <2>3, <4>1, <4>2, CellsApart
    <3> PICK b, k : /\ k = 2 * m
                    /\ b = [i \in 0 .. k - 1 |-> IF i < m THEN w[(h + i) % m] ELSE Unset]
      OBVIOUS
    <3>2. new = [a |-> b, h |-> 0, t |-> m, n |-> k]
      BY <2>1, <2>5
    <3>3. /\ k \in Nat \ {0} /\ 0 \in 0 .. k - 1 /\ m \in 0 .. k - 1
          /\ \A i \in 0 .. m : Cell(0, k, i) = i
      BY <2>3 DEF Cell
    <3>4. ASSUME NEW i \in 0 .. m - 1
          PROVE  b[i] = w[Cell(h, m, i)] /\ b[i] \in Cells
      <4>1. i \in 0 .. k - 1 /\ i < m
        BY <2>3
      <4>2. (h + i) % m = Cell(h, m, i) /\ Cell(h, m, i) \in 0 .. m - 1
        BY <2>3, CellIs
      <4> QED BY <2>2, <4>1, <4>2
    <3>5. b \in [0 .. k - 1 -> Cells]
      <4>1. ASSUME NEW i \in 0 .. k - 1
            PROVE  b[i] \in Cells
        <5>1. CASE i < m
          <6>1. i \in 0 .. m - 1
            BY <2>3, <3>3, <5>1
          <6> QED BY <3>4, <6>1
        <5>2. CASE ~ (i < m)
          BY <5>2 DEF Cells
        <5> QED BY <5>1, <5>2
      <4> QED BY <4>1
    <3>6. Circle(b, 0, m, k, n + 1)
      BY <1>2, <3>1, <3>3, <3>5 DEF Circle
    <3>7. ASSUME NEW i \in 0 .. n
          PROVE  b[Cell(0, k, i)] = IF i < n THEN s[i + 1] ELSE item
      <4>1. i \in 0 .. m - 1 /\ i \in 0 .. m
        BY <2>3
      <4>2. Cell(0, k, i) = i /\ b[i] = w[Cell(h, m, i)]
        BY <3>3, <3>4, <4>1
      <4> QED BY <2>2, <4>2 DEF EndsWith
    <3>8. EndsWith(b, 0, k, n, s, item)
      BY <3>7 DEF EndsWith
    <3>9. AppendedTo(b, 0, m, k, n, s, item)
      BY <1>1, <1>2, <3>6, <3>8, Appended
    <3> QED BY <1>2, <3>2, <3>9
  <2>6. CASE x # h
    <3>1. new = [a |-> w, h |-> h, t |-> x, n |-> m]
      BY <2>1, <2>6
    <3>2. n + 1 \in 0 .. m - 1 /\ n + 1 < m
      BY <2>3, <2>4, <2>6
    <3>3. Circle(w, h, x, m, n + 1)
      BY <1>2, <2>2, <2>3, <2>4, <3>2 DEF Circle
    <3>4. AppendedTo(w, h, x, m, n, s, item)
      BY <1>1, <1>2, <2>2, <3>3, Appended
    <3> QED BY <1>2, <3>1, <3>4
  <2> QED BY <2>5, <2>6
<1> QED BY <1>3, <1>4

LEMMA QueuePushes ==
  ASSUME ArrayConstants, CircleInv, NEW item \in Data, Queue!Push(item)
  PROVE  CircleInv' /\ Queue!Sequence!Next
<1> PICK s, n, new : s = Queue!Contents /\ n = Queue!Size /\ new = Queue!Pushed(item)
  OBVIOUS
<1>1. /\ n < MaxSize
      /\ array' = new.a /\ head' = new.h /\ tail' = new.t /\ allocation_size' = new.n
      /\ queueCall' = [op |-> "insert", place |-> n + 1, item |-> item]
      /\ queueResult' = NoItem
  BY DEF Queue!Push, Queue!Called
<1>2. AppendedTo(new.a, new.h, new.t, new.n, n, s, item)
  BY <1>1, PushedAppends
<1>3. CircleInv' /\ Queue!Contents' = Widened(s, n + 1, item)
  BY <1>1, <1>2, QueueThen DEF AppendedTo
<1>4. Queue!Sequence!Insert(n + 1, item)
  BY <1>1, <1>3 DEF Queue!Sequence!Insert, Queue!Sequence!InsertAt, Widened
<1>5. n + 1 \in 1 .. Len(Queue!Contents) + 1
  <2> PICK a, h, t, m : QueueAre(a, h, t, m, n, s)
    BY DEF QueueAre
  <2>1. Len(s) = n /\ n \in Nat
    BY QueueNow
  <2>2. n + 1 \in 1 .. n + 1
    BY <2>1
  <2> QED BY <2>1, <2>2
<1> QED BY <1>3, <1>4, <1>5 DEF Queue!Sequence!Next

\* From the kth item on all have moved up by one, and e is the kth.
MovedUp(b, h, m, n, k, e) ==
  [p \in DOMAIN b |->
     IF \E i \in k + 1 .. n : p = (h + i) % m THEN b[BeforeIn(m, p)]
     ELSE IF p = (h + k) % m THEN e ELSE b[p]]

GivesWay(b, c, h, m, n, k, e) ==
  \A j \in 0 .. n : c[Cell(h, m, j)] = IF j < k THEN b[Cell(h, m, j)]
                                       ELSE IF j = k THEN e ELSE b[Cell(h, m, j - 1)]

LEMMA MovedUpAround ==
  ASSUME NEW b, NEW h, NEW t, NEW m, NEW n, n \in Nat, Circle(b, h, t, m, n + 1),
         NEW k \in 0 .. n, NEW e \in Cells
  PROVE  /\ Circle(MovedUp(b, h, m, n, k, e), h, t, m, n + 1)
         /\ GivesWay(b, MovedUp(b, h, m, n, k, e), h, m, n, k, e)
<1> PICK c : c = MovedUp(b, h, m, n, k, e)
  OBVIOUS
<1>1. /\ m \in Nat \ {0} /\ h \in 0 .. m - 1 /\ n + 1 \in 0 .. m - 1 /\ n + 1 <= MaxSize
      /\ t = Cell(h, m, n + 1) /\ b \in [0 .. m - 1 -> Cells]
  BY DEF Circle
<1>2. ASSUME NEW p \in 0 .. m - 1
      PROVE  /\ c[p] = IF \E i \in k + 1 .. n : p = Cell(h, m, i) THEN b[BeforeIn(m, p)]
                       ELSE IF p = Cell(h, m, k) THEN e ELSE b[p]
             /\ c[p] \in Cells
  <2>1. \A i \in 0 .. n : (h + i) % m = Cell(h, m, i)
    BY <1>1, CellIs
  <2>2. k \in 0 .. n /\ \A i \in k + 1 .. n : i \in 0 .. n
    OBVIOUS
  <2>3. c[p] = IF \E i \in k + 1 .. n : p = (h + i) % m THEN b[BeforeIn(m, p)]
               ELSE IF p = (h + k) % m THEN e ELSE b[p]
    BY <1>1 DEF MovedUp
  <2>4. c[p] = IF \E i \in k + 1 .. n : p = Cell(h, m, i) THEN b[BeforeIn(m, p)]
               ELSE IF p = Cell(h, m, k) THEN e ELSE b[p]
    BY <2>1, <2>2, <2>3
  <2>5. BeforeIn(m, p) \in 0 .. m - 1
    BY <1>1 DEF BeforeIn
  <2>6. b[BeforeIn(m, p)] \in Cells /\ b[p] \in Cells
    BY <1>1, <2>5
  <2> QED BY <2>4, <2>6
<1>3. c \in [0 .. m - 1 -> Cells]
  <2>1. c = [p \in 0 .. m - 1 |-> c[p]]
    BY <1>1 DEF MovedUp
  <2> QED BY <1>2, <2>1
<1>4. Circle(c, h, t, m, n + 1)
  BY <1>1, <1>3 DEF Circle
<1>5. ASSUME NEW j \in 0 .. n
      PROVE  c[Cell(h, m, j)] = IF j < k THEN b[Cell(h, m, j)]
                                ELSE IF j = k THEN e ELSE b[Cell(h, m, j - 1)]
  <2>1. j \in 0 .. m - 1 /\ k \in 0 .. m - 1 /\ \A i \in k + 1 .. n : i \in 0 .. m - 1
    BY <1>1
  <2>2. Cell(h, m, j) \in 0 .. m - 1
    BY <1>1, <2>1, CellIs
  <2>3. \A i \in k + 1 .. n : Cell(h, m, j) = Cell(h, m, i) => j = i
    BY <1>1, <2>1, CellsApart
  <2>4. Cell(h, m, j) = Cell(h, m, k) => j = k
    BY <1>1, <2>1, CellsApart
  <2>5. CASE j < k
    <3>1. j \notin k + 1 .. n /\ j # k
      BY <2>5
    <3>2. /\ ~ \E i \in k + 1 .. n : Cell(h, m, j) = Cell(h, m, i)
          /\ Cell(h, m, j) # Cell(h, m, k)
      BY <2>3, <2>4, <3>1
    <3> QED BY <1>2, <2>2, <2>5, <3>2
  <2>6. CASE j = k
    <3>1. j \notin k + 1 .. n /\ ~ (j < k)
      BY <2>6
    <3>2. ~ \E i \in k + 1 .. n : Cell(h, m, j) = Cell(h, m, i)
      BY <2>3, <3>1
    <3> QED BY <1>2, <2>2, <2>6, <3>1, <3>2
  <2>7. CASE ~ (j < k) /\ j # k
    <3>1. j \in k + 1 .. n /\ j > 0
      BY <2>7
    <3>2. BeforeIn(m, Cell(h, m, j)) = Cell(h, m, j - 1)
      BY <1>1, <2>1, <3>1, CellSteps
    <3> QED BY <1>2, <2>2, <2>7, <3>1, <3>2
  <2> QED BY <2>5, <2>6, <2>7
<1> QED BY <1>4, <1>5 DEF GivesWay

LEMMA QueuePushesAtHead ==
  ASSUME ArrayConstants, CircleInv, NEW item \in Data, NEW index \in 0 .. Queue!Size,
         Queue!PushAtHead(item, index)
  PROVE  CircleInv' /\ Queue!Sequence!Next
<1> PICK s, n, new, b, h, t, m, c :
      /\ s = Queue!Contents /\ n = Queue!Size /\ new = Queue!Pushed(item)
      /\ b = new.a /\ h = new.h /\ t = new.t /\ m = new.n
      /\ c = MovedUp(b, h, m, n, index, item)
  OBVIOUS
<1>1. /\ n < MaxSize /\ index \in 0 .. n
      /\ array' = c /\ head' = h /\ tail' = t /\ allocation_size' = m
      /\ queueCall' = [op |-> "insert", place |-> index + 1, item |-> item]
      /\ queueResult' = NoItem
  BY DEF Queue!PushAtHead, Queue!Called, MovedUp, BeforeIn
<1>2. /\ Circle(b, h, t, m, n + 1)
      /\ Around(b, h, m, n + 1) = Widened(s, n + 1, item)
  BY <1>1, PushedAppends DEF AppendedTo
<1>3. Elements(s, n, Cells) /\ Len(s) = n /\ n \in Nat /\ item \in Cells
  <2> PICK a1, h1, t1, m1 : QueueAre(a1, h1, t1, m1, n, s)
    BY DEF QueueAre
  <2>1. Elements(s, n, Cells) /\ Len(s) = n /\ n \in Nat
    BY QueueNow
  <2> QED BY <2>1 DEF Cells
<1>4. \A j \in 1 .. n : Around(b, h, m, n + 1)[j] = s[j]
  <2>1. s \in Seq(Cells) /\ n + 1 \in 1 .. Len(s) + 1
    BY <1>3, ElementsMake
  <2>2. Longer(s, n + 1, item, Widened(s, n + 1, item))
    BY <1>3, <2>1, WidenedLonger
  <2>3. \A j \in 1 .. n : j \in 1 .. n + 1 /\ j < n + 1
    BY <1>3
  <2> QED BY <1>2, <1>3, <2>2, <2>3 DEF Longer
<1>5. /\ Circle(c, h, t, m, n + 1)
      /\ \A j \in 0 .. n : c[Cell(h, m, j)] =
           IF j < index THEN b[Cell(h, m, j)]
           ELSE IF j = index THEN item ELSE b[Cell(h, m, j - 1)]
  <2>1. Circle(c, h, t, m, n + 1) /\ GivesWay(b, c, h, m, n, index, item)
    <3>1. n \in Nat /\ Circle(b, h, t, m, n + 1) /\ index \in 0 .. n /\ item \in Cells
      BY <1>1, <1>2, <1>3
    <3>2. c = MovedUp(b, h, m, n, index, item)
      OBVIOUS
    <3> QED BY ONLY <3>1, <3>2, MovedUpAround
  <2> QED BY <2>1 DEF GivesWay
<1>6. ASSUME NEW j \in 1 .. n + 1
      PROVE  Around(c, h, m, n + 1)[j] =
               IF j < index + 1 THEN s[j] ELSE IF j = index + 1 THEN item ELSE s[j - 1]
  <2>1. Around(c, h, m, n + 1)[j] = c[Cell(h, m, j - 1)]
    BY <1>5, AroundElements
  <2>2. \A i \in 1 .. n : b[Cell(h, m, i - 1)] = s[i]
    <3>1. \A i \in 1 .. n + 1 : Around(b, h, m, n + 1)[i] = b[Cell(h, m, i - 1)]
      BY <1>2, AroundElements
    <3>2. \A i \in 1 .. n : i \in 1 .. n + 1
      BY <1>3
    <3> QED BY <1>4, <3>1, <3>2
  <2>3. j - 1 \in 0 .. n
    BY <1>3
  <2>4. CASE j < index + 1
    <3>1. j - 1 < index /\ j \in 1 .. n
      BY <1>1, <1>3, <2>4
    <3> QED BY <1>5, <2>1, <2>2, <2>3, <2>4, <3>1
  <2>5. CASE j = index + 1
    <3>1. j - 1 = index /\ ~ (j - 1 < index) /\ ~ (j < index + 1)
      BY <1>1, <1>3, <2>5
    <3> QED BY <1>5, <2>1, <2>3, <2>5, <3>1
  <2>6. CASE ~ (j < index + 1) /\ j # index + 1
    <3>1. j - 1 # index /\ ~ (j - 1 < index) /\ j - 1 \in 1 .. n
      BY <1>1, <1>3, <2>6
    <3> QED BY <1>5, <2>1, <2>2, <2>3, <2>6, <3>1
  <2> QED BY <2>4, <2>5, <2>6
<1>7. index + 1 \in 1 .. n + 1
  BY <1>1, <1>3
<1>8. Elements(Around(c, h, m, n + 1), n + 1, Cells)
  BY <1>5, AroundElements
<1>9. Around(c, h, m, n + 1) = Widened(s, index + 1, item)
  <2>1. Elements(s, n, Cells) /\ item \in Cells
    BY <1>3 DEF Cells
  <2> QED BY ONLY <1>6, <1>7, <1>8, <2>1, LongerIsWidened
<1>10. CircleInv' /\ Queue!Contents' = Widened(s, index + 1, item)
  BY <1>1, <1>5, <1>9, QueueThen
<1>11. Queue!Sequence!Insert(index + 1, item)
  BY <1>1, <1>10 DEF Queue!Sequence!Insert, Queue!Sequence!InsertAt, Widened
<1> QED BY <1>3, <1>7, <1>10, <1>11 DEF Queue!Sequence!Next

\* What comes after the kth item has moved down by one.
MovedDown(a, h, m, n, k) ==
  [p \in DOMAIN a |->
     IF \E i \in k .. n - 2 : p = Cell(h, m, i) THEN a[AfterIn(m, p)] ELSE a[p]]

LEMMA MovedDownAround ==
  ASSUME NEW a, NEW h, NEW t, NEW m, NEW n, Circle(a, h, t, m, n), MaxSize \in Nat,
         NEW k \in 0 .. n - 1, NEW c, c = MovedDown(a, h, m, n, k)
  PROVE  /\ Circle(c, h, BeforeIn(m, t), m, n - 1)
         /\ Around(c, h, m, n - 1) = Blocks!Removed(Around(a, h, m, n), k + 1)
<1>1. /\ m \in Nat \ {0} /\ h \in 0 .. m - 1 /\ n \in 1 .. m - 1 /\ n <= MaxSize
      /\ t = Cell(h, m, n) /\ a \in [0 .. m - 1 -> Cells]
  BY DEF Circle
<1>2. ASSUME NEW p \in 0 .. m - 1
      PROVE  /\ c[p] = IF \E i \in k .. n - 2 : p = Cell(h, m, i) THEN a[AfterIn(m, p)]
                       ELSE a[p]
             /\ c[p] \in Cells
  <2>1. c[p] = IF \E i \in k .. n - 2 : p = Cell(h, m, i) THEN a[AfterIn(m, p)]
               ELSE a[p]
    BY <1>1 DEF MovedDown
  <2>2. AfterIn(m, p) \in 0 .. m - 1
    BY <1>1 DEF AfterIn
  <2>3. a[AfterIn(m, p)] \in Cells /\ a[p] \in Cells
    BY <1>1, <2>2
  <2> QED BY <2>1, <2>3
<1>3. c \in [0 .. m - 1 -> Cells]
  <2>1. c = [p \in 0 .. m - 1 |-> c[p]]
    BY <1>1 DEF MovedDown
  <2> QED BY <1>2, <2>1
<1>4. Circle(c, h, BeforeIn(m, t), m, n - 1)
  <2>1. n \in 0 .. m - 1 /\ n > 0 /\ n - 1 \in 0 .. m - 1 /\ n - 1 \in Nat
    BY <1>1
  <2>2. BeforeIn(m, t) = Cell(h, m, n - 1)
    BY <1>1, <2>1, CellSteps
  <2>3. n - 1 <= MaxSize
    BY <1>1
  <2> QED BY <1>1, <1>3, <2>1, <2>2, <2>3 DEF Circle
<1>5. ASSUME NEW j \in 0 .. n - 2
      PROVE  c[Cell(h, m, j)] = IF j < k THEN a[Cell(h, m, j)] ELSE a[Cell(h, m, j + 1)]
  <2>1. j \in 0 .. m - 1 /\ j + 1 < m /\ \A i \in k .. n - 2 : i \in 0 .. m - 1
    BY <1>1
  <2>2. Cell(h, m, j) \in 0 .. m - 1
    BY <1>1, <2>1, CellIs
  <2>3. CASE j < k
    <3>1. j \notin k .. n - 2
      BY <2>3
    <3>2. ~ \E i \in k .. n - 2 : Cell(h, m, j) = Cell(h, m, i)
      BY <1>1, <2>1, <3>1, CellsApart
    <3> QED BY <1>2, <2>2, <2>3, <3>2
  <2>4. CASE ~ (j < k)
    <3>1. j \in k .. n - 2
      BY <2>4
    <3>2. AfterIn(m, Cell(h, m, j)) = Cell(h, m, j + 1)
      BY <1>1, <2>1, CellSteps
    <3> QED BY <1>2, <2>2, <2>4, <3>1, <3>2
  <2> QED BY <2>3, <2>4
<1>6. ASSUME NEW j \in 1 .. n - 1
      PROVE  Around(c, h, m, n - 1)[j] =
               IF j < k + 1 THEN Around(a, h, m, n)[j] ELSE Around(a, h, m, n)[j + 1]
  <2>1. Around(c, h, m, n - 1)[j] = c[Cell(h, m, j - 1)]
    BY <1>4, AroundElements
  <2>2. \A i \in 1 .. n : Around(a, h, m, n)[i] = a[Cell(h, m, i - 1)]
    BY AroundElements
  <2>3. /\ j - 1 \in 0 .. n - 2 /\ j \in 1 .. n /\ j + 1 \in 1 .. n
        /\ (j - 1) + 1 = (j + 1) - 1 /\ (j - 1 < k <=> j < k + 1)
    BY <1>1
  <2>4. c[Cell(h, m, j - 1)] =
          IF j - 1 < k THEN a[Cell(h, m, j - 1)] ELSE a[Cell(h, m, (j - 1) + 1)]
    BY <1>5, <2>3
  <2> QED BY <2>1, <2>2, <2>3, <2>4
<1>7. /\ Elements(Around(a, h, m, n), n, Cells)
      /\ Elements(Around(c, h, m, n - 1), n - 1, Cells)
  BY <1>4, AroundElements
<1>8. k + 1 \in 1 .. n
  BY <1>1
<1>9. Around(c, h, m, n - 1) = Blocks!Removed(Around(a, h, m, n), k + 1)
  BY <1>6, <1>7, <1>8, ShorterIsRemoved
<1> QED BY <1>4, <1>9

LEMMA QueueRemoves ==
  ASSUME ArrayConstants, CircleInv, NEW position \in 0 .. Queue!Size - 1,
         Queue!RemoveAtIndex(position)
  PROVE  CircleInv' /\ Queue!Sequence!Next
<1> PICK a, h, t, m, n, s, c :
      QueueAre(a, h, t, m, n, s) /\ c = MovedDown(a, h, m, n, position)
  BY DEF QueueAre
<1>1. /\ Circle(a, h, t, m, n) /\ s = Around(a, h, m, n) /\ Len(s) = n /\ n \in Nat
      /\ \A i \in 1 .. n : s[i] = a[Cell(h, m, i - 1)]
  BY QueueNow
<1>2. /\ position \in 0 .. n - 1
      /\ array' = c /\ tail' = BeforeIn(m, t) /\ head' = h /\ allocation_size' = m
      /\ queueCall' = [op |-> "delete", place |-> position + 1, item |-> NoItem]
      /\ queueResult' = a[Cell(h, m, position)]
  BY DEF Queue!RemoveAtIndex, Queue!Called, Queue!Place, MovedDown, AfterIn, BeforeIn,
         Cell, QueueAre
<1>3. /\ Circle(c, h, BeforeIn(m, t), m, n - 1)
      /\ Around(c, h, m, n - 1) = Blocks!Removed(s, position + 1)
  BY <1>1, <1>2, ListConstants, MovedDownAround
<1>4. CircleInv' /\ Queue!Contents' = Blocks!Removed(s, position + 1)
  BY <1>2, <1>3, QueueThen
<1>5. position + 1 \in 1 .. n /\ (position + 1) - 1 = position
  BY <1>1, <1>2
<1>6. queueResult' = s[position + 1]
  BY <1>1, <1>2, <1>5
<1>7. Queue!Sequence!Delete(position + 1)
  BY <1>2, <1>4, <1>6 DEF Queue!Sequence!Delete, Queue!Sequence!RemoveAt, Blocks!Removed, QueueAre
<1>8. position + 1 \in 1 .. Len(Queue!Contents)
  BY <1>1, <1>5 DEF QueueAre
<1> QED BY <1>4, <1>7, <1>8 DEF Queue!Sequence!Next

LEMMA QueuePops ==
  ASSUME ArrayConstants, CircleInv, Queue!Pop
  PROVE  CircleInv' /\ Queue!Sequence!Next
<1> PICK a, h, t, m, n, s, x :
      QueueAre(a, h, t, m, n, s) /\ x = AfterIn(m, h)
  BY DEF QueueAre
<1>1. /\ Circle(a, h, t, m, n) /\ s = Around(a, h, m, n) /\ Len(s) = n /\ n \in Nat
      /\ \A i \in 1 .. n : s[i] = a[Cell(h, m, i - 1)]
      /\ Elements(s, n, Cells) /\ m \in Nat /\ a \in [0 .. m - 1 -> Cells]
      /\ m # 0 => /\ h \in 0 .. m - 1 /\ n \in 0 .. m - 1 /\ t = Cell(h, m, n)
      /\ m = 0 => n = 0
      /\ n <= MaxSize
      /\ n = 0 <=> h = t
  BY QueueNow
<1>2. /\ n # 0
      /\ array' = a /\ tail' = t /\ head' = x /\ allocation_size' = m
      /\ queueCall' = [op |-> "delete", place |-> 1, item |-> NoItem]
      /\ queueResult' = a[BeforeIn(m, x)]
  BY <1>1 DEF Queue!Pop, Queue!Called, AfterIn, BeforeIn, QueueAre
<1>3. /\ m \in Nat \ {0} /\ h \in 0 .. m - 1 /\ n \in 1 .. m - 1 /\ t = Cell(h, m, n)
      /\ MaxSize \in Nat
  BY <1>1, <1>2, ListConstants
<1>4. BeforeIn(m, x) = h /\ x \in 0 .. m - 1
  BY <1>3 DEF BeforeIn, AfterIn
<1>5. \A i \in 1 .. n : Cell(x, m, i - 1) = Cell(h, m, i)
  <2> SUFFICES ASSUME NEW i \in 1 .. n PROVE Cell(x, m, i - 1) = Cell(h, m, i)
    OBVIOUS
  <2>1. i \in 0 .. m - 1 /\ i > 0
    BY <1>3
  <2> QED BY <1>3, <2>1, CellSteps
<1>6. Circle(a, x, t, m, n - 1)
  <2>1. n - 1 \in Nat /\ n - 1 <= MaxSize /\ n - 1 \in 0 .. m - 1 /\ n \in 1 .. n
    BY <1>1, <1>3
  <2>2. t = Cell(x, m, n - 1)
    BY <1>3, <1>5, <2>1
  <2> QED BY <1>1, <1>3, <1>4, <2>1, <2>2 DEF Circle
<1>7. ASSUME NEW j \in 1 .. n - 1
      PROVE  Around(a, x, m, n - 1)[j] = IF j < 1 THEN s[j] ELSE s[j + 1]
  <2>1. Around(a, x, m, n - 1)[j] = a[Cell(x, m, j - 1)]
    BY <1>6, AroundElements
  <2>2. j \in 1 .. n /\ j + 1 \in 1 .. n /\ (j + 1) - 1 = j /\ ~ (j < 1)
    BY <1>3
  <2>3. s[j + 1] = a[Cell(h, m, (j + 1) - 1)]
    BY <1>1, <2>2
  <2> QED BY <1>5, <2>1, <2>2, <2>3
<1>8. Elements(Around(a, x, m, n - 1), n - 1, Cells)
  BY <1>6, AroundElements
<1>9. 1 \in 1 .. n
  BY <1>3
<1>10. Around(a, x, m, n - 1) = Blocks!Removed(s, 1)
  BY <1>1, <1>7, <1>8, <1>9, ShorterIsRemoved
<1>11. CircleInv' /\ Queue!Contents' = Blocks!Removed(s, 1)
  BY <1>2, <1>6, <1>10, QueueThen
<1>12. queueResult' = s[1]
  <2>1. s[1] = a[Cell(h, m, 1 - 1)] /\ 1 - 1 = 0
    BY <1>1, <1>9
  <2>2. Cell(h, m, 0) = h
    BY <1>3 DEF Cell
  <2> QED BY <1>2, <1>4, <2>1, <2>2
<1>13. Queue!Sequence!Delete(1)
  BY <1>2, <1>11, <1>12 DEF Queue!Sequence!Delete, Queue!Sequence!RemoveAt, Blocks!Removed, QueueAre
<1>14. 1 \in 1 .. Len(Queue!Contents)
  BY <1>1, <1>9 DEF QueueAre
<1> QED BY <1>11, <1>13, <1>14 DEF Queue!Sequence!Next

LEMMA QueuePopsTail ==
  ASSUME ArrayConstants, CircleInv, Queue!PopTail
  PROVE  CircleInv' /\ Queue!Sequence!Next
<1> PICK a, h, t, m, n, s, x :
      QueueAre(a, h, t, m, n, s) /\ x = BeforeIn(m, t)
  BY DEF QueueAre
<1>1. /\ Circle(a, h, t, m, n) /\ s = Around(a, h, m, n) /\ Len(s) = n /\ n \in Nat
      /\ \A i \in 1 .. n : s[i] = a[Cell(h, m, i - 1)]
      /\ Elements(s, n, Cells) /\ m \in Nat /\ a \in [0 .. m - 1 -> Cells]
      /\ m # 0 => /\ h \in 0 .. m - 1 /\ n \in 0 .. m - 1 /\ t = Cell(h, m, n)
      /\ m = 0 => n = 0
      /\ n <= MaxSize
      /\ n = 0 <=> h = t
  BY QueueNow
<1>2. /\ n # 0
      /\ array' = a /\ tail' = x /\ head' = h /\ allocation_size' = m
      /\ queueCall' = [op |-> "delete", place |-> n, item |-> NoItem]
      /\ queueResult' = a[x]
  BY <1>1 DEF Queue!PopTail, Queue!Called, BeforeIn, QueueAre
<1>3. /\ m \in Nat \ {0} /\ h \in 0 .. m - 1 /\ n \in 1 .. m - 1 /\ t = Cell(h, m, n)
      /\ MaxSize \in Nat
  BY <1>1, <1>2, ListConstants
<1>4. x = Cell(h, m, n - 1)
  <2>1. n \in 0 .. m - 1 /\ n > 0
    BY <1>3
  <2> QED BY <1>3, <2>1, CellSteps
<1>5. /\ n - 1 \in Nat /\ n - 1 <= MaxSize /\ n - 1 \in 0 .. m - 1 /\ n \in 1 .. n
  BY <1>1, <1>3
<1>6. Circle(a, h, x, m, n - 1)
  BY <1>1, <1>3, <1>4, <1>5 DEF Circle
<1>7. ASSUME NEW j \in 1 .. n - 1
      PROVE  Around(a, h, m, n - 1)[j] = IF j < n THEN s[j] ELSE s[j + 1]
  <2>1. Around(a, h, m, n - 1)[j] = a[Cell(h, m, j - 1)]
    BY <1>6, AroundElements
  <2>2. j \in 1 .. n /\ j < n
    BY <1>3
  <2> QED BY <1>1, <2>1, <2>2
<1>8. Elements(Around(a, h, m, n - 1), n - 1, Cells)
  BY <1>6, AroundElements
<1>9. Around(a, h, m, n - 1) = Blocks!Removed(s, n)
  BY <1>1, <1>5, <1>7, <1>8, ShorterIsRemoved
<1>10. CircleInv' /\ Queue!Contents' = Blocks!Removed(s, n)
  BY <1>2, <1>6, <1>9, QueueThen
<1>11. queueResult' = s[n]
  BY <1>1, <1>2, <1>4, <1>5
<1>12. Queue!Sequence!Delete(n)
  BY <1>2, <1>10, <1>11 DEF Queue!Sequence!Delete, Queue!Sequence!RemoveAt, Blocks!Removed, QueueAre
<1>13. n \in 1 .. Len(Queue!Contents)
  BY <1>1, <1>5 DEF QueueAre
<1> QED BY <1>10, <1>12, <1>13 DEF Queue!Sequence!Next

LEMMA QueueLooks ==
  ASSUME CircleInv, NEW i \in 0 .. Queue!Size - 1, Queue!Look(i)
  PROVE  CircleInv' /\ Queue!Sequence!Next
<1> PICK a, h, t, m, n, s : QueueAre(a, h, t, m, n, s)
  BY DEF QueueAre
<1>1. /\ Circle(a, h, t, m, n) /\ s = Around(a, h, m, n) /\ Len(s) = n /\ n \in Nat
      /\ \A j \in 1 .. n : s[j] = a[Cell(h, m, j - 1)]
  BY QueueNow
<1>2. /\ i \in 0 .. n - 1
      /\ array' = a /\ tail' = t /\ head' = h /\ allocation_size' = m
      /\ queueCall' = [op |-> "look", place |-> i + 1, item |-> NoItem]
      /\ queueResult' = a[Cell(h, m, i)]
  BY DEF Queue!Look, Queue!Called, Queue!queue, Queue!Place, Cell, QueueAre
<1>3. CircleInv' /\ Queue!Contents' = s
  BY <1>1, <1>2, QueueThen
<1>4. i + 1 \in 1 .. n /\ (i + 1) - 1 = i
  BY <1>1, <1>2
<1>5. queueResult' = s[i + 1]
  BY <1>1, <1>2, <1>4
<1>6. Queue!Sequence!Look(i + 1)
  BY <1>2, <1>3, <1>5 DEF Queue!Sequence!Look, QueueAre
<1>7. i + 1 \in 1 .. Len(Queue!Contents)
  BY <1>1, <1>4 DEF QueueAre
<1> QED BY <1>3, <1>6, <1>7 DEF Queue!Sequence!Next

LEMMA QueueFinds ==
  ASSUME CircleInv, NEW item \in Data, Queue!Find(item)
  PROVE  CircleInv' /\ Queue!Sequence!Next
<1> PICK a, h, t, m, n, s : QueueAre(a, h, t, m, n, s)
  BY DEF QueueAre
<1>1. /\ Circle(a, h, t, m, n) /\ s = Around(a, h, m, n) /\ DOMAIN s = 1 .. n
      /\ n \in Nat
      /\ \A j \in 1 .. n : s[j] = a[Cell(h, m, j - 1)]
  BY QueueNow
<1>2. /\ array' = a /\ tail' = t /\ head' = h /\ allocation_size' = m
      /\ queueCall' = [op |-> "search", place |-> 0, item |-> item]
      /\ queueResult' = (item \in {a[p] : p \in Queue!Searched})
  BY DEF Queue!Find, Queue!Called, Queue!queue, QueueAre
<1>3. CircleInv' /\ Queue!Contents' = s
  BY <1>1, <1>2, QueueThen
<1>4. {a[p] : p \in Queue!Searched} = Queue!Sequence!ToSet(s)
  <2>1. Queue!Searched = {Cell(h, m, i) : i \in 0 .. n - 1}
    BY DEF Queue!Searched, Queue!Place, Cell, QueueAre
  <2>2. ASSUME NEW p \in Queue!Searched
        PROVE  \E j \in 1 .. n : s[j] = a[p]
    <3>1. PICK i \in 0 .. n - 1 : p = Cell(h, m, i)
      BY <2>1
    <3>2. i + 1 \in 1 .. n /\ (i + 1) - 1 = i
      BY <1>1
    <3> QED BY <1>1, <3>1, <3>2
  <2>3. ASSUME NEW j \in 1 .. n
        PROVE  \E p \in Queue!Searched : s[j] = a[p]
    <3>1. j - 1 \in 0 .. n - 1
      BY <1>1
    <3> QED BY <1>1, <2>1, <3>1
  <2>4. Queue!Sequence!ToSet(s) = {s[j] : j \in 1 .. n}
    BY <1>1 DEF Queue!Sequence!ToSet
  <2> QED BY <2>2, <2>3, <2>4
<1>5. queueResult' = (item \in Queue!Sequence!ToSet(Queue!Contents))
  BY <1>2, <1>4 DEF QueueAre
<1>6. Queue!Sequence!Search(item)
  BY <1>2, <1>3, <1>5 DEF Queue!Sequence!Search, QueueAre
<1> QED BY <1>3, <1>6 DEF Queue!Sequence!Next

\* Nothing is in the circle that starts and ends at the first place.
LEMMA CircleOfNone ==
  ASSUME MaxSize \in Nat, NEW m \in Nat, NEW a \in [0 .. m - 1 -> Cells]
  PROVE  Circle(a, 0, 0, m, 0) /\ Around(a, 0, m, 0) = <<>>
<1>1. m # 0 => 0 \in 0 .. m - 1 /\ Cell(0, m, 0) = 0
  BY DEF Cell
<1>2. Circle(a, 0, 0, m, 0)
  BY <1>1 DEF Circle
<1>3. Around(a, 0, m, 0) = <<>>
  BY DEF Around
<1> QED BY <1>2, <1>3

LEMMA QueueEmpties ==
  ASSUME MaxSize \in Nat, NEW m \in Nat, NEW a \in [0 .. m - 1 -> Cells],
         array' = a, allocation_size' = m, head' = 0, tail' = 0,
         Queue!Called("empty", 0, NoItem), queueResult' = NoItem
  PROVE  CircleInv' /\ Queue!Sequence!Next
<1>1. CircleInv' /\ Queue!Contents' = <<>>
  BY CircleOfNone, QueueThen
<1>2. Queue!Sequence!Empty
  BY <1>1 DEF Queue!Sequence!Empty, Queue!Called
<1> QED BY <1>1, <1>2 DEF Queue!Sequence!Next

LEMMA QueueClears ==
  ASSUME ArrayConstants, CircleInv, Queue!Clear
  PROVE  CircleInv' /\ Queue!Sequence!Next
<1> PICK a, h, t, m, n, s : QueueAre(a, h, t, m, n, s)
  BY DEF QueueAre
<1>1. m \in Nat /\ a \in [0 .. m - 1 -> Cells] /\ MaxSize \in Nat
      /\ <<>> \in [0 .. 0 - 1 -> Cells]
  <2>1. m \in Nat /\ a \in [0 .. m - 1 -> Cells]
    BY QueueNow
  <2>2. MaxSize \in Nat
    BY ListConstants
  <2>3. <<>> \in [0 .. 0 - 1 -> Cells]
    BY <2>2, HeldNone DEF Holds
  <2> QED BY <2>1, <2>2, <2>3
<1>2. /\ \/ array' = <<>> /\ allocation_size' = 0
         \/ array' = a /\ allocation_size' = m
      /\ head' = 0 /\ tail' = 0
      /\ Queue!Called("empty", 0, NoItem) /\ queueResult' = NoItem
  BY DEF Queue!Clear, QueueAre
<1>3. CASE array' = <<>> /\ allocation_size' = 0
  BY <1>1, <1>2, <1>3, QueueEmpties
<1>4. CASE array' = a /\ allocation_size' = m
  BY <1>1, <1>2, <1>4, QueueEmpties
<1> QED BY <1>2, <1>3, <1>4

\* The items are moved to the beginning of an array with room for one more.
LEMMA QueueRearranges ==
  ASSUME CircleInv, allocation_size # 0, NEW size \in Nat, Queue!Size < size,
         NEW way \in {"compress", "copy", "preallocate"},
         array' = Queue!MovedTo(size, array, Queue!Size), allocation_size' = size,
         head' = 0, tail' = Queue!Size, Queue!Called(way, 0, NoItem),
         queueResult' = NoItem
  PROVE  CircleInv' /\ Queue!Sequence!Next
<1> PICK a, h, t, m, n, s, b :
      QueueAre(a, h, t, m, n, s) /\ b = Queue!MovedTo(size, array, Queue!Size)
  BY DEF QueueAre
<1>1. /\ Circle(a, h, t, m, n) /\ s = Around(a, h, m, n) /\ n \in Nat
      /\ \A j \in 1 .. n : s[j] = a[Cell(h, m, j - 1)]
      /\ Elements(s, n, Cells) /\ m \in Nat /\ a \in [0 .. m - 1 -> Cells]
      /\ m # 0 => h \in 0 .. m - 1 /\ n \in 0 .. m - 1 /\ t = Cell(h, m, n)
      /\ n <= MaxSize
  BY QueueNow
<1>2. m \in Nat \ {0} /\ h \in 0 .. m - 1 /\ n \in 0 .. m - 1 /\ n < size
  BY <1>1 DEF QueueAre
<1>3. b = [i \in 0 .. size - 1 |-> IF i < n THEN a[(h + i) % m] ELSE Unset]
  BY DEF Queue!MovedTo, QueueAre
<1>4. ASSUME NEW i \in 0 .. n - 1
      PROVE  b[i] = a[Cell(h, m, i)] /\ b[i] \in Cells
  <2>1. i \in 0 .. size - 1 /\ i < n /\ i \in 0 .. m - 1
    BY <1>2
  <2>2. (h + i) % m = Cell(h, m, i) /\ Cell(h, m, i) \in 0 .. m - 1
    BY <1>2, <2>1, CellIs
  <2> QED BY <1>1, <1>3, <2>1, <2>2
<1>5. b \in [0 .. size - 1 -> Cells]
  <2>1. ASSUME NEW i \in 0 .. size - 1
        PROVE  b[i] \in Cells
    <3>1. CASE i < n
      <4>1. i \in 0 .. n - 1
        BY <1>1, <3>1
      <4> QED BY <1>4, <4>1
    <3>2. CASE ~ (i < n)
      BY <1>3, <3>2 DEF Cells
    <3> QED BY <3>1, <3>2
  <2> QED BY <1>3, <2>1
<1>6. /\ size # 0 /\ 0 \in 0 .. size - 1 /\ n \in 0 .. size - 1
      /\ \A i \in 0 .. n : Cell(0, size, i) = i
  BY <1>1, <1>2 DEF Cell
<1>7. Circle(b, 0, n, size, n)
  <2>1. n = Cell(0, size, n)
    BY <1>1, <1>6
  <2> QED BY <1>1, <1>5, <1>6, <2>1 DEF Circle
<1>8. ASSUME NEW j \in 1 .. n
      PROVE  Around(b, 0, size, n)[j] = s[j]
  <2>1. Around(b, 0, size, n)[j] = b[Cell(0, size, j - 1)]
    BY <1>7, AroundElements
  <2>2. j - 1 \in 0 .. n - 1 /\ j - 1 \in 0 .. n
    BY <1>1
  <2> QED BY <1>1, <1>4, <1>6, <2>1, <2>2
<1>9. Elements(Around(b, 0, size, n), n, Cells)
  BY <1>7, AroundElements
<1>10. Around(b, 0, size, n) = s
  BY <1>1, <1>8, <1>9, SameElements
<1>11. CircleInv' /\ Queue!Contents' = s
  <2>1. array' = b /\ head' = 0 /\ tail' = n /\ allocation_size' = size
    BY DEF QueueAre
  <2> QED BY <1>7, <1>10, <2>1, QueueThen
<1>12. Queue!Sequence!Rearrange(way)
  BY <1>11 DEF Queue!Sequence!Rearrange, Queue!Called, QueueAre
<1> QED BY <1>11, <1>12 DEF Queue!Sequence!Next

LEMMA CompressedIsMore ==
  ASSUME ArrayConstants, CircleInv
  PROVE  Queue!Compressed \in Nat /\ Queue!Size < Queue!Compressed
<1> PICK n, f : n = Queue!Size /\ f = Queue!Doubled
  OBVIOUS
<1>1. n \in Nat /\ n <= MaxSize /\ MaxSize \in Nat
  BY ListConstants DEF CircleInv, Circle
<1>2. n + 1 \in 0 .. MaxSize + 1 /\ 1 \in Nat \ {0}
  BY <1>1
<1>3. f = CHOOSE g : IsDoubling(g, 1)
  BY DEF Queue!Doubled, IsDoubling
<1>4. /\ EnoughDoublings(f, MaxSize, n + 1) \in Nat
      /\ EnoughDoublings(f, MaxSize, n + 1) >= n + 1
  BY <1>1, <1>2, <1>3, DoublingsSuffice
<1>5. \A k \in 0 .. MaxSize : f[k] > n <=> f[k] >= n + 1
  <2>1. IsDoubling(f, 1)
    BY <1>2, <1>3, ThereAreDoublings
  <2>2. \A k \in Nat : f[k] \in Nat
    BY <1>2, <2>1, DoublingsGrow
  <2> SUFFICES ASSUME NEW k \in 0 .. MaxSize PROVE f[k] > n <=> f[k] >= n + 1
    OBVIOUS
  <2> PICK v : v = f[k]
    OBVIOUS
  <2>3. v \in Nat
    BY <2>2
  <2>4. v > n <=> v >= n + 1
    BY <1>1, <2>3
  <2> QED BY <2>4
<1>6. {k \in 0 .. MaxSize : f[k] > n} = {k \in 0 .. MaxSize : f[k] >= n + 1}
  BY <1>5
<1>7. Queue!Compressed = EnoughDoublings(f, MaxSize, n + 1)
  <2>1. Queue!Compressed = f[LeastOf({k \in 0 .. MaxSize : f[k] > n})]
    BY DEF Queue!Compressed, LeastOf
  <2> QED BY <1>6, <2>1 DEF EnoughDoublings
<1> PICK v : v = Queue!Compressed
  OBVIOUS
<1>8. v \in Nat /\ v >= n + 1
  BY <1>4, <1>7
<1>9. n < v
  BY <1>1, <1>8
<1> QED BY <1>8, <1>9

LEMMA QueueStartsEmpty ==
  ASSUME ArrayConstants, Queue!Init
  PROVE  CircleInv /\ Queue!Sequence!Init
<1>1. /\ array = <<>> /\ allocation_size = 0 /\ head = 0 /\ tail = 0
      /\ queueCall = [op |-> "empty", place |-> 0, item |-> NoItem]
      /\ queueResult = NoItem
  BY DEF Queue!Init
<1>2. <<>> \in [0 .. 0 - 1 -> Cells] /\ MaxSize \in Nat /\ 0 \in Nat
  <2>1. MaxSize \in Nat
    BY ListConstants
  <2> QED BY <2>1, HeldNone DEF Holds
<1>3. Circle(<<>>, 0, 0, 0, 0) /\ Around(<<>>, 0, 0, 0) = <<>>
  BY <1>2, CircleOfNone
<1>4. Queue!Size = 0
  BY <1>1 DEF Queue!Size
<1>5. Queue!Contents = <<>>
  BY <1>4 DEF Queue!Contents
<1> QED BY <1>1, <1>3, <1>4, <1>5 DEF CircleInv, Queue!Sequence!Init

\* Each call of the queue is one of the sequence.
LEMMA QueueCalls ==
  ASSUME ArrayConstants, CircleInv, Queue!Next
  PROVE  CircleInv' /\ Queue!Sequence!Next
<1>1. ASSUME NEW item \in Data, Queue!Push(item)
      PROVE  CircleInv' /\ Queue!Sequence!Next
  BY <1>1, QueuePushes
<1>2. ASSUME NEW item \in Data, Queue!Find(item)
      PROVE  CircleInv' /\ Queue!Sequence!Next
  BY <1>2, QueueFinds
<1>3. ASSUME NEW item \in Data, NEW index \in 0 .. Queue!Size,
             Queue!PushAtHead(item, index)
      PROVE  CircleInv' /\ Queue!Sequence!Next
  BY <1>3, QueuePushesAtHead
<1>4. CASE Queue!Pop
  BY <1>4, QueuePops
<1>5. CASE Queue!PopTail
  BY <1>5, QueuePopsTail
<1>6. CASE Queue!Clear
  BY <1>6, QueueClears
<1>7. CASE Queue!Compress
  <2> PICK size : size = Queue!Compressed
    OBVIOUS
  <2>1. /\ allocation_size # 0
        /\ array' = Queue!MovedTo(size, array, Queue!Size) /\ allocation_size' = size
        /\ head' = 0 /\ tail' = Queue!Size
        /\ Queue!Called("compress", 0, NoItem) /\ queueResult' = NoItem
    BY <1>7 DEF Queue!Compress
  <2>2. size \in Nat /\ Queue!Size < size
    BY CompressedIsMore
  <2> QED BY <2>1, <2>2, QueueRearranges
<1>8. CASE Queue!Copy
  <2> PICK size, n : size = n + 1 /\ n = Queue!Size
    OBVIOUS
  <2>1. n > 0
        /\ array' = Queue!MovedTo(size, array, Queue!Size) /\ allocation_size' = size
        /\ head' = 0 /\ tail' = Queue!Size
        /\ Queue!Called("copy", 0, NoItem) /\ queueResult' = NoItem
    BY <1>8 DEF Queue!Copy
  <2>2. n \in Nat /\ (allocation_size = 0 => n = 0)
    BY DEF CircleInv, Circle
  <2>3. size \in Nat /\ n < size /\ allocation_size # 0
    BY <2>1, <2>2
  <2> QED BY <2>1, <2>3, QueueRearranges
<1>9. ASSUME NEW i \in 0 .. Queue!Size - 1, Queue!Look(i)
      PROVE  CircleInv' /\ Queue!Sequence!Next
  BY <1>9, QueueLooks
<1>10. ASSUME NEW i \in 0 .. Queue!Size - 1, Queue!RemoveAtIndex(i)
       PROVE  CircleInv' /\ Queue!Sequence!Next
  BY <1>10, QueueRemoves
<1>11. ASSUME NEW size \in ForcedSizes, Queue!ClearAndForceAllocation(size)
       PROVE  CircleInv' /\ Queue!Sequence!Next
  <2> PICK b : b = Queue!New(size)
    OBVIOUS
  <2>1. /\ array' = b /\ allocation_size' = size /\ head' = 0 /\ tail' = 0
        /\ Queue!Called("empty", 0, NoItem) /\ queueResult' = NoItem
    BY <1>11 DEF Queue!ClearAndForceAllocation
  <2>2. size \in Nat /\ MaxSize \in Nat
    BY ListConstants
  <2>3. b \in [0 .. size - 1 -> Cells]
    BY DEF Queue!New, Cells
  <2> QED BY <2>1, <2>2, <2>3, QueueEmpties
<1> QED
  BY <1>1, <1>2, <1>3, <1>4, <1>5, <1>6, <1>7, <1>8, <1>9, <1>10, <1>11
  DEF Queue!Next

LEMMA SequencesStep ==
  ASSUME ArrayConstants, CircleInv, ListInv, [CollectionsNext]_collections
  PROVE  /\ CircleInv' /\ ListInv'
         /\ Takes("queue", Queue!Sequence!Next, Queue!Sequence!vars)
         /\ Takes("list", List!Sequence!Next, List!Sequence!vars)
<1>1. CircleInv' /\ Takes("queue", Queue!Sequence!Next, Queue!Sequence!vars)
  <2>1. CASE CollectionsNext /\ part = "queue"
    <3>1. Queue!Next
      BY <2>1 DEF CollectionsNext, Moves
    <3> QED BY <3>1, QueueCalls DEF Takes
  <2>2. CASE UNCHANGED queueVars
    <3>1. UNCHANGED <<array, head, tail, allocation_size, queueCall, queueResult>>
      BY <2>2 DEF queueVars
    <3>2. UNCHANGED <<Queue!Size, Queue!Contents>>
      BY <3>1 DEF Queue!Size, Queue!Contents
    <3>3. CircleInv'
      BY <3>1, <3>2 DEF CircleInv
    <3>4. UNCHANGED Queue!Sequence!vars
      BY <3>1, <3>2 DEF Queue!Sequence!vars
    <3> QED BY <3>3, <3>4 DEF Takes
  <2> QED BY <2>1, <2>2 DEF CollectionsNext, collections
<1>2. ListInv' /\ Takes("list", List!Sequence!Next, List!Sequence!vars)
  <2>1. CASE CollectionsNext /\ part = "list"
    <3>1. List!Next
      BY <2>1 DEF CollectionsNext, Moves
    <3> QED BY <3>1, ListStep DEF Takes
  <2>2. CASE UNCHANGED listVars
    <3>1. UNCHANGED <<listArray, list_size, listAllocation, listCall, listResult>>
      BY <2>2 DEF listVars
    <3>2. UNCHANGED List!Contents
      BY <3>1 DEF List!Contents
    <3>3. ListInv'
      BY <3>1 DEF ListInv
    <3>4. UNCHANGED List!Sequence!vars
      BY <3>1, <3>2 DEF List!Sequence!vars
    <3> QED BY <3>3, <3>4 DEF Takes
  <2> QED BY <2>1, <2>2 DEF CollectionsNext, collections
<1> QED BY <1>1, <1>2

\* The queue in circles and the list in a growing array implement the abstract
\* sequence: wherever head and tail have come to, and whenever an array grows, is
\* compressed, forced to a size or copied, every call does and returns what the
\* sequence promises (DS_Queue.h, DS_List.h).
THEOREM SequencesAreSequences == ArrayConstants /\ CollectionsSpec => SequencesKept
<1> SUFFICES ASSUME ArrayConstants PROVE CollectionsSpec => SequencesKept
  OBVIOUS
<1>1. CollectionsInit => /\ CircleInv /\ ListInv
                         /\ Queue!Sequence!Init /\ List!Sequence!Init
  BY QueueStartsEmpty, ListStarts DEF CollectionsInit
<1>2. CircleInv /\ ListInv /\ [CollectionsNext]_collections
        => /\ CircleInv' /\ ListInv'
           /\ Takes("queue", Queue!Sequence!Next, Queue!Sequence!vars)
           /\ Takes("list", List!Sequence!Next, List!Sequence!vars)
  BY SequencesStep
<1> QED BY <1>1, <1>2, PTL DEF CollectionsSpec, SequencesKept

===============================================================================
