----------------------------- MODULE Blocks_proofs -----------------------------
(***************************************************************************)
(* What holds of a memory pool with any number of pages of any size, and   *)
(* of the blocks that any number of threads pass on through a queue: each  *)
(* page is in the list it belongs to, and each block in one place.         *)
(***************************************************************************)
EXTENDS Collections, FiniteSetTheorems, SequenceTheorems, WellFoundedInduction,
        TLAPS

\* A page has more than one block, pages and sizes are not without end, and the
\* values that stand for no page and no block are none.
PoolConstants ==
  /\ IsFiniteSet(Pages) /\ IsFiniteSet(Threads)
  /\ PageSizes \in SUBSET (Nat \ {0, 1})
  /\ \E n \in PageSizes : \A m \in PageSizes : m <= n
  /\ DS_MEMORY_POOL_MAX_FREE_PAGES \in Nat \ {0}
  /\ NoBlock \notin Pages \X Nat

-------------------------------------------------------------------------------
(* The invariant.                                                          *)

\* From first one comes to the pages K in the order A, forth along nx and back
\* along pv.
InCircle(A, n, first, K, nx, pv) ==
  /\ \A p \in K : \E i \in 1 .. n : A[i] = p
  /\ \A i, j \in 1 .. n : A[i] = A[j] => i = j
  /\ \A i \in 1 .. n : nx[A[i]] = IF i = n THEN A[1] ELSE A[i + 1]
  /\ \A i \in 1 .. n : pv[A[i]] = IF i = 1 THEN A[n] ELSE A[i - 1]
  /\ n > 0 => first = A[1]

Filed(n, first, K, nx, pv) ==
  n \in Nat /\ \E A \in [1 .. n -> K] : InCircle(A, n, first, K, nx, pv)

Open == {p \in Blocks!Allocated : availableStack[p] # <<>>}

Full == {p \in Blocks!Allocated : availableStack[p] = <<>>}

PageTypes ==
  /\ Blocks!Allocated \in SUBSET Pages
  /\ blocksPerPage \in PageSizes
  /\ blocks \in [Blocks!Allocated -> {blocksPerPage}]
  /\ availableStack \in [Blocks!Allocated -> Seq(1 .. blocksPerPage)]
  /\ nextPage \in [Blocks!Allocated -> Blocks!Allocated]
  /\ prevPage \in [Blocks!Allocated -> Blocks!Allocated]
  /\ availablePages \in Pages \cup {NoPage}
  /\ unavailablePages \in Pages \cup {NoPage}
  /\ inUse \in SUBSET (Blocks!Allocated \X (1 .. blocksPerPage))

\* A stack has no block twice and none that is in use; all others are there.
Stacked(s, p, n, used) ==
  /\ \A i, j \in 1 .. Len(s) : s[i] = s[j] => i = j
  /\ \A i \in 1 .. Len(s) : <<p, s[i]>> \notin used
  /\ \A b \in 1 .. n : <<p, b>> \in used \/ \E i \in 1 .. Len(s) : s[i] = b

AllStacked ==
  \A p \in Blocks!Allocated : Stacked(availableStack[p], p, blocksPerPage, inUse)

AllFiled ==
  /\ Filed(availablePagesSize, availablePages, Open, nextPage, prevPage)
  /\ Filed(unavailablePagesSize, unavailablePages, Full, nextPage, prevPage)

\* The pages that have all their blocks.
Unused == {p \in Blocks!Allocated : Len(availableStack[p]) = blocksPerPage}

FewUnused == Cardinality(Unused) < DS_MEMORY_POOL_MAX_FREE_PAGES

PagesInv == PageTypes /\ AllStacked /\ AllFiled /\ FewUnused

-------------------------------------------------------------------------------
(* Pages in a circle.                                                      *)

\* The links of other pages do not matter.
LEMMA Apart ==
  ASSUME NEW n, NEW first, NEW K, NEW nx, NEW pv, Filed(n, first, K, nx, pv),
         NEW nx2, NEW pv2, \A p \in K : nx2[p] = nx[p] /\ pv2[p] = pv[p]
  PROVE  Filed(n, first, K, nx2, pv2)
<1> PICK A \in [1 .. n -> K] : InCircle(A, n, first, K, nx, pv)
  BY DEF Filed
<1>1. \A i \in 1 .. n : nx2[A[i]] = nx[A[i]] /\ pv2[A[i]] = pv[A[i]]
  OBVIOUS
<1>2. InCircle(A, n, first, K, nx2, pv2)
  BY <1>1 DEF InCircle
<1> QED BY <1>2 DEF Filed

\* There are as many pages as the list counts.
LEMMA Counted ==
  ASSUME NEW n, NEW first, NEW K, NEW nx, NEW pv, Filed(n, first, K, nx, pv)
  PROVE  IsFiniteSet(K) /\ Cardinality(K) = n
<1> PICK A \in [1 .. n -> K] : InCircle(A, n, first, K, nx, pv)
  BY DEF Filed
<1>1. n \in Nat
  BY DEF Filed
<1>2. A \in Bijection(1 .. n, K)
  <2>1. /\ \A i, j \in 1 .. n : A[i] = A[j] => i = j
        /\ \A q \in K : \E i \in 1 .. n : A[i] = q
    BY DEF InCircle
  <2> QED BY <2>1 DEF Bijection, Injection, Surjection, IsInjective
<1>3. ExistsBijection(1 .. n, K)
  BY <1>2 DEF ExistsBijection
<1> QED BY <1>1, <1>3, FS_CountingElements, FS_NatBijection

\* The links of the pages K when the neighbours of p have been told that it goes.
Bridged(p, K, nx, pv, nx2, pv2) ==
  \A q \in K : /\ nx2[q] = IF q = pv[p] THEN nx[p] ELSE nx[q]
               /\ pv2[q] = IF q = nx[p] THEN pv[p] ELSE pv[q]

\* A page goes from its circle when its neighbours are told.
LEMMA Goes ==
  ASSUME NEW n, NEW first, NEW K, NEW nx, NEW pv, Filed(n, first, K, nx, pv),
         NEW p \in K, NEW nx2, NEW pv2, NEW first2, Bridged(p, K, nx, pv, nx2, pv2),
         n > 1 => first2 = IF p = first THEN nx[p] ELSE first
  PROVE  Filed(n - 1, first2, K \ {p}, nx2, pv2) /\ nx[p] \in K /\ pv[p] \in K
<1> PICK A \in [1 .. n -> K] : InCircle(A, n, first, K, nx, pv)
  BY DEF Filed
<1>12. \A q \in K : /\ nx2[q] = IF q = pv[p] THEN nx[p] ELSE nx[q]
                    /\ pv2[q] = IF q = nx[p] THEN pv[p] ELSE pv[q]
  BY DEF Bridged
<1>1. PICK k \in 1 .. n : A[k] = p
  BY DEF InCircle
<1>2. n \in Nat /\ n - 1 \in Nat /\ k \in Nat
  BY DEF Filed
<1>3. nx[p] = (IF k = n THEN A[1] ELSE A[k + 1]) /\ pv[p] = (IF k = 1 THEN A[n] ELSE A[k - 1])
  BY <1>1 DEF InCircle
<1>4. nx[p] \in K /\ pv[p] \in K
  BY <1>1, <1>2, <1>3
<1> DEFINE B == [i \in 1 .. n - 1 |-> IF i < k THEN A[i] ELSE A[i + 1]]
<1>5. B \in [1 .. n - 1 -> K \ {p}]
  <2> SUFFICES ASSUME NEW i \in 1 .. n - 1
               PROVE  B[i] \in K \ {p}
    OBVIOUS
  <2>1. i \in 1 .. n /\ i + 1 \in 1 .. n
    BY <1>2
  <2> QED BY <1>1, <1>2, <2>1 DEF InCircle
<1>6. /\ \A i \in 1 .. n - 1 : B[i] = IF i < k THEN A[i] ELSE A[i + 1]
  OBVIOUS
<1> HIDE DEF B
<1>7. ASSUME NEW i \in 1 .. n - 1, NEW j \in 1 .. n - 1, B[i] = B[j]
      PROVE  i = j
  <2>1. i \in 1 .. n /\ i + 1 \in 1 .. n /\ j \in 1 .. n /\ j + 1 \in 1 .. n
    BY <1>2
  <2>2. \A l, m \in 1 .. n : A[l] = A[m] => l = m
    BY DEF InCircle
  <2> QED BY <1>2, <1>6, <1>7, <2>1, <2>2
<1>8. ASSUME NEW q \in K \ {p}
      PROVE  \E i \in 1 .. n - 1 : B[i] = q
  <2>1. PICK j \in 1 .. n : A[j] = q
    BY DEF InCircle
  <2>2. CASE j < k
    BY <1>2, <1>6, <2>1, <2>2
  <2>3. CASE j > k
    <3>1. j - 1 \in 1 .. n - 1 /\ ~(j - 1 < k) /\ (j - 1) + 1 = j
      BY <1>2, <2>3
    <3> QED BY <1>6, <2>1, <3>1
  <2>4. j # k
    BY <1>1, <2>1
  <2> QED BY <1>2, <2>2, <2>3, <2>4
<1>9. ASSUME NEW i \in 1 .. n - 1
      PROVE  /\ nx2[B[i]] = IF i = n - 1 THEN B[1] ELSE B[i + 1]
             /\ pv2[B[i]] = IF i = 1 THEN B[n - 1] ELSE B[i - 1]
  <2>1. PICK j \in 1 .. n : j = IF i < k THEN i ELSE i + 1
    BY <1>2
  <2>2. B[i] = A[j] /\ j # k /\ A[j] \in K /\ n > 1
    BY <1>2, <1>6, <2>1
  <2>3. /\ nx[A[j]] = IF j = n THEN A[1] ELSE A[j + 1]
        /\ pv[A[j]] = IF j = 1 THEN A[n] ELSE A[j - 1]
    BY DEF InCircle
  <2>4. \A l \in 1 .. n : A[l] = A[j] => l = j
    BY DEF InCircle
  <2>5. nx2[A[j]] = IF (IF k = 1 THEN n ELSE k - 1) = j THEN nx[p] ELSE nx[A[j]]
    <3>1. (IF k = 1 THEN n ELSE k - 1) \in 1 .. n
      BY <1>2
    <3>2. pv[p] = A[IF k = 1 THEN n ELSE k - 1]
      BY <1>3
    <3> QED BY <1>12, <2>2, <2>4, <3>1, <3>2
  <2>6. pv2[A[j]] = IF (IF k = n THEN 1 ELSE k + 1) = j THEN pv[p] ELSE pv[A[j]]
    <3>1. (IF k = n THEN 1 ELSE k + 1) \in 1 .. n
      BY <1>2
    <3>2. nx[p] = A[IF k = n THEN 1 ELSE k + 1]
      BY <1>3
    <3> QED BY <1>12, <2>2, <2>4, <3>1, <3>2
  <2>7. /\ B[1] = IF k = 1 THEN A[2] ELSE A[1]
        /\ B[n - 1] = IF k = n THEN A[n - 1] ELSE A[n]
        /\ i # n - 1 => B[i + 1] = IF i + 1 < k THEN A[i + 1] ELSE A[i + 2]
        /\ i # 1 => B[i - 1] = IF i - 1 < k THEN A[i - 1] ELSE A[i]
    <3>1. 1 \in 1 .. n - 1 /\ n - 1 \in 1 .. n - 1 /\ (n - 1) + 1 = n
      BY <1>2, <2>2
    <3>2. i # n - 1 => i + 1 \in 1 .. n - 1 /\ (i + 1) + 1 = i + 2
      BY <1>2
    <3>3. i # 1 => i - 1 \in 1 .. n - 1 /\ (i - 1) + 1 = i
      BY <1>2
    <3> QED BY <1>2, <1>6, <3>1, <3>2, <3>3
  <2>8. nx2[B[i]] = IF i = n - 1 THEN B[1] ELSE B[i + 1]
    BY <1>2, <1>3, <2>1, <2>2, <2>3, <2>5, <2>7
  <2>9. pv2[B[i]] = IF i = 1 THEN B[n - 1] ELSE B[i - 1]
    BY <1>2, <1>3, <2>1, <2>2, <2>3, <2>6, <2>7
  <2> QED BY <2>8, <2>9
<1>10. n - 1 > 0 => first2 = B[1]
  <2> SUFFICES ASSUME n - 1 > 0 PROVE first2 = B[1]
    OBVIOUS
  <2>1. 1 \in 1 .. n - 1 /\ 1 \in 1 .. n /\ n > 1
    BY <1>2
  <2>2. first = A[1]
    <3>1. n > 0 => first = A[1]
      BY DEF InCircle
    <3> QED BY <1>2, <2>1, <3>1
  <2>3. p = first <=> k = 1
    <3>1. \A l, m \in 1 .. n : A[l] = A[m] => l = m
      BY DEF InCircle
    <3> QED BY <1>1, <2>1, <2>2, <3>1
  <2>4. B[1] = IF 1 < k THEN A[1] ELSE A[1 + 1]
    BY <1>6, <2>1
  <2>5. first2 = IF k = 1 THEN A[k + 1] ELSE A[1]
    <3>1. k = 1 => nx[p] = A[k + 1]
      BY <1>2, <1>3, <2>1
    <3> QED BY <2>1, <2>2, <2>3, <3>1
  <2> QED BY <1>2, <2>4, <2>5
<1>11. InCircle(B, n - 1, first2, K \ {p}, nx2, pv2)
  BY <1>7, <1>8, <1>9, <1>10 DEF InCircle
<1> QED BY <1>2, <1>4, <1>5, <1>11 DEF Filed

\* The links of the pages K when p has been put between the last and the first.
ComesLast(p, n, first, K, nx, pv, nx2, pv2) ==
  \A q \in K \cup {p} :
    /\ nx2[q] = IF n = 0 THEN p
                ELSE IF q = pv[first] THEN p ELSE IF q = p THEN first ELSE nx[q]
    /\ pv2[q] = IF n = 0 THEN p
                ELSE IF q = first THEN p ELSE IF q = p THEN pv[first] ELSE pv[q]

\* A page comes to the end of a circle, or is a circle of its own.
LEMMA Comes ==
  ASSUME NEW n, NEW first, NEW K, NEW nx, NEW pv, Filed(n, first, K, nx, pv),
         NEW p, p \notin K, NEW nx2, NEW pv2,
         ComesLast(p, n, first, K, nx, pv, nx2, pv2)
  PROVE  /\ Filed(n + 1, IF n = 0 THEN p ELSE first, K \cup {p}, nx2, pv2)
         /\ n # 0 => first \in K /\ pv[first] \in K
<1> PICK A \in [1 .. n -> K] : InCircle(A, n, first, K, nx, pv)
  BY DEF Filed
<1> USE DEF ComesLast
<1>1. n \in Nat /\ n + 1 \in Nat
  BY DEF Filed
<1>2. n # 0 => /\ first = A[1] /\ pv[first] = A[n] /\ n > 0
               /\ 1 \in 1 .. n /\ n \in 1 .. n
  BY <1>1 DEF InCircle
<1>3. n # 0 => first \in K /\ pv[first] \in K
  BY <1>2
<1> DEFINE B == [i \in 1 .. n + 1 |-> IF i = n + 1 THEN p ELSE A[i]]
<1>4. \A i \in 1 .. n + 1 : B[i] = IF i = n + 1 THEN p ELSE A[i]
  OBVIOUS
<1>5. B \in [1 .. n + 1 -> K \cup {p}]
  <2> SUFFICES ASSUME NEW i \in 1 .. n + 1
               PROVE  B[i] \in K \cup {p}
    OBVIOUS
  <2>1. i = n + 1 \/ i \in 1 .. n
    BY <1>1
  <2> QED BY <2>1
<1> HIDE DEF B
<1>6. ASSUME NEW i \in 1 .. n + 1, NEW j \in 1 .. n + 1, B[i] = B[j]
      PROVE  i = j
  <2>1. (i = n + 1 \/ i \in 1 .. n) /\ (j = n + 1 \/ j \in 1 .. n)
    BY <1>1
  <2>2. \A l, m \in 1 .. n : A[l] = A[m] => l = m
    BY DEF InCircle
  <2>3. \A l \in 1 .. n : A[l] # p /\ l # n + 1
    BY <1>1
  <2> QED BY <1>4, <1>6, <2>1, <2>2, <2>3
<1>7. ASSUME NEW q \in K \cup {p}
      PROVE  \E i \in 1 .. n + 1 : B[i] = q
  <2>1. CASE q = p
    <3>1. n + 1 \in 1 .. n + 1
      BY <1>1
    <3> QED BY <1>4, <2>1, <3>1
  <2>2. CASE q \in K
    <3>1. PICK i \in 1 .. n : A[i] = q
      BY <2>2 DEF InCircle
    <3>2. i \in 1 .. n + 1 /\ i # n + 1
      BY <1>1
    <3> QED BY <1>4, <3>1, <3>2
  <2> QED BY <2>1, <2>2
<1>8. ASSUME NEW i \in 1 .. n + 1
      PROVE  /\ nx2[B[i]] = IF i = n + 1 THEN B[1] ELSE B[i + 1]
             /\ pv2[B[i]] = IF i = 1 THEN B[n + 1] ELSE B[i - 1]
  <2>1. CASE n = 0
    <3>1. i = 1 /\ n + 1 = 1 /\ B[1] = p
      BY <1>4, <2>1
    <3> QED BY <2>1, <3>1
  <2>2. CASE n # 0 /\ i = n + 1
    <3>1. B[i] = p /\ B[1] = first /\ B[i - 1] = pv[first] /\ i # 1
      <4>1. 1 \in 1 .. n + 1 /\ i - 1 \in 1 .. n + 1 /\ i - 1 = n /\ i - 1 # n + 1
            /\ 1 # n + 1
        BY <1>1, <1>2, <2>2
      <4> QED BY <1>2, <1>4, <2>2, <4>1
    <3>2. p # pv[first] /\ p # first
      BY <1>3, <2>2
    <3> QED BY <2>2, <3>1, <3>2
  <2>3. CASE n # 0 /\ i # n + 1
    <3>1. i \in 1 .. n /\ B[i] = A[i] /\ A[i] \in K /\ A[i] # p
      BY <1>1, <1>4, <2>3
    <3>2. /\ nx[A[i]] = IF i = n THEN A[1] ELSE A[i + 1]
          /\ pv[A[i]] = IF i = 1 THEN A[n] ELSE A[i - 1]
      BY <3>1 DEF InCircle
    <3>3. (A[i] = A[n] <=> i = n) /\ (A[i] = A[1] <=> i = 1)
      <4>1. \A l, m \in 1 .. n : A[l] = A[m] => l = m
        BY DEF InCircle
      <4> QED BY <1>2, <2>3, <3>1, <4>1
    <3>4. nx2[A[i]] = IF i = n THEN p ELSE A[i + 1]
      BY <1>2, <2>3, <3>1, <3>2, <3>3
    <3>5. pv2[A[i]] = IF i = 1 THEN p ELSE A[i - 1]
      BY <1>2, <2>3, <3>1, <3>2, <3>3
    <3>6. /\ i = n => B[i + 1] = p
          /\ i # n => B[i + 1] = A[i + 1]
          /\ i # 1 => B[i - 1] = A[i - 1]
          /\ B[n + 1] = p
      <4>1. i + 1 \in 1 .. n + 1 /\ n + 1 \in 1 .. n + 1
        BY <1>1, <3>1
      <4>2. i # 1 => i - 1 \in 1 .. n + 1 /\ i - 1 # n + 1
        BY <1>1, <3>1
      <4>3. i # n => i + 1 # n + 1
        BY <1>1, <3>1
      <4> QED BY <1>4, <4>1, <4>2, <4>3
    <3> QED BY <2>3, <3>1, <3>4, <3>5, <3>6
  <2> QED BY <2>1, <2>2, <2>3
<1>9. n + 1 > 0 /\ (IF n = 0 THEN p ELSE first) = B[1]
  <2>1. 1 \in 1 .. n + 1
    BY <1>1
  <2>2. n + 1 > 0 /\ (1 = n + 1 <=> n = 0)
    BY <1>1
  <2> QED BY <1>2, <1>4, <2>1, <2>2
<1>10. InCircle(B, n + 1, IF n = 0 THEN p ELSE first, K \cup {p}, nx2, pv2)
  BY <1>6, <1>7, <1>8, <1>9 DEF InCircle
<1> QED BY <1>1, <1>3, <1>5, <1>10 DEF Filed

\* What is left of the circle that p was in, and the circle it has come to.
Moved(p, n, first, K, m, start, L, S, links) ==
  /\ Filed(n - 1, first, K \ {p}, links.next, links.prev)
  /\ Filed(m + 1, IF m = 0 THEN p ELSE start, L \cup {p}, links.next, links.prev)
  /\ links.next \in [S -> S] /\ links.prev \in [S -> S]

\* A page goes from one circle to the other, as Allocate and Release link it.
LEMMA Changes ==
  ASSUME NEW K, NEW L, K \cap L = {}, NEW S, S = K \cup L,
         nextPage \in [S -> S], prevPage \in [S -> S],
         NEW n, NEW first, Filed(n, first, K, nextPage, prevPage),
         NEW m, NEW start, Filed(m, start, L, nextPage, prevPage),
         NEW p \in K, NEW first2,
         n > 1 => first2 = IF p = first THEN nextPage[p] ELSE first,
         NEW links, links = Blocks!Linked(Blocks!Unlinked(p), p, start, m)
  PROVE  Moved(p, n, first2, K, m, start, L, S, links)
<1> DEFINE nx == [nextPage EXCEPT ![prevPage[p]] = nextPage[p]]
           pv == [prevPage EXCEPT ![nextPage[p]] = prevPage[p]]
<1>1. p \in S /\ p \notin L /\ nextPage[p] \in S /\ prevPage[p] \in S
  OBVIOUS
<1>2. nx \in [S -> S] /\ pv \in [S -> S]
  BY <1>1
<1>3. \A q \in S : /\ nx[q] = IF q = prevPage[p] THEN nextPage[p] ELSE nextPage[q]
                   /\ pv[q] = IF q = nextPage[p] THEN prevPage[p] ELSE prevPage[q]
  BY <1>1
<1>4. Blocks!Unlinked(p) = [next |-> nx, prev |-> pv]
  BY DEF Blocks!Unlinked
<1> HIDE DEF nx, pv
<1>5. /\ Filed(n - 1, first2, K \ {p}, nx, pv)
      /\ nextPage[p] \in K /\ prevPage[p] \in K
  <2>1. Bridged(p, K, nextPage, prevPage, nx, pv)
    BY <1>3 DEF Bridged
  <2> QED BY <2>1, Goes
<1>6. Filed(m, start, L, nx, pv)
  <2>1. \A q \in L : nx[q] = nextPage[q] /\ pv[q] = prevPage[q]
    BY <1>3, <1>5
  <2> QED BY <2>1, Apart
<1>7. m # 0 => start \in L /\ pv[start] \in L
  <2>1. PICK A \in [1 .. m -> L] : InCircle(A, m, start, L, nx, pv)
    BY <1>6 DEF Filed
  <2>2. m \in Nat
    BY <1>6 DEF Filed
  <2>3. m # 0 => 1 \in 1 .. m /\ m \in 1 .. m /\ start = A[1] /\ pv[A[1]] = A[m]
    BY <2>1, <2>2 DEF InCircle
  <2> QED BY <2>1, <2>3
<1>8. m = 0 => links = [next |-> [nx EXCEPT ![p] = p], prev |-> [pv EXCEPT ![p] = p]]
  BY <1>4 DEF Blocks!Linked
<1>9. m # 0 => links = [next |-> [nx EXCEPT ![p] = start, ![pv[start]] = p],
                        prev |-> [pv EXCEPT ![p] = pv[start], ![start] = p]]
  BY <1>4 DEF Blocks!Linked
<1>10. links.next \in [S -> S] /\ links.prev \in [S -> S]
  BY <1>1, <1>2, <1>7, <1>8, <1>9
<1>11. ASSUME NEW q \in S
       PROVE  /\ links.next[q] = IF m = 0 THEN (IF q = p THEN p ELSE nx[q])
                   ELSE IF q = pv[start] THEN p ELSE IF q = p THEN start ELSE nx[q]
              /\ links.prev[q] = IF m = 0 THEN (IF q = p THEN p ELSE pv[q])
                   ELSE IF q = start THEN p ELSE IF q = p THEN pv[start] ELSE pv[q]
  <2>1. CASE m = 0
    BY <1>1, <1>2, <1>8, <2>1
  <2>2. CASE m # 0
    <3>1. start \in S /\ pv[start] \in S /\ start # p /\ pv[start] # p
      BY <1>1, <1>7, <2>2
    <3> QED BY <1>1, <1>2, <1>9, <2>2, <3>1
  <2> QED BY <2>1, <2>2
<1> HIDE DEF nx, pv
<1>12. Filed(n - 1, first2, K \ {p}, links.next, links.prev)
  <2>1. \A q \in K \ {p} : links.next[q] = nx[q] /\ links.prev[q] = pv[q]
    BY <1>7, <1>11
  <2> QED BY <1>5, <2>1, Apart
<1>13. m = 0 => L = {}
  <2>1. PICK A \in [1 .. m -> L] : InCircle(A, m, start, L, nx, pv)
    BY <1>6 DEF Filed
  <2>2. \A q \in L : \E i \in 1 .. m : A[i] = q
    BY <2>1 DEF InCircle
  <2> QED BY <2>2
<1>14. Filed(m + 1, IF m = 0 THEN p ELSE start, L \cup {p}, links.next, links.prev)
  <2>1. ASSUME NEW q \in L \cup {p}
        PROVE  /\ links.next[q] = IF m = 0 THEN p
                    ELSE IF q = pv[start] THEN p ELSE IF q = p THEN start ELSE nx[q]
               /\ links.prev[q] = IF m = 0 THEN p
                    ELSE IF q = start THEN p ELSE IF q = p THEN pv[start] ELSE pv[q]
    <3>1. q \in S /\ (m = 0 => q = p)
      BY <1>1, <1>13
    <3> QED BY <1>11, <3>1
  <2>4. ComesLast(p, m, start, L, nx, pv, links.next, links.prev)
    BY <2>1 DEF ComesLast
  <2>2. PICK nx2, pv2 : nx2 = links.next /\ pv2 = links.prev
    OBVIOUS
  <2>3. Filed(m + 1, IF m = 0 THEN p ELSE start, L \cup {p}, nx2, pv2)
    BY <1>1, <1>6, <2>2, <2>4, Comes
  <2> QED BY <2>2, <2>3
<1> QED BY <1>10, <1>12, <1>14 DEF Moved

-------------------------------------------------------------------------------
(* The stack of a page.                                                    *)

\* It is empty when its length is 0.
LEMMA Empties ==
  ASSUME NEW S, NEW s \in Seq(S)
  PROVE  s = <<>> <=> Len(s) = 0
BY EmptySeq

\* It holds no more than the page has.
LEMMA StackFits ==
  ASSUME NEW n \in Nat, NEW s \in Seq(1 .. n), NEW p, NEW used, Stacked(s, p, n, used)
  PROVE  Len(s) \in 0 .. n
<1>1. s \in [1 .. Len(s) -> 1 .. n] /\ Len(s) \in Nat
  BY LenProperties
<1>2. PICK l : l = Len(s)
  OBVIOUS
<1>3. l \in Nat /\ s \in [1 .. l -> 1 .. n]
  BY <1>1, <1>2
<1>4. \A i, j \in 1 .. l : s[i] = s[j] => i = j
  BY <1>2 DEF Stacked
<1>5. s \in Injection(1 .. l, 1 .. n)
  BY <1>3, <1>4 DEF Injection, IsInjective
<1>6. /\ IsFiniteSet(1 .. n) /\ Cardinality(1 .. n) = n
      /\ IsFiniteSet(1 .. l) /\ Cardinality(1 .. l) = l
  BY <1>3, FS_Interval
<1>7. Cardinality(1 .. l) <= Cardinality(1 .. n)
  BY <1>5, <1>6, FS_Injection
<1> QED BY <1>2, <1>3, <1>6, <1>7

\* A block of another page does not matter.
LEMMA StackedApart ==
  ASSUME NEW s, NEW q, NEW n, NEW used, Stacked(s, q, n, used),
         NEW p, p # q, NEW b
  PROVE  /\ Stacked(s, q, n, used \cup {<<p, b>>})
         /\ Stacked(s, q, n, used \ {<<p, b>>})
BY DEF Stacked

\* The block at the top is taken.
Popped(s) == SubSeq(s, 1, Len(s) - 1)
Last(s) == s[Len(s)]

LEMMA StackPops ==
  ASSUME NEW n \in Nat, NEW s \in Seq(1 .. n), Len(s) > 0, NEW p, NEW used,
         Stacked(s, p, n, used)
  PROVE  /\ Popped(s) \in Seq(1 .. n) /\ Len(Popped(s)) = Len(s) - 1
         /\ Last(s) \in 1 .. n
         /\ <<p, Last(s)>> \notin used
         /\ Stacked(Popped(s), p, n, used \cup {<<p, Last(s)>>})
<1> PICK t : t = SubSeq(s, 1, Len(s) - 1)
  OBVIOUS
<1>1. Len(s) \in Nat /\ Len(s) > 0 /\ \A i \in 1 .. Len(s) : s[i] \in 1 .. n
  BY EmptySeq, LenProperties, ElementOfSeq
<1>2. Len(s) \in 1 .. Len(s) /\ s[Len(s)] \in 1 .. n
  BY <1>1
<1>3. /\ t \in Seq(1 .. n) /\ Len(t) = Len(s) - 1
      /\ \A i \in 1 .. Len(s) - 1 : t[i] = s[i]
  <2>1. /\ 1 \in 1 .. Len(s) + 1 /\ Len(s) - 1 \in (1 - 1) .. Len(s)
        /\ (Len(s) - 1) - 1 + 1 = Len(s) - 1
    BY <1>1
  <2>2. \A m \in 1 - 1 .. Len(s) :
          /\ SubSeq(s, 1, m) \in Seq(1 .. n)
          /\ Len(SubSeq(s, 1, m)) = IF 1 <= m THEN m - 1 + 1 ELSE 0
          /\ \A i \in 1 .. m - 1 + 1 : SubSeq(s, 1, m)[i] = s[1 + i - 1]
    BY <2>1, SubSeqProperties
  <2>3. \A i \in 1 .. Len(s) - 1 : 1 + i - 1 = i
    BY <1>1
  <2> QED BY <1>1, <2>1, <2>2, <2>3
<1>4. /\ \A i, j \in 1 .. Len(s) : s[i] = s[j] => i = j
      /\ \A i \in 1 .. Len(s) : <<p, s[i]>> \notin used
      /\ \A b \in 1 .. n : <<p, b>> \in used \/ \E i \in 1 .. Len(s) : s[i] = b
  BY DEF Stacked
<1>5. \A i \in 1 .. Len(t) : i \in 1 .. Len(s) /\ i # Len(s) /\ t[i] = s[i]
  BY <1>1, <1>3
<1>6. ASSUME NEW b \in 1 .. n, <<p, b>> \notin used, b # s[Len(s)]
      PROVE  \E i \in 1 .. Len(t) : t[i] = b
  <2>1. PICK i \in 1 .. Len(s) : s[i] = b
    BY <1>4, <1>6
  <2>2. i \in 1 .. Len(t)
    BY <1>1, <1>3, <1>6, <2>1
  <2> QED BY <1>5, <2>1, <2>2
<1>7. Stacked(t, p, n, used \cup {<<p, s[Len(s)]>>})
  <2>1. \A i, j \in 1 .. Len(t) : t[i] = t[j] => i = j
    BY <1>4, <1>5
  <2>2. \A i \in 1 .. Len(t) : <<p, t[i]>> \notin used \cup {<<p, s[Len(s)]>>}
    BY <1>2, <1>4, <1>5
  <2> QED BY <1>6, <2>1, <2>2 DEF Stacked
<1> QED BY <1>2, <1>3, <1>4, <1>7 DEF Popped, Last

\* A block that is given back goes to the top.
PushedOn(s, b) == Append(s, b)

LEMMA StackPushes ==
  ASSUME NEW n \in Nat, NEW s \in Seq(1 .. n), NEW p, NEW used,
         Stacked(s, p, n, used), NEW b \in 1 .. n, <<p, b>> \in used
  PROVE  /\ PushedOn(s, b) \in Seq(1 .. n) /\ Len(PushedOn(s, b)) = Len(s) + 1
         /\ Stacked(PushedOn(s, b), p, n, used \ {<<p, b>>})
<1> PICK t : t = Append(s, b)
  OBVIOUS
<1>1. /\ t \in Seq(1 .. n) /\ Len(t) = Len(s) + 1 /\ Len(s) \in Nat
      /\ \A i \in 1 .. Len(s) : t[i] = s[i]
      /\ t[Len(s) + 1] = b
  BY AppendProperties, LenProperties
<1>2. /\ \A i, j \in 1 .. Len(s) : s[i] = s[j] => i = j
      /\ \A i \in 1 .. Len(s) : <<p, s[i]>> \notin used
      /\ \A c \in 1 .. n : <<p, c>> \in used \/ \E i \in 1 .. Len(s) : s[i] = c
  BY DEF Stacked
<1>3. \A i \in 1 .. Len(t) : i = Len(s) + 1 \/ (i \in 1 .. Len(s) /\ t[i] # b)
  BY <1>1, <1>2
<1>4. \A i, j \in 1 .. Len(t) : t[i] = t[j] => i = j
  BY <1>1, <1>2, <1>3
<1>5. \A i \in 1 .. Len(t) : <<p, t[i]>> \notin used \ {<<p, b>>}
  BY <1>1, <1>2, <1>3
<1>6. ASSUME NEW c \in 1 .. n
      PROVE  <<p, c>> \in used \ {<<p, b>>} \/ \E i \in 1 .. Len(t) : t[i] = c
  <2>1. CASE c = b
    <3>1. Len(s) + 1 \in 1 .. Len(t)
      BY <1>1
    <3> QED BY <1>1, <2>1, <3>1
  <2>2. CASE c # b /\ \E i \in 1 .. Len(s) : s[i] = c
    <3>1. PICK i \in 1 .. Len(s) : s[i] = c
      BY <2>2
    <3>2. i \in 1 .. Len(t)
      BY <1>1
    <3> QED BY <1>1, <3>1, <3>2
  <2>3. CASE c # b /\ <<p, c>> \in used
    BY <2>3
  <2> QED BY <1>2, <2>1, <2>2, <2>3
<1>7. Stacked(t, p, n, used \ {<<p, b>>})
  BY <1>4, <1>5, <1>6 DEF Stacked
<1> QED BY <1>1, <1>7 DEF PushedOn

-------------------------------------------------------------------------------
(* The pool's steps.                                                       *)

\* What the definitions say of a page in one state.
LEMMA Facts ==
  ASSUME PoolConstants, PagesInv
  PROVE  /\ blocksPerPage \in Nat /\ blocksPerPage > 1
         /\ DOMAIN availableStack = Blocks!Allocated
         /\ Open \cap Full = {} /\ Open \cup Full = Blocks!Allocated
         /\ \A p \in Blocks!Allocated :
              /\ availableStack[p] \in Seq(1 .. blocksPerPage)
              /\ Stacked(availableStack[p], p, blocksPerPage, inUse)
              /\ Len(availableStack[p]) \in 0 .. blocksPerPage
         /\ IsFiniteSet(Blocks!Allocated) /\ IsFiniteSet(Unused)
         /\ Unused \in SUBSET Open
<1>1. blocksPerPage \in Nat /\ blocksPerPage > 1
  <2>1. blocksPerPage \in PageSizes
    BY DEF PagesInv, PageTypes
  <2> QED BY <2>1 DEF PoolConstants
<1>2. /\ availableStack \in [Blocks!Allocated -> Seq(1 .. blocksPerPage)]
      /\ Blocks!Allocated \in SUBSET Pages
  BY DEF PagesInv, PageTypes
<1>3. ASSUME NEW p \in Blocks!Allocated
      PROVE  /\ availableStack[p] \in Seq(1 .. blocksPerPage)
             /\ Stacked(availableStack[p], p, blocksPerPage, inUse)
             /\ Len(availableStack[p]) \in 0 .. blocksPerPage
  <2>1. availableStack[p] \in Seq(1 .. blocksPerPage)
    BY <1>2
  <2>2. Stacked(availableStack[p], p, blocksPerPage, inUse)
    BY DEF PagesInv, AllStacked
  <2> QED BY <1>1, <2>1, <2>2, StackFits
<1>4. Unused \in SUBSET Open
  BY <1>1, <1>3, EmptySeq DEF Unused, Open
<1>5. IsFiniteSet(Blocks!Allocated) /\ IsFiniteSet(Unused)
  BY <1>2, FS_Subset DEF PoolConstants, Unused
<1> QED BY <1>1, <1>2, <1>3, <1>4, <1>5 DEF Open, Full

\* A list of no pages.
LEMMA NoneFiled ==
  ASSUME NEW first, NEW nx, NEW pv
  PROVE  Filed(0, first, {}, nx, pv)
<1>1. PICK A : A = [i \in 1 .. 0 |-> first]
  OBVIOUS
<1>2. A \in [1 .. 0 -> {}] /\ InCircle(A, 0, first, {}, nx, pv)
  BY <1>1 DEF InCircle
<1> QED BY <1>2 DEF Filed

\* The first page of a list is one of its pages.
LEMMA FirstFiled ==
  ASSUME NEW n, NEW first, NEW K, NEW nx, NEW pv, Filed(n, first, K, nx, pv), n > 0
  PROVE  first \in K
<1>1. PICK A \in [1 .. n -> K] : InCircle(A, n, first, K, nx, pv)
  BY DEF Filed
<1>2. n \in Nat /\ 1 \in 1 .. n
  BY DEF Filed
<1>3. first = A[1]
  BY <1>1 DEF InCircle
<1> QED BY <1>2, <1>3

LEMMA PagesInit == PoolConstants /\ Blocks!Init => PagesInv
<1> SUFFICES ASSUME PoolConstants, Blocks!Init PROVE PagesInv
  OBVIOUS
<1>1. Blocks!Allocated = {} /\ Open = {} /\ Full = {} /\ Unused = {}
  BY DEF Blocks!Init, Blocks!Nothing, Blocks!Allocated, Open, Full, Unused
<1>2. PageTypes
  BY <1>1 DEF PageTypes, Blocks!Init, Blocks!Nothing
<1>3. AllStacked
  BY <1>1 DEF AllStacked
<1>4. AllFiled
  BY <1>1, NoneFiled DEF AllFiled, Blocks!Init
<1>5. FewUnused
  BY <1>1, FS_EmptySet DEF FewUnused, PoolConstants
<1> QED BY <1>2, <1>3, <1>4, <1>5 DEF PagesInv

\* The types of the pages' parts that a step may change, where it allocates none.
LEMMA SamePages ==
  ASSUME PagesInv, UNCHANGED <<blocks, blocksPerPage>>,
         availableStack' \in [Blocks!Allocated -> Seq(1 .. blocksPerPage)],
         nextPage' \in [Blocks!Allocated -> Blocks!Allocated],
         prevPage' \in [Blocks!Allocated -> Blocks!Allocated],
         availablePages' \in Pages \cup {NoPage},
         unavailablePages' \in Pages \cup {NoPage},
         inUse' \in SUBSET (Blocks!Allocated \X (1 .. blocksPerPage))
  PROVE  PageTypes'
<1>1. Blocks!Allocated' = Blocks!Allocated
  BY DEF Blocks!Allocated
<1>2. /\ Blocks!Allocated \in SUBSET Pages
      /\ blocksPerPage \in PageSizes
      /\ blocks \in [Blocks!Allocated -> {blocksPerPage}]
  BY DEF PagesInv, PageTypes
<1> QED BY <1>1, <1>2 DEF PageTypes

LEMMA AllocateKeeps ==
  ASSUME PoolConstants, PagesInv, Blocks!Allocate
  PROVE  PagesInv' /\ \E u : u \notin inUse /\ inUse' = inUse \cup {u}
<1>1. PICK p, s, t :
        /\ p = availablePages /\ s = availableStack[p] /\ s # <<>>
        /\ t = Popped(s)
        /\ inUse' = inUse \cup {<<p, Last(s)>>}
        /\ availableStack' = [availableStack EXCEPT ![p] = t]
        /\ UNCHANGED <<blocks, blocksPerPage>>
  BY DEF Blocks!Allocate, Blocks!Top, Popped, Last
<1>2. p \in Open /\ p \in Blocks!Allocated
  BY <1>1, FirstFiled DEF Blocks!Allocate, PagesInv, AllFiled, Open
<1>3. /\ blocksPerPage \in Nat /\ s \in Seq(1 .. blocksPerPage)
      /\ Stacked(s, p, blocksPerPage, inUse)
      /\ Len(s) \in 0 .. blocksPerPage /\ DOMAIN availableStack = Blocks!Allocated
  BY <1>1, <1>2, Facts
<1>4. /\ t \in Seq(1 .. blocksPerPage) /\ Len(t) = Len(s) - 1
      /\ Last(s) \in 1 .. blocksPerPage
      /\ <<p, Last(s)>> \notin inUse
      /\ Stacked(t, p, blocksPerPage, inUse \cup {<<p, Last(s)>>})
  <2>1. PICK n, used : n = blocksPerPage /\ used = inUse
    OBVIOUS
  <2>2. /\ n \in Nat /\ s \in Seq(1 .. n) /\ Len(s) > 0
        /\ Stacked(s, p, n, used) /\ t = Popped(s)
    BY <1>1, <1>3, <2>1, Empties
  <2>3. /\ t \in Seq(1 .. n) /\ Len(t) = Len(s) - 1 /\ Last(s) \in 1 .. n
        /\ <<p, Last(s)>> \notin used
        /\ Stacked(t, p, n, used \cup {<<p, Last(s)>>})
    BY <2>2, StackPops
  <2> QED BY <2>1, <2>3
<1>5. /\ Blocks!Allocated' = Blocks!Allocated
      /\ availableStack' \in [Blocks!Allocated -> Seq(1 .. blocksPerPage)]
      /\ \A q \in Blocks!Allocated :
           availableStack'[q] = IF q = p THEN t ELSE availableStack[q]
  BY <1>1, <1>2, <1>4 DEF Blocks!Allocated, PagesInv, PageTypes
<1>10. inUse' \in SUBSET (Blocks!Allocated \X (1 .. blocksPerPage))
  BY <1>1, <1>2, <1>4 DEF PagesInv, PageTypes
<1>6. AllStacked'
  <2> SUFFICES ASSUME NEW q \in Blocks!Allocated
               PROVE  Stacked(availableStack'[q], q, blocksPerPage, inUse')
    BY <1>1, <1>5 DEF AllStacked
  <2>1. CASE q = p
    BY <1>1, <1>4, <1>5, <2>1
  <2>2. CASE q # p
    <3>1. Stacked(availableStack[q], q, blocksPerPage, inUse)
      BY Facts
    <3> QED BY <1>1, <1>5, <2>2, <3>1, StackedApart
  <2> QED BY <2>1, <2>2
<1>7. FewUnused'
  <2>1. Unused' \in SUBSET Unused
    BY <1>1, <1>3, <1>4, <1>5, Facts DEF Unused
  <2>2. IsFiniteSet(Unused) /\ Cardinality(Unused) \in Nat
    BY Facts, FS_CardinalityType
  <2>3. IsFiniteSet(Unused') /\ Cardinality(Unused') \in Nat
    BY <2>1, <2>2, FS_Subset, FS_CardinalityType
  <2>4. Cardinality(Unused') <= Cardinality(Unused)
    BY <2>1, <2>2, FS_Subset
  <2> QED BY <2>2, <2>3, <2>4 DEF PagesInv, FewUnused, PoolConstants
<1>8. CASE Len(s) = 1
  <2>1. t = <<>>
    BY <1>4, <1>8, Empties
  <2>2. Open' = Open \ {p} /\ Full' = Full \cup {p}
    BY <1>2, <1>5, <2>1 DEF Open, Full
  <2>3. PICK links :
          /\ links = Blocks!Linked(Blocks!Unlinked(p), p, unavailablePages,
                                   unavailablePagesSize)
          /\ nextPage' = links.next /\ prevPage' = links.prev
          /\ availablePages' = nextPage[p]
          /\ availablePagesSize' = availablePagesSize - 1
          /\ unavailablePages' =
               IF unavailablePagesSize = 0 THEN p ELSE unavailablePages
          /\ unavailablePagesSize' = unavailablePagesSize + 1
    BY <1>1, <1>8 DEF Blocks!Allocate
  <2>4. /\ Open \cap Full = {} /\ Blocks!Allocated = Open \cup Full
        /\ nextPage \in [Blocks!Allocated -> Blocks!Allocated]
        /\ prevPage \in [Blocks!Allocated -> Blocks!Allocated]
        /\ Filed(availablePagesSize, availablePages, Open, nextPage, prevPage)
        /\ Filed(unavailablePagesSize, unavailablePages, Full, nextPage, prevPage)
    BY Facts DEF PagesInv, PageTypes, AllFiled
  <2>5. /\ Filed(availablePagesSize - 1, nextPage[p], Open \ {p}, links.next, links.prev)
        /\ Filed(unavailablePagesSize + 1,
                 IF unavailablePagesSize = 0 THEN p ELSE unavailablePages,
                 Full \cup {p}, links.next, links.prev)
        /\ links.next \in [Blocks!Allocated -> Blocks!Allocated]
        /\ links.prev \in [Blocks!Allocated -> Blocks!Allocated]
    <3>1. PICK K, L, S, n, first, m, start :
            /\ K = Open /\ L = Full /\ S = Blocks!Allocated
            /\ n = availablePagesSize /\ first = availablePages
            /\ m = unavailablePagesSize /\ start = unavailablePages
      OBVIOUS
    <3>2. /\ K \cap L = {} /\ S = K \cup L
          /\ nextPage \in [S -> S] /\ prevPage \in [S -> S]
          /\ Filed(n, first, K, nextPage, prevPage)
          /\ Filed(m, start, L, nextPage, prevPage)
          /\ links = Blocks!Linked(Blocks!Unlinked(p), p, start, m)
          /\ p \in K /\ p = first
      BY <1>1, <1>2, <2>3, <2>4, <3>1
    <3>3. PICK first2 : first2 = nextPage[p]
      OBVIOUS
    <3>4. n > 1 => first2 = IF p = first THEN nextPage[p] ELSE first
      BY <3>2, <3>3
    <3>5. Moved(p, n, first2, K, m, start, L, S, links)
      BY <3>2, <3>4, Changes
    <3> QED BY <3>1, <3>3, <3>5 DEF Moved
  <2>6. AllFiled'
    BY <2>2, <2>3, <2>5 DEF AllFiled
  <2>7. PageTypes'
    <3>1. /\ nextPage[p] \in Pages /\ p \in Pages
          /\ unavailablePages \in Pages \cup {NoPage}
      BY <1>2, <2>4 DEF PagesInv, PageTypes
    <3>2. availablePages' \in Pages \cup {NoPage}
          /\ unavailablePages' \in Pages \cup {NoPage}
      BY <2>3, <3>1
    <3> QED BY <1>1, <1>5, <1>10, <2>3, <2>5, <3>2, SamePages
  <2> QED BY <1>1, <1>4, <1>6, <1>7, <2>6, <2>7 DEF PagesInv
<1>9. CASE Len(s) # 1
  <2>1. UNCHANGED <<availablePages, unavailablePages, availablePagesSize,
                    unavailablePagesSize, nextPage, prevPage>>
    BY <1>1, <1>9 DEF Blocks!Allocate, Blocks!lists
  <2>2. t # <<>>
    <3>1. Len(s) # 0 /\ Len(s) \in Nat
      BY <1>1, <1>3, Empties
    <3>2. Len(t) # 0
      BY <1>4, <1>9, <3>1
    <3> QED BY <3>2
  <2>3. Open' = Open /\ Full' = Full
    BY <1>2, <1>5, <2>2 DEF Open, Full
  <2>4. AllFiled'
    BY <2>1, <2>3 DEF AllFiled, PagesInv
  <2>5. PageTypes'
    <3>1. /\ availablePages \in Pages \cup {NoPage}
          /\ unavailablePages \in Pages \cup {NoPage}
          /\ nextPage \in [Blocks!Allocated -> Blocks!Allocated]
          /\ prevPage \in [Blocks!Allocated -> Blocks!Allocated]
      BY DEF PagesInv, PageTypes
    <3>2. UNCHANGED <<blocks, blocksPerPage>>
      BY <1>1
    <3>3. /\ nextPage' \in [Blocks!Allocated -> Blocks!Allocated]
          /\ prevPage' \in [Blocks!Allocated -> Blocks!Allocated]
          /\ availablePages' \in Pages \cup {NoPage}
          /\ unavailablePages' \in Pages \cup {NoPage}
      BY <2>1, <3>1
    <3> QED BY <1>5, <1>10, <3>2, <3>3, SamePages
  <2> QED BY <1>1, <1>4, <1>6, <1>7, <2>4, <2>5 DEF PagesInv
<1> QED BY <1>8, <1>9

\* A list that counts no pages has none.
LEMMA NoPages ==
  ASSUME NEW first, NEW K, NEW nx, NEW pv, Filed(0, first, K, nx, pv)
  PROVE  K = {}
<1>1. PICK A \in [1 .. 0 -> K] : InCircle(A, 0, first, K, nx, pv)
  BY DEF Filed
<1>2. \A q \in K : \E i \in 1 .. 0 : A[i] = q
  BY <1>1 DEF InCircle
<1> QED BY <1>2

\* The stack of a new page, whose last block is taken at once.
LEMMA StackStarts ==
  ASSUME NEW n \in Nat, n > 1, NEW p, NEW used,
         \A b \in 1 .. n : <<p, b>> \notin used,
         NEW s, s = [i \in 1 .. n - 1 |-> i]
  PROVE  s \in Seq(1 .. n) /\ Len(s) = n - 1 /\ Stacked(s, p, n, used \cup {<<p, n>>})
<1>1. n - 1 \in Nat /\ \A i \in 1 .. n - 1 : i \in 1 .. n /\ i # n
  OBVIOUS
<1>2. s \in [1 .. n - 1 -> 1 .. n] /\ \A i \in 1 .. n - 1 : s[i] = i
  BY <1>1
<1>3. s \in Seq(1 .. n)
  BY <1>1, <1>2, SeqDef
<1>4. Len(s) = n - 1
  <2>1. Len(s) \in Nat /\ DOMAIN s = 1 .. Len(s) /\ DOMAIN s = 1 .. n - 1
    BY <1>2, <1>3, LenProperties
  <2>2. \A i \in Int : i \in 1 .. Len(s) <=> i \in 1 .. n - 1
    BY <2>1
  <2>3. n - 1 \in 1 .. Len(s) /\ n \notin 1 .. Len(s)
    BY <1>1, <2>2
  <2> QED BY <2>1, <2>3
<1>5. \A i, j \in 1 .. n - 1 : s[i] = s[j] => i = j
  BY <1>2
<1>6. \A i \in 1 .. n - 1 : <<p, s[i]>> \notin used \cup {<<p, n>>}
  BY <1>1, <1>2
<1>7. \A b \in 1 .. n : <<p, b>> \in used \cup {<<p, n>>} \/ \E i \in 1 .. n - 1 : s[i] = b
  <2>1. \A b \in 1 .. n : b = n \/ b \in 1 .. n - 1
    BY <1>1
  <2> QED BY <1>2, <2>1
<1> QED BY <1>3, <1>4, <1>5, <1>6, <1>7 DEF Stacked

LEMMA AllocatePageKeeps ==
  ASSUME PoolConstants, PagesInv, NEW p, Blocks!AllocatePage(p)
  PROVE  PagesInv' /\ \E u : u \notin inUse /\ inUse' = inUse \cup {u}
<1>1. PICK n, s :
        /\ availablePagesSize = 0
        /\ p \in Pages /\ p \notin Blocks!Allocated
        /\ n = blocksPerPage /\ s = [i \in 1 .. n - 1 |-> i]
        /\ blocks' = Blocks!Extended(blocks, p, n)
        /\ nextPage' = Blocks!Extended(nextPage, p, p)
        /\ prevPage' = Blocks!Extended(prevPage, p, p)
        /\ availablePages' = p
        /\ availablePagesSize' = 1
        /\ availableStack' = Blocks!Extended(availableStack, p, s)
        /\ inUse' = inUse \cup {<<p, n>>}
        /\ UNCHANGED <<unavailablePages, unavailablePagesSize, blocksPerPage>>
  BY DEF Blocks!AllocatePage
<1>2. PICK P : P = Blocks!Allocated
  OBVIOUS
<1>3. /\ n \in Nat /\ n > 1 /\ n \in PageSizes
      /\ P \in SUBSET Pages
      /\ blocks \in [P -> {n}]
      /\ availableStack \in [P -> Seq(1 .. n)]
      /\ nextPage \in [P -> P] /\ prevPage \in [P -> P]
      /\ unavailablePages \in Pages \cup {NoPage}
      /\ inUse \in SUBSET (P \X (1 .. n))
  BY <1>1, <1>2, Facts DEF PagesInv, PageTypes
<1>4. \A b \in 1 .. n : <<p, b>> \notin inUse
  BY <1>1, <1>2, <1>3
<1>5. s \in Seq(1 .. n) /\ Len(s) = n - 1 /\ Stacked(s, p, n, inUse \cup {<<p, n>>})
  BY <1>1, <1>3, <1>4, StackStarts
<1>6. s # <<>> /\ Len(s) # n
  BY <1>3, <1>5, Empties
<1>7. /\ blocks' \in [P \cup {p} -> {n}]
      /\ nextPage' \in [P \cup {p} -> P \cup {p}]
      /\ prevPage' \in [P \cup {p} -> P \cup {p}]
  BY <1>1, <1>3 DEF Blocks!Extended
<1>8. Blocks!Allocated' = P \cup {p}
  BY <1>7 DEF Blocks!Allocated
<1>9. \A q \in P : /\ nextPage'[q] = nextPage[q] /\ prevPage'[q] = prevPage[q]
                   /\ availableStack'[q] = availableStack[q]
  BY <1>1, <1>2, <1>3 DEF Blocks!Extended
<1>10. /\ nextPage'[p] = p /\ prevPage'[p] = p /\ availableStack'[p] = s
       /\ availableStack' \in [P \cup {p} -> Seq(1 .. n)]
  BY <1>1, <1>3, <1>5 DEF Blocks!Extended
<1>11. PageTypes'
  <2>1. inUse' \in SUBSET ((P \cup {p}) \X (1 .. n))
    BY <1>1, <1>3
  <2>2. P \cup {p} \in SUBSET Pages
    BY <1>1, <1>3
  <2>3. blocksPerPage' = n
    BY <1>1
  <2> QED BY <1>1, <1>3, <1>7, <1>8, <1>10, <2>1, <2>2, <2>3 DEF PageTypes
<1>12. AllStacked'
  <2> SUFFICES ASSUME NEW q \in P \cup {p}
               PROVE  Stacked(availableStack'[q], q, n, inUse \cup {<<p, n>>})
    BY <1>1, <1>8 DEF AllStacked
  <2>1. CASE q = p
    BY <1>5, <1>10, <2>1
  <2>2. CASE q # p
    <3>1. Stacked(availableStack[q], q, n, inUse)
      BY <1>1, <1>2, <2>2, Facts
    <3> QED BY <1>9, <2>2, <3>1, StackedApart
  <2> QED BY <2>1, <2>2
<1>13. Open = {}
  BY <1>1, NoPages DEF PagesInv, AllFiled
<1>14. Open' = {p} /\ Full' = Full
  <2>1. \A q \in P : availableStack[q] = <<>>
    BY <1>2, <1>13 DEF Open
  <2>2. \A q \in P : availableStack'[q] = <<>>
    BY <1>9, <2>1
  <2>3. availableStack'[p] # <<>>
    BY <1>6, <1>10
  <2>4. Open' = {p}
    BY <1>8, <2>2, <2>3 DEF Open
  <2>5. Full' = P
    BY <1>8, <2>2, <2>3, <1>1, <1>2 DEF Full
  <2>6. Full = P
    BY <1>2, <2>1 DEF Full
  <2> QED BY <2>4, <2>5, <2>6
<1>15. AllFiled'
  <2>1. Filed(0, availablePages, {}, nextPage, prevPage)
    BY NoneFiled
  <2>2. PICK nx, pv : nx = nextPage' /\ pv = prevPage'
    OBVIOUS
  <2>3. \A q \in {} \cup {p} : nx[q] = p /\ pv[q] = p
    BY <1>10, <2>2
  <2>4. Filed(1, p, {p}, nx, pv)
    <3>1. PICK z, K, first : z = 0 /\ K = {} /\ first = availablePages
      OBVIOUS
    <3>2. Filed(z, first, K, nextPage, prevPage) /\ p \notin K
      BY <2>1, <3>1
    <3>3. ComesLast(p, z, first, K, nextPage, prevPage, nx, pv)
      BY <2>3, <3>1 DEF ComesLast
    <3>4. Filed(z + 1, IF z = 0 THEN p ELSE first, K \cup {p}, nx, pv)
      BY <3>2, <3>3, Comes
    <3>5. z + 1 = 1 /\ (IF z = 0 THEN p ELSE first) = p /\ K \cup {p} = {p}
      BY <3>1
    <3> QED BY <3>4, <3>5
  <2>5. Filed(unavailablePagesSize, unavailablePages, Full, nx, pv)
    <3>1. \A q \in Full : nx[q] = nextPage[q] /\ pv[q] = prevPage[q]
      BY <1>2, <1>9, <2>2 DEF Full
    <3>2. Filed(unavailablePagesSize, unavailablePages, Full, nextPage, prevPage)
      BY DEF PagesInv, AllFiled
    <3> QED BY <3>1, <3>2, Apart
  <2> QED BY <1>1, <1>14, <2>2, <2>4, <2>5 DEF AllFiled
<1>16. FewUnused'
  <2>1. Unused = {}
    BY <1>13, Facts
  <2>2. \A q \in P : Len(availableStack[q]) # n
    BY <1>1, <1>2, <2>1 DEF Unused
  <2>4. \A q \in P \cup {p} : Len(availableStack'[q]) # n
    BY <1>6, <1>9, <1>10, <2>2
  <2>3. Unused' = {}
    BY <1>1, <1>8, <2>4 DEF Unused
  <2> QED BY <2>3, FS_EmptySet DEF FewUnused, PoolConstants
<1>17. <<p, n>> \notin inUse
  BY <1>3, <1>4
<1> QED BY <1>1, <1>11, <1>12, <1>15, <1>16, <1>17 DEF PagesInv

\* Where no page becomes unused there are still few.
LEMMA NoMoreUnused ==
  ASSUME PoolConstants, PagesInv, Unused' \in SUBSET Unused
  PROVE  FewUnused'
<1>1. IsFiniteSet(Unused) /\ Cardinality(Unused) \in Nat
  BY Facts, FS_CardinalityType
<1>2. IsFiniteSet(Unused') /\ Cardinality(Unused') \in Nat
  BY <1>1, FS_Subset, FS_CardinalityType
<1>3. Cardinality(Unused') <= Cardinality(Unused)
  BY <1>1, FS_Subset
<1> QED BY <1>1, <1>2, <1>3 DEF PagesInv, FewUnused, PoolConstants

\* The stack of a page, when one of its blocks in use is given back.
Returned(p, b) ==
  LET s == availableStack[p]
      t == PushedOn(s, b)
  IN /\ p \in Blocks!Allocated /\ b \in 1 .. blocksPerPage
     /\ s \in Seq(1 .. blocksPerPage) /\ Len(s) \in Nat
     /\ t \in Seq(1 .. blocksPerPage) /\ Len(t) = Len(s) + 1
     /\ Stacked(t, p, blocksPerPage, inUse \ {<<p, b>>})

LEMMA Pushed ==
  ASSUME PoolConstants, PagesInv, NEW p, NEW b, <<p, b>> \in inUse
  PROVE  Returned(p, b)
<1> PICK s, t : s = availableStack[p] /\ t = PushedOn(s, b)
  OBVIOUS
<1>1. p \in Blocks!Allocated /\ b \in 1 .. blocksPerPage
  BY DEF PagesInv, PageTypes
<1>2. PICK n, used : n = blocksPerPage /\ used = inUse
  OBVIOUS
<1>3. /\ n \in Nat /\ s \in Seq(1 .. n) /\ Stacked(s, p, n, used)
      /\ b \in 1 .. n /\ <<p, b>> \in used
  BY <1>1, <1>2, Facts
<1>4. /\ t \in Seq(1 .. n) /\ Len(t) = Len(s) + 1
      /\ Stacked(t, p, n, used \ {<<p, b>>})
  <2>1. /\ PushedOn(s, b) \in Seq(1 .. n) /\ Len(PushedOn(s, b)) = Len(s) + 1
        /\ Stacked(PushedOn(s, b), p, n, used \ {<<p, b>>})
    BY <1>3, StackPushes
  <2> QED BY <2>1
<1>5. Len(s) \in Nat
  BY <1>3, LenProperties
<1> QED BY <1>1, <1>2, <1>3, <1>4, <1>5 DEF Returned

LEMMA ReleaseToFullKeeps ==
  ASSUME PoolConstants, PagesInv, NEW p, NEW b, Blocks!ReleaseToFull(p, b)
  PROVE  PagesInv' /\ <<p, b>> \in inUse /\ inUse' = inUse \ {<<p, b>>}
<1>1. PICK s, t, links :
        /\ <<p, b>> \in inUse
        /\ s = availableStack[p] /\ s = <<>> /\ t = <<b>>
        /\ links = Blocks!Linked(Blocks!Unlinked(p), p, availablePages,
                                 availablePagesSize)
        /\ inUse' = inUse \ {<<p, b>>}
        /\ availableStack' = [availableStack EXCEPT ![p] = t]
        /\ unavailablePagesSize' = unavailablePagesSize - 1
        /\ unavailablePages' =
             IF unavailablePagesSize > 1 /\ p = unavailablePages
               THEN nextPage[p] ELSE unavailablePages
        /\ availablePages' = IF availablePagesSize = 0 THEN p ELSE availablePages
        /\ availablePagesSize' = availablePagesSize + 1
        /\ nextPage' = links.next /\ prevPage' = links.prev
        /\ UNCHANGED <<blocks, blocksPerPage>>
  BY DEF Blocks!ReleaseToFull
<1>2. t = PushedOn(s, b)
  BY <1>1 DEF PushedOn
<1>3. /\ p \in Blocks!Allocated /\ b \in 1 .. blocksPerPage
      /\ s \in Seq(1 .. blocksPerPage)
      /\ t \in Seq(1 .. blocksPerPage) /\ Len(t) = Len(s) + 1
      /\ Stacked(t, p, blocksPerPage, inUse \ {<<p, b>>})
  <2>1. <<p, b>> \in inUse /\ s = availableStack[p] /\ t = PushedOn(s, b)
    BY <1>1, <1>2
  <2>2. Returned(p, b)
    BY <2>1, Pushed
  <2> QED BY <2>1, <2>2 DEF Returned
<1>4. Len(t) = 1 /\ t # <<>>
  BY <1>1, <1>3
<1>5. /\ Blocks!Allocated' = Blocks!Allocated
      /\ availableStack' \in [Blocks!Allocated -> Seq(1 .. blocksPerPage)]
      /\ \A q \in Blocks!Allocated :
           availableStack'[q] = IF q = p THEN t ELSE availableStack[q]
  BY <1>1, <1>3 DEF Blocks!Allocated, PagesInv, PageTypes
<1>6. AllStacked'
  <2> SUFFICES ASSUME NEW q \in Blocks!Allocated
               PROVE  Stacked(availableStack'[q], q, blocksPerPage, inUse')
    BY <1>1, <1>5 DEF AllStacked
  <2>1. CASE q = p
    BY <1>1, <1>3, <1>5, <2>1
  <2>2. CASE q # p
    <3>1. Stacked(availableStack[q], q, blocksPerPage, inUse)
      BY Facts
    <3> QED BY <1>1, <1>5, <2>2, <3>1, StackedApart
  <2> QED BY <2>1, <2>2
<1>7. FewUnused'
  <2>1. blocksPerPage \in Nat /\ blocksPerPage > 1
    BY Facts
  <2>2. Unused' \in SUBSET Unused
    BY <1>1, <1>4, <1>5, <2>1 DEF Unused
  <2> QED BY <2>2, NoMoreUnused
<1>8. Open' = Open \cup {p} /\ Full' = Full \ {p} /\ p \in Full
  <2>1. \A q \in Blocks!Allocated :
          availableStack'[q] = <<>> <=> q # p /\ availableStack[q] = <<>>
    BY <1>4, <1>5
  <2>2. Open' = {q \in Blocks!Allocated : ~ (q # p /\ availableStack[q] = <<>>)}
    BY <1>5, <2>1 DEF Open
  <2>3. Full' = {q \in Blocks!Allocated : q # p /\ availableStack[q] = <<>>}
    BY <1>5, <2>1 DEF Full
  <2>4. p \in Full
    BY <1>1, <1>3 DEF Full
  <2>5. Open' = Open \cup {p}
    BY <1>3, <2>2 DEF Open
  <2>6. Full' = Full \ {p}
    BY <2>3 DEF Full
  <2> QED BY <2>4, <2>5, <2>6
<1>9. Moved(p, unavailablePagesSize, unavailablePages', Full, availablePagesSize,
            availablePages, Open, Blocks!Allocated, links)
  <2>1. PICK K, L, S, n, first, m, start, first2 :
          /\ K = Full /\ L = Open /\ S = Blocks!Allocated
          /\ n = unavailablePagesSize /\ first = unavailablePages
          /\ m = availablePagesSize /\ start = availablePages
          /\ first2 = unavailablePages'
    OBVIOUS
  <2>2. /\ K \cap L = {} /\ S = K \cup L
        /\ nextPage \in [S -> S] /\ prevPage \in [S -> S]
        /\ Filed(n, first, K, nextPage, prevPage)
        /\ Filed(m, start, L, nextPage, prevPage)
    BY <2>1, Facts DEF PagesInv, PageTypes, AllFiled
  <2>3. /\ links = Blocks!Linked(Blocks!Unlinked(p), p, start, m)
        /\ p \in K
        /\ n > 1 => first2 = IF p = first THEN nextPage[p] ELSE first
    BY <1>1, <1>8, <2>1
  <2>4. Moved(p, n, first2, K, m, start, L, S, links)
    BY <2>2, <2>3, Changes
  <2> QED BY <2>1, <2>4
<1>10. AllFiled'
  BY <1>1, <1>8, <1>9 DEF Moved, AllFiled
<1>11. PageTypes'
  <2>1. inUse' \in SUBSET (Blocks!Allocated \X (1 .. blocksPerPage))
    BY <1>1 DEF PagesInv, PageTypes
  <2>2. /\ nextPage' \in [Blocks!Allocated -> Blocks!Allocated]
        /\ prevPage' \in [Blocks!Allocated -> Blocks!Allocated]
    BY <1>1, <1>9 DEF Moved
  <2>3. /\ availablePages \in Pages \cup {NoPage}
        /\ unavailablePages \in Pages \cup {NoPage}
        /\ p \in Pages /\ nextPage[p] \in Pages
    BY <1>3 DEF PagesInv, PageTypes
  <2>4. /\ availablePages' \in Pages \cup {NoPage}
        /\ unavailablePages' \in Pages \cup {NoPage}
    BY <1>1, <2>3
  <2>5. UNCHANGED <<blocks, blocksPerPage>>
    BY <1>1
  <2> QED BY <1>5, <2>1, <2>2, <2>4, <2>5, SamePages
<1> QED BY <1>1, <1>6, <1>7, <1>10, <1>11 DEF PagesInv

\* A page with all its blocks has none in use.
LEMMA NoneInUse ==
  ASSUME NEW n \in Nat, NEW t \in Seq(1 .. n), Len(t) = n, NEW p, NEW used,
         Stacked(t, p, n, used), NEW c \in 1 .. n
  PROVE  <<p, c>> \notin used
<1> SUFFICES ASSUME <<p, c>> \in used PROVE FALSE
  OBVIOUS
<1>1. t \in [1 .. n -> 1 .. n]
  BY LenProperties
<1>2. /\ \A i, j \in 1 .. n : t[i] = t[j] => i = j
      /\ \A i \in 1 .. n : t[i] # c
  BY DEF Stacked
<1>3. t \in [1 .. n -> (1 .. n) \ {c}]
  BY <1>1, <1>2
<1>4. t \in Injection(1 .. n, (1 .. n) \ {c})
  BY <1>2, <1>3 DEF Injection, IsInjective
<1>5. IsFiniteSet(1 .. n) /\ Cardinality(1 .. n) = n
  BY FS_Interval
<1>6. /\ IsFiniteSet((1 .. n) \ {c})
      /\ Cardinality((1 .. n) \ {c}) = n - 1
  BY <1>5, FS_RemoveElement
<1>7. n <= n - 1
  BY <1>4, <1>5, <1>6, FS_Injection
<1> QED BY <1>7

\* The links of a circle stay in it, and lead back.
LEMMA Links ==
  ASSUME NEW n, NEW first, NEW K, NEW nx, NEW pv, Filed(n, first, K, nx, pv),
         NEW p \in K
  PROVE  nx[p] \in K /\ pv[p] \in K /\ pv[nx[p]] = p
<1> PICK A \in [1 .. n -> K] : InCircle(A, n, first, K, nx, pv)
  BY DEF Filed
<1>1. PICK k \in 1 .. n : A[k] = p
  BY DEF InCircle
<1>2. n \in Nat /\ 1 \in 1 .. n /\ n \in 1 .. n
  BY <1>1 DEF Filed
<1>3. /\ k # n => k + 1 \in 1 .. n /\ k + 1 # 1 /\ (k + 1) - 1 = k
      /\ k # 1 => k - 1 \in 1 .. n
  BY <1>2
<1>4. /\ nx[A[k]] = IF k = n THEN A[1] ELSE A[k + 1]
      /\ pv[A[k]] = IF k = 1 THEN A[n] ELSE A[k - 1]
      /\ pv[A[1]] = A[n]
      /\ k # n => pv[A[k + 1]] = A[k]
  BY <1>2, <1>3 DEF InCircle
<1> QED BY <1>1, <1>2, <1>3, <1>4

\* A page that keeps the block it is given back.
LEMMA KeptReleaseKeeps ==
  ASSUME PoolConstants, PagesInv, NEW p, NEW b, Blocks!Release(p, b),
         ~ (Blocks!Complete(p) /\ Blocks!EnoughPages)
  PROVE  PagesInv' /\ <<p, b>> \in inUse /\ inUse' = inUse \ {<<p, b>>}
<1>1. PICK s, t :
        /\ <<p, b>> \in inUse
        /\ s = availableStack[p] /\ s # <<>> /\ t = PushedOn(s, b)
        /\ inUse' = inUse \ {<<p, b>>}
        /\ availableStack' = [availableStack EXCEPT ![p] = t]
        /\ UNCHANGED <<availablePages, availablePagesSize, unavailablePages,
                       unavailablePagesSize, nextPage, prevPage, blocks,
                       blocksPerPage>>
  BY DEF Blocks!Release, PushedOn
<1>2. Returned(p, b)
  BY <1>1, Pushed
<1>3. /\ p \in Blocks!Allocated /\ b \in 1 .. blocksPerPage
      /\ s \in Seq(1 .. blocksPerPage)
      /\ t \in Seq(1 .. blocksPerPage) /\ Len(t) = Len(s) + 1 /\ Len(s) \in Nat
      /\ Stacked(t, p, blocksPerPage, inUse \ {<<p, b>>})
  BY <1>1, <1>2 DEF Returned
<1>4. t # <<>>
  <2>1. Len(t) # 0
    BY <1>3
  <2> QED BY <2>1
<1>5. /\ Blocks!Allocated' = Blocks!Allocated
      /\ availableStack' \in [Blocks!Allocated -> Seq(1 .. blocksPerPage)]
      /\ \A q \in Blocks!Allocated :
           availableStack'[q] = IF q = p THEN t ELSE availableStack[q]
  BY <1>1, <1>3 DEF Blocks!Allocated, PagesInv, PageTypes
<1>6. AllStacked'
  <2> SUFFICES ASSUME NEW q \in Blocks!Allocated
               PROVE  Stacked(availableStack'[q], q, blocksPerPage, inUse')
    BY <1>1, <1>5 DEF AllStacked
  <2>1. CASE q = p
    BY <1>1, <1>3, <1>5, <2>1
  <2>2. CASE q # p
    <3>1. Stacked(availableStack[q], q, blocksPerPage, inUse)
      BY Facts
    <3> QED BY <1>1, <1>5, <2>2, <3>1, StackedApart
  <2> QED BY <2>1, <2>2
<1>7. Open' = Open /\ Full' = Full
  <2>1. \A q \in Blocks!Allocated : availableStack'[q] = <<>> <=> availableStack[q] = <<>>
    BY <1>1, <1>4, <1>5
  <2> QED BY <1>5, <2>1 DEF Open, Full
<1>8. AllFiled'
  BY <1>1, <1>7 DEF AllFiled, PagesInv
<1>9. PageTypes'
  <2>1. inUse' \in SUBSET (Blocks!Allocated \X (1 .. blocksPerPage))
    BY <1>1 DEF PagesInv, PageTypes
  <2>2. /\ availablePages' \in Pages \cup {NoPage}
        /\ unavailablePages' \in Pages \cup {NoPage}
        /\ nextPage' \in [Blocks!Allocated -> Blocks!Allocated]
        /\ prevPage' \in [Blocks!Allocated -> Blocks!Allocated]
    BY <1>1 DEF PagesInv, PageTypes
  <2>3. UNCHANGED <<blocks, blocksPerPage>>
    BY <1>1
  <2> QED BY <1>5, <2>1, <2>2, <2>3, SamePages
<1>10. FewUnused'
  <2>1. CASE Blocks!Complete(p)
    <3>1. /\ availablePagesSize < DS_MEMORY_POOL_MAX_FREE_PAGES
          /\ availablePagesSize \in Nat
      <4>1. Filed(availablePagesSize, availablePages, Open, nextPage, prevPage)
        BY DEF PagesInv, AllFiled
      <4>2. availablePagesSize \in Nat
        BY <4>1 DEF Filed
      <4> QED BY <2>1, <4>2 DEF Blocks!EnoughPages, PoolConstants
    <3>2. IsFiniteSet(Open) /\ Cardinality(Open) = availablePagesSize
      BY Counted DEF PagesInv, AllFiled
    <3>3. \A q \in Blocks!Allocated : Len(availableStack'[q]) = blocksPerPage => q \in Open
      <4> SUFFICES ASSUME NEW q \in Blocks!Allocated,
                          Len(availableStack'[q]) = blocksPerPage
                   PROVE  q \in Open
        OBVIOUS
      <4>1. CASE q = p
        BY <1>1, <1>3, <4>1 DEF Open
      <4>2. CASE q # p
        <5>1. q \in Unused
          BY <1>5, <4>2 DEF Unused
        <5> QED BY <5>1, Facts
      <4> QED BY <4>1, <4>2
    <3>4. Unused' \in SUBSET Open
      BY <1>1, <1>5, <3>3 DEF Unused
    <3>5. /\ IsFiniteSet(Unused')
          /\ Cardinality(Unused') <= Cardinality(Open)
      BY <3>2, <3>4, FS_Subset
    <3>6. Cardinality(Unused') \in Nat
      BY <3>5, FS_CardinalityType
    <3> QED BY <3>1, <3>2, <3>5, <3>6 DEF FewUnused, PoolConstants
  <2>2. CASE ~ Blocks!Complete(p)
    <3>1. Len(t) # blocksPerPage
      BY <1>1, <1>3, <2>2 DEF Blocks!Complete
    <3>2. \A q \in Blocks!Allocated :
            Len(availableStack'[q]) = blocksPerPage => Len(availableStack[q]) = blocksPerPage
      BY <1>5, <3>1
    <3>3. Unused' \in SUBSET Unused
      BY <1>1, <1>5, <3>2 DEF Unused
    <3> QED BY <3>3, NoMoreUnused
  <2> QED BY <2>1, <2>2
<1> QED BY <1>1, <1>6, <1>8, <1>9, <1>10 DEF PagesInv

\* A page that is freed.
LEMMA FreeingReleaseKeeps ==
  ASSUME PoolConstants, PagesInv, NEW p, NEW b, Blocks!Release(p, b),
         Blocks!Complete(p) /\ Blocks!EnoughPages
  PROVE  PagesInv' /\ <<p, b>> \in inUse /\ inUse' = inUse \ {<<p, b>>}
<1>1. PICK s, t, nx, pv, S, n :
        /\ <<p, b>> \in inUse
        /\ s = availableStack[p] /\ s # <<>> /\ t = PushedOn(s, b)
        /\ S = Blocks!Allocated /\ n = blocksPerPage
        /\ Len(s) + 1 = n
        /\ nx = [nextPage EXCEPT ![prevPage[p]] = nextPage[p]]
        /\ pv = [prevPage EXCEPT ![nextPage[p]] = prevPage[p]]
        /\ inUse' = inUse \ {<<p, b>>}
        /\ availablePages' = IF p = availablePages THEN nextPage[p] ELSE availablePages
        /\ availablePagesSize' = availablePagesSize - 1
        /\ nextPage' = Blocks!Without(nx, p)
        /\ prevPage' = Blocks!Without(pv, p)
        /\ availableStack' = Blocks!Without(availableStack, p)
        /\ blocks' = Blocks!Without(blocks, p)
        /\ UNCHANGED <<unavailablePages, unavailablePagesSize, blocksPerPage>>
  <2>1. /\ Blocks!Unlinked(p).next = [nextPage EXCEPT ![prevPage[p]] = nextPage[p]]
        /\ Blocks!Unlinked(p).prev = [prevPage EXCEPT ![nextPage[p]] = prevPage[p]]
    BY DEF Blocks!Unlinked
  <2>2. PICK nx, pv : /\ nx = Blocks!Unlinked(p).next /\ pv = Blocks!Unlinked(p).prev
    OBVIOUS
  <2>3. /\ nextPage' = Blocks!Without(nx, p) /\ prevPage' = Blocks!Without(pv, p)
        /\ nx = [nextPage EXCEPT ![prevPage[p]] = nextPage[p]]
        /\ pv = [prevPage EXCEPT ![nextPage[p]] = prevPage[p]]
    BY <2>1, <2>2 DEF Blocks!Release, Blocks!LinksWithout
  <2>4. /\ <<p, b>> \in inUse
        /\ availableStack[p] # <<>> /\ Len(availableStack[p]) + 1 = blocksPerPage
        /\ inUse' = inUse \ {<<p, b>>}
        /\ availablePages' = IF p = availablePages THEN nextPage[p] ELSE availablePages
        /\ availablePagesSize' = availablePagesSize - 1
        /\ availableStack' = Blocks!Without(availableStack, p)
        /\ blocks' = Blocks!Without(blocks, p)
        /\ UNCHANGED <<unavailablePages, unavailablePagesSize, blocksPerPage>>
    BY DEF Blocks!Release, Blocks!Complete, Blocks!AvailablePagesWithout
  <2> QED BY <2>3, <2>4
<1>2. Returned(p, b)
  BY <1>1, Pushed
<1>3. /\ p \in S /\ b \in 1 .. n
      /\ t \in Seq(1 .. n) /\ Len(t) = n
      /\ Stacked(t, p, n, inUse \ {<<p, b>>})
  BY <1>1, <1>2 DEF Returned
<1>4. /\ n \in Nat /\ n \in PageSizes
      /\ S \in SUBSET Pages
      /\ blocks \in [S -> {n}]
      /\ availableStack \in [S -> Seq(1 .. n)]
      /\ nextPage \in [S -> S] /\ prevPage \in [S -> S]
      /\ availablePages \in Pages \cup {NoPage}
      /\ unavailablePages \in Pages \cup {NoPage}
      /\ inUse \in SUBSET (S \X (1 .. n))
  BY <1>1, Facts DEF PagesInv, PageTypes
<1>5. \A c \in 1 .. n : <<p, c>> \notin inUse \ {<<p, b>>}
  <2>1. PICK used : used = inUse \ {<<p, b>>}
    OBVIOUS
  <2>2. Stacked(t, p, n, used)
    BY <1>3, <2>1
  <2>3. \A c \in 1 .. n : <<p, c>> \notin used
    BY <1>3, <1>4, <2>2, NoneInUse
  <2> QED BY <2>1, <2>3
<1>6. inUse' \in SUBSET ((S \ {p}) \X (1 .. n))
  BY <1>1, <1>4, <1>5
<1>7. /\ blocks' \in [S \ {p} -> {n}] /\ Blocks!Allocated' = S \ {p}
      /\ availableStack' \in [S \ {p} -> Seq(1 .. n)]
      /\ \A q \in S \ {p} : availableStack'[q] = availableStack[q]
  BY <1>1, <1>4 DEF Blocks!Allocated, Blocks!Without
<1>8. /\ DOMAIN nx = S /\ DOMAIN pv = S
      /\ \A q \in S : /\ nx[q] = IF q = prevPage[p] THEN nextPage[p] ELSE nextPage[q]
                      /\ pv[q] = IF q = nextPage[p] THEN prevPage[p] ELSE prevPage[q]
  BY <1>1, <1>3, <1>4
<1>9. /\ DOMAIN nextPage' = S \ {p} /\ DOMAIN prevPage' = S \ {p}
      /\ nextPage' = [x \in S \ {p} |-> nextPage'[x]]
      /\ prevPage' = [x \in S \ {p} |-> prevPage'[x]]
      /\ \A q \in S \ {p} :
           /\ nextPage'[q] = IF q = prevPage[p] THEN nextPage[p] ELSE nextPage[q]
           /\ prevPage'[q] = IF q = nextPage[p] THEN prevPage[p] ELSE prevPage[q]
  BY <1>1, <1>8 DEF Blocks!Without
<1>10. /\ p \in Open /\ S = Open \cup Full /\ Open \cap Full = {}
       /\ Open' = Open \ {p} /\ Full' = Full
  <2>1. p \in Open
    BY <1>1, <1>3 DEF Open
  <2>2. S = Open \cup Full /\ Open \cap Full = {}
    BY <1>1, Facts
  <2>3. Open' = Open \ {p}
    BY <1>1, <1>7 DEF Open
  <2>4. Full' = Full
    BY <1>1, <1>7 DEF Full
  <2> QED BY <2>1, <2>2, <2>3, <2>4
<1>11. PICK nx2, pv2 : nx2 = nextPage' /\ pv2 = prevPage'
  OBVIOUS
<1>12. /\ Filed(availablePagesSize, availablePages, Open, nextPage, prevPage)
       /\ Filed(unavailablePagesSize, unavailablePages, Full, nextPage, prevPage)
  BY DEF PagesInv, AllFiled
<1>13. /\ Filed(availablePagesSize - 1, availablePages', Open \ {p}, nx2, pv2)
       /\ nextPage[p] \in Open /\ prevPage[p] \in Open
  <2>1. Filed(availablePagesSize - 1, availablePages', Open \ {p}, nx, pv)
        /\ nextPage[p] \in Open /\ prevPage[p] \in Open
    <3>1. PICK m, first, K, first2 :
            /\ m = availablePagesSize /\ first = availablePages /\ K = Open
            /\ first2 = availablePages'
      OBVIOUS
    <3>2. /\ Filed(m, first, K, nextPage, prevPage) /\ p \in K
          /\ m > 1 => first2 = IF p = first THEN nextPage[p] ELSE first
      BY <1>1, <1>10, <1>12, <3>1
    <3>3. Bridged(p, K, nextPage, prevPage, nx, pv)
      BY <1>8, <1>10, <3>1 DEF Bridged
    <3>4. /\ Filed(m - 1, first2, K \ {p}, nx, pv)
          /\ nextPage[p] \in K /\ prevPage[p] \in K
      BY <3>2, <3>3, Goes
    <3> QED BY <3>1, <3>4
  <2>2. \A q \in Open \ {p} : nx2[q] = nx[q] /\ pv2[q] = pv[q]
    BY <1>8, <1>9, <1>10, <1>11
  <2> QED BY <2>1, <2>2, Apart
<1>14. Filed(unavailablePagesSize, unavailablePages, Full, nx2, pv2)
  <2>1. \A q \in Full : nx2[q] = nextPage[q] /\ pv2[q] = prevPage[q]
    BY <1>9, <1>10, <1>11, <1>13
  <2> QED BY <1>12, <2>1, Apart
<1>15. AllFiled'
  BY <1>1, <1>10, <1>11, <1>13, <1>14 DEF AllFiled
<1>16. nextPage' \in [S \ {p} -> S \ {p}] /\ prevPage' \in [S \ {p} -> S \ {p}]
  <2>1. ASSUME NEW q \in S \ {p}
        PROVE  nx2[q] \in S \ {p} /\ pv2[q] \in S \ {p}
    <3>1. CASE q \in Open
      <4>1. q \in Open \ {p}
        BY <3>1
      <4>2. nx2[q] \in Open \ {p} /\ pv2[q] \in Open \ {p}
        BY <1>13, <4>1, Links
      <4> QED BY <1>10, <4>2
    <3>2. CASE q \in Full
      <4>1. nx2[q] \in Full /\ pv2[q] \in Full
        BY <1>14, <3>2, Links
      <4> QED BY <1>10, <4>1
    <3> QED BY <1>10, <3>1, <3>2
  <2> QED BY <1>9, <1>11, <2>1
<1>17. PageTypes'
  <2>1. S \ {p} \in SUBSET Pages /\ blocksPerPage' = n /\ n \in PageSizes
    BY <1>1, <1>4
  <2>2. /\ availablePages' \in Pages \cup {NoPage}
        /\ unavailablePages' \in Pages \cup {NoPage}
    <3>1. nextPage[p] \in Pages
      BY <1>3, <1>4
    <3> QED BY <1>1, <1>4, <3>1
  <2> QED BY <1>6, <1>7, <1>16, <2>1, <2>2 DEF PageTypes
<1>18. AllStacked'
  <2> SUFFICES ASSUME NEW q \in S \ {p}
               PROVE  Stacked(availableStack[q], q, n, inUse \ {<<p, b>>})
    BY <1>1, <1>7 DEF AllStacked
  <2>1. Stacked(availableStack[q], q, n, inUse)
    BY <1>1, Facts
  <2> QED BY <2>1, StackedApart
<1>19. FewUnused'
  <2>1. Unused' \in SUBSET Unused
    BY <1>1, <1>7 DEF Unused
  <2> QED BY <2>1, NoMoreUnused
<1> QED BY <1>1, <1>15, <1>17, <1>18, <1>19 DEF PagesInv

\* A block is given back to its page.
LEMMA ReleaseKeeps ==
  ASSUME PoolConstants, PagesInv, NEW u \in inUse, Blocks!PoolRelease(u)
  PROVE  PagesInv' /\ inUse' = inUse \ {u}
<1>1. PICK p, b : p = u[1] /\ b = u[2]
  OBVIOUS
<1>2. u = <<p, b>>
  BY <1>1 DEF PagesInv, PageTypes
<1>3. PagesInv' /\ inUse' = inUse \ {<<p, b>>}
  BY <1>1, ReleaseToFullKeeps, KeptReleaseKeeps, FreeingReleaseKeeps DEF Blocks!PoolRelease
<1> QED BY <1>2, <1>3

LEMMA SetPageSizeKeeps ==
  ASSUME PoolConstants, PagesInv, NEW n \in PageSizes, Blocks!SetPageSize(n)
  PROVE  PagesInv' /\ inUse' = inUse
<1>1. /\ Blocks!Allocated = {} /\ blocksPerPage' = n
      /\ UNCHANGED <<availableStack, blocks, nextPage, prevPage, availablePages,
                     unavailablePages, availablePagesSize, unavailablePagesSize, inUse>>
  BY DEF Blocks!SetPageSize, Blocks!page, Blocks!lists
<1>2. Blocks!Allocated' = {} /\ Open' = Open /\ Full' = Full
  BY <1>1 DEF Blocks!Allocated, Open, Full
<1>3. /\ inUse = {}
      /\ availableStack \in [{} -> Seq(1 .. n)] /\ blocks \in [{} -> {n}]
      /\ nextPage \in [{} -> {}] /\ prevPage \in [{} -> {}]
      /\ availablePages \in Pages \cup {NoPage}
      /\ unavailablePages \in Pages \cup {NoPage}
  <2>1. /\ DOMAIN availableStack = {} /\ DOMAIN blocks = {}
        /\ availableStack = [x \in {} |-> availableStack[x]]
        /\ blocks = [x \in {} |-> blocks[x]]
    BY <1>1 DEF PagesInv, PageTypes
  <2>2. inUse = {}
    BY <1>1 DEF PagesInv, PageTypes
  <2> QED BY <1>1, <2>1, <2>2 DEF PagesInv, PageTypes
<1>4. PageTypes'
  BY <1>1, <1>2, <1>3 DEF PageTypes
<1>5. AllStacked'
  BY <1>2 DEF AllStacked
<1>6. AllFiled'
  BY <1>1, <1>2 DEF AllFiled, PagesInv
<1>7. FewUnused'
  <2>1. Unused' = {}
    BY <1>2 DEF Unused
  <2> QED BY <2>1, FS_EmptySet DEF FewUnused, PoolConstants
<1> QED BY <1>1, <1>4, <1>5, <1>6, <1>7 DEF PagesInv

LEMMA ClearKeeps ==
  ASSUME PoolConstants, PagesInv, Blocks!Clear
  PROVE  PagesInv' /\ inUse' = inUse
<1>1. /\ inUse = {} /\ inUse' = {}
      /\ availableStack' = Blocks!Nothing /\ blocks' = Blocks!Nothing
      /\ nextPage' = Blocks!Nothing /\ prevPage' = Blocks!Nothing
      /\ availablePagesSize' = 0 /\ unavailablePagesSize' = 0
      /\ UNCHANGED <<availablePages, unavailablePages, blocksPerPage>>
  BY DEF Blocks!Clear
<1>2. Blocks!Allocated' = {} /\ Open' = {} /\ Full' = {} /\ Unused' = {}
  BY <1>1 DEF Blocks!Nothing, Blocks!Allocated, Open, Full, Unused
<1>3. /\ availablePages \in Pages \cup {NoPage}
      /\ unavailablePages \in Pages \cup {NoPage}
      /\ blocksPerPage \in PageSizes
  BY DEF PagesInv, PageTypes
<1>4. PageTypes'
  BY <1>1, <1>2, <1>3 DEF PageTypes, Blocks!Nothing
<1>5. AllStacked'
  BY <1>2 DEF AllStacked
<1>6. AllFiled'
  <2>1. PICK nx, pv : nx = nextPage' /\ pv = prevPage'
    OBVIOUS
  <2>2. Filed(0, availablePages, {}, nx, pv) /\ Filed(0, unavailablePages, {}, nx, pv)
    BY NoneFiled
  <2> QED BY <1>1, <1>2, <2>1, <2>2 DEF AllFiled
<1>7. FewUnused'
  BY <1>2, FS_EmptySet DEF FewUnused, PoolConstants
<1> QED BY <1>1, <1>4, <1>5, <1>6, <1>7 DEF PagesInv

-------------------------------------------------------------------------------
(* The blocks that are passed on.                                          *)

\* A block in use U is in the queue q or in the hand of one of h, once.
Placed(q, h, U) ==
  /\ q \in Seq(U)
  /\ h \in [Threads -> U \cup {NoBlock}]
  /\ \A i, j \in 1 .. Len(q) : q[i] = q[j] => i = j
  /\ \A t, u \in Threads : h[t] = h[u] /\ h[t] # NoBlock => t = u
  /\ \A t \in Threads : \A i \in 1 .. Len(q) : q[i] # h[t]
  /\ \A u \in U : (\E i \in 1 .. Len(q) : q[i] = u) \/ \E t \in Threads : h[t] = u
  /\ NoBlock \notin U

\* A block that was not in use comes into an empty hand.
LEMMA PlacedGiven ==
  ASSUME NEW q, NEW h, NEW U, Placed(q, h, U),
         NEW t \in Threads, h[t] = NoBlock, NEW u, u \notin U, u # NoBlock
  PROVE  Placed(q, [h EXCEPT ![t] = u], U \cup {u})
<1> PICK g : g = [h EXCEPT ![t] = u]
  OBVIOUS
<1>1. /\ q \in Seq(U) /\ Len(q) \in Nat /\ \A i \in 1 .. Len(q) : q[i] \in U
      /\ h \in [Threads -> U \cup {NoBlock}] /\ NoBlock \notin U
  BY LenProperties, ElementOfSeq DEF Placed
<1>2. q \in Seq(U \cup {u})
  BY <1>1, SeqMonotonic
<1>3. /\ g \in [Threads -> U \cup {u} \cup {NoBlock}]
      /\ \A s \in Threads : g[s] = IF s = t THEN u ELSE h[s]
  BY <1>1
<1>4. \A r, s \in Threads : g[r] = g[s] /\ g[r] # NoBlock => r = s
  BY <1>1, <1>3 DEF Placed
<1>5. \A s \in Threads : \A i \in 1 .. Len(q) : q[i] # g[s]
  BY <1>1, <1>3 DEF Placed
<1>6. \A v \in U \cup {u} :
        (\E i \in 1 .. Len(q) : q[i] = v) \/ \E s \in Threads : g[s] = v
  <2>1. g[t] = u
    BY <1>3
  <2>2. \A v \in U : \A s \in Threads : h[s] = v => g[s] = v
    BY <1>1, <1>3
  <2> QED BY <2>1, <2>2 DEF Placed
<1>7. \A i, j \in 1 .. Len(q) : q[i] = q[j] => i = j
  BY DEF Placed
<1> QED BY <1>1, <1>2, <1>3, <1>4, <1>5, <1>6, <1>7 DEF Placed

\* A block in a hand is given back.
LEMMA PlacedBack ==
  ASSUME NEW q, NEW h, NEW U, Placed(q, h, U), NEW t \in Threads, h[t] # NoBlock
  PROVE  h[t] \in U /\ Placed(q, [h EXCEPT ![t] = NoBlock], U \ {h[t]})
<1> PICK g, u : g = [h EXCEPT ![t] = NoBlock] /\ u = h[t]
  OBVIOUS
<1>1. /\ q \in Seq(U) /\ Len(q) \in Nat
      /\ q \in [1 .. Len(q) -> U]
      /\ h \in [Threads -> U \cup {NoBlock}] /\ NoBlock \notin U
  BY LenProperties DEF Placed
<1>2. u \in U /\ \A i \in 1 .. Len(q) : q[i] \in U \ {u}
  BY <1>1 DEF Placed
<1>3. q \in Seq(U \ {u})
  <2>1. q \in [1 .. Len(q) -> U \ {u}]
    BY <1>1, <1>2
  <2> QED BY <1>1, <2>1, SeqDef
<1>4. \A s \in Threads : g[s] = IF s = t THEN NoBlock ELSE h[s]
  BY <1>1
<1>5. \A s \in Threads : s # t => h[s] # u
  BY DEF Placed
<1>6. g \in [Threads -> (U \ {u}) \cup {NoBlock}]
  BY <1>1, <1>4, <1>5
<1>7. \A r, s \in Threads : g[r] = g[s] /\ g[r] # NoBlock => r = s
  BY <1>4 DEF Placed
<1>8. \A s \in Threads : \A i \in 1 .. Len(q) : q[i] # g[s]
  BY <1>1, <1>2, <1>4 DEF Placed
<1>9. \A v \in U \ {u} :
        (\E i \in 1 .. Len(q) : q[i] = v) \/ \E s \in Threads : g[s] = v
  BY <1>4 DEF Placed
<1>10. \A i, j \in 1 .. Len(q) : q[i] = q[j] => i = j
  BY DEF Placed
<1>11. Placed(q, g, U \ {u})
  BY <1>1, <1>3, <1>6, <1>7, <1>8, <1>9, <1>10 DEF Placed
<1> QED BY <1>2, <1>11

\* A block in a hand comes to the end of the queue.
LEMMA PlacedLast ==
  ASSUME NEW q, NEW h, NEW U, Placed(q, h, U), NEW t \in Threads, h[t] # NoBlock
  PROVE  Placed(PushedOn(q, h[t]), [h EXCEPT ![t] = NoBlock], U)
<1> PICK g, u, r :
      /\ g = [h EXCEPT ![t] = NoBlock] /\ u = h[t] /\ r = PushedOn(q, h[t])
  OBVIOUS
<1>1. /\ q \in Seq(U) /\ Len(q) \in Nat /\ \A i \in 1 .. Len(q) : q[i] \in U
      /\ h \in [Threads -> U \cup {NoBlock}] /\ NoBlock \notin U
      /\ u \in U /\ u # NoBlock
  BY LenProperties, ElementOfSeq DEF Placed
<1>2. /\ r \in Seq(U) /\ Len(r) = Len(q) + 1 /\ r[Len(q) + 1] = u
      /\ \A i \in 1 .. Len(q) : r[i] = q[i]
  BY <1>1, AppendProperties DEF PushedOn
<1>3. \A i \in 1 .. Len(r) : i = Len(q) + 1 \/ i \in 1 .. Len(q)
  BY <1>1, <1>2
<1>4. \A s \in Threads : g[s] = IF s = t THEN NoBlock ELSE h[s]
  BY <1>1
<1>5. g \in [Threads -> U \cup {NoBlock}]
  BY <1>1
<1>6. \A i \in 1 .. Len(q) : q[i] # u
  BY DEF Placed
<1>7. \A i, j \in 1 .. Len(r) : r[i] = r[j] => i = j
  BY <1>2, <1>3, <1>6 DEF Placed
<1>8. \A s \in Threads : \A i \in 1 .. Len(r) : r[i] # g[s]
  <2> SUFFICES ASSUME NEW s \in Threads, NEW i \in 1 .. Len(r), r[i] = g[s]
               PROVE  FALSE
    OBVIOUS
  <2>1. r[i] # NoBlock
    BY <1>1, <1>2, <1>3
  <2>2. s # t /\ g[s] = h[s]
    BY <1>4, <2>1
  <2>3. CASE i = Len(q) + 1
    BY <1>2, <2>1, <2>2, <2>3 DEF Placed
  <2>4. CASE i \in 1 .. Len(q)
    BY <1>2, <2>2, <2>4 DEF Placed
  <2> QED BY <1>3, <2>3, <2>4
<1>9. \A r1, s \in Threads : g[r1] = g[s] /\ g[r1] # NoBlock => r1 = s
  BY <1>4 DEF Placed
<1>10. ASSUME NEW v \in U
       PROVE  (\E i \in 1 .. Len(r) : r[i] = v) \/ \E s \in Threads : g[s] = v
  <2>1. CASE v = u
    <3>1. Len(q) + 1 \in 1 .. Len(r)
      BY <1>1, <1>2
    <3> QED BY <1>2, <2>1, <3>1
  <2>2. CASE \E i \in 1 .. Len(q) : q[i] = v
    <3>1. \A i \in 1 .. Len(q) : i \in 1 .. Len(r)
      BY <1>1, <1>2
    <3> QED BY <1>2, <2>2, <3>1
  <2>3. CASE v # u /\ \E s \in Threads : h[s] = v
    BY <1>4, <2>3
  <2> QED BY <2>1, <2>2, <2>3 DEF Placed
<1> QED BY <1>1, <1>2, <1>5, <1>7, <1>8, <1>9, <1>10 DEF Placed

\* What is left of the queue q without its ith element.
Shorter(q, i, r) ==
  /\ i \in 1 .. Len(q) /\ Len(r) = Len(q) - 1
  /\ \A j \in 1 .. Len(q) - 1 : r[j] = IF j < i THEN q[j] ELSE q[j + 1]

Apiece(q) == \A j, k \in 1 .. Len(q) : q[j] = q[k] => j = k

OneLess(q, i, r) ==
  /\ Apiece(r)
  /\ \A j \in 1 .. Len(r) : \E k \in 1 .. Len(q) : k # i /\ r[j] = q[k]
  /\ \A k \in 1 .. Len(q) : k # i => \E j \in 1 .. Len(r) : r[j] = q[k]

LEMMA Others ==
  ASSUME NEW q, NEW S, q \in Seq(S), NEW i, NEW r, r \in Seq(S), Shorter(q, i, r),
         Apiece(q)
  PROVE  OneLess(q, i, r)
<1>1. /\ Len(q) \in Nat /\ i \in 1 .. Len(q) /\ Len(r) = Len(q) - 1
      /\ \A j \in 1 .. Len(r) : r[j] = IF j < i THEN q[j] ELSE q[j + 1]
  BY LenProperties DEF Shorter
<1>2. \A j \in 1 .. Len(r) : j \in 1 .. Len(q) /\ j + 1 \in 1 .. Len(q)
  BY <1>1
<1>3. ASSUME NEW j \in 1 .. Len(r), NEW k \in 1 .. Len(r), r[j] = r[k]
      PROVE  j = k
  <2>1. \A l, m \in 1 .. Len(q) : q[l] = q[m] => l = m
    BY DEF Apiece
  <2>2. PICK l, m : l = (IF j < i THEN j ELSE j + 1) /\ m = IF k < i THEN k ELSE k + 1
    OBVIOUS
  <2>3. l \in 1 .. Len(q) /\ m \in 1 .. Len(q) /\ r[j] = q[l] /\ r[k] = q[m]
    BY <1>1, <1>2, <2>2
  <2>4. l = m
    BY <1>3, <2>1, <2>3
  <2>5. i \in Int /\ j \in Int /\ k \in Int
    BY <1>1
  <2> QED BY <2>2, <2>4, <2>5
<1>4. ASSUME NEW j \in 1 .. Len(r)
      PROVE  \E k \in 1 .. Len(q) : k # i /\ r[j] = q[k]
  <2>1. CASE j < i
    BY <1>1, <1>2, <2>1
  <2>2. CASE ~ (j < i)
    <3>1. j + 1 # i
      BY <1>1, <2>2
    <3> QED BY <1>1, <1>2, <2>2, <3>1
  <2> QED BY <2>1, <2>2
<1>5. ASSUME NEW k \in 1 .. Len(q), k # i
      PROVE  \E j \in 1 .. Len(r) : r[j] = q[k]
  <2>1. CASE k < i
    <3>1. k \in 1 .. Len(r)
      BY <1>1, <2>1
    <3> QED BY <1>1, <2>1, <3>1
  <2>2. CASE k > i
    <3>1. k - 1 \in 1 .. Len(r) /\ ~ (k - 1 < i) /\ (k - 1) + 1 = k
      BY <1>1, <2>2
    <3>2. r[k - 1] = q[(k - 1) + 1]
      BY <1>1, <3>1
    <3> QED BY <3>1, <3>2
  <2> QED BY <1>1, <1>5, <2>1, <2>2
<1> QED BY <1>3, <1>4, <1>5 DEF OneLess, Apiece

\* A block of the queue comes into an empty hand.
LEMMA PlacedTaken ==
  ASSUME NEW q, NEW h, NEW U, Placed(q, h, U), NEW t \in Threads, h[t] = NoBlock,
         NEW i, NEW r \in Seq(U), Shorter(q, i, r)
  PROVE  Placed(r, [h EXCEPT ![t] = q[i]], U)
<1> PICK g, u : g = [h EXCEPT ![t] = q[i]] /\ u = q[i]
  OBVIOUS
<1>1. /\ q \in Seq(U) /\ Len(q) \in Nat /\ \A j \in 1 .. Len(q) : q[j] \in U
      /\ h \in [Threads -> U \cup {NoBlock}] /\ NoBlock \notin U
      /\ i \in 1 .. Len(q)
  BY LenProperties, ElementOfSeq DEF Placed, Shorter
<1>2. u \in U
  BY <1>1
<1>3. \A s \in Threads : g[s] = IF s = t THEN u ELSE h[s]
  BY <1>1
<1>4. g \in [Threads -> U \cup {NoBlock}]
  BY <1>1, <1>2
<1>5. \A j, k \in 1 .. Len(q) : q[j] = q[k] => j = k
  BY DEF Placed
<1>6. /\ \A j, k \in 1 .. Len(r) : r[j] = r[k] => j = k
      /\ \A j \in 1 .. Len(r) : \E k \in 1 .. Len(q) : k # i /\ r[j] = q[k]
      /\ \A k \in 1 .. Len(q) : k # i => \E j \in 1 .. Len(r) : r[j] = q[k]
  <2>1. q \in Seq(U) /\ r \in Seq(U) /\ Shorter(q, i, r) /\ Apiece(q)
    BY <1>1, <1>5 DEF Apiece
  <2>2. OneLess(q, i, r)
    BY <2>1, Others
  <2> QED BY <2>2 DEF OneLess, Apiece
<1>7. ASSUME NEW s \in Threads, NEW j \in 1 .. Len(r)
      PROVE  r[j] # g[s]
  <2>1. PICK k \in 1 .. Len(q) : k # i /\ r[j] = q[k]
    BY <1>6
  <2>2. q[k] # u /\ q[k] # h[s]
    BY <1>1, <1>5, <2>1 DEF Placed
  <2> QED BY <1>3, <2>1, <2>2
<1>8. \A s, v \in Threads : g[s] = g[v] /\ g[s] # NoBlock => s = v
  <2>1. \A s \in Threads : h[s] # u
    BY <1>1 DEF Placed
  <2> QED BY <1>3, <2>1 DEF Placed
<1>9. ASSUME NEW v \in U
      PROVE  (\E j \in 1 .. Len(r) : r[j] = v) \/ \E s \in Threads : g[s] = v
  <2>1. CASE v = u
    BY <1>3, <2>1
  <2>2. CASE v # u /\ \E k \in 1 .. Len(q) : q[k] = v
    BY <1>6, <2>2
  <2>3. CASE \E s \in Threads : h[s] = v
    <3>1. PICK s \in Threads : h[s] = v
      BY <2>3
    <3>2. s # t
      BY <1>1, <3>1
    <3> QED BY <1>3, <3>1, <3>2
  <2> QED BY <2>1, <2>2, <2>3 DEF Placed
<1>10. Placed(r, g, U)
  BY <1>1, <1>4, <1>6, <1>7, <1>8, <1>9 DEF Placed
<1> QED BY <1>10

\* The first block of the queue is given back, when all hands are empty.
LEMMA PlacedCleared ==
  ASSUME NEW q, NEW h, NEW U, Placed(q, h, U), \A t \in Threads : h[t] = NoBlock,
         NEW r \in Seq(U), Shorter(q, 1, r)
  PROVE  q[1] \in U /\ Placed(r, h, U \ {q[1]})
<1> PICK u : u = q[1]
  OBVIOUS
<1>1. /\ q \in Seq(U) /\ Len(q) \in Nat /\ \A j \in 1 .. Len(q) : q[j] \in U
      /\ h \in [Threads -> U \cup {NoBlock}] /\ NoBlock \notin U
      /\ 1 \in 1 .. Len(q)
  BY LenProperties, ElementOfSeq DEF Placed, Shorter
<1>2. \A j, k \in 1 .. Len(q) : q[j] = q[k] => j = k
  BY DEF Placed
<1>3. /\ \A j, k \in 1 .. Len(r) : r[j] = r[k] => j = k
      /\ \A j \in 1 .. Len(r) : \E k \in 1 .. Len(q) : k # 1 /\ r[j] = q[k]
      /\ \A k \in 1 .. Len(q) : k # 1 => \E j \in 1 .. Len(r) : r[j] = q[k]
  <2>1. q \in Seq(U) /\ r \in Seq(U) /\ Shorter(q, 1, r) /\ Apiece(q)
    BY <1>1, <1>2 DEF Apiece
  <2>2. OneLess(q, 1, r)
    BY <2>1, Others
  <2> QED BY <2>2 DEF OneLess, Apiece
<1>4. Len(r) \in Nat /\ r \in [1 .. Len(r) -> U]
  BY LenProperties
<1>5. \A j \in 1 .. Len(r) : r[j] # u
  BY <1>1, <1>2, <1>3
<1>6. r \in Seq(U \ {u})
  <2>1. r \in [1 .. Len(r) -> U \ {u}]
    BY <1>4, <1>5
  <2> QED BY <1>4, <2>1, SeqDef
<1>7. h \in [Threads -> (U \ {u}) \cup {NoBlock}]
  BY <1>1
<1>8. \A t \in Threads : \A j \in 1 .. Len(r) : r[j] # h[t]
  BY <1>1, <1>4
<1>9. ASSUME NEW v \in U \ {u}
      PROVE  \E j \in 1 .. Len(r) : r[j] = v
  <2>1. PICK k \in 1 .. Len(q) : q[k] = v
    BY <1>1 DEF Placed
  <2> QED BY <1>3, <2>1
<1>10. \A t, s \in Threads : h[t] = h[s] /\ h[t] # NoBlock => t = s
  OBVIOUS
<1>11. Placed(r, h, U \ {u})
  BY <1>1, <1>3, <1>6, <1>7, <1>8, <1>9, <1>10 DEF Placed
<1> QED BY <1>1, <1>11

-------------------------------------------------------------------------------
(* The steps of the queue.                                                 *)

\* The invariant of the queue, its pool included.
QueueInv ==
  /\ PagesInv
  /\ ~crossed => Placed(queue, hand, inUse)
  /\ at \in [Threads -> {"idle", "pop", "remove"}]
  /\ \A t \in Threads : at[t] # "idle" => hand[t] = NoBlock
  /\ seen = [t \in Threads |-> seen[t]]
  /\ \A t \in Threads : at[t] = "remove" => seen[t][1] \in Nat \ {0}
  /\ crossed \in BOOLEAN /\ clearing \in BOOLEAN

LEMMA QueueStarts == PoolConstants /\ Blocks!QueueInit => QueueInv
<1> SUFFICES ASSUME PoolConstants, Blocks!QueueInit PROVE QueueInv
  OBVIOUS
<1>1. /\ Blocks!Init /\ inUse = {} /\ queue = <<>> /\ clearing = FALSE
      /\ hand = [t \in Threads |-> NoBlock] /\ at = [t \in Threads |-> "idle"]
      /\ seen = [t \in Threads |-> NoBlock] /\ crossed = FALSE
  BY DEF Blocks!QueueInit, Blocks!Init
<1>2. Placed(queue, hand, inUse)
  <2>1. queue \in Seq(inUse) /\ Len(queue) = 0
    BY <1>1, EmptySeq
  <2> QED BY <1>1, <2>1 DEF Placed
<1> QED BY <1>1, <1>2, PagesInit DEF QueueInv

\* A step of the pool of blocks alone.
LEMMA GivesNew ==
  ASSUME PoolConstants, PagesInv,
         Blocks!Allocate \/ \E p \in Pages : Blocks!AllocatePage(p)
  PROVE  /\ PagesInv'
         /\ \E u : /\ u \notin inUse /\ inUse' = inUse \cup {u} /\ u # NoBlock
                   /\ Blocks!Given = u
<1>1. PagesInv' /\ \E u : u \notin inUse /\ inUse' = inUse \cup {u}
  BY AllocateKeeps, AllocatePageKeeps
<1>2. PICK u : u \notin inUse /\ inUse' = inUse \cup {u}
  BY <1>1
<1>3. u # NoBlock
  <2>1. u \in Pages \X Nat
    <3>1. PICK P, n : P = Blocks!Allocated' /\ n = blocksPerPage'
      OBVIOUS
    <3>2. P \in SUBSET Pages /\ n \in PageSizes /\ inUse' \in SUBSET (P \X (1 .. n))
      BY <1>1, <3>1 DEF PagesInv, PageTypes
    <3>3. u \in P \X (1 .. n) /\ n \in Nat
      BY <1>2, <3>2 DEF PoolConstants
    <3> QED BY <3>2, <3>3
  <2> QED BY <2>1 DEF PoolConstants
<1>4. Blocks!Given = u
  BY <1>2 DEF Blocks!Given
<1> QED BY <1>1, <1>2, <1>3, <1>4

\* The pool stays as it is.
LEMMA PoolStays ==
  ASSUME PagesInv, UNCHANGED Blocks!vars
  PROVE  PagesInv' /\ inUse' = inUse
<1>1. UNCHANGED <<availableStack, blocks, nextPage, prevPage, availablePages,
                  unavailablePages, availablePagesSize, unavailablePagesSize,
                  blocksPerPage, inUse>>
  BY DEF Blocks!vars, Blocks!page, Blocks!lists
<1>2. /\ UNCHANGED Blocks!Allocated /\ UNCHANGED Open /\ UNCHANGED Full
      /\ UNCHANGED Unused
  BY <1>1 DEF Blocks!Allocated, Open, Full, Unused
<1>3. PageTypes' /\ AllStacked' /\ AllFiled' /\ FewUnused'
  BY <1>1, <1>2 DEF PagesInv, PageTypes, AllStacked, AllFiled, FewUnused
<1> QED BY <1>1, <1>3 DEF PagesInv

\* A queue without its first element, and without its ith.
LEMMA TailShorter ==
  ASSUME NEW U, NEW q \in Seq(U), q # <<>>
  PROVE  Tail(q) \in Seq(U) /\ Shorter(q, 1, Tail(q)) /\ Head(q) = q[1]
<1> PICK r : r = Tail(q)
  OBVIOUS
<1>1. /\ r \in Seq(U) /\ Len(r) = Len(q) - 1 /\ Len(q) \in Nat /\ Len(q) > 0
      /\ \A j \in 1 .. Len(r) : r[j] = q[j + 1]
  BY HeadTailProperties, LenProperties, EmptySeq
<1>2. 1 \in 1 .. Len(q) /\ \A j \in 1 .. Len(q) - 1 : ~ (j < 1)
  BY <1>1
<1>3. Shorter(q, 1, r)
  BY <1>1, <1>2 DEF Shorter
<1>4. Head(q) = q[1]
  OBVIOUS
<1> QED BY <1>1, <1>3, <1>4

LEMMA RemovedShorter ==
  ASSUME NEW U, NEW q \in Seq(U), NEW i \in 1 .. Len(q)
  PROVE  Blocks!Removed(q, i) \in Seq(U) /\ Shorter(q, i, Blocks!Removed(q, i)) /\ q[i] \in U
<1> PICK r, a, b, n :
      /\ r = Blocks!Removed(q, i) /\ n = Len(q)
      /\ a = SubSeq(q, 1, i - 1) /\ b = SubSeq(q, i + 1, n)
  OBVIOUS
<1>1. /\ n \in Nat /\ i \in 1 .. n /\ \A j \in 1 .. n : q[j] \in U
      /\ i - 1 \in Int /\ i + 1 \in Int /\ n \in Int /\ 1 \in Int
  BY LenProperties, ElementOfSeq
<1>2. a \in Seq(U) /\ Len(a) = i - 1 /\ \A j \in 1 .. i - 1 : a[j] = q[j]
  <2>1. \A j \in 1 .. i - 1 : q[j] \in U
    BY <1>1
  <2>2. /\ a \in Seq(U) /\ Len(a) = (IF 1 <= i - 1 THEN (i - 1) - 1 + 1 ELSE 0)
        /\ \A j \in 1 .. (i - 1) - 1 + 1 : a[j] = q[1 + j - 1]
    BY <1>1, <2>1, SubSeqProperties
  <2>3. (i - 1) - 1 + 1 = i - 1 /\ \A j \in 1 .. i - 1 : 1 + j - 1 = j
    BY <1>1
  <2> QED BY <1>1, <2>2, <2>3
<1>3. b \in Seq(U) /\ Len(b) = n - i /\ \A j \in 1 .. n - i : b[j] = q[i + j]
  <2>1. \A j \in i + 1 .. n : q[j] \in U
    BY <1>1
  <2>2. /\ b \in Seq(U) /\ Len(b) = (IF i + 1 <= n THEN n - (i + 1) + 1 ELSE 0)
        /\ \A j \in 1 .. n - (i + 1) + 1 : b[j] = q[(i + 1) + j - 1]
    BY <1>1, <2>1, SubSeqProperties
  <2>3. n - (i + 1) + 1 = n - i /\ \A j \in 1 .. n - i : (i + 1) + j - 1 = i + j
    BY <1>1
  <2> QED BY <1>1, <2>2, <2>3
<1>4. /\ r \in Seq(U) /\ Len(r) = Len(a) + Len(b)
      /\ \A j \in 1 .. Len(a) + Len(b) :
           r[j] = IF j <= Len(a) THEN a[j] ELSE b[j - Len(a)]
  <2>1. r = a \o b
    BY DEF Blocks!Removed
  <2>2. a \in Seq(U) /\ b \in Seq(U)
    BY <1>2, <1>3
  <2>3. /\ a \o b \in Seq(U) /\ Len(a \o b) = Len(a) + Len(b)
        /\ \A j \in 1 .. Len(a) + Len(b) :
             (a \o b)[j] = IF j <= Len(a) THEN a[j] ELSE b[j - Len(a)]
    BY <2>2, ConcatProperties
  <2> QED BY ONLY <2>1, <2>3, Zenon
<1>5. Len(r) = n - 1
  BY <1>1, <1>2, <1>3, <1>4
<1>6. ASSUME NEW j \in 1 .. n - 1
      PROVE  r[j] = IF j < i THEN q[j] ELSE q[j + 1]
  <2>1. r[j] = IF j <= i - 1 THEN a[j] ELSE b[j - (i - 1)]
    <3>1. Len(a) = i - 1 /\ j \in 1 .. Len(a) + Len(b)
      <4>1. Len(a) = i - 1
        BY <1>2
      <4>2. Len(b) = n - i
        BY <1>3
      <4>3. n \in Nat /\ i \in Nat
        BY <1>1
      <4>4. Len(a) + Len(b) = n - 1
        <5>1. PICK k, l : k = Len(a) /\ l = Len(b)
          OBVIOUS
        <5>2. k \in Int /\ l \in Int /\ k = i - 1 /\ l = n - i
          BY <4>1, <4>2, <4>3, <5>1
        <5>3. k + l = n - 1
          BY <4>3, <5>2
        <5> QED BY <5>1, <5>3
      <4> QED BY <4>1, <4>4
    <3>2. r[j] = IF j <= Len(a) THEN a[j] ELSE b[j - Len(a)]
      BY <1>4, <3>1
    <3> QED BY <3>1, <3>2
  <2>2. CASE j < i
    <3>1. j \in 1 .. i - 1 /\ j <= i - 1
      BY <1>1, <2>2
    <3> QED BY <1>2, <2>1, <2>2, <3>1
  <2>3. CASE ~ (j < i)
    <3>1. /\ j - (i - 1) \in 1 .. n - i /\ ~ (j <= i - 1)
          /\ i + (j - (i - 1)) = j + 1
      BY <1>1, <2>3
    <3>2. b[j - (i - 1)] = q[i + (j - (i - 1))]
      BY <1>3, <3>1
    <3> QED BY <2>1, <2>3, <3>1, <3>2
  <2> QED BY <2>2, <2>3
<1>7. Shorter(q, i, r)
  BY <1>1, <1>5, <1>6 DEF Shorter
<1> QED BY <1>1, <1>4, <1>7

LEMMA QueueStep ==
  ASSUME PoolConstants, QueueInv, Blocks!QueueNext
  PROVE  QueueInv'
<1>5. ~crossed
  BY DEF Blocks!QueueNext
<1>1. /\ PagesInv /\ Placed(queue, hand, inUse)
      /\ at \in [Threads -> {"idle", "pop", "remove"}]
      /\ \A t \in Threads : at[t] # "idle" => hand[t] = NoBlock
      /\ seen = [t \in Threads |-> seen[t]]
      /\ \A t \in Threads : at[t] = "remove" => seen[t][1] \in Nat \ {0}
      /\ crossed \in BOOLEAN /\ clearing \in BOOLEAN
      /\ queue \in Seq(inUse) /\ hand \in [Threads -> inUse \cup {NoBlock}]
      /\ NoBlock \notin inUse
  BY <1>5 DEF QueueInv, Placed
<1>2. ASSUME Blocks!ClearQueue
      PROVE  QueueInv'
  <2>1. /\ \A t \in Threads : at[t] = "idle" /\ hand[t] = NoBlock
        /\ UNCHANGED <<hand, at, seen, crossed>>
    BY <1>2 DEF Blocks!ClearQueue
  <2>2. CASE queue # <<>> /\ Blocks!GiveBack(Head(queue)) /\ queue' = Tail(queue)
             /\ clearing' = TRUE
    <3>1. PICK u : u = Head(queue)
      OBVIOUS
    <3>2. /\ Tail(queue) \in Seq(inUse) /\ Shorter(queue, 1, Tail(queue))
          /\ Head(queue) = queue[1]
      BY <1>1, <2>2, TailShorter
    <3>3. queue[1] \in inUse /\ Placed(Tail(queue), hand, inUse \ {queue[1]})
      BY <1>1, <2>1, <3>2, PlacedCleared
    <3>4. u \in inUse /\ Placed(queue', hand, inUse \ {u})
      BY <2>2, <3>1, <3>2, <3>3
    <3>5. Blocks!PoolRelease(u)
      BY <2>2, <3>1 DEF Blocks!GiveBack
    <3>6. PagesInv' /\ inUse' = inUse \ {u}
      BY <1>1, <3>4, <3>5, ReleaseKeeps
    <3> QED BY <1>1, <2>1, <2>2, <3>4, <3>6 DEF QueueInv
  <2>3. CASE queue = <<>> /\ Blocks!Clear /\ clearing' = FALSE /\ UNCHANGED queue
    <3>1. PagesInv' /\ inUse' = inUse
      BY <1>1, <2>3, ClearKeeps
    <3> QED BY <1>1, <2>1, <2>3, <3>1 DEF QueueInv
  <2> QED BY <1>2, <2>2, <2>3 DEF Blocks!ClearQueue
<1>3. ASSUME NEW t \in Threads, Blocks!Act(t)
      PROVE  QueueInv'
  <2>1. CASE Blocks!QueueAllocate(t)
    <3>1. /\ at[t] = "idle" /\ hand[t] = NoBlock
          /\ Blocks!Allocate \/ \E p \in Pages : Blocks!AllocatePage(p)
          /\ hand' = [hand EXCEPT ![t] = Blocks!Given]
          /\ UNCHANGED <<queue, at, seen, crossed, clearing>>
      BY <2>1 DEF Blocks!QueueAllocate, Blocks!Idle
    <3>2. /\ PagesInv'
          /\ \E u : /\ u \notin inUse /\ inUse' = inUse \cup {u} /\ u # NoBlock
                    /\ Blocks!Given = u
      BY <1>1, <3>1, GivesNew
    <3>3. PICK u : /\ u \notin inUse /\ inUse' = inUse \cup {u} /\ u # NoBlock
                   /\ hand' = [hand EXCEPT ![t] = u]
      BY <3>1, <3>2
    <3>4. Placed(queue, [hand EXCEPT ![t] = u], inUse \cup {u})
      BY <1>1, <3>1, <3>3, PlacedGiven
    <3>5. Placed(queue', hand', inUse')
      BY <3>1, <3>3, <3>4
    <3>6. \A s \in Threads : at'[s] # "idle" => hand'[s] = NoBlock
      BY <1>1, <3>1, <3>3
    <3> QED BY <1>1, <3>1, <3>2, <3>5, <3>6 DEF QueueInv
  <2>2. CASE Blocks!Deallocate(t)
    <3>1. /\ hand[t] # NoBlock /\ Blocks!PoolRelease(hand[t])
          /\ hand' = [hand EXCEPT ![t] = NoBlock]
          /\ UNCHANGED <<queue, at, seen, crossed, clearing>>
      BY <2>2 DEF Blocks!Deallocate
    <3>2. PICK u : u = hand[t]
      OBVIOUS
    <3>3. u \in inUse /\ Placed(queue, hand', inUse \ {u})
      BY <1>1, <3>1, <3>2, PlacedBack
    <3>4. PagesInv' /\ inUse' = inUse \ {u}
      BY <1>1, <3>1, <3>2, <3>3, ReleaseKeeps
    <3>5. Placed(queue', hand', inUse')
      BY <3>1, <3>3, <3>4
    <3>6. \A s \in Threads : at'[s] # "idle" => hand'[s] = NoBlock
      BY <1>1, <3>1
    <3> QED BY <1>1, <3>1, <3>4, <3>5, <3>6 DEF QueueInv
  <2>3. CASE Blocks!Push(t)
    <3>1. /\ hand[t] # NoBlock /\ queue' = PushedOn(queue, hand[t])
          /\ hand' = [hand EXCEPT ![t] = NoBlock]
          /\ UNCHANGED <<Blocks!vars, at, seen, crossed, clearing>>
      BY <2>3 DEF Blocks!Push, PushedOn
    <3>2. PagesInv' /\ inUse' = inUse
      BY <1>1, <3>1, PoolStays
    <3>3. Placed(queue', hand', inUse')
      BY <1>1, <3>1, <3>2, PlacedLast
    <3>4. \A s \in Threads : at'[s] # "idle" => hand'[s] = NoBlock
      BY <1>1, <3>1
    <3> QED BY <1>1, <3>1, <3>2, <3>3, <3>4 DEF QueueInv
  <2>4. ASSUME hand[t] = NoBlock, Blocks!TakeFirstIfAny(t), UNCHANGED Blocks!vars
        PROVE  /\ PagesInv' /\ Placed(queue', hand', inUse')
               /\ hand' = [hand EXCEPT ![t] = hand'[t]]
    <3>1. PagesInv' /\ inUse' = inUse
      BY <1>1, <2>4, PoolStays
    <3>2. CASE queue = <<>>
      <4>1. hand' = hand /\ queue' = queue
        BY <2>4, <3>2 DEF Blocks!TakeFirstIfAny
      <4> QED BY <1>1, <3>1, <4>1
    <3>3. CASE queue # <<>>
      <4>1. /\ hand' = [hand EXCEPT ![t] = Head(queue)] /\ queue' = Tail(queue)
            /\ Tail(queue) \in Seq(inUse) /\ Shorter(queue, 1, Tail(queue))
            /\ Head(queue) = queue[1]
        BY <1>1, <2>4, <3>3, TailShorter DEF Blocks!TakeFirstIfAny
      <4>2. /\ hand' = [hand EXCEPT ![t] = queue[1]]
            /\ queue' \in Seq(inUse) /\ Shorter(queue, 1, queue')
        BY <4>1
      <4>3. Placed(queue', hand', inUse)
        BY <1>1, <2>4, <4>2, PlacedTaken
      <4> QED BY <1>1, <3>1, <4>2, <4>3
    <3> QED BY <3>2, <3>3
  <2>5. CASE Blocks!Pop(t)
    <3>1. /\ at[t] = "idle" /\ hand[t] = NoBlock /\ Blocks!TakeFirstIfAny(t)
          /\ UNCHANGED <<Blocks!vars, at, seen, crossed, clearing>>
      BY <2>5 DEF Blocks!Pop, Blocks!Idle
    <3>2. /\ PagesInv' /\ Placed(queue', hand', inUse')
          /\ hand' = [hand EXCEPT ![t] = hand'[t]]
      BY <2>4, <3>1
    <3>3. \A s \in Threads : at'[s] # "idle" => hand'[s] = NoBlock
      BY <1>1, <3>1, <3>2
    <3> QED BY <1>1, <3>1, <3>2, <3>3 DEF QueueInv
  <2>6. CASE Blocks!PopInaccurate(t)
    <3>1. CASE /\ at[t] = "idle" /\ hand[t] = NoBlock
               /\ at' = [at EXCEPT ![t] = "pop"]
               /\ UNCHANGED <<Blocks!vars, queue, hand, seen, crossed, clearing>>
      <4>1. PagesInv' /\ inUse' = inUse
        BY <1>1, <3>1, PoolStays
      <4> QED BY <1>1, <3>1, <4>1 DEF QueueInv
    <3>2. CASE /\ at[t] = "pop" /\ Blocks!TakeFirstIfAny(t)
               /\ at' = [at EXCEPT ![t] = "idle"]
               /\ UNCHANGED <<Blocks!vars, seen, crossed, clearing>>
      <4>1. hand[t] = NoBlock
        BY <1>1, <3>2
      <4>2. /\ PagesInv' /\ Placed(queue', hand', inUse')
            /\ hand' = [hand EXCEPT ![t] = hand'[t]]
        BY <2>4, <3>2, <4>1
      <4>3. \A s \in Threads : at'[s] # "idle" => hand'[s] = NoBlock
        BY <1>1, <3>2, <4>2
      <4> QED BY <1>1, <3>2, <4>2, <4>3 DEF QueueInv
    <3> QED BY <2>6, <3>1, <3>2 DEF Blocks!PopInaccurate, Blocks!Idle
  <2>7. ASSUME NEW i \in 1 .. Len(queue), Blocks!Look(t, i)
        PROVE  QueueInv'
    <3>1. /\ at[t] = "idle" /\ hand[t] = NoBlock
          /\ seen' = [seen EXCEPT ![t] = <<i, queue[i]>>]
          /\ at' = [at EXCEPT ![t] = "remove"]
          /\ UNCHANGED <<Blocks!vars, queue, hand, crossed, clearing>>
      BY <2>7 DEF Blocks!Look, Blocks!Idle
    <3>2. PagesInv' /\ inUse' = inUse
      BY <1>1, <3>1, PoolStays
    <3>3. i \in Nat \ {0}
      BY <1>1, LenProperties
    <3>4. \A s \in Threads : at'[s] = "remove" => seen'[s][1] \in Nat \ {0}
      <4>1. \A s \in Threads : s # t => at'[s] = at[s] /\ seen'[s] = seen[s]
        BY <1>1, <3>1
      <4>2. seen'[t] = <<i, queue[i]>>
        BY <1>1, <3>1
      <4> QED BY <1>1, <3>3, <4>1, <4>2
    <3>5. seen' = [s \in Threads |-> seen'[s]]
      BY <1>1, <3>1
    <3>6. \A s \in Threads : at'[s] # "idle" => hand'[s] = NoBlock
      BY <1>1, <3>1
    <3>7. at' \in [Threads -> {"idle", "pop", "remove"}]
      BY <1>1, <3>1
    <3> QED BY <1>1, <3>1, <3>2, <3>4, <3>5, <3>6, <3>7 DEF QueueInv
  <2>8. CASE Blocks!RemoveAtIndex(t)
    <3>1. PICK i, u : i = seen[t][1] /\ u = seen[t][2]
      OBVIOUS
    <3>2. /\ at[t] = "remove"
          /\ queue' = IF i <= Len(queue) THEN Blocks!Removed(queue, i) ELSE queue
          /\ crossed' = (i > Len(queue) \/ queue[i] # u)
          /\ hand' = [hand EXCEPT ![t] = u]
          /\ at' = [at EXCEPT ![t] = "idle"]
          /\ seen' = [seen EXCEPT ![t] = NoBlock]
          /\ UNCHANGED <<Blocks!vars, clearing>>
      BY <2>8, <3>1 DEF Blocks!RemoveAtIndex
    <3>3. PagesInv' /\ inUse' = inUse
      BY <1>1, <3>2, PoolStays
    <3>4. ~crossed' => Placed(queue', hand', inUse)
      <4> SUFFICES ASSUME ~crossed' PROVE Placed(queue', hand', inUse)
        OBVIOUS
      <4>1. Len(queue) \in Nat /\ i \in Nat \ {0}
        BY <1>1, <3>1, <3>2, LenProperties
      <4>2. i \in 1 .. Len(queue) /\ queue[i] = u
        <5>1. crossed' = (i > Len(queue) \/ queue[i] # u)
          BY <3>2
        <5>2. ~ (i > Len(queue) \/ queue[i] # u)
          BY ONLY <5>1, ~crossed', Zenon
        <5> QED BY <4>1, <5>2
      <4>3. queue' = Blocks!Removed(queue, i) /\ hand' = [hand EXCEPT ![t] = queue[i]]
        <5>1. ~ (i > Len(queue)) /\ i <= Len(queue)
          BY <4>1, <4>2
        <5> QED BY <3>2, <4>2, <5>1
      <4>4. queue' \in Seq(inUse) /\ Shorter(queue, i, queue')
        BY <1>1, <4>2, <4>3, RemovedShorter
      <4>5. hand[t] = NoBlock
        BY <1>1, <3>2
      <4> QED BY <1>1, <4>2, <4>3, <4>4, <4>5, PlacedTaken
    <3>5. \A s \in Threads : at'[s] # "idle" => hand'[s] = NoBlock
      <4>1. /\ at'[t] = "idle"
            /\ \A s \in Threads : s # t => at'[s] = at[s] /\ hand'[s] = hand[s]
        BY <1>1, <3>2
      <4> QED BY <1>1, <4>1
    <3>6. /\ at' \in [Threads -> {"idle", "pop", "remove"}]
          /\ seen' = [s \in Threads |-> seen'[s]]
          /\ \A s \in Threads : at'[s] = "remove" => seen'[s][1] \in Nat \ {0}
      <4>1. at' \in [Threads -> {"idle", "pop", "remove"}] /\ at'[t] = "idle"
        BY <1>1, <3>2
      <4>2. seen' = [s \in Threads |-> seen'[s]]
        BY <1>1, <3>2
      <4>3. \A s \in Threads : s # t => at'[s] = at[s] /\ seen'[s] = seen[s]
        BY <1>1, <3>2
      <4> QED BY <1>1, <4>1, <4>2, <4>3
    <3>7. crossed' \in BOOLEAN /\ clearing' = clearing
      BY <3>2
    <3> QED BY <1>1, <3>3, <3>4, <3>5, <3>6, <3>7 DEF QueueInv
  <2> QED BY <1>3, <2>1, <2>2, <2>3, <2>5, <2>6, <2>7, <2>8 DEF Blocks!Act
<1>4. ASSUME NEW n \in PageSizes, Blocks!QueueSetPageSize(n)
      PROVE  QueueInv'
  <2>1. Blocks!SetPageSize(n) /\ UNCHANGED <<queue, hand, at, seen, crossed, clearing>>
    BY <1>4 DEF Blocks!QueueSetPageSize, Blocks!queueVars
  <2>2. PagesInv' /\ inUse' = inUse
    BY <1>1, <2>1, SetPageSizeKeeps
  <2> QED BY <1>1, <2>1, <2>2 DEF QueueInv
<1> QED BY <1>2, <1>3, <1>4 DEF Blocks!QueueNext

-------------------------------------------------------------------------------
(* What follows of every state.                                            *)

\* The operators that the instance brings with it are those of FiniteSets.
LEMMA SameCardinality == \A S : Blocks!Cardinality(S) = Cardinality(S)
BY DEF Blocks!Cardinality, Cardinality

\* A finite set of numbers that is not empty has a least element.
LEMMA LeastNumber ==
  ASSUME NEW n \in Nat, NEW S \in SUBSET (1 .. n), S # {}
  PROVE  \E x \in S : \A y \in S : x <= y
<1> DEFINE From(x) == {y \in S : y < x}
           All == {From(x) : x \in S}
           R == StrictSubsetOrdering(S)
<1>1. IsFiniteSet(S)
  <2>1. IsFiniteSet(1 .. n) /\ S \subseteq 1 .. n
    BY FS_Interval
  <2> QED BY <2>1, FS_Subset
<1>2. IsWellFoundedOn(R, FiniteSubsetsOf(S)) /\ FiniteSubsetsOf(S) = SUBSET S
  BY <1>1, FS_StrictSubsetOrderingWellFounded, FS_FiniteSubsetsOfFinite
<1>3. All \subseteq FiniteSubsetsOf(S) /\ All # {}
  <2>1. All \subseteq SUBSET S
    OBVIOUS
  <2>2. All # {}
    OBVIOUS
  <2> QED BY <1>2, <2>1, <2>2
<1>4. PICK T \in All : \A U \in All : ~ (<<U, T>> \in R)
  <2> HIDE DEF R, All
  <2> QED BY <1>2, <1>3, WFMin
<1>5. PICK x \in S : T = From(x)
  BY <1>4
<1>6. ASSUME NEW y \in S, y < x
      PROVE  FALSE
  <2>1. x \in Nat /\ y \in Nat /\ ~ (y < y)
    OBVIOUS
  <2>4. ASSUME NEW z \in From(y)
        PROVE  z \in From(x)
    <3>1. z \in Nat /\ z \in S /\ z < y
      OBVIOUS
    <3> QED BY <1>6, <2>1, <3>1
  <2>2. From(y) \subseteq From(x) /\ y \in From(x) /\ y \notin From(y)
    BY <1>6, <2>1, <2>4
  <2>3. <<From(y), From(x)>> \in R
    BY <2>2 DEF StrictSubsetOrdering
  <2> QED BY <1>4, <1>5, <2>3
<1>7. \A y \in S : y \in Nat /\ x \in Nat
  OBVIOUS
<1> QED BY <1>6, <1>7

\* The way from x along g, for n pages.
Way(w, n, x, g) == \A i \in 1 .. n : w[i] = IF i = 1 THEN x ELSE g[w[i - 1]]

\* There is one way.
LEMMA OneWay ==
  ASSUME NEW n \in Nat, NEW x, NEW g, NEW v, Way(v, n, x, g), NEW w, Way(w, n, x, g)
  PROVE  \A i \in 1 .. n : v[i] = w[i]
<1> PICK S : S = {i \in 1 .. n : v[i] # w[i]}
  OBVIOUS
<1> SUFFICES ASSUME S # {} PROVE FALSE
  OBVIOUS
<1>1. PICK i \in S : \A j \in S : i <= j
  BY LeastNumber
<1>2. i \in 1 .. n /\ v[i] # w[i]
  OBVIOUS
<1>3. i # 1
  BY <1>2 DEF Way
<1>4. i - 1 \in 1 .. n /\ i - 1 \notin S
  BY <1>1, <1>2, <1>3
<1>5. v[i - 1] = w[i - 1]
  BY <1>4
<1> QED BY <1>2, <1>3, <1>5 DEF Way

\* A list leads to its pages.
LEMMA AlongLeads ==
  ASSUME NEW n, NEW first, NEW K, Filed(n, first, K, nextPage, prevPage)
  PROVE  Blocks!Along(first, n) = K
<1> PICK A \in [1 .. n -> K] : InCircle(A, n, first, K, nextPage, prevPage)
  BY DEF Filed
<1>1. n \in Nat
  BY DEF Filed
<1>2. \A i \in 1 .. n : A[i] = IF i = 1 THEN first ELSE nextPage[A[i - 1]]
  <2> SUFFICES ASSUME NEW i \in 1 .. n
               PROVE  A[i] = IF i = 1 THEN first ELSE nextPage[A[i - 1]]
    OBVIOUS
  <2>1. n > 0
    BY <1>1
  <2>2. first = A[1]
    BY <2>1 DEF InCircle
  <2>3. i # 1 => i - 1 \in 1 .. n /\ i - 1 # n /\ (i - 1) + 1 = i
    BY <1>1
  <2>4. \A j \in 1 .. n : nextPage[A[j]] = IF j = n THEN A[1] ELSE A[j + 1]
    BY DEF InCircle
  <2> QED BY <2>2, <2>3, <2>4
<1> DEFINE walk == CHOOSE w : w = [i \in 1 .. n |-> IF i = 1 THEN first
                                                   ELSE nextPage[w[i - 1]]]
<1>3. walk = [i \in 1 .. n |-> IF i = 1 THEN first ELSE nextPage[walk[i - 1]]]
  <2>1. A = [i \in 1 .. n |-> IF i = 1 THEN first ELSE nextPage[A[i - 1]]]
    BY <1>2
  <2>2. \E w : w = [i \in 1 .. n |-> IF i = 1 THEN first ELSE nextPage[w[i - 1]]]
    BY <2>1
  <2> QED BY <2>2
<1>4. Blocks!Along(first, n) = {walk[i] : i \in 1 .. n}
  BY DEF Blocks!Along
<1> HIDE DEF walk
<1>5. Way(A, n, first, nextPage)
  BY <1>2 DEF Way
<1>6. PICK w : w = walk
  OBVIOUS
<1>7. Way(w, n, first, nextPage)
  BY <1>3, <1>6 DEF Way
<1>8. \A i \in 1 .. n : w[i] = A[i]
  BY <1>1, <1>5, <1>7, OneWay
<1>9. \A q \in K : \E i \in 1 .. n : A[i] = q
  BY DEF InCircle
<1> QED BY <1>4, <1>6, <1>8, <1>9

\* There are as many elements in a sequence as it is long, when none is in it twice.
Values(q, n) == {q[i] : i \in 1 .. n}

LEMMA SizeOfRange ==
  ASSUME NEW n \in Nat, NEW q, \A i, j \in 1 .. n : q[i] = q[j] => i = j
  PROVE  IsFiniteSet(Values(q, n)) /\ Cardinality(Values(q, n)) = n
<1> PICK S : S = Values(q, n)
  OBVIOUS
<1>1. PICK f : f = [i \in 1 .. n |-> q[i]]
  OBVIOUS
<1>2. f \in [1 .. n -> S] /\ \A i \in 1 .. n : f[i] = q[i]
  BY <1>1 DEF Values
<1>3. f \in Bijection(1 .. n, S)
  <2>1. \A i, j \in 1 .. n : f[i] = f[j] => i = j
    BY <1>2
  <2>2. \A u \in S : \E i \in 1 .. n : f[i] = u
    BY <1>2 DEF Values
  <2> QED BY <1>2, <2>1, <2>2 DEF Bijection, Injection, Surjection, IsInjective
<1>4. ExistsBijection(1 .. n, S)
  BY <1>3 DEF ExistsBijection
<1> QED BY <1>4, FS_CountingElements, FS_NatBijection

\* Every block in use is in the queue or in a hand, once.
LEMMA AccountedFor ==
  ASSUME PoolConstants, QueueInv
  PROVE  BlocksAccountedFor
<1> SUFFICES ASSUME ~crossed
             PROVE  /\ inUse = Blocks!Queued \cup Blocks!InHand
                    /\ Blocks!Cardinality(inUse) = Len(queue)
                         + Blocks!Cardinality({t \in Threads : hand[t] # NoBlock})
  BY DEF BlocksAccountedFor, Blocks!BlocksAccountedFor
<1>1. /\ queue \in Seq(inUse) /\ Len(queue) \in Nat
      /\ \A i \in 1 .. Len(queue) : queue[i] \in inUse
      /\ \A i, j \in 1 .. Len(queue) : queue[i] = queue[j] => i = j
      /\ hand \in [Threads -> inUse \cup {NoBlock}]
      /\ \A t, u \in Threads : hand[t] = hand[u] /\ hand[t] # NoBlock => t = u
      /\ \A t \in Threads : \A i \in 1 .. Len(queue) : queue[i] # hand[t]
      /\ \A u \in inUse : (\E i \in 1 .. Len(queue) : queue[i] = u)
                          \/ \E t \in Threads : hand[t] = u
      /\ NoBlock \notin inUse
  BY LenProperties, ElementOfSeq DEF QueueInv, Placed
<1>2. PICK Q, H, T :
        /\ Q = {queue[i] : i \in 1 .. Len(queue)}
        /\ H = {hand[t] : t \in Threads} \ {NoBlock}
        /\ T = {t \in Threads : hand[t] # NoBlock}
  OBVIOUS
<1>3. inUse = Q \cup H /\ Q \cap H = {}
  <2>1. \A u \in inUse : u \in Q \cup H
    BY <1>1, <1>2
  <2>2. \A u \in Q : u \in inUse
    BY <1>1, <1>2
  <2>3. \A u \in H : u \in inUse /\ u \notin Q
    BY <1>1, <1>2
  <2> QED BY <2>1, <2>2, <2>3
<1>4. IsFiniteSet(Q) /\ Cardinality(Q) = Len(queue)
  <2>1. Q = Values(queue, Len(queue))
    BY <1>2 DEF Values
  <2>2. /\ Len(queue) \in Nat
        /\ \A i, j \in 1 .. Len(queue) : queue[i] = queue[j] => i = j
    BY <1>1
  <2> QED BY <2>1, <2>2, SizeOfRange
<1>5. IsFiniteSet(T)
  BY <1>2, FS_Subset DEF PoolConstants
<1>6. IsFiniteSet(H) /\ Cardinality(H) = Cardinality(T)
  <2>1. PICK f : f = [t \in T |-> hand[t]]
    OBVIOUS
  <2>2. f \in [T -> H] /\ \A t \in T : f[t] = hand[t]
    BY <1>2, <2>1
  <2>3. f \in Bijection(T, H)
    <3>1. \A t, u \in T : f[t] = f[u] => t = u
      BY <1>1, <1>2, <2>2
    <3>2. \A u \in H : \E t \in T : f[t] = u
      BY <1>2, <2>2
    <3> QED BY <2>2, <3>1, <3>2 DEF Bijection, Injection, Surjection, IsInjective
  <2>4. ExistsBijection(T, H)
    BY <2>3 DEF ExistsBijection
  <2> QED BY <1>5, <2>4, FS_Bijection
<1>7. Cardinality(inUse) = Len(queue) + Cardinality(T)
  <2>1. Cardinality(Q \cup H) = Cardinality(Q) + Cardinality(H) - Cardinality(Q \cap H)
    BY <1>4, <1>6, FS_Union
  <2>2. Cardinality(Q \cap H) = 0
    BY <1>3, FS_EmptySet
  <2>3. Cardinality(T) \in Nat
    BY <1>5, FS_CardinalityType
  <2> QED BY <1>1, <1>3, <1>4, <1>6, <2>1, <2>2, <2>3
<1> QED BY <1>2, <1>3, <1>7, SameCardinality DEF Blocks!Queued, Blocks!InHand

\* The pages are filed and their blocks are in one place each.
LEMMA PagesInPlace ==
  ASSUME PoolConstants, PagesInv
  PROVE  PagesKept
<1>1. Blocks!PagesFiled
  <2>1. /\ Filed(availablePagesSize, availablePages, Open, nextPage, prevPage)
        /\ Filed(unavailablePagesSize, unavailablePages, Full, nextPage, prevPage)
    BY DEF PagesInv, AllFiled
  <2>2. /\ Blocks!Along(availablePages, availablePagesSize) = Open
        /\ Blocks!Along(unavailablePages, unavailablePagesSize) = Full
    BY <2>1, AlongLeads
  <2>3. /\ Open \cap Full = {} /\ Open \cup Full = Blocks!Allocated
    BY Facts
  <2>4. availablePagesSize + unavailablePagesSize = Cardinality(Blocks!Allocated)
    <3>1. /\ IsFiniteSet(Open) /\ Cardinality(Open) = availablePagesSize
          /\ IsFiniteSet(Full) /\ Cardinality(Full) = unavailablePagesSize
      BY <2>1, Counted
    <3>2. Cardinality(Open \cup Full)
            = Cardinality(Open) + Cardinality(Full) - Cardinality(Open \cap Full)
      BY <3>1, FS_Union
    <3>3. Cardinality(Open \cap Full) = 0
      BY <2>3, FS_EmptySet
    <3>4. availablePagesSize \in Nat /\ unavailablePagesSize \in Nat
      BY <2>1 DEF Filed
    <3> QED BY <2>3, <3>1, <3>2, <3>3, <3>4
  <2>5. \A p \in Blocks!Allocated : prevPage[nextPage[p]] = p
    BY <2>1, <2>3, Links
  <2> QED BY <2>2, <2>4, <2>5, SameCardinality DEF Blocks!PagesFiled, Open, Full
<1>2. Blocks!BlocksOnce
  <2> SUFFICES ASSUME NEW p \in Blocks!Allocated
               PROVE  LET s == availableStack[p]
                          free == {s[i] : i \in 1 .. Len(s)}
                          used == {b \in Blocks!BlockNumbers : <<p, b>> \in inUse}
                      IN /\ Blocks!Cardinality(free) = Len(s)
                         /\ free \cap used = {}
                         /\ free \cup used = 1 .. blocks[p]
    BY DEF Blocks!BlocksOnce
  <2> PICK s : s = availableStack[p]
    OBVIOUS
  <2> DEFINE free == {s[i] : i \in 1 .. Len(s)}
             used == {b \in Blocks!BlockNumbers : <<p, b>> \in inUse}
  <2>1. PICK n, m :
          n = blocksPerPage /\ m = CHOOSE k \in PageSizes : \A l \in PageSizes : l <= k
    OBVIOUS
  <2>2. n \in Nat /\ n \in PageSizes /\ m \in Nat /\ n <= m
    BY <2>1 DEF PagesInv, PageTypes, PoolConstants
  <2>3. Blocks!BlockNumbers = 1 .. m
    BY <2>1 DEF Blocks!BlockNumbers
  <2>4. /\ s \in Seq(1 .. n) /\ Stacked(s, p, n, inUse) /\ Len(s) \in Nat
        /\ \A i \in 1 .. Len(s) : s[i] \in 1 .. n
    BY <2>1, Facts, LenProperties, ElementOfSeq
  <2>5. /\ \A i, j \in 1 .. Len(s) : s[i] = s[j] => i = j
        /\ \A i \in 1 .. Len(s) : <<p, s[i]>> \notin inUse
        /\ \A b \in 1 .. n : <<p, b>> \in inUse \/ \E i \in 1 .. Len(s) : s[i] = b
    BY <2>4 DEF Stacked
  <2>6. Blocks!Cardinality(free) = Len(s)
    <3>1. free = Values(s, Len(s))
      BY DEF Values
    <3>3. Len(s) \in Nat /\ \A i, j \in 1 .. Len(s) : s[i] = s[j] => i = j
      BY <2>4, <2>5
    <3>2. Cardinality(Values(s, Len(s))) = Len(s)
      BY <3>3, SizeOfRange
    <3> QED BY <3>1, <3>2, SameCardinality
  <2>7. free \cap used = {}
    BY <2>5
  <2>8. blocks[p] = n /\ \A b : <<p, b>> \in inUse => b \in 1 .. n
    BY <2>1 DEF PagesInv, PageTypes
  <2>9. \A b \in 1 .. n : b \in 1 .. m
    BY <2>2
  <2>10. free \cup used = 1 .. n
    BY <2>3, <2>4, <2>5, <2>8, <2>9
  <2> QED BY <2>6, <2>7, <2>8, <2>10
<1>3. Blocks!FreedPagesAreEmpty
  BY DEF Blocks!FreedPagesAreEmpty, PagesInv, PageTypes
<1>4. Blocks!FewEmptyPages
  <2>1. {p \in Blocks!Allocated : Len(availableStack[p]) = blocks[p]} = Unused
    BY DEF PagesInv, PageTypes, Unused
  <2> QED BY <2>1, SameCardinality DEF Blocks!FewEmptyPages, PagesInv, FewUnused
<1> QED BY <1>1, <1>2, <1>3, <1>4 DEF PagesKept, Blocks!PagesKept

\* A step of another part leaves the blocks as they are.
LEMMA BlocksStep == PoolConstants /\ QueueInv /\ [CollectionsNext]_collections => QueueInv'
<1> SUFFICES ASSUME PoolConstants, QueueInv, [CollectionsNext]_collections
             PROVE  QueueInv'
  OBVIOUS
<1>1. CASE Blocks!QueueNext
  BY <1>1, QueueStep
<1>2. CASE UNCHANGED blocksVars
  <2>1. /\ UNCHANGED Blocks!vars
        /\ UNCHANGED <<queue, hand, at, seen, crossed, clearing>>
    BY <1>2 DEF blocksVars, Blocks!vars, Blocks!page, Blocks!lists
  <2>2. PagesInv' /\ inUse' = inUse
    BY <2>1, PoolStays DEF QueueInv
  <2> QED BY <2>1, <2>2 DEF QueueInv
<1> QED BY <1>1, <1>2 DEF CollectionsNext, Moves, collections

\* Of the pool's pages and blocks the invariant holds in every state: both circles
\* of pages are whole, however many pages there are, and until a removal by index
\* has met another no block is in two places.
THEOREM BlocksHold ==
  ASSUME PoolConstants
  PROVE  CollectionsSpec => []QueueInv
<1>1. CollectionsInit => QueueInv
  BY QueueStarts DEF CollectionsInit
<1>2. QueueInv /\ [CollectionsNext]_collections => QueueInv'
  BY BlocksStep
<1> QED BY <1>1, <1>2, PTL DEF CollectionsSpec

\* Each page is in the list it belongs to, which leads to all its pages; a page
\* that is freed has no block with the user; few pages are kept in vain
\* (DS_MemoryPool.h:69-71, 112-135, 165-211).
THEOREM PagesAreKept ==
  ASSUME PoolConstants
  PROVE  CollectionsSpec => []PagesKept
<1>1. QueueInv => PagesKept
  BY PagesInPlace DEF QueueInv
<1> QED BY <1>1, BlocksHold, PTL

\* However many threads allocate, push, pop and free at the same time, what the
\* pool has given out is in one hand or in the queue, once
\* (DS_ThreadsafeAllocatingQueue.h:57-130), as long as nobody takes a block
\* between another's operator[] and RemoveAtIndex (lines 148-164).
THEOREM BlocksInOnePlace ==
  ASSUME PoolConstants
  PROVE  CollectionsSpec => []BlocksAccountedFor
<1>1. QueueInv => BlocksAccountedFor
  BY AccountedFor
<1> QED BY <1>1, BlocksHold, PTL

===============================================================================
