--------------------------- MODULE ReasonerProofs ---------------------------
(***************************************************************************)
(* Proofs about Reasoner. What the verifier accepts is true of all         *)
(* schedules, whatever proof a caller may present; the algorithms find     *)
(* what there is; and every answer is accepted, at once and after the run  *)
(* has grown.                                                              *)
(***************************************************************************)
EXTENDS Schedules, ProjectionProofs, WellFoundedInduction

----------------------------------------------------------------------------
(* Induction and recursion up to a number                                  *)

\* The order of the numbers.
Lt == {pair \in Nat \X Nat : pair[1] < pair[2]}

\* Induction up to a number, for a set of numbers.
LEMMA UpTo ==
    ASSUME NEW n \in Nat, NEW T, 0 \in T, \A i \in 1..n : i - 1 \in T => i \in T
    PROVE  0..n \subseteq T
  <1>1. PICK Bad : Bad = {i \in 0..n : i \notin T}
    OBVIOUS
  <1>2. SUFFICES ASSUME Bad # {} PROVE FALSE
    BY <1>1
  <1>3. IsWellFoundedOn(Lt, Nat)
    BY NatLessThanWellFounded DEF OpToRel, Lt
  <1>4. Bad \subseteq Nat
    BY <1>1
  <1>5. PICK i \in Bad : \A m \in Bad : ~(<<m, i>> \in Lt)
    BY <1>2, <1>3, <1>4, WFMin
  <1>6. i \in 0..n /\ i \notin T /\ i # 0
    BY <1>1
  <1>7. i \in 1..n /\ i - 1 \in 0..n /\ i - 1 \notin T
    BY <1>6
  <1>8. i - 1 \in Bad /\ <<i - 1, i>> \in Lt
    BY <1>1, <1>6, <1>7 DEF Lt
  <1>. QED
    BY <1>5, <1>8

\* A function defined by recursion up to a number.
Iterate(h, n, start, F) == h = [i \in 0..n |-> IF i = 0 THEN start ELSE F[<<i, h[i - 1]>>]]

\* It exists.
LEMMA Iterates ==
    ASSUME NEW n \in Nat, NEW S, NEW start \in S, NEW F \in [(1..n) \X S -> S]
    PROVE  \E h \in [0..n -> S] : Iterate(h, n, start, F)
  <1>1. PICK T : T = {k \in 0..n : \E h \in [0..k -> S] : Iterate(h, k, start, F)}
    OBVIOUS
  <1>2. 0 \in T
    <2>1. PICK h : h = [i \in 0..0 |-> start]
      OBVIOUS
    <2>2. h \in [0..0 -> S] /\ h = [i \in 0..0 |-> IF i = 0 THEN start ELSE F[<<i, h[i - 1]>>]]
      BY <2>1
    <2>. QED
      BY <1>1, <2>2 DEF Iterate
  <1>3. ASSUME NEW k \in 1..n, k - 1 \in T
        PROVE  k \in T
    <2>1. PICK h \in [0..k - 1 -> S] : Iterate(h, k - 1, start, F)
      BY <1>1, <1>3
    <2>2. \A i \in 0..k - 1 : h[i] = IF i = 0 THEN start ELSE F[<<i, h[i - 1]>>]
      BY <2>1 DEF Iterate
    <2>3. PICK last : last = F[<<k, h[k - 1]>>]
      OBVIOUS
    <2>4. last \in S
      BY <2>1, <2>3
    <2>5. PICK g : g = [i \in 0..k |-> IF i = k THEN last ELSE h[i]]
      OBVIOUS
    <2>6. /\ g \in [0..k -> S]
          /\ g[k] = last /\ \A i \in 0..k - 1 : g[i] = h[i]
      BY <2>1, <2>4, <2>5
    <2>7. \A i \in 0..k : g[i] = IF i = 0 THEN start ELSE F[<<i, g[i - 1]>>]
      <3>. TAKE i \in 0..k
      <3>1. CASE i = k
        BY <2>3, <2>6, <3>1
      <3>2. CASE i \in 1..k - 1
        <4>1. i - 1 \in 0..k - 1 /\ i \in 0..k - 1 /\ i # 0
          BY <3>2
        <4>. QED
          BY <2>2, <2>6, <4>1
      <3>3. CASE i = 0
        <4>1. 0 \in 0..k - 1
          OBVIOUS
        <4>. QED
          BY <2>2, <2>6, <3>3, <4>1
      <3>. QED
        BY <3>1, <3>2, <3>3
    <2>8. g = [i \in 0..k |-> IF i = 0 THEN start ELSE F[<<i, g[i - 1]>>]]
      BY <2>6, <2>7
    <2>9. Iterate(g, k, start, F)
      BY <2>8 DEF Iterate
    <2>. QED
      BY <1>1, <2>6, <2>9
  <1>4. n \in T
    BY <1>2, <1>3, UpTo
  <1>. QED
    BY <1>1, <1>4

\* A function defined by recursion over the subsets of a set, element by element.
SetIterate(h, S, start, F) ==
    h = [s \in SUBSET S |-> IF s = {} THEN start
                            ELSE F[<<CHOOSE x \in s : TRUE, h[s \ {CHOOSE x \in s : TRUE}]>>]]

\* It exists.
LEMMA SetIterates ==
    ASSUME NEW S, IsFiniteSet(S), NEW V, NEW start \in V, NEW F \in [S \X V -> V]
    PROVE  \E h \in [SUBSET S -> V] : SetIterate(h, S, start, F)
  <1>1. PICK n : n = Cardinality(S)
    OBVIOUS
  <1>2. n \in Nat /\ \A s \in SUBSET S : /\ IsFiniteSet(s)
                                         /\ Cardinality(s) \in 0..n
                                         /\ Cardinality(s) = 0 <=> s = {}
    <2>1. n \in Nat
      BY <1>1, FS_CardinalityType
    <2>2. ASSUME NEW s \in SUBSET S
          PROVE  IsFiniteSet(s) /\ Cardinality(s) \in 0..n /\ (Cardinality(s) = 0 <=> s = {})
      <3>1. IsFiniteSet(s) /\ Cardinality(s) =< n
        BY <1>1, FS_Subset
      <3>. QED
        BY <2>1, <3>1, FS_CardinalityType, FS_EmptySet
    <2>. QED
      BY <2>1, <2>2
  <1>3. PICK pick : pick = [s \in SUBSET S |-> CHOOSE x \in s : TRUE]
    OBVIOUS
  <1>4. \A s \in SUBSET S : pick[s] = CHOOSE x \in s : TRUE
    BY <1>3
  <1>5. \A s \in SUBSET S : s # {} => pick[s] \in s
    BY <1>4
  <1>6. PICK Small : Small = [k \in 0..n |-> {s \in SUBSET S : Cardinality(s) =< k}]
    OBVIOUS
  <1>7. \A k \in 0..n : \A s : s \in Small[k] <=> s \in SUBSET S /\ Cardinality(s) =< k
    BY <1>6
  <1>8. \A k \in 0..n : \A s \in Small[k] : s # {} => s \ {pick[s]} \in Small[k]
    <2>. TAKE k \in 0..n
    <2>. TAKE s \in Small[k]
    <2>. HAVE s # {}
    <2>1. s \in SUBSET S /\ Cardinality(s) =< k /\ pick[s] \in s
      BY <1>5, <1>7
    <2>2. IsFiniteSet(s) /\ Cardinality(s) \in Nat
      BY <1>2, <2>1
    <2>3. Cardinality(s \ {pick[s]}) = Cardinality(s) - 1
      <3>1. PICK x : x = pick[s]
        OBVIOUS
      <3>2. Cardinality(s \ {x}) = Cardinality(s) - 1
        BY <2>1, <2>2, <3>1, FS_RemoveElement
      <3>. QED
        BY <3>1, <3>2
    <2>. QED
      BY <1>7, <2>1, <2>2, <2>3
  <1>9. PICK T : T = {k \in 0..n : \E h \in [Small[k] -> V] :
                          \A s \in Small[k] : h[s] = IF s = {} THEN start
                                                     ELSE F[<<pick[s], h[s \ {pick[s]}]>>]}
    OBVIOUS
  <1>10. 0 \in T
    <2>1. PICK h : h = [s \in Small[0] |-> start]
      OBVIOUS
    <2>2. \A s \in Small[0] : s = {}
      BY <1>2, <1>7
    <2>3. h \in [Small[0] -> V] /\ \A s \in Small[0] : h[s] = start
      BY <2>1
    <2>. QED
      BY <1>2, <1>9, <2>2, <2>3
  <1>11. ASSUME NEW k \in 1..n, k - 1 \in T
         PROVE  k \in T
    <2>1. k - 1 \in 0..n /\ k \in 0..n
      BY <1>2
    <2>2. PICK h \in [Small[k - 1] -> V] :
              \A s \in Small[k - 1] : h[s] = IF s = {} THEN start
                                             ELSE F[<<pick[s], h[s \ {pick[s]}]>>]
      BY <1>9, <1>11
    <2>3. PICK g : g = [s \in Small[k] |-> IF s \in Small[k - 1] THEN h[s]
                                           ELSE F[<<pick[s], h[s \ {pick[s]}]>>]]
      OBVIOUS
    <2>4. ASSUME NEW s \in Small[k], s \notin Small[k - 1]
          PROVE  s # {} /\ pick[s] \in S /\ s \ {pick[s]} \in Small[k - 1]
      <3>1. s \in SUBSET S /\ Cardinality(s) =< k /\ ~(Cardinality(s) =< k - 1)
        BY <1>7, <2>1, <2>4
      <3>2. IsFiniteSet(s) /\ Cardinality(s) \in Nat /\ s # {}
        BY <1>2, <2>1, <3>1
      <3>3. pick[s] \in s
        BY <1>5, <3>1, <3>2
      <3>4. Cardinality(s \ {pick[s]}) = Cardinality(s) - 1
        BY <3>2, <3>3, FS_RemoveElement
      <3>. QED
        BY <1>7, <2>1, <3>1, <3>2, <3>3, <3>4
    <2>5. ASSUME NEW s \in Small[k]
          PROVE  /\ g[s] \in V
                 /\ s \in Small[k - 1] => g[s] = h[s]
                 /\ s \notin Small[k - 1] => g[s] = F[<<pick[s], h[s \ {pick[s]}]>>]
      <3>1. CASE s \in Small[k - 1]
        BY <2>2, <2>3, <3>1
      <3>2. CASE s \notin Small[k - 1]
        <4>1. h[s \ {pick[s]}] \in V /\ pick[s] \in S
          BY <2>2, <2>4, <3>2
        <4>. QED
          BY <2>3, <3>2, <4>1
      <3>. QED
        BY <3>1, <3>2
    <2>6. g \in [Small[k] -> V]
      BY <2>3, <2>5
    <2>7. ASSUME NEW s \in Small[k]
          PROVE  g[s] = IF s = {} THEN start ELSE F[<<pick[s], g[s \ {pick[s]}]>>]
      <3>1. CASE s \in Small[k - 1]
        <4>1. s # {} => s \ {pick[s]} \in Small[k - 1] /\ s \ {pick[s]} \in Small[k]
          BY <1>8, <2>1, <3>1
        <4>. QED
          BY <2>2, <2>5, <3>1, <4>1
      <3>2. CASE s \notin Small[k - 1]
        <4>1. s # {} /\ s \ {pick[s]} \in Small[k - 1] /\ s \ {pick[s]} \in Small[k]
          BY <1>8, <2>1, <2>4, <3>2
        <4>. QED
          BY <2>5, <3>2, <4>1
      <3>. QED
        BY <3>1, <3>2
    <2>. QED
      BY <1>9, <2>1, <2>6, <2>7
  <1>12. n \in T
    <2>1. 0..n \subseteq T
      BY <1>2, <1>10, <1>11, UpTo
    <2>. QED
      BY <1>2, <2>1
  <1>13. Small[n] = SUBSET S
    BY <1>2, <1>7
  <1>14. PICK h \in [SUBSET S -> V] :
             \A s \in SUBSET S : h[s] = IF s = {} THEN start ELSE F[<<pick[s], h[s \ {pick[s]}]>>]
    BY <1>9, <1>12, <1>13
  <1>15. h = [s \in SUBSET S |-> IF s = {} THEN start
                                 ELSE F[<<CHOOSE x \in s : TRUE, h[s \ {CHOOSE x \in s : TRUE}]>>]]
    BY <1>4, <1>14, ZenonT(60)
  <1>. QED
    BY <1>15 DEF SetIterate

----------------------------------------------------------------------------
(* Edges in order                                                          *)

\* What a list holds.
Listed(s) == {s[i] : i \in DOMAIN s}

\* An insertion adds the edge to those of the list.
LEMMA InsertedSays ==
    ASSUME NEW X, NEW s \in Seq(X), NEW e \in X
    PROVE  Inserted(e, s) \in Seq(X) /\ Listed(Inserted(e, s)) = Listed(s) \cup {e}
  <1>1. PICK n : n = Len(s)
    OBVIOUS
  <1>2. n \in Nat /\ DOMAIN s = 1..n /\ \A i \in 1..n : s[i] \in X
    BY <1>1, LenProperties, ElementOfSeq
  <1>3. PICK k : k = Cardinality({i \in DOMAIN s : EdgeBefore(s[i], e)})
    OBVIOUS
  <1>4. k \in 0..n
    <2>1. PICK B : B = {i \in DOMAIN s : EdgeBefore(s[i], e)}
      OBVIOUS
    <2>2. IsFiniteSet(1..n) /\ Cardinality(1..n) = n
      <3>1. \A a, b \in Int : IsFiniteSet(a..b) /\ Cardinality(a..b) = IF a > b THEN 0 ELSE b - a + 1
        BY FS_Interval
      <3>2. 1 \in Int /\ n \in Int /\ (IF 1 > n THEN 0 ELSE n - 1 + 1) = n
        BY <1>2
      <3>3. IsFiniteSet(1..n) /\ Cardinality(1..n) = IF 1 > n THEN 0 ELSE n - 1 + 1
        BY <3>1, <3>2
      <3>. QED
        BY <3>2, <3>3
    <2>3. B \in SUBSET (1..n)
      BY <1>2, <2>1
    <2>4. IsFiniteSet(B) /\ Cardinality(B) =< n
      BY <2>2, <2>3, FS_Subset
    <2>5. Cardinality(B) \in Nat
      BY <2>4, FS_CardinalityType
    <2>6. PICK c : c = Cardinality(B)
      OBVIOUS
    <2>7. c \in 0..n
      BY <1>2, <2>4, <2>5, <2>6
    <2>. QED
      BY <1>3, <2>1, <2>6, <2>7
  <1>5. PICK a, m, b : a = SubSeq(s, 1, k) /\ m = <<e>> /\ b = SubSeq(s, k + 1, n)
    OBVIOUS
  <1>6. /\ a \in Seq(X) /\ Len(a) = k /\ \A i \in 1..k : a[i] = s[i]
        /\ b \in Seq(X) /\ Len(b) = n - k /\ \A i \in 1..n - k : b[i] = s[k + i]
    <2>1. /\ a \in Seq(X) /\ Len(a) = (IF 1 =< k THEN k - 1 + 1 ELSE 0)
          /\ \A i \in 1..k - 1 + 1 : a[i] = s[1 + i - 1]
      <3>1. k \in Int /\ 1 \in Int /\ \A i \in 1..k : s[i] \in X
        BY <1>2, <1>4
      <3>. QED
        BY <1>5, <3>1, SubSeqProperties
    <2>2. /\ b \in Seq(X) /\ Len(b) = (IF k + 1 =< n THEN n - (k + 1) + 1 ELSE 0)
          /\ \A i \in 1..n - (k + 1) + 1 : b[i] = s[k + 1 + i - 1]
      <3>1. k + 1 \in Int /\ n \in Int /\ \A i \in k + 1..n : s[i] \in X
        BY <1>2, <1>4
      <3>. QED
        BY <1>5, <3>1, SubSeqProperties
    <2>3. k - 1 + 1 = k /\ n - (k + 1) + 1 = n - k
      BY <1>2, <1>4
    <2>4. (IF 1 =< k THEN k - 1 + 1 ELSE 0) = k /\ (IF k + 1 =< n THEN n - (k + 1) + 1 ELSE 0) = n - k
      BY <1>2, <1>4
    <2>5. \A i \in 1..k : 1 + i - 1 = i
      BY <1>4
    <2>6. \A i \in 1..n - k : k + 1 + i - 1 = k + i
      BY <1>2, <1>4
    <2>. QED
      BY <2>1, <2>2, <2>3, <2>4, <2>5, <2>6
  <1>7. m \in Seq(X) /\ Len(m) = 1 /\ m[1] = e
    BY <1>5
  <1>8. PICK c : c = a \o m
    OBVIOUS
  <1>9. /\ c \in Seq(X) /\ Len(c) = k + 1
        /\ \A i \in 1..k + 1 : c[i] = IF i =< k THEN a[i] ELSE m[i - k]
    <2>1. /\ c \in Seq(X) /\ Len(c) = Len(a) + Len(m)
          /\ \A i \in 1..Len(a) + Len(m) : c[i] = IF i <= Len(a) THEN a[i] ELSE m[i - Len(a)]
      BY <1>6, <1>7, <1>8, ConcatProperties, ZenonT(60)
    <2>2. Len(a) = k /\ Len(m) = 1
      BY <1>6, <1>7
    <2>. QED
      BY <2>1, <2>2
  <1>10. PICK r : r = c \o b
    OBVIOUS
  <1>11. /\ r \in Seq(X) /\ Len(r) = k + 1 + (n - k)
         /\ \A i \in 1..k + 1 + (n - k) : r[i] = IF i =< k + 1 THEN c[i] ELSE b[i - (k + 1)]
    <2>1. /\ r \in Seq(X) /\ Len(r) = Len(c) + Len(b)
          /\ \A i \in 1..Len(c) + Len(b) : r[i] = IF i <= Len(c) THEN c[i] ELSE b[i - Len(c)]
      BY <1>6, <1>9, <1>10, ConcatProperties, ZenonT(60)
    <2>2. Len(c) = k + 1 /\ Len(b) = n - k
      BY <1>6, <1>9
    <2>. QED
      BY <2>1, <2>2
  <1>12. Inserted(e, s) = r
    BY <1>1, <1>3, <1>5, <1>8, <1>10 DEF Inserted
  <1>13. k + 1 + (n - k) = n + 1
    BY <1>2, <1>4
  <1>14. DOMAIN r = 1..n + 1
    BY <1>11, <1>13, LenProperties
  <1>15. \A i \in 1..k : i \in 1..n + 1 /\ r[i] = s[i]
    <2>. TAKE i \in 1..k
    <2>1. i \in 1..n + 1 /\ i =< k /\ i \in 1..k + 1 /\ i =< k + 1
      BY <1>2, <1>4
    <2>. QED
      BY <1>6, <1>9, <1>11, <1>13, <2>1
  <1>16. k + 1 \in 1..n + 1 /\ r[k + 1] = e
    <2>1. k + 1 \in 1..n + 1 /\ k + 1 \in 1..k + 1 /\ k + 1 =< k + 1 /\ ~(k + 1 =< k) /\ k + 1 - k = 1
      BY <1>2, <1>4
    <2>2. PICK j : j = k + 1
      OBVIOUS
    <2>3. j \in 1..k + 1 /\ ~(j =< k)
      BY <1>4, <2>2
    <2>4. c[j] = m[j - k] /\ j - k = 1
      BY <1>4, <1>9, <2>2, <2>3
    <2>5. r[k + 1] = c[k + 1]
      BY <1>11, <1>13, <2>1
    <2>6. c[j] = e
      BY <1>7, <2>4
    <2>. QED
      BY <2>1, <2>5, <2>2, <2>6
  <1>17. \A i \in k + 1..n : i + 1 \in 1..n + 1 /\ r[i + 1] = s[i]
    <2>. TAKE i \in k + 1..n
    <2>1. /\ i + 1 \in 1..n + 1 /\ ~(i + 1 =< k + 1) /\ i + 1 - (k + 1) = i - k
          /\ i - k \in 1..n - k /\ k + (i - k) = i
      BY <1>2, <1>4
    <2>2. PICK j : j = i + 1
      OBVIOUS
    <2>3. j \in 1..k + 1 + (n - k) /\ ~(j =< k + 1)
      BY <1>2, <1>4, <2>2
    <2>4. r[j] = b[j - (k + 1)] /\ j - (k + 1) = i - k
      BY <1>2, <1>4, <1>11, <2>2, <2>3
    <2>5. r[j] = b[i - k]
      BY <2>4
    <2>6. b[i - k] = s[i]
      BY <1>6, <2>1
    <2>. QED
      BY <2>1, <2>6, <2>2, <2>5
  <1>18. \A i \in 1..n + 1 : r[i] = e \/ \E j \in 1..n : r[i] = s[j]
    <2>. TAKE i \in 1..n + 1
    <2>1. CASE i \in 1..k
      BY <1>2, <1>4, <1>15, <2>1
    <2>2. CASE i = k + 1
      BY <1>16, <2>2
    <2>3. CASE i \in k + 2..n + 1
      <3>1. i - 1 \in k + 1..n /\ i - 1 \in 1..n /\ (i - 1) + 1 = i
        BY <1>2, <1>4, <2>3
      <3>. QED
        BY <1>17, <3>1
    <2>. QED
      BY <1>2, <1>4, <2>1, <2>2, <2>3
  <1>19. \A j \in 1..n : \E i \in 1..n + 1 : r[i] = s[j]
    <2>. TAKE j \in 1..n
    <2>1. j \in 1..k \/ j \in k + 1..n
      BY <1>2, <1>4
    <2>. QED
      BY <1>15, <1>17, <2>1
  <1>20. \A x : (\E i \in DOMAIN r : r[i] = x) <=> x = e \/ \E i \in DOMAIN s : s[i] = x
    BY <1>2, <1>14, <1>16, <1>18, <1>19
  <1>21. Listed(r) = Listed(s) \cup {e}
    BY <1>20 DEF Listed
  <1>. QED
    BY <1>11, <1>12, <1>21

\* The recursion that sorts.
Sorting(f, S) ==
    f = [s \in SUBSET S |->
             IF s = {} THEN <<>>
             ELSE Inserted(CHOOSE x \in s : TRUE, f[s \ {CHOOSE x \in s : TRUE}])]

\* Sorting keeps the edges.
LEMMA SortedSays ==
    ASSUME NEW S, IsFiniteSet(S)
    PROVE  Sorted(S) \in Seq(S) /\ Listed(Sorted(S)) = S
  <1>1. PICK V : V = Seq(S)
    OBVIOUS
  <1>2. PICK F : F = [p \in S \X V |-> Inserted(p[1], p[2])]
    OBVIOUS
  <1>3. \A e \in S, v \in V : Inserted(e, v) \in V /\ Listed(Inserted(e, v)) = Listed(v) \cup {e}
    BY <1>1, InsertedSays
  <1>4. F \in [S \X V -> V] /\ \A e \in S, v \in V : F[<<e, v>>] = Inserted(e, v)
    BY <1>2, <1>3
  <1>5. <<>> \in V
    BY <1>1, EmptySeq
  <1>6. PICK h \in [SUBSET S -> V] : SetIterate(h, S, <<>>, F)
    BY <1>4, <1>5, SetIterates
  <1>7. \A s \in SUBSET S :
            h[s] = IF s = {} THEN <<>>
                   ELSE F[<<CHOOSE x \in s : TRUE, h[s \ {CHOOSE x \in s : TRUE}]>>]
    BY <1>6 DEF SetIterate
  <1>8. Sorting(h, S)
    <2>1. ASSUME NEW s \in SUBSET S, s # {}
          PROVE  h[s] = Inserted(CHOOSE x \in s : TRUE, h[s \ {CHOOSE x \in s : TRUE}])
      <3>1. PICK y : y = CHOOSE x \in s : TRUE
        OBVIOUS
      <3>2. y \in s
        BY <2>1, <3>1
      <3>3. y \in S /\ h[s \ {y}] \in V
        BY <1>6, <3>2
      <3>4. h[s] = F[<<y, h[s \ {y}]>>]
        BY <1>7, <2>1, <3>1
      <3>5. h[s] = Inserted(y, h[s \ {y}])
        BY <1>4, <3>3, <3>4
      <3>. QED
        BY <3>1, <3>5
    <2>2. \A s \in SUBSET S : h[s] = IF s = {} THEN <<>>
                 ELSE Inserted(CHOOSE x \in s : TRUE, h[s \ {CHOOSE x \in s : TRUE}])
      BY <1>7, <2>1
    <2>. QED
      BY <1>6, <2>2 DEF Sorting
  <1>9. PICK g : g = CHOOSE f : Sorting(f, S)
    OBVIOUS
  <1>10. Sorting(g, S)
    BY <1>8, <1>9
  <1>11. Sorted(S) = g[S]
    BY <1>9 DEF Sorted, FoldSet, MapThenFoldSet, Sorting
  <1>12. PICK pick : pick = [s \in SUBSET S |-> CHOOSE x \in s : TRUE]
    OBVIOUS
  <1>13. \A s \in SUBSET S : /\ s = {} => g[s] = <<>>
                             /\ s # {} => pick[s] \in s /\ g[s] = Inserted(pick[s], g[s \ {pick[s]}])
    BY <1>10, <1>12 DEF Sorting
  <1>14. PICK n : n = Cardinality(S)
    OBVIOUS
  <1>15. n \in Nat /\ \A s \in SUBSET S : /\ IsFiniteSet(s)
                                          /\ Cardinality(s) \in 0..n
                                          /\ Cardinality(s) = 0 <=> s = {}
    <2>1. n \in Nat
      BY <1>14, FS_CardinalityType
    <2>2. ASSUME NEW s \in SUBSET S
          PROVE  IsFiniteSet(s) /\ Cardinality(s) \in 0..n /\ (Cardinality(s) = 0 <=> s = {})
      <3>1. IsFiniteSet(s) /\ Cardinality(s) =< n
        BY <1>14, FS_Subset
      <3>. QED
        BY <2>1, <3>1, FS_CardinalityType, FS_EmptySet
    <2>. QED
      BY <2>1, <2>2
  <1>16. PICK Fine : Fine = {s \in SUBSET S : g[s] \in V /\ Listed(g[s]) = s}
    OBVIOUS
  <1>17. PICK T : T = {k \in 0..n : \A s \in SUBSET S : Cardinality(s) = k => s \in Fine}
    OBVIOUS
  <1>18. 0 \in T
    <2>1. Listed(<<>>) = {}
      BY DEF Listed
    <2>2. {} \in Fine
      BY <1>5, <1>13, <1>16, <2>1
    <2>. QED
      BY <1>15, <1>17, <2>2
  <1>19. ASSUME NEW k \in 1..n, k - 1 \in T
         PROVE  k \in T
    <2>1. ASSUME NEW s \in SUBSET S, Cardinality(s) = k
          PROVE  s \in Fine
      <3>1. s # {} /\ IsFiniteSet(s)
        BY <1>15, <2>1
      <3>2. PICK y, r : y = pick[s] /\ r = s \ {pick[s]}
        OBVIOUS
      <3>3. y \in s /\ r = s \ {y} /\ g[s] = Inserted(y, g[r])
        BY <1>13, <3>1, <3>2
      <3>4. Cardinality(r) = k - 1 /\ r \in SUBSET S
        BY <2>1, <3>1, <3>3, FS_RemoveElement
      <3>5. r \in Fine
        BY <1>17, <1>19, <3>4
      <3>6. PICK u : u = g[r]
        OBVIOUS
      <3>7. u \in V /\ Listed(u) = r
        BY <1>16, <3>5, <3>6
      <3>8. PICK w : w = Inserted(y, u)
        OBVIOUS
      <3>9. w \in V /\ Listed(w) = Listed(u) \cup {y}
        BY <1>3, <3>3, <3>7, <3>8
      <3>10. Listed(w) = s
        BY <3>3, <3>7, <3>9
      <3>11. g[s] = w
        BY <3>3, <3>6, <3>8
      <3>. QED
        BY <1>16, <3>9, <3>10, <3>11
    <2>2. k \in 0..n
      BY <1>15
    <2>. QED
      BY <1>17, <2>1, <2>2
  <1>20. S \in Fine
    <2>1. n \in T
      <3>1. 0..n \subseteq T
        BY <1>15, <1>18, <1>19, UpTo
      <3>. QED
        BY <1>15, <3>1
    <2>. QED
      BY <1>14, <1>17, <2>1
  <1>. QED
    BY <1>1, <1>11, <1>16, <1>20

----------------------------------------------------------------------------
(* Paths and cycles                                                        *)

\* A graph of whole weights.
IsGraph(graph) ==
    \A e \in EdgesOf(graph) : e.from \in graph.nodes /\ e.to \in graph.nodes /\ e.weight \in Int

\* A schedule, in whole numbers.
Schedule(s, graph) == s \in [graph.nodes -> Int] /\ Satisfies(s, graph)

\* A sum adds up, edge by edge.
LEMMA WeightAdds ==
    ASSUME NEW X, NEW edges \in Seq(X), \A i \in 1..Len(edges) : edges[i].weight \in Int
    PROVE  \E sum : /\ sum[0] = 0
                    /\ \A i \in 1..Len(edges) : sum[i] = sum[i - 1] + edges[i].weight
                    /\ Weight(edges) = sum[Len(edges)]
  <1>1. PICK n : n = Len(edges)
    OBVIOUS
  <1>2. n \in Nat
    BY <1>1, LenProperties
  <1>3. PICK F : F = [p \in (1..n) \X Int |-> p[2] + edges[p[1]].weight]
    OBVIOUS
  <1>4. /\ F \in [(1..n) \X Int -> Int]
        /\ \A i \in 1..n, x \in Int : F[<<i, x>>] = x + edges[i].weight
    BY <1>1, <1>3
  <1>5. PICK h \in [0..n -> Int] : Iterate(h, n, 0, F)
    <2>1. PICK S : S = Int
      OBVIOUS
    <2>2. 0 \in S /\ F \in [(1..n) \X S -> S]
      BY <1>4, <2>1
    <2>3. \E h \in [0..n -> S] : Iterate(h, n, 0, F)
      BY <1>2, <2>2, Iterates
    <2>. QED
      BY <2>1, <2>3
  <1>6. h = [i \in 0..n |-> IF i = 0 THEN 0 ELSE h[i - 1] + edges[i].weight]
    <2>1. \A i \in 0..n : h[i] = IF i = 0 THEN 0 ELSE F[<<i, h[i - 1]>>]
      BY <1>5 DEF Iterate
    <2>2. \A i \in 1..n : i - 1 \in 0..n /\ h[i - 1] \in Int
      BY <1>2, <1>5
    <2>3. \A i \in 0..n : h[i] = IF i = 0 THEN 0 ELSE h[i - 1] + edges[i].weight
      <3>1. ASSUME NEW i \in 1..n
            PROVE  h[i] = h[i - 1] + edges[i].weight
        <4>1. i \in 0..n /\ i # 0
          BY <1>2
        <4>2. h[i] = F[<<i, h[i - 1]>>]
          BY <2>1, <4>1
        <4>. QED
          BY <1>4, <2>2, <4>2
      <3>4. 0 \in 0..n /\ \A i \in 0..n : i = 0 \/ i \in 1..n
        BY <1>2
      <3>2. h[0] = 0
        BY <2>1, <3>4
      <3>3. \A i \in 1..n : i # 0
        BY <1>2
      <3>. QED
        BY <3>1, <3>2, <3>3, <3>4
    <2>. QED
      BY <1>5, <2>3
  <1>7. PICK g : g = CHOOSE f : f = [i \in 0..n |-> IF i = 0 THEN 0 ELSE f[i - 1] + edges[i].weight]
    OBVIOUS
  <1>8. g = [i \in 0..n |-> IF i = 0 THEN 0 ELSE g[i - 1] + edges[i].weight]
    BY <1>6, <1>7
  <1>9. Weight(edges) = g[n]
    BY <1>1, <1>7 DEF Weight
  <1>10. g[0] = 0 /\ \A i \in 1..n : g[i] = g[i - 1] + edges[i].weight
    BY <1>2, <1>8
  <1>. QED
    BY <1>1, <1>9, <1>10

\* The sum is a whole number.
LEMMA WeightTyped ==
    ASSUME NEW X, NEW edges \in Seq(X), \A i \in 1..Len(edges) : edges[i].weight \in Int
    PROVE  Weight(edges) \in Int
  <1>1. PICK n : n = Len(edges)
    OBVIOUS
  <1>2. n \in Nat
    BY <1>1, LenProperties
  <1>3. PICK sum : /\ sum[0] = 0
                   /\ \A i \in 1..n : sum[i] = sum[i - 1] + edges[i].weight
                   /\ Weight(edges) = sum[n]
    BY <1>1, WeightAdds
  <1>4. PICK T : T = {i \in 0..n : sum[i] \in Int}
    OBVIOUS
  <1>5. 0 \in T
    BY <1>2, <1>3, <1>4
  <1>6. ASSUME NEW i \in 1..n, i - 1 \in T
        PROVE  i \in T
    BY <1>1, <1>2, <1>3, <1>4, <1>6
  <1>7. 0..n \subseteq T
    BY <1>2, <1>5, <1>6, UpTo
  <1>. QED
    BY <1>2, <1>3, <1>4, <1>7

\* Along edges that lead on from one another no schedule gains more than they weigh.
LEMMA PathGains ==
    ASSUME NEW graph, IsGraph(graph), NEW s \in [graph.nodes -> Int], Satisfies(s, graph),
           NEW X, NEW edges \in Seq(X), edges # <<>>,
           \A i \in 1..Len(edges) : edges[i] \in EdgesOf(graph),
           \A i \in 1..Len(edges) : i > 1 => edges[i - 1].to = edges[i].from
    PROVE  s[edges[Len(edges)].to] - s[edges[1].from] =< Weight(edges)
  <1>1. PICK n : n = Len(edges)
    OBVIOUS
  <1>2. n \in Nat /\ n # 0
    BY <1>1, EmptySeq, LenProperties
  <1>3. \A i \in 1..n : /\ edges[i].weight \in Int
                        /\ s[edges[i].from] \in Int /\ s[edges[i].to] \in Int
                        /\ s[edges[i].to] - s[edges[i].from] =< edges[i].weight
    BY <1>1 DEF IsGraph, Satisfies
  <1>4. PICK sum : /\ sum[0] = 0
                   /\ \A i \in 1..n : sum[i] = sum[i - 1] + edges[i].weight
                   /\ Weight(edges) = sum[n]
    BY <1>1, <1>3, WeightAdds
  <1>5. PICK T : T = {i \in 0..n : /\ sum[i] \in Int
                                   /\ i # 0 => s[edges[i].to] - s[edges[1].from] =< sum[i]}
    OBVIOUS
  <1>6. 0 \in T
    BY <1>2, <1>4, <1>5
  <1>7. ASSUME NEW i \in 1..n, i - 1 \in T
        PROVE  i \in T
    <2>1. /\ sum[i - 1] \in Int /\ sum[i] = sum[i - 1] + edges[i].weight
          /\ edges[i].weight \in Int
      BY <1>3, <1>4, <1>5, <1>7
    <2>2. sum[i] \in Int
      BY <2>1
    <2>3. PICK a, b, c, w : /\ a = s[edges[1].from] /\ b = s[edges[i].from]
                            /\ c = s[edges[i].to] /\ w = edges[i].weight
      OBVIOUS
    <2>4. a \in Int /\ b \in Int /\ c \in Int /\ w \in Int /\ c - b =< w
      BY <1>2, <1>3, <2>3
    <2>5. b - a =< sum[i - 1]
      <3>1. CASE i = 1
        <4>1. b = a /\ sum[i - 1] = 0
          BY <1>4, <2>3, <3>1
        <4>. QED
          BY <2>4, <4>1
      <3>2. CASE i # 1
        <4>1. i - 1 # 0 /\ i - 1 \in 1..n /\ i > 1
          BY <1>2, <3>2
        <4>2. edges[i - 1].to = edges[i].from
          BY <1>1, <4>1
        <4>. QED
          BY <1>5, <1>7, <2>3, <4>1, <4>2
      <3>. QED
        BY <3>1, <3>2
    <2>6. c - a =< sum[i]
      BY <2>1, <2>3, <2>4, <2>5, SMTT(30)
    <2>7. i \in 0..n
      BY <1>2
    <2>. QED
      BY <1>5, <2>2, <2>3, <2>6, <2>7
  <1>8. n \in T
    <2>1. 0..n \subseteq T
      BY <1>2, <1>6, <1>7, UpTo
    <2>. QED
      BY <1>2, <2>1
  <1>. QED
    BY <1>1, <1>2, <1>4, <1>5, <1>8

\* What the verifier takes for a negative cycle has no schedule: every schedule would
\* gain on the way around.
THEOREM CyclesRefute ==
    ASSUME NEW graph, IsGraph(graph), NEW proof, NEW X, proof.edges \in Seq(X),
           VerifyCycle(proof, graph)
    PROVE  ~\E s \in [graph.nodes -> Int] : Satisfies(s, graph)
  <1>. SUFFICES ASSUME NEW s \in [graph.nodes -> Int], Satisfies(s, graph)
                PROVE  FALSE
    OBVIOUS
  <1>1. PICK edges : edges = proof.edges
    OBVIOUS
  <1>2. PICK n : n = Len(edges)
    OBVIOUS
  <1>3. n \in Nat /\ n # 0 /\ DOMAIN edges = 1..n /\ edges \in Seq(X) /\ edges # <<>>
    BY <1>1, <1>2, EmptySeq, LenProperties DEF VerifyCycle
  <1>4. /\ \A i \in 1..n : edges[i] \in EdgesOf(graph)
        /\ \A i \in 1..n : edges[i].to = edges[(i % n) + 1].from
        /\ Weight(edges) < 0
    BY <1>1, <1>2, <1>3 DEF VerifyCycle
  <1>5. \A i \in 1..n : i > 1 => edges[i - 1].to = edges[i].from
    <2>. SUFFICES ASSUME NEW i \in 1..n, i > 1
                  PROVE  edges[i - 1].to = edges[i].from
      OBVIOUS
    <2>1. i - 1 \in 1..n /\ (i - 1) % n = i - 1 /\ (i - 1) + 1 = i
      BY <1>3, SMTT(30)
    <2>. QED
      BY <1>4, <2>1
  <1>6. edges[n].to = edges[1].from
    <2>1. n \in 1..n /\ n % n = 0 /\ 0 + 1 = 1
      BY <1>3
    <2>. QED
      BY <1>4, <2>1
  <1>7. s[edges[n].to] - s[edges[1].from] =< Weight(edges)
    BY <1>2, <1>3, <1>4, <1>5, PathGains
  <1>8. s[edges[1].from] \in Int
    <2>1. 1 \in 1..n
      BY <1>3
    <2>. QED
      BY <1>4, <2>1 DEF IsGraph
  <1>9. Weight(edges) \in Int
    <2>1. \A i \in 1..n : edges[i].weight \in Int
      BY <1>4 DEF IsGraph
    <2>. QED
      BY <1>2, <1>3, <2>1, WeightTyped
  <1>10. PICK a, w : a = s[edges[1].from] /\ w = Weight(edges)
    OBVIOUS
  <1>11. a \in Int /\ w \in Int /\ a - a =< w /\ w < 0
    BY <1>4, <1>6, <1>7, <1>8, <1>9, <1>10
  <1>. QED
    BY <1>11

\* What the verifier takes for a path bounds every schedule.
THEOREM PathsBound ==
    ASSUME NEW graph, IsGraph(graph), NEW X, NEW edges \in Seq(X), NEW source \in graph.nodes,
           NEW target, NEW expected, expected # Missing,
           VerifyPath(edges, graph, source, target, expected)
    PROVE  \A s \in [graph.nodes -> Int] :
               Satisfies(s, graph) => s[target] - s[source] =< expected
  <1>. TAKE s \in [graph.nodes -> Int]
  <1>. HAVE Satisfies(s, graph)
  <1>1. CASE edges = <<>>
    <2>1. source = target /\ expected = 0
      BY <1>1 DEF VerifyPath
    <2>2. s[source] \in Int
      OBVIOUS
    <2>3. \A a \in Int : a - a =< 0
      OBVIOUS
    <2>. QED
      BY <2>1, <2>2, <2>3
  <1>2. CASE edges # <<>>
    <2>1. DOMAIN edges = 1..Len(edges)
      BY LenProperties
    <2>2. /\ edges[1].from = source /\ edges[Len(edges)].to = target
          /\ \A i \in DOMAIN edges : edges[i] \in EdgesOf(graph)
          /\ \A i \in DOMAIN edges : i > 1 => edges[i - 1].to = edges[i].from
          /\ Weight(edges) = expected
      BY <1>2 DEF VerifyPath
    <2>3. s[edges[Len(edges)].to] - s[edges[1].from] =< Weight(edges)
      BY <1>2, <2>1, <2>2, PathGains
    <2>. QED
      BY <2>2, <2>3
  <1>. QED
    BY <1>1, <1>2

\* What the verifier takes for a schedule is one, with every origin at zero.
THEOREM WitnessesSchedule ==
    ASSUME NEW graph, \A n \in graph.nodes : IsOrigin(n) \/ n \in Nat \ {0}, IsGraph(graph),
           NEW proof, proof.coordinates \in [PointNodes(graph) -> Int],
           VerifySchedule(proof, graph)
    PROVE  \E s \in [graph.nodes -> Int] :
               /\ Satisfies(s, graph)
               /\ \A n \in graph.nodes : IF IsOrigin(n) THEN s[n] = 0 ELSE Safe(s[n])
  <1>1. PICK s : s = [n \in graph.nodes |-> IF IsOrigin(n) THEN 0 ELSE proof.coordinates[n]]
    OBVIOUS
  <1>2. \A n \in graph.nodes : ~IsOrigin(n) => n \in PointNodes(graph)
    BY DEF PointNodes
  <1>3. s \in [graph.nodes -> Int]
    BY <1>1, <1>2
  <1>4. Satisfies(s, graph)
    <2>. SUFFICES ASSUME NEW e \in EdgesOf(graph)
                  PROVE  s[e.to] - s[e.from] =< e.weight
      BY DEF Satisfies
    <2>1. /\ s[e.to] = IF IsOrigin(e.to) THEN 0 ELSE proof.coordinates[e.to]
          /\ s[e.from] = IF IsOrigin(e.from) THEN 0 ELSE proof.coordinates[e.from]
      BY <1>1 DEF IsGraph
    <2>. QED
      BY <2>1 DEF VerifySchedule
  <1>5. \A n \in graph.nodes : IF IsOrigin(n) THEN s[n] = 0 ELSE Safe(s[n])
    BY <1>1, <1>2 DEF VerifySchedule
  <1>. QED
    BY <1>3, <1>4, <1>5

----------------------------------------------------------------------------
(* Bellman-Ford                                                            *)

\* States of the passes over a graph in which every node has a distance.
Labels(graph) ==
    [distance : [graph.nodes -> Int],
     predecessor : [graph.nodes -> EdgesOf(graph) \cup {Missing}],
     updated : graph.nodes \cup {Missing}]

\* A finite graph of whole weights over numbers.
IsNetwork(graph) ==
    /\ IsGraph(graph)
    /\ graph.nodes \subseteq Int /\ IsFiniteSet(graph.nodes)
    /\ \E X : graph.edges \in Seq(X)

\* A missing distance is no number.
LEMMA MissingIsNone == Missing \notin Int
  BY ReasonerConstants, ProjectionConstants

\* An edge that is relaxed without an update is satisfied.
LEMMA RelaxSays ==
    ASSUME NEW graph, IsNetwork(graph), NEW st \in Labels(graph), NEW e \in EdgesOf(graph)
    PROVE  /\ Relax(st, e) \in Labels(graph)
           /\ Relax(st, e).updated = Missing =>
                  /\ Relax(st, e) = st
                  /\ st.distance[e.to] - st.distance[e.from] =< e.weight
  <1>1. e.from \in graph.nodes /\ e.to \in graph.nodes /\ e.weight \in Int
    BY DEF IsNetwork, IsGraph
  <1>2. Missing \notin Int /\ e.to # Missing
    BY <1>1, MissingIsNone DEF IsNetwork
  <1>3. /\ st.distance \in [graph.nodes -> Int]
        /\ st.predecessor \in [graph.nodes -> EdgesOf(graph) \cup {Missing}]
    BY DEF Labels
  <1>4. st.distance[e.from] \in Int /\ st.distance[e.to] \in Int
    BY <1>1, <1>3
  <1>5. PICK a, b, w : a = st.distance[e.from] /\ b = st.distance[e.to] /\ w = e.weight
    OBVIOUS
  <1>6. a \in Int /\ b \in Int /\ w \in Int /\ a # Missing /\ b # Missing
    BY <1>1, <1>2, <1>4, <1>5
  <1>7. CASE a + w >= b
    <2>1. Relax(st, e) = st
      BY <1>5, <1>6, <1>7 DEF Relax
    <2>2. b - a =< w
      BY <1>6, <1>7
    <2>. QED
      BY <1>5, <2>1, <2>2
  <1>8. CASE ~(a + w >= b)
    <2>1. Relax(st, e) = [distance |-> [st.distance EXCEPT ![e.to] = a + w],
                          predecessor |-> [st.predecessor EXCEPT ![e.to] = e],
                          updated |-> e.to]
      BY <1>5, <1>6, <1>8 DEF Relax
    <2>2. [st.distance EXCEPT ![e.to] = a + w] \in [graph.nodes -> Int]
      BY <1>1, <1>3, <1>6
    <2>3. [st.predecessor EXCEPT ![e.to] = e] \in [graph.nodes -> EdgesOf(graph) \cup {Missing}]
      BY <1>1, <1>3
    <2>4. Relax(st, e) \in Labels(graph)
      BY <1>1, <2>1, <2>2, <2>3 DEF Labels
    <2>5. Relax(st, e).updated # Missing
      BY <1>2, <2>1
    <2>. QED
      BY <2>4, <2>5
  <1>. QED
    BY <1>7, <1>8

\* A set of states that the steps of a pass do not leave.
Closed(S, graph) ==
    /\ \A x \in S : [x EXCEPT !.updated = Missing] \in S
    /\ \A x \in S, e \in EdgesOf(graph) : Relax(x, e) \in S

\* A pass stays among such states.
LEMMA LabelsClosed == ASSUME NEW graph, IsNetwork(graph) PROVE Closed(Labels(graph), graph)
  <1>1. \A x \in Labels(graph) : [x EXCEPT !.updated = Missing] \in Labels(graph)
    BY DEF Labels
  <1>. QED
    BY <1>1, RelaxSays DEF Closed

\* The states of a pass, between its edges.
PassRun(S, graph, st, g) ==
    /\ g[0] = [st EXCEPT !.updated = Missing]
    /\ \A i \in 1..Len(graph.edges) : g[i] = Relax(g[i - 1], graph.edges[i])
    /\ \A i \in 0..Len(graph.edges) : g[i] \in S
    /\ Pass(graph.edges, st) = g[Len(graph.edges)]

\* They exist.
LEMMA PassRuns ==
    ASSUME NEW graph, IsNetwork(graph), NEW S, Closed(S, graph), NEW st \in S
    PROVE  \E g : PassRun(S, graph, st, g)
  <1>1. PICK edges : edges = graph.edges
    OBVIOUS
  <1>2. PICK n : n = Len(edges)
    OBVIOUS
  <1>4. PICK start : start = [st EXCEPT !.updated = Missing]
    OBVIOUS
  <1>5. n \in Nat /\ DOMAIN edges = 1..n
    BY <1>1, <1>2, LenProperties DEF IsNetwork
  <1>6. \A e : e \in EdgesOf(graph) <=> \E i \in 1..n : e = edges[i]
    BY <1>1, <1>5 DEF EdgesOf
  <1>7. start \in S
    BY <1>4 DEF Closed
  <1>8. PICK F : F = [p \in (1..n) \X S |-> Relax(p[2], edges[p[1]])]
    OBVIOUS
  <1>9. \A i \in 1..n, x \in S : Relax(x, edges[i]) \in S
    BY <1>6 DEF Closed
  <1>10. /\ F \in [(1..n) \X S -> S]
         /\ \A i \in 1..n, x \in S : F[<<i, x>>] = Relax(x, edges[i])
    BY <1>8, <1>9
  <1>11. PICK h \in [0..n -> S] : Iterate(h, n, start, F)
    BY <1>5, <1>7, <1>10, Iterates
  <1>12. h = [i \in 0..n |-> IF i = 0 THEN start ELSE Relax(h[i - 1], edges[i])]
    <2>1. \A i \in 0..n : h[i] = IF i = 0 THEN start ELSE F[<<i, h[i - 1]>>]
      BY <1>11 DEF Iterate
    <2>2. \A i \in 0..n : i # 0 => i \in 1..n /\ i - 1 \in 0..n
      BY <1>5
    <2>3. \A i \in 0..n : h[i] = IF i = 0 THEN start ELSE Relax(h[i - 1], edges[i])
      <3>. TAKE i \in 0..n
      <3>1. CASE i = 0
        BY <2>1, <3>1
      <3>2. CASE i # 0
        <4>1. i \in 1..n /\ h[i - 1] \in S /\ h[i] = F[<<i, h[i - 1]>>]
          BY <1>11, <2>1, <2>2, <3>2
        <4>. QED
          BY <1>10, <3>2, <4>1
      <3>. QED
        BY <3>1, <3>2
    <2>. QED
      BY <1>11, <2>3
  <1>13. PICK g : g = CHOOSE f : f = [i \in 0..n |-> IF i = 0 THEN start ELSE Relax(f[i - 1], edges[i])]
    OBVIOUS
  <1>14. g = [i \in 0..n |-> IF i = 0 THEN start ELSE Relax(g[i - 1], edges[i])]
    BY <1>12, <1>13
  <1>15. Pass(graph.edges, st) = g[n]
    BY <1>1, <1>2, <1>4, <1>13 DEF Pass
  <1>16. g[0] = start /\ \A i \in 1..n : g[i] = Relax(g[i - 1], edges[i])
    BY <1>5, <1>14
  <1>17. PICK T : T = {i \in 0..n : g[i] \in S}
    OBVIOUS
  <1>18. 0 \in T
    BY <1>5, <1>7, <1>16, <1>17
  <1>19. \A i \in 1..n : i - 1 \in T => i \in T
    BY <1>5, <1>9, <1>16, <1>17
  <1>20. 0..n \subseteq T
    BY <1>5, <1>18, <1>19, UpTo
  <1>21. \A i \in 0..n : g[i] \in S
    BY <1>17, <1>20
  <1>. QED
    BY <1>1, <1>2, <1>4, <1>15, <1>16, <1>21 DEF PassRun

\* The edges of a network are those of its list.
LEMMA ListedEdges ==
    ASSUME NEW graph, IsNetwork(graph)
    PROVE  /\ Len(graph.edges) \in Nat
           /\ \A e : e \in EdgesOf(graph) <=> \E i \in 1..Len(graph.edges) : e = graph.edges[i]
  <1>1. Len(graph.edges) \in Nat /\ DOMAIN graph.edges = 1..Len(graph.edges)
    BY LenProperties DEF IsNetwork
  <1>. QED
    BY <1>1 DEF EdgesOf

\* A pass that updates nothing leaves the distances, and they satisfy every edge.
LEMMA PassSays ==
    ASSUME NEW graph, IsNetwork(graph), NEW st \in Labels(graph)
    PROVE  /\ Pass(graph.edges, st) \in Labels(graph)
           /\ Pass(graph.edges, st).updated = Missing =>
                  Satisfies(Pass(graph.edges, st).distance, graph)
  <1>1. PICK edges : edges = graph.edges
    OBVIOUS
  <1>2. PICK n : n = Len(edges)
    OBVIOUS
  <1>3. PICK S : S = Labels(graph)
    OBVIOUS
  <1>4. PICK start : start = [st EXCEPT !.updated = Missing]
    OBVIOUS
  <1>5. n \in Nat
    BY <1>1, <1>2, ListedEdges
  <1>6. \A e : e \in EdgesOf(graph) <=> \E i \in 1..n : e = edges[i]
    BY <1>1, <1>2, ListedEdges
  <1>7. PICK g : PassRun(Labels(graph), graph, st, g)
    BY LabelsClosed, PassRuns
  <1>15. Pass(graph.edges, st) = g[n]
    BY <1>1, <1>2, <1>7 DEF PassRun
  <1>16. g[0] = start /\ \A i \in 1..n : g[i] = Relax(g[i - 1], edges[i])
    BY <1>1, <1>2, <1>4, <1>7 DEF PassRun
  <1>8. \A i \in 0..n : g[i] \in S
    BY <1>1, <1>2, <1>3, <1>7 DEF PassRun
  <1>17. PICK T : T = {i \in 0..n :
                           /\ g[i] \in S
                           /\ g[i].updated = Missing =>
                                  /\ g[i].distance = start.distance
                                  /\ \A j \in 1..i :
                                         start.distance[edges[j].to] - start.distance[edges[j].from]
                                         =< edges[j].weight}
    OBVIOUS
  <1>18. 0 \in T
    BY <1>5, <1>8, <1>16, <1>17
  <1>19. ASSUME NEW i \in 1..n, i - 1 \in T
         PROVE  i \in T
    <2>1. PICK x : x = g[i - 1]
      OBVIOUS
    <2>2. PICK e : e = edges[i]
      OBVIOUS
    <2>3. x \in S /\ e \in EdgesOf(graph) /\ g[i] = Relax(x, e)
      BY <1>6, <1>16, <1>17, <1>19, <2>1, <2>2
    <2>4. /\ g[i] \in S
          /\ g[i].updated = Missing => g[i] = x /\ x.distance[e.to] - x.distance[e.from] =< e.weight
      BY <1>3, <2>3, RelaxSays
    <2>5. ASSUME g[i].updated = Missing
          PROVE  /\ g[i].distance = start.distance
                 /\ \A j \in 1..i : start.distance[edges[j].to] - start.distance[edges[j].from]
                                    =< edges[j].weight
      <3>1. g[i] = x /\ x.updated = Missing
        BY <2>4, <2>5
      <3>2. /\ x.distance = start.distance
            /\ \A j \in 1..i - 1 : start.distance[edges[j].to] - start.distance[edges[j].from]
                                   =< edges[j].weight
        BY <1>17, <1>19, <2>1, <3>1
      <3>3. start.distance[e.to] - start.distance[e.from] =< e.weight
        BY <2>4, <2>5, <3>2
      <3>4. \A j \in 1..i : j = i \/ j \in 1..i - 1
        OBVIOUS
      <3>. QED
        BY <2>2, <3>1, <3>2, <3>3, <3>4
    <2>6. i \in 0..n
      BY <1>5
    <2>. QED
      BY <1>17, <2>4, <2>5, <2>6
  <1>20. n \in T
    <2>1. 0..n \subseteq T
      BY <1>5, <1>18, <1>19, UpTo
    <2>. QED
      BY <1>5, <2>1
  <1>21. ASSUME g[n].updated = Missing
         PROVE  Satisfies(g[n].distance, graph)
    BY <1>6, <1>17, <1>20, <1>21 DEF Satisfies
  <1>. QED
    BY <1>3, <1>15, <1>17, <1>20, <1>21

\* The states between passes, until one changes nothing.
PassesRun(S, graph, st, n, g) ==
    /\ g[0] = st
    /\ \A i \in 1..n : g[i] = IF i > 1 /\ g[i - 1].updated = Missing THEN g[i - 1]
                              ELSE Pass(graph.edges, g[i - 1])
    /\ \A i \in 0..n : g[i] \in S
    /\ Passes(graph, st, n) = g[n]

\* They exist.
LEMMA PassesRuns ==
    ASSUME NEW graph, IsNetwork(graph), NEW S, Closed(S, graph), NEW st \in S, NEW n \in Nat
    PROVE  \E g : PassesRun(S, graph, st, n, g)
  <1>2. PICK edges : edges = graph.edges
    OBVIOUS
  <1>3. PICK F : F = [p \in (1..n) \X S |-> IF p[1] > 1 /\ p[2].updated = Missing THEN p[2]
                                            ELSE Pass(edges, p[2])]
    OBVIOUS
  <1>4. \A x \in S : Pass(edges, x) \in S
    <2>. TAKE x \in S
    <2>1. PICK g : PassRun(S, graph, x, g)
      BY PassRuns
    <2>2. Len(graph.edges) \in 0..Len(graph.edges)
      BY LenProperties DEF IsNetwork
    <2>. QED
      BY <1>2, <2>1, <2>2 DEF PassRun
  <1>5. /\ F \in [(1..n) \X S -> S]
        /\ \A i \in 1..n, x \in S :
               F[<<i, x>>] = IF i > 1 /\ x.updated = Missing THEN x ELSE Pass(edges, x)
    BY <1>3, <1>4
  <1>6. PICK h \in [0..n -> S] : Iterate(h, n, st, F)
    BY <1>5, Iterates
  <1>7. h = [i \in 0..n |-> IF i = 0 THEN st
                            ELSE IF i > 1 /\ h[i - 1].updated = Missing THEN h[i - 1]
                            ELSE Pass(edges, h[i - 1])]
    <2>1. \A i \in 0..n : h[i] = IF i = 0 THEN st ELSE F[<<i, h[i - 1]>>]
      BY <1>6 DEF Iterate
    <2>2. \A i \in 0..n : i # 0 => i \in 1..n /\ i - 1 \in 0..n
      OBVIOUS
    <2>3. \A i \in 0..n : h[i] = IF i = 0 THEN st
                                 ELSE IF i > 1 /\ h[i - 1].updated = Missing THEN h[i - 1]
                                 ELSE Pass(edges, h[i - 1])
      <3>. TAKE i \in 0..n
      <3>1. CASE i = 0
        BY <2>1, <3>1
      <3>2. CASE i # 0
        <4>1. i \in 1..n /\ h[i - 1] \in S /\ h[i] = F[<<i, h[i - 1]>>]
          BY <1>6, <2>1, <2>2, <3>2
        <4>. QED
          BY <1>5, <3>2, <4>1
      <3>. QED
        BY <3>1, <3>2
    <2>. QED
      BY <1>6, <2>3
  <1>8. PICK g : g = CHOOSE f : f =
                     [i \in 0..n |-> IF i = 0 THEN st
                                     ELSE IF i > 1 /\ f[i - 1].updated = Missing THEN f[i - 1]
                                     ELSE Pass(edges, f[i - 1])]
    OBVIOUS
  <1>9. g = [i \in 0..n |-> IF i = 0 THEN st
                            ELSE IF i > 1 /\ g[i - 1].updated = Missing THEN g[i - 1]
                            ELSE Pass(edges, g[i - 1])]
    BY <1>7, <1>8
  <1>10. Passes(graph, st, n) = g[n]
    BY <1>2, <1>8 DEF Passes
  <1>11. /\ g[0] = st
         /\ \A i \in 1..n : g[i] = IF i > 1 /\ g[i - 1].updated = Missing THEN g[i - 1]
                                   ELSE Pass(edges, g[i - 1])
    BY <1>9
  <1>12. PICK T : T = {i \in 0..n : g[i] \in S}
    OBVIOUS
  <1>13. 0 \in T
    BY <1>11, <1>12
  <1>14. ASSUME NEW i \in 1..n, i - 1 \in T
         PROVE  i \in T
    <2>1. g[i - 1] \in S /\ i \in 0..n
      BY <1>12, <1>14
    <2>2. g[i] \in S
      BY <1>4, <1>11, <2>1
    <2>. QED
      BY <1>12, <2>1, <2>2
  <1>15. 0..n \subseteq T
    BY <1>13, <1>14, UpTo
  <1>16. \A i \in 0..n : g[i] \in S
    BY <1>12, <1>15
  <1>. QED
    BY <1>2, <1>10, <1>11, <1>16 DEF PassesRun

\* Passes that end without an update leave distances that satisfy every edge.
LEMMA PassesSatisfy ==
    ASSUME NEW graph, IsNetwork(graph), NEW st, NEW n \in Nat, NEW g,
           PassesRun(Labels(graph), graph, st, n, g)
    PROVE  \A i \in 1..n : g[i].updated = Missing => Satisfies(g[i].distance, graph)
  <1>1. /\ \A i \in 1..n : g[i] = IF i > 1 /\ g[i - 1].updated = Missing THEN g[i - 1]
                                  ELSE Pass(graph.edges, g[i - 1])
        /\ \A i \in 0..n : g[i] \in Labels(graph)
    BY DEF PassesRun
  <1>2. PICK T : T = {i \in 0..n : i > 0 /\ g[i].updated = Missing => Satisfies(g[i].distance, graph)}
    OBVIOUS
  <1>3. 0 \in T
    BY <1>2
  <1>4. ASSUME NEW i \in 1..n, i - 1 \in T
        PROVE  i \in T
    <2>1. i \in 0..n /\ i - 1 \in 0..n
      OBVIOUS
    <2>2. CASE i > 1 /\ g[i - 1].updated = Missing
      <3>1. g[i] = g[i - 1] /\ i - 1 > 0
        BY <1>1, <2>2
      <3>. QED
        BY <1>2, <1>4, <2>1, <2>2, <3>1
    <2>3. CASE ~(i > 1 /\ g[i - 1].updated = Missing)
      <3>1. g[i] = Pass(graph.edges, g[i - 1]) /\ g[i - 1] \in Labels(graph)
        BY <1>1, <2>1, <2>3
      <3>2. g[i].updated = Missing => Satisfies(g[i].distance, graph)
        BY <3>1, PassSays
      <3>. QED
        BY <1>2, <2>1, <3>2
    <2>. QED
      BY <2>2, <2>3
  <1>5. 0..n \subseteq T
    BY <1>3, <1>4, UpTo
  <1>6. \A i \in 1..n : i \in 0..n /\ i > 0
    OBVIOUS
  <1>. QED
    BY <1>2, <1>5, <1>6

\* What checkConsistency finds consistent has a schedule: the distances that it
\* returns.
THEOREM ConsistentIsSchedulable ==
    ASSUME NEW graph, IsNetwork(graph), CheckConsistency(graph).consistent
    PROVE  /\ CheckConsistency(graph).distances \in [graph.nodes -> Int]
           /\ Satisfies(CheckConsistency(graph).distances, graph)
  <1>1. PICK n : n = Cardinality(graph.nodes)
    OBVIOUS
  <1>2. n \in Nat /\ (n = 0 => graph.nodes = {})
    BY <1>1, FS_CardinalityType, FS_EmptySet DEF IsNetwork
  <1>3. PICK st : st = [distance |-> [x \in graph.nodes |-> 0],
                        predecessor |-> Unvisited(graph), updated |-> Missing]
    OBVIOUS
  <1>4. st \in Labels(graph)
    BY <1>3 DEF Labels, Unvisited
  <1>5. PICK end : end = Passes(graph, st, n)
    OBVIOUS
  <1>6. end \in Labels(graph) /\ (n > 0 /\ end.updated = Missing => Satisfies(end.distance, graph))
    <2>1. PICK g : PassesRun(Labels(graph), graph, st, n, g)
      BY <1>2, <1>4, LabelsClosed, PassesRuns
    <2>2. n \in 0..n
      BY <1>2
    <2>3. end = g[n]
      BY <1>5, <2>1 DEF PassesRun
    <2>4. /\ \A i \in 0..n : g[i] \in Labels(graph)
          /\ \A i \in 1..n : g[i].updated = Missing => Satisfies(g[i].distance, graph)
      BY <1>2, <2>1, PassesSatisfy DEF PassesRun
    <2>5. n > 0 => n \in 1..n
      BY <1>2
    <2>. QED
      BY <2>2, <2>3, <2>4, <2>5
  <1>7. CheckConsistency(graph) =
            IF end.updated = Missing THEN [consistent |-> TRUE, distances |-> end.distance]
            ELSE [consistent |-> FALSE, edges |-> NegativeCycle(end.predecessor, end.updated, n)]
    BY <1>1, <1>3, <1>5 DEF CheckConsistency
  <1>8. end.updated = Missing
    BY <1>7
  <1>9. CheckConsistency(graph).distances = end.distance
    BY <1>7, <1>8
  <1>10. CASE n = 0
    <2>1. EdgesOf(graph) = {}
      BY <1>2, <1>10 DEF IsNetwork, IsGraph
    <2>. QED
      BY <1>6, <1>9, <2>1 DEF Labels, Satisfies
  <1>11. CASE n # 0
    <2>1. n > 0
      BY <1>2, <1>11
    <2>. QED
      BY <1>6, <1>8, <1>9, <2>1 DEF Labels
  <1>. QED
    BY <1>10, <1>11

----------------------------------------------------------------------------
(* Enough passes                                                           *)

\* The greatest schedule that is nowhere above a given labelling.
Greatest(D, U, graph) ==
    /\ Schedule(D, graph)
    /\ \A v \in graph.nodes : D[v] =< U[v]
    /\ \A t : Schedule(t, graph) /\ (\A v \in graph.nodes : t[v] =< U[v]) =>
                  \A v \in graph.nodes : t[v] =< D[v]

\* A labelling has an upper bound.
LEMMA LabellingBounded ==
    ASSUME NEW graph, IsNetwork(graph), NEW s \in [graph.nodes -> Int]
    PROVE  \E b \in Int : \A v \in graph.nodes : s[v] =< b
  <1>1. PICK n, f : n \in Nat /\ f \in Bijection(1..n, graph.nodes)
    BY FS_NatBijection DEF IsNetwork, ExistsBijection
  <1>2. f \in [1..n -> graph.nodes] /\ \A v \in graph.nodes : \E i \in 1..n : f[i] = v
    BY <1>1 DEF Bijection, Surjection
  <1>3. PICK T : T = {i \in 0..n : \E b \in Int : \A j \in 1..i : s[f[j]] =< b}
    OBVIOUS
  <1>4. 0 \in T
    <2>1. 0 \in Int /\ \A j \in 1..0 : s[f[j]] =< 0
      OBVIOUS
    <2>. QED
      BY <1>1, <1>3, <2>1
  <1>5. ASSUME NEW i \in 1..n, i - 1 \in T
        PROVE  i \in T
    <2>1. PICK b \in Int : \A j \in 1..i - 1 : s[f[j]] =< b
      BY <1>3, <1>5
    <2>2. PICK x : x = s[f[i]]
      OBVIOUS
    <2>3. x \in Int /\ \A j \in 1..i : s[f[j]] \in Int
      BY <1>1, <1>2, <2>2
    <2>4. PICK c : c = IF x > b THEN x ELSE b
      OBVIOUS
    <2>5. c \in Int /\ x =< c /\ b =< c
      BY <2>3, <2>4
    <2>6. \A j \in 1..i : s[f[j]] =< c
      <3>. TAKE j \in 1..i
      <3>1. j = i \/ j \in 1..i - 1
        OBVIOUS
      <3>. QED
        BY <2>1, <2>2, <2>3, <2>5, <3>1
    <2>7. i \in 0..n
      BY <1>1
    <2>. QED
      BY <1>3, <2>5, <2>6, <2>7
  <1>6. n \in T
    <2>1. 0..n \subseteq T
      BY <1>1, <1>4, <1>5, UpTo
    <2>. QED
      BY <1>1, <2>1
  <1>. QED
    BY <1>2, <1>3, <1>6

\* A graph that has a schedule has a greatest one below any labelling.
LEMMA GreatestExists ==
    ASSUME NEW graph, IsNetwork(graph), NEW s, Schedule(s, graph),
           NEW U \in [graph.nodes -> Int]
    PROVE  \E D : Greatest(D, U, graph)
  <1>1. PICK Low : Low = {t \in [graph.nodes -> Int] :
                              Schedule(t, graph) /\ \A v \in graph.nodes : t[v] =< U[v]}
    OBVIOUS
  <1>2. PICK b \in Int : \A v \in graph.nodes : s[v] - U[v] =< b
    <2>1. PICK f : f = [v \in graph.nodes |-> s[v] - U[v]]
      OBVIOUS
    <2>2. f \in [graph.nodes -> Int]
      BY <2>1 DEF Schedule
    <2>3. \E b \in Int : \A v \in graph.nodes : f[v] =< b
      BY <2>2, LabellingBounded
    <2>. QED
      BY <2>1, <2>3
  <1>3. PICK low : low = [v \in graph.nodes |-> s[v] - b]
    OBVIOUS
  <1>4. /\ \A v \in graph.nodes : s[v] \in Int
        /\ \A v \in graph.nodes : low[v] = s[v] - b
        /\ low \in [graph.nodes -> Int]
    BY <1>3 DEF Schedule
  <1>5. ASSUME NEW e \in EdgesOf(graph)
        PROVE  low[e.to] - low[e.from] =< e.weight
    <2>1. e.from \in graph.nodes /\ e.to \in graph.nodes /\ e.weight \in Int
      BY DEF IsNetwork, IsGraph
    <2>2. s[e.to] - s[e.from] =< e.weight
      BY DEF Schedule, Satisfies
    <2>3. PICK x, y, w : x = s[e.from] /\ y = s[e.to] /\ w = e.weight
      OBVIOUS
    <2>4. x \in Int /\ y \in Int /\ w \in Int /\ y - x =< w
      BY <1>4, <2>1, <2>2, <2>3
    <2>5. low[e.to] = y - b /\ low[e.from] = x - b
      BY <1>4, <2>1, <2>3
    <2>. QED
      BY <2>3, <2>4, <2>5
  <1>6. low \in Low
    <2>1. ASSUME NEW v \in graph.nodes
          PROVE  low[v] =< U[v]
      <3>1. PICK x, u, l : x = s[v] /\ u = U[v] /\ l = low[v]
        OBVIOUS
      <3>2. x \in Int /\ u \in Int /\ x - u =< b /\ l = x - b
        BY <1>2, <1>4, <3>1
      <3>3. l =< u
        BY <3>2
      <3>. QED
        BY <3>1, <3>3
    <2>. QED
      BY <1>1, <1>4, <1>5, <2>1 DEF Schedule, Satisfies
  <1>7. \A v \in graph.nodes : \E t \in Low : \A u \in Low : u[v] =< t[v]
    <2>. TAKE v \in graph.nodes
    <2>1. PICK Depths : Depths = {U[v] - t[v] : t \in Low}
      OBVIOUS
    <2>2. \A t \in Low : t[v] \in Int /\ t[v] =< U[v]
      BY <1>1
    <2>3. Depths \subseteq Nat /\ Depths # {}
      BY <1>6, <2>1, <2>2
    <2>4. IsWellFoundedOn(Lt, Nat)
      BY NatLessThanWellFounded DEF OpToRel, Lt
    <2>5. PICK d \in Depths : \A m \in Depths : ~(<<m, d>> \in Lt)
      BY <2>3, <2>4, WFMin
    <2>6. PICK t \in Low : d = U[v] - t[v]
      BY <2>1, <2>5
    <2>7. ASSUME NEW u \in Low
          PROVE  u[v] =< t[v]
      <3>1. U[v] - u[v] \in Depths
        BY <2>1
      <3>2. ~(U[v] - u[v] < d)
        BY <2>3, <2>5, <3>1 DEF Lt
      <3>3. t[v] \in Int /\ u[v] \in Int /\ U[v] \in Int
        BY <2>2
      <3>. QED
        BY <2>6, <3>2, <3>3
    <2>. QED
      BY <2>7
  <1>8. PICK best : best = [v \in graph.nodes |-> CHOOSE t \in Low : \A u \in Low : u[v] =< t[v]]
    OBVIOUS
  <1>9. \A v \in graph.nodes : best[v] \in Low /\ \A u \in Low : u[v] =< best[v][v]
    BY <1>7, <1>8
  <1>10. PICK D : D = [v \in graph.nodes |-> best[v][v]]
    OBVIOUS
  <1>11. \A v \in graph.nodes : /\ D[v] = best[v][v]
                                /\ D[v] \in Int /\ D[v] =< U[v]
                                /\ \A u \in Low : u[v] =< D[v]
    BY <1>1, <1>9, <1>10
  <1>12. D \in [graph.nodes -> Int]
    BY <1>10, <1>11
  <1>13. ASSUME NEW e \in EdgesOf(graph)
         PROVE  D[e.to] - D[e.from] =< e.weight
    <2>1. e.from \in graph.nodes /\ e.to \in graph.nodes /\ e.weight \in Int
      BY DEF IsNetwork, IsGraph
    <2>2. PICK t : t = best[e.to]
      OBVIOUS
    <2>3. t \in Low /\ t[e.to] = D[e.to]
      BY <1>9, <1>11, <2>1, <2>2
    <2>4. t[e.to] - t[e.from] =< e.weight /\ t[e.to] \in Int /\ t[e.from] \in Int
      BY <1>1, <2>1, <2>3 DEF Schedule, Satisfies
    <2>5. t[e.from] =< D[e.from] /\ D[e.from] \in Int
      BY <1>11, <2>1, <2>3
    <2>6. PICK w : w = e.weight
      OBVIOUS
    <2>. QED
      BY <2>1, <2>3, <2>4, <2>5, <2>6
  <1>14. ASSUME NEW t, Schedule(t, graph), \A v \in graph.nodes : t[v] =< U[v],
                NEW v \in graph.nodes
         PROVE  t[v] =< D[v]
    <2>1. t \in Low
      BY <1>1, <1>14 DEF Schedule
    <2>. QED
      BY <1>11, <2>1
  <1>. QED
    BY <1>11, <1>12, <1>13, <1>14 DEF Greatest, Schedule, Satisfies

\* The nodes whose distance is final.
Settled(D, graph, st) == {v \in graph.nodes : st.distance[v] = D[v]}

\* No distance falls below the greatest schedule, and none is above the labelling.
Above(D, U, graph, st) == \A v \in graph.nodes : D[v] =< st.distance[v] /\ st.distance[v] =< U[v]

\* An edge that holds with equality in the greatest schedule.
IsTight(D, e) == D[e.to] = D[e.from] + e.weight

\* If some nodes are not settled, a tight edge leads from a settled node to one of them:
\* else a greater schedule would do.
LEMMA TightEdgeLeads ==
    ASSUME NEW graph, IsNetwork(graph), NEW U \in [graph.nodes -> Int], NEW D, Greatest(D, U, graph),
           NEW S \in SUBSET graph.nodes, S # graph.nodes,
           \A v \in graph.nodes : D[v] = U[v] => v \in S
    PROVE  \E e \in EdgesOf(graph) : e.from \in S /\ e.to \notin S /\ IsTight(D, e)
  <1>. SUFFICES ASSUME \A e \in EdgesOf(graph) : e.from \in S /\ e.to \notin S => ~IsTight(D, e)
                PROVE  FALSE
    OBVIOUS
  <1>1. \A v \in graph.nodes : D[v] \in Int /\ U[v] \in Int /\ D[v] =< U[v]
    BY DEF Greatest, Schedule
  <1>2. PICK t : t = [v \in graph.nodes |-> IF v \in S THEN D[v] ELSE D[v] + 1]
    OBVIOUS
  <1>3. \A v \in graph.nodes : t[v] = IF v \in S THEN D[v] ELSE D[v] + 1
    BY <1>2
  <1>4. t \in [graph.nodes -> Int]
    BY <1>1, <1>2
  <1>5. \A v \in graph.nodes : t[v] =< U[v]
    BY <1>1, <1>3
  <1>6. ASSUME NEW e \in EdgesOf(graph)
        PROVE  t[e.to] - t[e.from] =< e.weight
    <2>1. e.from \in graph.nodes /\ e.to \in graph.nodes /\ e.weight \in Int
      BY DEF IsNetwork, IsGraph
    <2>2. PICK x, y, w : x = D[e.from] /\ y = D[e.to] /\ w = e.weight
      OBVIOUS
    <2>3. x \in Int /\ y \in Int /\ w \in Int /\ y - x =< w
      BY <1>1, <2>1, <2>2 DEF Greatest, Schedule, Satisfies
    <2>4. t[e.from] = IF e.from \in S THEN x ELSE x + 1
      BY <1>3, <2>1, <2>2
    <2>5. t[e.to] = IF e.to \in S THEN y ELSE y + 1
      BY <1>3, <2>1, <2>2
    <2>6. e.from \in S /\ e.to \notin S => y # x + w
      BY <2>2 DEF IsTight
    <2>. QED
      BY <2>2, <2>3, <2>4, <2>5, <2>6
  <1>7. \A v \in graph.nodes : t[v] =< D[v]
    BY <1>4, <1>5, <1>6 DEF Greatest, Schedule, Satisfies
  <1>8. PICK v \in graph.nodes : v \notin S
    OBVIOUS
  <1>9. t[v] = D[v] + 1 /\ D[v] \in Int /\ t[v] =< D[v]
    BY <1>1, <1>3, <1>7, <1>8
  <1>. QED
    BY <1>9

\* What relaxing an edge does to the settled nodes.
LEMMA RelaxSettles ==
    ASSUME NEW graph, IsNetwork(graph), NEW U \in [graph.nodes -> Int], NEW D, Greatest(D, U, graph),
           NEW st \in Labels(graph), Above(D, U, graph, st), NEW e \in EdgesOf(graph)
    PROVE  /\ Above(D, U, graph, Relax(st, e))
           /\ Settled(D, graph, st) \subseteq Settled(D, graph, Relax(st, e))
           /\ e.from \in Settled(D, graph, st) /\ IsTight(D, e) =>
                  e.to \in Settled(D, graph, Relax(st, e))
           /\ Settled(D, graph, st) = graph.nodes => Relax(st, e) = st
  <1>1. e.from \in graph.nodes /\ e.to \in graph.nodes /\ e.weight \in Int
    BY DEF IsNetwork, IsGraph
  <1>2. st.distance \in [graph.nodes -> Int] /\ Missing \notin Int
    BY MissingIsNone DEF Labels
  <1>3. \A v \in graph.nodes : /\ D[v] \in Int /\ st.distance[v] \in Int
                               /\ U[v] \in Int
                               /\ D[v] =< st.distance[v] /\ st.distance[v] =< U[v]
    BY <1>2 DEF Greatest, Schedule, Above
  <1>4. PICK a, b, w : a = st.distance[e.from] /\ b = st.distance[e.to] /\ w = e.weight
    OBVIOUS
  <1>5. PICK x, y : x = D[e.from] /\ y = D[e.to]
    OBVIOUS
  <1>6. /\ a \in Int /\ b \in Int /\ w \in Int /\ a # Missing /\ b # Missing
        /\ x \in Int /\ y \in Int /\ y - x =< w /\ x =< a /\ y =< b
    BY <1>1, <1>2, <1>3, <1>4, <1>5 DEF Greatest, Schedule, Satisfies
  <1>7. CASE a + w >= b
    <2>1. Relax(st, e) = st
      BY <1>4, <1>6, <1>7 DEF Relax
    <2>2. a = x /\ y = x + w => b = y
      BY <1>6, <1>7
    <2>. QED
      BY <1>1, <1>4, <1>5, <2>1, <2>2 DEF Settled, IsTight
  <1>8. CASE ~(a + w >= b)
    <2>1. Relax(st, e).distance = [st.distance EXCEPT ![e.to] = a + w]
      BY <1>4, <1>6, <1>8 DEF Relax
    <2>2. \A v \in graph.nodes : Relax(st, e).distance[v] = IF v = e.to THEN a + w ELSE st.distance[v]
      BY <1>1, <1>2, <2>1
    <2>3. y =< a + w /\ a + w < b
      BY <1>6, <1>8
    <2>4. Above(D, U, graph, Relax(st, e))
      <3>1. PICK u : u = U[e.to]
        OBVIOUS
      <3>2. u \in Int /\ b =< u
        BY <1>1, <1>3, <1>4, <3>1
      <3>3. a + w =< u
        BY <1>6, <2>3, <3>2
      <3>. QED
        BY <1>3, <1>5, <2>2, <2>3, <3>1, <3>3 DEF Above
    <2>5. b # y
      BY <1>6, <2>3
    <2>6. Settled(D, graph, st) \subseteq Settled(D, graph, Relax(st, e))
      BY <1>4, <1>5, <2>2, <2>5 DEF Settled
    <2>7. a = x /\ y = x + w => a + w = y
      BY <1>6
    <2>8. e.from \in Settled(D, graph, st) /\ IsTight(D, e) => e.to \in Settled(D, graph, Relax(st, e))
      BY <1>1, <1>4, <1>5, <2>2, <2>7 DEF Settled, IsTight
    <2>9. Settled(D, graph, st) # graph.nodes
      BY <1>1, <1>4, <1>5, <2>5 DEF Settled
    <2>. QED
      BY <2>4, <2>6, <2>8, <2>9
  <1>. QED
    BY <1>7, <1>8

\* What a pass does to the settled nodes.
LEMMA PassSettles ==
    ASSUME NEW graph, IsNetwork(graph), NEW U \in [graph.nodes -> Int], NEW D, Greatest(D, U, graph),
           NEW st \in Labels(graph), Above(D, U, graph, st)
    PROVE  /\ Above(D, U, graph, Pass(graph.edges, st))
           /\ Settled(D, graph, st) \subseteq Settled(D, graph, Pass(graph.edges, st))
           /\ \A e \in EdgesOf(graph) :
                  e.from \in Settled(D, graph, st) /\ IsTight(D, e) =>
                      e.to \in Settled(D, graph, Pass(graph.edges, st))
           /\ Settled(D, graph, st) = graph.nodes => Pass(graph.edges, st).updated = Missing
  <1>1. PICK edges : edges = graph.edges
    OBVIOUS
  <1>2. PICK n : n = Len(edges)
    OBVIOUS
  <1>3. PICK S0 : S0 = Settled(D, graph, st)
    OBVIOUS
  <1>4. n \in Nat /\ \A e : e \in EdgesOf(graph) <=> \E i \in 1..n : e = edges[i]
    BY <1>1, <1>2, ListedEdges
  <1>5. PICK g : PassRun(Labels(graph), graph, st, g)
    BY LabelsClosed, PassRuns
  <1>6. /\ g[0] = [st EXCEPT !.updated = Missing]
        /\ \A i \in 1..n : g[i] = Relax(g[i - 1], edges[i])
        /\ \A i \in 0..n : g[i] \in Labels(graph)
        /\ Pass(graph.edges, st) = g[n]
    BY <1>1, <1>2, <1>5 DEF PassRun
  <1>7. g[0].distance = st.distance /\ g[0].updated = Missing
    BY <1>6 DEF Labels
  <1>8. PICK T : T = {i \in 0..n : /\ Above(D, U, graph, g[i])
                                   /\ S0 \subseteq Settled(D, graph, g[i])
                                   /\ \A j \in 1..i : edges[j].from \in S0 /\ IsTight(D, edges[j]) =>
                                          edges[j].to \in Settled(D, graph, g[i])
                                   /\ S0 = graph.nodes => g[i].updated = Missing}
    OBVIOUS
  <1>9. 0 \in T
    <2>1. Above(D, U, graph, g[0]) /\ S0 \subseteq Settled(D, graph, g[0])
      BY <1>3, <1>7 DEF Above, Settled
    <2>2. 0 \in 0..n /\ \A j \in 1..0 : FALSE
      BY <1>4
    <2>. QED
      BY <1>7, <1>8, <2>1, <2>2
  <1>10. ASSUME NEW i \in 1..n, i - 1 \in T
         PROVE  i \in T
    <2>1. PICK x, e : x = g[i - 1] /\ e = edges[i]
      OBVIOUS
    <2>2. i - 1 \in 0..n /\ i \in 0..n
      BY <1>4
    <2>3. x \in Labels(graph) /\ e \in EdgesOf(graph) /\ g[i] = Relax(x, e)
      BY <1>4, <1>6, <2>1, <2>2
    <2>4. /\ Above(D, U, graph, x)
          /\ S0 \subseteq Settled(D, graph, x)
          /\ \A j \in 1..i - 1 : edges[j].from \in S0 /\ IsTight(D, edges[j]) =>
                 edges[j].to \in Settled(D, graph, x)
          /\ S0 = graph.nodes => x.updated = Missing
      BY <1>8, <1>10, <2>1
    <2>5. /\ Above(D, U, graph, g[i])
          /\ Settled(D, graph, x) \subseteq Settled(D, graph, g[i])
          /\ e.from \in Settled(D, graph, x) /\ IsTight(D, e) => e.to \in Settled(D, graph, g[i])
          /\ Settled(D, graph, x) = graph.nodes => g[i] = x
      BY <2>3, <2>4, RelaxSettles
    <2>6. \A j \in 1..i : edges[j].from \in S0 /\ IsTight(D, edges[j]) =>
              edges[j].to \in Settled(D, graph, g[i])
      <3>. TAKE j \in 1..i
      <3>1. j = i \/ j \in 1..i - 1
        BY <1>4
      <3>. QED
        BY <2>1, <2>4, <2>5, <3>1
    <2>7. S0 = graph.nodes => g[i].updated = Missing
      <3>. SUFFICES ASSUME S0 = graph.nodes
                    PROVE  g[i].updated = Missing
        OBVIOUS
      <3>1. Settled(D, graph, x) = graph.nodes
        BY <2>4 DEF Settled
      <3>. QED
        BY <2>4, <2>5, <3>1
    <2>. QED
      BY <1>8, <2>2, <2>4, <2>5, <2>6, <2>7
  <1>11. n \in T
    <2>1. 0..n \subseteq T
      BY <1>4, <1>9, <1>10, UpTo
    <2>. QED
      BY <1>4, <2>1
  <1>12. ASSUME NEW e \in EdgesOf(graph), e.from \in S0, IsTight(D, e)
         PROVE  e.to \in Settled(D, graph, g[n])
    <2>1. PICK j \in 1..n : e = edges[j]
      BY <1>4
    <2>. QED
      BY <1>8, <1>11, <1>12, <2>1
  <1>13. /\ Above(D, U, graph, g[n]) /\ S0 \subseteq Settled(D, graph, g[n])
         /\ S0 = graph.nodes => g[n].updated = Missing
    BY <1>8, <1>11
  <1>. QED
    BY <1>3, <1>6, <1>12, <1>13

\* Each pass settles one more node, until all are.
LEMMA PassAdvances ==
    ASSUME NEW graph, IsNetwork(graph), NEW U \in [graph.nodes -> Int], NEW D, Greatest(D, U, graph),
           NEW st \in Labels(graph), Above(D, U, graph, st),
           \A v \in graph.nodes : D[v] = U[v] => v \in Settled(D, graph, st),
           Settled(D, graph, st) # graph.nodes
    PROVE  Cardinality(Settled(D, graph, Pass(graph.edges, st)))
           >= Cardinality(Settled(D, graph, st)) + 1
  <1>1. PICK A, B : A = Settled(D, graph, st) /\ B = Settled(D, graph, Pass(graph.edges, st))
    OBVIOUS
  <1>2. A \in SUBSET graph.nodes /\ B \in SUBSET graph.nodes /\ IsFiniteSet(graph.nodes)
    BY <1>1 DEF Settled, IsNetwork
  <1>3. IsFiniteSet(A) /\ IsFiniteSet(B)
    BY <1>2, FS_Subset
  <1>4. PICK e \in EdgesOf(graph) : e.from \in A /\ e.to \notin A /\ IsTight(D, e)
    BY <1>1, <1>2, TightEdgeLeads
  <1>5. A \subseteq B /\ e.to \in B
    BY <1>1, <1>4, PassSettles
  <1>6. IsFiniteSet(A \cup {e.to}) /\ Cardinality(A \cup {e.to}) = Cardinality(A) + 1
    BY <1>3, <1>4, FS_AddElement
  <1>7. Cardinality(A \cup {e.to}) =< Cardinality(B)
    BY <1>3, <1>5, FS_Subset
  <1>8. Cardinality(A) \in Nat /\ Cardinality(B) \in Nat
    BY <1>3, FS_CardinalityType
  <1>9. PICK a, b : a = Cardinality(A) /\ b = Cardinality(B)
    OBVIOUS
  <1>10. a \in Nat /\ b \in Nat /\ a + 1 =< b
    BY <1>6, <1>7, <1>8, <1>9
  <1>11. b >= a + 1
    BY <1>10
  <1>. QED
    BY <1>1, <1>9, <1>11

\* Distances that satisfy every edge are final.
LEMMA SatisfiedIsSettled ==
    ASSUME NEW graph, NEW U, NEW D, Greatest(D, U, graph), NEW st \in Labels(graph),
           Above(D, U, graph, st), Satisfies(st.distance, graph)
    PROVE  Settled(D, graph, st) = graph.nodes
  <1>1. st.distance \in [graph.nodes -> Int]
    BY DEF Labels
  <1>2. \A v \in graph.nodes : st.distance[v] =< D[v]
    BY <1>1 DEF Greatest, Schedule, Above
  <1>3. \A v \in graph.nodes : D[v] =< st.distance[v] /\ D[v] \in Int /\ st.distance[v] \in Int
    BY <1>1 DEF Above, Greatest, Schedule
  <1>. QED
    BY <1>2, <1>3 DEF Settled

\* Passes over n nodes, from distances on the labelling: one node is settled from the
\* start, and each pass settles one more.
LEMMA PassesSettle ==
    ASSUME NEW graph, IsNetwork(graph), NEW n, n = Cardinality(graph.nodes),
           NEW U \in [graph.nodes -> Int], NEW D, Greatest(D, U, graph),
           NEW st \in Labels(graph), st.distance = U,
           NEW k \in Nat, NEW g, PassesRun(Labels(graph), graph, st, k, g)
    PROVE  \A i \in 0..k : /\ Above(D, U, graph, g[i])
                           /\ i + 1 >= n => Settled(D, graph, g[i]) = graph.nodes
  <1>1. Greatest(D, U, graph)
    OBVIOUS
  <1>2. n = Cardinality(graph.nodes)
    OBVIOUS
  <1>3. n \in Nat /\ (n = 0 <=> graph.nodes = {})
    BY <1>2, FS_CardinalityType, FS_EmptySet DEF IsNetwork
  <1>7. /\ g[0] = st
        /\ \A i \in 1..k : g[i] = IF i > 1 /\ g[i - 1].updated = Missing THEN g[i - 1]
                                  ELSE Pass(graph.edges, g[i - 1])
        /\ \A i \in 0..k : g[i] \in Labels(graph)
        /\ \A i \in 1..k : g[i].updated = Missing => Satisfies(g[i].distance, graph)
    BY PassesSatisfy DEF PassesRun
  <1>8. PICK Set : Set = [i \in 0..k |-> Settled(D, graph, g[i])]
    OBVIOUS
  <1>9. \A i \in 0..k : /\ Set[i] = Settled(D, graph, g[i]) /\ Set[i] \in SUBSET graph.nodes
                        /\ Cardinality(Set[i]) \in Nat /\ Cardinality(Set[i]) =< n
                        /\ Cardinality(Set[i]) = n => Set[i] = graph.nodes
    <2>. TAKE i \in 0..k
    <2>1. Set[i] = Settled(D, graph, g[i]) /\ Set[i] \in SUBSET graph.nodes
      BY <1>8 DEF Settled
    <2>2. IsFiniteSet(graph.nodes)
      BY DEF IsNetwork
    <2>3. /\ IsFiniteSet(Set[i]) /\ Cardinality(Set[i]) =< n
          /\ Cardinality(Set[i]) = n => Set[i] = graph.nodes
      BY <1>2, <2>1, <2>2, FS_Subset
    <2>. QED
      BY <2>1, <2>3, FS_CardinalityType
  <1>10. PICK T : T = {i \in 0..k : /\ Above(D, U, graph, g[i])
                                    /\ \A v \in graph.nodes : D[v] = U[v] => v \in Set[i]
                                    /\ Set[i] = graph.nodes \/ Cardinality(Set[i]) >= i + 1}
    OBVIOUS
  <1>11. 0 \in T
    <2>1. 0 \in 0..k /\ \A v \in graph.nodes : g[0].distance[v] = U[v] /\ U[v] \in Int
      BY <1>7
    <2>2. Above(D, U, graph, g[0])
      BY <1>1, <2>1 DEF Above, Greatest
    <2>3. \A v \in graph.nodes : D[v] = U[v] => v \in Set[0]
      BY <1>9, <2>1 DEF Settled
    <2>4. Set[0] # {} \/ graph.nodes = {}
      <3>. SUFFICES ASSUME Set[0] = {}, graph.nodes # {}
                    PROVE  FALSE
        OBVIOUS
      <3>1. PICK none : none = Set[0]
        OBVIOUS
      <3>2. /\ none \in SUBSET graph.nodes /\ none # graph.nodes
            /\ \A v \in graph.nodes : D[v] = U[v] => v \in none
        BY <1>9, <2>1, <2>3, <3>1
      <3>3. \E e \in EdgesOf(graph) : e.from \in none /\ e.to \notin none /\ IsTight(D, e)
        BY <1>1, <3>2, TightEdgeLeads
      <3>. QED
        BY <3>1, <3>3
    <2>5. Set[0] = graph.nodes \/ Cardinality(Set[0]) >= 0 + 1
      <3>1. CASE graph.nodes = {}
        BY <1>9, <2>1, <3>1
      <3>2. CASE Set[0] # {}
        <4>1. IsFiniteSet(Set[0])
          BY <1>9, <2>1, FS_Subset DEF IsNetwork
        <4>2. Cardinality(Set[0]) # 0
          BY <3>2, <4>1, FS_EmptySet
        <4>. QED
          BY <1>9, <2>1, <4>2
      <3>. QED
        BY <2>4, <3>1, <3>2
    <2>. QED
      BY <1>10, <2>1, <2>2, <2>3, <2>5
  <1>12. ASSUME NEW i \in 1..k, i - 1 \in T
         PROVE  i \in T
    <2>1. PICK x : x = g[i - 1]
      OBVIOUS
    <2>2. i - 1 \in 0..k /\ i \in 0..k
      BY <1>3
    <2>3. /\ x \in Labels(graph) /\ Above(D, U, graph, x)
          /\ Set[i - 1] = Settled(D, graph, x) /\ Set[i] = Settled(D, graph, g[i])
          /\ \A v \in graph.nodes : D[v] = U[v] => v \in Set[i - 1]
          /\ Set[i - 1] = graph.nodes \/ Cardinality(Set[i - 1]) >= (i - 1) + 1
      BY <1>7, <1>9, <1>10, <1>12, <2>1, <2>2
    <2>4. CASE i > 1 /\ x.updated = Missing
      <3>1. g[i] = x
        BY <1>7, <2>1, <2>4
      <3>2. Satisfies(x.distance, graph)
        <4>1. i - 1 \in 1..k
          BY <1>3, <2>4
        <4>. QED
          BY <1>7, <2>1, <2>4, <4>1
      <3>3. Set[i] = graph.nodes
        BY <1>1, <2>3, <3>1, <3>2, SatisfiedIsSettled
      <3>. QED
        BY <1>10, <2>2, <2>3, <3>1, <3>3
    <2>5. CASE ~(i > 1 /\ x.updated = Missing)
      <3>1. g[i] = Pass(graph.edges, x)
        BY <1>7, <2>1, <2>5
      <3>2. Above(D, U, graph, g[i]) /\ Set[i - 1] \subseteq Set[i]
        BY <1>1, <2>3, <3>1, PassSettles
      <3>3. Set[i] = graph.nodes \/ Cardinality(Set[i]) >= i + 1
        <4>1. CASE Set[i - 1] = graph.nodes
          BY <1>9, <2>2, <3>2, <4>1
        <4>2. CASE Set[i - 1] # graph.nodes
          <5>1. Cardinality(Set[i]) >= Cardinality(Set[i - 1]) + 1
            BY <1>1, <2>3, <3>1, <4>2, PassAdvances
          <5>2. PICK a, b : a = Cardinality(Set[i - 1]) /\ b = Cardinality(Set[i])
            OBVIOUS
          <5>3. a \in Nat /\ b \in Nat /\ b >= a + 1 /\ a >= (i - 1) + 1
            BY <1>9, <2>2, <2>3, <4>2, <5>1, <5>2
          <5>4. b >= i + 1
            BY <5>3
          <5>. QED
            BY <5>2, <5>4
        <4>. QED
          BY <4>1, <4>2
      <3>. QED
        BY <1>10, <2>2, <2>3, <3>2, <3>3
    <2>. QED
      BY <2>4, <2>5
  <1>13. 0..k \subseteq T
    BY <1>3, <1>11, <1>12, UpTo
  <1>. QED
    <2>. TAKE i \in 0..k
    <2>1. Above(D, U, graph, g[i]) /\ (Set[i] = graph.nodes \/ Cardinality(Set[i]) >= i + 1)
      BY <1>10, <1>13
    <2>2. PICK c : c = Cardinality(Set[i])
      OBVIOUS
    <2>3. c \in Nat /\ c =< n /\ (c = n => Set[i] = graph.nodes)
      BY <1>9, <2>2
    <2>4. c >= i + 1 /\ i + 1 >= n => c = n
      BY <1>3, <2>3
    <2>. QED
      BY <1>9, <2>1, <2>2, <2>3, <2>4

\* checkConsistency finds a schedule of a graph that has one: n passes over n nodes
\* suffice.
LEMMA SchedulableIsConsistent ==
    ASSUME NEW graph, IsNetwork(graph), NEW s, Schedule(s, graph)
    PROVE  CheckConsistency(graph).consistent
  <1>0. PICK U : U = [v \in graph.nodes |-> 0]
    OBVIOUS
  <1>1. U \in [graph.nodes -> Int]
    BY <1>0
  <1>2. PICK n : n = Cardinality(graph.nodes)
    OBVIOUS
  <1>3. n \in Nat /\ (n = 0 <=> graph.nodes = {})
    BY <1>2, FS_CardinalityType, FS_EmptySet DEF IsNetwork
  <1>4. PICK st : st = [distance |-> [x \in graph.nodes |-> 0],
                        predecessor |-> Unvisited(graph), updated |-> Missing]
    OBVIOUS
  <1>5. st \in Labels(graph)
    BY <1>4 DEF Labels, Unvisited
  <1>6. PICK g : PassesRun(Labels(graph), graph, st, n, g)
    BY <1>3, <1>5, LabelsClosed, PassesRuns
  <1>7. /\ g[0] = st
        /\ \A i \in 1..n : g[i] = IF i > 1 /\ g[i - 1].updated = Missing THEN g[i - 1]
                                  ELSE Pass(graph.edges, g[i - 1])
        /\ \A i \in 0..n : g[i] \in Labels(graph)
        /\ \A i \in 1..n : g[i].updated = Missing => Satisfies(g[i].distance, graph)
        /\ Passes(graph, st, n) = g[n]
    BY <1>3, <1>6, PassesSatisfy DEF PassesRun
  <1>8. PICK D : Greatest(D, U, graph)
    BY <1>1, GreatestExists
  <1>9. \A i \in 0..n : /\ Above(D, U, graph, g[i])
                        /\ i + 1 >= n => Settled(D, graph, g[i]) = graph.nodes
    BY <1>0, <1>1, <1>2, <1>3, <1>4, <1>5, <1>6, <1>8, PassesSettle
  <1>14. g[n].updated = Missing
    <2>1. CASE n = 0
      BY <1>4, <1>7, <2>1
    <2>2. CASE n # 0
      <3>1. n - 1 \in 0..n /\ n \in 1..n
        BY <1>3, <2>2
      <3>2. Above(D, U, graph, g[n - 1]) /\ g[n - 1] \in Labels(graph)
        BY <1>7, <1>9, <3>1
      <3>3. Settled(D, graph, g[n - 1]) = graph.nodes
        <4>1. (n - 1) + 1 >= n
          BY <1>3
        <4>. QED
          BY <1>9, <3>1, <4>1
      <3>4. Pass(graph.edges, g[n - 1]).updated = Missing
        BY <1>1, <1>8, <3>2, <3>3, PassSettles
      <3>. QED
        BY <1>7, <3>1, <3>4
    <2>. QED
      BY <2>1, <2>2
  <1>15. PICK end : end = Passes(graph, st, n)
    OBVIOUS
  <1>16. end.updated = Missing
    BY <1>7, <1>14, <1>15
  <1>17. CheckConsistency(graph) =
             IF end.updated = Missing THEN [consistent |-> TRUE, distances |-> end.distance]
             ELSE [consistent |-> FALSE, edges |-> NegativeCycle(end.predecessor, end.updated, n)]
    BY <1>2, <1>4, <1>15 DEF CheckConsistency
  <1>. QED
    BY <1>16, <1>17

\* checkConsistency decides whether a graph has a schedule, for every finite graph of
\* whole weights, whatever the order of its edges.
THEOREM ConsistencyDecided ==
    ASSUME NEW graph, IsNetwork(graph)
    PROVE  CheckConsistency(graph).consistent <=> \E s : Schedule(s, graph)
  BY ConsistentIsSchedulable, SchedulableIsConsistent DEF Schedule

----------------------------------------------------------------------------
(* Negative cycles                                                         *)

\* Edges that are recorded for their ends, lead on from one another and lead back.
ClosedWalk(c, predecessor, graph) ==
    /\ c \in Seq(EdgesOf(graph)) /\ c # <<>>
    /\ \A i \in 1..Len(c) : predecessor[c[i].to] = c[i]
    /\ \A i \in 1..Len(c) : i > 1 => c[i - 1].to = c[i].from
    /\ c[Len(c)].to = c[1].from

\* Along edges that each lose at least their weight, a labelling loses the sum, and more
\* if some edge loses more.
LEMMA WalkLoses ==
    ASSUME NEW X, NEW c \in Seq(X), c # <<>>, NEW d,
           \A i \in 1..Len(c) : /\ d[c[i].from] \in Int /\ d[c[i].to] \in Int
                                /\ c[i].weight \in Int
                                /\ d[c[i].to] >= d[c[i].from] + c[i].weight,
           \A i \in 1..Len(c) : i > 1 => c[i - 1].to = c[i].from,
           \E i \in 1..Len(c) : d[c[i].to] > d[c[i].from] + c[i].weight
    PROVE  Weight(c) < d[c[Len(c)].to] - d[c[1].from]
  <1>1. PICK n : n = Len(c)
    OBVIOUS
  <1>2. n \in Nat /\ n # 0
    BY <1>1, EmptySeq, LenProperties
  <1>3. PICK x, y, w : /\ x = [i \in 1..n |-> d[c[i].from]] /\ y = [i \in 1..n |-> d[c[i].to]]
                       /\ w = [i \in 1..n |-> c[i].weight]
    OBVIOUS
  <1>4. \A i \in 1..n : /\ x[i] = d[c[i].from] /\ y[i] = d[c[i].to] /\ w[i] = c[i].weight
                        /\ x[i] \in Int /\ y[i] \in Int /\ w[i] \in Int /\ y[i] >= x[i] + w[i]
    BY <1>1, <1>3
  <1>5. \A i \in 1..n : i > 1 => y[i - 1] = x[i]
    <2>. TAKE i \in 1..n
    <2>. HAVE i > 1
    <2>1. i - 1 \in 1..n
      BY <1>2
    <2>. QED
      BY <1>1, <1>4, <2>1
  <1>6. PICK sum : /\ sum[0] = 0
                   /\ \A i \in 1..n : sum[i] = sum[i - 1] + w[i]
                   /\ Weight(c) = sum[n]
    BY <1>1, <1>4, WeightAdds, ZenonT(40)
  <1>7. PICK j \in 1..n : y[j] > x[j] + w[j]
    BY <1>1, <1>4
  <1>8. PICK a : a = x[1] /\ a \in Int
    BY <1>2, <1>4
  <1>9. PICK T : T = {i \in 0..n : /\ sum[i] \in Int
                                   /\ i # 0 => sum[i] =< y[i] - a
                                   /\ i >= j => sum[i] < y[i] - a}
    OBVIOUS
  <1>10. 0 \in T
    BY <1>2, <1>6, <1>9
  <1>11. ASSUME NEW i \in 1..n, i - 1 \in T
         PROVE  i \in T
    <2>1. /\ sum[i] = sum[i - 1] + w[i] /\ sum[i - 1] \in Int /\ w[i] \in Int
          /\ i - 1 # 0 => sum[i - 1] =< y[i - 1] - a
          /\ i - 1 >= j => sum[i - 1] < y[i - 1] - a
      BY <1>4, <1>6, <1>9, <1>11
    <2>2. x[i] \in Int /\ y[i] \in Int /\ y[i] >= x[i] + w[i]
      BY <1>4
    <2>3. sum[i - 1] =< x[i] - a /\ (i - 1 >= j => sum[i - 1] < x[i] - a)
      <3>1. CASE i = 1
        BY <1>2, <1>6, <1>8, <3>1
      <3>2. CASE i # 1
        <4>1. i - 1 # 0 /\ y[i - 1] = x[i]
          BY <1>5, <3>2
        <4>. QED
          BY <2>1, <4>1
      <3>. QED
        BY <3>1, <3>2
    <2>4. PICK p, q, g, h, v : p = sum[i - 1] /\ q = sum[i] /\ g = x[i] /\ h = y[i] /\ v = w[i]
      OBVIOUS
    <2>5. /\ p \in Int /\ v \in Int /\ g \in Int /\ h \in Int /\ q = p + v
          /\ h >= g + v /\ p =< g - a /\ (i - 1 >= j => p < g - a) /\ (i = j => h > g + v)
      BY <1>7, <2>1, <2>2, <2>3, <2>4
    <2>6. a \in Int /\ (i >= j => i - 1 >= j \/ i = j)
      BY <1>2, <1>8
    <2>7. q =< h - a /\ (i >= j => q < h - a)
      BY <2>5, <2>6
    <2>8. i \in 0..n /\ sum[i] \in Int
      BY <1>2, <2>1
    <2>. QED
      BY <1>9, <2>4, <2>7, <2>8
  <1>12. n \in T
    <2>1. 0..n \subseteq T
      BY <1>2, <1>10, <1>11, UpTo
    <2>. QED
      BY <1>2, <2>1
  <1>13. sum[n] < y[n] - a
    BY <1>2, <1>9, <1>12
  <1>14. y[n] = d[c[n].to] /\ a = d[c[1].from]
    BY <1>2, <1>4, <1>8
  <1>. QED
    BY <1>1, <1>6, <1>13, <1>14

\* An edge holds, or its first node was updated in pass k or later.
Fresh(st, L, e, k) == st.distance[e.to] =< st.distance[e.from] + e.weight \/ L[e.from] >= k

\* What is known of the recorded edges during pass k, when L is the pass in which each
\* node was last updated: they still gain what they gained, each leads from a node that
\* was updated a pass earlier at most, and those that close a walk are negative.
Aged(st, L, k, graph) ==
    /\ L \in [graph.nodes -> 0..k]
    /\ \A v \in graph.nodes : st.predecessor[v] # Missing =>
           /\ st.predecessor[v].to = v
           /\ st.distance[v] >= st.distance[st.predecessor[v].from] + st.predecessor[v].weight
    /\ \A v \in graph.nodes : L[v] >= 1 =>
           /\ st.predecessor[v] # Missing
           /\ L[st.predecessor[v].from] >= L[v] - 1
    /\ st.updated # Missing => L[st.updated] = k
    /\ \A e \in EdgesOf(graph) : Fresh(st, L, e, k - 1)
    /\ \A c : ClosedWalk(c, st.predecessor, graph) => Weight(c) < 0

\* Relaxing an edge leaves all that, and the edge holds or is fresh.
LEMMA RelaxAges ==
    ASSUME NEW graph, IsNetwork(graph), Missing \notin EdgesOf(graph), NEW k \in Nat \ {0},
           NEW st \in Labels(graph), NEW L, Aged(st, L, k, graph), NEW e \in EdgesOf(graph)
    PROVE  \E M : /\ Aged(Relax(st, e), M, k, graph)
                  /\ Fresh(Relax(st, e), M, e, k)
                  /\ \A f \in EdgesOf(graph) : Fresh(st, L, f, k) => Fresh(Relax(st, e), M, f, k)
  <1>1. e.from \in graph.nodes /\ e.to \in graph.nodes /\ e.weight \in Int
    BY DEF IsNetwork, IsGraph
  <1>2. /\ st.distance \in [graph.nodes -> Int]
        /\ st.predecessor \in [graph.nodes -> EdgesOf(graph) \cup {Missing}]
        /\ Missing \notin Int /\ e.to # Missing
    BY <1>1, MissingIsNone DEF Labels, IsNetwork
  <1>3. PICK a, b, w : a = st.distance[e.from] /\ b = st.distance[e.to] /\ w = e.weight
    OBVIOUS
  <1>4. a \in Int /\ b \in Int /\ w \in Int /\ a # Missing /\ b # Missing
    BY <1>1, <1>2, <1>3
  <1>5. CASE a + w >= b
    <2>1. Relax(st, e) = st
      BY <1>3, <1>4, <1>5 DEF Relax
    <2>2. Fresh(st, L, e, k)
      BY <1>3, <1>4, <1>5 DEF Fresh
    <2>. QED
      BY <2>1, <2>2
  <1>6. CASE ~(a + w >= b)
    <2>1. PICK r : r = Relax(st, e)
      OBVIOUS
    <2>2. r = [distance |-> [st.distance EXCEPT ![e.to] = a + w],
               predecessor |-> [st.predecessor EXCEPT ![e.to] = e],
               updated |-> e.to]
      BY <1>3, <1>4, <1>6, <2>1 DEF Relax
    <2>3. /\ \A v \in graph.nodes : r.distance[v] = IF v = e.to THEN a + w ELSE st.distance[v]
          /\ \A v \in graph.nodes : r.predecessor[v] = IF v = e.to THEN e ELSE st.predecessor[v]
          /\ r.updated = e.to
      BY <1>1, <1>2, <2>2
    <2>4. a + w < b /\ a + w \in Int
      BY <1>4, <1>6
    <2>5. \A v \in graph.nodes : /\ r.distance[v] \in Int /\ st.distance[v] \in Int
                                 /\ r.distance[v] =< st.distance[v]
      BY <1>2, <1>3, <1>4, <2>3, <2>4
    <2>6. L \in [graph.nodes -> 0..k]
      BY DEF Aged
    <2>7. PICK M : M = [L EXCEPT ![e.to] = k]
      OBVIOUS
    <2>8. /\ M \in [graph.nodes -> 0..k]
          /\ \A v \in graph.nodes : M[v] = IF v = e.to THEN k ELSE L[v]
      BY <1>1, <2>6, <2>7
    <2>9. \A v \in graph.nodes : M[v] \in 0..k /\ L[v] \in 0..k /\ M[v] >= L[v]
      BY <2>6, <2>8
    <2>10. ASSUME NEW f \in EdgesOf(graph), NEW h \in {k - 1, k}, Fresh(st, L, f, h)
           PROVE  Fresh(r, M, f, h)
      <3>1. f.from \in graph.nodes /\ f.to \in graph.nodes /\ f.weight \in Int
        BY DEF IsNetwork, IsGraph
      <3>2. CASE f.from = e.to
        <4>1. M[f.from] = k /\ k >= h
          BY <2>8, <3>1, <3>2
        <4>. QED
          BY <4>1 DEF Fresh
      <3>3. CASE f.from # e.to
        <4>1. r.distance[f.from] = st.distance[f.from] /\ M[f.from] = L[f.from]
          BY <2>3, <2>8, <3>1, <3>3
        <4>2. PICK x, y, z, u : /\ x = st.distance[f.from] /\ y = st.distance[f.to]
                                /\ z = r.distance[f.to] /\ u = f.weight
          OBVIOUS
        <4>3. x \in Int /\ y \in Int /\ z \in Int /\ u \in Int /\ z =< y
          BY <2>5, <3>1, <4>2
        <4>4. y =< x + u => z =< x + u
          BY <4>3
        <4>. QED
          BY <2>10, <4>1, <4>2, <4>4 DEF Fresh
      <3>. QED
        BY <3>2, <3>3
    <2>11. Fresh(r, M, e, k)
      <3>1. CASE e.from = e.to
        <4>1. M[e.from] = k
          BY <1>1, <2>8, <3>1
        <4>. QED
          BY <4>1 DEF Fresh
      <3>2. CASE e.from # e.to
        <4>1. r.distance[e.from] = a /\ r.distance[e.to] = a + w
          BY <1>1, <1>3, <2>3, <3>2
        <4>. QED
          BY <1>3, <2>4, <4>1 DEF Fresh
      <3>. QED
        BY <3>1, <3>2
    <2>12. ASSUME NEW v \in graph.nodes, r.predecessor[v] # Missing
           PROVE  /\ r.predecessor[v].to = v
                  /\ r.distance[v] >= r.distance[r.predecessor[v].from] + r.predecessor[v].weight
      <3>1. CASE v = e.to
        <4>1. r.predecessor[v] = e /\ r.distance[v] = a + w
          BY <2>3, <3>1
        <4>2. r.distance[e.from] \in Int /\ r.distance[e.from] =< a
          BY <1>1, <1>3, <2>5
        <4>3. a + w >= r.distance[e.from] + w
          BY <1>4, <4>2
        <4>. QED
          BY <1>3, <3>1, <4>1, <4>3
      <3>2. CASE v # e.to
        <4>1. PICK q : q = st.predecessor[v]
          OBVIOUS
        <4>2. r.predecessor[v] = q /\ r.distance[v] = st.distance[v] /\ q # Missing
          BY <2>3, <2>12, <3>2, <4>1
        <4>3. q.to = v /\ st.distance[v] >= st.distance[q.from] + q.weight
          BY <4>1, <4>2 DEF Aged
        <4>4. q \in EdgesOf(graph)
          BY <1>2, <4>1, <4>2
        <4>5. q.from \in graph.nodes /\ q.weight \in Int
          BY <4>4 DEF IsNetwork, IsGraph
        <4>6. PICK x, y, z, u : /\ x = st.distance[q.from] /\ y = st.distance[v]
                                /\ z = r.distance[q.from] /\ u = q.weight
          OBVIOUS
        <4>7. x \in Int /\ y \in Int /\ z \in Int /\ u \in Int /\ z =< x /\ y >= x + u
          BY <2>5, <4>3, <4>5, <4>6
        <4>8. y >= z + u
          BY <4>7
        <4>. QED
          BY <4>2, <4>3, <4>6, <4>8
      <3>. QED
        BY <3>1, <3>2
    <2>13. ASSUME NEW v \in graph.nodes, M[v] >= 1
           PROVE  r.predecessor[v] # Missing /\ M[r.predecessor[v].from] >= M[v] - 1
      <3>1. CASE v = e.to
        <4>1. r.predecessor[v] = e /\ M[v] = k
          BY <2>3, <2>8, <3>1
        <4>2. e # Missing
          OBVIOUS
        <4>3. L[e.from] >= k - 1
          <5>1. Fresh(st, L, e, k - 1)
            BY DEF Aged
          <5>2. ~(st.distance[e.to] =< st.distance[e.from] + e.weight)
            BY <1>3, <1>4, <1>6
          <5>. QED
            BY <5>1, <5>2 DEF Fresh
        <4>4. M[e.from] >= k - 1
          BY <1>1, <2>9, <4>3
        <4>. QED
          BY <4>1, <4>2, <4>4
      <3>2. CASE v # e.to
        <4>1. PICK q : q = st.predecessor[v]
          OBVIOUS
        <4>2. r.predecessor[v] = q /\ M[v] = L[v]
          BY <2>3, <2>8, <3>2, <4>1
        <4>3. q # Missing /\ L[q.from] >= L[v] - 1
          BY <2>13, <4>1, <4>2 DEF Aged
        <4>4. q \in EdgesOf(graph)
          BY <1>2, <4>1, <4>3
        <4>5. q.from \in graph.nodes
          BY <4>4 DEF IsNetwork, IsGraph
        <4>6. M[q.from] >= L[v] - 1
          BY <2>9, <4>3, <4>5
        <4>. QED
          BY <4>2, <4>3, <4>6
      <3>. QED
        BY <3>1, <3>2
    <2>14. M[r.updated] = k
      BY <1>1, <2>3, <2>8
    <2>15. \A f \in EdgesOf(graph) : Fresh(r, M, f, k - 1)
      <3>. TAKE f \in EdgesOf(graph)
      <3>1. Fresh(st, L, f, k - 1)
        BY DEF Aged
      <3>. QED
        BY <2>10, <3>1
    <2>16. ASSUME NEW c, ClosedWalk(c, r.predecessor, graph)
           PROVE  Weight(c) < 0
      <3>1. PICK n : n = Len(c)
        OBVIOUS
      <3>2. n \in Nat /\ n # 0 /\ c \in Seq(EdgesOf(graph)) /\ c # <<>>
        BY <2>16, <3>1, EmptySeq, LenProperties DEF ClosedWalk
      <3>3. /\ \A i \in 1..n : r.predecessor[c[i].to] = c[i]
            /\ \A i \in 1..n : i > 1 => c[i - 1].to = c[i].from
            /\ c[n].to = c[1].from
        BY <2>16, <3>1 DEF ClosedWalk
      <3>4. \A i \in 1..n : c[i] \in EdgesOf(graph)
        BY <3>1, <3>2, ElementOfSeq
      <3>5. \A i \in 1..n : /\ c[i].from \in graph.nodes /\ c[i].to \in graph.nodes
                            /\ c[i].weight \in Int
        BY <3>4 DEF IsNetwork, IsGraph
      <3>6. CASE \A i \in 1..n : c[i].to # e.to
        <4>1. \A i \in 1..n : st.predecessor[c[i].to] = c[i]
          BY <2>3, <3>3, <3>5, <3>6
        <4>2. ClosedWalk(c, st.predecessor, graph)
          BY <3>1, <3>2, <3>3, <4>1 DEF ClosedWalk
        <4>. QED
          BY <4>2 DEF Aged
      <3>7. CASE \E i \in 1..n : c[i].to = e.to
        <4>1. PICK d : d = st.distance
          OBVIOUS
        <4>2. ASSUME NEW i \in 1..n, c[i].to = e.to
              PROVE  d[c[i].to] > d[c[i].from] + c[i].weight
          <5>1. c[i] = e
            BY <2>3, <3>3, <3>5, <4>2
          <5>. QED
            BY <1>3, <1>4, <1>6, <4>1, <5>1
        <4>3. ASSUME NEW i \in 1..n
              PROVE  /\ d[c[i].from] \in Int /\ d[c[i].to] \in Int /\ c[i].weight \in Int
                     /\ d[c[i].to] >= d[c[i].from] + c[i].weight
          <5>1. d[c[i].from] \in Int /\ d[c[i].to] \in Int /\ c[i].weight \in Int
            BY <1>2, <3>5, <4>1
          <5>2. CASE c[i].to = e.to
            BY <4>2, <5>1, <5>2
          <5>3. CASE c[i].to # e.to
            <6>1. st.predecessor[c[i].to] = c[i] /\ c[i] # Missing
              BY <2>3, <3>3, <3>4, <3>5, <5>3
            <6>2. PICK v : v = c[i].to
              OBVIOUS
            <6>3. v \in graph.nodes /\ st.predecessor[v] = c[i]
              BY <3>5, <6>1, <6>2
            <6>4. st.distance[v] >= st.distance[c[i].from] + c[i].weight
              BY <6>1, <6>3 DEF Aged
            <6>. QED
              BY <4>1, <5>1, <6>2, <6>4
          <5>. QED
            BY <5>2, <5>3
        <4>4. Weight(c) < d[c[n].to] - d[c[1].from]
          BY <3>1, <3>2, <3>3, <3>7, <4>2, <4>3, WalkLoses
        <4>5. d[c[1].from] \in Int /\ d[c[n].to] = d[c[1].from]
          <5>1. 1 \in 1..n
            BY <3>2
          <5>. QED
            BY <3>3, <4>3, <5>1
        <4>6. Weight(c) \in Int
          BY <3>1, <3>2, <3>5, WeightTyped
        <4>. QED
          BY <4>4, <4>5, <4>6
      <3>. QED
        BY <3>6, <3>7
    <2>17. Aged(r, M, k, graph)
      BY <2>8, <2>12, <2>13, <2>14, <2>15, <2>16 DEF Aged
    <2>. QED
      BY <2>1, <2>10, <2>11, <2>17
  <1>. QED
    BY <1>5, <1>6

\* So much is known between passes, after k of them.
Ages(st, k, graph) ==
    \E L : Aged(st, L, k, graph) /\ \A e \in EdgesOf(graph) : Fresh(st, L, e, k)

\* One more pass.
LEMMA PassAges ==
    ASSUME NEW graph, IsNetwork(graph), Missing \notin EdgesOf(graph), NEW k \in Nat,
           NEW st \in Labels(graph), Ages(st, k, graph)
    PROVE  Ages(Pass(graph.edges, st), k + 1, graph)
  <1>1. PICK edges, n : edges = graph.edges /\ n = Len(edges)
    OBVIOUS
  <1>2. n \in Nat /\ \A e : e \in EdgesOf(graph) <=> \E i \in 1..n : e = edges[i]
    BY <1>1, ListedEdges
  <1>3. PICK g : PassRun(Labels(graph), graph, st, g)
    BY LabelsClosed, PassRuns
  <1>4. PICK start : start = [st EXCEPT !.updated = Missing]
    OBVIOUS
  <1>5. /\ g[0] = start
        /\ \A i \in 1..n : g[i] = Relax(g[i - 1], edges[i])
        /\ \A i \in 0..n : g[i] \in Labels(graph)
        /\ Pass(graph.edges, st) = g[n]
    BY <1>1, <1>3, <1>4 DEF PassRun
  <1>6. PICK m : m = k + 1
    OBVIOUS
  <1>7. m \in Nat \ {0} /\ m - 1 = k
    BY <1>6
  <1>8. PICK T : T = {i \in 0..n : \E M : /\ Aged(g[i], M, m, graph)
                                          /\ \A j \in 1..i : Fresh(g[i], M, edges[j], m)}
    OBVIOUS
  <1>9. 0 \in T
    <2>1. PICK L : Aged(st, L, k, graph) /\ \A e \in EdgesOf(graph) : Fresh(st, L, e, k)
      BY DEF Ages
    <2>2. /\ start.distance = st.distance /\ start.predecessor = st.predecessor
          /\ start.updated = Missing
      BY <1>4 DEF Labels
    <2>3. L \in [graph.nodes -> 0..m]
      <3>1. L \in [graph.nodes -> 0..k]
        BY <2>1 DEF Aged
      <3>2. 0..k \subseteq 0..m
        BY <1>7
      <3>. QED
        BY <3>1, <3>2
    <2>4. \A e \in EdgesOf(graph) : Fresh(start, L, e, m - 1)
      BY <1>7, <2>1, <2>2 DEF Fresh
    <2>5. Aged(start, L, m, graph)
      BY <2>1, <2>2, <2>3, <2>4 DEF Aged
    <2>6. 0 \in 0..n /\ 1..0 = {}
      BY <1>2
    <2>. QED
      BY <1>5, <1>8, <2>5, <2>6
  <1>10. ASSUME NEW i \in 1..n, i - 1 \in T
         PROVE  i \in T
    <2>1. PICK M : /\ Aged(g[i - 1], M, m, graph)
                   /\ \A j \in 1..i - 1 : Fresh(g[i - 1], M, edges[j], m)
      BY <1>8, <1>10
    <2>2. PICK x, e : x = g[i - 1] /\ e = edges[i]
      OBVIOUS
    <2>3. /\ x \in Labels(graph) /\ e \in EdgesOf(graph) /\ g[i] = Relax(x, e)
          /\ i - 1 \in 0..n /\ i \in 0..n
      BY <1>2, <1>5, <2>2
    <2>4. PICK P : /\ Aged(Relax(x, e), P, m, graph)
                   /\ Fresh(Relax(x, e), P, e, m)
                   /\ \A f \in EdgesOf(graph) : Fresh(x, M, f, m) => Fresh(Relax(x, e), P, f, m)
      BY <1>7, <2>1, <2>2, <2>3, RelaxAges
    <2>5. \A j \in 1..i : Fresh(g[i], P, edges[j], m)
      <3>. TAKE j \in 1..i
      <3>1. CASE j = i
        BY <2>2, <2>3, <2>4, <3>1
      <3>2. CASE j # i
        <4>1. j \in 1..i - 1 /\ j \in 1..n
          BY <1>2, <3>2
        <4>2. edges[j] \in EdgesOf(graph) /\ Fresh(x, M, edges[j], m)
          BY <1>2, <2>1, <2>2, <4>1
        <4>. QED
          BY <2>3, <2>4, <4>2
      <3>. QED
        BY <3>1, <3>2
    <2>. QED
      BY <1>8, <2>3, <2>4, <2>5
  <1>11. n \in T
    <2>1. 0..n \subseteq T
      BY <1>2, <1>9, <1>10, UpTo
    <2>. QED
      BY <1>2, <2>1
  <1>12. PICK M : /\ Aged(g[n], M, m, graph)
                  /\ \A j \in 1..n : Fresh(g[n], M, edges[j], m)
    BY <1>8, <1>11
  <1>13. \A e \in EdgesOf(graph) : Fresh(g[n], M, e, m)
    BY <1>2, <1>12
  <1>. QED
    BY <1>5, <1>6, <1>12, <1>13 DEF Ages

\* After passes that started without predecessors; n of them if each changed something.
LEMMA PassesAge ==
    ASSUME NEW graph, IsNetwork(graph), Missing \notin EdgesOf(graph), NEW n \in Nat,
           NEW st \in Labels(graph), st.predecessor = Unvisited(graph), st.updated = Missing
    PROVE  /\ Passes(graph, st, n).updated # Missing => Ages(Passes(graph, st, n), n, graph)
           /\ \E k \in Nat : Ages(Passes(graph, st, n), k, graph)
  <1>3. PICK g : PassesRun(Labels(graph), graph, st, n, g)
    BY LabelsClosed, PassesRuns
  <1>4. /\ g[0] = st
        /\ \A i \in 1..n : g[i] = IF i > 1 /\ g[i - 1].updated = Missing THEN g[i - 1]
                                  ELSE Pass(graph.edges, g[i - 1])
        /\ \A i \in 0..n : g[i] \in Labels(graph)
        /\ Passes(graph, st, n) = g[n]
    BY <1>3 DEF PassesRun
  <1>5. Ages(st, 0, graph)
    <2>1. PICK L : L = [v \in graph.nodes |-> 0]
      OBVIOUS
    <2>2. L \in [graph.nodes -> 0..0] /\ \A v \in graph.nodes : L[v] = 0
      BY <2>1
    <2>3. \A v \in graph.nodes : st.predecessor[v] = Missing
      BY DEF Unvisited
    <2>4. \A e \in EdgesOf(graph) : e.from \in graph.nodes /\ e.to \in graph.nodes
      BY DEF IsNetwork, IsGraph
    <2>5. \A e \in EdgesOf(graph) : Fresh(st, L, e, 0) /\ Fresh(st, L, e, 0 - 1)
      BY <2>2, <2>4 DEF Fresh
    <2>6. ASSUME NEW c, ClosedWalk(c, st.predecessor, graph)
          PROVE  FALSE
      <3>1. c \in Seq(EdgesOf(graph)) /\ c # <<>>
        BY <2>6 DEF ClosedWalk
      <3>2. Len(c) \in Nat /\ Len(c) # 0
        BY <3>1, EmptySeq, LenProperties
      <3>3. 1 \in 1..Len(c)
        BY <3>2
      <3>4. st.predecessor[c[1].to] = c[1] /\ c[1] \in EdgesOf(graph)
        BY <2>6, <3>1, <3>3, ElementOfSeq DEF ClosedWalk
      <3>. QED
        BY <2>3, <2>4, <3>4
    <2>8. \A v \in graph.nodes : ~(L[v] >= 1)
      BY <2>2
    <2>9. Aged(st, L, 0, graph)
      BY <2>2, <2>3, <2>5, <2>6, <2>8 DEF Aged
    <2>. QED
      BY <2>5, <2>9 DEF Ages
  <1>6. PICK T : T = {i \in 0..n : i = 0 \/ g[i].updated # Missing => Ages(g[i], i, graph)}
    OBVIOUS
  <1>7. 0 \in T
    BY <1>4, <1>5, <1>6
  <1>8. ASSUME NEW i \in 1..n, i - 1 \in T
        PROVE  i \in T
    <2>1. i \in 0..n /\ i - 1 \in 0..n /\ i - 1 \in Nat /\ i # 0
      OBVIOUS
    <2>2. ASSUME g[i].updated # Missing
          PROVE  Ages(g[i], i, graph)
      <3>1. ~(i > 1 /\ g[i - 1].updated = Missing)
        BY <1>4, <2>2
      <3>2. i - 1 = 0 \/ g[i - 1].updated # Missing
        BY <2>1, <3>1
      <3>3. Ages(g[i - 1], i - 1, graph) /\ g[i - 1] \in Labels(graph)
        BY <1>4, <1>6, <1>8, <2>1, <3>2
      <3>4. PICK x, k : x = g[i - 1] /\ k = i - 1
        OBVIOUS
      <3>5. Ages(Pass(graph.edges, x), k + 1, graph)
        BY <2>1, <3>3, <3>4, PassAges
      <3>6. g[i] = Pass(graph.edges, x) /\ k + 1 = i
        BY <1>4, <3>1, <3>4
      <3>. QED
        BY <3>5, <3>6
    <2>. QED
      BY <1>6, <2>1, <2>2
  <1>9. n \in T
    <2>1. 0..n \subseteq T
      BY <1>7, <1>8, UpTo
    <2>. QED
      BY <2>1
  <1>10. PICK S : S = {i \in 0..n : \E k \in Nat : Ages(g[i], k, graph)}
    OBVIOUS
  <1>11. 0 \in S
    <2>1. PICK k : k = 0
      OBVIOUS
    <2>2. k \in Nat /\ Ages(g[0], k, graph)
      BY <1>4, <1>5, <2>1
    <2>. QED
      BY <1>10, <2>2
  <1>12. ASSUME NEW i \in 1..n, i - 1 \in S
         PROVE  i \in S
    <2>1. PICK x : x = g[i - 1]
      OBVIOUS
    <2>2. i \in 0..n /\ x \in Labels(graph) /\ (g[i] = x \/ g[i] = Pass(graph.edges, x))
      BY <1>4, <2>1
    <2>3. PICK k \in Nat : Ages(x, k, graph)
      BY <1>10, <1>12, <2>1
    <2>4. Ages(Pass(graph.edges, x), k + 1, graph)
      BY <2>2, <2>3, PassAges
    <2>5. k + 1 \in Nat
      OBVIOUS
    <2>. QED
      BY <1>10, <2>2, <2>3, <2>4, <2>5
  <1>13. n \in S
    <2>1. 0..n \subseteq S
      BY <1>11, <1>12, UpTo
    <2>. QED
      BY <2>1
  <1>. QED
    BY <1>4, <1>6, <1>9, <1>10, <1>13

\* The node one predecessor back.
Up(p, x) == IF x = Missing \/ p[x] = Missing THEN Missing ELSE p[x].from

\* The walk back from a node.
LEMMA AncestorRuns ==
    ASSUME NEW graph, IsNetwork(graph),
           NEW p \in [graph.nodes -> EdgesOf(graph) \cup {Missing}],
           NEW v \in graph.nodes, NEW n \in Nat
    PROVE  \E g : /\ g[0] = v
                  /\ \A i \in 1..n : g[i] = Up(p, g[i - 1])
                  /\ Ancestor(p, v, n) = g[n]
  <1>1. PICK S : S = graph.nodes \cup {Missing}
    OBVIOUS
  <1>2. \A x \in S : Up(p, x) \in S
    <2>. TAKE x \in S
    <2>1. CASE x = Missing \/ p[x] = Missing
      BY <1>1, <2>1 DEF Up
    <2>2. CASE ~(x = Missing \/ p[x] = Missing)
      <3>1. p[x] \in EdgesOf(graph) /\ Up(p, x) = p[x].from
        BY <1>1, <2>2 DEF Up
      <3>. QED
        BY <1>1, <3>1 DEF IsNetwork, IsGraph
    <2>. QED
      BY <2>1, <2>2
  <1>3. PICK F : F = [q \in (1..n) \X S |-> Up(p, q[2])]
    OBVIOUS
  <1>4. /\ F \in [(1..n) \X S -> S] /\ v \in S
        /\ \A i \in 1..n, x \in S : F[<<i, x>>] = Up(p, x)
    BY <1>1, <1>2, <1>3
  <1>5. PICK h \in [0..n -> S] : Iterate(h, n, v, F)
    BY <1>4, Iterates
  <1>6. h = [i \in 0..n |-> IF i = 0 THEN v ELSE Up(p, h[i - 1])]
    <2>1. \A i \in 0..n : h[i] = IF i = 0 THEN v ELSE F[<<i, h[i - 1]>>]
      BY <1>5 DEF Iterate
    <2>2. \A i \in 0..n : i # 0 => i \in 1..n /\ i - 1 \in 0..n
      OBVIOUS
    <2>3. \A i \in 0..n : h[i] = IF i = 0 THEN v ELSE Up(p, h[i - 1])
      <3>. TAKE i \in 0..n
      <3>1. CASE i = 0
        BY <2>1, <3>1
      <3>2. CASE i # 0
        <4>1. i \in 1..n /\ h[i - 1] \in S /\ h[i] = F[<<i, h[i - 1]>>]
          BY <1>5, <2>1, <2>2, <3>2
        <4>. QED
          BY <1>4, <3>2, <4>1
      <3>. QED
        BY <3>1, <3>2
    <2>. QED
      BY <1>5, <2>3
  <1>7. PICK g : g = CHOOSE f : f = [i \in 0..n |-> IF i = 0 THEN v ELSE Up(p, f[i - 1])]
    OBVIOUS
  <1>8. g = [i \in 0..n |-> IF i = 0 THEN v ELSE Up(p, g[i - 1])]
    BY <1>6, <1>7
  <1>9. Ancestor(p, v, n) = g[n]
    BY <1>7 DEF Ancestor, Up
  <1>10. g[0] = v /\ \A i \in 1..n : g[i] = Up(p, g[i - 1])
    BY <1>8
  <1>. QED
    BY <1>9, <1>10

\* The walk back, step by step.
LEMMA AncestorSays ==
    ASSUME NEW graph, IsNetwork(graph),
           NEW p \in [graph.nodes -> EdgesOf(graph) \cup {Missing}],
           NEW v \in graph.nodes
    PROVE  /\ Ancestor(p, v, 0) = v
           /\ \A n \in Nat \ {0} : Ancestor(p, v, n) = Up(p, Ancestor(p, v, n - 1))
  <1>1. Ancestor(p, v, 0) = v
    <2>1. PICK m : m = 0
      OBVIOUS
    <2>2. m \in Nat
      BY <2>1
    <2>3. PICK g : g[0] = v /\ Ancestor(p, v, m) = g[m]
      BY <2>2, AncestorRuns
    <2>. QED
      BY <2>1, <2>3
  <1>2. ASSUME NEW n \in Nat \ {0}
        PROVE  Ancestor(p, v, n) = Up(p, Ancestor(p, v, n - 1))
    <2>1. PICK m : m = n - 1 /\ m \in Nat /\ m + 1 = n
      OBVIOUS
    <2>2. PICK g : /\ g[0] = v
                   /\ \A i \in 1..n : g[i] = Up(p, g[i - 1])
                   /\ Ancestor(p, v, n) = g[n]
      BY AncestorRuns
    <2>3. PICK h : /\ h[0] = v
                   /\ \A i \in 1..m : h[i] = Up(p, h[i - 1])
                   /\ Ancestor(p, v, m) = h[m]
      BY <2>1, AncestorRuns
    <2>4. PICK T : T = {i \in 0..m : g[i] = h[i]}
      OBVIOUS
    <2>5. 0 \in T
      BY <2>1, <2>2, <2>3, <2>4
    <2>6. ASSUME NEW i \in 1..m, i - 1 \in T
          PROVE  i \in T
      <3>1. i \in 1..n /\ i \in 0..m /\ g[i - 1] = h[i - 1]
        BY <2>1, <2>4, <2>6
      <3>. QED
        BY <2>2, <2>3, <2>4, <3>1
    <2>7. m \in T
      <3>1. 0..m \subseteq T
        BY <2>1, <2>5, <2>6, UpTo
      <3>. QED
        BY <2>1, <3>1
    <2>8. g[n] = Up(p, g[n - 1]) /\ n - 1 = m
      BY <2>1, <2>2
    <2>. QED
      BY <2>2, <2>3, <2>4, <2>7, <2>8
  <1>. QED
    BY <1>1, <1>2

\* Walks back from the same node are the same; what is missing stays missing.
LEMMA AncestorAdds ==
    ASSUME NEW graph, IsNetwork(graph),
           NEW p \in [graph.nodes -> EdgesOf(graph) \cup {Missing}],
           NEW v \in graph.nodes, NEW u \in graph.nodes,
           NEW a \in Nat, NEW b \in Nat, Ancestor(p, v, a) = Ancestor(p, u, b)
    PROVE  \A k \in Nat : Ancestor(p, v, a + k) = Ancestor(p, u, b + k)
  <1>. TAKE k \in Nat
  <1>1. /\ \A n \in Nat \ {0} : Ancestor(p, v, n) = Up(p, Ancestor(p, v, n - 1))
        /\ \A n \in Nat \ {0} : Ancestor(p, u, n) = Up(p, Ancestor(p, u, n - 1))
    BY AncestorSays
  <1>2. PICK T : T = {i \in 0..k : Ancestor(p, v, a + i) = Ancestor(p, u, b + i)}
    OBVIOUS
  <1>3. 0 \in T
    <2>1. a + 0 = a /\ b + 0 = b /\ 0 \in 0..k
      OBVIOUS
    <2>. QED
      BY <1>2, <2>1
  <1>4. ASSUME NEW i \in 1..k, i - 1 \in T
        PROVE  i \in T
    <2>1. PICK x, y : x = a + i /\ y = b + i
      OBVIOUS
    <2>2. /\ x \in Nat \ {0} /\ y \in Nat \ {0}
          /\ a + (i - 1) = x - 1 /\ b + (i - 1) = y - 1 /\ i \in 0..k
      BY <2>1
    <2>3. Ancestor(p, v, x - 1) = Ancestor(p, u, y - 1)
      <3>1. Ancestor(p, v, a + (i - 1)) = Ancestor(p, u, b + (i - 1))
        BY <1>2, <1>4
      <3>. QED
        BY <2>2, <3>1
    <2>4. Ancestor(p, v, x) = Ancestor(p, u, y)
      BY <1>1, <2>2, <2>3
    <2>. QED
      BY <1>2, <2>1, <2>2, <2>4
  <1>5. k \in T
    <2>1. 0..k \subseteq T
      BY <1>3, <1>4, UpTo
    <2>. QED
      BY <2>1
  <1>. QED
    BY <1>2, <1>5

\* On the way back to a node, nothing is missing before it.
LEMMA AncestorMissing ==
    ASSUME NEW graph, IsNetwork(graph),
           NEW p \in [graph.nodes -> EdgesOf(graph) \cup {Missing}],
           NEW v \in graph.nodes, NEW n \in Nat, Ancestor(p, v, n) # Missing
    PROVE  \A i \in 0..n : /\ Ancestor(p, v, i) \in graph.nodes
                           /\ i # n => p[Ancestor(p, v, i)] # Missing
  <1>1. /\ Ancestor(p, v, 0) = v
        /\ \A i \in Nat \ {0} : Ancestor(p, v, i) = Up(p, Ancestor(p, v, i - 1))
    BY AncestorSays
  <1>2. PICK T : T = {k \in 0..n : Ancestor(p, v, n - k) # Missing}
    OBVIOUS
  <1>3. 0 \in T
    <2>1. n - 0 = n /\ 0 \in 0..n
      OBVIOUS
    <2>. QED
      BY <1>2, <2>1
  <1>4. ASSUME NEW k \in 1..n, k - 1 \in T
        PROVE  k \in T
    <2>1. PICK i : i = n - (k - 1)
      OBVIOUS
    <2>2. i \in Nat \ {0} /\ n - k = i - 1 /\ k \in 0..n
      BY <2>1
    <2>3. Ancestor(p, v, i) # Missing
      BY <1>2, <1>4, <2>1
    <2>4. Ancestor(p, v, i - 1) # Missing
      BY <1>1, <2>2, <2>3 DEF Up
    <2>. QED
      BY <1>2, <2>2, <2>4
  <1>5. 0..n \subseteq T
    BY <1>3, <1>4, UpTo
  <1>6. \A i \in 0..n : Ancestor(p, v, i) # Missing
    <2>. TAKE i \in 0..n
    <2>1. PICK k : k = n - i
      OBVIOUS
    <2>2. k \in 0..n /\ n - k = i
      BY <2>1
    <2>. QED
      BY <1>2, <1>5, <2>2
  <1>7. ASSUME NEW i \in 1..n
        PROVE  p[Ancestor(p, v, i - 1)] # Missing
    <2>1. i \in 0..n /\ i \in Nat \ {0}
      OBVIOUS
    <2>2. Ancestor(p, v, i) # Missing /\ Ancestor(p, v, i) = Up(p, Ancestor(p, v, i - 1))
      BY <1>1, <1>6, <2>1
    <2>. QED
      BY <2>2 DEF Up
  <1>8. PICK S : S = {i \in 0..n : Ancestor(p, v, i) \in graph.nodes}
    OBVIOUS
  <1>9. 0 \in S
    BY <1>1, <1>8
  <1>10. ASSUME NEW i \in 1..n, i - 1 \in S
         PROVE  i \in S
    <2>1. PICK x : x = Ancestor(p, v, i - 1)
      OBVIOUS
    <2>2. x \in graph.nodes /\ p[x] # Missing /\ i \in 0..n /\ i \in Nat \ {0}
      BY <1>7, <1>8, <1>10, <2>1
    <2>3. p[x] \in EdgesOf(graph)
      BY <2>2
    <2>4. Ancestor(p, v, i) = p[x].from
      <3>1. Ancestor(p, v, i) = Up(p, x) /\ Ancestor(p, v, i) # Missing
        BY <1>1, <1>6, <2>1, <2>2
      <3>. QED
        BY <3>1 DEF Up
    <2>. QED
      BY <1>8, <2>2, <2>3, <2>4 DEF IsNetwork, IsGraph
  <1>11. 0..n \subseteq S
    BY <1>9, <1>10, UpTo
  <1>12. ASSUME NEW i \in 0..n, i # n
         PROVE  p[Ancestor(p, v, i)] # Missing
    <2>1. PICK k : k = i + 1
      OBVIOUS
    <2>2. k \in 1..n /\ k - 1 = i
      BY <1>12, <2>1
    <2>. QED
      BY <1>7, <2>2
  <1>. QED
    BY <1>8, <1>11, <1>12

\* Of more nodes than there are, two are the same.
LEMMA AncestorsRepeat ==
    ASSUME NEW graph, IsNetwork(graph), NEW n, n = Cardinality(graph.nodes), NEW p, NEW v,
           \A i \in 0..n : Ancestor(p, v, i) \in graph.nodes
    PROVE  \E a, b \in 0..n : a < b /\ Ancestor(p, v, a) = Ancestor(p, v, b)
  <1>1. n \in Nat /\ IsFiniteSet(graph.nodes)
    BY FS_CardinalityType DEF IsNetwork
  <1>2. PICK f : f = [i \in 0..n |-> Ancestor(p, v, i)]
    OBVIOUS
  <1>3. f \in [0..n -> graph.nodes]
    BY <1>2
  <1>4. IsFiniteSet(0..n) /\ Cardinality(0..n) = n + 1
    <2>1. \A a, b \in Int : IsFiniteSet(a..b) /\ Cardinality(a..b) = IF a > b THEN 0 ELSE b - a + 1
      BY FS_Interval
    <2>2. Cardinality(0..n) = n - 0 + 1 /\ IsFiniteSet(0..n)
      BY <1>1, <2>1
    <2>. QED
      BY <1>1, <2>2
  <1>5. Cardinality(graph.nodes) < Cardinality(0..n)
    BY <1>1, <1>4
  <1>6. PICK a, b \in 0..n : a # b /\ f[a] = f[b]
    BY <1>1, <1>3, <1>4, <1>5, FS_PigeonHole
  <1>7. Ancestor(p, v, a) = Ancestor(p, v, b) /\ (a < b \/ b < a)
    BY <1>2, <1>6
  <1>. QED
    BY <1>6, <1>7

\* When every pass changed something, the node n predecessors back from the last update
\* comes again on the way back from it.
LEMMA WalkRepeats ==
    ASSUME NEW graph, IsNetwork(graph), NEW n, n = Cardinality(graph.nodes),
           NEW st \in Labels(graph), st.updated # Missing, Ages(st, n, graph)
    PROVE  /\ Ancestor(st.predecessor, st.updated, n) \in graph.nodes
           /\ \E d \in 1..n :
                  Ancestor(st.predecessor, Ancestor(st.predecessor, st.updated, n), d)
                  = Ancestor(st.predecessor, st.updated, n)
  <1>1. PICK p, v : p = st.predecessor /\ v = st.updated
    OBVIOUS
  <1>2. p \in [graph.nodes -> EdgesOf(graph) \cup {Missing}] /\ v \in graph.nodes
    BY <1>1 DEF Labels
  <1>3. n \in Nat /\ IsFiniteSet(graph.nodes)
    BY FS_CardinalityType DEF IsNetwork
  <1>4. PICK L : Aged(st, L, n, graph)
    BY DEF Ages
  <1>5. /\ L \in [graph.nodes -> 0..n] /\ L[v] = n
        /\ \A u \in graph.nodes : L[u] >= 1 => /\ p[u] # Missing
                                               /\ L[p[u].from] >= L[u] - 1
    BY <1>1, <1>4 DEF Aged
  <1>6. /\ Ancestor(p, v, 0) = v
        /\ \A i \in Nat \ {0} : Ancestor(p, v, i) = Up(p, Ancestor(p, v, i - 1))
    BY <1>2, AncestorSays
  <1>7. PICK T : T = {i \in 0..n : /\ Ancestor(p, v, i) \in graph.nodes
                                   /\ L[Ancestor(p, v, i)] >= n - i}
    OBVIOUS
  <1>8. 0 \in T
    BY <1>2, <1>3, <1>5, <1>6, <1>7
  <1>9. ASSUME NEW i \in 1..n, i - 1 \in T
        PROVE  i \in T
    <2>1. PICK x : x = Ancestor(p, v, i - 1)
      OBVIOUS
    <2>2. PICK l : l = L[x]
      OBVIOUS
    <2>3. x \in graph.nodes /\ l >= n - (i - 1) /\ l \in Int
      BY <1>5, <1>7, <1>9, <2>1, <2>2
    <2>4. l >= 1 /\ i \in Nat \ {0} /\ i \in 0..n /\ l - 1 >= n - i
      BY <1>3, <2>3
    <2>5. p[x] # Missing /\ L[p[x].from] >= l - 1
      BY <1>5, <2>2, <2>3, <2>4
    <2>6. p[x].from \in graph.nodes
      BY <1>2, <2>3, <2>5 DEF IsNetwork, IsGraph
    <2>7. x # Missing
      BY <2>3, MissingIsNone DEF IsNetwork
    <2>8. Ancestor(p, v, i) = p[x].from
      BY <1>6, <2>1, <2>4, <2>5, <2>7 DEF Up
    <2>9. PICK m : m = L[p[x].from]
      OBVIOUS
    <2>10. m \in Int /\ m >= l - 1
      BY <1>5, <2>5, <2>6, <2>9
    <2>11. m >= n - i
      BY <1>3, <2>3, <2>4, <2>10
    <2>. QED
      BY <1>7, <2>4, <2>6, <2>8, <2>9, <2>11
  <1>10. 0..n \subseteq T
    BY <1>3, <1>8, <1>9, UpTo
  <1>11. \A i \in 0..n : Ancestor(p, v, i) \in graph.nodes
    BY <1>7, <1>10
  <1>12. \E a, b \in 0..n : a < b /\ Ancestor(p, v, a) = Ancestor(p, v, b)
    BY <1>11, AncestorsRepeat
  <1>13. PICK a, b \in 0..n : a < b /\ Ancestor(p, v, a) = Ancestor(p, v, b)
    BY <1>12
  <1>14. PICK d, s : d = b - a /\ s = Ancestor(p, v, n)
    OBVIOUS
  <1>15. d \in 1..n /\ s \in graph.nodes
    BY <1>3, <1>11, <1>13, <1>14
  <1>16. Ancestor(p, v, n + d) = s
    <2>1. PICK k : k = n - a
      OBVIOUS
    <2>2. k \in Nat /\ a + k = n /\ b + k = n + d /\ a \in Nat /\ b \in Nat
      BY <1>3, <1>13, <1>14, <2>1
    <2>3. \A j \in Nat : Ancestor(p, v, a + j) = Ancestor(p, v, b + j)
      BY <1>2, <1>13, <2>2, AncestorAdds
    <2>4. Ancestor(p, v, a + k) = Ancestor(p, v, b + k)
      BY <2>2, <2>3
    <2>. QED
      BY <1>14, <2>2, <2>4
  <1>17. Ancestor(p, s, d) = Ancestor(p, v, n + d)
    <2>1. Ancestor(p, s, 0) = s
      BY <1>2, <1>15, AncestorSays
    <2>2. 0 \in Nat /\ d \in Nat /\ 0 + d = d
      BY <1>15
    <2>3. PICK z : z = 0
      OBVIOUS
    <2>4. z \in Nat /\ Ancestor(p, s, z) = Ancestor(p, v, n)
      BY <1>14, <2>1, <2>3
    <2>5. \A k \in Nat : Ancestor(p, s, z + k) = Ancestor(p, v, n + k)
      BY <1>2, <1>3, <1>15, <2>4, AncestorAdds
    <2>. QED
      BY <2>2, <2>3, <2>5
  <1>. QED
    BY <1>1, <1>14, <1>15, <1>16, <1>17

\* Edges that are recorded for their ends and lead on from one another.
Walk(c, p, first, last, graph) ==
    /\ c \in Seq(EdgesOf(graph)) /\ c # <<>>
    /\ \A i \in 1..Len(c) : p[c[i].to] = c[i]
    /\ \A i \in 1..Len(c) : i > 1 => c[i - 1].to = c[i].from
    /\ c[1].from = first /\ c[Len(c)].to = last

\* The edges of the walk back from a node lead to it from where the walk ends.
LEMMA WalkLeads ==
    ASSUME NEW graph, IsNetwork(graph), NEW p \in [graph.nodes -> EdgesOf(graph) \cup {Missing}],
           \A x \in graph.nodes : p[x] # Missing => p[x].to = x,
           NEW v \in graph.nodes, NEW k \in Nat \ {0}, Ancestor(p, v, k) # Missing
    PROVE  Walk(WalkTo(p, v, k), p, Ancestor(p, v, k), v, graph)
  <1>1. PICK c : c = WalkTo(p, v, k)
    OBVIOUS
  <1>3. PICK A : A = [i \in 0..k |-> Ancestor(p, v, i)]
    OBVIOUS
  <1>4. A[0] = v /\ A[k] = Ancestor(p, v, k) /\ \A i \in 1..k : A[i] = Up(p, A[i - 1])
    <2>1. /\ Ancestor(p, v, 0) = v
          /\ \A i \in Nat \ {0} : Ancestor(p, v, i) = Up(p, Ancestor(p, v, i - 1))
      BY AncestorSays
    <2>2. \A i \in 1..k : i \in Nat \ {0} /\ i \in 0..k /\ i - 1 \in 0..k
      OBVIOUS
    <2>3. 0 \in 0..k /\ k \in 0..k
      OBVIOUS
    <2>. QED
      BY <1>3, <2>1, <2>2, <2>3
  <1>5. \A i \in 0..k : A[i] \in graph.nodes /\ (i # k => p[A[i]] # Missing)
    <2>1. \A i \in 0..k : /\ Ancestor(p, v, i) \in graph.nodes
                          /\ i # k => p[Ancestor(p, v, i)] # Missing
      BY AncestorMissing
    <2>. QED
      BY <1>3, <2>1
  <1>6. c = [i \in 1..k |-> p[Ancestor(p, v, k - i)]]
    BY <1>1 DEF WalkTo
  <1>7. \A i \in 1..k : /\ k - i \in 0..k /\ k - i # k /\ (k - i) + 1 \in 1..k
                        /\ ((k - i) + 1) - 1 = k - i
    OBVIOUS
  <1>8. \A i \in 1..k : c[i] = p[A[k - i]]
    BY <1>3, <1>6, <1>7
  <1>9. \A i \in 1..k : /\ c[i] \in EdgesOf(graph)
                        /\ c[i].to = A[k - i]
                        /\ c[i].from = A[(k - i) + 1]
    <2>. TAKE i \in 1..k
    <2>1. PICK x : x = A[k - i]
      OBVIOUS
    <2>2. x \in graph.nodes /\ p[x] # Missing /\ c[i] = p[x]
      BY <1>5, <1>7, <1>8, <2>1
    <2>3. c[i] \in EdgesOf(graph)
      BY <2>2
    <2>4. p[x].to = x
      BY <2>2
    <2>5. x # Missing
      BY <2>2, MissingIsNone DEF IsNetwork
    <2>6. A[(k - i) + 1] = Up(p, x)
      BY <1>4, <1>7, <2>1
    <2>7. Up(p, x) = p[x].from
      BY <2>2, <2>5 DEF Up
    <2>. QED
      BY <2>1, <2>2, <2>3, <2>4, <2>6, <2>7
  <1>10. c \in Seq(EdgesOf(graph)) /\ Len(c) = k /\ c # <<>>
    <2>1. PICK E : E = EdgesOf(graph)
      OBVIOUS
    <2>2. c \in [1..k -> E]
      BY <1>6, <1>9, <2>1
    <2>3. c \in Seq(E) /\ Len(c) = k
      BY <2>2
    <2>. QED
      BY <2>1, <2>3, EmptySeq
  <1>11. \A i \in 1..k : p[c[i].to] = c[i]
    BY <1>8, <1>9
  <1>12. \A i \in 1..k : i > 1 => c[i - 1].to = c[i].from
    <2>. TAKE i \in 1..k
    <2>. HAVE i > 1
    <2>1. i - 1 \in 1..k /\ k - (i - 1) = (k - i) + 1
      OBVIOUS
    <2>. QED
      BY <1>9, <2>1
  <1>13. c[1].from = A[k] /\ c[k].to = v
    <2>1. 1 \in 1..k /\ k \in 1..k /\ k - k = 0 /\ (k - 1) + 1 = k
      OBVIOUS
    <2>. QED
      BY <1>4, <1>9, <2>1
  <1>. QED
    BY <1>1, <1>4, <1>10, <1>11, <1>12, <1>13 DEF Walk

\* The edges of the walk back from a node to itself lead around.
LEMMA WalkCloses ==
    ASSUME NEW graph, IsNetwork(graph), Missing \notin EdgesOf(graph),
           NEW st \in Labels(graph), NEW L, NEW n, Aged(st, L, n, graph),
           NEW v \in graph.nodes, NEW k \in Nat \ {0},
           Ancestor(st.predecessor, v, k) = v
    PROVE  ClosedWalk(WalkTo(st.predecessor, v, k), st.predecessor, graph)
  <1>1. PICK p, c : p = st.predecessor /\ c = WalkTo(p, v, k)
    OBVIOUS
  <1>2. /\ p \in [graph.nodes -> EdgesOf(graph) \cup {Missing}]
        /\ \A x \in graph.nodes : p[x] # Missing => p[x].to = x
    BY <1>1 DEF Labels, Aged
  <1>3. Ancestor(p, v, k) # Missing
    BY <1>1, MissingIsNone DEF IsNetwork
  <1>4. Walk(c, p, v, v, graph)
    BY <1>1, <1>2, <1>3, WalkLeads
  <1>. QED
    BY <1>1, <1>4 DEF Walk, ClosedWalk

\* Numbers around a circle, up to twice.
LEMMA Remainders ==
    ASSUME NEW n \in Nat \ {0}, NEW a \in 0..(n + n)
    PROVE  a % n = IF a < n THEN a ELSE IF a < n + n THEN a - n ELSE 0
  <1>1. CASE a < n
    BY <1>1
  <1>2. CASE n =< a /\ a < n + n
    <2>1. a \in Nat /\ n =< a /\ a < 2 * n
      BY <1>2
    <2>2. a % n = a - n
      BY <2>1, SMTT(20)
    <2>. QED
      BY <1>2, <2>2
  <1>3. CASE a = n + n
    <2>1. (n + n) % n = 0
      BY SMTT(20)
    <2>. QED
      BY <1>3, <2>1
  <1>. QED
    BY <1>1, <1>2, <1>3

\* One step on is the next number, or the first after the last.
LEMMA Around ==
    ASSUME NEW n \in Nat \ {0}, NEW a \in 0..(n + n)
    PROVE  /\ a % n \in 0..n - 1
           /\ a < n + n => \/ (a + 1) % n = (a % n) + 1
                           \/ a % n = n - 1 /\ (a + 1) % n = 0
           /\ a =< n => (n + a) % n = a % n
  <1>1. PICK x : x = a % n
    OBVIOUS
  <1>2. x = IF a < n THEN a ELSE IF a < n + n THEN a - n ELSE 0
    BY <1>1, Remainders
  <1>3. x \in 0..n - 1
    BY <1>2
  <1>4. ASSUME a < n + n
        PROVE  (a + 1) % n = x + 1 \/ (x = n - 1 /\ (a + 1) % n = 0)
    <2>1. PICK b : b = a + 1
      OBVIOUS
    <2>2. b \in 0..(n + n)
      BY <1>4, <2>1
    <2>3. PICK y : y = b % n
      OBVIOUS
    <2>4. y = IF b < n THEN b ELSE IF b < n + n THEN b - n ELSE 0
      BY <2>2, <2>3, Remainders
    <2>5. y = x + 1 \/ (x = n - 1 /\ y = 0)
      BY <1>2, <1>4, <2>1, <2>4
    <2>. QED
      BY <2>1, <2>3, <2>5
  <1>5. ASSUME a =< n
        PROVE  (n + a) % n = x
    <2>1. PICK b : b = n + a
      OBVIOUS
    <2>2. b \in 0..(n + n)
      BY <1>5, <2>1
    <2>3. PICK y : y = b % n
      OBVIOUS
    <2>4. y = IF b < n THEN b ELSE IF b < n + n THEN b - n ELSE 0
      BY <2>2, <2>3, Remainders
    <2>5. y = x
      BY <1>2, <1>5, <2>1, <2>4
    <2>. QED
      BY <2>1, <2>3, <2>5
  <1>. QED
    BY <1>1, <1>3, <1>4, <1>5

\* A cycle from another of its edges.
Rotated(c, k) == [i \in DOMAIN c |-> c[((i + k) % Len(c)) + 1]]

\* A closed walk is one wherever it starts.
LEMMA RotatedCloses ==
    ASSUME NEW graph, NEW p, NEW c, ClosedWalk(c, p, graph), NEW k \in DOMAIN c
    PROVE  ClosedWalk(Rotated(c, k), p, graph) /\ Len(Rotated(c, k)) = Len(c)
  <1>1. PICK n, r : n = Len(c) /\ r = Rotated(c, k)
    OBVIOUS
  <1>2. n \in Nat \ {0} /\ DOMAIN c = 1..n /\ k \in 1..n
    BY <1>1, EmptySeq, LenProperties DEF ClosedWalk
  <1>3. PICK at : at = [i \in 0..n |-> ((i + k) % n) + 1]
    OBVIOUS
  <1>4. /\ \A i \in 0..n : at[i] \in 1..n
        /\ at[0] = at[n]
        /\ \A i \in 1..n : at[i] = at[i - 1] + 1 \/ (at[i - 1] = n /\ at[i] = 1)
    <2>1. ASSUME NEW i \in 0..n
          PROVE  at[i] \in 1..n
      <3>1. i + k \in 0..(n + n)
        BY <1>2
      <3>2. PICK x : x = (i + k) % n
        OBVIOUS
      <3>3. x \in 0..n - 1
        BY <1>2, <3>1, <3>2, Around
      <3>4. at[i] = x + 1
        BY <1>3, <3>2
      <3>. QED
        BY <1>2, <3>3, <3>4
    <2>2. at[0] = at[n]
      <3>1. k \in 0..(n + n) /\ k =< n
        BY <1>2
      <3>3. (n + k) % n = k % n
        BY <1>2, <3>1, Around
      <3>2. 0 + k = k /\ 0 \in 0..n /\ n \in 0..n
        BY <1>2
      <3>. QED
        BY <1>3, <3>2, <3>3
    <2>3. ASSUME NEW i \in 1..n
          PROVE  at[i] = at[i - 1] + 1 \/ (at[i - 1] = n /\ at[i] = 1)
      <3>1. PICK a : a = (i - 1) + k
        OBVIOUS
      <3>2. a \in 0..(n + n) /\ a < n + n /\ a + 1 = i + k /\ i \in 0..n /\ i - 1 \in 0..n
        BY <1>2, <3>1
      <3>3. (a + 1) % n = (a % n) + 1 \/ (a % n = n - 1 /\ (a + 1) % n = 0)
        BY <1>2, <3>2, Around
      <3>4. a % n \in Int
        BY <1>2, <3>2, Around
      <3>5. at[i] = ((a + 1) % n) + 1 /\ at[i - 1] = (a % n) + 1
        BY <1>3, <3>1, <3>2
      <3>6. PICK x, y : x = a % n /\ y = (a + 1) % n
        OBVIOUS
      <3>. QED
        BY <1>2, <3>3, <3>4, <3>5, <3>6
    <2>. QED
      BY <2>1, <2>2, <2>3
  <1>5. r = [i \in 1..n |-> c[((i + k) % n) + 1]]
    BY <1>1, <1>2 DEF Rotated
  <1>6. \A i \in 1..n : r[i] = c[at[i]]
    BY <1>2, <1>3, <1>5
  <1>7. /\ \A i \in 1..n : c[i] \in EdgesOf(graph) /\ p[c[i].to] = c[i]
        /\ \A i \in 1..n : i > 1 => c[i - 1].to = c[i].from
        /\ c[n].to = c[1].from
    BY <1>1, ElementOfSeq DEF ClosedWalk
  <1>8. \A i \in 1..n : r[i] \in EdgesOf(graph) /\ p[r[i].to] = r[i]
    <2>. TAKE i \in 1..n
    <2>1. at[i] \in 1..n /\ r[i] = c[at[i]]
      BY <1>4, <1>6
    <2>. QED
      BY <1>7, <2>1
  <1>9. r \in Seq(EdgesOf(graph)) /\ Len(r) = n /\ r # <<>>
    <2>1. PICK E : E = EdgesOf(graph)
      OBVIOUS
    <2>2. r \in [1..n -> E]
      BY <1>5, <1>8, <2>1
    <2>3. r \in Seq(E) /\ Len(r) = n
      BY <1>2, <2>2
    <2>. QED
      BY <1>2, <2>1, <2>3, EmptySeq
  <1>10. \A i \in 1..n : c[at[i - 1]].to = c[at[i]].from
    <2>. TAKE i \in 1..n
    <2>1. PICK a, b : a = at[i - 1] /\ b = at[i]
      OBVIOUS
    <2>2. i \in 0..n /\ i - 1 \in 0..n
      BY <1>2
    <2>3. a \in 1..n /\ b \in 1..n /\ (b = a + 1 \/ (a = n /\ b = 1))
      BY <1>4, <2>1, <2>2
    <2>4. CASE b = a + 1
      <3>1. b > 1 /\ b - 1 = a
        BY <1>2, <2>3, <2>4
      <3>2. c[b - 1].to = c[b].from
        BY <1>7, <2>3, <3>1
      <3>. QED
        BY <2>1, <3>1, <3>2
    <2>5. CASE a = n /\ b = 1
      BY <1>7, <2>1, <2>5
    <2>. QED
      BY <2>3, <2>4, <2>5
  <1>11. \A i \in 1..n : i > 1 => r[i - 1].to = r[i].from
    <2>. TAKE i \in 1..n
    <2>. HAVE i > 1
    <2>1. i - 1 \in 1..n
      BY <1>2
    <2>. QED
      BY <1>6, <1>10, <2>1
  <1>12. r[n].to = r[1].from
    <2>1. 1 \in 1..n /\ n \in 1..n /\ 1 - 1 = 0
      BY <1>2
    <2>2. c[at[0]].to = c[at[1]].from
      BY <1>10, <2>1
    <2>. QED
      BY <1>4, <1>6, <2>1, <2>2
  <1>. QED
    BY <1>1, <1>8, <1>9, <1>11, <1>12 DEF ClosedWalk

\* Edges whose sources are pairs of whole numbers, as the order of edges compares them.
Sourced(graph) ==
    \A e \in EdgesOf(graph) : e.source[1] \in Int /\ e.source[2] \in Int

\* The order in which the smallest rotation is chosen.
Sooner(c, d) ==
    \E i \in DOMAIN c :
        /\ EdgeBefore(c[i], d[i])
        /\ \A j \in 1..(i - 1) : c[j] = d[j]

\* compareEdges is a strict order of such edges.
LEMMA EdgesOrdered ==
    ASSUME NEW graph, IsNetwork(graph), Sourced(graph),
           NEW e \in EdgesOf(graph), NEW f \in EdgesOf(graph), NEW g \in EdgesOf(graph)
    PROVE  ~EdgeBefore(e, e) /\ (EdgeBefore(e, f) /\ EdgeBefore(f, g) => EdgeBefore(e, g))
  <1>1. \A h \in EdgesOf(graph) : /\ h.from \in Int /\ h.to \in Int /\ h.weight \in Int
                                  /\ h.source[1] \in Int /\ h.source[2] \in Int
    BY DEF IsNetwork, IsGraph, Sourced
  <1>2. ~EdgeBefore(e, e)
    BY <1>1 DEF EdgeBefore
  <1>3. ASSUME EdgeBefore(e, f), EdgeBefore(f, g)
        PROVE  EdgeBefore(e, g)
    BY <1>1, <1>3 DEF EdgeBefore
  <1>. QED
    BY <1>2, <1>3

\* So is the order of rotations.
LEMMA SoonerOrders ==
    ASSUME NEW graph, IsNetwork(graph), Sourced(graph), NEW n \in Nat,
           NEW c \in [1..n -> EdgesOf(graph)], NEW d \in [1..n -> EdgesOf(graph)],
           NEW e \in [1..n -> EdgesOf(graph)]
    PROVE  ~Sooner(c, c) /\ (Sooner(c, d) /\ Sooner(d, e) => Sooner(c, e))
  <1>1. ~Sooner(c, c)
    BY EdgesOrdered DEF Sooner
  <1>2. ASSUME Sooner(c, d), Sooner(d, e)
        PROVE  Sooner(c, e)
    <2>1. PICK i \in 1..n : EdgeBefore(c[i], d[i]) /\ \A j \in 1..(i - 1) : c[j] = d[j]
      BY <1>2 DEF Sooner
    <2>2. PICK k \in 1..n : EdgeBefore(d[k], e[k]) /\ \A j \in 1..(k - 1) : d[j] = e[j]
      BY <1>2 DEF Sooner
    <2>3. CASE i < k
      <3>1. i \in 1..(k - 1) /\ \A j \in 1..(i - 1) : j \in 1..(k - 1)
        BY <2>3
      <3>2. EdgeBefore(c[i], e[i]) /\ \A j \in 1..(i - 1) : c[j] = e[j]
        BY <2>1, <2>2, <3>1
      <3>. QED
        BY <3>2 DEF Sooner
    <2>4. CASE k < i
      <3>1. k \in 1..(i - 1) /\ \A j \in 1..(k - 1) : j \in 1..(i - 1)
        BY <2>4
      <3>2. EdgeBefore(c[k], e[k]) /\ \A j \in 1..(k - 1) : c[j] = e[j]
        BY <2>1, <2>2, <3>1
      <3>. QED
        BY <3>2 DEF Sooner
    <2>5. CASE i = k
      <3>1. EdgeBefore(c[i], e[i]) /\ \A j \in 1..(i - 1) : c[j] = e[j]
        BY <2>1, <2>2, <2>5, EdgesOrdered
      <3>. QED
        BY <3>1 DEF Sooner
    <2>. QED
      BY <2>3, <2>4, <2>5
  <1>. QED
    BY <1>1, <1>2

\* canonicalCycle finds a rotation than which none is sooner.
LEMMA CanonicalRotates ==
    ASSUME NEW graph, IsNetwork(graph), Sourced(graph),
           NEW c \in Seq(EdgesOf(graph)), c # <<>>
    PROVE  \E k \in DOMAIN c : CanonicalCycle(c) = Rotated(c, k)
  <1>1. PICK n : n = Len(c)
    OBVIOUS
  <1>2. n \in Nat \ {0} /\ DOMAIN c = 1..n
    BY <1>1, EmptySeq, LenProperties
  <1>3. PICK R : R = [k \in 1..n |-> Rotated(c, k)]
    OBVIOUS
  <1>4. \A k \in 1..n : R[k] \in [1..n -> EdgesOf(graph)]
    <2>. TAKE k \in 1..n
    <2>1. R[k] = [i \in 1..n |-> c[((i + k) % n) + 1]]
      BY <1>1, <1>2, <1>3 DEF Rotated
    <2>2. ASSUME NEW i \in 1..n
          PROVE  c[((i + k) % n) + 1] \in EdgesOf(graph)
      <3>1. i + k \in 0..(n + n)
        BY <1>2
      <3>2. PICK x : x = (i + k) % n
        OBVIOUS
      <3>3. x + 1 \in 1..n
        <4>1. x \in 0..n - 1
          BY <1>2, <3>1, <3>2, Around
        <4>. QED
          BY <1>2, <4>1
      <3>4. c[x + 1] \in EdgesOf(graph)
        BY <1>1, <3>3, ElementOfSeq
      <3>. QED
        BY <3>2, <3>4
    <2>. QED
      BY <2>1, <2>2
  <1>5. PICK T : T = {i \in 0..n : i = 0 \/ \E m \in 1..i : \A j \in 1..i : ~Sooner(R[j], R[m])}
    OBVIOUS
  <1>6. 0 \in T
    BY <1>2, <1>5
  <1>7. ASSUME NEW i \in 1..n, i - 1 \in T
        PROVE  i \in T
    <2>1. i \in 0..n /\ i \in 1..i /\ \A j \in 1..i : j = i \/ j \in 1..i - 1
      BY <1>2
    <2>2. \A j \in 1..i : j \in 1..n
      BY <1>2
    <2>3. ~Sooner(R[i], R[i])
      BY <1>2, <1>4, SoonerOrders
    <2>4. CASE i = 1
      <3>1. \A j \in 1..i : j = i
        BY <2>4
      <3>. QED
        BY <1>5, <2>1, <2>3, <3>1
    <2>5. CASE i # 1
      <3>1. i - 1 # 0
        BY <2>5
      <3>2. PICK m \in 1..i - 1 : \A j \in 1..i - 1 : ~Sooner(R[j], R[m])
        BY <1>5, <1>7, <3>1
      <3>3. m \in 1..i
        OBVIOUS
      <3>4. CASE ~Sooner(R[i], R[m])
        <4>1. \A j \in 1..i : ~Sooner(R[j], R[m])
          BY <2>1, <3>2, <3>4
        <4>. QED
          BY <1>5, <2>1, <3>3, <4>1
      <3>5. CASE Sooner(R[i], R[m])
        <4>1. ASSUME NEW j \in 1..i, Sooner(R[j], R[i])
              PROVE  FALSE
          <5>1. PICK x, y, z : x = R[j] /\ y = R[i] /\ z = R[m]
            OBVIOUS
          <5>2. /\ x \in [1..n -> EdgesOf(graph)] /\ y \in [1..n -> EdgesOf(graph)]
                /\ z \in [1..n -> EdgesOf(graph)]
            BY <1>4, <2>2, <3>3, <5>1
          <5>3. Sooner(x, z)
            BY <1>2, <3>5, <4>1, <5>1, <5>2, SoonerOrders
          <5>4. j \in 1..i - 1
            BY <2>1, <2>3, <4>1
          <5>. QED
            BY <3>2, <5>1, <5>3, <5>4
        <4>. QED
          BY <1>5, <2>1, <4>1
      <3>. QED
        BY <3>4, <3>5
    <2>. QED
      BY <2>4, <2>5
  <1>8. n \in T
    <2>1. 0..n \subseteq T
      BY <1>2, <1>6, <1>7, UpTo
    <2>. QED
      BY <1>2, <2>1
  <1>9. PICK m \in 1..n : \A j \in 1..n : ~Sooner(R[j], R[m])
    BY <1>2, <1>5, <1>8
  <1>10. \A d : d \in Rotations(c) <=> \E k \in 1..n : d = R[k]
    BY <1>2, <1>3 DEF Rotations, Rotated
  <1>11. PICK S : S = Rotations(c)
    OBVIOUS
  <1>12. \E d \in S : \A e \in S : ~Sooner(e, d)
    <2>1. PICK d : d = R[m]
      OBVIOUS
    <2>2. d \in S
      BY <1>10, <1>11, <2>1
    <2>3. ASSUME NEW e \in S
          PROVE  ~Sooner(e, d)
      <3>1. PICK j \in 1..n : e = R[j]
        BY <1>10, <1>11
      <3>. QED
        BY <1>9, <2>1, <3>1
    <2>. QED
      BY <2>2, <2>3
  <1>13. PICK best : best = CHOOSE d \in S : \A e \in S : ~Sooner(e, d)
    OBVIOUS
  <1>14. best \in S
    BY <1>12, <1>13
  <1>15. CanonicalCycle(c) = best
    BY <1>11, <1>13 DEF CanonicalCycle, Sooner
  <1>. QED
    BY <1>2, <1>3, <1>10, <1>11, <1>14, <1>15

\* A set of numbers from 1 has a least one.
LEMMA LeastOf ==
    ASSUME NEW S, S \subseteq Nat, S # {}
    PROVE  Min(S) \in S
  <1>1. IsWellFoundedOn(Lt, Nat)
    BY NatLessThanWellFounded DEF OpToRel, Lt
  <1>2. PICK i \in S : \A m \in S : ~(<<m, i>> \in Lt)
    BY <1>1, WFMin
  <1>3. ASSUME NEW m \in S
        PROVE  i =< m
    <2>1. m \in Nat /\ i \in Nat /\ ~(<<m, i>> \in Lt)
      BY <1>2
    <2>2. ~(m < i)
      BY <2>1 DEF Lt
    <2>. QED
      BY <2>1, <2>2
  <1>. QED
    BY <1>3 DEF Min

\* The state checkConsistency starts from.
AtZero(graph) == [distance |-> [x \in graph.nodes |-> 0],
                  predecessor |-> Unvisited(graph), updated |-> Missing]

\* What checkConsistency finds inconsistent it proves: the cycle it returns is one the
\* verifier accepts. Missing stands for a cycle that was not found, so it is none.
THEOREM CyclesFound ==
    ASSUME NEW graph, IsNetwork(graph), Sourced(graph), Missing \notin EdgesOf(graph),
           Missing \notin Seq(EdgesOf(graph)), ~CheckConsistency(graph).consistent
    PROVE  /\ CheckConsistency(graph).edges \in Seq(EdgesOf(graph))
           /\ CheckConsistency(graph).edges # Missing
           /\ VerifyCycle(CycleWitness(CheckConsistency(graph).edges), graph)
  <1>1. PICK n : n = Cardinality(graph.nodes)
    OBVIOUS
  <1>2. n \in Nat
    BY <1>1, FS_CardinalityType DEF IsNetwork
  <1>3. PICK st : st = Passes(graph, AtZero(graph), n)
    OBVIOUS
  <1>4. CheckConsistency(graph) =
            IF st.updated = Missing THEN [consistent |-> TRUE, distances |-> st.distance]
            ELSE [consistent |-> FALSE, edges |-> NegativeCycle(st.predecessor, st.updated, n)]
    BY <1>1, <1>3 DEF CheckConsistency, AtZero
  <1>5. st.updated # Missing
    BY <1>4
  <1>6. st \in Labels(graph) /\ Ages(st, n, graph)
    <2>1. PICK z : z = AtZero(graph)
      OBVIOUS
    <2>2. z \in Labels(graph) /\ z.predecessor = Unvisited(graph) /\ z.updated = Missing
      BY <2>1 DEF AtZero, Labels, Unvisited
    <2>3. PICK g : PassesRun(Labels(graph), graph, z, n, g)
      BY <1>2, <2>2, LabelsClosed, PassesRuns
    <2>4. st = g[n] /\ n \in 0..n /\ \A i \in 0..n : g[i] \in Labels(graph)
      BY <1>2, <1>3, <2>1, <2>3 DEF PassesRun
    <2>. QED
      BY <1>2, <1>3, <1>5, <2>1, <2>2, <2>4, PassesAge
  <1>7. PICK p, start : p = st.predecessor /\ start = Ancestor(p, st.updated, n)
    OBVIOUS
  <1>8. start \in graph.nodes /\ \E d \in 1..n : Ancestor(p, start, d) = start
    BY <1>1, <1>5, <1>6, <1>7, WalkRepeats
  <1>9. PICK lengths : lengths = {k \in 1..(n + 1) : Ancestor(p, start, k) = start}
    OBVIOUS
  <1>10. lengths # {} /\ start # Missing
    <2>1. \A d \in 1..n : d \in 1..(n + 1)
      BY <1>2
    <2>. QED
      BY <1>8, <1>9, <2>1, MissingIsNone DEF IsNetwork
  <1>11. PICK k : k = Min(lengths)
    OBVIOUS
  <1>12. k \in Nat \ {0} /\ Ancestor(p, start, k) = start
    <2>1. lengths \subseteq Nat /\ 0 \notin lengths
      BY <1>2, <1>9
    <2>2. k \in lengths
      BY <1>10, <1>11, <2>1, LeastOf
    <2>. QED
      BY <1>9, <2>1, <2>2
  <1>13. PICK c : c = WalkTo(p, start, k)
    OBVIOUS
  <1>14. CheckConsistency(graph).edges = CanonicalCycle(c)
    <2>1. NegativeCycle(p, st.updated, n) = CanonicalCycle(c)
      BY <1>7, <1>9, <1>10, <1>11, <1>13 DEF NegativeCycle
    <2>. QED
      BY <1>4, <1>5, <1>7, <2>1
  <1>15. PICK L : Aged(st, L, n, graph)
    BY <1>6 DEF Ages
  <1>16. ClosedWalk(c, p, graph)
    BY <1>6, <1>7, <1>8, <1>12, <1>13, <1>15, WalkCloses
  <1>17. PICK j \in DOMAIN c : CanonicalCycle(c) = Rotated(c, j)
    BY <1>16, CanonicalRotates DEF ClosedWalk
  <1>18. PICK r, m : r = Rotated(c, j) /\ m = Len(r)
    OBVIOUS
  <1>19. ClosedWalk(r, p, graph)
    BY <1>16, <1>18, RotatedCloses
  <1>20. Weight(r) < 0
    BY <1>7, <1>15, <1>19 DEF Aged
  <1>21. /\ r \in Seq(EdgesOf(graph)) /\ r # <<>>
         /\ \A i \in 1..m : i > 1 => r[i - 1].to = r[i].from
         /\ r[m].to = r[1].from
    BY <1>18, <1>19 DEF ClosedWalk
  <1>22. m \in Nat \ {0} /\ DOMAIN r = 1..m
    BY <1>18, <1>21, EmptySeq, LenProperties
  <1>23. \A i \in 1..m : r[i] \in EdgesOf(graph)
    BY <1>18, <1>21, ElementOfSeq
  <1>24. ASSUME NEW i \in 1..m
         PROVE  r[i].to = r[(i % m) + 1].from
    <2>1. CASE i = m
      <3>1. i % m = 0 /\ 0 + 1 = 1
        BY <1>22, <2>1
      <3>. QED
        BY <1>21, <2>1, <3>1
    <2>2. CASE i # m
      <3>1. i % m = i
        BY <1>22, <2>2
      <3>2. PICK h : h = i + 1
        OBVIOUS
      <3>3. h \in 1..m /\ h > 1 /\ h - 1 = i
        BY <1>22, <2>2, <3>2
      <3>4. r[h - 1].to = r[h].from
        BY <1>21, <3>3
      <3>. QED
        BY <3>1, <3>2, <3>3, <3>4
    <2>. QED
      BY <2>1, <2>2
  <1>25. PICK w : w = CycleWitness(r)
    OBVIOUS
  <1>26. w.kind = "negative-cycle" /\ w.edges = r
    BY <1>25 DEF CycleWitness
  <1>27. VerifyCycle(w, graph)
    BY <1>18, <1>20, <1>21, <1>22, <1>23, <1>24, <1>26 DEF VerifyCycle
  <1>28. r # Missing
    BY <1>21
  <1>. QED
    BY <1>14, <1>17, <1>18, <1>21, <1>25, <1>27, <1>28

----------------------------------------------------------------------------
(* Shortest paths                                                          *)

\* States in which a node without a predecessor has its first distance.
Capped(U, graph) ==
    {x \in Labels(graph) : \A v \in graph.nodes : x.predecessor[v] = Missing => x.distance[v] = U[v]}

\* A pass stays among them.
LEMMA CappedClosed ==
    ASSUME NEW graph, IsNetwork(graph), Missing \notin EdgesOf(graph), NEW U
    PROVE  Closed(Capped(U, graph), graph)
  <1>1. ASSUME NEW x \in Capped(U, graph)
        PROVE  [x EXCEPT !.updated = Missing] \in Capped(U, graph)
    <2>1. PICK y : y = [x EXCEPT !.updated = Missing]
      OBVIOUS
    <2>2. x \in Labels(graph)
      BY DEF Capped
    <2>3. y.distance = x.distance /\ y.predecessor = x.predecessor /\ y \in Labels(graph)
      BY <2>1, <2>2 DEF Labels
    <2>. QED
      BY <2>1, <2>3 DEF Capped
  <1>2. ASSUME NEW x \in Capped(U, graph), NEW e \in EdgesOf(graph)
        PROVE  Relax(x, e) \in Capped(U, graph)
    <2>1. PICK y : y = Relax(x, e)
      OBVIOUS
    <2>2. x \in Labels(graph) /\ y \in Labels(graph)
      BY <2>1, RelaxSays DEF Capped
    <2>3. e.from \in graph.nodes /\ e.to \in graph.nodes
      BY DEF IsNetwork, IsGraph
    <2>4. \/ y = x
          \/ /\ \A v \in graph.nodes : v # e.to => /\ y.distance[v] = x.distance[v]
                                                   /\ y.predecessor[v] = x.predecessor[v]
             /\ y.predecessor[e.to] = e
      BY <2>1, <2>2, <2>3 DEF Relax, Labels
    <2>5. \A v \in graph.nodes : y.predecessor[v] = Missing => y.distance[v] = U[v]
      BY <2>4 DEF Capped
    <2>. QED
      BY <2>1, <2>2, <2>5 DEF Capped
  <1>. QED
    BY <1>1, <1>2 DEF Closed

\* A walk of tight edges weighs the difference of its ends.
LEMMA WalkTelescopes ==
    ASSUME NEW graph, IsGraph(graph), NEW D \in [graph.nodes -> Int],
           NEW c, NEW p, NEW first, NEW last, Walk(c, p, first, last, graph),
           \A i \in 1..Len(c) : IsTight(D, c[i])
    PROVE  Weight(c) = D[last] - D[first]
  <1>1. PICK n : n = Len(c)
    OBVIOUS
  <1>2. /\ c \in Seq(EdgesOf(graph)) /\ c # <<>>
        /\ \A i \in 1..n : i > 1 => c[i - 1].to = c[i].from
        /\ c[1].from = first /\ c[n].to = last
    BY <1>1 DEF Walk
  <1>3. n \in Nat /\ n # 0
    BY <1>1, <1>2, EmptySeq, LenProperties
  <1>4. \A i \in 1..n : c[i] \in EdgesOf(graph)
    BY <1>1, <1>2, ElementOfSeq
  <1>5. \A i \in 1..n : /\ c[i].weight \in Int /\ D[c[i].from] \in Int /\ D[c[i].to] \in Int
                        /\ D[c[i].to] = D[c[i].from] + c[i].weight
    BY <1>1, <1>4 DEF IsGraph, IsTight
  <1>6. PICK sum : /\ sum[0] = 0
                   /\ \A i \in 1..n : sum[i] = sum[i - 1] + c[i].weight
                   /\ Weight(c) = sum[n]
    BY <1>1, <1>2, <1>5, WeightAdds
  <1>7. PICK a : a = D[first]
    OBVIOUS
  <1>8. a \in Int
    <2>1. 1 \in 1..n
      BY <1>3
    <2>. QED
      BY <1>2, <1>5, <1>7, <2>1
  <1>9. PICK T : T = {i \in 0..n : /\ sum[i] \in Int
                                   /\ i # 0 => D[c[i].to] = a + sum[i]}
    OBVIOUS
  <1>10. 0 \in T
    BY <1>3, <1>6, <1>9
  <1>11. ASSUME NEW i \in 1..n, i - 1 \in T
         PROVE  i \in T
    <2>1. PICK x, y, w, u : /\ x = D[c[i].from] /\ y = D[c[i].to] /\ w = c[i].weight
                            /\ u = sum[i - 1]
      OBVIOUS
    <2>2. x \in Int /\ y \in Int /\ w \in Int /\ y = x + w /\ u \in Int /\ sum[i] = u + w
      BY <1>5, <1>6, <1>9, <1>11, <2>1
    <2>3. x = a + u
      <3>1. CASE i = 1
        <4>1. u = 0 /\ x = a
          BY <1>2, <1>6, <1>7, <2>1, <3>1
        <4>. QED
          BY <1>8, <4>1
      <3>2. CASE i # 1
        <4>1. i > 1 /\ i - 1 \in 1..n /\ i - 1 # 0
          BY <1>3, <3>2
        <4>2. c[i - 1].to = c[i].from
          BY <1>2, <4>1
        <4>. QED
          BY <1>9, <1>11, <2>1, <4>1, <4>2
      <3>. QED
        BY <3>1, <3>2
    <2>4. y = a + (u + w) /\ u + w \in Int
      BY <1>8, <2>2, <2>3
    <2>5. i \in 0..n
      BY <1>3
    <2>. QED
      BY <1>9, <2>1, <2>2, <2>4, <2>5
  <1>12. n \in T
    <2>1. 0..n \subseteq T
      BY <1>3, <1>10, <1>11, UpTo
    <2>. QED
      BY <1>3, <2>1
  <1>13. PICK w, z : w = Weight(c) /\ z = D[last]
    OBVIOUS
  <1>14. w \in Int /\ z = a + w
    BY <1>2, <1>3, <1>6, <1>9, <1>12, <1>13
  <1>15. w = z - a
    BY <1>8, <1>14
  <1>. QED
    BY <1>7, <1>13, <1>15

\* Predecessors that nowhere lead around lead back to a node that has none.
LEMMA RootFound ==
    ASSUME NEW graph, IsNetwork(graph), NEW n, n = Cardinality(graph.nodes),
           NEW p \in [graph.nodes -> EdgesOf(graph) \cup {Missing}],
           \A x \in graph.nodes : p[x] # Missing => p[x].to = x,
           \A c : ~ClosedWalk(c, p, graph), NEW v \in graph.nodes
    PROVE  \E k \in 0..n : Ancestor(p, v, k) \in graph.nodes /\ p[Ancestor(p, v, k)] = Missing
  <1>. SUFFICES ASSUME \A k \in 0..n : Ancestor(p, v, k) \in graph.nodes =>
                                           p[Ancestor(p, v, k)] # Missing
                PROVE  FALSE
    OBVIOUS
  <1>1. n \in Nat
    BY FS_CardinalityType DEF IsNetwork
  <1>2. /\ Ancestor(p, v, 0) = v
        /\ \A i \in Nat \ {0} : Ancestor(p, v, i) = Up(p, Ancestor(p, v, i - 1))
    BY AncestorSays
  <1>3. PICK T : T = {i \in 0..n : Ancestor(p, v, i) \in graph.nodes}
    OBVIOUS
  <1>4. 0 \in T
    BY <1>1, <1>2, <1>3
  <1>5. ASSUME NEW i \in 1..n, i - 1 \in T
        PROVE  i \in T
    <2>1. PICK x : x = Ancestor(p, v, i - 1)
      OBVIOUS
    <2>2. x \in graph.nodes /\ i - 1 \in 0..n /\ i \in 0..n /\ i \in Nat \ {0}
      BY <1>1, <1>3, <1>5, <2>1
    <2>3. p[x] \in EdgesOf(graph) /\ p[x] # Missing
      BY <2>1, <2>2
    <2>4. x # Missing
      BY <2>2, MissingIsNone DEF IsNetwork
    <2>5. Ancestor(p, v, i) = p[x].from
      BY <1>2, <2>1, <2>2, <2>3, <2>4 DEF Up
    <2>. QED
      BY <1>3, <2>2, <2>3, <2>5 DEF IsNetwork, IsGraph
  <1>6. 0..n \subseteq T
    BY <1>1, <1>4, <1>5, UpTo
  <1>7. \A i \in 0..n : Ancestor(p, v, i) \in graph.nodes
    BY <1>3, <1>6
  <1>8. PICK a, b \in 0..n : a < b /\ Ancestor(p, v, a) = Ancestor(p, v, b)
    BY <1>7, AncestorsRepeat
  <1>9. PICK d, s : d = b - a /\ s = Ancestor(p, v, a)
    OBVIOUS
  <1>10. d \in Nat \ {0} /\ a \in Nat /\ a + d = b /\ s \in graph.nodes
    BY <1>1, <1>7, <1>8, <1>9
  <1>11. Ancestor(p, s, d) = s
    <2>1. PICK z : z = 0
      OBVIOUS
    <2>2. z \in Nat /\ z + d = d /\ Ancestor(p, s, z) = s
      BY <1>10, <2>1, AncestorSays
    <2>5. Ancestor(p, s, z) = Ancestor(p, v, a)
      BY <1>9, <2>2
    <2>6. s \in graph.nodes /\ z \in Nat /\ a \in Nat
      BY <1>10, <2>2
    <2>3. \A k \in Nat : Ancestor(p, s, z + k) = Ancestor(p, v, a + k)
      BY <2>5, <2>6, AncestorAdds
    <2>4. Ancestor(p, s, z + d) = Ancestor(p, v, a + d)
      BY <1>10, <2>3
    <2>. QED
      BY <1>8, <1>9, <1>10, <2>2, <2>4
  <1>12. Ancestor(p, s, d) # Missing
    BY <1>10, <1>11, MissingIsNone DEF IsNetwork
  <1>13. Walk(WalkTo(p, s, d), p, Ancestor(p, s, d), s, graph)
    BY <1>10, <1>12, WalkLeads
  <1>14. PICK c : c = WalkTo(p, s, d)
    OBVIOUS
  <1>15. ClosedWalk(c, p, graph)
    BY <1>11, <1>13, <1>14 DEF Walk, ClosedWalk
  <1>. QED
    BY <1>15

\* A walk around weighs nothing less than nothing, in a graph with a schedule.
LEMMA ClosedWalkWeighs ==
    ASSUME NEW graph, IsGraph(graph), NEW s, Schedule(s, graph), NEW c, NEW p,
           ClosedWalk(c, p, graph)
    PROVE  ~(Weight(c) < 0)
  <1>1. PICK n : n = Len(c)
    OBVIOUS
  <1>2. c \in Seq(EdgesOf(graph)) /\ c # <<>> /\ c[n].to = c[1].from
    BY <1>1 DEF ClosedWalk
  <1>3. n \in Nat /\ n # 0 /\ \A i \in 1..n : c[i] \in EdgesOf(graph)
    BY <1>1, <1>2, EmptySeq, LenProperties, ElementOfSeq
  <1>4. s \in [graph.nodes -> Int] /\ Satisfies(s, graph)
    BY DEF Schedule
  <1>5. \A i \in 1..n : i > 1 => c[i - 1].to = c[i].from
    BY <1>1 DEF ClosedWalk
  <1>6. s[c[n].to] - s[c[1].from] =< Weight(c)
    BY <1>1, <1>2, <1>3, <1>4, <1>5, PathGains
  <1>7. \A i \in 1..n : c[i].weight \in Int /\ c[i].from \in graph.nodes
    BY <1>3 DEF IsGraph
  <1>8. PICK a, w : a = s[c[1].from] /\ w = Weight(c)
    OBVIOUS
  <1>9. w \in Int
    BY <1>1, <1>2, <1>7, <1>8, WeightTyped
  <1>10. a \in Int
    <2>1. 1 \in 1..n
      BY <1>3
    <2>. QED
      BY <1>4, <1>7, <1>8, <2>1
  <1>11. a - a =< w
    BY <1>2, <1>6, <1>8
  <1>. QED
    BY <1>8, <1>9, <1>10, <1>11
\* States of the passes of shortestPath: a node that no path has reached has no distance.
Partial(graph) ==
    [distance : [graph.nodes -> Int \cup {Missing}],
     predecessor : [graph.nodes -> EdgesOf(graph) \cup {Missing}],
     updated : graph.nodes \cup {Missing}]

\* Such a state with distances for the nodes that have none: those of a schedule, raised
\* by b.
Raised(x, s, b, graph) ==
    [distance |-> [v \in graph.nodes |-> IF x.distance[v] = Missing THEN s[v] + b ELSE x.distance[v]],
     predecessor |-> x.predecessor, updated |-> x.updated]

\* The raised schedule is above the distances there are.
Fits(x, s, b, graph) == \A v \in graph.nodes : x.distance[v] # Missing => x.distance[v] < s[v] + b

\* A pass stays among them.
LEMMA PartialClosed == ASSUME NEW graph, IsNetwork(graph) PROVE Closed(Partial(graph), graph)
  <1>1. \A x \in Partial(graph) : [x EXCEPT !.updated = Missing] \in Partial(graph)
    BY DEF Partial
  <1>2. ASSUME NEW x \in Partial(graph), NEW e \in EdgesOf(graph)
        PROVE  Relax(x, e) \in Partial(graph)
    <2>1. e.from \in graph.nodes /\ e.to \in graph.nodes /\ e.weight \in Int
      BY DEF IsNetwork, IsGraph
    <2>2. /\ x.distance \in [graph.nodes -> Int \cup {Missing}]
          /\ x.predecessor \in [graph.nodes -> EdgesOf(graph) \cup {Missing}]
      BY DEF Partial
    <2>3. PICK a, w : a = x.distance[e.from] /\ w = e.weight
      OBVIOUS
    <2>4. a = Missing \/ a + w \in Int
      BY <2>1, <2>2, <2>3
    <2>5. CASE Relax(x, e) = x
      BY <2>5
    <2>6. CASE Relax(x, e) # x
      <3>1. /\ a # Missing
            /\ Relax(x, e) = [distance |-> [x.distance EXCEPT ![e.to] = a + w],
                              predecessor |-> [x.predecessor EXCEPT ![e.to] = e], updated |-> e.to]
        BY <2>3, <2>6 DEF Relax
      <3>2. [x.distance EXCEPT ![e.to] = a + w] \in [graph.nodes -> Int \cup {Missing}]
        BY <2>1, <2>2, <2>4, <3>1
      <3>3. [x.predecessor EXCEPT ![e.to] = e] \in [graph.nodes -> EdgesOf(graph) \cup {Missing}]
        BY <2>1, <2>2
      <3>. QED
        BY <2>1, <3>1, <3>2, <3>3 DEF Partial
    <2>. QED
      BY <2>5, <2>6
  <1>. QED
    BY <1>1, <1>2 DEF Closed

\* A raised state has a distance for every node.
LEMMA RaisedSays ==
    ASSUME NEW graph, IsNetwork(graph), NEW s \in [graph.nodes -> Int], NEW b \in Int,
           NEW x \in Partial(graph)
    PROVE  /\ Raised(x, s, b, graph) \in Labels(graph)
           /\ \A v \in graph.nodes : Raised(x, s, b, graph).distance[v] =
                  IF x.distance[v] = Missing THEN s[v] + b ELSE x.distance[v]
           /\ Raised(x, s, b, graph).predecessor = x.predecessor
           /\ Raised(x, s, b, graph).updated = x.updated
  <1>1. PICK y : y = Raised(x, s, b, graph)
    OBVIOUS
  <1>2. /\ y = [distance |-> y.distance, predecessor |-> x.predecessor, updated |-> x.updated]
        /\ y.distance = [v \in graph.nodes |-> IF x.distance[v] = Missing THEN s[v] + b
                                               ELSE x.distance[v]]
    BY <1>1 DEF Raised
  <1>3. \A v \in graph.nodes : s[v] + b \in Int /\ x.distance[v] \in Int \cup {Missing}
    BY DEF Partial
  <1>4. y.distance \in [graph.nodes -> Int]
    BY <1>2, <1>3
  <1>5. y \in Labels(graph)
    <2>1. /\ x.predecessor \in [graph.nodes -> EdgesOf(graph) \cup {Missing}]
          /\ x.updated \in graph.nodes \cup {Missing}
      BY DEF Partial
    <2>. QED
      BY <1>2, <1>4, <2>1 DEF Labels
  <1>. QED
    BY <1>1, <1>2, <1>5

\* Raised enough, a schedule fits.
LEMMA RaisedFits ==
    ASSUME NEW graph, IsNetwork(graph), NEW s \in [graph.nodes -> Int], NEW x \in Partial(graph)
    PROVE  \E m \in Int : \A b \in Int : b >= m => Fits(x, s, b, graph)
  <1>1. \A v \in graph.nodes : s[v] \in Int /\ x.distance[v] \in Int \cup {Missing}
    BY DEF Partial
  <1>2. PICK f : f = [v \in graph.nodes |-> IF x.distance[v] = Missing THEN 0
                                            ELSE (x.distance[v] - s[v]) + 1]
    OBVIOUS
  <1>3. f \in [graph.nodes -> Int]
    BY <1>1, <1>2
  <1>4. PICK m \in Int : \A v \in graph.nodes : f[v] =< m
    BY <1>3, LabellingBounded
  <1>5. ASSUME NEW b \in Int, b >= m, NEW v \in graph.nodes, x.distance[v] # Missing
        PROVE  x.distance[v] < s[v] + b
    <2>1. PICK d, t : d = x.distance[v] /\ t = s[v]
      OBVIOUS
    <2>2. d \in Int /\ t \in Int /\ f[v] = (d - t) + 1 /\ f[v] =< m
      BY <1>1, <1>2, <1>4, <1>5, <2>1
    <2>3. d < t + b
      BY <1>5, <2>2
    <2>. QED
      BY <2>1, <2>3
  <1>. QED
    BY <1>4, <1>5 DEF Fits

\* Relaxing an edge of a raised state raises what relaxing it in the state gives.
LEMMA RelaxRaises ==
    ASSUME NEW graph, IsNetwork(graph), NEW s, Schedule(s, graph), NEW b \in Int,
           NEW x \in Partial(graph), NEW e \in EdgesOf(graph),
           Fits(x, s, b, graph), Fits(Relax(x, e), s, b, graph)
    PROVE  Relax(Raised(x, s, b, graph), e) = Raised(Relax(x, e), s, b, graph)
  <1>1. e.from \in graph.nodes /\ e.to \in graph.nodes /\ e.weight \in Int
    BY DEF IsNetwork, IsGraph
  <1>2. s \in [graph.nodes -> Int] /\ s[e.to] - s[e.from] =< e.weight /\ Missing \notin Int
    BY MissingIsNone DEF Schedule, Satisfies
  <1>3. PICK y : y = Raised(x, s, b, graph)
    OBVIOUS
  <1>4. /\ y \in Labels(graph)
        /\ \A v \in graph.nodes : y.distance[v] =
               IF x.distance[v] = Missing THEN s[v] + b ELSE x.distance[v]
        /\ y.predecessor = x.predecessor /\ y.updated = x.updated
    BY <1>2, <1>3, RaisedSays
  <1>5. y.distance = [v \in graph.nodes |-> IF x.distance[v] = Missing THEN s[v] + b ELSE x.distance[v]]
    BY <1>3 DEF Raised
  <1>6. PICK a, c, w, f, t : /\ a = x.distance[e.from] /\ c = x.distance[e.to] /\ w = e.weight
                             /\ f = s[e.from] /\ t = s[e.to]
    OBVIOUS
  <1>7. /\ a \in Int \cup {Missing} /\ c \in Int \cup {Missing}
        /\ w \in Int /\ f \in Int /\ t \in Int /\ t - f =< w
    BY <1>1, <1>2, <1>6 DEF Partial
  <1>8. c # Missing => c < t + b
    BY <1>1, <1>6 DEF Fits
  <1>9. PICK p, q : p = y.distance[e.from] /\ q = y.distance[e.to]
    OBVIOUS
  <1>10. /\ p \in Int /\ q \in Int /\ p # Missing /\ q # Missing
         /\ p = IF a = Missing THEN f + b ELSE a
         /\ q = IF c = Missing THEN t + b ELSE c
    BY <1>1, <1>2, <1>4, <1>6, <1>9 DEF Labels
  <1>11. CASE a = Missing
    <2>1. Relax(x, e) = x
      BY <1>6, <1>11 DEF Relax
    <2>2. p + w >= q
      BY <1>7, <1>8, <1>10, <1>11
    <2>3. Relax(y, e) = y
      BY <1>6, <1>9, <1>10, <2>2 DEF Relax
    <2>. QED
      BY <1>3, <2>1, <2>3
  <1>12. CASE a # Missing /\ c # Missing /\ a + w >= c
    <2>1. Relax(x, e) = x
      BY <1>6, <1>12 DEF Relax
    <2>2. Relax(y, e) = y
      BY <1>6, <1>9, <1>10, <1>12 DEF Relax
    <2>. QED
      BY <1>3, <2>1, <2>2
  <1>13. CASE a # Missing /\ ~(c # Missing /\ a + w >= c)
    <2>1. Relax(x, e) = [distance |-> [x.distance EXCEPT ![e.to] = a + w],
                         predecessor |-> [x.predecessor EXCEPT ![e.to] = e], updated |-> e.to]
      BY <1>6, <1>13 DEF Relax
    <2>2. a + w \in Int /\ a + w # Missing
      BY <1>2, <1>7, <1>13
    <2>3. \A v \in graph.nodes : Relax(x, e).distance[v] = IF v = e.to THEN a + w ELSE x.distance[v]
      BY <1>1, <2>1 DEF Partial
    <2>4. a + w < t + b
      BY <1>1, <1>6, <2>2, <2>3 DEF Fits
    <2>5. p = a /\ ~(p + w >= q)
      BY <1>7, <1>10, <1>13, <2>2, <2>4
    <2>6. Relax(y, e) = [distance |-> [y.distance EXCEPT ![e.to] = a + w],
                         predecessor |-> [x.predecessor EXCEPT ![e.to] = e], updated |-> e.to]
      BY <1>4, <1>6, <1>9, <1>10, <2>5 DEF Relax
    <2>7. PICK z : z = Relax(x, e)
      OBVIOUS
    <2>8. \A v \in graph.nodes :
              (IF z.distance[v] = Missing THEN s[v] + b ELSE z.distance[v])
              = IF v = e.to THEN a + w ELSE y.distance[v]
      BY <1>4, <2>2, <2>3, <2>7
    <2>9. [y.distance EXCEPT ![e.to] = a + w]
          = [v \in graph.nodes |-> IF z.distance[v] = Missing THEN s[v] + b ELSE z.distance[v]]
      BY <1>5, <2>8
    <2>10. Raised(z, s, b, graph) = [distance |-> [y.distance EXCEPT ![e.to] = a + w],
                                     predecessor |-> z.predecessor, updated |-> z.updated]
      BY <2>9 DEF Raised
    <2>11. z.predecessor = [x.predecessor EXCEPT ![e.to] = e] /\ z.updated = e.to
      BY <2>1, <2>7
    <2>. QED
      BY <1>3, <2>6, <2>7, <2>10, <2>11
  <1>. QED
    BY <1>11, <1>12, <1>13

\* A pass over a state raised enough gives what a pass over the state gives, raised.
LEMMA PassRaises ==
    ASSUME NEW graph, IsNetwork(graph), NEW s, Schedule(s, graph), NEW x \in Partial(graph)
    PROVE  \E m \in Int : \A b \in Int : b >= m =>
               Pass(graph.edges, Raised(x, s, b, graph)) = Raised(Pass(graph.edges, x), s, b, graph)
  <1>1. PICK edges, n : edges = graph.edges /\ n = Len(edges)
    OBVIOUS
  <1>2. n \in Nat /\ \A e : e \in EdgesOf(graph) <=> \E i \in 1..n : e = edges[i]
    BY <1>1, ListedEdges
  <1>3. s \in [graph.nodes -> Int]
    BY DEF Schedule
  <1>4. PICK g : PassRun(Partial(graph), graph, x, g)
    BY PartialClosed, PassRuns
  <1>5. /\ g[0] = [x EXCEPT !.updated = Missing]
        /\ \A i \in 1..n : g[i] = Relax(g[i - 1], edges[i])
        /\ \A i \in 0..n : g[i] \in Partial(graph)
        /\ Pass(graph.edges, x) = g[n]
    BY <1>1, <1>4 DEF PassRun
  <1>6. PICK T : T = {i \in 0..n : \E m \in Int : \A b \in Int : b >= m =>
                          \A h : PassRun(Labels(graph), graph, Raised(x, s, b, graph), h) =>
                                     h[i] = Raised(g[i], s, b, graph)}
    OBVIOUS
  <1>7. 0 \in T
    <2>1. ASSUME NEW b \in Int, NEW h,
                 PassRun(Labels(graph), graph, Raised(x, s, b, graph), h)
          PROVE  h[0] = Raised(g[0], s, b, graph)
      <3>1. PICK y : y = Raised(x, s, b, graph)
        OBVIOUS
      <3>2. h[0] = [y EXCEPT !.updated = Missing]
        BY <2>1, <3>1 DEF PassRun
      <3>3. g[0].distance = x.distance /\ g[0].predecessor = x.predecessor /\ g[0].updated = Missing
        BY <1>5 DEF Partial
      <3>. QED
        BY <3>1, <3>2, <3>3 DEF Raised
    <2>2. 0 \in 0..n /\ 0 \in Int
      BY <1>2
    <2>. QED
      BY <1>6, <2>1, <2>2
  <1>8. ASSUME NEW i \in 1..n, i - 1 \in T
        PROVE  i \in T
    <2>1. i \in 0..n /\ i - 1 \in 0..n
      BY <1>2
    <2>2. PICK m1 \in Int : \A b \in Int : b >= m1 =>
                   \A h : PassRun(Labels(graph), graph, Raised(x, s, b, graph), h) =>
                              h[i - 1] = Raised(g[i - 1], s, b, graph)
      BY <1>6, <1>8
    <2>3. PICK y, z, e : y = g[i - 1] /\ z = g[i] /\ e = edges[i]
      OBVIOUS
    <2>4. y \in Partial(graph) /\ z \in Partial(graph) /\ z = Relax(y, e) /\ e \in EdgesOf(graph)
      BY <1>2, <1>5, <2>1, <2>3
    <2>5. PICK m2 \in Int : \A b \in Int : b >= m2 => Fits(y, s, b, graph)
      BY <1>3, <2>4, RaisedFits
    <2>6. PICK m3 \in Int : \A b \in Int : b >= m3 => Fits(z, s, b, graph)
      BY <1>3, <2>4, RaisedFits
    <2>7. PICK m \in Int : m >= m1 /\ m >= m2 /\ m >= m3
      <3>1. \E k \in {m1, m2, m3} : k >= m1 /\ k >= m2 /\ k >= m3
        OBVIOUS
      <3>. QED
        BY <3>1
    <2>8. ASSUME NEW b \in Int, b >= m, NEW h,
                 PassRun(Labels(graph), graph, Raised(x, s, b, graph), h)
          PROVE  h[i] = Raised(g[i], s, b, graph)
      <3>1. b >= m1 /\ b >= m2 /\ b >= m3
        BY <2>7, <2>8
      <3>2. h[i] = Relax(h[i - 1], e)
        BY <1>1, <2>3, <2>8 DEF PassRun
      <3>3. h[i - 1] = Raised(y, s, b, graph)
        BY <2>2, <2>3, <2>8, <3>1
      <3>4. Fits(y, s, b, graph) /\ Fits(Relax(y, e), s, b, graph)
        BY <2>4, <2>5, <2>6, <3>1
      <3>5. Relax(Raised(y, s, b, graph), e) = Raised(Relax(y, e), s, b, graph)
        BY <2>4, <3>4, RelaxRaises
      <3>. QED
        BY <2>3, <2>4, <3>2, <3>3, <3>5
    <2>. QED
      BY <1>6, <2>1, <2>8
  <1>9. n \in T
    <2>1. 0..n \subseteq T
      BY <1>2, <1>7, <1>8, UpTo
    <2>. QED
      BY <1>2, <2>1
  <1>10. PICK m \in Int : \A b \in Int : b >= m =>
                 \A h : PassRun(Labels(graph), graph, Raised(x, s, b, graph), h) =>
                            h[n] = Raised(g[n], s, b, graph)
    BY <1>6, <1>9
  <1>11. ASSUME NEW b \in Int, b >= m
         PROVE  Pass(graph.edges, Raised(x, s, b, graph)) = Raised(Pass(graph.edges, x), s, b, graph)
    <2>1. Raised(x, s, b, graph) \in Labels(graph)
      BY <1>3, RaisedSays
    <2>2. PICK h : PassRun(Labels(graph), graph, Raised(x, s, b, graph), h)
      BY <2>1, LabelsClosed, PassRuns
    <2>3. Pass(graph.edges, Raised(x, s, b, graph)) = h[n]
      BY <1>1, <2>2 DEF PassRun
    <2>. QED
      BY <1>5, <1>10, <1>11, <2>2, <2>3
  <1>. QED
    BY <1>10, <1>11

\* So do the passes.
LEMMA PassesRaise ==
    ASSUME NEW graph, IsNetwork(graph), NEW s, Schedule(s, graph), NEW x \in Partial(graph),
           NEW n \in Nat
    PROVE  /\ Passes(graph, x, n) \in Partial(graph)
           /\ \E m \in Int : \A b \in Int : b >= m =>
                  Passes(graph, Raised(x, s, b, graph), n) = Raised(Passes(graph, x, n), s, b, graph)
  <1>3. s \in [graph.nodes -> Int]
    BY DEF Schedule
  <1>4. PICK g : PassesRun(Partial(graph), graph, x, n, g)
    BY PartialClosed, PassesRuns
  <1>5. /\ g[0] = x
        /\ \A i \in 1..n : g[i] = IF i > 1 /\ g[i - 1].updated = Missing THEN g[i - 1]
                                  ELSE Pass(graph.edges, g[i - 1])
        /\ \A i \in 0..n : g[i] \in Partial(graph)
        /\ Passes(graph, x, n) = g[n]
    BY <1>4 DEF PassesRun
  <1>6. PICK T : T = {i \in 0..n : \E m \in Int : \A b \in Int : b >= m =>
                          \A h : PassesRun(Labels(graph), graph, Raised(x, s, b, graph), n, h) =>
                                     h[i] = Raised(g[i], s, b, graph)}
    OBVIOUS
  <1>7. 0 \in T
    <2>1. \A b \in Int : \A h : PassesRun(Labels(graph), graph, Raised(x, s, b, graph), n, h) =>
                                    h[0] = Raised(g[0], s, b, graph)
      BY <1>5 DEF PassesRun
    <2>2. 0 \in 0..n /\ 0 \in Int
      OBVIOUS
    <2>. QED
      BY <1>6, <2>1, <2>2
  <1>8. ASSUME NEW i \in 1..n, i - 1 \in T
        PROVE  i \in T
    <2>1. i \in 0..n /\ i - 1 \in 0..n
      OBVIOUS
    <2>2. PICK m1 \in Int : \A b \in Int : b >= m1 =>
                   \A h : PassesRun(Labels(graph), graph, Raised(x, s, b, graph), n, h) =>
                              h[i - 1] = Raised(g[i - 1], s, b, graph)
      BY <1>6, <1>8
    <2>3. PICK y : y = g[i - 1]
      OBVIOUS
    <2>4. y \in Partial(graph)
      BY <1>5, <2>1, <2>3
    <2>5. PICK m2 \in Int : \A b \in Int : b >= m2 =>
                   Pass(graph.edges, Raised(y, s, b, graph)) = Raised(Pass(graph.edges, y), s, b, graph)
      BY <2>4, PassRaises
    <2>7. PICK m \in Int : m >= m1 /\ m >= m2
      <3>1. \E k \in {m1, m2} : k >= m1 /\ k >= m2
        OBVIOUS
      <3>. QED
        BY <3>1
    <2>8. ASSUME NEW b \in Int, b >= m, NEW h,
                 PassesRun(Labels(graph), graph, Raised(x, s, b, graph), n, h)
          PROVE  h[i] = Raised(g[i], s, b, graph)
      <3>1. b >= m1 /\ b >= m2
        BY <2>7, <2>8
      <3>2. h[i] = IF i > 1 /\ h[i - 1].updated = Missing THEN h[i - 1]
                   ELSE Pass(graph.edges, h[i - 1])
        BY <2>8 DEF PassesRun
      <3>3. h[i - 1] = Raised(y, s, b, graph)
        BY <2>2, <2>3, <2>8, <3>1
      <3>4. h[i - 1].updated = y.updated
        BY <1>3, <2>4, <3>3, RaisedSays
      <3>5. Pass(graph.edges, h[i - 1]) = Raised(Pass(graph.edges, y), s, b, graph)
        BY <2>5, <3>1, <3>3
      <3>6. g[i] = IF i > 1 /\ y.updated = Missing THEN y ELSE Pass(graph.edges, y)
        BY <1>5, <2>3
      <3>. QED
        BY <3>2, <3>3, <3>4, <3>5, <3>6
    <2>. QED
      BY <1>6, <2>1, <2>8
  <1>9. n \in T /\ n \in 0..n
    <2>1. 0..n \subseteq T
      BY <1>7, <1>8, UpTo
    <2>. QED
      BY <2>1
  <1>10. PICK m \in Int : \A b \in Int : b >= m =>
                 \A h : PassesRun(Labels(graph), graph, Raised(x, s, b, graph), n, h) =>
                            h[n] = Raised(g[n], s, b, graph)
    BY <1>6, <1>9
  <1>11. ASSUME NEW b \in Int, b >= m
         PROVE  Passes(graph, Raised(x, s, b, graph), n) = Raised(Passes(graph, x, n), s, b, graph)
    <2>1. Raised(x, s, b, graph) \in Labels(graph)
      BY <1>3, RaisedSays
    <2>2. PICK h : PassesRun(Labels(graph), graph, Raised(x, s, b, graph), n, h)
      BY <2>1, LabelsClosed, PassesRuns
    <2>3. Passes(graph, Raised(x, s, b, graph), n) = h[n]
      BY <2>2 DEF PassesRun
    <2>. QED
      BY <1>5, <1>10, <1>11, <2>2, <2>3
  <1>. QED
    BY <1>5, <1>9, <1>10, <1>11

\* The walk back from a node along tight edges weighs the difference of its ends, and so no
\* less than any schedule puts between them.
LEMMA WalkWeighs ==
    ASSUME NEW graph, IsNetwork(graph), Missing \notin EdgesOf(graph),
           NEW D \in [graph.nodes -> Int], NEW s, Schedule(s, graph),
           NEW p \in [graph.nodes -> EdgesOf(graph) \cup {Missing}],
           \A x \in graph.nodes : p[x] # Missing => p[x].to = x /\ IsTight(D, p[x]),
           NEW v \in graph.nodes, NEW k \in Nat, NEW r \in graph.nodes, Ancestor(p, v, k) = r
    PROVE  /\ k # 0 => /\ Walk(WalkTo(p, v, k), p, r, v, graph)
                       /\ Weight(WalkTo(p, v, k)) = D[v] - D[r]
           /\ D[r] + (s[v] - s[r]) =< D[v]
  <1>1. s \in [graph.nodes -> Int] /\ Satisfies(s, graph)
    BY DEF Schedule
  <1>2. PICK a, c, x, y : a = D[r] /\ c = D[v] /\ x = s[r] /\ y = s[v]
    OBVIOUS
  <1>3. a \in Int /\ c \in Int /\ x \in Int /\ y \in Int
    BY <1>1, <1>2
  <1>4. CASE k = 0
    <2>1. r = v
      BY <1>4, AncestorSays
    <2>2. a = c /\ x = y
      BY <1>2, <2>1
    <2>3. a + (y - x) =< c
      BY <1>3, <2>2
    <2>. QED
      BY <1>2, <1>4, <2>3
  <1>5. CASE k # 0
    <2>1. PICK walk : walk = WalkTo(p, v, k)
      OBVIOUS
    <2>2. Walk(walk, p, r, v, graph)
      <3>1. r # Missing
        BY MissingIsNone DEF IsNetwork
      <3>2. k \in Nat \ {0} /\ Ancestor(p, v, k) # Missing
        BY <1>5, <3>1
      <3>3. \A u \in graph.nodes : p[u] # Missing => p[u].to = u
        OBVIOUS
      <3>4. Walk(WalkTo(p, v, k), p, Ancestor(p, v, k), v, graph)
        BY <3>2, <3>3, WalkLeads
      <3>. QED
        BY <2>1, <3>4
    <2>3. PICK n : n = Len(walk)
      OBVIOUS
    <2>4. /\ walk \in Seq(EdgesOf(graph)) /\ walk # <<>>
          /\ \A i \in 1..n : p[walk[i].to] = walk[i]
          /\ \A i \in 1..n : i > 1 => walk[i - 1].to = walk[i].from
          /\ walk[1].from = r /\ walk[n].to = v
      BY <2>2, <2>3 DEF Walk
    <2>5. \A i \in 1..n : walk[i] \in EdgesOf(graph)
      BY <2>3, <2>4, ElementOfSeq
    <2>6. \A i \in 1..n : walk[i].to \in graph.nodes /\ walk[i].weight \in Int
      BY <2>5 DEF IsNetwork, IsGraph
    <2>7. \A i \in 1..n : IsTight(D, walk[i])
      <3>. TAKE i \in 1..n
      <3>1. PICK u : u = walk[i].to
        OBVIOUS
      <3>2. u \in graph.nodes /\ p[u] = walk[i] /\ p[u] # Missing
        BY <2>4, <2>5, <2>6, <3>1
      <3>. QED
        BY <3>2
    <2>8. Weight(walk) = D[v] - D[r]
      <3>1. IsGraph(graph) /\ \A i \in 1..Len(walk) : IsTight(D, walk[i])
        BY <2>3, <2>7 DEF IsNetwork
      <3>. QED
        BY <2>2, <3>1, WalkTelescopes
    <2>9. s[walk[n].to] - s[walk[1].from] =< Weight(walk)
      BY <1>1, <2>3, <2>4, <2>5, PathGains DEF IsNetwork
    <2>10. PICK w : w = Weight(walk)
      OBVIOUS
    <2>11. w = c - a /\ y - x =< w
      BY <1>2, <2>4, <2>8, <2>9, <2>10
    <2>12. a + (y - x) =< c
      BY <1>3, <2>11
    <2>. QED
      BY <1>2, <2>1, <2>2, <2>8, <2>12
  <1>. QED
    BY <1>4, <1>5

\* The state shortestPath starts from.
AtSource(graph, source) == [distance |-> [Unvisited(graph) EXCEPT ![source] = 0],
                            predecessor |-> Unvisited(graph), updated |-> Missing]

\* A schedule puts each node that has a distance there, and the way back from such a node
\* leads to the source along edges that the schedule meets exactly.
PathsEnd(D, end, source, graph) ==
    /\ Schedule(D, graph) /\ D[source] = 0
    /\ end.predecessor \in [graph.nodes -> EdgesOf(graph) \cup {Missing}]
    /\ \A v \in graph.nodes : end.predecessor[v] # Missing =>
           end.predecessor[v].to = v /\ IsTight(D, end.predecessor[v])
    /\ \A v \in graph.nodes : end.distance[v] # Missing =>
           /\ D[v] = end.distance[v]
           /\ \E k \in 0..Cardinality(graph.nodes) : Ancestor(end.predecessor, v, k) = source

\* There are such schedules, and they put the nodes without a distance as far as one likes.
PathsSettled(end, s, source, graph) ==
    \E m \in Int : \A b \in Int : b >= m =>
        \E D : /\ PathsEnd(D, end, source, graph)
               /\ \A v \in graph.nodes : end.distance[v] = Missing => D[v] = s[v] + b

\* That is how the passes of shortestPath end, one fewer than there are nodes.
LEMMA PathsSettle ==
    ASSUME NEW graph, IsNetwork(graph), Missing \notin EdgesOf(graph),
           NEW s, Schedule(s, graph), NEW source \in graph.nodes,
           NEW end, end = Passes(graph, AtSource(graph, source), Cardinality(graph.nodes) - 1)
    PROVE  PathsSettled(end, s, source, graph)
  <1>. SUFFICES ASSUME NEW n, n = Cardinality(graph.nodes),
                       end = Passes(graph, AtSource(graph, source), n - 1)
                PROVE  PathsSettled(end, s, source, graph)
    OBVIOUS
  <1>1. n \in Nat \ {0}
    BY FS_CardinalityType, FS_EmptySet DEF IsNetwork
  <1>2. s \in [graph.nodes -> Int] /\ Satisfies(s, graph) /\ Missing \notin Int
    BY MissingIsNone DEF Schedule
  <1>3. PICK x : x = AtSource(graph, source)
    OBVIOUS
  <1>4. /\ x \in Partial(graph) /\ x.predecessor = Unvisited(graph) /\ x.updated = Missing
        /\ \A v \in graph.nodes : x.distance[v] = IF v = source THEN 0 ELSE Missing
    BY <1>3 DEF AtSource, Unvisited, Partial
  <1>5. n - 1 \in Nat
    BY <1>1
  <1>6. /\ end \in Partial(graph)
        /\ \E m \in Int : \A b \in Int : b >= m =>
               Passes(graph, Raised(x, s, b, graph), n - 1) = Raised(end, s, b, graph)
    <2>1. PICK j : j = n - 1
      OBVIOUS
    <2>2. j \in Nat /\ end = Passes(graph, x, j)
      BY <1>3, <1>5, <2>1
    <2>3. /\ Passes(graph, x, j) \in Partial(graph)
          /\ \E m \in Int : \A b \in Int : b >= m =>
                 Passes(graph, Raised(x, s, b, graph), j) = Raised(Passes(graph, x, j), s, b, graph)
      BY <1>4, <2>2, PassesRaise
    <2>. QED
      BY <2>1, <2>2, <2>3
  <1>7. PICK m1 \in Int : \A b \in Int : b >= m1 =>
                 Passes(graph, Raised(x, s, b, graph), n - 1) = Raised(end, s, b, graph)
    BY <1>6
  <1>8. PICK m2 \in Int : \A b \in Int : b >= m2 => Fits(x, s, b, graph)
    BY <1>2, <1>4, RaisedFits
  <1>9. PICK m3 \in Int : \A b \in Int : b >= m3 => Fits(end, s, b, graph)
    BY <1>2, <1>6, RaisedFits
  <1>10. PICK m \in Int : m >= m1 /\ m >= m2 /\ m >= m3
    <2>1. \E k \in {m1, m2, m3} : k >= m1 /\ k >= m2 /\ k >= m3
      OBVIOUS
    <2>. QED
      BY <2>1
  <1>11. ASSUME NEW b \in Int, b >= m
         PROVE  \E D : /\ PathsEnd(D, end, source, graph)
                       /\ \A v \in graph.nodes : end.distance[v] = Missing => D[v] = s[v] + b
    <2>1. b >= m1 /\ b >= m2 /\ b >= m3
      BY <1>10, <1>11
    <2>2. Fits(x, s, b, graph) /\ Fits(end, s, b, graph)
      BY <1>8, <1>9, <2>1
    <2>3. PICK y, z : y = Raised(x, s, b, graph) /\ z = Raised(end, s, b, graph)
      OBVIOUS
    <2>4. /\ y \in Labels(graph) /\ y.predecessor = Unvisited(graph) /\ y.updated = Missing
          /\ \A v \in graph.nodes : y.distance[v] = IF v = source THEN 0 ELSE s[v] + b
      BY <1>2, <1>4, <2>3, RaisedSays
    <2>5. /\ z \in Labels(graph) /\ z.predecessor = end.predecessor
          /\ \A v \in graph.nodes : z.distance[v] =
                 IF end.distance[v] = Missing THEN s[v] + b ELSE end.distance[v]
      BY <1>2, <1>6, <2>3, RaisedSays
    <2>6. z = Passes(graph, y, n - 1)
      BY <1>7, <2>1, <2>3
    <2>7. PICK U, p : U = y.distance /\ p = end.predecessor
      OBVIOUS
    <2>8. U \in [graph.nodes -> Int] /\ p \in [graph.nodes -> EdgesOf(graph) \cup {Missing}]
      BY <2>4, <2>5, <2>7 DEF Labels
    <2>9. PICK D : Greatest(D, U, graph)
      BY <2>8, GreatestExists
    <2>10. /\ Schedule(D, graph) /\ D \in [graph.nodes -> Int] /\ Satisfies(D, graph)
           /\ \A v \in graph.nodes : D[v] =< U[v]
      BY <2>9 DEF Greatest, Schedule
    <2>11. \A v \in graph.nodes : z.distance[v] = D[v]
      <3>1. PICK j : j = n - 1
        OBVIOUS
      <3>2. PICK g : PassesRun(Labels(graph), graph, y, j, g)
        BY <1>5, <2>4, <3>1, LabelsClosed, PassesRuns
      <3>3. \A i \in 0..j : i + 1 >= n => Settled(D, graph, g[i]) = graph.nodes
        BY <1>5, <2>4, <2>7, <2>8, <2>9, <3>1, <3>2, PassesSettle
      <3>4. j \in 0..j /\ j + 1 >= n
        BY <1>1, <3>1
      <3>5. z = g[j]
        BY <2>6, <3>1, <3>2 DEF PassesRun
      <3>. QED
        BY <3>3, <3>4, <3>5 DEF Settled
    <2>12. \A v \in graph.nodes : p[v] = Missing => D[v] = U[v]
      <3>1. y \in Capped(U, graph)
        BY <2>4, <2>7 DEF Capped
      <3>2. PICK S : S = Capped(U, graph)
        OBVIOUS
      <3>3. Closed(S, graph) /\ y \in S
        BY <3>1, <3>2, CappedClosed
      <3>4. PICK j : j = n - 1
        OBVIOUS
      <3>5. PICK g : PassesRun(S, graph, y, j, g)
        BY <1>5, <3>3, <3>4, PassesRuns
      <3>6. j \in 0..j
        BY <1>5, <3>4
      <3>7. z \in S
        BY <2>6, <3>4, <3>5, <3>6 DEF PassesRun
      <3>. QED
        BY <2>5, <2>7, <2>11, <3>2, <3>7 DEF Capped
    <2>13. PICK k, L : k \in Nat /\ Aged(z, L, k, graph)
      <3>1. \E k \in Nat : Ages(z, k, graph)
        BY <1>5, <2>4, <2>6, PassesAge
      <3>. QED
        BY <3>1 DEF Ages
    <2>14. \A v \in graph.nodes : p[v] # Missing => p[v].to = v /\ IsTight(D, p[v])
      <3>1. ASSUME NEW v \in graph.nodes, p[v] # Missing
            PROVE  p[v].to = v /\ IsTight(D, p[v])
        <4>1. PICK e : e = p[v]
          OBVIOUS
        <4>2. e \in EdgesOf(graph) /\ e.to = v /\ z.distance[v] >= z.distance[e.from] + e.weight
          BY <2>5, <2>7, <2>8, <2>13, <3>1, <4>1 DEF Aged
        <4>3. e.from \in graph.nodes /\ e.weight \in Int
          BY <4>2 DEF IsNetwork, IsGraph
        <4>4. PICK f, t, w : f = D[e.from] /\ t = D[v] /\ w = e.weight
          OBVIOUS
        <4>5. f \in Int /\ t \in Int /\ w \in Int /\ t >= f + w /\ t - f =< w
          BY <2>10, <2>11, <4>2, <4>3, <4>4 DEF Satisfies
        <4>6. t = f + w
          BY <4>5
        <4>. QED
          BY <4>1, <4>2, <4>4, <4>6 DEF IsTight
      <3>. QED
        BY <3>1
    <2>15. \A c : ~ClosedWalk(c, p, graph)
      BY <2>5, <2>7, <2>13, ClosedWalkWeighs DEF Aged, IsNetwork
    <2>16. ASSUME NEW v \in graph.nodes, D[v] < s[v] + b
           PROVE  \E i \in 0..n : Ancestor(p, v, i) = source /\ p[source] = Missing
      <3>1. \A u \in graph.nodes : p[u] # Missing => p[u].to = u
        BY <2>14
      <3>2. PICK i \in 0..n : Ancestor(p, v, i) \in graph.nodes /\ p[Ancestor(p, v, i)] = Missing
        BY <2>8, <2>15, <3>1, RootFound
      <3>3. PICK r : r = Ancestor(p, v, i)
        OBVIOUS
      <3>4. r \in graph.nodes /\ p[r] = Missing /\ D[r] = U[r] /\ i \in Nat
        BY <1>1, <2>12, <3>2, <3>3
      <3>5. D[r] + (s[v] - s[r]) =< D[v]
        BY <2>8, <2>10, <2>14, <3>3, <3>4, WalkWeighs
      <3>6. CASE r # source
        <4>1. U[r] = s[r] + b
          BY <2>4, <2>7, <3>4, <3>6
        <4>2. PICK f, t, d : f = s[r] /\ t = s[v] /\ d = D[v]
          OBVIOUS
        <4>3. f \in Int /\ t \in Int /\ d \in Int
          BY <1>2, <2>10, <3>4, <4>2
        <4>4. (f + b) + (t - f) =< d /\ d < t + b
          BY <2>16, <3>4, <3>5, <4>1, <4>2
        <4>. QED
          BY <4>3, <4>4
      <3>. QED
        BY <3>3, <3>4, <3>6
    <2>17. D[source] = 0
      <3>1. U[source] = 0 /\ x.distance[source] # Missing
        BY <1>2, <1>4, <2>4, <2>7
      <3>2. 0 < s[source] + b
        BY <1>4, <2>2, <3>1 DEF Fits
      <3>3. D[source] < s[source] + b
        <4>1. PICK d, t : d = D[source] /\ t = s[source]
          OBVIOUS
        <4>2. d \in Int /\ t \in Int /\ d =< 0 /\ 0 < t + b
          BY <1>2, <2>10, <3>1, <3>2, <4>1
        <4>3. d < t + b
          BY <4>2
        <4>. QED
          BY <4>1, <4>3
      <3>. QED
        BY <2>12, <2>16, <3>1, <3>3
    <2>18. ASSUME NEW v \in graph.nodes, end.distance[v] # Missing
           PROVE  /\ D[v] = end.distance[v]
                  /\ \E i \in 0..n : Ancestor(p, v, i) = source
      <3>1. D[v] = end.distance[v]
        BY <2>5, <2>11, <2>18
      <3>2. D[v] < s[v] + b
        BY <2>2, <2>18, <3>1 DEF Fits
      <3>. QED
        BY <2>16, <3>1, <3>2
    <2>19. \A v \in graph.nodes : end.distance[v] = Missing => D[v] = s[v] + b
      BY <2>5, <2>11
    <2>20. PathsEnd(D, end, source, graph)
      BY <2>7, <2>8, <2>10, <2>14, <2>17, <2>18 DEF PathsEnd
    <2>. QED
      BY <2>19, <2>20
  <1>. QED
    BY <1>11 DEF PathsSettled

\* The greatest difference that a schedule puts between two nodes, Missing if there is none.
GreatestGap(d, graph, source, target) ==
    IF d = Missing THEN \A m \in Int : \E s : Schedule(s, graph) /\ s[target] - s[source] >= m
    ELSE /\ d \in Int
         /\ \A s : Schedule(s, graph) => s[target] - s[source] =< d
         /\ \E s : Schedule(s, graph) /\ s[target] - s[source] = d

\* In a graph with a schedule shortestPath returns the greatest difference between two
\* nodes, with a path that the verifier accepts.
THEOREM PathsFound ==
    ASSUME NEW graph, IsNetwork(graph), Missing \notin EdgesOf(graph),
           Missing \notin Seq(EdgesOf(graph)), \E s : Schedule(s, graph),
           NEW source \in graph.nodes, NEW target \in graph.nodes,
           NEW path, path = ShortestPath(graph, source, target)
    PROVE  /\ path.edges # Missing
           /\ VerifyPath(path.edges, graph, source, target, path.distance)
           /\ GreatestGap(path.distance, graph, source, target)
  <1>1. PICK n : n = Cardinality(graph.nodes)
    OBVIOUS
  <1>2. PICK end : end = Passes(graph, AtSource(graph, source), n - 1)
    OBVIOUS
  <1>3. PICK steps : steps = {k \in 0..n : Ancestor(end.predecessor, target, k) = source}
    OBVIOUS
  <1>4. path = IF source = target THEN [distance |-> 0, edges |-> <<>>]
               ELSE IF end.distance[target] = Missing THEN [distance |-> Missing, edges |-> <<>>]
               ELSE [distance |-> end.distance[target],
                     edges |-> IF steps = {} THEN Missing
                               ELSE WalkTo(end.predecessor, target, Min(steps))]
    BY <1>1, <1>2, <1>3 DEF ShortestPath, AtSource
  <1>5. PICK s : Schedule(s, graph)
    OBVIOUS
  <1>6. PICK m \in Int : \A b \in Int : b >= m =>
               \E D : /\ PathsEnd(D, end, source, graph)
                      /\ \A v \in graph.nodes : end.distance[v] = Missing => D[v] = s[v] + b
    <2>1. end = Passes(graph, AtSource(graph, source), Cardinality(graph.nodes) - 1)
      BY <1>1, <1>2
    <2>2. PathsSettled(end, s, source, graph)
      BY <1>5, <2>1, PathsSettle
    <2>. QED
      BY <2>2 DEF PathsSettled
  <1>7. Missing \notin Int /\ <<>> # Missing /\ n \in Nat
    <2>1. <<>> \in Seq(EdgesOf(graph))
      OBVIOUS
    <2>. QED
      BY <1>1, <2>1, MissingIsNone, FS_CardinalityType DEF IsNetwork
  <1>8. s \in [graph.nodes -> Int]
    BY <1>5 DEF Schedule
  <1>9. CASE source = target
    <2>1. path.distance = 0 /\ path.edges = <<>>
      BY <1>4, <1>9
    <2>2. \A t : Schedule(t, graph) => t[target] - t[source] = 0
      <3>1. \A i \in Int : i - i = 0
        OBVIOUS
      <3>. QED
        BY <1>9, <3>1 DEF Schedule
    <2>3. VerifyPath(path.edges, graph, source, target, path.distance)
      BY <1>7, <1>9, <2>1 DEF VerifyPath
    <2>4. 0 \in Int /\ 0 =< 0 /\ 0 # Missing
      BY <1>7
    <2>5. \A t : Schedule(t, graph) => t[target] - t[source] =< path.distance
      BY <2>1, <2>2, <2>4
    <2>. QED
      BY <1>5, <1>7, <2>1, <2>2, <2>3, <2>4, <2>5 DEF GreatestGap
  <1>10. CASE source # target /\ end.distance[target] = Missing
    <2>1. path.distance = Missing /\ path.edges = <<>>
      BY <1>4, <1>10
    <2>2. VerifyPath(path.edges, graph, source, target, path.distance)
      BY <2>1 DEF VerifyPath
    <2>3. ASSUME NEW l \in Int
          PROVE  \E t : Schedule(t, graph) /\ t[target] - t[source] >= l
      <3>1. PICK x : x = s[target]
        OBVIOUS
      <3>2. x \in Int /\ l - x \in Int
        BY <1>8, <3>1
      <3>3. PICK b \in Int : b >= m /\ b >= l - x
        <4>1. \E k \in {m, l - x} : k >= m /\ k >= l - x
          BY <3>2
        <4>. QED
          BY <3>2, <4>1
      <3>4. PICK D : /\ PathsEnd(D, end, source, graph)
                     /\ \A v \in graph.nodes : end.distance[v] = Missing => D[v] = s[v] + b
        BY <1>6, <3>3
      <3>5. Schedule(D, graph) /\ D[source] = 0 /\ D[target] = x + b
        BY <1>10, <3>1, <3>4 DEF PathsEnd
      <3>6. (x + b) - 0 >= l
        BY <3>2, <3>3
      <3>. QED
        BY <3>5, <3>6
    <2>. QED
      BY <1>7, <2>1, <2>2, <2>3 DEF GreatestGap
  <1>11. CASE source # target /\ end.distance[target] # Missing
    <2>1. PICK D : PathsEnd(D, end, source, graph)
      <3>1. m >= m
        OBVIOUS
      <3>. QED
        BY <1>6, <3>1
    <2>2. PICK p : p = end.predecessor
      OBVIOUS
    <2>3. /\ Schedule(D, graph) /\ D[source] = 0
          /\ p \in [graph.nodes -> EdgesOf(graph) \cup {Missing}]
          /\ \A v \in graph.nodes : p[v] # Missing => p[v].to = v /\ IsTight(D, p[v])
          /\ D[target] = end.distance[target]
          /\ \E k \in 0..n : Ancestor(p, target, k) = source
      BY <1>1, <1>11, <2>1, <2>2 DEF PathsEnd
    <2>4. D \in [graph.nodes -> Int]
      BY <2>3 DEF Schedule
    <2>5. PICK k : k = Min(steps)
      OBVIOUS
    <2>6. steps # {} /\ k \in Nat /\ Ancestor(p, target, k) = source
      <3>1. steps # {} /\ steps \subseteq Nat
        BY <1>3, <1>7, <2>2, <2>3
      <3>2. k \in steps
        BY <2>5, <3>1, LeastOf
      <3>. QED
        BY <1>3, <2>2, <3>1, <3>2
    <2>7. k # 0
      BY <1>11, <2>3, <2>6, AncestorSays
    <2>8. PICK walk : walk = WalkTo(p, target, k)
      OBVIOUS
    <2>9. Walk(walk, p, source, target, graph) /\ Weight(walk) = D[target] - D[source]
      BY <2>3, <2>4, <2>6, <2>7, <2>8, WalkWeighs
    <2>10. path.distance = D[target] /\ path.edges = walk
      BY <1>4, <1>11, <2>2, <2>3, <2>5, <2>6, <2>8
    <2>11. D[target] \in Int /\ D[target] - D[source] = D[target] /\ D[target] # Missing
      <3>1. PICK d : d = D[target]
        OBVIOUS
      <3>2. d \in Int /\ d - 0 = d
        BY <2>4, <3>1
      <3>. QED
        BY <1>7, <2>3, <3>1, <3>2
    <2>12. PICK l : l = Len(walk)
      OBVIOUS
    <2>13. /\ walk \in Seq(EdgesOf(graph)) /\ walk # <<>>
           /\ \A i \in 1..l : i > 1 => walk[i - 1].to = walk[i].from
           /\ walk[1].from = source /\ walk[l].to = target
      BY <2>9, <2>12 DEF Walk
    <2>14. DOMAIN walk = 1..l /\ \A i \in 1..l : walk[i] \in EdgesOf(graph)
      BY <2>12, <2>13, LenProperties, ElementOfSeq
    <2>15. VerifyPath(walk, graph, source, target, D[target])
      BY <2>9, <2>11, <2>12, <2>13, <2>14 DEF VerifyPath
    <2>16. \A t \in [graph.nodes -> Int] : Satisfies(t, graph) => t[target] - t[source] =< D[target]
      BY <2>11, <2>13, <2>15, PathsBound DEF IsNetwork
    <2>17. walk # Missing
      BY <2>13
    <2>. QED
      BY <2>3, <2>10, <2>11, <2>15, <2>16, <2>17 DEF Schedule, GreatestGap
  <1>. QED
    BY <1>9, <1>10, <1>11

----------------------------------------------------------------------------
(* Schedules that fit                                                      *)

\* The nodes of a query's graph are origins and points.
IsQueryGraph(graph) ==
    /\ IsNetwork(graph)
    /\ \A n \in graph.nodes : IsOrigin(n) \/ n \in Nat \ {0}

\* A schedule a receipt can hold, with each origin at zero.
SafeSchedule(s, graph) ==
    /\ Schedule(s, graph)
    /\ \A n \in graph.nodes : IF IsOrigin(n) THEN s[n] = 0 ELSE Safe(s[n])

\* The image of a finite set under a function.
LEMMA ImageFinite ==
    ASSUME NEW S, IsFiniteSet(S), NEW f, DOMAIN f = S, NEW T, \A y : y \in T <=> \E x \in S : y = f[x],
           f = [x \in S |-> f[x]]
    PROVE  IsFiniteSet(T)
  <1>1. f \in Surjection(S, T)
    BY DEF Surjection
  <1>. QED
    BY <1>1, FS_Surjection

\* A network has finitely many edges.
LEMMA EdgesFinite ==
    ASSUME NEW graph, IsNetwork(graph)
    PROVE  IsFiniteSet(EdgesOf(graph))
  <1>1. PICK X : graph.edges \in Seq(X)
    BY DEF IsNetwork
  <1>2. PICK f, n : f = graph.edges /\ n = Len(graph.edges)
    OBVIOUS
  <1>3. n \in Nat /\ f \in [1..n -> X] /\ DOMAIN f = 1..n
    BY <1>1, <1>2, LenProperties
  <1>4. IsFiniteSet(1..n)
    <2>1. \A a, b \in Int : IsFiniteSet(a..b)
      BY FS_Interval
    <2>. QED
      BY <1>3, <2>1
  <1>5. \A e : e \in EdgesOf(graph) <=> \E i \in 1..n : e = f[i]
    BY <1>2, <1>3 DEF EdgesOf
  <1>6. f = [i \in 1..n |-> f[i]]
    BY <1>3
  <1>. QED
    BY <1>3, <1>4, <1>5, <1>6, ImageFinite

\* The edges that hold a node within a distance of the schedule zero.
ToNode(n) == [from |-> ScheduleZero, to |-> n, weight |-> IF n > 0 THEN SafeMax ELSE 0,
              source |-> <<2, n>>]

\* The edge back.
FromNode(n) == [from |-> n, to |-> ScheduleZero, weight |-> IF n > 0 THEN SafeMax ELSE 0,
                source |-> <<2, n>>]

\* The graph that schedules are drawn from.
LEMMA BoundedGraph ==
    ASSUME NEW graph, IsQueryGraph(graph)
    PROVE  /\ IsNetwork(BoundedScheduleGraph(graph))
           /\ BoundedScheduleGraph(graph).nodes = graph.nodes \cup {ScheduleZero}
           /\ \A e : e \in EdgesOf(BoundedScheduleGraph(graph))
                     <=> \/ e \in EdgesOf(graph)
                         \/ \E n \in graph.nodes : e = ToNode(n) \/ e = FromNode(n)
  <1>1. PICK N : N = graph.nodes
    OBVIOUS
  <1>2. N \subseteq Int /\ IsFiniteSet(N) /\ IsNetwork(graph) /\ IsGraph(graph)
    BY <1>1 DEF IsQueryGraph, IsNetwork
  <1>3. PICK A, B, C : A = {ToNode(n) : n \in N} /\ B = {FromNode(n) : n \in N} /\ C = EdgesOf(graph)
    OBVIOUS
  <1>4. IsFiniteSet(A) /\ IsFiniteSet(B) /\ IsFiniteSet(C)
    <2>1. PICK f, h : f = [n \in N |-> ToNode(n)] /\ h = [n \in N |-> FromNode(n)]
      OBVIOUS
    <2>2. /\ DOMAIN f = N /\ f = [n \in N |-> f[n]] /\ \A y : y \in A <=> \E n \in N : y = f[n]
          /\ DOMAIN h = N /\ h = [n \in N |-> h[n]] /\ \A y : y \in B <=> \E n \in N : y = h[n]
      BY <1>3, <2>1
    <2>. QED
      BY <1>2, <1>3, <2>2, ImageFinite, EdgesFinite, SMTT(30)
  <1>5. PICK S : S = C \cup (A \cup B)
    OBVIOUS
  <1>6. IsFiniteSet(S)
    BY <1>4, <1>5, FS_Union
  <1>7. UNION {{[from |-> ScheduleZero, to |-> n, weight |-> IF n > 0 THEN SafeMax ELSE 0, source |-> <<2, n>>],
                [from |-> n, to |-> ScheduleZero, weight |-> IF n > 0 THEN SafeMax ELSE 0, source |-> <<2, n>>]}
               : n \in N} = A \cup B
    BY <1>3 DEF ToNode, FromNode
  <1>8. BoundedScheduleGraph(graph) = [nodes |-> N \cup {ScheduleZero}, edges |-> Sorted(S)]
    BY <1>1, <1>3, <1>5, <1>7 DEF BoundedScheduleGraph
  <1>9. Sorted(S) \in Seq(S) /\ Listed(Sorted(S)) = S
    BY <1>6, SortedSays
  <1>10. PICK G : G = BoundedScheduleGraph(graph)
    OBVIOUS
  <1>11. G.nodes = N \cup {ScheduleZero} /\ G.edges = Sorted(S)
    BY <1>8, <1>10
  <1>12. EdgesOf(G) = S
    BY <1>9, <1>11 DEF EdgesOf, Listed
  <1>13. \A e : e \in EdgesOf(G) <=> \/ e \in EdgesOf(graph)
                                     \/ \E n \in N : e = ToNode(n) \/ e = FromNode(n)
    BY <1>3, <1>5, <1>12
  <1>14. IsGraph(G)
    <2>. SUFFICES ASSUME NEW e \in EdgesOf(G)
                  PROVE  e.from \in G.nodes /\ e.to \in G.nodes /\ e.weight \in Int
      BY DEF IsGraph
    <2>1. CASE e \in EdgesOf(graph)
      BY <1>1, <1>2, <1>11, <2>1 DEF IsGraph
    <2>2. ASSUME NEW n \in N, e = ToNode(n) \/ e = FromNode(n)
          PROVE  e.from \in G.nodes /\ e.to \in G.nodes /\ e.weight \in Int
      <3>1. SafeMax \in Int
        BY ReasonerConstants
      <3>. QED
        BY <1>11, <2>2, <3>1 DEF ToNode, FromNode
    <2>. QED
      BY <1>13, <2>1, <2>2
  <1>15. IsNetwork(G)
    <2>1. G.nodes \subseteq Int
      BY <1>2, <1>11 DEF ScheduleZero
    <2>2. IsFiniteSet(G.nodes)
      BY <1>2, <1>11, FS_AddElement
    <2>. QED
      BY <1>9, <1>11, <1>14, <2>1, <2>2 DEF IsNetwork
  <1>. QED
    BY <1>1, <1>10, <1>11, <1>13, <1>15

\* Measured from the schedule zero, a schedule of the bounded graph is a safe one.
LEMMA BoundedIsSafe ==
    ASSUME NEW graph, IsQueryGraph(graph), NEW t, Schedule(t, BoundedScheduleGraph(graph))
    PROVE  /\ SafeSchedule([n \in graph.nodes |-> t[n] - t[ScheduleZero]], graph)
           /\ \A n \in graph.nodes : t[n] - t[ScheduleZero] \in Int
  <1>1. PICK N, G : N = graph.nodes /\ G = BoundedScheduleGraph(graph)
    OBVIOUS
  <1>2. PICK s : s = [n \in N |-> t[n] - t[ScheduleZero]]
    OBVIOUS
  <1>3. /\ G.nodes = N \cup {ScheduleZero}
        /\ \A e : e \in EdgesOf(G) <=> \/ e \in EdgesOf(graph)
                                       \/ \E n \in N : e = ToNode(n) \/ e = FromNode(n)
    BY <1>1, BoundedGraph
  <1>4. PICK z : z = t[ScheduleZero]
    OBVIOUS
  <1>5. /\ t \in [G.nodes -> Int] /\ z \in Int
        /\ \A n \in N : t[n] \in Int
        /\ \A e \in EdgesOf(G) : t[e.to] - t[e.from] =< e.weight
    BY <1>1, <1>3, <1>4 DEF Schedule, Satisfies
  <1>6. s \in [N -> Int] /\ \A n \in N : s[n] = t[n] - z /\ s[n] \in Int
    BY <1>2, <1>4, <1>5
  <1>7. Satisfies(s, graph)
    <2>. SUFFICES ASSUME NEW e \in EdgesOf(graph)
                  PROVE  s[e.to] - s[e.from] =< e.weight
      BY DEF Satisfies
    <2>1. e.from \in N /\ e.to \in N /\ e.weight \in Int /\ t[e.to] - t[e.from] =< e.weight
      BY <1>1, <1>3, <1>5 DEF IsQueryGraph, IsNetwork, IsGraph
    <2>2. PICK x, y, w : x = t[e.from] /\ y = t[e.to] /\ w = e.weight
      OBVIOUS
    <2>3. x \in Int /\ y \in Int /\ w \in Int /\ y - x =< w
      BY <1>5, <2>1, <2>2
    <2>4. s[e.to] = y - z /\ s[e.from] = x - z
      BY <1>6, <2>1, <2>2
    <2>. QED
      BY <1>5, <2>2, <2>3, <2>4
  <1>8. ASSUME NEW n \in N
        PROVE  IF IsOrigin(n) THEN s[n] = 0 ELSE Safe(s[n])
    <2>1. IsOrigin(n) \/ n \in Nat \ {0}
      BY <1>1 DEF IsQueryGraph
    <2>2. PICK w : w = IF n > 0 THEN SafeMax ELSE 0
      OBVIOUS
    <2>3. ToNode(n) \in EdgesOf(G) /\ FromNode(n) \in EdgesOf(G)
      BY <1>3
    <2>4. /\ ToNode(n).to = n /\ ToNode(n).from = ScheduleZero /\ ToNode(n).weight = w
          /\ FromNode(n).to = ScheduleZero /\ FromNode(n).from = n /\ FromNode(n).weight = w
      BY <2>2 DEF ToNode, FromNode
    <2>5. t[n] - z =< w /\ z - t[n] =< w
      BY <1>4, <1>5, <2>3, <2>4
    <2>6. SafeMax \in Nat
      BY ReasonerConstants
    <2>7. CASE IsOrigin(n)
      <3>1. ~(n > 0) /\ n \in Int
        BY <1>1, <2>7 DEF IsOrigin, IsQueryGraph, IsNetwork, ScheduleZero
      <3>2. w = 0
        BY <2>2, <3>1
      <3>. QED
        BY <1>5, <1>6, <2>5, <2>7, <3>2
    <2>8. CASE ~IsOrigin(n)
      <3>1. w = SafeMax
        BY <2>1, <2>2, <2>8
      <3>2. -SafeMax =< s[n] /\ s[n] =< SafeMax
        BY <1>5, <1>6, <2>5, <2>6, <3>1
      <3>. QED
        BY <2>8, <3>2 DEF Safe
    <2>. QED
      BY <2>7, <2>8
  <1>. QED
    BY <1>1, <1>2, <1>4, <1>6, <1>7, <1>8 DEF SafeSchedule, Schedule

\* A safe schedule is one of the bounded graph, with the schedule zero at zero.
LEMMA SafeIsBounded ==
    ASSUME NEW graph, IsQueryGraph(graph), NEW s, SafeSchedule(s, graph)
    PROVE  \E t : Schedule(t, BoundedScheduleGraph(graph))
  <1>1. PICK N, G : N = graph.nodes /\ G = BoundedScheduleGraph(graph)
    OBVIOUS
  <1>2. /\ G.nodes = N \cup {ScheduleZero}
        /\ \A e : e \in EdgesOf(G) <=> \/ e \in EdgesOf(graph)
                                       \/ \E n \in N : e = ToNode(n) \/ e = FromNode(n)
    BY <1>1, BoundedGraph
  <1>3. \A n \in N : n # ScheduleZero
    BY <1>1 DEF IsQueryGraph, IsOrigin, ScheduleZero
  <1>4. PICK t : t = [n \in G.nodes |-> IF n = ScheduleZero THEN 0 ELSE s[n]]
    OBVIOUS
  <1>5. \A n \in N : s[n] \in Int
    BY <1>1 DEF SafeSchedule, Schedule
  <1>6. /\ t \in [G.nodes -> Int] /\ t[ScheduleZero] = 0
        /\ \A n \in N : t[n] = s[n]
    BY <1>2, <1>3, <1>4, <1>5
  <1>7. ASSUME NEW e \in EdgesOf(graph)
        PROVE  t[e.to] - t[e.from] =< e.weight
    <2>1. e.from \in N /\ e.to \in N
      BY <1>1 DEF IsQueryGraph, IsNetwork, IsGraph
    <2>2. s[e.to] - s[e.from] =< e.weight
      BY DEF SafeSchedule, Schedule, Satisfies
    <2>. QED
      BY <1>6, <2>1, <2>2
  <1>8. ASSUME NEW n \in N
        PROVE  /\ t[ToNode(n).to] - t[ToNode(n).from] =< ToNode(n).weight
               /\ t[FromNode(n).to] - t[FromNode(n).from] =< FromNode(n).weight
    <2>1. PICK w : w = IF n > 0 THEN SafeMax ELSE 0
      OBVIOUS
    <2>2. /\ ToNode(n).to = n /\ ToNode(n).from = ScheduleZero /\ ToNode(n).weight = w
          /\ FromNode(n).to = ScheduleZero /\ FromNode(n).from = n /\ FromNode(n).weight = w
      BY <2>1 DEF ToNode, FromNode
    <2>3. PICK x : x = s[n]
      OBVIOUS
    <2>4. x \in Int /\ t[n] = x /\ SafeMax \in Nat
      BY <1>5, <1>6, <2>3, ReasonerConstants
    <2>5. x =< w /\ -w =< x
      <3>1. CASE IsOrigin(n)
        <4>1. x = 0 /\ n \in Int
          BY <1>1, <2>3, <3>1 DEF SafeSchedule, IsQueryGraph, IsNetwork
        <4>2. w = 0
          BY <2>1, <3>1, <4>1 DEF IsOrigin, ScheduleZero
        <4>. QED
          BY <4>1, <4>2
      <3>2. CASE ~IsOrigin(n)
        <4>1. Safe(x) /\ n \in Nat \ {0}
          BY <1>1, <2>3, <3>2 DEF SafeSchedule, IsQueryGraph
        <4>2. w = SafeMax
          BY <2>1, <4>1
        <4>. QED
          BY <4>1, <4>2 DEF Safe
      <3>. QED
        BY <3>1, <3>2
    <2>6. w \in Int
      BY <2>1, <2>4
    <2>7. x - 0 =< w /\ 0 - x =< w
      BY <2>4, <2>5, <2>6
    <2>. QED
      BY <1>6, <2>2, <2>4, <2>7
  <1>9. Satisfies(t, G)
    BY <1>2, <1>7, <1>8 DEF Satisfies
  <1>. QED
    BY <1>1, <1>6, <1>9 DEF Schedule

\* scheduleProof finds a schedule when one fits a receipt, and only then; what it finds
\* is accepted. Missing stands for a proof that was not found, so it is none.
THEOREM SchedulesFound ==
    ASSUME NEW graph, IsQueryGraph(graph), Missing \notin [PointNodes(graph) -> Int]
    PROVE  /\ ScheduleProof(graph) # Missing <=> \E s : SafeSchedule(s, graph)
           /\ ScheduleProof(graph) # Missing =>
                  VerifySchedule(ScheduleWitness(ScheduleProof(graph)), graph)
  <1>1. PICK G, N, found : /\ G = BoundedScheduleGraph(graph) /\ N = PointNodes(graph)
                           /\ found = CheckConsistency(G)
    OBVIOUS
  <1>2. IsNetwork(G) /\ ScheduleZero \in G.nodes
    BY <1>1, BoundedGraph
  <1>3. found.consistent <=> \E t : Schedule(t, G)
    BY <1>1, <1>2, ConsistencyDecided
  <1>4. PICK d : d = found.distances
    OBVIOUS
  <1>5. PICK p : p = [n \in N |-> d[n] - d[ScheduleZero]]
    OBVIOUS
  <1>6. ScheduleProof(graph) = IF ~found.consistent THEN Missing ELSE p
    BY <1>1, <1>4, <1>5 DEF ScheduleProof
  <1>7. ASSUME \E s : SafeSchedule(s, graph)
        PROVE  found.consistent
    BY <1>1, <1>3, <1>7, SafeIsBounded
  <1>8. ASSUME found.consistent
        PROVE  /\ p \in [N -> Int] /\ VerifySchedule(ScheduleWitness(p), graph)
               /\ \E s : SafeSchedule(s, graph)
    <2>1. Schedule(d, G)
      BY <1>1, <1>2, <1>4, <1>8, ConsistentIsSchedulable DEF Schedule
    <2>2. PICK s : s = [n \in graph.nodes |-> d[n] - d[ScheduleZero]]
      OBVIOUS
    <2>3. SafeSchedule(s, graph) /\ \A n \in graph.nodes : d[n] - d[ScheduleZero] \in Int
      BY <1>1, <2>1, <2>2, BoundedIsSafe
    <2>4. \A n : n \in N <=> n \in graph.nodes /\ n > 0
      BY <1>1 DEF PointNodes
    <2>5. \A n \in N : n \in graph.nodes /\ ~IsOrigin(n) /\ p[n] = s[n] /\ p[n] \in Int
      <3>. TAKE n \in N
      <3>1. n \in graph.nodes /\ n > 0
        BY <2>4
      <3>2. n \in Int
        BY <3>1 DEF IsQueryGraph, IsNetwork
      <3>3. ~IsOrigin(n)
        BY <3>1, <3>2 DEF IsOrigin
      <3>. QED
        BY <1>5, <2>2, <2>3, <3>1, <3>3
    <2>6. \A n \in N : Safe(p[n])
      BY <2>3, <2>5 DEF SafeSchedule
    <2>7. \A n \in graph.nodes : s[n] = IF IsOrigin(n) THEN 0 ELSE p[n]
      <3>. TAKE n \in graph.nodes
      <3>1. CASE IsOrigin(n)
        BY <2>3, <3>1 DEF SafeSchedule
      <3>2. CASE ~IsOrigin(n)
        <4>1. n > 0
          BY <3>2 DEF IsQueryGraph
        <4>. QED
          BY <2>4, <2>5, <3>2, <4>1
      <3>. QED
        BY <3>1, <3>2
    <2>8. \A e \in EdgesOf(graph) :
              (IF IsOrigin(e.to) THEN 0 ELSE p[e.to]) - (IF IsOrigin(e.from) THEN 0 ELSE p[e.from])
              =< e.weight
      <3>. TAKE e \in EdgesOf(graph)
      <3>1. e.from \in graph.nodes /\ e.to \in graph.nodes /\ s[e.to] - s[e.from] =< e.weight
        BY <2>3 DEF SafeSchedule, Schedule, Satisfies, IsQueryGraph, IsNetwork, IsGraph
      <3>. QED
        BY <2>7, <3>1
    <2>9. PICK w : w = ScheduleWitness(p)
      OBVIOUS
    <2>10. w.kind = "schedule" /\ w.coordinates = p
      BY <2>9 DEF ScheduleWitness
    <2>11. DOMAIN p = N
      BY <1>5
    <2>12. VerifySchedule(w, graph)
      BY <1>1, <2>6, <2>8, <2>10, <2>11 DEF VerifySchedule
    <2>. QED
      BY <1>5, <2>3, <2>5, <2>9, <2>12
  <1>. QED
    BY <1>1, <1>6, <1>7, <1>8

----------------------------------------------------------------------------
(* What a verified conclusion says                                         *)

\* The witness of a verdict: coordinates are whole numbers, edges come in a list.
IsWitness(proof, graph) ==
    /\ proof.kind = "schedule" => proof.coordinates \in [PointNodes(graph) -> Int]
    /\ proof.kind = "negative-cycle" => \E X : proof.edges \in Seq(X)

\* Accepted as consistent only if there is a safe schedule, as inconsistent only if
\* there is none at all.
THEOREM ConsistencyVerdicts ==
    ASSUME NEW graph, IsQueryGraph(graph), NEW result, NEW proof, IsWitness(proof, graph),
           VerifyConsistency(result, proof, graph)
    PROVE  IF result.status = "consistent" THEN \E s : SafeSchedule(s, graph)
           ELSE result.status = "inconsistent" /\ ~\E s : Schedule(s, graph)
  <1>1. IsGraph(graph)
    BY DEF IsQueryGraph, IsNetwork
  <1>2. CASE result.status = "consistent" /\ VerifySchedule(proof, graph)
    <2>1. proof.coordinates \in [PointNodes(graph) -> Int]
      BY <1>2 DEF IsWitness, VerifySchedule
    <2>2. \A n \in graph.nodes : IsOrigin(n) \/ n \in Nat \ {0}
      BY DEF IsQueryGraph
    <2>3. \E s \in [graph.nodes -> Int] :
              /\ Satisfies(s, graph)
              /\ \A n \in graph.nodes : IF IsOrigin(n) THEN s[n] = 0 ELSE Safe(s[n])
      BY <1>1, <1>2, <2>1, <2>2, WitnessesSchedule
    <2>. QED
      BY <1>2, <2>3 DEF SafeSchedule, Schedule
  <1>3. CASE result.status = "inconsistent" /\ VerifyCycle(proof, graph)
    <2>1. PICK X : proof.edges \in Seq(X)
      BY <1>3 DEF IsWitness, VerifyCycle
    <2>2. ~\E s \in [graph.nodes -> Int] : Satisfies(s, graph)
      BY <1>1, <1>3, <2>1, CyclesRefute
    <2>. QED
      BY <1>3, <2>2 DEF Schedule
  <1>. QED
    BY <1>2, <1>3 DEF VerifyConsistency

\* Accepted bounds hold of every schedule, and there is one; accepted as inconsistent
\* only if there is none.
THEOREM BoundsVerdicts ==
    ASSUME NEW graph, IsQueryGraph(graph), NEW result, NEW proof, IsWitness(proof, graph),
           NEW X, proof.kind = "bounds" => proof.lower \in Seq(X) /\ proof.upper \in Seq(X),
           NEW from \in graph.nodes, NEW to \in graph.nodes,
           VerifyBounds(result, proof, graph, from, to)
    PROVE  IF result.status = "inconsistent" THEN ~\E s : Schedule(s, graph)
           ELSE /\ \E s : Schedule(s, graph)
                /\ \A s : Schedule(s, graph) =>
                       /\ result.maximum # Missing => s[to] - s[from] =< result.maximum
                       /\ result.minimum # Missing => result.minimum =< s[to] - s[from]
  <1>1. IsGraph(graph) /\ IsNetwork(graph)
    BY DEF IsQueryGraph, IsNetwork
  <1>2. CASE result.status = "inconsistent"
    <2>1. VerifyCycle(proof, graph)
      BY <1>2 DEF VerifyBounds
    <2>2. PICK Y : proof.edges \in Seq(Y)
      BY <2>1 DEF IsWitness, VerifyCycle
    <2>3. ~\E s \in [graph.nodes -> Int] : Satisfies(s, graph)
      BY <1>1, <2>1, <2>2, CyclesRefute
    <2>. QED
      BY <1>2, <2>3 DEF Schedule
  <1>3. CASE result.status # "inconsistent"
    <2>1. PICK u, l : /\ u = ShortestPath(graph, from, to).distance
                      /\ l = ShortestPath(graph, to, from).distance
      OBVIOUS
    <2>2. /\ CheckConsistency(graph).consistent
          /\ result = Bounds(u, l)
          /\ proof.kind = "bounds"
          /\ VerifyPath(proof.lower, graph, to, from, l)
          /\ VerifyPath(proof.upper, graph, from, to, u)
      BY <1>3, <2>1 DEF VerifyBounds
    <2>3. \E s : Schedule(s, graph)
      BY <1>1, <2>2, ConsistentIsSchedulable DEF Schedule
    <2>4. /\ result.maximum = u
          /\ result.minimum = IF l = Missing THEN Missing ELSE -l
      BY <2>2 DEF Bounds
    <2>5. ASSUME NEW s, Schedule(s, graph), u # Missing
          PROVE  s[to] - s[from] =< u
      BY <1>1, <2>2, <2>5, PathsBound DEF Schedule
    <2>6. ASSUME NEW s, Schedule(s, graph), l # Missing
          PROVE  -l =< s[to] - s[from]
      <3>1. s[from] - s[to] =< l
        BY <1>1, <2>2, <2>6, PathsBound DEF Schedule
      <3>2. s[from] \in Int /\ s[to] \in Int
        BY <2>6 DEF Schedule
      <3>3. l \in Int
        <4>1. CASE proof.lower = <<>>
          BY <2>2, <2>6, <4>1 DEF VerifyPath
        <4>2. CASE proof.lower # <<>>
          <5>1. /\ \A i \in DOMAIN proof.lower : proof.lower[i] \in EdgesOf(graph)
                /\ Weight(proof.lower) = l /\ proof.lower \in Seq(X)
            BY <2>2, <2>6, <4>2 DEF VerifyPath
          <5>2. \A i \in 1..Len(proof.lower) : proof.lower[i].weight \in Int
            BY <1>1, <5>1, LenProperties DEF IsGraph
          <5>. QED
            BY <5>1, <5>2, WeightTyped
        <4>. QED
          BY <4>1, <4>2
      <3>. QED
        BY <3>1, <3>2, <3>3
    <2>. QED
      BY <1>3, <2>3, <2>4, <2>5, <2>6
  <1>. QED
    BY <1>2, <1>3

\* Of the relations of an accepted answer each is said to be possible only if a safe
\* schedule of the graph and the relation exists, and impossible only if none exists
\* at all; accepted as inconsistent only if the graph itself has none.
THEOREM RelationsVerdicts ==
    ASSUME NEW graph, IsQueryGraph(graph), NEW result, NEW proof, IsWitness(proof, graph),
           NEW relations, NEW specs,
           \A i \in DOMAIN relations : IsQueryGraph(ExtendGraph(graph, specs[i])),
           proof.kind = "relation-cases" =>
               \A i \in DOMAIN relations :
                   IsWitness(proof.cases[i].witness, ExtendGraph(graph, specs[i])),
           VerifyRelations(result, proof, graph, relations, specs)
    PROVE  IF CheckConsistency(graph).consistent
           THEN /\ \E s : Schedule(s, graph)
                /\ \A i \in DOMAIN relations :
                       /\ proof.cases[i].relation = relations[i]
                       /\ IF proof.cases[i].possible
                          THEN \E s : SafeSchedule(s, ExtendGraph(graph, specs[i]))
                          ELSE ~\E s : Schedule(s, ExtendGraph(graph, specs[i]))
           ELSE result.status = "inconsistent" /\ ~\E s : Schedule(s, graph)
  <1>1. IsNetwork(graph)
    BY DEF IsQueryGraph
  <1>2. CASE ~CheckConsistency(graph).consistent
    <2>1. result.status = "inconsistent" /\ VerifyCycle(proof, graph)
      BY <1>2 DEF VerifyRelations
    <2>2. VerifyConsistency(result, proof, graph) /\ result.status # "consistent"
      BY <2>1 DEF VerifyConsistency
    <2>3. ~\E s : Schedule(s, graph)
      BY <2>2, ConsistencyVerdicts
    <2>. QED
      BY <1>2, <2>1, <2>3
  <1>3. CASE CheckConsistency(graph).consistent
    <2>1. \E s : Schedule(s, graph)
      BY <1>1, <1>3, ConsistentIsSchedulable DEF Schedule
    <2>2. ASSUME NEW i \in DOMAIN relations
          PROVE  /\ proof.cases[i].relation = relations[i]
                 /\ IF proof.cases[i].possible
                    THEN \E s : SafeSchedule(s, ExtendGraph(graph, specs[i]))
                    ELSE ~\E s : Schedule(s, ExtendGraph(graph, specs[i]))
      <3>1. PICK candidate : candidate = ExtendGraph(graph, specs[i])
        OBVIOUS
      <3>2. PICK w : w = proof.cases[i].witness
        OBVIOUS
      <3>3. /\ proof.cases[i].relation = relations[i]
            /\ IF proof.cases[i].possible THEN VerifySchedule(w, candidate)
               ELSE VerifyCycle(w, candidate)
            /\ IsQueryGraph(candidate) /\ IsWitness(w, candidate)
        BY <1>3, <3>1, <3>2 DEF VerifyRelations
      <3>4. PICK yes, no : yes = [status |-> "consistent"] /\ no = [status |-> "inconsistent"]
        OBVIOUS
      <3>5. yes.status = "consistent" /\ no.status = "inconsistent" /\ no.status # "consistent"
        BY <3>4
      <3>6. CASE proof.cases[i].possible
        <4>1. VerifyConsistency(yes, w, candidate)
          BY <3>3, <3>5, <3>6 DEF VerifyConsistency
        <4>2. \E s : SafeSchedule(s, candidate)
          BY <3>3, <3>5, <4>1, ConsistencyVerdicts
        <4>. QED
          BY <3>1, <3>3, <3>6, <4>2
      <3>7. CASE ~proof.cases[i].possible
        <4>1. VerifyConsistency(no, w, candidate)
          BY <3>3, <3>5, <3>7 DEF VerifyConsistency
        <4>2. ~\E s : Schedule(s, candidate)
          BY <3>3, <3>5, <4>1, ConsistencyVerdicts
        <4>. QED
          BY <3>1, <3>3, <3>7, <4>2
      <3>. QED
        BY <3>6, <3>7
    <2>. QED
      BY <1>3, <2>1, <2>2
  <1>. QED
    BY <1>2, <1>3

----------------------------------------------------------------------------
(* What is answered                                                        *)

\* A graph that is compiled from a run.
IsCompiled(graph) ==
    IsQueryGraph(graph) /\ graph.edges \in Seq(Edge) /\ PointNodes(graph) \subseteq ObjectIds

\* Nothing in it is missing.
LEMMA CompiledSays ==
    ASSUME NEW graph, IsCompiled(graph)
    PROVE  /\ IsNetwork(graph) /\ Sourced(graph)
           /\ Missing \notin EdgesOf(graph) /\ Missing \notin Seq(EdgesOf(graph))
           /\ Missing \notin [PointNodes(graph) -> Int]
  <1>1. IsNetwork(graph)
    BY DEF IsCompiled, IsQueryGraph
  <1>2. EdgesOf(graph) \subseteq Edge
    <2>1. \A e \in EdgesOf(graph) : \E i \in 1..Len(graph.edges) : e = graph.edges[i]
      BY <1>1, ListedEdges
    <2>2. \A i \in 1..Len(graph.edges) : graph.edges[i] \in Edge
      BY ElementOfSeq DEF IsCompiled
    <2>. QED
      BY <2>1, <2>2
  <1>3. Sourced(graph)
    BY <1>2 DEF Sourced, Edge
  <1>4. Null \notin Edge /\ Null \notin Seq(Edge) /\ Missing = Null
    BY NullIsNoValue, ReasonerConstants
  <1>5. Missing \notin EdgesOf(graph)
    BY <1>2, <1>4
  <1>6. Missing \notin Seq(EdgesOf(graph))
    <2>1. PICK E : E = EdgesOf(graph)
      OBVIOUS
    <2>2. \A s \in Seq(E) : s \in Seq(Edge)
      BY <1>2, <2>1, SeqMonotonic
    <2>. QED
      BY <1>4, <2>1, <2>2
  <1>7. Missing \notin [PointNodes(graph) -> Int]
    BY <1>4, NullIsNoValue DEF IsCompiled
  <1>. QED
    BY <1>1, <1>3, <1>5, <1>6, <1>7

\* An error is no Null.
LEMMA ErrorsAre == Overflow.error # Null /\ Invalid.error # Null
BY NullIsNoValue DEF Overflow, Invalid, Failed

\* A question on consistency is answered consistent when a schedule fits a receipt,
\* inconsistent when there is none at all, and else by an overflow; and what is
\* answered is accepted.
THEOREM ConsistencyAnswered ==
    ASSUME NEW graph, IsCompiled(graph), NEW reply, reply = ReasonConsistency(graph)
    PROVE  /\ IF \E s : SafeSchedule(s, graph)
              THEN reply.error = Null /\ reply.result.status = "consistent"
              ELSE IF \E s : Schedule(s, graph) THEN reply = Overflow
              ELSE reply.error = Null /\ reply.result.status = "inconsistent"
           /\ reply.error = Null => VerifyConsistency(reply.result, reply.proof, graph)
  <1>1. /\ IsNetwork(graph) /\ Sourced(graph) /\ IsQueryGraph(graph)
        /\ Missing \notin EdgesOf(graph) /\ Missing \notin Seq(EdgesOf(graph))
        /\ Missing \notin [PointNodes(graph) -> Int]
    BY CompiledSays DEF IsCompiled
  <1>2. PICK found, p : found = CheckConsistency(graph) /\ p = ScheduleProof(graph)
    OBVIOUS
  <1>3. found.consistent <=> \E s : Schedule(s, graph)
    BY <1>1, <1>2, ConsistencyDecided
  <1>4. /\ p # Missing <=> \E s : SafeSchedule(s, graph)
        /\ p # Missing => VerifySchedule(ScheduleWitness(p), graph)
    BY <1>1, <1>2, SchedulesFound
  <1>5. (\E s : SafeSchedule(s, graph)) => \E s : Schedule(s, graph)
    BY DEF SafeSchedule
  <1>6. CASE ~found.consistent
    <2>1. found.edges # Missing /\ VerifyCycle(CycleWitness(found.edges), graph)
      BY <1>1, <1>2, <1>6, CyclesFound
    <2>2. reply = Reply([status |-> "inconsistent"], CycleWitness(found.edges))
      BY <1>2, <1>6, <2>1 DEF ReasonConsistency, Inconsistent
    <2>3. reply.error = Null /\ reply.result.status = "inconsistent"
          /\ reply.proof = CycleWitness(found.edges)
      BY <2>2 DEF Reply
    <2>. QED
      BY <1>3, <1>5, <1>6, <2>1, <2>3 DEF VerifyConsistency
  <1>7. CASE found.consistent /\ p = Missing
    <2>1. reply = Overflow
      BY <1>2, <1>7 DEF ReasonConsistency
    <2>. QED
      BY <1>3, <1>4, <1>7, <2>1, ErrorsAre
  <1>8. CASE found.consistent /\ p # Missing
    <2>1. reply = Reply([status |-> "consistent"], ScheduleWitness(p))
      BY <1>2, <1>8 DEF ReasonConsistency
    <2>2. reply.error = Null /\ reply.result.status = "consistent"
          /\ reply.proof = ScheduleWitness(p)
      BY <2>1 DEF Reply
    <2>. QED
      BY <1>4, <1>8, <2>2 DEF VerifyConsistency
  <1>. QED
    BY <1>6, <1>7, <1>8

\* A relation is possible in an answer when a schedule of the graph and the relation
\* fits a receipt, impossible when there is none at all, and else an overflow; and each
\* has its witness.
THEOREM CasesAnswered ==
    ASSUME NEW graph, NEW specs, NEW candidate, candidate = ExtendGraph(graph, specs),
           IsCompiled(candidate),
           NEW relation, NEW case, case = RelationCase(graph, relation, specs)
    PROVE  IF \E s : SafeSchedule(s, candidate)
           THEN /\ case.error = Null /\ case.relation = relation /\ case.possible
                /\ VerifySchedule(case.witness, candidate)
           ELSE IF \E s : Schedule(s, candidate) THEN case = Overflow
           ELSE /\ case.error = Null /\ case.relation = relation /\ ~case.possible
                /\ VerifyCycle(case.witness, candidate)
  <1>1. /\ IsNetwork(candidate) /\ Sourced(candidate) /\ IsQueryGraph(candidate)
        /\ Missing \notin EdgesOf(candidate) /\ Missing \notin Seq(EdgesOf(candidate))
        /\ Missing \notin [PointNodes(candidate) -> Int]
    BY CompiledSays DEF IsCompiled
  <1>2. PICK found, p : found = CheckConsistency(candidate) /\ p = ScheduleProof(candidate)
    OBVIOUS
  <1>3. found.consistent <=> \E s : Schedule(s, candidate)
    BY <1>1, <1>2, ConsistencyDecided
  <1>4. /\ p # Missing <=> \E s : SafeSchedule(s, candidate)
        /\ p # Missing => VerifySchedule(ScheduleWitness(p), candidate)
    BY <1>1, <1>2, SchedulesFound
  <1>5. (\E s : SafeSchedule(s, candidate)) => \E s : Schedule(s, candidate)
    BY DEF SafeSchedule
  <1>6. CASE ~found.consistent
    <2>1. found.edges # Missing /\ VerifyCycle(CycleWitness(found.edges), candidate)
      BY <1>1, <1>2, <1>6, CyclesFound
    <2>2. case = [error |-> Null, relation |-> relation, possible |-> FALSE,
                  witness |-> CycleWitness(found.edges)]
      BY <1>2, <1>6, <2>1 DEF RelationCase
    <2>. QED
      BY <1>3, <1>5, <1>6, <2>1, <2>2
  <1>7. CASE found.consistent /\ p = Missing
    <2>1. case = Overflow
      BY <1>2, <1>7 DEF RelationCase
    <2>. QED
      BY <1>3, <1>4, <1>7, <2>1
  <1>8. CASE found.consistent /\ p # Missing
    <2>1. case = [error |-> Null, relation |-> relation, possible |-> TRUE,
                  witness |-> ScheduleWitness(p)]
      BY <1>2, <1>8 DEF RelationCase
    <2>. QED
      BY <1>4, <1>8, <2>1
  <1>. QED
    BY <1>6, <1>7, <1>8

\* A question on bounds is answered inconsistent when there is no schedule, and else by the
\* least and the greatest difference, or by an overflow when one of them is not safe; and
\* what is answered is accepted.
THEOREM BoundsAnswered ==
    ASSUME NEW graph, IsCompiled(graph), NEW from \in graph.nodes, NEW to \in graph.nodes,
           NEW reply, reply = ReasonBounds(graph, from, to)
    PROVE  /\ IF \E s : Schedule(s, graph)
              THEN \E u, l : /\ GreatestGap(u, graph, from, to)
                             /\ GreatestGap(l, graph, to, from)
                             /\ IF \A d \in {u, l} : d # Missing => Safe(d)
                                THEN reply.error = Null /\ reply.result = Bounds(u, l)
                                ELSE reply = Overflow
              ELSE reply.error = Null /\ reply.result.status = "inconsistent"
           /\ reply.error = Null => VerifyBounds(reply.result, reply.proof, graph, from, to)
  <1>1. /\ IsNetwork(graph) /\ Sourced(graph)
        /\ Missing \notin EdgesOf(graph) /\ Missing \notin Seq(EdgesOf(graph))
    BY CompiledSays
  <1>2. PICK found, upper, reverse : /\ found = CheckConsistency(graph)
                                     /\ upper = ShortestPath(graph, from, to)
                                     /\ reverse = ShortestPath(graph, to, from)
    OBVIOUS
  <1>3. found.consistent <=> \E s : Schedule(s, graph)
    BY <1>1, <1>2, ConsistencyDecided
  <1>4. CASE ~found.consistent
    <2>1. found.edges # Missing /\ VerifyCycle(CycleWitness(found.edges), graph)
      BY <1>1, <1>2, <1>4, CyclesFound
    <2>2. PICK none : none = [Bounds(Missing, Missing) EXCEPT !.status = "inconsistent"]
      OBVIOUS
    <2>3. reply = Reply(none, CycleWitness(found.edges))
      BY <1>2, <1>4, <2>1, <2>2 DEF ReasonBounds, Inconsistent
    <2>4. none.status = "inconsistent" /\ none.minimum = Null /\ none.maximum = Null
      BY <2>2, ReasonerConstants DEF Bounds
    <2>5. reply.error = Null /\ reply.result = none /\ reply.proof = CycleWitness(found.edges)
      BY <2>3 DEF Reply
    <2>. QED
      BY <1>3, <1>4, <2>1, <2>4, <2>5 DEF VerifyBounds
  <1>5. CASE found.consistent
    <2>1. /\ upper.edges # Missing /\ VerifyPath(upper.edges, graph, from, to, upper.distance)
          /\ GreatestGap(upper.distance, graph, from, to)
      BY <1>1, <1>2, <1>3, <1>5, PathsFound
    <2>2. /\ reverse.edges # Missing /\ VerifyPath(reverse.edges, graph, to, from, reverse.distance)
          /\ GreatestGap(reverse.distance, graph, to, from)
      BY <1>1, <1>2, <1>3, <1>5, PathsFound
    <2>3. PICK u, l : u = upper.distance /\ l = reverse.distance
      OBVIOUS
    <2>4. PICK result, proof : /\ result = Bounds(u, l)
                               /\ proof = [kind |-> "bounds", lower |-> reverse.edges,
                                           upper |-> upper.edges]
      OBVIOUS
    <2>5. proof.kind = "bounds" /\ proof.lower = reverse.edges /\ proof.upper = upper.edges
      BY <2>4
    <2>6. reply = IF \E d \in {u, l} \ {Missing} : ~Safe(d) THEN Overflow ELSE Reply(result, proof)
      BY <1>2, <1>5, <2>1, <2>2, <2>3, <2>4 DEF ReasonBounds
    <2>7. CASE \E d \in {u, l} \ {Missing} : ~Safe(d)
      <3>1. reply = Overflow /\ ~\A d \in {u, l} : d # Missing => Safe(d)
        BY <2>6, <2>7
      <3>. QED
        BY <1>3, <1>5, <2>1, <2>2, <2>3, <3>1, ErrorsAre
    <2>8. CASE \A d \in {u, l} \ {Missing} : Safe(d)
      <3>1. reply.error = Null /\ reply.result = result /\ reply.proof = proof
        BY <2>6, <2>8 DEF Reply
      <3>2. result.status # "inconsistent"
        BY <2>4 DEF Bounds
      <3>3. VerifyBounds(result, proof, graph, from, to)
        BY <1>2, <1>5, <2>1, <2>2, <2>3, <2>4, <2>5, <2>8, <3>2 DEF VerifyBounds
      <3>. QED
        BY <1>3, <1>5, <2>1, <2>2, <2>3, <2>4, <2>8, <3>1, <3>3
    <2>. QED
      BY <2>7, <2>8
  <1>. QED
    BY <1>4, <1>5
\* Some relation is listed as possible when a case is.
LEMMA PossibleSays ==
    ASSUME NEW X, NEW relations \in Seq(X), NEW cases, NEW k \in 1..Len(relations),
           cases[k].possible
    PROVE  PossibleOf(relations, cases) # <<>>
  <1>1. PICK n : n = Len(relations)
    OBVIOUS
  <1>2. n \in Nat /\ \A i \in 1..n : relations[i] \in X
    BY <1>1, LenProperties, ElementOfSeq
  <1>3. PICK F : F = [p \in (1..n) \X Seq(X) |->
                         IF cases[p[1]].possible THEN Append(p[2], relations[p[1]]) ELSE p[2]]
    OBVIOUS
  <1>4. \A i \in 1..n, s \in Seq(X) : Append(s, relations[i]) \in Seq(X)
    BY <1>2, AppendProperties
  <1>5. /\ F \in [(1..n) \X Seq(X) -> Seq(X)]
        /\ \A i \in 1..n, s \in Seq(X) :
               F[<<i, s>>] = IF cases[i].possible THEN Append(s, relations[i]) ELSE s
    BY <1>3, <1>4
  <1>6. <<>> \in Seq(X)
    BY EmptySeq
  <1>7. PICK h \in [0..n -> Seq(X)] : Iterate(h, n, <<>>, F)
    BY <1>2, <1>5, <1>6, Iterates
  <1>8. \A i \in 0..n : i # 0 => i \in 1..n /\ i - 1 \in 0..n
    BY <1>2
  <1>9. \A i \in 0..n : h[i] = IF i = 0 THEN <<>>
                               ELSE IF cases[i].possible THEN Append(h[i - 1], relations[i])
                               ELSE h[i - 1]
    <2>1. \A i \in 0..n : h[i] = IF i = 0 THEN <<>> ELSE F[<<i, h[i - 1]>>]
      BY <1>7 DEF Iterate
    <2>. TAKE i \in 0..n
    <2>2. CASE i = 0
      BY <2>1, <2>2
    <2>3. CASE i # 0
      <3>1. i \in 1..n /\ h[i - 1] \in Seq(X) /\ h[i] = F[<<i, h[i - 1]>>]
        BY <1>7, <1>8, <2>1, <2>3
      <3>. QED
        BY <1>5, <2>3, <3>1
    <2>. QED
      BY <2>2, <2>3
  <1>10. h = [i \in 0..n |-> IF i = 0 THEN <<>>
                             ELSE IF cases[i].possible THEN Append(h[i - 1], relations[i])
                             ELSE h[i - 1]]
    BY <1>7, <1>9
  <1>11. PICK g : g = CHOOSE f : f = [i \in 0..n |->
                                         IF i = 0 THEN <<>>
                                         ELSE IF cases[i].possible THEN Append(f[i - 1], relations[i])
                                         ELSE f[i - 1]]
    OBVIOUS
  <1>12. g = [i \in 0..n |-> IF i = 0 THEN <<>>
                             ELSE IF cases[i].possible THEN Append(g[i - 1], relations[i])
                             ELSE g[i - 1]]
    BY <1>10, <1>11
  <1>13. \A i \in 0..n : g[i] = IF i = 0 THEN <<>>
                                ELSE IF cases[i].possible THEN Append(g[i - 1], relations[i])
                                ELSE g[i - 1]
    BY <1>12, ZenonT(40)
  <1>14. PICK T : T = {i \in 0..n : g[i] \in Seq(X) /\ (i >= k => g[i] # <<>>)}
    OBVIOUS
  <1>15. 0 \in T
    <2>1. 0 \in 0..n /\ ~(0 >= k)
      BY <1>1, <1>2
    <2>2. g[0] = <<>>
      BY <1>13, <2>1
    <2>. QED
      BY <1>6, <1>14, <2>1, <2>2
  <1>16. \A i \in 1..n : i - 1 \in T => i \in T
    <2>. SUFFICES ASSUME NEW i \in 1..n, i - 1 \in T
                  PROVE  i \in T
      OBVIOUS
    <2>1. PICK s : s = g[i - 1]
      OBVIOUS
    <2>2. s \in Seq(X) /\ (i - 1 >= k => s # <<>>)
      BY <1>14, <2>1
    <2>3. i \in 0..n /\ i # 0
      BY <1>2
    <2>4. g[i] = IF cases[i].possible THEN Append(s, relations[i]) ELSE s
      BY <1>13, <2>1, <2>3
    <2>5. Append(s, relations[i]) \in Seq(X) /\ Append(s, relations[i]) # <<>>
      <3>1. relations[i] \in X
        BY <1>2
      <3>2. /\ Append(s, relations[i]) \in Seq(X)
            /\ Len(Append(s, relations[i])) = Len(s) + 1 /\ Len(s) \in Nat
        BY <2>2, <3>1, AppendProperties, LenProperties
      <3>3. PICK a, b : a = Len(Append(s, relations[i])) /\ b = Len(<<>>)
        OBVIOUS
      <3>4. a # b
        <4>1. b = 0
          BY <3>3, EmptySeq
        <4>. QED
          BY <3>2, <3>3, <4>1
      <3>. QED
        BY <3>2, <3>3, <3>4, Zenon
    <2>6. i >= k => i = k \/ i - 1 >= k
      BY <1>1, <1>2
    <2>7. g[i] \in Seq(X)
      BY <2>2, <2>4, <2>5
    <2>8. i >= k => g[i] # <<>>
      BY <2>2, <2>4, <2>5, <2>6
    <2>. QED
      BY <1>14, <2>3, <2>7, <2>8
  <1>17. n \in T /\ n >= k
    <2>1. 0..n \subseteq T
      BY <1>2, <1>15, <1>16, UpTo
    <2>. QED
      BY <1>1, <1>2, <2>1
  <1>18. PossibleOf(relations, cases) = g[n]
    BY <1>1, <1>11 DEF PossibleOf
  <1>. QED
    BY <1>14, <1>17, <1>18

\* The cases of relations, and the reply they make up where the graph is consistent.
CasesOf(graph, relations, specs) ==
    [i \in DOMAIN relations |-> RelationCase(graph, relations[i], specs[i])]

CasesReply(relations, cases) ==
    LET failures == {i \in DOMAIN cases : cases[i].error # Null}
        possible == PossibleOf(relations, cases)
    IN IF failures # {} THEN Failed(cases[Min(failures)].error)
       ELSE Reply([status |-> IF Len(possible) = 1 THEN "resolved" ELSE "indeterminate",
                   possible |-> possible],
                  [kind |-> "relation-cases", cases |-> cases])

\* That is the code's.
LEMMA RelationsReply ==
    ASSUME NEW graph, NEW relations, NEW specs, CheckConsistency(graph).consistent
    PROVE  ReasonRelations(graph, relations, specs) =
               CasesReply(relations, CasesOf(graph, relations, specs))
  BY DEF ReasonRelations, CasesReply, CasesOf

\* A question on relations is answered inconsistent when there is no schedule; else, when
\* every relation is decided, by those that are possible. When some relation is possible
\* of every schedule there is, what is answered is accepted.
THEOREM RelationsAnswered ==
    ASSUME NEW graph, IsCompiled(graph), NEW X, NEW relations \in Seq(X), NEW specs,
           \A i \in DOMAIN relations : IsCompiled(ExtendGraph(graph, specs[i])),
           (\E s : Schedule(s, graph)) =>
               \E i \in DOMAIN relations : \E s : Schedule(s, ExtendGraph(graph, specs[i])),
           NEW reply, reply = ReasonRelations(graph, relations, specs), reply.error = Null
    PROVE  /\ reply.result.status = "inconsistent" <=> ~\E s : Schedule(s, graph)
           /\ VerifyRelations(reply.result, reply.proof, graph, relations, specs)
  <1>1. /\ IsNetwork(graph) /\ Sourced(graph)
        /\ Missing \notin EdgesOf(graph) /\ Missing \notin Seq(EdgesOf(graph))
    BY CompiledSays
  <1>2. PICK found, cases : /\ found = CheckConsistency(graph)
                            /\ cases = CasesOf(graph, relations, specs)
    OBVIOUS
  <1>3. found.consistent <=> \E s : Schedule(s, graph)
    BY <1>1, <1>2, ConsistencyDecided
  <1>4. CASE ~found.consistent
    <2>1. found.edges # Missing /\ VerifyCycle(CycleWitness(found.edges), graph)
      BY <1>1, <1>2, <1>4, CyclesFound
    <2>2. PICK none : none = [status |-> "inconsistent", possible |-> <<>>]
      OBVIOUS
    <2>3. reply = Reply(none, CycleWitness(found.edges))
      BY <1>2, <1>4, <2>1, <2>2 DEF ReasonRelations, Inconsistent
    <2>4. none.status = "inconsistent" /\ none.possible = <<>>
      BY <2>2
    <2>5. reply.result = none /\ reply.proof = CycleWitness(found.edges)
      BY <2>3 DEF Reply
    <2>. QED
      BY <1>2, <1>3, <1>4, <2>1, <2>4, <2>5 DEF VerifyRelations
  <1>5. CASE found.consistent
    <2>1. PICK failures, possible : /\ failures = {i \in DOMAIN cases : cases[i].error # Null}
                                    /\ possible = PossibleOf(relations, cases)
      OBVIOUS
    <2>2. PICK result, proof : /\ result = [status |-> IF Len(possible) = 1 THEN "resolved"
                                                       ELSE "indeterminate",
                                            possible |-> possible]
                               /\ proof = [kind |-> "relation-cases", cases |-> cases]
      OBVIOUS
    <2>3. reply = IF failures # {} THEN Failed(cases[Min(failures)].error)
                  ELSE Reply(result, proof)
      <3>1. reply = CasesReply(relations, cases)
        BY <1>2, <1>5, RelationsReply
      <3>. QED
        BY <2>1, <2>2, <3>1 DEF CasesReply
    <2>4. DOMAIN cases = DOMAIN relations /\ DOMAIN relations = 1..Len(relations)
          /\ Len(relations) \in Nat
      BY <1>2, LenProperties DEF CasesOf
    <2>5. failures = {}
      <3>. SUFFICES ASSUME failures # {}
                    PROVE  FALSE
        OBVIOUS
      <3>1. failures \subseteq Nat
        BY <2>1, <2>4
      <3>2. Min(failures) \in failures
        BY <3>1, LeastOf
      <3>3. reply.error = cases[Min(failures)].error
        BY <2>3 DEF Failed
      <3>. QED
        BY <2>1, <3>2, <3>3
    <2>6. reply.result = result /\ reply.proof = proof
      BY <2>3, <2>5 DEF Reply
    <2>7. ASSUME NEW i \in DOMAIN relations
          PROVE  /\ cases[i].relation = relations[i]
                 /\ IF cases[i].possible
                    THEN VerifySchedule(cases[i].witness, ExtendGraph(graph, specs[i]))
                    ELSE VerifyCycle(cases[i].witness, ExtendGraph(graph, specs[i]))
                 /\ (\E s : Schedule(s, ExtendGraph(graph, specs[i]))) => cases[i].possible
      <3>1. PICK case, candidate, relation, sp :
                case = cases[i] /\ candidate = ExtendGraph(graph, specs[i])
                /\ relation = relations[i] /\ sp = specs[i]
        OBVIOUS
      <3>2. /\ IsCompiled(candidate) /\ candidate = ExtendGraph(graph, sp)
            /\ case = RelationCase(graph, relation, sp)
        BY <1>2, <3>1 DEF CasesOf
      <3>3. IF \E s : SafeSchedule(s, candidate)
            THEN /\ case.error = Null /\ case.relation = relation /\ case.possible
                 /\ VerifySchedule(case.witness, candidate)
            ELSE IF \E s : Schedule(s, candidate) THEN case = Overflow
            ELSE /\ case.error = Null /\ case.relation = relation /\ ~case.possible
                 /\ VerifyCycle(case.witness, candidate)
        BY <3>2, CasesAnswered
      <3>4. case # Overflow
        BY <2>1, <2>4, <2>5, <3>1, ErrorsAre
      <3>5. (\E s : SafeSchedule(s, candidate)) => \E s : Schedule(s, candidate)
        BY DEF SafeSchedule
      <3>. QED
        BY <3>1, <3>3, <3>4, <3>5
    <2>8. possible # <<>>
      <3>1. PICK k \in DOMAIN relations : \E s : Schedule(s, ExtendGraph(graph, specs[k]))
        BY <1>3, <1>5
      <3>2. k \in 1..Len(relations) /\ cases[k].possible
        BY <2>4, <2>7, <3>1
      <3>. QED
        BY <2>1, <3>2, PossibleSays
    <2>9. /\ proof.kind = "relation-cases" /\ proof.cases = cases /\ result.possible = possible
          /\ result.status = IF Len(possible) = 1 THEN "resolved" ELSE "indeterminate"
          /\ result.status # "inconsistent"
      BY <2>2
    <2>10. \A i \in DOMAIN relations :
               /\ cases[i].relation = relations[i]
               /\ IF cases[i].possible
                  THEN VerifySchedule(cases[i].witness, ExtendGraph(graph, specs[i]))
                  ELSE VerifyCycle(cases[i].witness, ExtendGraph(graph, specs[i]))
      BY <2>7
    <2>11. VerifyRelations(result, proof, graph, relations, specs)
      BY <1>2, <1>5, <2>1, <2>4, <2>8, <2>9, <2>10 DEF VerifyRelations
    <2>. QED
      BY <1>3, <1>5, <2>6, <2>9, <2>11
  <1>. QED
    BY <1>4, <1>5

----------------------------------------------------------------------------
(* The graph of a query                                                    *)

\* Edges between nodes that a labelling satisfies when a difference is within given bounds.
Bounding(S, N, from, to, minimum, maximum) ==
    /\ IsFiniteSet(S)
    /\ \A e \in S : e \in Edge /\ e.from \in N /\ e.to \in N
    /\ minimum # Missing => \E e \in S : e.from = to /\ e.to = from /\ e.weight = -minimum
    /\ \A s \in [N -> Int] :
           (\A e \in S : s[e.to] - s[e.from] =< e.weight)
           <=> /\ maximum # Missing => s[to] - s[from] =< maximum
               /\ minimum # Missing => minimum =< s[to] - s[from]

\* Those of addDifferenceEdges.
LEMMA DifferenceSays ==
    ASSUME NEW N, N \subseteq Int, NEW from \in N, NEW to \in N, NEW minimum \in Int \cup {Missing},
           NEW maximum \in Int \cup {Missing}, NEW source \in Int \X Int,
           NEW S, S = DifferenceEdges(from, to, minimum, maximum, source)
    PROVE  Bounding(S, N, from, to, minimum, maximum)
  <1>1. PICK lower : lower = IF minimum = Missing THEN Missing ELSE -minimum
    OBVIOUS
  <1>2. PICK d, f : /\ d = [from |-> from, to |-> to, weight |-> maximum, source |-> source]
                    /\ f = [from |-> to, to |-> from, weight |-> lower, source |-> source]
    OBVIOUS
  <1>3. /\ d.from = from /\ d.to = to /\ d.weight = maximum /\ d.source = source
        /\ f.from = to /\ f.to = from /\ f.weight = lower /\ f.source = source
    BY <1>2
  <1>4. S = {e \in {d, f} : e.weight # Missing}
    BY <1>1, <1>2 DEF DifferenceEdges
  <1>5. /\ minimum = Missing => lower = Missing
        /\ minimum # Missing => minimum \in Int /\ lower = -minimum /\ lower \in Int /\ lower # Missing
    BY <1>1, MissingIsNone
  <1>6. \A e : e \in S <=> (e = d /\ maximum # Missing) \/ (e = f /\ minimum # Missing)
    BY <1>3, <1>4, <1>5
  <1>7. IsFiniteSet(S)
    <2>1. IsFiniteSet({d}) /\ IsFiniteSet({f})
      BY FS_Singleton
    <2>2. IsFiniteSet({d} \cup {f})
      BY <2>1, FS_Union
    <2>3. S \in SUBSET ({d} \cup {f})
      BY <1>4
    <2>. QED
      BY <2>2, <2>3, FS_Subset
  <1>8. maximum # Missing => d \in Edge
    BY <1>2 DEF Edge
  <1>9. minimum # Missing => f \in Edge
    BY <1>2, <1>5 DEF Edge
  <1>10. \A e \in S : e \in Edge /\ e.from \in N /\ e.to \in N
    BY <1>3, <1>6, <1>8, <1>9
  <1>11. ASSUME NEW s \in [N -> Int]
         PROVE  (\A e \in S : s[e.to] - s[e.from] =< e.weight)
                <=> /\ maximum # Missing => s[to] - s[from] =< maximum
                    /\ minimum # Missing => minimum =< s[to] - s[from]
    <2>1. PICK x, y : x = s[from] /\ y = s[to]
      OBVIOUS
    <2>2. x \in Int /\ y \in Int
      BY <2>1
    <2>3. minimum # Missing => (x - y =< lower <=> minimum =< y - x)
      BY <1>5, <2>2
    <2>4. (\A e \in S : s[e.to] - s[e.from] =< e.weight)
          <=> /\ maximum # Missing => y - x =< maximum
              /\ minimum # Missing => x - y =< lower
      BY <1>3, <1>6, <2>1
    <2>. QED
      BY <2>1, <2>3, <2>4
  <1>. QED
    BY <1>3, <1>5, <1>6, <1>7, <1>10, <1>11 DEF Bounding

\* A finite set of edges over origins and points, in order, is a compiled graph.
LEMMA GraphCompiles ==
    ASSUME NEW N, IsFiniteSet(N), \A n \in N : n \in Int /\ (IsOrigin(n) \/ n \in Nat \ {0}),
           \A n \in N : n > 0 => n \in ObjectIds,
           NEW S, IsFiniteSet(S), \A e \in S : e \in Edge /\ e.from \in N /\ e.to \in N,
           NEW graph, graph.nodes = N, graph.edges = Sorted(S)
    PROVE  IsCompiled(graph) /\ EdgesOf(graph) = S
  <1>1. Sorted(S) \in Seq(S) /\ Listed(Sorted(S)) = S
    BY SortedSays
  <1>2. EdgesOf(graph) = S
    BY <1>1 DEF EdgesOf, Listed
  <1>3. graph.edges \in Seq(S)
    BY <1>1
  <1>4. S \subseteq Edge
    OBVIOUS
  <1>5. graph.edges \in Seq(Edge)
    BY <1>3, <1>4, SeqMonotonic
  <1>6. IsGraph(graph)
    BY <1>2 DEF IsGraph, Edge
  <1>7. IsNetwork(graph)
    BY <1>3, <1>6 DEF IsNetwork
  <1>8. PointNodes(graph) \subseteq ObjectIds
    BY DEF PointNodes
  <1>. QED
    BY <1>2, <1>5, <1>7, <1>8 DEF IsCompiled, IsQueryGraph

\* What is compiled: some points, each on an axis, intervals, and coordinates and
\* constraints that are about them.
IsState(state) ==
    /\ \A S \in {state.points, state.intervals, state.coordinates, state.constraints} : IsFiniteSet(S)
    /\ \A p \in state.points : p.id \in ObjectIds /\ p.axis \in Axes
    /\ \A i \in state.intervals : {i.start, i.end} \subseteq Ids(state.points) /\ i.id \in ObjectIds
    /\ \A a \in state.coordinates :
           a.point \in Ids(state.points) /\ a.id \in ObjectIds /\ a.bounds \in BoundChoices
    /\ \A a \in state.constraints :
           {a.from, a.to} \subseteq Ids(state.points) /\ a.id \in ObjectIds /\ a.bounds \in BoundChoices

\* The axis of a point, and the edges of the three kinds.
AxisIn(state, p) == (CHOOSE q \in state.points : q.id = p).axis

CoordinateEdges(state, a) ==
    DifferenceEdges(AxisIn(state, a.point), a.point, a.bounds.minimum, a.bounds.maximum, <<3, a.id>>)

IntervalEdges(i) == DifferenceEdges(i.start, i.end, 1, Missing, <<0, i.id>>)

ConstraintEdges(a) == DifferenceEdges(a.from, a.to, a.bounds.minimum, a.bounds.maximum, <<3, a.id>>)

\* buildGraph in these terms.
LEMMA BuildGraphIs ==
    ASSUME NEW state
    PROVE  BuildGraph(state) =
               [nodes |-> Ids(state.points) \cup {AxisIn(state, a.point) : a \in state.coordinates},
                edges |-> Sorted(UNION ({CoordinateEdges(state, a) : a \in state.coordinates}
                                        \cup {IntervalEdges(i) : i \in state.intervals}
                                        \cup {ConstraintEdges(a) : a \in state.constraints}))]
  BY DEF BuildGraph, AxisIn, CoordinateEdges, IntervalEdges, ConstraintEdges

\* The graph that buildGraph makes is compiled, over the points and more, and puts the end
\* of each interval after its start.
LEMMA BuildGraphCompiles ==
    ASSUME NEW state, IsState(state)
    PROVE  /\ IsCompiled(BuildGraph(state))
           /\ Ids(state.points) \subseteq BuildGraph(state).nodes
           /\ \A i \in state.intervals : \E e \in EdgesOf(BuildGraph(state)) :
                  e.from = i.end /\ e.to = i.start /\ e.weight = -1
  <1>1. PICK P, A : P = Ids(state.points) /\ A = {AxisIn(state, a.point) : a \in state.coordinates}
    OBVIOUS
  <1>2. PICK N : N = P \cup A
    OBVIOUS
  <1>3. /\ IsFiniteSet(state.points) /\ IsFiniteSet(state.intervals)
        /\ IsFiniteSet(state.coordinates) /\ IsFiniteSet(state.constraints)
    BY DEF IsState
  <1>4. IsFiniteSet(P)
    <2>1. PICK f : f = [p \in state.points |-> p.id]
      OBVIOUS
    <2>2. DOMAIN f = state.points /\ f = [p \in state.points |-> f[p]]
          /\ \A y : y \in P <=> \E p \in state.points : y = f[p]
      BY <1>1, <2>1 DEF Ids
    <2>. QED
      BY <1>3, <2>2, ImageFinite
  <1>5. IsFiniteSet(A)
    <2>1. PICK f : f = [a \in state.coordinates |-> AxisIn(state, a.point)]
      OBVIOUS
    <2>2. DOMAIN f = state.coordinates /\ f = [a \in state.coordinates |-> f[a]]
          /\ \A y : y \in A <=> \E a \in state.coordinates : y = f[a]
      BY <1>1, <2>1
    <2>. QED
      BY <1>3, <2>2, ImageFinite
  <1>6. \A p \in P : p \in ObjectIds /\ p \in Nat \ {0} /\ AxisIn(state, p) \in Axes
    <2>. SUFFICES ASSUME NEW p \in P PROVE p \in ObjectIds /\ AxisIn(state, p) \in Axes
      BY ReasonerConstants
    <2>1. \E q \in state.points : q.id = p
      BY <1>1 DEF Ids
    <2>. QED
      BY <2>1 DEF IsState, AxisIn
  <1>7. \A x \in Axes : IsOrigin(x) /\ x \in Int /\ ~(x > 0)
    <2>1. \A x \in Axes : x \in (ScheduleZero + 1)..(-1)
      BY ReasonerConstants
    <2>. QED
      BY <2>1 DEF IsOrigin, ScheduleZero
  <1>8. /\ IsFiniteSet(N) /\ N \subseteq Int
        /\ \A n \in N : n \in Int /\ (IsOrigin(n) \/ n \in Nat \ {0})
        /\ \A n \in N : n > 0 => n \in ObjectIds
    <2>1. \A n \in N : n \in P \/ n \in Axes
      BY <1>1, <1>2, <1>6 DEF IsState
    <2>2. IsFiniteSet(N)
      BY <1>2, <1>4, <1>5, FS_Union
    <2>. QED
      BY <1>6, <1>7, <2>1, <2>2
  <1>9. /\ \A r \in BoundChoices : r.minimum \in Int \cup {Missing} /\ r.maximum \in Int \cup {Missing}
        /\ \A x \in ObjectIds : x \in Int
    <2>1. \A r \in BoundChoices : {r.minimum, r.maximum} \subseteq Int \cup {Null}
      BY ProjectionConstants
    <2>. QED
      BY <2>1, ReasonerConstants
  <1>10. PICK C, I, K : /\ C = {CoordinateEdges(state, a) : a \in state.coordinates}
                        /\ I = {IntervalEdges(i) : i \in state.intervals}
                        /\ K = {ConstraintEdges(a) : a \in state.constraints}
    OBVIOUS
  <1>11. IsFiniteSet(C) /\ IsFiniteSet(I) /\ IsFiniteSet(K)
    <2>1. PICK f, g, h : /\ f = [a \in state.coordinates |-> CoordinateEdges(state, a)]
                         /\ g = [i \in state.intervals |-> IntervalEdges(i)]
                         /\ h = [a \in state.constraints |-> ConstraintEdges(a)]
      OBVIOUS
    <2>2. DOMAIN f = state.coordinates /\ f = [a \in state.coordinates |-> f[a]]
          /\ \A y : y \in C <=> \E a \in state.coordinates : y = f[a]
      BY <1>10, <2>1
    <2>3. DOMAIN g = state.intervals /\ g = [a \in state.intervals |-> g[a]]
          /\ \A y : y \in I <=> \E a \in state.intervals : y = g[a]
      BY <1>10, <2>1
    <2>4. DOMAIN h = state.constraints /\ h = [a \in state.constraints |-> h[a]]
          /\ \A y : y \in K <=> \E a \in state.constraints : y = h[a]
      BY <1>10, <2>1
    <2>5. IsFiniteSet(C)
      BY <1>3, <2>2, ImageFinite
    <2>6. IsFiniteSet(I)
      BY <1>3, <2>3, ImageFinite
    <2>7. IsFiniteSet(K)
      BY <1>3, <2>4, ImageFinite
    <2>. QED
      BY <2>5, <2>6, <2>7
  <1>12. ASSUME NEW a \in state.coordinates
         PROVE  /\ IsFiniteSet(CoordinateEdges(state, a))
                /\ \A e \in CoordinateEdges(state, a) : e \in Edge /\ e.from \in N /\ e.to \in N
    <2>1. PICK x, y, m, n, o : /\ x = AxisIn(state, a.point) /\ y = a.point /\ m = a.bounds.minimum
                               /\ n = a.bounds.maximum /\ o = <<3, a.id>>
      OBVIOUS
    <2>2. /\ x \in N /\ y \in N /\ m \in Int \cup {Missing} /\ n \in Int \cup {Missing}
          /\ o \in Int \X Int
      BY <1>1, <1>2, <1>9, <2>1 DEF IsState
    <2>3. PICK S : S = DifferenceEdges(x, y, m, n, o)
      OBVIOUS
    <2>4. Bounding(S, N, x, y, m, n)
      BY <1>8, <2>2, <2>3, DifferenceSays
    <2>. QED
      BY <2>1, <2>3, <2>4 DEF CoordinateEdges, Bounding
  <1>13. ASSUME NEW i \in state.intervals
         PROVE  /\ IsFiniteSet(IntervalEdges(i))
                /\ \A e \in IntervalEdges(i) : e \in Edge /\ e.from \in N /\ e.to \in N
                /\ \E e \in IntervalEdges(i) : e.from = i.end /\ e.to = i.start /\ e.weight = -1
    <2>1. PICK x, y, m, n, o : x = i.start /\ y = i.end /\ m = 1 /\ n = Missing /\ o = <<0, i.id>>
      OBVIOUS
    <2>2. /\ x \in N /\ y \in N /\ m \in Int \cup {Missing} /\ n \in Int \cup {Missing}
          /\ o \in Int \X Int /\ m # Missing
      BY <1>1, <1>2, <1>9, <2>1, MissingIsNone DEF IsState
    <2>3. PICK S : S = DifferenceEdges(x, y, m, n, o)
      OBVIOUS
    <2>4. Bounding(S, N, x, y, m, n)
      BY <1>8, <2>2, <2>3, DifferenceSays
    <2>. QED
      BY <2>1, <2>2, <2>3, <2>4 DEF IntervalEdges, Bounding
  <1>14. ASSUME NEW a \in state.constraints
         PROVE  /\ IsFiniteSet(ConstraintEdges(a))
                /\ \A e \in ConstraintEdges(a) : e \in Edge /\ e.from \in N /\ e.to \in N
    <2>1. PICK x, y, m, n, o : /\ x = a.from /\ y = a.to /\ m = a.bounds.minimum
                               /\ n = a.bounds.maximum /\ o = <<3, a.id>>
      OBVIOUS
    <2>2. /\ x \in N /\ y \in N /\ m \in Int \cup {Missing} /\ n \in Int \cup {Missing}
          /\ o \in Int \X Int
      BY <1>1, <1>2, <1>9, <2>1 DEF IsState
    <2>3. PICK S : S = DifferenceEdges(x, y, m, n, o)
      OBVIOUS
    <2>4. Bounding(S, N, x, y, m, n)
      BY <1>8, <2>2, <2>3, DifferenceSays
    <2>. QED
      BY <2>1, <2>3, <2>4 DEF ConstraintEdges, Bounding
  <1>15. PICK S : S = UNION (C \cup I \cup K)
    OBVIOUS
  <1>16. IsFiniteSet(S)
    <2>1. IsFiniteSet(C \cup I \cup K)
      BY <1>11, FS_Union
    <2>2. \A T \in C \cup I \cup K : IsFiniteSet(T)
      BY <1>10, <1>12, <1>13, <1>14
    <2>. QED
      BY <1>15, <2>1, <2>2, FS_UNION
  <1>17. \A e \in S : e \in Edge /\ e.from \in N /\ e.to \in N
    BY <1>10, <1>12, <1>13, <1>14, <1>15
  <1>18. PICK graph : graph = BuildGraph(state)
    OBVIOUS
  <1>19. graph.nodes = N /\ graph.edges = Sorted(S)
    BY <1>1, <1>2, <1>10, <1>15, <1>18, BuildGraphIs
  <1>20. IsCompiled(graph) /\ EdgesOf(graph) = S
    BY <1>8, <1>16, <1>17, <1>19, GraphCompiles
  <1>21. \A i \in state.intervals : IntervalEdges(i) \subseteq S
    BY <1>10, <1>15
  <1>. QED
    BY <1>1, <1>2, <1>13, <1>18, <1>19, <1>20, <1>21

\* A graph is its nodes and its edges.
IsPair(graph) == graph = [nodes |-> graph.nodes, edges |-> graph.edges]

\* One step along the edges, in either direction.
NextTo(graph, S) ==
    {e.from : e \in {f \in EdgesOf(graph) : f.to \in S}}
    \cup {e.to : e \in {f \in EdgesOf(graph) : f.from \in S}}

\* The scope of a question is compiled too, over the nodes it is about and with the edges
\* between them.
LEMMA ScopeCompiles ==
    ASSUME NEW graph, IsCompiled(graph), NEW seeds, seeds \subseteq graph.nodes
    PROVE  /\ IsCompiled(ConnectedScope(graph, seeds))
           /\ IsPair(ConnectedScope(graph, seeds))
           /\ seeds \subseteq ConnectedScope(graph, seeds).nodes
           /\ \A e \in EdgesOf(graph) : e.from \in seeds /\ e.to \in seeds =>
                  e \in EdgesOf(ConnectedScope(graph, seeds))
  <1>1. PICK N, n : N = graph.nodes /\ n = Cardinality(graph.nodes)
    OBVIOUS
  <1>2. /\ IsNetwork(graph) /\ IsGraph(graph) /\ IsFiniteSet(N) /\ N \subseteq Int
        /\ \A x \in N : x \in Int /\ (IsOrigin(x) \/ x \in Nat \ {0})
        /\ \A x \in N : x > 0 => x \in ObjectIds
        /\ graph.edges \in Seq(Edge)
    BY <1>1 DEF IsCompiled, IsQueryGraph, IsNetwork, PointNodes
  <1>3. n \in Nat
    BY <1>1, <1>2, FS_CardinalityType
  <1>4. PICK F : F = [p \in (1..n) \X SUBSET N |-> p[2] \cup NextTo(graph, p[2])]
    OBVIOUS
  <1>5. \A S \in SUBSET N : S \cup NextTo(graph, S) \in SUBSET N
    BY <1>1, <1>2 DEF NextTo, IsGraph
  <1>6. /\ F \in [(1..n) \X SUBSET N -> SUBSET N]
        /\ \A i \in 1..n, S \in SUBSET N : F[<<i, S>>] = S \cup NextTo(graph, S)
    BY <1>4, <1>5
  <1>7. PICK h \in [0..n -> SUBSET N] : Iterate(h, n, seeds, F)
    BY <1>1, <1>3, <1>6, Iterates
  <1>8. h = [i \in 0..n |-> IF i = 0 THEN seeds ELSE h[i - 1] \cup NextTo(graph, h[i - 1])]
    <2>1. \A i \in 0..n : h[i] = IF i = 0 THEN seeds ELSE F[<<i, h[i - 1]>>]
      BY <1>7 DEF Iterate
    <2>2. \A i \in 0..n : i # 0 => i \in 1..n /\ i - 1 \in 0..n
      BY <1>3
    <2>3. \A i \in 0..n : h[i] = IF i = 0 THEN seeds ELSE h[i - 1] \cup NextTo(graph, h[i - 1])
      <3>. TAKE i \in 0..n
      <3>1. CASE i = 0
        BY <2>1, <3>1
      <3>2. CASE i # 0
        <4>1. i \in 1..n /\ h[i - 1] \in SUBSET N /\ h[i] = F[<<i, h[i - 1]>>]
          BY <1>7, <2>1, <2>2, <3>2
        <4>. QED
          BY <1>6, <3>2, <4>1
      <3>. QED
        BY <3>1, <3>2
    <2>. QED
      BY <1>7, <2>3
  <1>9. PICK g : g = CHOOSE f :
                     f = [i \in 0..n |-> IF i = 0 THEN seeds ELSE f[i - 1] \cup NextTo(graph, f[i - 1])]
    OBVIOUS
  <1>10. g = [i \in 0..n |-> IF i = 0 THEN seeds ELSE g[i - 1] \cup NextTo(graph, g[i - 1])]
    BY <1>8, <1>9
  <1>11. g[0] = seeds /\ \A i \in 1..n : g[i] = g[i - 1] \cup NextTo(graph, g[i - 1])
    <2>1. \A i \in 0..n : g[i] = IF i = 0 THEN seeds ELSE g[i - 1] \cup NextTo(graph, g[i - 1])
      BY <1>10, ZenonT(40)
    <2>2. 0 \in 0..n
      BY <1>3
    <2>3. \A i \in 1..n : i \in 0..n /\ i # 0
      BY <1>3
    <2>. QED
      BY <2>1, <2>2, <2>3, ZenonT(40)
  <1>12. PICK T : T = {i \in 0..n : seeds \subseteq g[i] /\ g[i] \in SUBSET N}
    OBVIOUS
  <1>13. 0 \in T
    BY <1>1, <1>3, <1>11, <1>12
  <1>14. \A i \in 1..n : i - 1 \in T => i \in T
    <2>. SUFFICES ASSUME NEW i \in 1..n, i - 1 \in T
                  PROVE  i \in T
      OBVIOUS
    <2>1. i \in 0..n /\ g[i] = g[i - 1] \cup NextTo(graph, g[i - 1])
      BY <1>3, <1>11
    <2>. QED
      BY <1>5, <1>12, <2>1
  <1>15. n \in T
    <2>1. 0..n \subseteq T
      BY <1>3, <1>13, <1>14, UpTo
    <2>. QED
      BY <1>3, <2>1
  <1>16. PICK M, scope : M = g[n] /\ scope = ConnectedScope(graph, seeds)
    OBVIOUS
  <1>17. PICK S : S = {e \in EdgesOf(graph) : e.from \in M /\ e.to \in M}
    OBVIOUS
  <1>18. scope = [nodes |-> M, edges |-> Sorted(S)]
    BY <1>1, <1>9, <1>16, <1>17 DEF ConnectedScope, NextTo
  <1>19. scope.nodes = M /\ scope.edges = Sorted(S)
    BY <1>18
  <1>20. M \in SUBSET N /\ seeds \subseteq M /\ IsFiniteSet(M)
    BY <1>2, <1>12, <1>15, <1>16, FS_Subset
  <1>21. IsFiniteSet(S)
    <2>1. S \in SUBSET EdgesOf(graph)
      BY <1>17
    <2>. QED
      BY <1>2, <2>1, EdgesFinite, FS_Subset
  <1>22. \A e \in S : e \in Edge /\ e.from \in M /\ e.to \in M
    <2>1. \A e \in EdgesOf(graph) : e \in Edge
      BY <1>2, ListedEdges, ElementOfSeq
    <2>. QED
      BY <1>17, <2>1
  <1>23. IsCompiled(scope) /\ EdgesOf(scope) = S
    <2>1. /\ \A x \in M : x \in Int /\ (IsOrigin(x) \/ x \in Nat \ {0})
          /\ \A x \in M : x > 0 => x \in ObjectIds
      BY <1>2, <1>20
    <2>. QED
      BY <1>19, <1>20, <1>21, <1>22, <2>1, GraphCompiles
  <1>24. \A e \in EdgesOf(graph) : e.from \in seeds /\ e.to \in seeds => e \in S
    BY <1>17, <1>20
  <1>25. IsPair(scope)
    BY <1>18, <1>19 DEF IsPair
  <1>. QED
    BY <1>16, <1>19, <1>20, <1>23, <1>24, <1>25

\* The events of a run are finitely many.
LEMMA EventsFinite ==
    ASSUME NEW run \in Seq(Event)
    PROVE  IsFiniteSet(Events(run))
  <1>1. PICK n : n = Len(run)
    OBVIOUS
  <1>2. n \in Nat /\ DOMAIN run = 1..n /\ run = [i \in 1..n |-> run[i]]
    BY <1>1, LenProperties
  <1>3. IsFiniteSet(1..n)
    <2>1. \A a, b \in Int : IsFiniteSet(a..b)
      BY FS_Interval
    <2>. QED
      BY <1>2, <2>1
  <1>4. \A y : y \in Events(run) <=> \E i \in 1..n : y = run[i]
    BY <1>2 DEF Events
  <1>. QED
    BY <1>2, <1>3, <1>4, ImageFinite

\* The projection of a run can be compiled.
LEMMA ProjectionCompiles ==
    ASSUME NEW run \in Seq(Event), NEW cut \in 0..Len(run), AllResolve(SubSeq(run, 1, cut)), NEW c
    PROVE  IsState(ProjectionOf(run, cut, c))
  <1>1. PICK prefix, state : prefix = SubSeq(run, 1, cut) /\ state = ProjectionOf(run, cut, c)
    OBVIOUS
  <1>2. prefix \in Seq(Event)
    <2>1. Len(run) \in Nat /\ \A i \in 1..cut : run[i] \in Event
      BY LenProperties, ElementOfSeq
    <2>2. cut \in Int /\ \A i \in 1..cut : i \in 1..Len(run)
      BY <2>1
    <2>. QED
      BY <1>1, <2>1, <2>2, SubSeqProperties
  <1>3. /\ state.points = {e \in Points(prefix) : e.context = c}
        /\ state.intervals = {e \in Intervals(prefix) : e.context = c}
        /\ state.coordinates \subseteq
               {a \in Assertions(prefix) : a.context = c /\ a.type = "coordinate"}
        /\ state.constraints \subseteq
               {a \in Assertions(prefix) : a.context = c /\ a.type = "constraint"}
    BY <1>1 DEF ProjectionOf, Active
  <1>4. IsFiniteSet(Events(prefix)) /\ \A e \in Events(prefix) : e \in Event
    BY <1>2, EventsFinite, EventsAreEvents
  <1>5. \A S \in {state.points, state.intervals, state.coordinates, state.constraints} :
            S \in SUBSET Events(prefix)
    BY <1>3 DEF Points, Intervals, Assertions
  <1>6. \A S \in {state.points, state.intervals, state.coordinates, state.constraints} : IsFiniteSet(S)
    BY <1>4, <1>5, FS_Subset
  <1>7. \A p \in state.points : p.id \in ObjectIds /\ p.axis \in Axes
    BY <1>3, <1>4, EventShapes DEF Points, PointEvent
  <1>8. AllResolve(prefix)
    BY <1>1
  <1>9. /\ \A x : PointIn(prefix, x, c) => x \in Ids(state.points)
        /\ \A x, y : JoinedIn(prefix, x, y, c) => x \in Ids(state.points) /\ y \in Ids(state.points)
    BY <1>3 DEF PointIn, JoinedIn, Ids
  <1>10. \A i \in state.intervals : {i.start, i.end} \subseteq Ids(state.points) /\ i.id \in ObjectIds
    <2>1. \A i \in state.intervals : i.id \in ObjectIds
      BY <1>3, <1>4, EventShapes DEF Intervals, IntervalEvent
    <2>2. \A i \in state.intervals : JoinedIn(prefix, i.start, i.end, c)
      BY <1>3, <1>8 DEF AllResolve
    <2>. QED
      BY <1>9, <2>1, <2>2
  <1>11. \A a \in state.coordinates :
             a.point \in Ids(state.points) /\ a.id \in ObjectIds /\ a.bounds \in BoundChoices
    <2>1. \A a \in state.coordinates : a \in CoordinateEvent
      BY <1>3, <1>4, EventShapes DEF Assertions
    <2>2. \A a \in state.coordinates : PointIn(prefix, a.point, c)
      BY <1>3, <1>8 DEF AllResolve
    <2>. QED
      BY <1>9, <2>1, <2>2 DEF CoordinateEvent
  <1>12. \A a \in state.constraints :
             /\ {a.from, a.to} \subseteq Ids(state.points)
             /\ a.id \in ObjectIds /\ a.bounds \in BoundChoices
    <2>1. \A a \in state.constraints : a \in ConstraintEvent
      BY <1>3, <1>4, EventShapes DEF Assertions
    <2>2. \A a \in state.constraints : JoinedIn(prefix, a.from, a.to, c)
      BY <1>3, <1>8 DEF AllResolve
    <2>. QED
      BY <1>9, <2>1, <2>2 DEF ConstraintEvent
  <1>. QED
    BY <1>1, <1>6, <1>7, <1>10, <1>11, <1>12 DEF IsState

----------------------------------------------------------------------------
(* Relations                                                               *)

\* A difference between two nodes, with the bounds there are.
IsSpec(spec, N) ==
    /\ spec.from \in N /\ spec.to \in N
    /\ spec.minimum \in Int \cup {Missing} /\ spec.maximum \in Int \cup {Missing}

\* A labelling is within them.
IsMet(s, spec) ==
    /\ spec.maximum # Missing => s[spec.to] - s[spec.from] =< spec.maximum
    /\ spec.minimum # Missing => spec.minimum =< s[spec.to] - s[spec.from]

\* A list of such differences.
AreSpecs(specs, N) ==
    /\ \E n \in Nat : DOMAIN specs = 1..n
    /\ \A i \in DOMAIN specs : IsSpec(specs[i], N)

\* A labelling is within them all.
AreMet(s, specs) == \A i \in DOMAIN specs : IsMet(s, specs[i])

\* A graph that is extended by specs is compiled, and a schedule that meets the specs is one
\* of it.
LEMMA ExtendCompiles ==
    ASSUME NEW graph, IsCompiled(graph), IsPair(graph), NEW specs,
           AreSpecs(specs, graph.nodes)
    PROVE  /\ IsCompiled(ExtendGraph(graph, specs))
           /\ \A s : Schedule(s, graph) /\ AreMet(s, specs) => Schedule(s, ExtendGraph(graph, specs))
  <1>1. PICK n \in Nat : DOMAIN specs = 1..n
    BY DEF AreSpecs
  <1>2. PICK N : N = graph.nodes
    OBVIOUS
  <1>3. /\ IsNetwork(graph) /\ IsFiniteSet(N) /\ N \subseteq Int
        /\ \A x \in N : x \in Int /\ (IsOrigin(x) \/ x \in Nat \ {0})
        /\ \A x \in N : x > 0 => x \in ObjectIds
        /\ graph.edges \in Seq(Edge)
    BY <1>2 DEF IsCompiled, IsQueryGraph, IsNetwork, PointNodes
  <1>4. PICK f : f = [i \in 1..n |-> DifferenceEdges(specs[i].from, specs[i].to, specs[i].minimum,
                                                     specs[i].maximum, <<1, i>>)]
    OBVIOUS
  <1>5. PICK D : D = {f[i] : i \in 1..n}
    OBVIOUS
  <1>6. ASSUME NEW i \in 1..n
        PROVE  Bounding(f[i], N, specs[i].from, specs[i].to, specs[i].minimum, specs[i].maximum)
    <2>1. PICK x, y, m, k, o : /\ x = specs[i].from /\ y = specs[i].to /\ m = specs[i].minimum
                               /\ k = specs[i].maximum /\ o = <<1, i>>
      OBVIOUS
    <2>2. /\ x \in N /\ y \in N /\ m \in Int \cup {Missing} /\ k \in Int \cup {Missing}
          /\ o \in Int \X Int
      BY <1>1, <1>2, <2>1 DEF AreSpecs, IsSpec
    <2>3. PICK S : S = DifferenceEdges(x, y, m, k, o)
      OBVIOUS
    <2>4. Bounding(S, N, x, y, m, k)
      BY <1>3, <2>2, <2>3, DifferenceSays
    <2>. QED
      BY <1>4, <2>1, <2>3, <2>4
  <1>7. \A i \in 1..n : /\ IsFiniteSet(f[i])
                        /\ \A e \in f[i] : e \in Edge /\ e.from \in N /\ e.to \in N
    BY <1>6 DEF Bounding
  <1>8. IsFiniteSet(UNION D)
    <2>1. IsFiniteSet(1..n)
      <3>1. \A a, b \in Int : IsFiniteSet(a..b)
        BY FS_Interval
      <3>. QED
        BY <3>1
    <2>2. DOMAIN f = 1..n /\ f = [i \in 1..n |-> f[i]] /\ \A y : y \in D <=> \E i \in 1..n : y = f[i]
      BY <1>4, <1>5
    <2>3. IsFiniteSet(D)
      BY <2>1, <2>2, ImageFinite
    <2>4. \A T \in D : IsFiniteSet(T)
      BY <1>5, <1>7
    <2>. QED
      BY <2>3, <2>4, FS_UNION
  <1>9. PICK S, candidate : S = EdgesOf(graph) \cup UNION D /\ candidate = ExtendGraph(graph, specs)
    OBVIOUS
  <1>10. IsFiniteSet(S)
    BY <1>3, <1>8, <1>9, EdgesFinite, FS_Union
  <1>11. \A e \in EdgesOf(graph) : e \in Edge /\ e.from \in N /\ e.to \in N
    <2>1. \A e \in EdgesOf(graph) : e \in Edge
      BY <1>3, ListedEdges, ElementOfSeq
    <2>. QED
      BY <1>2, <1>3, <2>1 DEF IsNetwork, IsGraph
  <1>12. \A e \in S : e \in Edge /\ e.from \in N /\ e.to \in N
    BY <1>5, <1>7, <1>9, <1>11
  <1>13. candidate = [graph EXCEPT !.edges = Sorted(S)]
    <2>1. D = {DifferenceEdges(specs[i].from, specs[i].to, specs[i].minimum, specs[i].maximum,
                               <<1, i>>) : i \in DOMAIN specs}
      BY <1>1, <1>4, <1>5
    <2>. QED
      BY <1>9, <2>1 DEF ExtendGraph
  <1>14. candidate.nodes = N /\ candidate.edges = Sorted(S)
    <2>1. PICK e, t : e = graph.edges /\ t = Sorted(S)
      OBVIOUS
    <2>2. graph = [nodes |-> N, edges |-> e] /\ candidate = [graph EXCEPT !.edges = t]
      BY <1>2, <1>13, <2>1 DEF IsPair
    <2>. QED
      BY <2>1, <2>2
  <1>15. IsCompiled(candidate) /\ EdgesOf(candidate) = S
    BY <1>3, <1>10, <1>12, <1>14, GraphCompiles
  <1>16. ASSUME NEW s, Schedule(s, graph), AreMet(s, specs)
         PROVE  Schedule(s, candidate)
    <2>1. s \in [N -> Int] /\ \A e \in EdgesOf(graph) : s[e.to] - s[e.from] =< e.weight
      BY <1>2, <1>16 DEF Schedule, Satisfies
    <2>2. ASSUME NEW i \in 1..n
          PROVE  \A e \in f[i] : s[e.to] - s[e.from] =< e.weight
      <3>1. /\ specs[i].maximum # Missing => s[specs[i].to] - s[specs[i].from] =< specs[i].maximum
            /\ specs[i].minimum # Missing => specs[i].minimum =< s[specs[i].to] - s[specs[i].from]
        BY <1>1, <1>16 DEF AreMet, IsMet
      <3>2. Bounding(f[i], N, specs[i].from, specs[i].to, specs[i].minimum, specs[i].maximum)
        BY <1>6
      <3>. QED
        BY <2>1, <3>1, <3>2, Zenon DEF Bounding
    <2>3. \A e \in S : s[e.to] - s[e.from] =< e.weight
      BY <1>5, <1>9, <2>1, <2>2
    <2>. QED
      BY <1>14, <1>15, <2>1, <2>3 DEF Schedule, Satisfies
  <1>. QED
    BY <1>9, <1>15, <1>16

\* What the specs of relations say.
LEMMA SpecsSay ==
    ASSUME NEW N, NEW x \in N, NEW y \in N
    PROVE  /\ IsSpec(LessThan(x, y), N) /\ IsSpec(EqualTo(x, y), N)
           /\ \A s \in [N -> Int] : /\ s[x] < s[y] => IsMet(s, LessThan(x, y))
                                    /\ s[x] = s[y] => IsMet(s, EqualTo(x, y))
  <1>1. PICK d, e : d = LessThan(x, y) /\ e = EqualTo(x, y)
    OBVIOUS
  <1>2. /\ d.from = x /\ d.to = y /\ d.minimum = 1 /\ d.maximum = Missing
        /\ e.from = x /\ e.to = y /\ e.minimum = 0 /\ e.maximum = 0
    BY <1>1 DEF LessThan, EqualTo
  <1>3. IsSpec(d, N) /\ IsSpec(e, N)
    BY <1>2 DEF IsSpec
  <1>4. ASSUME NEW s \in [N -> Int]
        PROVE  (s[x] < s[y] => IsMet(s, d)) /\ (s[x] = s[y] => IsMet(s, e))
    <2>1. s[x] \in Int /\ s[y] \in Int
      OBVIOUS
    <2>2. s[x] < s[y] => 1 =< s[y] - s[x]
      BY <2>1
    <2>3. s[x] = s[y] => s[y] - s[x] = 0
      BY <2>1
    <2>. QED
      BY <1>2, <2>1, <2>2, <2>3 DEF IsMet
  <1>. QED
    BY <1>1, <1>3, <1>4

\* One spec is a list of specs.
LEMMA OneSpec ==
    ASSUME NEW N, NEW a, IsSpec(a, N), NEW t, t = <<a>>
    PROVE  AreSpecs(t, N) /\ \A s : IsMet(s, a) => AreMet(s, t)
  <1>1. DOMAIN t = 1..1 /\ t[1] = a
    OBVIOUS
  <1>2. 1 \in Nat /\ \A i \in 1..1 : i = 1
    OBVIOUS
  <1>. QED
    BY <1>1, <1>2, Zenon DEF AreSpecs, AreMet

\* Two specs are a list of specs.
LEMMA TwoSpecs ==
    ASSUME NEW N, NEW a, NEW b, IsSpec(a, N), IsSpec(b, N), NEW t, t = <<a, b>>
    PROVE  AreSpecs(t, N) /\ \A s : IsMet(s, a) /\ IsMet(s, b) => AreMet(s, t)
  <1>1. DOMAIN t = 1..2 /\ t[1] = a /\ t[2] = b
    OBVIOUS
  <1>2. 2 \in Nat /\ \A i \in 1..2 : i = 1 \/ i = 2
    OBVIOUS
  <1>. QED
    BY <1>1, <1>2, Zenon DEF AreSpecs, AreMet

\* Three specs are a list of specs.
LEMMA ThreeSpecs ==
    ASSUME NEW N, NEW a, NEW b, NEW c, IsSpec(a, N), IsSpec(b, N), IsSpec(c, N),
           NEW t, t = <<a, b, c>>
    PROVE  AreSpecs(t, N) /\ \A s : IsMet(s, a) /\ IsMet(s, b) /\ IsMet(s, c) => AreMet(s, t)
  <1>1. DOMAIN t = 1..3 /\ t[1] = a /\ t[2] = b /\ t[3] = c
    OBVIOUS
  <1>2. 3 \in Nat /\ \A i \in 1..3 : i = 1 \/ i = 2 \/ i = 3
    OBVIOUS
  <1>. QED
    BY <1>1, <1>2, Zenon DEF AreSpecs, AreMet

\* Specs of relations that every schedule of a graph leaves one of.
LeaveOne(specs, n, graph) ==
    /\ \A i \in 1..n : AreSpecs(specs[i], graph.nodes)
    /\ \A s : Schedule(s, graph) => \E i \in 1..n : AreMet(s, specs[i])

\* One of two points is before the other, or they are equal.
LEMMA PointsRelate ==
    ASSUME NEW graph, IsGraph(graph), graph.nodes \subseteq Int,
           NEW x \in graph.nodes, NEW y \in graph.nodes, NEW specs,
           \A i \in 1..3 : specs[i] = PointRelationSpecs(x, y, PointRelations[i])
    PROVE  LeaveOne(specs, 3, graph)
  <1>1. /\ PointRelationSpecs(x, y, "before") = <<LessThan(x, y)>>
        /\ PointRelationSpecs(x, y, "equal") = <<EqualTo(x, y)>>
        /\ PointRelationSpecs(x, y, "after") = <<LessThan(y, x)>>
    BY DEF PointRelationSpecs
  <1>2. /\ PointRelations[1] = "before" /\ PointRelations[2] = "equal"
        /\ PointRelations[3] = "after"
    BY DEF PointRelations
  <1>3. /\ 1 \in 1..3 /\ 2 \in 1..3 /\ 3 \in 1..3
        /\ \A i \in 1..3 : i = 1 \/ i = 2 \/ i = 3
    OBVIOUS
  <1>4. /\ specs[1] = <<LessThan(x, y)>> /\ specs[2] = <<EqualTo(x, y)>>
        /\ specs[3] = <<LessThan(y, x)>>
    BY <1>1, <1>2, <1>3
  <1>5. PICK N : N = graph.nodes
    OBVIOUS
  <1>6. PICK p, q, r : p = LessThan(x, y) /\ q = EqualTo(x, y) /\ r = LessThan(y, x)
    OBVIOUS
  <1>7. /\ IsSpec(p, N) /\ IsSpec(q, N) /\ IsSpec(r, N)
        /\ \A s \in [N -> Int] : /\ s[x] < s[y] => IsMet(s, p)
                                 /\ s[x] = s[y] => IsMet(s, q)
                                 /\ s[y] < s[x] => IsMet(s, r)
    BY <1>5, <1>6, SpecsSay
  <1>8. /\ AreSpecs(specs[1], N) /\ AreSpecs(specs[2], N) /\ AreSpecs(specs[3], N)
        /\ \A s : IsMet(s, p) => AreMet(s, specs[1])
        /\ \A s : IsMet(s, q) => AreMet(s, specs[2])
        /\ \A s : IsMet(s, r) => AreMet(s, specs[3])
    BY <1>4, <1>6, <1>7, OneSpec
  <1>9. ASSUME NEW s, Schedule(s, graph)
        PROVE  \E i \in 1..3 : AreMet(s, specs[i])
    <2>1. s \in [N -> Int] /\ s[x] \in Int /\ s[y] \in Int
      BY <1>5, <1>9 DEF Schedule
    <2>2. s[x] < s[y] \/ s[x] = s[y] \/ s[y] < s[x]
      BY <2>1
    <2>. QED
      BY <1>3, <1>7, <1>8, <2>1, <2>2, Zenon
  <1>. QED
    BY <1>3, <1>5, <1>8, <1>9 DEF LeaveOne

\* Two intervals are in one of the thirteen relations.
LEMMA IntervalsRelate ==
    ASSUME NEW graph, IsGraph(graph), graph.nodes \subseteq Int, NEW left, NEW right,
           \A i \in {left, right} :
               /\ i.start \in graph.nodes /\ i.end \in graph.nodes
               /\ \E e \in EdgesOf(graph) : e.from = i.end /\ e.to = i.start /\ e.weight = -1,
           NEW specs,
           \A i \in 1..13 : specs[i] = IntervalRelationSpecs(left, right, IntervalRelations[i])
    PROVE  LeaveOne(specs, 13, graph)
  <1>1. PICK N, a, b, c, d : /\ N = graph.nodes /\ a = left.start /\ b = left.end
                             /\ c = right.start /\ d = right.end
    OBVIOUS
  <1>2. a \in N /\ b \in N /\ c \in N /\ d \in N
    BY <1>1
  <1>3. IntervalRelationSpecs(left, right, "before") =
             <<LessThan(b, c)>>
    BY <1>1 DEF IntervalRelationSpecs
  <1>4. IntervalRelationSpecs(left, right, "meets") =
             <<EqualTo(b, c)>>
    BY <1>1 DEF IntervalRelationSpecs
  <1>5. IntervalRelationSpecs(left, right, "overlaps") =
             <<LessThan(a, c), LessThan(c, b), LessThan(b, d)>>
    BY <1>1 DEF IntervalRelationSpecs
  <1>6. IntervalRelationSpecs(left, right, "starts") =
             <<EqualTo(a, c), LessThan(b, d)>>
    BY <1>1 DEF IntervalRelationSpecs
  <1>7. IntervalRelationSpecs(left, right, "during") =
             <<LessThan(c, a), LessThan(b, d)>>
    BY <1>1 DEF IntervalRelationSpecs
  <1>8. IntervalRelationSpecs(left, right, "finishes") =
             <<LessThan(c, a), EqualTo(b, d)>>
    BY <1>1 DEF IntervalRelationSpecs
  <1>9. IntervalRelationSpecs(left, right, "equal") =
             <<EqualTo(a, c), EqualTo(b, d)>>
    BY <1>1 DEF IntervalRelationSpecs
  <1>10. IntervalRelationSpecs(left, right, "finished-by") =
             <<LessThan(a, c), EqualTo(b, d)>>
    BY <1>1 DEF IntervalRelationSpecs
  <1>11. IntervalRelationSpecs(left, right, "contains") =
             <<LessThan(a, c), LessThan(d, b)>>
    BY <1>1 DEF IntervalRelationSpecs
  <1>12. IntervalRelationSpecs(left, right, "started-by") =
             <<EqualTo(a, c), LessThan(d, b)>>
    BY <1>1 DEF IntervalRelationSpecs
  <1>13. IntervalRelationSpecs(left, right, "overlapped-by") =
             <<LessThan(c, a), LessThan(a, d), LessThan(d, b)>>
    BY <1>1 DEF IntervalRelationSpecs
  <1>14. IntervalRelationSpecs(left, right, "met-by") =
             <<EqualTo(a, d)>>
    BY <1>1 DEF IntervalRelationSpecs
  <1>15. IntervalRelationSpecs(left, right, "after") =
             <<LessThan(d, a)>>
    BY <1>1 DEF IntervalRelationSpecs
  <1>16. /\ IntervalRelations[1] = "before"
         /\ IntervalRelations[2] = "meets"
         /\ IntervalRelations[3] = "overlaps"
         /\ IntervalRelations[4] = "starts"
         /\ IntervalRelations[5] = "during"
         /\ IntervalRelations[6] = "finishes"
         /\ IntervalRelations[7] = "equal"
         /\ IntervalRelations[8] = "finished-by"
         /\ IntervalRelations[9] = "contains"
         /\ IntervalRelations[10] = "started-by"
         /\ IntervalRelations[11] = "overlapped-by"
         /\ IntervalRelations[12] = "met-by"
         /\ IntervalRelations[13] = "after"
    BY DEF IntervalRelations
  <1>17. /\ 1 \in 1..13 /\ 2 \in 1..13 /\ 3 \in 1..13 /\ 4 \in 1..13 /\ 5 \in 1..13
         /\ 6 \in 1..13 /\ 7 \in 1..13 /\ 8 \in 1..13 /\ 9 \in 1..13 /\ 10 \in 1..13 /\ 11 \in 1..13 /\ 12 \in 1..13 /\ 13 \in 1..13
         /\ \A i \in 1..13 :
                \/ i = 1 \/ i = 2 \/ i = 3 \/ i = 4 \/ i = 5 \/ i = 6 \/ i = 7
                \/ i = 8 \/ i = 9 \/ i = 10 \/ i = 11 \/ i = 12 \/ i = 13
    OBVIOUS
  <1>18. \A x, y \in N : /\ IsSpec(LessThan(x, y), N) /\ IsSpec(EqualTo(x, y), N)
                         /\ \A s \in [N -> Int] : /\ s[x] < s[y] => IsMet(s, LessThan(x, y))
                                                  /\ s[x] = s[y] => IsMet(s, EqualTo(x, y))
    BY SpecsSay
  <1>19. /\ AreSpecs(specs[1], N)
         /\ \A s \in [N -> Int] : s[b] < s[c] => AreMet(s, specs[1])
    <2>1. PICK p : p = LessThan(b, c)
      OBVIOUS
    <2>2. specs[1] = <<p>>
      BY <1>3, <1>16, <1>17, <2>1
    <2>3. IsSpec(p, N)
      BY <1>2, <1>18, <2>1
    <2>4. \A s \in [N -> Int] : /\ (s[b] < s[c] => IsMet(s, p))
      BY <1>2, <1>18, <2>1
    <2>. QED
      BY <2>2, <2>3, <2>4, OneSpec
  <1>20. /\ AreSpecs(specs[2], N)
         /\ \A s \in [N -> Int] : s[b] = s[c] => AreMet(s, specs[2])
    <2>1. PICK p : p = EqualTo(b, c)
      OBVIOUS
    <2>2. specs[2] = <<p>>
      BY <1>4, <1>16, <1>17, <2>1
    <2>3. IsSpec(p, N)
      BY <1>2, <1>18, <2>1
    <2>4. \A s \in [N -> Int] : /\ (s[b] = s[c] => IsMet(s, p))
      BY <1>2, <1>18, <2>1
    <2>. QED
      BY <2>2, <2>3, <2>4, OneSpec
  <1>21. /\ AreSpecs(specs[3], N)
         /\ \A s \in [N -> Int] : s[a] < s[c] /\ s[c] < s[b] /\ s[b] < s[d] => AreMet(s, specs[3])
    <2>1. PICK p, q, r : p = LessThan(a, c) /\ q = LessThan(c, b) /\ r = LessThan(b, d)
      OBVIOUS
    <2>2. specs[3] = <<p, q, r>>
      BY <1>5, <1>16, <1>17, <2>1
    <2>3. IsSpec(p, N) /\ IsSpec(q, N) /\ IsSpec(r, N)
      BY <1>2, <1>18, <2>1
    <2>4. \A s \in [N -> Int] : /\ (s[a] < s[c] => IsMet(s, p))
              /\ (s[c] < s[b] => IsMet(s, q))
              /\ (s[b] < s[d] => IsMet(s, r))
      BY <1>2, <1>18, <2>1
    <2>. QED
      BY <2>2, <2>3, <2>4, ThreeSpecs
  <1>22. /\ AreSpecs(specs[4], N)
         /\ \A s \in [N -> Int] : s[a] = s[c] /\ s[b] < s[d] => AreMet(s, specs[4])
    <2>1. PICK p, q : p = EqualTo(a, c) /\ q = LessThan(b, d)
      OBVIOUS
    <2>2. specs[4] = <<p, q>>
      BY <1>6, <1>16, <1>17, <2>1
    <2>3. IsSpec(p, N) /\ IsSpec(q, N)
      BY <1>2, <1>18, <2>1
    <2>4. \A s \in [N -> Int] : /\ (s[a] = s[c] => IsMet(s, p))
              /\ (s[b] < s[d] => IsMet(s, q))
      BY <1>2, <1>18, <2>1
    <2>. QED
      BY <2>2, <2>3, <2>4, TwoSpecs
  <1>23. /\ AreSpecs(specs[5], N)
         /\ \A s \in [N -> Int] : s[c] < s[a] /\ s[b] < s[d] => AreMet(s, specs[5])
    <2>1. PICK p, q : p = LessThan(c, a) /\ q = LessThan(b, d)
      OBVIOUS
    <2>2. specs[5] = <<p, q>>
      BY <1>7, <1>16, <1>17, <2>1
    <2>3. IsSpec(p, N) /\ IsSpec(q, N)
      BY <1>2, <1>18, <2>1
    <2>4. \A s \in [N -> Int] : /\ (s[c] < s[a] => IsMet(s, p))
              /\ (s[b] < s[d] => IsMet(s, q))
      BY <1>2, <1>18, <2>1
    <2>. QED
      BY <2>2, <2>3, <2>4, TwoSpecs
  <1>24. /\ AreSpecs(specs[6], N)
         /\ \A s \in [N -> Int] : s[c] < s[a] /\ s[b] = s[d] => AreMet(s, specs[6])
    <2>1. PICK p, q : p = LessThan(c, a) /\ q = EqualTo(b, d)
      OBVIOUS
    <2>2. specs[6] = <<p, q>>
      BY <1>8, <1>16, <1>17, <2>1
    <2>3. IsSpec(p, N) /\ IsSpec(q, N)
      BY <1>2, <1>18, <2>1
    <2>4. \A s \in [N -> Int] : /\ (s[c] < s[a] => IsMet(s, p))
              /\ (s[b] = s[d] => IsMet(s, q))
      BY <1>2, <1>18, <2>1
    <2>. QED
      BY <2>2, <2>3, <2>4, TwoSpecs
  <1>25. /\ AreSpecs(specs[7], N)
         /\ \A s \in [N -> Int] : s[a] = s[c] /\ s[b] = s[d] => AreMet(s, specs[7])
    <2>1. PICK p, q : p = EqualTo(a, c) /\ q = EqualTo(b, d)
      OBVIOUS
    <2>2. specs[7] = <<p, q>>
      BY <1>9, <1>16, <1>17, <2>1
    <2>3. IsSpec(p, N) /\ IsSpec(q, N)
      BY <1>2, <1>18, <2>1
    <2>4. \A s \in [N -> Int] : /\ (s[a] = s[c] => IsMet(s, p))
              /\ (s[b] = s[d] => IsMet(s, q))
      BY <1>2, <1>18, <2>1
    <2>. QED
      BY <2>2, <2>3, <2>4, TwoSpecs
  <1>26. /\ AreSpecs(specs[8], N)
         /\ \A s \in [N -> Int] : s[a] < s[c] /\ s[b] = s[d] => AreMet(s, specs[8])
    <2>1. PICK p, q : p = LessThan(a, c) /\ q = EqualTo(b, d)
      OBVIOUS
    <2>2. specs[8] = <<p, q>>
      BY <1>10, <1>16, <1>17, <2>1
    <2>3. IsSpec(p, N) /\ IsSpec(q, N)
      BY <1>2, <1>18, <2>1
    <2>4. \A s \in [N -> Int] : /\ (s[a] < s[c] => IsMet(s, p))
              /\ (s[b] = s[d] => IsMet(s, q))
      BY <1>2, <1>18, <2>1
    <2>. QED
      BY <2>2, <2>3, <2>4, TwoSpecs
  <1>27. /\ AreSpecs(specs[9], N)
         /\ \A s \in [N -> Int] : s[a] < s[c] /\ s[d] < s[b] => AreMet(s, specs[9])
    <2>1. PICK p, q : p = LessThan(a, c) /\ q = LessThan(d, b)
      OBVIOUS
    <2>2. specs[9] = <<p, q>>
      BY <1>11, <1>16, <1>17, <2>1
    <2>3. IsSpec(p, N) /\ IsSpec(q, N)
      BY <1>2, <1>18, <2>1
    <2>4. \A s \in [N -> Int] : /\ (s[a] < s[c] => IsMet(s, p))
              /\ (s[d] < s[b] => IsMet(s, q))
      BY <1>2, <1>18, <2>1
    <2>. QED
      BY <2>2, <2>3, <2>4, TwoSpecs
  <1>28. /\ AreSpecs(specs[10], N)
         /\ \A s \in [N -> Int] : s[a] = s[c] /\ s[d] < s[b] => AreMet(s, specs[10])
    <2>1. PICK p, q : p = EqualTo(a, c) /\ q = LessThan(d, b)
      OBVIOUS
    <2>2. specs[10] = <<p, q>>
      BY <1>12, <1>16, <1>17, <2>1
    <2>3. IsSpec(p, N) /\ IsSpec(q, N)
      BY <1>2, <1>18, <2>1
    <2>4. \A s \in [N -> Int] : /\ (s[a] = s[c] => IsMet(s, p))
              /\ (s[d] < s[b] => IsMet(s, q))
      BY <1>2, <1>18, <2>1
    <2>. QED
      BY <2>2, <2>3, <2>4, TwoSpecs
  <1>29. /\ AreSpecs(specs[11], N)
         /\ \A s \in [N -> Int] : s[c] < s[a] /\ s[a] < s[d] /\ s[d] < s[b] => AreMet(s, specs[11])
    <2>1. PICK p, q, r : p = LessThan(c, a) /\ q = LessThan(a, d) /\ r = LessThan(d, b)
      OBVIOUS
    <2>2. specs[11] = <<p, q, r>>
      BY <1>13, <1>16, <1>17, <2>1
    <2>3. IsSpec(p, N) /\ IsSpec(q, N) /\ IsSpec(r, N)
      BY <1>2, <1>18, <2>1
    <2>4. \A s \in [N -> Int] : /\ (s[c] < s[a] => IsMet(s, p))
              /\ (s[a] < s[d] => IsMet(s, q))
              /\ (s[d] < s[b] => IsMet(s, r))
      BY <1>2, <1>18, <2>1
    <2>. QED
      BY <2>2, <2>3, <2>4, ThreeSpecs
  <1>30. /\ AreSpecs(specs[12], N)
         /\ \A s \in [N -> Int] : s[a] = s[d] => AreMet(s, specs[12])
    <2>1. PICK p : p = EqualTo(a, d)
      OBVIOUS
    <2>2. specs[12] = <<p>>
      BY <1>14, <1>16, <1>17, <2>1
    <2>3. IsSpec(p, N)
      BY <1>2, <1>18, <2>1
    <2>4. \A s \in [N -> Int] : /\ (s[a] = s[d] => IsMet(s, p))
      BY <1>2, <1>18, <2>1
    <2>. QED
      BY <2>2, <2>3, <2>4, OneSpec
  <1>31. /\ AreSpecs(specs[13], N)
         /\ \A s \in [N -> Int] : s[d] < s[a] => AreMet(s, specs[13])
    <2>1. PICK p : p = LessThan(d, a)
      OBVIOUS
    <2>2. specs[13] = <<p>>
      BY <1>15, <1>16, <1>17, <2>1
    <2>3. IsSpec(p, N)
      BY <1>2, <1>18, <2>1
    <2>4. \A s \in [N -> Int] : /\ (s[d] < s[a] => IsMet(s, p))
      BY <1>2, <1>18, <2>1
    <2>. QED
      BY <2>2, <2>3, <2>4, OneSpec
  <1>32. ASSUME NEW s, Schedule(s, graph)
         PROVE  \E i \in 1..13 : AreMet(s, specs[i])
    <2>1. s \in [N -> Int] /\ \A e \in EdgesOf(graph) : s[e.to] - s[e.from] =< e.weight
      BY <1>1, <1>32 DEF Schedule, Satisfies
    <2>2. s[a] - s[b] =< -1 /\ s[c] - s[d] =< -1
      <3>1. PICK e \in EdgesOf(graph) : e.from = b /\ e.to = a /\ e.weight = -1
        BY <1>1
      <3>2. PICK f \in EdgesOf(graph) : f.from = d /\ f.to = c /\ f.weight = -1
        BY <1>1
      <3>. QED
        BY <2>1, <3>1, <3>2
    <2>3. PICK w, x, y, z : w = s[a] /\ x = s[b] /\ y = s[c] /\ z = s[d]
      OBVIOUS
    <2>4. w \in Int /\ x \in Int /\ y \in Int /\ z \in Int
      BY <1>2, <2>1, <2>3
    <2>5. w - x =< -1 /\ y - z =< -1
      BY <2>2, <2>3
    <2>6. \/ (x < y)
          \/ (x = y)
          \/ (w < y /\ y < x /\ x < z)
          \/ (w = y /\ x < z)
          \/ (y < w /\ x < z)
          \/ (y < w /\ x = z)
          \/ (w = y /\ x = z)
          \/ (w < y /\ x = z)
          \/ (w < y /\ z < x)
          \/ (w = y /\ z < x)
          \/ (y < w /\ w < z /\ z < x)
          \/ (w = z)
          \/ (z < w)
      BY <2>4, <2>5
    <2>7. CASE x < y
      BY <1>17, <1>19, <2>1, <2>3, <2>7
    <2>8. CASE x = y
      BY <1>17, <1>20, <2>1, <2>3, <2>8
    <2>9. CASE w < y /\ y < x /\ x < z
      BY <1>17, <1>21, <2>1, <2>3, <2>9
    <2>10. CASE w = y /\ x < z
      BY <1>17, <1>22, <2>1, <2>3, <2>10
    <2>11. CASE y < w /\ x < z
      BY <1>17, <1>23, <2>1, <2>3, <2>11
    <2>12. CASE y < w /\ x = z
      BY <1>17, <1>24, <2>1, <2>3, <2>12
    <2>13. CASE w = y /\ x = z
      BY <1>17, <1>25, <2>1, <2>3, <2>13
    <2>14. CASE w < y /\ x = z
      BY <1>17, <1>26, <2>1, <2>3, <2>14
    <2>15. CASE w < y /\ z < x
      BY <1>17, <1>27, <2>1, <2>3, <2>15
    <2>16. CASE w = y /\ z < x
      BY <1>17, <1>28, <2>1, <2>3, <2>16
    <2>17. CASE y < w /\ w < z /\ z < x
      BY <1>17, <1>29, <2>1, <2>3, <2>17
    <2>18. CASE w = z
      BY <1>17, <1>30, <2>1, <2>3, <2>18
    <2>19. CASE z < w
      BY <1>17, <1>31, <2>1, <2>3, <2>19
    <2>. QED
      BY <2>6, <2>7, <2>8, <2>9, <2>10, <2>11, <2>12, <2>13, <2>14, <2>15, <2>16, <2>17, <2>18, <2>19
  <1>33. \A i \in 1..13 : AreSpecs(specs[i], N)
    BY <1>17, <1>19, <1>20, <1>21, <1>22, <1>23, <1>24, <1>25, <1>26, <1>27, <1>28, <1>29, <1>30, <1>31
  <1>. QED
    BY <1>1, <1>32, <1>33 DEF LeaveOne

----------------------------------------------------------------------------
(* What is asked                                                           *)

\* The events of a prefix are among those of the run.
LEMMA PrefixEvents ==
    ASSUME NEW X, NEW run \in Seq(X), NEW cut \in 0..Len(run)
    PROVE  Events(SubSeq(run, 1, cut)) \subseteq Events(run)
  <1>1. PICK prefix : prefix = SubSeq(run, 1, cut)
    OBVIOUS
  <1>2. Len(run) \in Nat /\ DOMAIN run = 1..Len(run) /\ cut \in Int
    BY LenProperties
  <1>3. \A i \in 1..cut : i \in 1..Len(run) /\ run[i] \in X
    BY <1>2, ElementOfSeq
  <1>4. /\ prefix \in Seq(X)
        /\ Len(prefix) = IF 1 =< cut THEN cut - 1 + 1 ELSE 0
        /\ \A i \in 1..cut - 1 + 1 : prefix[i] = run[1 + i - 1]
    BY <1>1, <1>2, <1>3, SubSeqProperties
  <1>5. DOMAIN prefix = 1..cut /\ \A i \in 1..cut : prefix[i] = run[i]
    BY <1>2, <1>4, LenProperties
  <1>. QED
    BY <1>1, <1>2, <1>3, <1>5 DEF Events

\* A run of the kernel: its declarations and assertions have identifiers of their own, and
\* each refers to what was there before it.
IsValidRun(run) ==
    /\ run \in Seq(Event)
    /\ \A x, y \in Events(run) \ Retractions(run) : x.id = y.id => x = y
    /\ \A cut \in 0..Len(run) : AllResolve(SubSeq(run, 1, cut))

\* The interval of a question is the one of its context and cut.
LEMMA AskedInterval ==
    ASSUME NEW run, IsValidRun(run), NEW cut \in 0..Len(run), NEW c, NEW i,
           IntervalIn(SubSeq(run, 1, cut), i, c)
    PROVE  IntervalWith(run, i) \in ProjectionOf(run, cut, c).intervals
  <1>1. PICK prefix : prefix = SubSeq(run, 1, cut)
    OBVIOUS
  <1>2. PICK j \in Intervals(prefix) : j.id = i /\ j.context = c
    BY <1>1 DEF IntervalIn
  <1>3. Events(prefix) \subseteq Events(run)
    BY <1>1, PrefixEvents DEF IsValidRun
  <1>4. j \in Intervals(run)
    BY <1>2, <1>3 DEF Intervals
  <1>5. PICK k : k = IntervalWith(run, i)
    OBVIOUS
  <1>6. k \in Intervals(run) /\ k.id = i
    BY <1>2, <1>4, <1>5 DEF IntervalWith
  <1>7. \A x \in Intervals(run) : x \in Events(run) \ Retractions(run)
    BY DEF Intervals, Retractions
  <1>8. k = j
    BY <1>2, <1>4, <1>6, <1>7 DEF IsValidRun
  <1>9. ProjectionOf(run, cut, c).intervals = {e \in Intervals(prefix) : e.context = c}
    BY <1>1 DEF ProjectionOf
  <1>. QED
    BY <1>2, <1>5, <1>8, <1>9

\* What the graph of a question holds.
QueryHolds(run, q, graph) ==
    /\ IsCompiled(graph) /\ IsPair(graph)
    /\ q.type \in {"difference.bounds", "point.relations"} =>
           q.left \in graph.nodes /\ q.right \in graph.nodes
    /\ q.type = "interval.relations" =>
           \A i \in {IntervalWith(run, q.left), IntervalWith(run, q.right)} :
               /\ i.start \in graph.nodes /\ i.end \in graph.nodes
               /\ \E e \in EdgesOf(graph) : e.from = i.end /\ e.to = i.start /\ e.weight = -1

\* The graph of a valid question of a run holds that.
LEMMA QueryCompiles ==
    ASSUME NEW run, IsValidRun(run), NEW q \in Query, ValidQuery(run, q)
    PROVE  QueryHolds(run, q, QueryGraph(run, q))
  <1>1. PICK cut, c, prefix : cut = q.cut /\ c = q.context /\ prefix = SubSeq(run, 1, cut)
    OBVIOUS
  <1>2. run \in Seq(Event) /\ cut \in 0..Len(run)
    <2>1. run \in Seq(Event) /\ Len(run) \in Nat
      BY LenProperties DEF IsValidRun
    <2>2. cut \in 0..MaxEvents /\ MaxEvents \in Nat
      BY <1>1, ProjectionConstants DEF Query
    <2>3. cut =< Len(run)
      BY <1>1 DEF ValidQuery
    <2>. QED
      BY <2>1, <2>2, <2>3
  <1>3. PICK state, full, graph : /\ state = ProjectionOf(run, cut, c)
                                  /\ full = BuildGraph(state)
                                  /\ graph = QueryGraph(run, q)
    OBVIOUS
  <1>4. IsState(state)
    <2>1. AllResolve(SubSeq(run, 1, cut))
      BY <1>2 DEF IsValidRun
    <2>. QED
      BY <1>2, <1>3, <2>1, ProjectionCompiles
  <1>5. /\ IsCompiled(full)
        /\ Ids(state.points) \subseteq full.nodes
        /\ \A i \in state.intervals : \E e \in EdgesOf(full) :
               e.from = i.end /\ e.to = i.start /\ e.weight = -1
    BY <1>3, <1>4, BuildGraphCompiles
  <1>6. IsPair(full)
    BY <1>3, BuildGraphIs DEF IsPair
  <1>7. CASE q.type = "context.consistency"
    <2>1. graph = full
      BY <1>1, <1>3, <1>7 DEF QueryGraph
    <2>. QED
      BY <1>3, <1>5, <1>6, <1>7, <2>1 DEF QueryHolds
  <1>8. CASE q.type # "context.consistency"
    <2>1. PICK seeds : seeds = Seeds(run, q)
      OBVIOUS
    <2>2. graph = ConnectedScope(full, seeds)
      BY <1>1, <1>3, <1>8, <2>1 DEF QueryGraph
    <2>3. PICK i, j : i = IntervalWith(run, q.left) /\ j = IntervalWith(run, q.right)
      OBVIOUS
    <2>4. CASE q.type = "interval.relations"
      <3>1. seeds = {i.start, i.end, j.start, j.end}
        BY <2>1, <2>3, <2>4 DEF Seeds
      <3>2. IntervalIn(prefix, q.left, c) /\ IntervalIn(prefix, q.right, c)
        BY <1>1, <2>4 DEF ValidQuery
      <3>3. i \in state.intervals /\ j \in state.intervals
        BY <1>1, <1>2, <1>3, <2>3, <3>2, AskedInterval
      <3>4. seeds \subseteq full.nodes
        BY <1>4, <1>5, <3>1, <3>3 DEF IsState
      <3>5. /\ IsCompiled(graph) /\ IsPair(graph) /\ seeds \subseteq graph.nodes
            /\ \A e \in EdgesOf(full) : e.from \in seeds /\ e.to \in seeds => e \in EdgesOf(graph)
        BY <1>5, <2>2, <3>4, ScopeCompiles
      <3>6. \A k \in {i, j} :
                /\ k.start \in graph.nodes /\ k.end \in graph.nodes
                /\ \E e \in EdgesOf(graph) : e.from = k.end /\ e.to = k.start /\ e.weight = -1
        <4>. TAKE k \in {i, j}
        <4>1. k \in state.intervals /\ k.start \in seeds /\ k.end \in seeds
          BY <3>1, <3>3
        <4>2. PICK e \in EdgesOf(full) : e.from = k.end /\ e.to = k.start /\ e.weight = -1
          BY <1>5, <4>1
        <4>. QED
          BY <3>5, <4>1, <4>2
      <3>. QED
        BY <1>3, <2>3, <2>4, <3>5, <3>6 DEF QueryHolds
    <2>5. CASE q.type # "interval.relations"
      <3>1. q.type \in {"difference.bounds", "point.relations"}
        BY <1>8, <2>5 DEF Query, QueryTypes
      <3>2. seeds = {q.left, q.right}
        BY <2>1, <2>5 DEF Seeds
      <3>3. PointIn(prefix, q.left, c) /\ PointIn(prefix, q.right, c)
        BY <1>1, <3>1 DEF ValidQuery
      <3>4. \A x : PointIn(prefix, x, c) => x \in Ids(state.points)
        BY <1>1, <1>3 DEF PointIn, ProjectionOf, Ids
      <3>5. seeds \subseteq full.nodes
        BY <1>5, <3>2, <3>3, <3>4
      <3>6. IsCompiled(graph) /\ IsPair(graph) /\ seeds \subseteq graph.nodes
        BY <1>5, <2>2, <3>5, ScopeCompiles
      <3>. QED
        BY <1>3, <2>5, <3>2, <3>6 DEF QueryHolds
    <2>. QED
      BY <2>4, <2>5
  <1>. QED
    BY <1>7, <1>8

\* What is answered to a question of a valid run verifies of that run.
LEMMA AnsweredVerifies ==
    ASSUME NEW run, IsValidRun(run), NEW q \in Query, ValidQuery(run, q),
           NEW conclusion, conclusion = Reason(run, q), conclusion.reply.error = Null
    PROVE  Verify(run, q, conclusion)
  <1>1. PICK graph : graph = QueryGraph(run, q)
    OBVIOUS
  <1>2. QueryHolds(run, q, graph)
    BY <1>1, QueryCompiles
  <1>3. IsCompiled(graph) /\ IsPair(graph) /\ IsGraph(graph) /\ graph.nodes \subseteq Int
    BY <1>2 DEF QueryHolds, IsCompiled, IsQueryGraph, IsNetwork
  <1>4. PICK reply : reply = conclusion.reply
    OBVIOUS
  <1>5. /\ conclusion.query = q
        /\ conclusion.digest = ProjectionOf(run, q.cut, q.context).digest
        /\ reply = CASE q.type = "context.consistency" -> ReasonConsistency(graph)
                     [] q.type = "difference.bounds" -> ReasonBounds(graph, q.left, q.right)
                     [] OTHER -> ReasonRelations(graph, Relations(q), SpecsOf(run, q))
    BY <1>1, <1>4 DEF Reason
  <1>6. reply.error = Null
    BY <1>4
  <1>7. q.type \in QueryTypes
    BY DEF Query
  <1>8. CASE q.type = "context.consistency"
    <2>1. reply = ReasonConsistency(graph)
      BY <1>5, <1>8
    <2>2. VerifyConsistency(reply.result, reply.proof, graph)
      BY <1>3, <1>6, <2>1, ConsistencyAnswered
    <2>. QED
      BY <1>1, <1>4, <1>5, <1>8, <2>2 DEF Verify
  <1>9. CASE q.type = "difference.bounds"
    <2>1. reply = ReasonBounds(graph, q.left, q.right)
      BY <1>5, <1>9
    <2>2. q.left \in graph.nodes /\ q.right \in graph.nodes
      BY <1>2, <1>9 DEF QueryHolds
    <2>3. VerifyBounds(reply.result, reply.proof, graph, q.left, q.right)
      BY <1>3, <1>6, <2>1, <2>2, BoundsAnswered
    <2>. QED
      BY <1>1, <1>4, <1>5, <1>9, <2>3 DEF Verify
  <1>10. CASE q.type \in {"point.relations", "interval.relations"}
    <2>1. PICK relations, specs : relations = Relations(q) /\ specs = SpecsOf(run, q)
      OBVIOUS
    <2>2. reply = ReasonRelations(graph, relations, specs)
      BY <1>5, <1>10, <2>1
    <2>3. PICK n : n = IF q.type = "point.relations" THEN 3 ELSE 13
      OBVIOUS
    <2>4. /\ DOMAIN relations = 1..n /\ n \in Nat
          /\ relations = [i \in 1..n |-> relations[i]]
      <3>1. /\ DOMAIN PointRelations = 1..3
            /\ PointRelations = [i \in 1..3 |-> PointRelations[i]]
        BY DEF PointRelations
      <3>2. /\ DOMAIN IntervalRelations = 1..13
            /\ IntervalRelations = [i \in 1..13 |-> IntervalRelations[i]]
        BY DEF IntervalRelations
      <3>. QED
        BY <2>1, <2>3, <3>1, <3>2 DEF Relations
    <2>5. PICK X : X = {relations[i] : i \in 1..n}
      OBVIOUS
    <2>6. relations \in Seq(X)
      <3>1. relations \in [1..n -> X]
        BY <2>4, <2>5
      <3>. QED
        BY <2>4, <3>1, SeqDef
    <2>7. \A i \in 1..n : specs[i] = RelationSpecs(run, q, relations[i])
      BY <2>1, <2>4 DEF SpecsOf
    <2>8. LeaveOne(specs, n, graph)
      <3>1. CASE q.type = "point.relations"
        <4>1. PICK x, y : x = q.left /\ y = q.right
          OBVIOUS
        <4>2. x \in graph.nodes /\ y \in graph.nodes
          BY <1>2, <3>1, <4>1 DEF QueryHolds
        <4>3. \A i \in 1..3 : specs[i] = PointRelationSpecs(x, y, PointRelations[i])
          BY <2>1, <2>3, <2>7, <3>1, <4>1 DEF RelationSpecs, Relations
        <4>. QED
          BY <1>3, <2>3, <3>1, <4>2, <4>3, PointsRelate
      <3>2. CASE q.type = "interval.relations"
        <4>1. PICK x, y : x = IntervalWith(run, q.left) /\ y = IntervalWith(run, q.right)
          OBVIOUS
        <4>2. \A i \in {x, y} :
                  /\ i.start \in graph.nodes /\ i.end \in graph.nodes
                  /\ \E e \in EdgesOf(graph) : e.from = i.end /\ e.to = i.start /\ e.weight = -1
          BY <1>2, <3>2, <4>1 DEF QueryHolds
        <4>3. \A i \in 1..13 : specs[i] = IntervalRelationSpecs(x, y, IntervalRelations[i])
          BY <2>1, <2>3, <2>7, <3>2, <4>1 DEF RelationSpecs, Relations
        <4>. QED
          BY <1>3, <2>3, <3>2, <4>2, <4>3, IntervalsRelate
      <3>. QED
        BY <1>10, <3>1, <3>2
    <2>9. \A i \in 1..n :
              /\ IsCompiled(ExtendGraph(graph, specs[i]))
              /\ \A s : Schedule(s, graph) /\ AreMet(s, specs[i]) =>
                            Schedule(s, ExtendGraph(graph, specs[i]))
      <3>. TAKE i \in 1..n
      <3>1. PICK sp : sp = specs[i]
        OBVIOUS
      <3>2. AreSpecs(sp, graph.nodes)
        BY <2>8, <3>1 DEF LeaveOne
      <3>. QED
        BY <1>3, <3>1, <3>2, ExtendCompiles
    <2>10. (\E s : Schedule(s, graph)) =>
              \E i \in 1..n : \E s : Schedule(s, ExtendGraph(graph, specs[i]))
      BY <2>8, <2>9 DEF LeaveOne
    <2>11. VerifyRelations(reply.result, reply.proof, graph, relations, specs)
      BY <1>3, <1>6, <2>2, <2>4, <2>6, <2>9, <2>10, RelationsAnswered
    <2>. QED
      BY <1>1, <1>4, <1>5, <1>10, <2>1, <2>11 DEF Verify
  <1>. QED
    BY <1>7, <1>8, <1>9, <1>10 DEF QueryTypes

----------------------------------------------------------------------------
(* The run grows                                                           *)

\* A run longer by an event; an interval among its events has an identifier of its own.
Grown(run, next) ==
    \E e : next = Append(run, e) /\ (e.type = "interval" => e.id \notin TemporalIds(run))

\* Each step makes the run longer by such an event.
LEMMA StepGrows == Next => Grown(events, events')
  <1>1. ASSUME NEW id, NEW c, Declare(id, c)
        PROVE  Grown(events, events')
    <2>1. ASSUME NEW axis, DeclarePoint(id, c, axis)
          PROVE  Grown(events, events')
      BY <2>1 DEF DeclarePoint, Record, Grown
    <2>2. ASSUME NEW start, NEW end, DeclareInterval(id, c, start, end)
          PROVE  Grown(events, events')
      BY <2>2 DEF DeclareInterval, Record, Grown
    <2>. QED
      BY <1>1, <2>1, <2>2 DEF Declare
  <1>2. ASSUME NEW id, NEW c, NEW targets, AddAssertion(id, c, targets)
        PROVE  Grown(events, events')
    <2>1. ASSUME NEW p, NEW r, AssertCoordinate(id, c, p, r, targets)
          PROVE  Grown(events, events')
      BY <2>1 DEF AssertCoordinate, Record, Grown
    <2>2. ASSUME NEW p, NEW q, NEW r, AssertConstraint(id, c, p, q, r, targets)
          PROVE  Grown(events, events')
      BY <2>2 DEF AssertConstraint, Record, Grown
    <2>3. ASSUME NEW i, NEW p, NEW q, AssertFact(id, c, i, p, q, targets)
          PROVE  Grown(events, events')
      BY <2>3 DEF AssertFact, Record, Grown
    <2>. QED
      BY <1>2, <2>1, <2>2, <2>3 DEF AddAssertion
  <1>3. ASSUME NEW id, Retract(id)
        PROVE  Grown(events, events')
    BY <1>3 DEF Retract, Record, Grown
  <1>. QED
    BY <1>1, <1>2, <1>3 DEF Next, Add

\* A run is a sequence.
IsRun(run) == \E X : run \in Seq(X)

\* Growth leaves the earlier events, and the intervals that were declared.
LEMMA GrowthSays ==
    ASSUME NEW run, IsRun(run), NEW next, Grown(run, next)
    PROVE  /\ IsRun(next)
           /\ Len(run) \in Nat /\ Len(next) = Len(run) + 1
           /\ \A cut \in 0..Len(run) : SubSeq(next, 1, cut) = SubSeq(run, 1, cut)
           /\ \A i \in TemporalIds(run) : IntervalWith(next, i) = IntervalWith(run, i)
  <1>1. PICK Y : run \in Seq(Y)
    BY DEF IsRun
  <1>2. PICK e : next = Append(run, e) /\ (e.type = "interval" => e.id \notin TemporalIds(run))
    BY DEF Grown
  <1>3. PICK X : X = Y \cup {e}
    OBVIOUS
  <1>4. run \in Seq(X) /\ e \in X
    BY <1>1, <1>3, SeqMonotonic
  <1>5. /\ next \in Seq(X) /\ Len(next) = Len(run) + 1
        /\ \A i \in 1..Len(run) : next[i] = run[i]
        /\ next[Len(run) + 1] = e
    BY <1>2, <1>4, AppendProperties
  <1>6. Len(run) \in Nat /\ DOMAIN run = 1..Len(run) /\ DOMAIN next = 1..Len(run) + 1
    BY <1>4, <1>5, LenProperties
  <1>7. ASSUME NEW cut \in 0..Len(run)
        PROVE  SubSeq(next, 1, cut) = SubSeq(run, 1, cut)
    <2>1. /\ SubSeq(next, 1, cut) \in Seq(X) /\ SubSeq(run, 1, cut) \in Seq(X)
          /\ Len(SubSeq(next, 1, cut)) = cut /\ Len(SubSeq(run, 1, cut)) = cut
          /\ \A i \in 1..cut : SubSeq(next, 1, cut)[i] = next[i]
          /\ \A i \in 1..cut : SubSeq(run, 1, cut)[i] = run[i]
      <3>1. \A i \in 1..cut : next[i] \in X /\ run[i] \in X
        BY <1>4, <1>5, <1>6, ElementOfSeq
      <3>2. \A i \in 1..cut - 1 + 1 : 1 + i - 1 = i
        BY <1>6
      <3>3. cut \in Int /\ 1..cut - 1 + 1 = 1..cut /\ (IF 1 =< cut THEN cut - 1 + 1 ELSE 0) = cut
        BY <1>6
      <3>. QED
        BY <3>1, <3>2, <3>3, SubSeqProperties
    <2>2. \A i \in 1..cut : next[i] = run[i]
      BY <1>5, <1>6
    <2>. QED
      BY <2>1, <2>2, SeqEqual
  <1>8. Events(next) = Events(run) \cup {e}
    BY <1>5, <1>6 DEF Events
  <1>9. ASSUME NEW i \in TemporalIds(run)
        PROVE  IntervalWith(next, i) = IntervalWith(run, i)
    <2>1. \A j : j \in Intervals(next) /\ j.id = i <=> j \in Intervals(run) /\ j.id = i
      BY <1>2, <1>8 DEF Intervals
    <2>. QED
      BY <2>1 DEF IntervalWith
  <1>10. IsRun(next)
    BY <1>5 DEF IsRun
  <1>. QED
    BY <1>5, <1>6, <1>7, <1>9, <1>10

\* What verifies of a run verifies of a longer one.
LEMMA StaysVerified ==
    ASSUME NEW run, IsRun(run), NEW next, Grown(run, next), NEW q \in Query, NEW c,
           Verify(run, q, c)
    PROVE  Verify(next, q, c)
  <1>1. /\ Len(run) \in Nat /\ Len(next) = Len(run) + 1
        /\ \A cut \in 0..Len(run) : SubSeq(next, 1, cut) = SubSeq(run, 1, cut)
        /\ \A i \in TemporalIds(run) : IntervalWith(next, i) = IntervalWith(run, i)
    BY GrowthSays
  <1>2. q.cut \in 0..Len(run) /\ q.cut =< Len(next)
    <2>1. q.cut \in 0..MaxEvents /\ MaxEvents \in Nat
      BY ProjectionConstants DEF Query
    <2>2. q.cut =< Len(run)
      BY DEF Verify, ValidQuery
    <2>. QED
      BY <1>1, <2>1, <2>2
  <1>3. SubSeq(next, 1, q.cut) = SubSeq(run, 1, q.cut)
    BY <1>1, <1>2
  <1>4. ProjectionOf(next, q.cut, q.context) = ProjectionOf(run, q.cut, q.context)
    BY <1>3 DEF ProjectionOf
  <1>5. ValidQuery(next, q)
    BY <1>2, <1>3 DEF Verify, ValidQuery
  <1>6. q.type = "interval.relations" =>
            /\ IntervalWith(next, q.left) = IntervalWith(run, q.left)
            /\ IntervalWith(next, q.right) = IntervalWith(run, q.right)
    <2>. SUFFICES ASSUME q.type = "interval.relations"
                  PROVE  q.left \in TemporalIds(run) /\ q.right \in TemporalIds(run)
      BY <1>1
    <2>1. PICK prefix : prefix = SubSeq(run, 1, q.cut)
      OBVIOUS
    <2>2. IntervalIn(prefix, q.left, q.context) /\ IntervalIn(prefix, q.right, q.context)
      BY <2>1 DEF Verify, ValidQuery
    <2>3. Events(prefix) \subseteq Events(run)
      BY <1>2, <2>1, PrefixEvents DEF IsRun
    <2>. QED
      BY <2>2, <2>3 DEF IntervalIn, Intervals, TemporalIds, Retractions
  <1>7. QueryGraph(next, q) = QueryGraph(run, q)
    <2>1. q.type # "context.consistency" => Seeds(next, q) = Seeds(run, q)
      <3>1. CASE q.type # "interval.relations"
        BY <3>1 DEF Seeds
      <3>2. CASE q.type = "interval.relations"
        <4>1. \A i \in {q.left, q.right} : IntervalWith(next, i) = IntervalWith(run, i)
          BY <1>6, <3>2
        <4>2. {{IntervalWith(next, i).start, IntervalWith(next, i).end} : i \in {q.left, q.right}}
                  = {{IntervalWith(run, i).start, IntervalWith(run, i).end} : i \in {q.left, q.right}}
          BY <4>1
        <4>. QED
          BY <3>2, <4>2 DEF Seeds
      <3>. QED
        BY <3>1, <3>2
    <2>. QED
      BY <1>4, <2>1 DEF QueryGraph
  <1>8. q.type \notin {"context.consistency", "difference.bounds"} => SpecsOf(next, q) = SpecsOf(run, q)
    <2>1. q.type \in {"point.relations", "interval.relations"} =>
              \A relation : RelationSpecs(next, q, relation) = RelationSpecs(run, q, relation)
      BY <1>6 DEF RelationSpecs
    <2>2. q.type \in QueryTypes
      BY DEF Query
    <2>. QED
      BY <2>1, <2>2 DEF SpecsOf, QueryTypes
  <1>. QED
    <2>1. /\ c.query = q
          /\ c.digest = ProjectionOf(next, q.cut, q.context).digest
      BY <1>4 DEF Verify
    <2>2. q.type \in QueryTypes
      BY DEF Query
    <2>3. CASE q.type = "context.consistency"
      BY <1>5, <1>7, <2>1, <2>3 DEF Verify
    <2>4. CASE q.type = "difference.bounds"
      BY <1>5, <1>7, <2>1, <2>4 DEF Verify
    <2>5. CASE q.type \in {"point.relations", "interval.relations"}
      BY <1>5, <1>7, <1>8, <2>1, <2>5 DEF Verify
    <2>. QED
      BY <2>2, <2>3, <2>4, <2>5 DEF QueryTypes

\* An answer that verifies goes on verifying while the run grows: what it says is of
\* the events up to its cut, and no later event changes what those said.
VerifiedStays ==
    [][\A q \in Query : \A c : Verify(events, q, c) => Verify(events', q, c)]_vars

\* verifyTemporalConclusionV0Alpha3 accepts on every longer run what it accepted.
THEOREM AnswersStayVerified == ReasonerSpec => VerifiedStays
  <1> DEFINE Body == \A q \in Query : \A c : Verify(events, q, c) => Verify(events', q, c)
             Inv == IsRun(events)
  <1>1. ReasonerInit => Inv
    <2>1. <<>> \in Seq({})
      BY EmptySeq
    <2>. QED
      BY <2>1 DEF ReasonerInit, Init, IsRun
  <1>2. [ReasonerNext]_vars => Grown(events, events') \/ events' = events
    BY StepGrows DEF ReasonerNext, Ask, vars
  <1>3. Inv /\ [ReasonerNext]_vars => Inv'
    BY <1>2, GrowthSays
  <1>4. Inv /\ [ReasonerNext]_vars => Body
    BY <1>2, StaysVerified
  <1>5. Inv /\ [ReasonerNext]_vars => [Body]_vars
    BY <1>4
  <1>6. ReasonerSpec => [][Body]_vars
    <2>. HIDE DEF Body, Inv
    <2>. QED
      BY <1>1, <1>3, <1>5, PTL DEF ReasonerSpec
  <1>. QED
    BY <1>6, PTL DEF VerifiedStays

\* What a caller may hold: nothing, or an answer to a question that is an error or verifies.
MayHold(run, a) ==
    a # Null => a.query \in Query /\ (a.reply.error # Null \/ Verify(run, a.query, a))

\* Every answer that is no error verifies, at once and after the run has grown, whatever
\* the contexts, the assertions, their bounds and the question: the graph is compiled, what
\* is found has a witness or a path, one relation at least is possible, and the verifier
\* accepts all of it.
THEOREM AnswersVerified == ReasonerSpec => []AnswersVerify
  <1> DEFINE Inv == MayHold(events, answer)
             Valid == IsValidRun(events)
  <1>1. ReasonerInit => Inv
    BY DEF ReasonerInit, MayHold
  <1>2. ASSUME Valid, Inv, NEW q \in Query, Ask(q)
        PROVE  Inv'
    <2>1. /\ ValidQuery(events, q) /\ answer' = Reason(events, q) /\ events' = events
      BY <1>2 DEF Ask
    <2>2. PICK run, a : run = events /\ a = Reason(run, q)
      OBVIOUS
    <2>3. a.query = q
      BY <2>2 DEF Reason
    <2>4. a.reply.error = Null => Verify(run, q, a)
      BY <1>2, <2>1, <2>2, AnsweredVerifies
    <2>5. MayHold(run, a)
      BY <2>3, <2>4 DEF MayHold
    <2>. QED
      BY <2>1, <2>2, <2>5
  <1>3. ASSUME Valid, Inv, Next, UNCHANGED answer
        PROVE  Inv'
    <2>1. PICK run, next, a : run = events /\ next = events' /\ a = answer
      OBVIOUS
    <2>2. IsRun(run) /\ Grown(run, next)
      BY <1>3, <2>1, StepGrows DEF IsValidRun, IsRun
    <2>3. MayHold(run, a)
      BY <1>3, <2>1
    <2>4. a # Null /\ Verify(run, a.query, a) /\ a.query \in Query => Verify(next, a.query, a)
      BY <2>2, StaysVerified
    <2>5. MayHold(next, a)
      BY <2>3, <2>4 DEF MayHold
    <2>. QED
      BY <1>3, <2>1, <2>5
  <1>4. Valid /\ Inv /\ [ReasonerNext]_vars => Inv'
    <2>1. ASSUME Inv, UNCHANGED vars
          PROVE  Inv'
      BY <2>1 DEF vars
    <2>. QED
      BY <1>2, <1>3, <2>1 DEF ReasonerNext
  <1>5. ReasonerSpec => Spec
    <2>1. ReasonerInit => Init
      BY DEF ReasonerInit
    <2>2. [ReasonerNext]_vars => [Next]_events
      BY DEF ReasonerNext, Ask, vars
    <2>. QED
      BY <2>1, <2>2, PTL DEF ReasonerSpec, Spec
  <1>6. TypeOK /\ UniqueIds /\ PrefixesResolve => Valid
    BY DEF TypeOK, UniqueIds, PrefixesResolve, IsValidRun
  <1>7. Inv => AnswersVerify
    BY DEF MayHold, AnswersVerify
  <1>. QED
    <2>. HIDE DEF Inv, Valid
    <2>. QED
      BY <1>1, <1>4, <1>5, <1>6, <1>7, RunTyped, UniqueIdsCorrect, PrefixesCorrect, PTL
         DEF ReasonerSpec

=============================================================================
