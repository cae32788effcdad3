---------------------------- MODULE RenamesProofs ----------------------------
(***************************************************************************)
(* What an accepted rename does to the files, for any number of files, any *)
(* answer of the server, any text and any number of saves by others: its   *)
(* edits mean one thing, success is whole and failure honest.              *)
(*                                                                         *)
(* The first half is about the algorithm of Edits alone.  What its folds   *)
(* compute is found by induction over the places of a list, and that by    *)
(* the least place at which a claim would fail.                            *)
(***************************************************************************)
EXTENDS Renames, FiniteSetTheorems, SequenceTheorems, WellFoundedInduction, TLAPS

-----------------------------------------------------------------------------
(* Induction over the places of a list, and folds.                         *)

\* A set of numbers that is not empty has a least element.
LEMMA Least ==
    ASSUME NEW T, T \subseteq Nat, T # {}
    PROVE  \E x \in T : \A y \in T : x <= y
<1>1. \E R : IsWellFoundedOn(R, Nat) /\ \A x, y \in Nat : <<x, y>> \in R <=> x < y
  <2> DEFINE R == OpToRel(<, Nat)
  <2>1. IsWellFoundedOn(R, Nat)
    BY NatLessThanWellFounded
  <2>2. \A x, y \in Nat : <<x, y>> \in R <=> x < y
    BY DEF OpToRel
  <2> HIDE DEF R
  <2> QED
    BY <2>1, <2>2, Zenon
<1>2. PICK R : IsWellFoundedOn(R, Nat) /\ \A x, y \in Nat : <<x, y>> \in R <=> x < y
  BY <1>1, Zenon
<1>3. IsWellFoundedOn(R, Nat)
  BY <1>2
<1>4. PICK x \in T : \A y \in T : ~ (<<y, x>> \in R)
  BY <1>3, WFMin
<1>5. \A y \in T : y \in Nat /\ x \in Nat /\ ~(y < x)
  BY <1>2, <1>4, Zenon
<1> QED
  BY <1>5

\* Induction, for a set of numbers.
LEMMA SetInduction ==
    ASSUME NEW S, S \subseteq Nat, 0 \in S, \A n \in S : n + 1 \in S
    PROVE  S = Nat
<1> SUFFICES ASSUME S # Nat PROVE FALSE
    OBVIOUS
<1>1. PICK x \in Nat \ S : \A y \in Nat \ S : x <= y
  BY Least
<1>2. x # 0 /\ x - 1 \in Nat /\ x - 1 \in S
  BY <1>1
<1> QED
  BY <1>1, <1>2

\* The recursion of a fold, over the sets of places of a list.
Recurs(g, N, b, op) ==
    g = [S \in SUBSET (1 .. N) |-> IF S = {} THEN b ELSE op[Max(S)][g[S \ {Max(S)}]]]

LEMMA MaxOf ==
    ASSUME NEW n \in Nat
    PROVE  Max(1 .. n + 1) = n + 1 /\ \A S \in SUBSET (1 .. n + 1) : n + 1 \in S => Max(S) = n + 1
<1> SUFFICES ASSUME NEW S \in SUBSET (1 .. n + 1), n + 1 \in S PROVE Max(S) = n + 1
    <2>1. 1 .. n + 1 \in SUBSET (1 .. n + 1) /\ n + 1 \in 1 .. n + 1
      OBVIOUS
    <2> QED
      BY <2>1
<1>1. \A x \in S : x \in Nat /\ x <= n + 1
  OBVIOUS
<1>2. \A x \in S : (\A y \in S : x >= y) <=> x = n + 1
  BY <1>1
<1>3. Max(S) = CHOOSE x \in S : \A y \in S : x >= y
  BY DEF Max
<1> QED
  BY <1>2, <1>3

\* A fold over places is defined, and stays in the set its steps stay in.
LEMMA FoldsExist ==
    ASSUME NEW P, NEW b \in P, NEW N \in Nat, NEW op \in [1 .. N -> [P -> P]]
    PROVE  \E g : Recurs(g, N, b, op) /\ \A S \in SUBSET (1 .. N) : g[S] \in P
<1> DEFINE Good(g, n) == Recurs(g, n, b, op) /\ \A S \in SUBSET (1 .. n) : g[S] \in P
           Have == {n \in Nat : n <= N => \E g : Good(g, n)}
<1>1. 0 \in Have
  <2> DEFINE g == [S \in SUBSET (1 .. 0) |-> b]
  <2>1. \A S \in SUBSET (1 .. 0) : S = {}
    OBVIOUS
  <2>2. Good(g, 0)
    BY <2>1 DEF Recurs
  <2> QED
    BY <2>2
<1>2. ASSUME NEW n \in Have PROVE n + 1 \in Have
  <2> SUFFICES ASSUME n + 1 <= N PROVE \E g : Good(g, n + 1)
      OBVIOUS
  <2>1. n \in Nat /\ n + 1 \in Nat /\ n <= N /\ n + 1 \in 1 .. N
    OBVIOUS
  <2>2. PICK g : Good(g, n)
    BY <2>1
  <2> DEFINE h == [S \in SUBSET (1 .. n + 1) |->
                       IF n + 1 \in S THEN op[n + 1][g[S \ {n + 1}]] ELSE g[S]]
  <2>3. \A S \in SUBSET (1 .. n + 1) :
            /\ S \ {n + 1} \in SUBSET (1 .. n)
            /\ n + 1 \notin S => S \in SUBSET (1 .. n)
    BY <2>1
  <2>4. \A S \in SUBSET (1 .. n) : S \in SUBSET (1 .. n + 1) /\ n + 1 \notin S
    BY <2>1
  <2>5. \A S \in SUBSET (1 .. n) : h[S] = g[S]
    BY <2>4
  <2>6. op[n + 1] \in [P -> P]
    BY <2>1
  <2>7. \A S \in SUBSET (1 .. n + 1) : h[S] \in P
    BY <2>2, <2>3, <2>6
  <2>8. ASSUME NEW S \in SUBSET (1 .. n + 1)
        PROVE  h[S] = IF S = {} THEN b ELSE op[Max(S)][h[S \ {Max(S)}]]
    <3>1. CASE n + 1 \in S
      <4>1. Max(S) = n + 1
        BY <2>1, <3>1, MaxOf
      <4>2. h[S \ {n + 1}] = g[S \ {n + 1}]
        BY <2>3, <2>5
      <4> QED
        BY <3>1, <4>1, <4>2
    <3>2. CASE n + 1 \notin S
      <4>1. S \in SUBSET (1 .. n) /\ S \ {Max(S)} \in SUBSET (1 .. n)
        BY <2>3, <3>2
      <4>2. g[S] = IF S = {} THEN b ELSE op[Max(S)][g[S \ {Max(S)}]]
        BY <2>2, <4>1 DEF Recurs
      <4> QED
        BY <2>5, <4>1, <4>2
    <3> QED
      BY <3>1, <3>2
  <2> HIDE DEF h
  <2>9. h = [S \in SUBSET (1 .. n + 1) |-> h[S]]
    BY DEF h
  <2>10. Good(h, n + 1)
    BY <2>7, <2>8, <2>9 DEF Recurs
  <2> QED
    BY <2>10
<1> HIDE DEF Good
<1>3. Have = Nat
  BY <1>1, <1>2, SetInduction
<1> HIDE DEF Have
<1>4. N \in Have /\ N <= N
  BY <1>3
<1>5. \E g : Good(g, N)
  BY <1>4, Zenon DEF Have
<1> QED
  BY <1>5 DEF Good

\* Induction, up to a bound.
LEMMA UpTo ==
    ASSUME NEW N \in Nat, NEW S, 0 \in S, \A n \in 0 .. N - 1 : n \in S => n + 1 \in S
    PROVE  0 .. N \subseteq S
<1> DEFINE Have == {n \in Nat : n <= N => n \in S}
<1>1. 0 \in Have
  OBVIOUS
<1>2. \A n \in Have : n + 1 \in Have
  OBVIOUS
<1>3. Have = Nat
  BY <1>1, <1>2, SetInduction
<1> HIDE DEF Have
<1>4. \A n \in 0 .. N : n \in Have /\ n <= N
  BY <1>3
<1> QED
  BY <1>4 DEF Have

LEMMA MaxIn ==
    ASSUME NEW N \in Nat, NEW S \in SUBSET (1 .. N), S # {}
    PROVE  Max(S) \in S
<1> DEFINE T == {N - x : x \in S}
<1>1. \A x \in S : x \in Nat /\ x <= N /\ N - x \in Nat
  OBVIOUS
<1>2. T \subseteq Nat /\ T # {}
  BY <1>1
<1>3. PICK y \in T : \A z \in T : y <= z
  BY <1>2, Least
<1>4. PICK m \in S : y = N - m
  OBVIOUS
<1>5. ASSUME NEW z \in S PROVE m >= z
  <2>1. N - m <= N - z
    BY <1>3, <1>4
  <2> QED
    BY <1>1, <2>1
<1>6. Max(S) = CHOOSE x \in S : \A z \in S : x >= z
  BY DEF Max
<1> QED
  BY <1>5, <1>6

LEMMA Prefix ==
    ASSUME NEW N \in Nat, NEW n \in 1 .. N
    PROVE  /\ 1 .. n \in SUBSET (1 .. N) /\ 1 .. n # {}
           /\ Max(1 .. n) = n /\ (1 .. n) \ {n} = 1 .. n - 1
           /\ n \in 0 .. N /\ n - 1 \in 0 .. N
<1>1. n \in Nat /\ n >= 1 /\ n <= N /\ n - 1 \in Nat /\ (n - 1) + 1 = n
  OBVIOUS
<1>2. 1 .. n \subseteq 1 .. N /\ n \in 1 .. n /\ (1 .. n) \ {n} = 1 .. n - 1
  BY <1>1
<1>3. Max(1 .. n) = n
  BY <1>1, MaxOf
<1> QED
  BY <1>1, <1>2, <1>3

LEMMA TakeAs ==
    ASSUME NEW planned, NEW e
    PROVE  Take(planned, e) =
               IF ~planned.ok THEN planned
               ELSE IF planned.edits = <<>> THEN Accepted(<<e>>)
               ELSE IF Last(planned.edits) = e THEN planned
               ELSE IF SameRange(Last(planned.edits), e) \/ e.start < Last(planned.edits).end
                    THEN Refused
               ELSE Accepted(Append(planned.edits, e))
<1> DEFINE l == Last(planned.edits)
<1> HIDE DEF l
<1> QED
  BY DEF Take, l

\* The scan takes the edits one after the other.
LEMMA TakeFolds ==
    ASSUME NEW T, NEW s \in Seq(EditsOver(T))
    PROVE  \E h \in [0 .. Len(s) -> [ok : BOOLEAN, edits : Seq(EditsOver(T))]] :
               /\ h[0] = Accepted(<<>>)
               /\ FoldLeft(Take, Accepted(<<>>), s) = h[Len(s)]
               /\ \A n \in 1 .. Len(s) : h[n] = Take(h[n - 1], s[n])
<1> DEFINE E == EditsOver(T)
           P == [ok : BOOLEAN, edits : Seq(E)]
           b == Accepted(<<>>)
           N == Len(s)
           op == [n \in 1 .. N |-> [p \in P |-> Take(p, s[n])]]
           Rec(g) == g = [S \in SUBSET (DOMAIN s) |->
                              IF S = {} THEN b ELSE Take(g[S \ {Max(S)}], s[Max(S)])]
           it == CHOOSE g : Rec(g)
           h == [n \in 0 .. N |-> it[1 .. n]]
<1> HIDE DEF E
<1>1. N \in Nat /\ DOMAIN s = 1 .. N /\ b \in P /\ \A n \in 1 .. N : s[n] \in E
  BY DEF Accepted, E
<1>2. ASSUME NEW p \in P, NEW e \in E PROVE Take(p, e) \in P
  <2>1. <<e>> \in Seq(E) /\ Append(p.edits, e) \in Seq(E)
    OBVIOUS
  <2>2. Refused \in P /\ \A x \in Seq(E) : Accepted(x) \in P
    BY DEF Accepted, Refused
  <2> HIDE DEF P
  <2>3. \/ Take(p, e) = p \/ Take(p, e) = Refused
        \/ Take(p, e) = Accepted(<<e>>) \/ Take(p, e) = Accepted(Append(p.edits, e))
    BY TakeAs, Zenon
  <2> QED
    BY <2>1, <2>2, <2>3
<1>3. op \in [1 .. N -> [P -> P]]
  BY <1>1, <1>2
<1>4. FoldLeft(Take, b, s) = it[1 .. N]
  BY <1>1 DEF FoldLeft, MapThenFoldSet
<1> HIDE DEF P, b, op, N, it
<1>5. PICK g : Recurs(g, N, b, op) /\ \A S \in SUBSET (1 .. N) : g[S] \in P
  BY <1>1, <1>3, FoldsExist
<1>6. \A S \in SUBSET (1 .. N) : S # {} => Max(S) \in 1 .. N /\ S \ {Max(S)} \in SUBSET (1 .. N)
  BY <1>1, MaxIn
<1>7. Rec(g)
  BY <1>1, <1>5, <1>6 DEF Recurs, op
<1>8. Rec(it)
  BY <1>7 DEF it
<1>9. h[0] = b
  <2>1. 1 .. 0 = {} /\ {} \in SUBSET (DOMAIN s)
    OBVIOUS
  <2> QED
    BY <1>1, <1>8, <2>1
<1>10. ASSUME NEW n \in 1 .. N PROVE h[n] = Take(h[n - 1], s[n])
  <2>1. it[1 .. n] = Take(it[1 .. n - 1], s[n])
    <3>1. 1 .. n \in SUBSET (DOMAIN s) /\ 1 .. n # {}
      BY <1>1, Prefix
    <3>2. it[1 .. n] = Take(it[(1 .. n) \ {Max(1 .. n)}], s[Max(1 .. n)])
      BY <1>8, <3>1
    <3> QED
      BY <1>1, <3>2, Prefix
  <2> QED
    BY <1>1, <2>1, Prefix
<1> HIDE DEF h
<1>11. 0 .. N \subseteq {n \in 0 .. N : h[n] \in P}
  <2> DEFINE Have == {n \in 0 .. N : h[n] \in P}
  <2>1. 0 \in Have
    BY <1>1, <1>9
  <2>2. ASSUME NEW n \in 0 .. N - 1, n \in Have PROVE n + 1 \in Have
    <3>1. n + 1 \in 1 .. N /\ (n + 1) - 1 = n
      BY <1>1
    <3> QED
      BY <1>1, <1>2, <1>10, <2>2, <3>1
  <2> HIDE DEF Have
  <2>3. 0 .. N \subseteq Have
    BY <1>1, <2>1, <2>2, UpTo
  <2> QED
    BY <2>3 DEF Have
<1>12. h \in [0 .. N -> P] /\ h[N] = it[1 .. N]
  BY <1>1, <1>11 DEF h
<1> QED
  BY <1>4, <1>9, <1>10, <1>12 DEF P, b, N, E

-----------------------------------------------------------------------------
(* The sort.                                                               *)

LEMMA Concat ==
    ASSUME NEW E, NEW a \in Seq(E), NEW c \in Seq(E)
    PROVE  /\ a \o c \in Seq(E)
           /\ Len(a \o c) = Len(a) + Len(c)
           /\ \A i \in 1 .. Len(a) : (a \o c)[i] = a[i]
           /\ \A i \in Len(a) + 1 .. Len(a) + Len(c) : (a \o c)[i] = c[i - Len(a)]
OBVIOUS

\* What InsertAt puts where.
LEMMA InsertAtIs ==
    ASSUME NEW E, NEW s \in Seq(E), NEW e \in E, NEW k \in 1 .. Len(s) + 1
    PROVE  /\ InsertAt(s, k, e) \in Seq(E)
           /\ Len(InsertAt(s, k, e)) = Len(s) + 1
           /\ InsertAt(s, k, e)[k] = e
           /\ \A i \in 1 .. k - 1 : InsertAt(s, k, e)[i] = s[i]
           /\ \A i \in k + 1 .. Len(s) + 1 : InsertAt(s, k, e)[i] = s[i - 1]
<1> DEFINE a == SubSeq(s, 1, k - 1)
           m == <<e>>
           c == SubSeq(s, k, Len(s))
<1>1. Len(s) \in Nat /\ k \in Nat /\ k - 1 \in Nat /\ k >= 1 /\ k <= Len(s) + 1
  OBVIOUS
<1>2. a \in Seq(E) /\ Len(a) = k - 1 /\ \A i \in 1 .. k - 1 : a[i] = s[i]
  BY <1>1
<1>3. c \in Seq(E) /\ Len(c) = Len(s) - k + 1 /\ \A i \in 1 .. Len(s) - k + 1 : c[i] = s[i + k - 1]
  BY <1>1
<1>4. m \in Seq(E) /\ Len(m) = 1 /\ m[1] = e
  OBVIOUS
<1> HIDE DEF a, c, m
<1> DEFINE d == a \o m
<1>5. d \in Seq(E) /\ Len(d) = k /\ d[k] = e /\ \A i \in 1 .. k - 1 : d[i] = s[i]
  <2>1. a \in Seq(E) /\ m \in Seq(E)
    BY <1>2, <1>4
  <2>2. /\ d \in Seq(E) /\ Len(d) = Len(a) + Len(m)
        /\ \A i \in 1 .. Len(a) : d[i] = a[i]
        /\ \A i \in Len(a) + 1 .. Len(a) + Len(m) : d[i] = m[i - Len(a)]
    BY <2>1, Concat, Zenon
  <2> HIDE DEF d
  <2>3. k \in Len(a) + 1 .. Len(a) + Len(m) /\ k - Len(a) = 1 /\ Len(a) + Len(m) = k
    BY <1>1, <1>2, <1>4
  <2> QED
    BY <1>2, <1>4, <2>2, <2>3
<1> HIDE DEF d
<1> DEFINE r == d \o c
<1>6. r \in Seq(E) /\ Len(r) = Len(s) + 1
  <2>1. d \in Seq(E) /\ c \in Seq(E)
    BY <1>3, <1>5
  <2>2. r \in Seq(E) /\ Len(r) = Len(d) + Len(c)
    BY <2>1, Concat, Zenon
  <2> QED
    BY <1>1, <1>3, <1>5, <2>2
<1>7. r[k] = e /\ \A i \in 1 .. k - 1 : r[i] = s[i]
  BY <1>1, <1>3, <1>5
<1>8. ASSUME NEW i \in k + 1 .. Len(s) + 1 PROVE r[i] = s[i - 1]
  <2>1. r[i] = c[i - k] /\ i - k \in 1 .. Len(s) - k + 1 /\ (i - k) + k - 1 = i - 1
    BY <1>1, <1>3, <1>5
  <2>2. c[i - k] = s[(i - k) + k - 1]
    BY <1>3, <2>1
  <2> QED
    BY <2>1, <2>2
<1>9. r = InsertAt(s, k, e)
  BY DEF InsertAt, r, d, a, m, c
<1> QED
  BY <1>6, <1>7, <1>8, <1>9

\* Inserted puts an edit before the first that it precedes, behind those it does not.
LEMMA InsertedIs ==
    ASSUME NEW E, NEW s \in Seq(E), NEW e
    PROVE  \E k \in 1 .. Len(s) + 1 :
               /\ Inserted(s, e) = InsertAt(s, k, e)
               /\ \A i \in 1 .. k - 1 : ~Precedes(e, s[i])
               /\ k <= Len(s) => Precedes(e, s[k])
<1> DEFINE T == {i \in DOMAIN s : Precedes(e, s[i])} \cup {Len(s) + 1}
<1>1. Len(s) \in Nat /\ DOMAIN s = 1 .. Len(s)
  OBVIOUS
<1>2. T \subseteq 1 .. Len(s) + 1 /\ T # {}
  BY <1>1
<1>3. T \subseteq Nat
  BY <1>1, <1>2
<1>4. PICK k \in T : \A y \in T : k <= y
  BY <1>2, <1>3, Least
<1>5. \A x \in T : (\A y \in T : x <= y) => x = k
  BY <1>3, <1>4
<1>6. Min(T) = CHOOSE x \in T : \A y \in T : x =< y
  BY DEF Min
<1> HIDE DEF T
<1>7. Min(T) = k
  BY <1>4, <1>5, <1>6
<1>8. Inserted(s, e) = InsertAt(s, k, e)
  BY <1>7 DEF Inserted, T
<1>9. k \in 1 .. Len(s) + 1
  BY <1>2, <1>4
<1>10. ASSUME NEW i \in 1 .. k - 1 PROVE ~Precedes(e, s[i])
  <2>1. i \notin T /\ i \in DOMAIN s
    BY <1>1, <1>4, <1>9
  <2> QED
    BY <2>1 DEF T
<1>11. k <= Len(s) => Precedes(e, s[k])
  BY <1>1, <1>4 DEF T
<1> QED
  BY <1>8, <1>9, <1>10, <1>11

\* The sort inserts the edits one after the other.
LEMMA SortFolds ==
    ASSUME NEW E, NEW s \in Seq(E)
    PROVE  \E h \in [0 .. Len(s) -> Seq(E)] :
               /\ h[0] = <<>> /\ Sorted(s) = h[Len(s)]
               /\ \A n \in 1 .. Len(s) : h[n] = Inserted(h[n - 1], s[n])
<1> DEFINE P == Seq(E)
           b == <<>>
           N == Len(s)
           op == [n \in 1 .. N |-> [p \in P |-> Inserted(p, s[n])]]
           Rec(g) == g = [S \in SUBSET (DOMAIN s) |->
                              IF S = {} THEN b ELSE Inserted(g[S \ {Max(S)}], s[Max(S)])]
           it == CHOOSE g : Rec(g)
           h == [n \in 0 .. N |-> it[1 .. n]]
<1>1. N \in Nat /\ DOMAIN s = 1 .. N /\ b \in P /\ \A n \in 1 .. N : s[n] \in E
  OBVIOUS
<1>2. ASSUME NEW p \in P, NEW e \in E PROVE Inserted(p, e) \in P
  BY InsertedIs, InsertAtIs
<1>3. op \in [1 .. N -> [P -> P]]
  BY <1>1, <1>2
<1>4. Sorted(s) = it[1 .. N]
  BY <1>1 DEF Sorted, FoldLeft, MapThenFoldSet
<1> HIDE DEF P, b, op, N, it
<1>5. PICK g : Recurs(g, N, b, op) /\ \A S \in SUBSET (1 .. N) : g[S] \in P
  BY <1>1, <1>3, FoldsExist
<1>6. \A S \in SUBSET (1 .. N) : S # {} => Max(S) \in 1 .. N /\ S \ {Max(S)} \in SUBSET (1 .. N)
  BY <1>1, MaxIn
<1>7. Rec(g)
  BY <1>1, <1>5, <1>6 DEF Recurs, op
<1>8. Rec(it)
  BY <1>7 DEF it
<1>9. h[0] = b
  <2>1. 1 .. 0 = {} /\ {} \in SUBSET (DOMAIN s)
    OBVIOUS
  <2> QED
    BY <1>1, <1>8, <2>1
<1>10. ASSUME NEW n \in 1 .. N PROVE h[n] = Inserted(h[n - 1], s[n])
  <2>1. 1 .. n \in SUBSET (DOMAIN s) /\ 1 .. n # {}
    BY <1>1, Prefix
  <2>2. it[1 .. n] = Inserted(it[(1 .. n) \ {Max(1 .. n)}], s[Max(1 .. n)])
    BY <1>8, <2>1
  <2>3. it[1 .. n] = Inserted(it[1 .. n - 1], s[n])
    BY <1>1, <2>2, Prefix
  <2> QED
    BY <1>1, <2>3, Prefix
<1> HIDE DEF h
<1>11. 0 .. N \subseteq {n \in 0 .. N : h[n] \in P}
  <2> DEFINE Have == {n \in 0 .. N : h[n] \in P}
  <2>1. 0 \in Have
    BY <1>1, <1>9
  <2>2. ASSUME NEW n \in 0 .. N - 1, n \in Have PROVE n + 1 \in Have
    <3>1. n + 1 \in 1 .. N /\ (n + 1) - 1 = n
      BY <1>1
    <3> QED
      BY <1>1, <1>2, <1>10, <2>2, <3>1
  <2> HIDE DEF Have
  <2>3. 0 .. N \subseteq Have
    BY <1>1, <2>1, <2>2, UpTo
  <2> QED
    BY <2>3 DEF Have
<1>12. h \in [0 .. N -> P] /\ h[N] = it[1 .. N]
  BY <1>1, <1>11 DEF h
<1> QED
  BY <1>4, <1>9, <1>10, <1>12 DEF P, b, N

InOrder(e, f) == e.start < f.start \/ (e.start = f.start /\ e.end <= f.end)
Ordered(s) == \A i, j \in DOMAIN s : i < j => InOrder(s[i], s[j])

\* An insertion keeps a list in order.
LEMMA InsertedOrdered ==
    ASSUME NEW T, NEW s \in Seq(EditsOver(T)), NEW e \in EditsOver(T), Ordered(s)
    PROVE  /\ Inserted(s, e) \in Seq(EditsOver(T))
           /\ Ordered(Inserted(s, e))
           /\ ToSet(Inserted(s, e)) = ToSet(s) \cup {e}
<1>1. PICK k \in 1 .. Len(s) + 1 :
          /\ Inserted(s, e) = InsertAt(s, k, e)
          /\ \A i \in 1 .. k - 1 : ~Precedes(e, s[i])
          /\ k <= Len(s) => Precedes(e, s[k])
  BY InsertedIs
<1> DEFINE r == InsertAt(s, k, e)
           N == Len(s)
           E == EditsOver(T)
<1>2. /\ r \in Seq(E) /\ Len(r) = N + 1 /\ r[k] = e
      /\ \A i \in 1 .. k - 1 : r[i] = s[i]
      /\ \A i \in k + 1 .. N + 1 : r[i] = s[i - 1]
  BY InsertAtIs
<1>3. N \in Nat /\ DOMAIN s = 1 .. N /\ DOMAIN r = 1 .. N + 1 /\ k \in Nat /\ k >= 1 /\ k <= N + 1
  BY <1>2
<1>4. \A i \in 1 .. N : s[i] \in E
  OBVIOUS
<1> HIDE DEF r, N, E
<1>5. \A i \in 1 .. k - 1 : i \in 1 .. N /\ InOrder(s[i], e)
  <2> SUFFICES ASSUME NEW i \in 1 .. k - 1 PROVE i \in 1 .. N /\ InOrder(s[i], e)
      OBVIOUS
  <2>1. i \in 1 .. N
    BY <1>3
  <2>2. s[i] \in E /\ e \in E /\ ~Precedes(e, s[i])
    BY <1>1, <1>4, <2>1 DEF E
  <2>3. s[i].start \in Nat /\ s[i].end \in Nat /\ e.start \in Nat /\ e.end \in Nat
    BY <2>2 DEF E, EditsOver
  <2> QED
    BY <2>1, <2>2, <2>3 DEF Precedes, InOrder
<1>6. ASSUME NEW i \in k .. N PROVE i \in 1 .. N /\ InOrder(e, s[i])
  <2>1. i \in 1 .. N /\ k \in 1 .. N
    BY <1>3
  <2>2. s[i] \in E /\ s[k] \in E /\ e \in E /\ Precedes(e, s[k])
    BY <1>1, <1>3, <1>4, <2>1 DEF E, N
  <2>3. s[i] = s[k] \/ InOrder(s[k], s[i])
    BY <1>3, <2>1 DEF Ordered
  <2>4. /\ s[i].start \in Nat /\ s[i].end \in Nat /\ e.start \in Nat /\ e.end \in Nat
        /\ s[k].start \in Nat /\ s[k].end \in Nat
    BY <2>2 DEF E, EditsOver
  <2> QED
    BY <2>1, <2>2, <2>3, <2>4 DEF Precedes, InOrder
<1>7. Ordered(r)
  <2> SUFFICES ASSUME NEW i \in 1 .. N + 1, NEW j \in 1 .. N + 1, i < j PROVE InOrder(r[i], r[j])
      BY <1>3 DEF Ordered
  <2>1. CASE j < k
    <3>1. i \in 1 .. k - 1 /\ j \in 1 .. k - 1 /\ i \in DOMAIN s /\ j \in DOMAIN s
      BY <1>3, <2>1
    <3> QED
      BY <1>2, <3>1 DEF Ordered
  <2>2. CASE j = k
    <3>1. i \in 1 .. k - 1
      BY <2>2
    <3> QED
      BY <1>2, <1>5, <2>2, <3>1
  <2>3. CASE i = k
    <3>1. j \in k + 1 .. N + 1 /\ j - 1 \in k .. N
      BY <1>3, <2>3
    <3> QED
      BY <1>2, <1>6, <2>3, <3>1
  <2>4. CASE i < k /\ k < j
    <3>1. i \in 1 .. k - 1 /\ j \in k + 1 .. N + 1 /\ j - 1 \in DOMAIN s /\ i \in DOMAIN s /\ i < j - 1
      BY <1>3, <2>4
    <3> QED
      BY <1>2, <3>1 DEF Ordered
  <2>5. CASE k < i
    <3>1. /\ i \in k + 1 .. N + 1 /\ j \in k + 1 .. N + 1
          /\ i - 1 \in DOMAIN s /\ j - 1 \in DOMAIN s /\ i - 1 < j - 1
      BY <1>3, <2>5
    <3> QED
      BY <1>2, <3>1 DEF Ordered
  <2> QED
    BY <1>3, <2>1, <2>2, <2>3, <2>4, <2>5
<1>8. ToSet(r) = ToSet(s) \cup {e}
  <2>1. ASSUME NEW i \in 1 .. N + 1 PROVE r[i] \in ToSet(s) \cup {e}
    <3>1. CASE i = k
      BY <1>2, <3>1
    <3>2. CASE i < k
      <4>1. i \in 1 .. k - 1 /\ i \in DOMAIN s
        BY <1>3, <3>2
      <4> QED
        BY <1>2, <4>1 DEF ToSet
    <3>3. CASE k < i
      <4>1. i \in k + 1 .. N + 1 /\ i - 1 \in DOMAIN s
        BY <1>3, <3>3
      <4> QED
        BY <1>2, <4>1 DEF ToSet
    <3> QED
      BY <1>3, <3>1, <3>2, <3>3
  <2>2. ASSUME NEW i \in 1 .. N PROVE s[i] \in ToSet(r)
    <3>1. CASE i < k
      <4>1. i \in 1 .. k - 1 /\ i \in DOMAIN r
        BY <1>3, <3>1
      <4> QED
        BY <1>2, <4>1 DEF ToSet
    <3>2. CASE k <= i
      <4>1. i + 1 \in k + 1 .. N + 1 /\ i + 1 \in DOMAIN r /\ (i + 1) - 1 = i
        BY <1>3, <3>2
      <4> QED
        BY <1>2, <4>1 DEF ToSet
    <3> QED
      BY <1>3, <3>1, <3>2
  <2>3. e \in ToSet(r)
    BY <1>2, <1>3 DEF ToSet
  <2> QED
    BY <1>3, <2>1, <2>2, <2>3 DEF ToSet
<1> QED
  BY <1>1, <1>2, <1>7, <1>8 DEF r, E

\* The sort orders a list of edits and neither adds nor drops one.
LEMMA SortSorts ==
    ASSUME NEW T, NEW s \in Seq(EditsOver(T))
    PROVE  /\ Sorted(s) \in Seq(EditsOver(T))
           /\ Ordered(Sorted(s))
           /\ ToSet(Sorted(s)) = ToSet(s)
<1> DEFINE E == EditsOver(T)
           N == Len(s)
<1>1. PICK h \in [0 .. N -> Seq(E)] :
          /\ h[0] = <<>> /\ Sorted(s) = h[N]
          /\ \A n \in 1 .. N : h[n] = Inserted(h[n - 1], s[n])
  BY SortFolds
<1>2. N \in Nat /\ DOMAIN s = 1 .. N /\ \A n \in 1 .. N : s[n] \in E
  OBVIOUS
<1> DEFINE Good(n) == Ordered(h[n]) /\ ToSet(h[n]) = {s[i] : i \in 1 .. n}
           Have == {n \in 0 .. N : Good(n)}
<1> HIDE DEF N, E
<1>3. 0 \in Have
  BY <1>1, <1>2 DEF Ordered, ToSet
<1>4. ASSUME NEW n \in 0 .. N - 1, n \in Have PROVE n + 1 \in Have
  <2>1. /\ n + 1 \in 1 .. N /\ n + 1 \in 0 .. N /\ n \in 0 .. N /\ (n + 1) - 1 = n
        /\ 1 .. n + 1 = (1 .. n) \cup {n + 1}
    BY <1>2
  <2>2. h[n + 1] = Inserted(h[n], s[n + 1])
    BY <1>1, <2>1
  <2>3. h[n] \in Seq(E) /\ s[n + 1] \in E /\ Ordered(h[n])
    BY <1>1, <1>2, <1>4, <2>1
  <2>4. Ordered(h[n + 1]) /\ ToSet(h[n + 1]) = ToSet(h[n]) \cup {s[n + 1]}
    <3>1. h[n] \in Seq(EditsOver(T)) /\ s[n + 1] \in EditsOver(T)
      BY <2>3 DEF E
    <3>2. /\ Ordered(Inserted(h[n], s[n + 1]))
          /\ ToSet(Inserted(h[n], s[n + 1])) = ToSet(h[n]) \cup {s[n + 1]}
      BY <2>3, <3>1, InsertedOrdered, Zenon
    <3> QED
      BY <2>2, <3>2
  <2> QED
    BY <1>4, <2>1, <2>4
<1>5. 0 .. N \subseteq Have
  <2> HIDE DEF Have
  <2> QED
    BY <1>2, <1>3, <1>4, UpTo
<1>6. Good(N) /\ h[N] \in Seq(E)
  BY <1>1, <1>2, <1>5
<1> QED
  BY <1>1, <1>2, <1>6 DEF ToSet, E

-----------------------------------------------------------------------------
(* What the scan of the sorted list accepts.                               *)

Forward(s) == \A i \in DOMAIN s : s[i].start <= s[i].end

\* No two edits of a list share a range, and each ends before the next begins.
Separate(s) ==
    /\ Forward(s)
    /\ \A i, j \in DOMAIN s : i < j => s[i].end <= s[j].start /\ ~SameRange(s[i], s[j])

\* What is planned when the first n edits of a sorted list have been taken.
Scanned(s, n, planned) ==
    IF planned.ok
    THEN /\ ToSet(planned.edits) = {s[i] : i \in 1 .. n}
         /\ Separate(planned.edits)
         /\ n > 0 => planned.edits # <<>> /\ Last(planned.edits) = s[n]
         /\ n = 0 => planned.edits = <<>>
    ELSE \E e, f \in ToSet(s) : e # f /\ Overlap(e, f)

LEMMA LastIs ==
    ASSUME NEW E, NEW s \in Seq(E), s # <<>>
    PROVE  /\ Len(s) \in Nat /\ Len(s) >= 1 /\ DOMAIN s = 1 .. Len(s)
           /\ Last(s) = s[Len(s)] /\ Last(s) \in ToSet(s) /\ Last(s) \in E
<1>1. Len(s) \in Nat /\ Len(s) >= 1 /\ DOMAIN s = 1 .. Len(s) /\ s[Len(s)] \in E
  OBVIOUS
<1> QED
  BY <1>1 DEF Last, ToSet

LEMMA AppendIs ==
    ASSUME NEW E, NEW s \in Seq(E), NEW e \in E
    PROVE  /\ Append(s, e) \in Seq(E) /\ Len(Append(s, e)) = Len(s) + 1
           /\ DOMAIN Append(s, e) = 1 .. Len(s) + 1
           /\ Append(s, e)[Len(s) + 1] = e
           /\ \A i \in 1 .. Len(s) : Append(s, e)[i] = s[i]
           /\ ToSet(Append(s, e)) = ToSet(s) \cup {e}
           /\ Append(s, e) # <<>> /\ Last(Append(s, e)) = e
<1> DEFINE a == Append(s, e)
<1>1. /\ a \in Seq(E) /\ Len(a) = Len(s) + 1 /\ a[Len(s) + 1] = e /\ Len(s) \in Nat
      /\ \A i \in 1 .. Len(s) : a[i] = s[i]
  OBVIOUS
<1>2. DOMAIN s = 1 .. Len(s) /\ DOMAIN a = 1 .. Len(s) + 1
  BY <1>1
<1> HIDE DEF a
<1>3. 1 .. Len(s) + 1 = (1 .. Len(s)) \cup {Len(s) + 1}
  BY <1>1
<1>4. ToSet(a) = ToSet(s) \cup {e}
  BY <1>1, <1>2, <1>3 DEF ToSet
<1>5. a # <<>> /\ Last(a) = e
  BY <1>1, <1>2, <1>3 DEF Last
<1> QED
  BY <1>1, <1>2, <1>4, <1>5 DEF a

LEMMA AppendSeparate ==
    ASSUME NEW T, NEW s \in Seq(EditsOver(T)), s # <<>>, NEW e \in EditsOver(T), e.start <= e.end,
           Separate(s), Last(s).end <= e.start, ~SameRange(Last(s), e)
    PROVE  Separate(Append(s, e))
<1> DEFINE a == Append(s, e)
           N == Len(s)
           E == EditsOver(T)
<1>1. /\ N \in Nat /\ N >= 1 /\ DOMAIN s = 1 .. N /\ Last(s) = s[N] /\ Last(s) \in E
      /\ \A i \in 1 .. N : s[i] \in E
  BY LastIs
<1>2. /\ DOMAIN a = 1 .. N + 1 /\ a[N + 1] = e
      /\ \A i \in 1 .. N : a[i] = s[i]
  BY AppendIs
<1> HIDE DEF a, N
<1>3. Forward(a)
  BY <1>1, <1>2 DEF Forward, Separate
<1>4. ASSUME NEW i \in 1 .. N PROVE s[i].end <= e.start /\ ~SameRange(s[i], e)
  <2>1. CASE i = N
    BY <1>1, <2>1
  <2>2. CASE i # N
    <3>1. /\ s[i].end <= s[N].start /\ ~SameRange(s[i], s[N])
          /\ s[i].start <= s[i].end /\ s[N].start <= s[N].end
      BY <1>1, <2>2 DEF Separate, Forward
    <3>2. /\ s[i].start \in Nat /\ s[i].end \in Nat /\ s[N].start \in Nat /\ s[N].end \in Nat
          /\ e.start \in Nat /\ e.end \in Nat
      BY <1>1 DEF E, EditsOver
    <3> QED
      BY <1>1, <3>1, <3>2 DEF SameRange
  <2> QED
    BY <2>1, <2>2
<1>5. ASSUME NEW i \in 1 .. N + 1, NEW j \in 1 .. N + 1, i < j
      PROVE  a[i].end <= a[j].start /\ ~SameRange(a[i], a[j])
  <2>1. i \in 1 .. N
    BY <1>1, <1>5
  <2>2. CASE j = N + 1
    BY <1>2, <1>4, <2>1, <2>2
  <2>3. CASE j # N + 1
    <3>1. j \in 1 .. N
      BY <1>1, <2>3
    <3> QED
      BY <1>1, <1>2, <1>5, <2>1, <3>1 DEF Separate
  <2> QED
    BY <2>2, <2>3
<1>6. Separate(a)
  BY <1>2, <1>3, <1>5 DEF Separate
<1> QED
  BY <1>6 DEF a

LEMMA AcceptedScans ==
    ASSUME NEW s, NEW n \in Nat, n > 0, NEW t, t # <<>>, Last(t) = s[n],
           ToSet(t) = {s[i] : i \in 1 .. n}, Separate(t)
    PROVE  Scanned(s, n, Accepted(t))
<1>1. Accepted(t).ok /\ Accepted(t).edits = t
  BY DEF Accepted
<1> QED
  BY <1>1 DEF Scanned

\* The next edit of a list in order is compared with the last one taken, and that is enough.
LEMMA TakeScans ==
    ASSUME NEW T, NEW s \in Seq(EditsOver(T)), Ordered(s), Forward(s), NEW n \in 0 .. Len(s) - 1,
           NEW p \in [ok : BOOLEAN, edits : Seq(EditsOver(T))], Scanned(s, n, p)
    PROVE  Scanned(s, n + 1, Take(p, s[n + 1]))
<1> DEFINE e == s[n + 1]
           E == EditsOver(T)
           t == p.edits
           l == Last(t)
<1>1. /\ n \in Nat /\ n + 1 \in Nat /\ n + 1 > 0 /\ DOMAIN s = 1 .. Len(s) /\ n + 1 \in DOMAIN s
      /\ e \in E /\ t \in Seq(E) /\ e \in ToSet(s)
  BY DEF ToSet
<1>2. 1 .. n + 1 = (1 .. n) \cup {n + 1}
  BY <1>1
<1>3. {s[i] : i \in 1 .. n + 1} = {s[i] : i \in 1 .. n} \cup {e}
  BY <1>2
<1>4. e.start \in Nat /\ e.end \in Nat /\ e.start <= e.end
  BY <1>1 DEF Forward, E, EditsOver
<1>5. CASE ~p.ok
  BY <1>5, TakeAs DEF Scanned
<1>6. CASE p.ok /\ t = <<>>
  <2>1. Take(p, e) = Accepted(<<e>>)
    BY <1>6, TakeAs
  <2>2. {s[i] : i \in 1 .. n} = {}
    BY <1>6 DEF Scanned, ToSet
  <2>3. <<e>> # <<>> /\ Last(<<e>>) = e /\ ToSet(<<e>>) = {e} /\ DOMAIN <<e>> = {1}
    BY DEF Last, ToSet
  <2>4. Separate(<<e>>)
    BY <1>4, <2>3 DEF Separate, Forward
  <2>5. ToSet(<<e>>) = {s[i] : i \in 1 .. n + 1}
    BY <1>3, <2>2, <2>3
  <2> DEFINE a == <<e>>
  <2>6. Scanned(s, n + 1, Accepted(a))
    <3>1. a # <<>> /\ Last(a) = s[n + 1]
      BY <2>3
    <3> HIDE DEF a
    <3> QED
      BY <1>1, <2>4, <2>5, <3>1, AcceptedScans DEF a
  <2> QED
    BY <2>1, <2>6
<1>7. ASSUME p.ok, t # <<>> PROVE Scanned(s, n + 1, Take(p, e))
  <2>1. /\ ToSet(t) = {s[i] : i \in 1 .. n} /\ Separate(t)
        /\ n # 0 /\ l = s[n]
    BY <1>1, <1>7 DEF Scanned
  <2>2. n \in DOMAIN s /\ n < n + 1
    BY <1>1, <2>1
  <2>3. l \in E /\ l \in ToSet(s) /\ InOrder(l, e)
    BY <1>1, <2>1, <2>2 DEF Ordered, ToSet
  <2>4. l.start \in Nat /\ l.end \in Nat /\ l.start <= l.end
    BY <2>1, <2>2, <2>3 DEF Forward, E, EditsOver
  <2> HIDE DEF t, l, e
  <2>5. CASE l = e
    <3>1. Take(p, e) = p
      BY <1>7, <2>5, TakeAs DEF t, l
    <3>2. e \in ToSet(t)
      BY <1>1, <1>7, <2>5, LastIs DEF l
    <3> QED
      BY <1>1, <1>3, <1>7, <2>1, <2>5, <3>1, <3>2 DEF Scanned, t, l, e
  <2>6. CASE l # e /\ (SameRange(l, e) \/ e.start < l.end)
    <3>1. Take(p, e) = Refused
      BY <1>7, <2>6, TakeAs DEF t, l
    <3>2. Overlap(l, e)
      BY <1>4, <2>3, <2>4, <2>6 DEF Overlap, SameRange, InOrder
    <3> QED
      BY <1>1, <2>3, <2>6, <3>1, <3>2 DEF Scanned, Refused
  <2>7. CASE l # e /\ ~SameRange(l, e) /\ ~(e.start < l.end)
    <3>1. Take(p, e) = Accepted(Append(t, e))
      BY <1>7, <2>7, TakeAs DEF t, l
    <3>2. l.end <= e.start
      BY <1>4, <2>4, <2>7
    <3>3. Separate(Append(t, e))
      BY <1>1, <1>4, <1>7, <2>1, <2>7, <3>2, AppendSeparate DEF l, E
    <3>4. ToSet(Append(t, e)) = ToSet(t) \cup {e} /\ Append(t, e) # <<>> /\ Last(Append(t, e)) = e
      BY <1>1, AppendIs
    <3>5. ToSet(Append(t, e)) = {s[i] : i \in 1 .. n + 1}
      BY <1>3, <2>1, <3>4
    <3>6. Scanned(s, n + 1, Accepted(Append(t, e)))
      BY <1>1, <3>3, <3>4, <3>5, AcceptedScans DEF e
    <3> QED
      BY <3>1, <3>6
  <2> QED
    BY <2>5, <2>6, <2>7
<1> QED
  BY <1>5, <1>6, <1>7

\* The edits of a separate list are as many as the places, and no two overlap.
LEMMA SeparateIs ==
    ASSUME NEW T, NEW s \in Seq(EditsOver(T)), Separate(s)
    PROVE  /\ \A e, f \in ToSet(s) : e # f => ~Overlap(e, f)
           /\ Len(s) = Cardinality(ToSet(s))
<1>1. Len(s) \in Nat /\ DOMAIN s = 1 .. Len(s) /\ \A i \in DOMAIN s : s[i] \in EditsOver(T)
  OBVIOUS
<1>2. ASSUME NEW i \in DOMAIN s, NEW j \in DOMAIN s, i < j
      PROVE  ~Overlap(s[i], s[j]) /\ ~Overlap(s[j], s[i]) /\ s[i] # s[j]
  <2>1. /\ s[i].start \in Nat /\ s[i].end \in Nat /\ s[j].start \in Nat /\ s[j].end \in Nat
    BY <1>1 DEF EditsOver
  <2>2. s[i].end <= s[j].start /\ ~SameRange(s[i], s[j])
    BY <1>2 DEF Separate
  <2> QED
    BY <2>1, <2>2 DEF Overlap, SameRange
<1>3. ASSUME NEW e \in ToSet(s), NEW f \in ToSet(s), e # f PROVE ~Overlap(e, f)
  <2>1. PICK i \in DOMAIN s : e = s[i]
    BY DEF ToSet
  <2>2. PICK j \in DOMAIN s : f = s[j]
    BY DEF ToSet
  <2>3. i < j \/ j < i
    BY <1>1, <1>3, <2>1, <2>2
  <2> QED
    BY <1>2, <2>1, <2>2, <2>3
<1>4. s \in Bijection(1 .. Len(s), ToSet(s))
  <2>1. \A i, j \in 1 .. Len(s) : i # j => s[i] # s[j]
    <3> SUFFICES ASSUME NEW i \in 1 .. Len(s), NEW j \in 1 .. Len(s), i # j PROVE s[i] # s[j]
        OBVIOUS
    <3>1. i < j \/ j < i
      OBVIOUS
    <3> QED
      BY <1>1, <1>2, <3>1
  <2>2. s \in [1 .. Len(s) -> ToSet(s)]
    BY <1>1 DEF ToSet
  <2> QED
    BY <1>1, <2>1, <2>2 DEF Bijection, Injection, Surjection, IsInjective, ToSet
<1>5. Cardinality(1 .. Len(s)) = Len(s) /\ IsFiniteSet(1 .. Len(s))
  BY <1>1, FS_Interval
<1>6. ExistsBijection(1 .. Len(s), ToSet(s))
  BY <1>4 DEF ExistsBijection
<1>7. Cardinality(ToSet(s)) = Len(s)
  BY <1>5, <1>6, FS_Bijection, FS_SameCardinalityBij
<1> QED
  BY <1>3, <1>7

\* For any list of edits: sorting and comparing neighbours refuses it exactly when two of its
\* edits could be applied in two ways or one ends before it starts; else it is planned whole,
\* no two edits of the plan touching the same text (edits.rs plan).
THEOREM PlanDecides ==
    ASSUME NEW T, NEW s \in Seq(EditsOver(T))
    PROVE  /\ Plan(s).ok <=> Unambiguous(s)
           /\ Plan(s).ok => /\ Plan(s).edits \in Seq(EditsOver(T))
                            /\ ToSet(Plan(s).edits) = ToSet(s)
                            /\ Separate(Plan(s).edits)
<1> DEFINE r == Sorted(s)
           E == EditsOver(T)
           N == Len(r)
<1>1. r \in Seq(E) /\ Ordered(r) /\ ToSet(r) = ToSet(s)
  BY SortSorts
<1>2. \A i \in DOMAIN s : s[i] \in E /\ s[i].start \in Nat /\ s[i].end \in Nat
  <2>1. \A i \in DOMAIN s : s[i] \in E
    OBVIOUS
  <2> QED
    BY <2>1 DEF EditsOver
<1> HIDE DEF r
<1>3. CASE \E i \in DOMAIN s : s[i].end < s[i].start
  <2>1. Plan(s) = Refused
    BY <1>3 DEF Plan
  <2>2. ~Unambiguous(s)
    BY <1>2, <1>3 DEF Unambiguous
  <2> QED
    BY <2>1, <2>2 DEF Refused
<1>4. CASE ~\E i \in DOMAIN s : s[i].end < s[i].start
  <2>1. \A i \in DOMAIN s : s[i].start <= s[i].end
    BY <1>2, <1>4
  <2>2. Forward(r)
    BY <1>1, <2>1 DEF Forward, ToSet
  <2>3. PICK h \in [0 .. N -> [ok : BOOLEAN, edits : Seq(E)]] :
            /\ h[0] = Accepted(<<>>) /\ FoldLeft(Take, Accepted(<<>>), r) = h[N]
            /\ \A n \in 1 .. N : h[n] = Take(h[n - 1], r[n])
    BY <1>1, TakeFolds
  <2>4. Plan(s) = h[N]
    BY <1>4, <2>3 DEF Plan, r
  <2> DEFINE Have == {n \in 0 .. N : Scanned(r, n, h[n])}
  <2>5. N \in Nat /\ DOMAIN r = 1 .. N
    BY <1>1
  <2> HIDE DEF N, E
  <2>6. 0 \in Have
    BY <2>3, <2>5 DEF Scanned, Accepted, Separate, Forward, ToSet
  <2>7. ASSUME NEW n \in 0 .. N - 1, n \in Have PROVE n + 1 \in Have
    <3>1. n + 1 \in 1 .. N /\ n + 1 \in 0 .. N /\ n \in 0 .. N /\ (n + 1) - 1 = n
      BY <2>5
    <3>2. h[n + 1] = Take(h[n], r[n + 1]) /\ h[n] \in [ok : BOOLEAN, edits : Seq(E)]
      BY <2>3, <3>1
    <3>3. Scanned(r, n + 1, Take(h[n], r[n + 1]))
      BY <1>1, <2>2, <2>7, <3>2, TakeScans DEF N, E
    <3> QED
      BY <3>1, <3>2, <3>3
  <2>8. Scanned(r, N, h[N])
    <3> HIDE DEF Have
    <3>1. 0 .. N \subseteq Have
      BY <2>5, <2>6, <2>7, UpTo
    <3>2. N \in Have
      BY <2>5, <3>1
    <3> QED
      BY <3>2 DEF Have
  <2>9. ToSet(r) = {r[i] : i \in 1 .. N}
    BY <2>5 DEF ToSet
  <2>10. h[N] \in [ok : BOOLEAN, edits : Seq(E)]
    BY <2>3, <2>5
  <2>11. CASE h[N].ok
    <3>1. h[N].edits \in Seq(E) /\ ToSet(h[N].edits) = ToSet(s) /\ Separate(h[N].edits)
      BY <1>1, <2>8, <2>9, <2>10, <2>11 DEF Scanned
    <3>2. \A e, f \in ToSet(s) : e # f => ~Overlap(e, f)
      BY <3>1, SeparateIs DEF E
    <3> QED
      BY <2>1, <2>4, <2>11, <3>1, <3>2 DEF Unambiguous, E
  <2>12. CASE ~h[N].ok
    BY <1>1, <2>4, <2>8, <2>12 DEF Scanned, Unambiguous
  <2> QED
    BY <2>11, <2>12
<1> QED
  BY <1>3, <1>4

-----------------------------------------------------------------------------
(* Joining texts.                                                          *)

\* Concatenation, as the provers should see it: by the facts of CatIs alone.
Cat(x, y) == x \o y

LEMMA CatIs ==
    ASSUME NEW T, NEW x \in Seq(T), NEW y \in Seq(T)
    PROVE  Cat(x, y) \in Seq(T)
BY ConcatProperties, Zenon DEF Cat

LEMMA CatEmpty ==
    ASSUME NEW T, NEW x \in Seq(T)
    PROVE  Cat(x, <<>>) = x /\ Cat(<<>>, x) = x
BY ConcatEmptySeq DEF Cat

LEMMA CatAgain ==
    ASSUME NEW T, NEW x \in Seq(T), NEW y \in Seq(T), NEW z \in Seq(T)
    PROVE  Cat(Cat(x, y), z) = Cat(x, Cat(y, z))
BY ConcatAssociative DEF Cat

\* The lists of a list, joined one after the other.
LEMMA Flattens ==
    ASSUME NEW T, NEW s \in Seq(Seq(T))
    PROVE  \E h \in [0 .. Len(s) -> Seq(T)] :
               /\ h[0] = <<>> /\ FlattenSeq(s) = h[Len(s)]
               /\ \A n \in 1 .. Len(s) : h[n] = h[n - 1] \o s[n]
<1> DEFINE P == Seq(T)
           N == Len(s)
           op == [n \in 1 .. N |-> [p \in P |-> p \o s[n]]]
           Rec(g) == g = [i \in 1 .. Len(s) |-> IF i = 1 THEN s[i] ELSE g[i - 1] \o s[i]]
           it == CHOOSE g : Rec(g)
           h == [n \in 0 .. N |-> IF n = 0 THEN <<>> ELSE it[n]]
<1>1. N \in Nat /\ DOMAIN s = 1 .. N /\ <<>> \in P /\ \A n \in 1 .. N : s[n] \in P
  OBVIOUS
<1>2. \A p, q \in P : p \o q \in P /\ <<>> \o q = q
  BY ConcatProperties, ConcatEmptySeq
<1>3. op \in [1 .. N -> [P -> P]]
  BY <1>1, <1>2
<1>4. Len(s) = 0 => FlattenSeq(s) = <<>>
  BY DEF FlattenSeq
<1>5. Len(s) # 0 => FlattenSeq(s) = it[N]
  BY DEF FlattenSeq
<1> HIDE DEF P, op, N, it
<1>6. PICK g : Recurs(g, N, <<>>, op) /\ \A S \in SUBSET (1 .. N) : g[S] \in P
  BY <1>1, <1>3, FoldsExist
<1>7. Rec([i \in 1 .. N |-> g[1 .. i]])
  <2> DEFINE f == [i \in 1 .. N |-> g[1 .. i]]
  <2>1. g[1 .. 0] = <<>>
    <3>1. 1 .. 0 = {} /\ {} \in SUBSET (1 .. N)
      OBVIOUS
    <3> QED
      BY <1>6, <3>1 DEF Recurs
  <2>2. ASSUME NEW i \in 1 .. N PROVE g[1 .. i] = g[1 .. i - 1] \o s[i]
    <3>1. 1 .. i \in SUBSET (1 .. N) /\ 1 .. i # {} /\ i - 1 \in 0 .. N
      BY <1>1, Prefix
    <3>2. g[1 .. i] = op[Max(1 .. i)][g[(1 .. i) \ {Max(1 .. i)}]]
      BY <1>6, <3>1 DEF Recurs
    <3>3. g[1 .. i] = op[i][g[1 .. i - 1]]
      BY <1>1, <3>2, Prefix
    <3>4. g[1 .. i - 1] \in P
      <4>1. 1 .. i - 1 \subseteq 1 .. N
        BY <1>1
      <4> QED
        BY <1>6, <4>1
    <3> QED
      BY <3>3, <3>4 DEF op
  <2>3. ASSUME NEW i \in 1 .. N PROVE f[i] = IF i = 1 THEN s[i] ELSE f[i - 1] \o s[i]
    <3>1. CASE i = 1
      <4>0. i - 1 = 0
        BY <3>1
      <4>1. g[1 .. 1] = <<>> \o s[1]
        BY <2>1, <2>2, <3>1, <4>0
      <4>2. <<>> \o s[1] = s[1]
        BY <1>1, <1>2, <3>1
      <4> QED
        BY <3>1, <4>1, <4>2
    <3>2. CASE i # 1
      <4>1. i - 1 \in 1 .. N
        BY <1>1, <3>2
      <4> QED
        BY <2>2, <3>2, <4>1
    <3> QED
      BY <3>1, <3>2
  <2> HIDE DEF f
  <2>4. f = [i \in 1 .. N |-> f[i]]
    BY DEF f
  <2>5. Rec(f)
    BY <2>3, <2>4 DEF N
  <2> QED
    BY <2>5 DEF f
<1>8. Rec(it)
  BY <1>7 DEF it
<1>9. ASSUME NEW n \in 1 .. N PROVE h[n] = h[n - 1] \o s[n]
  <2>1. it[n] = IF n = 1 THEN s[n] ELSE it[n - 1] \o s[n]
    BY <1>8 DEF N
  <2>2. n \in 0 .. N /\ n - 1 \in 0 .. N /\ n # 0 /\ (n - 1 = 0 <=> n = 1)
    BY <1>1
  <2> QED
    BY <1>1, <1>2, <2>1, <2>2
<1>10. h[0] = <<>> /\ FlattenSeq(s) = h[N]
  BY <1>1, <1>4, <1>5 DEF N
<1> HIDE DEF h
<1>11. 0 .. N \subseteq {n \in 0 .. N : h[n] \in P}
  <2> DEFINE Have == {n \in 0 .. N : h[n] \in P}
  <2>1. 0 \in Have
    BY <1>1, <1>10
  <2>2. ASSUME NEW n \in 0 .. N - 1, n \in Have PROVE n + 1 \in Have
    <3>1. n + 1 \in 1 .. N /\ (n + 1) - 1 = n
      BY <1>1
    <3>2. h[n + 1] = h[(n + 1) - 1] \o s[n + 1]
      BY <1>9, <3>1, Zenon
    <3>3. h[(n + 1) - 1] \in P /\ s[n + 1] \in P /\ n + 1 \in 0 .. N
      BY <1>1, <2>2, <3>1
    <3>4. h[n + 1] \in P
      BY <1>2, <3>2, <3>3, Zenon
    <3> QED
      BY <3>3, <3>4
  <2> HIDE DEF Have
  <2>3. 0 .. N \subseteq Have
    BY <1>1, <2>1, <2>2, UpTo
  <2> QED
    BY <2>3 DEF Have
<1>12. h \in [0 .. N -> P]
  BY <1>11 DEF h
<1> QED
  BY <1>9, <1>10, <1>12 DEF P, N

\* What the pass copies and where it goes on.
LEMMA CopyAs ==
    ASSUME NEW T, NEW text \in Seq(T), NEW e \in EditsOver(T), e.start <= Len(text),
           e.end <= Len(text), NEW r \in [out : Seq(T), cursor : 0 .. Len(text)]
    PROVE  /\ CopyAndReplace(text, r, e) \in [out : Seq(T), cursor : 0 .. Len(text)]
           /\ e.start >= r.cursor /\ e.start <= e.end =>
                  CopyAndReplace(text, r, e) =
                      [out |-> Cat(Cat(r.out, SubSeq(text, r.cursor + 1, e.start)), e.text),
                       cursor |-> e.end]
<1> DEFINE start == LargerOf(e.start, r.cursor)
           end == LargerOf(e.end, start)
           copied == SubSeq(text, r.cursor + 1, start)
<1>1. /\ e.start \in 0 .. Len(text) /\ e.end \in 0 .. Len(text) /\ e.text \in Seq(T)
      /\ r.cursor \in 0 .. Len(text) /\ r.out \in Seq(T) /\ Len(text) \in Nat
      /\ \A i \in 1 .. Len(text) : text[i] \in T
  BY DEF EditsOver
<1>2. start \in 0 .. Len(text) /\ end \in 0 .. Len(text)
  BY <1>1 DEF LargerOf
<1>3. copied \in Seq(T)
  <2>1. r.cursor + 1 \in Int /\ start \in Int /\ \A i \in r.cursor + 1 .. start : text[i] \in T
    BY <1>1, <1>2
  <2> QED
    BY <2>1, SubSeqProperties, Zenon
<1>4. CopyAndReplace(text, r, e) = [out |-> Cat(Cat(r.out, copied), e.text), cursor |-> end]
  BY DEF CopyAndReplace, Cat
<1>5. e.start >= r.cursor /\ e.start <= e.end => start = e.start /\ end = e.end
  BY <1>1 DEF LargerOf
<1> HIDE DEF start, end, copied
<1>6. Cat(r.out, copied) \in Seq(T)
  BY <1>1, <1>3, CatIs
<1>7. Cat(Cat(r.out, copied), e.text) \in Seq(T)
  BY <1>1, <1>6, CatIs
<1>8. CopyAndReplace(text, r, e) \in [out : Seq(T), cursor : 0 .. Len(text)]
  BY <1>2, <1>4, <1>7
<1> QED
  BY <1>4, <1>5, <1>8 DEF copied

LEMMA CopyJoins ==
    ASSUME NEW T, NEW text \in Seq(T), NEW e \in EditsOver(T), e.start <= Len(text),
           e.end <= Len(text), NEW r \in [out : Seq(T), cursor : 0 .. Len(text)],
           e.start >= r.cursor, e.start <= e.end
    PROVE  /\ CopyAndReplace(text, r, e).out
                  = Cat(Cat(r.out, SubSeq(text, r.cursor + 1, e.start)), e.text)
           /\ CopyAndReplace(text, r, e).cursor = e.end
<1>1. CopyAndReplace(text, r, e) =
          [out |-> Cat(Cat(r.out, SubSeq(text, r.cursor + 1, e.start)), e.text), cursor |-> e.end]
  BY CopyAs
<1> QED
  BY <1>1

Applied(text, r) == r.out \o SubSeq(text, r.cursor + 1, Len(text))

\* The pass comes to the edits one after the other.
LEMMA ApplyFolds ==
    ASSUME NEW T, NEW text \in Seq(T), NEW s \in Seq(EditsOver(T)), InDocument(text, s)
    PROVE  \E h \in [0 .. Len(s) -> [out : Seq(T), cursor : 0 .. Len(text)]] :
               /\ h[0] = [out |-> <<>>, cursor |-> 0] /\ Apply(text, s) = Applied(text, h[Len(s)])
               /\ \A n \in 1 .. Len(s) : h[n] = CopyAndReplace(text, h[n - 1], s[n])
<1> DEFINE P == [out : Seq(T), cursor : 0 .. Len(text)]
           b == [out |-> <<>>, cursor |-> 0]
           N == Len(s)
           op == [n \in 1 .. N |-> [p \in P |-> CopyAndReplace(text, p, s[n])]]
           Rec(g) == g = [S \in SUBSET (DOMAIN s) |->
                              IF S = {} THEN b
                              ELSE CopyAndReplace(text, g[S \ {Max(S)}], s[Max(S)])]
           it == CHOOSE g : Rec(g)
           h == [n \in 0 .. N |-> it[1 .. n]]
<1>1. /\ N \in Nat /\ DOMAIN s = 1 .. N /\ b \in P
      /\ \A n \in 1 .. N : /\ s[n] \in EditsOver(T)
                           /\ s[n].start <= Len(text) /\ s[n].end <= Len(text)
  BY DEF InDocument
<1>2. ASSUME NEW p \in P, NEW n \in 1 .. N PROVE CopyAndReplace(text, p, s[n]) \in P
  BY <1>1, CopyAs
<1>3. op \in [1 .. N -> [P -> P]]
  BY <1>1, <1>2
<1>4. Apply(text, s) = Applied(text, it[1 .. N])
  BY <1>1 DEF Apply, Applied, FoldLeft, MapThenFoldSet
<1> HIDE DEF P, b, op, N, it
<1>5. PICK g : Recurs(g, N, b, op) /\ \A S \in SUBSET (1 .. N) : g[S] \in P
  BY <1>1, <1>3, FoldsExist
<1>6. \A S \in SUBSET (1 .. N) : S # {} => Max(S) \in 1 .. N /\ S \ {Max(S)} \in SUBSET (1 .. N)
  BY <1>1, MaxIn
<1>7. Rec(g)
  BY <1>1, <1>5, <1>6 DEF Recurs, op
<1>8. Rec(it)
  BY <1>7 DEF it
<1>9. h[0] = b
  <2>1. 1 .. 0 = {} /\ {} \in SUBSET (DOMAIN s)
    OBVIOUS
  <2> QED
    BY <1>1, <1>8, <2>1
<1>10. ASSUME NEW n \in 1 .. N PROVE h[n] = CopyAndReplace(text, h[n - 1], s[n])
  <2>1. 1 .. n \in SUBSET (DOMAIN s) /\ 1 .. n # {}
    BY <1>1, Prefix
  <2>2. it[1 .. n] = CopyAndReplace(text, it[(1 .. n) \ {Max(1 .. n)}], s[Max(1 .. n)])
    BY <1>8, <2>1
  <2>3. it[1 .. n] = CopyAndReplace(text, it[1 .. n - 1], s[n])
    BY <1>1, <2>2, Prefix
  <2> QED
    BY <1>1, <2>3, Prefix
<1> HIDE DEF h
<1>11. 0 .. N \subseteq {n \in 0 .. N : h[n] \in P}
  <2> DEFINE Have == {n \in 0 .. N : h[n] \in P}
  <2>1. 0 \in Have
    BY <1>1, <1>9
  <2>2. ASSUME NEW n \in 0 .. N - 1, n \in Have PROVE n + 1 \in Have
    <3>1. n + 1 \in 1 .. N /\ (n + 1) - 1 = n
      BY <1>1
    <3> QED
      BY <1>1, <1>2, <1>10, <2>2, <3>1
  <2> HIDE DEF Have
  <2>3. 0 .. N \subseteq Have
    BY <1>1, <2>1, <2>2, UpTo
  <2> QED
    BY <2>3 DEF Have
<1>12. h \in [0 .. N -> P] /\ h[N] = it[1 .. N]
  BY <1>1, <1>11 DEF h
<1> QED
  BY <1>4, <1>9, <1>10, <1>12 DEF P, b, N

-----------------------------------------------------------------------------
(* What stands at a gap of the text.                                       *)

InsertedAt(edits, p) ==
    LET some == {e \in edits : e.start = p /\ e.end = p}
    IN  IF some = {} THEN <<>> ELSE (CHOOSE e \in some : TRUE).text

ReplacedAt(edits, p) ==
    LET some == {e \in edits : e.start = p /\ e.end > p}
    IN  IF some = {} THEN <<>> ELSE (CHOOSE e \in some : TRUE).text

Covered(edits, p) == \E e \in edits : e.start <= p /\ p < e.end

LEMMA AroundAs ==
    ASSUME NEW text, NEW edits, NEW p
    PROVE  Around(text, edits, p) =
               Cat(Cat(InsertedAt(edits, p), ReplacedAt(edits, p)),
                   IF Covered(edits, p) \/ p = Len(text) THEN <<>> ELSE <<text[p + 1]>>)
BY DEF Around, InsertedAt, ReplacedAt, Covered, Cat

\* A list of edits that fits a text.
Fits(T, text, t) ==
    /\ text \in Seq(T) /\ t \in Seq(EditsOver(T))
    /\ Separate(t) /\ InDocument(text, t)

LEMMA Fitting ==
    ASSUME NEW T, NEW text, NEW t, Fits(T, text, t)
    PROVE  /\ Len(text) \in Nat /\ Len(t) \in Nat /\ DOMAIN t = 1 .. Len(t)
           /\ \A i \in 1 .. Len(t) : /\ t[i].start \in Nat /\ t[i].end \in Nat /\ t[i].text \in Seq(T)
                                     /\ t[i].start <= t[i].end /\ t[i].end <= Len(text)
           /\ \A i, j \in 1 .. Len(t) : i < j => /\ t[i].end <= t[j].start
                                                 /\ t[i].start # t[j].start \/ t[i].end # t[j].end
<1>1. Len(text) \in Nat /\ Len(t) \in Nat /\ DOMAIN t = 1 .. Len(t)
      /\ \A i \in 1 .. Len(t) : t[i] \in EditsOver(T)
  BY DEF Fits
<1> QED
  BY <1>1 DEF Fits, Separate, Forward, InDocument, EditsOver, SameRange

\* At most one edit of a list that fits inserts at a place, and at most one replaces from there.
LEMMA InsertedAtIs ==
    ASSUME NEW T, NEW text, NEW t, Fits(T, text, t), NEW p \in Nat
    PROVE  /\ \A i \in DOMAIN t : t[i].start = p /\ t[i].end = p => InsertedAt(ToSet(t), p) = t[i].text
           /\ (\A i \in DOMAIN t : ~(t[i].start = p /\ t[i].end = p)) => InsertedAt(ToSet(t), p) = <<>>
<1> DEFINE some == {e \in ToSet(t) : e.start = p /\ e.end = p}
<1>1. ASSUME NEW i \in DOMAIN t, t[i].start = p, t[i].end = p PROVE some = {t[i]}
  <2>1. \A j \in DOMAIN t : t[j].start = p /\ t[j].end = p => j = i
    BY <1>1, Fitting
  <2> QED
    BY <1>1, <2>1 DEF ToSet
<1>2. (\A i \in DOMAIN t : ~(t[i].start = p /\ t[i].end = p)) => some = {}
  BY DEF ToSet
<1>3. InsertedAt(ToSet(t), p) = IF some = {} THEN <<>> ELSE (CHOOSE e \in some : TRUE).text
  BY DEF InsertedAt
<1> HIDE DEF some
<1>4. \A e : some = {e} => some # {} /\ (CHOOSE x \in some : TRUE) = e
  OBVIOUS
<1> QED
  BY <1>1, <1>2, <1>3, <1>4

LEMMA ReplacedAtIs ==
    ASSUME NEW T, NEW text, NEW t, Fits(T, text, t), NEW p \in Nat
    PROVE  /\ \A i \in DOMAIN t : t[i].start = p /\ t[i].end > p => ReplacedAt(ToSet(t), p) = t[i].text
           /\ (\A i \in DOMAIN t : ~(t[i].start = p /\ t[i].end > p)) => ReplacedAt(ToSet(t), p) = <<>>
<1> DEFINE some == {e \in ToSet(t) : e.start = p /\ e.end > p}
<1>1. ASSUME NEW i \in DOMAIN t, t[i].start = p, t[i].end > p PROVE some = {t[i]}
  <2>1. ASSUME NEW j \in DOMAIN t, t[j].start = p, t[j].end > p PROVE j = i
    <3>1. i \in 1 .. Len(t) /\ j \in 1 .. Len(t) /\ Len(t) \in Nat
      BY Fitting
    <3>2. ~(i < j)
      BY <1>1, <2>1, <3>1, Fitting
    <3>3. ~(j < i)
      BY <1>1, <2>1, <3>1, Fitting
    <3> QED
      BY <3>1, <3>2, <3>3
  <2> QED
    BY <1>1, <2>1 DEF ToSet
<1>2. (\A i \in DOMAIN t : ~(t[i].start = p /\ t[i].end > p)) => some = {}
  BY DEF ToSet
<1>3. ReplacedAt(ToSet(t), p) = IF some = {} THEN <<>> ELSE (CHOOSE e \in some : TRUE).text
  BY DEF ReplacedAt
<1> HIDE DEF some
<1>4. \A e : some = {e} => some # {} /\ (CHOOSE x \in some : TRUE) = e
  OBVIOUS
<1> QED
  BY <1>1, <1>2, <1>3, <1>4

-----------------------------------------------------------------------------

\* Where the first n edits end, what the last of them has inserted there, where the next begins.
Reached(t, n) == IF n = 0 THEN 0 ELSE t[n].end
Pending(t, n) == IF n > 0 /\ t[n].start = t[n].end THEN t[n].text ELSE <<>>
Ahead(text, t, n) == IF n < Len(t) THEN t[n + 1].start ELSE Len(text)

\* The next edit begins where the last one ends, or later.
LEMMA Bounds ==
    ASSUME NEW T, NEW text, NEW t, Fits(T, text, t), NEW n \in 0 .. Len(t)
    PROVE  /\ Reached(t, n) \in Nat /\ Ahead(text, t, n) \in Nat /\ Len(text) \in Nat
           /\ Reached(t, n) <= Ahead(text, t, n) /\ Ahead(text, t, n) <= Len(text)
           /\ Pending(t, n) \in Seq(T)
<1>1. n \in Nat /\ n <= Len(t) /\ Len(t) \in Nat /\ Len(text) \in Nat
  BY Fitting
<1>2. CASE n = 0
  BY <1>1, <1>2, Fitting DEF Reached, Pending, Ahead
<1>3. CASE n # 0
  <2>1. n \in 1 .. Len(t)
    BY <1>1, <1>3
  <2>2. CASE n = Len(t)
    BY <1>1, <1>3, <2>1, <2>2, Fitting DEF Reached, Pending, Ahead
  <2>3. CASE n < Len(t)
    <3>1. n + 1 \in 1 .. Len(t) /\ n < n + 1
      BY <1>1, <2>3
    <3> QED
      BY <1>1, <1>3, <2>1, <2>3, <3>1, Fitting DEF Reached, Pending, Ahead
  <2> QED
    BY <1>1, <2>2, <2>3
<1> QED
  BY <1>2, <1>3

\* From the end of an edit to the start of the next: nothing is inserted but by that edit,
LEMMA InsertedBetween ==
    ASSUME NEW T, NEW text, NEW t, Fits(T, text, t), NEW n \in 0 .. Len(t),
           NEW q \in Reached(t, n) .. Ahead(text, t, n),
           n < Len(t) /\ q = t[n + 1].start => t[n + 1].end > q
    PROVE  InsertedAt(ToSet(t), q) = IF q = Reached(t, n) THEN Pending(t, n) ELSE <<>>
<1>1. /\ n \in Nat /\ n <= Len(t) /\ Len(t) \in Nat /\ q \in Nat /\ DOMAIN t = 1 .. Len(t)
      /\ Reached(t, n) \in Nat /\ Ahead(text, t, n) \in Nat
      /\ Reached(t, n) <= q /\ q <= Ahead(text, t, n)
  BY Fitting, Bounds
<1>2. ASSUME NEW i \in 1 .. Len(t), t[i].start = q, t[i].end = q
      PROVE  i = n
  <2>1. ~(n < i)
    <3> SUFFICES ASSUME n < i PROVE FALSE
        OBVIOUS
    <3>1. n < Len(t) /\ n + 1 \in 1 .. Len(t) /\ q <= t[n + 1].start
      BY <1>1 DEF Ahead
    <3>2. i # n + 1
      BY <1>1, <1>2, <3>1
    <3>3. n + 1 < i
      BY <1>1, <3>2
    <3>4. t[n + 1].end <= q
      BY <1>2, <3>1, <3>3, Fitting
    <3>5. t[n + 1].start <= t[n + 1].end /\ t[n + 1].start \in Nat /\ t[n + 1].end \in Nat
      BY <3>1, Fitting
    <3> QED
      BY <1>1, <3>1, <3>4, <3>5
  <2>2. ~(i < n)
    <3> SUFFICES ASSUME i < n PROVE FALSE
        OBVIOUS
    <3>1. n \in 1 .. Len(t) /\ t[n].end <= q /\ n # 0
      BY <1>1 DEF Reached
    <3>2. t[i].end <= t[n].start /\ (t[i].start # t[n].start \/ t[i].end # t[n].end)
      BY <3>1, Fitting
    <3>3. t[n].start <= t[n].end /\ t[n].start \in Nat /\ t[n].end \in Nat
      BY <3>1, Fitting
    <3> QED
      BY <1>1, <1>2, <3>1, <3>2, <3>3
  <2> QED
    BY <1>1, <2>1, <2>2
<1>3. CASE n # 0 /\ t[n].start = q /\ t[n].end = q
  <2>1. n \in DOMAIN t /\ Reached(t, n) = q /\ Pending(t, n) = t[n].text
    BY <1>1, <1>3 DEF Reached, Pending
  <2> QED
    BY <1>1, <1>3, <2>1, InsertedAtIs
<1>4. CASE ~(n # 0 /\ t[n].start = q /\ t[n].end = q)
  <2>1. \A i \in DOMAIN t : ~(t[i].start = q /\ t[i].end = q)
    BY <1>1, <1>2, <1>4
  <2>2. InsertedAt(ToSet(t), q) = <<>>
    BY <1>1, <2>1, InsertedAtIs
  <2>3. q = Reached(t, n) => Pending(t, n) = <<>>
    BY <1>1, <1>4 DEF Reached, Pending
  <2> QED
    BY <2>2, <2>3
<1> QED
  BY <1>3, <1>4

\* and nothing is covered or replaced.
LEMMA NothingBetween ==
    ASSUME NEW T, NEW text, NEW t, Fits(T, text, t), NEW n \in 0 .. Len(t),
           NEW q \in Reached(t, n) .. Ahead(text, t, n), n < Len(t) => q < t[n + 1].start
    PROVE  ReplacedAt(ToSet(t), q) = <<>> /\ ~Covered(ToSet(t), q)
<1>1. /\ n \in Nat /\ n <= Len(t) /\ Len(t) \in Nat /\ q \in Nat /\ DOMAIN t = 1 .. Len(t)
      /\ Reached(t, n) \in Nat /\ Ahead(text, t, n) \in Nat
      /\ Reached(t, n) <= q /\ q <= Ahead(text, t, n)
  BY Fitting, Bounds
<1>2. ASSUME NEW i \in 1 .. Len(t) PROVE t[i].end <= q \/ q < t[i].start
  <2>1. CASE i <= n
    <3>1. n \in 1 .. Len(t) /\ t[n].end <= q
      BY <1>1, <2>1 DEF Reached
    <3>2. t[i].start \in Nat /\ t[i].end \in Nat /\ t[n].start \in Nat /\ t[n].end \in Nat
          /\ t[n].start <= t[n].end /\ (i < n => t[i].end <= t[n].start)
      BY <3>1, Fitting
    <3> QED
      BY <1>1, <2>1, <3>1, <3>2
  <2>2. CASE n < i
    <3>1. n < Len(t) /\ n + 1 \in 1 .. Len(t)
      BY <1>1, <2>2
    <3>2. t[n + 1].start \in Nat /\ t[n + 1].end \in Nat /\ t[n + 1].start <= t[n + 1].end
          /\ t[i].start \in Nat /\ (n + 1 < i => t[n + 1].end <= t[i].start)
      BY <3>1, Fitting
    <3> QED
      BY <1>1, <2>2, <3>1, <3>2
  <2> QED
    BY <1>1, <2>1, <2>2
<1>3. \A i \in DOMAIN t : t[i].start \in Nat /\ t[i].end \in Nat
  BY <1>1, Fitting
<1>4. \A i \in DOMAIN t : ~(t[i].start = q /\ t[i].end > q) /\ ~(t[i].start <= q /\ q < t[i].end)
  BY <1>1, <1>2, <1>3
<1> QED
  BY <1>1, <1>4, ReplacedAtIs DEF Covered, ToSet

\* Inside the range of an edit there is nothing but its text, which stands at its start.
LEMMA CoveredIs ==
    ASSUME NEW T, NEW text, NEW t, Fits(T, text, t), NEW n \in 1 .. Len(t),
           NEW q \in Nat, t[n].start <= q, q < t[n].end
    PROVE  /\ Covered(ToSet(t), q)
           /\ q = t[n].start => ReplacedAt(ToSet(t), q) = t[n].text
           /\ q # t[n].start => ReplacedAt(ToSet(t), q) = <<>> /\ InsertedAt(ToSet(t), q) = <<>>
<1>1. Len(t) \in Nat /\ DOMAIN t = 1 .. Len(t) /\ t[n].start \in Nat /\ t[n].end \in Nat
  BY Fitting
<1>2. Covered(ToSet(t), q)
  BY <1>1 DEF Covered, ToSet
<1>3. q = t[n].start => ReplacedAt(ToSet(t), q) = t[n].text
  BY <1>1, ReplacedAtIs
<1>4. ASSUME q # t[n].start, NEW i \in DOMAIN t PROVE t[i].start # q
  <2>1. i \in 1 .. Len(t) /\ t[i].start \in Nat /\ t[i].end \in Nat /\ t[i].start <= t[i].end
    BY <1>1, Fitting
  <2>2. i < n => t[i].end <= t[n].start
    BY <2>1, Fitting
  <2>3. n < i => t[n].end <= t[i].start
    BY <2>1, Fitting
  <2> QED
    BY <1>1, <1>4, <2>1, <2>2, <2>3
<1>5. q # t[n].start => ReplacedAt(ToSet(t), q) = <<>> /\ InsertedAt(ToSet(t), q) = <<>>
  BY <1>4, ReplacedAtIs, InsertedAtIs
<1> QED
  BY <1>2, <1>3, <1>5

-----------------------------------------------------------------------------
(* One pass with a cursor.                                                 *)

\* What the gaps of a text hold, joined up to each of them.
Joins(T, text, edits, H) ==
    /\ H \in [0 .. Len(text) + 1 -> Seq(T)]
    /\ H[0] = <<>>
    /\ \A q \in 0 .. Len(text) : H[q + 1] = Cat(H[q], Around(text, edits, q))

HeldBack(t, n, q) == IF q = Reached(t, n) THEN Pending(t, n) ELSE <<>>

LEMMA AroundCopied ==
    ASSUME NEW T, NEW text, NEW t, Fits(T, text, t), NEW n \in 0 .. Len(t),
           NEW q \in Reached(t, n) .. Ahead(text, t, n), n < Len(t) => q < t[n + 1].start
    PROVE  /\ HeldBack(t, n, q) \in Seq(T)
           /\ Around(text, ToSet(t), q) =
                  Cat(HeldBack(t, n, q), IF q = Len(text) THEN <<>> ELSE <<text[q + 1]>>)
<1> DEFINE J == HeldBack(t, n, q)
           tok == IF q = Len(text) THEN <<>> ELSE <<text[q + 1]>>
<1>1. J \in Seq(T)
  <2>1. <<>> \in Seq(T)
    OBVIOUS
  <2> QED
    BY <2>1, Bounds DEF HeldBack
<1>2. n < Len(t) /\ q = t[n + 1].start => t[n + 1].end > q
  <2> SUFFICES ASSUME n < Len(t), q = t[n + 1].start PROVE FALSE
      OBVIOUS
  <2>1. n + 1 \in 1 .. Len(t)
    OBVIOUS
  <2> QED
    BY <2>1, Fitting
<1>3. InsertedAt(ToSet(t), q) = J
  BY <1>2, InsertedBetween DEF HeldBack
<1>4. ReplacedAt(ToSet(t), q) = <<>> /\ ~Covered(ToSet(t), q)
  BY NothingBetween
<1> HIDE DEF J, tok
<1>5. Around(text, ToSet(t), q) = Cat(Cat(J, <<>>), tok)
  BY <1>3, <1>4, AroundAs DEF tok
<1>6. Cat(J, <<>>) = J
  BY <1>1, CatEmpty
<1> QED
  BY <1>1, <1>5, <1>6 DEF J, tok

\* Copying the text up to the next edit joins the gaps up to it.
LEMMA CopiesGaps ==
    ASSUME NEW T, NEW text, NEW t, Fits(T, text, t), NEW n \in 0 .. Len(t),
           NEW H, Joins(T, text, ToSet(t), H)
    PROVE  \A q \in Reached(t, n) .. Ahead(text, t, n) :
               Cat(Cat(H[Reached(t, n)], Pending(t, n)), SubSeq(text, Reached(t, n) + 1, q))
                   = Cat(H[q], HeldBack(t, n, q))
<1> DEFINE c == Reached(t, n)
           a == Ahead(text, t, n)
           X == Cat(H[c], Pending(t, n))
           L == Len(text)
<1>1. /\ c \in Nat /\ a \in Nat /\ L \in Nat /\ c <= a /\ a <= L
      /\ Pending(t, n) \in Seq(T) /\ text \in Seq(T)
      /\ \A q \in 0 .. L + 1 : H[q] \in Seq(T)
  BY Bounds DEF Fits, Joins
<1>2. X \in Seq(T)
  <2>1. H[c] \in Seq(T)
    BY <1>1
  <2> QED
    BY <1>1, <2>1, CatIs, Zenon
<1>3. ASSUME NEW q \in c .. a PROVE HeldBack(t, n, q) \in Seq(T)
  <2>1. <<>> \in Seq(T)
    OBVIOUS
  <2> QED
    BY <1>1, <2>1 DEF HeldBack
<1>4. n < Len(t) => a = t[n + 1].start
  BY DEF Ahead
<1> HIDE DEF c, a, X, L
<1> DEFINE Same(q) == Cat(X, SubSeq(text, c + 1, q)) = Cat(H[q], HeldBack(t, n, q))
           Have == {k \in 0 .. a - c : Same(c + k)}
<1>5. 0 \in Have
  <2>1. SubSeq(text, c + 1, c) = <<>>
    BY <1>1, SubSeqEmpty
  <2>2. Cat(X, <<>>) = X
    BY <1>2, CatEmpty
  <2>3. X = Cat(H[c], HeldBack(t, n, c))
    BY DEF X, c, HeldBack
  <2>4. c + 0 = c /\ 0 \in 0 .. a - c
    BY <1>1
  <2> QED
    BY <2>1, <2>2, <2>3, <2>4
<1>6. ASSUME NEW k \in 0 .. (a - c) - 1, k \in Have PROVE k + 1 \in Have
  <2> DEFINE q == c + k
             J == HeldBack(t, n, q)
             tok == <<text[q + 1]>>
             s == SubSeq(text, c + 1, q)
  <2>1. /\ q \in c .. a /\ q < a /\ q + 1 \in c .. a /\ q # L /\ q + 1 # c /\ q \in 0 .. L
        /\ q \in 0 .. L + 1 /\ q + 1 \in 0 .. L + 1 /\ q + 1 \in c + 1 .. L /\ c + 1 \in 1 .. L
        /\ q + 1 \in 1 .. L /\ (q + 1) - 1 = q /\ c + (k + 1) = q + 1
    BY <1>1
  <2>2. Cat(X, s) = Cat(H[q], J)
    BY <1>6
  <2>3. Around(text, ToSet(t), q) = Cat(J, tok) /\ J \in Seq(T)
    BY <1>4, <2>1, AroundCopied DEF c, a, L
  <2> HIDE DEF q, J, s, tok
  <2>4. text[q + 1] \in T /\ tok \in Seq(T)
    <3>1. text[q + 1] \in T
      BY <1>1, <2>1 DEF L
    <3> QED
      BY <3>1 DEF tok
  <2>5. SubSeq(text, c + 1, q + 1) = Cat(s, tok)
    <3>1. SubSeq(text, c + 1, q + 1) = Cat(SubSeq(text, c + 1, (q + 1) - 1), <<text[q + 1]>>)
      BY <1>1, <2>1, SubSeqRecursiveSecond, Zenon DEF L, Cat
    <3> QED
      BY <2>1, <3>1 DEF s, tok
  <2>6. s \in Seq(T)
    <3>1. c + 1 \in Int /\ q \in Int /\ \A i \in c + 1 .. q : text[i] \in T
      BY <1>1, <2>1 DEF L
    <3> QED
      BY <3>1, SubSeqProperties, Zenon DEF s
  <2>7. H[q] \in Seq(T) /\ H[q + 1] \in Seq(T)
    BY <1>1, <2>1
  <2>8. Cat(Cat(X, s), tok) = Cat(X, Cat(s, tok))
    BY <1>2, <2>4, <2>6, CatAgain
  <2>9. Cat(Cat(H[q], J), tok) = Cat(H[q], Cat(J, tok))
    BY <2>3, <2>4, <2>7, CatAgain
  <2>10. H[q + 1] = Cat(H[q], Cat(J, tok))
    BY <2>1, <2>3 DEF Joins, L
  <2>11. HeldBack(t, n, q + 1) = <<>> /\ Cat(H[q + 1], <<>>) = H[q + 1]
    BY <2>1, <2>7, CatEmpty DEF HeldBack, c
  <2>12. Cat(X, SubSeq(text, c + 1, q + 1)) = Cat(H[q + 1], HeldBack(t, n, q + 1))
    BY <2>2, <2>5, <2>8, <2>9, <2>10, <2>11, Zenon
  <2>13. k + 1 \in 0 .. a - c
    BY <1>1
  <2> QED
    BY <2>1, <2>12, <2>13
<1>7. 0 .. a - c \subseteq Have
  <2> HIDE DEF Have
  <2>1. a - c \in Nat
    BY <1>1
  <2> QED
    BY <1>5, <1>6, <2>1, UpTo
<1>8. ASSUME NEW q \in c .. a PROVE Same(q)
  <2>1. q - c \in 0 .. a - c /\ c + (q - c) = q
    BY <1>1
  <2>2. q - c \in Have
    BY <1>7, <2>1
  <2> QED
    BY <2>1, <2>2
<1> QED
  BY <1>8 DEF c, a, X

\* The new text of the next edit joins the gaps up to its end.
LEMMA ReplacesGaps ==
    ASSUME NEW T, NEW text, NEW t, Fits(T, text, t), NEW n \in 0 .. Len(t), n < Len(t),
           NEW H, Joins(T, text, ToSet(t), H)
    PROVE  Cat(Cat(H[t[n + 1].start], HeldBack(t, n, t[n + 1].start)), t[n + 1].text)
               = Cat(H[t[n + 1].end], Pending(t, n + 1))
<1> DEFINE e == t[n + 1]
           s == e.start
           J == HeldBack(t, n, s)
           L == Len(text)
           E == ToSet(t)
<1>1. /\ n \in Nat /\ n + 1 \in 1 .. Len(t) /\ n + 1 > 0 /\ n + 1 \in 0 .. Len(t)
      /\ s \in Nat /\ e.end \in Nat /\ s <= e.end /\ e.end <= L /\ L \in Nat
      /\ e.text \in Seq(T) /\ Len(t) \in Nat
  <2>1. n + 1 \in 1 .. Len(t) /\ n \in Nat /\ Len(t) \in Nat
    BY Fitting
  <2> QED
    BY <2>1, Fitting
<1>2. /\ Ahead(text, t, n) = s /\ s \in Reached(t, n) .. Ahead(text, t, n)
      /\ \A q \in 0 .. L + 1 : H[q] \in Seq(T)
  <2>1. Ahead(text, t, n) = s
    BY DEF Ahead
  <2>2. Reached(t, n) \in Nat /\ Reached(t, n) <= Ahead(text, t, n)
    BY Bounds
  <2>3. \A q \in 0 .. L + 1 : H[q] \in Seq(T)
    BY DEF Joins
  <2> HIDE DEF s, e, L
  <2> QED
    BY <1>1, <2>1, <2>2, <2>3
<1>3. J \in Seq(T)
  <2>1. <<>> \in Seq(T)
    OBVIOUS
  <2> QED
    BY <2>1, Bounds DEF HeldBack
<1>4. H[s] \in Seq(T) /\ Cat(H[s], <<>>) = H[s] /\ H[e.end] \in Seq(T)
  <2>1. H[s] \in Seq(T) /\ H[e.end] \in Seq(T)
    <3>1. s \in 0 .. L + 1 /\ e.end \in 0 .. L + 1
      BY <1>1
    <3> QED
      BY <1>2, <3>1
  <2> HIDE DEF s, e
  <2> QED
    BY <2>1, CatEmpty
<1>5. CASE s = e.end
  <2>1. Pending(t, n + 1) = e.text
    BY <1>1, <1>5 DEF Pending
  <2>2. J = <<>>
    <3> SUFFICES ASSUME s = Reached(t, n), n > 0, t[n].start = t[n].end PROVE FALSE
        BY DEF HeldBack, Pending
    <3>1. n \in 1 .. Len(t) /\ n < n + 1 /\ t[n].end = s
      BY <1>1 DEF Reached
    <3> QED
      BY <1>1, <1>5, <3>1, Fitting
  <2> HIDE DEF J, s, e
  <2>3. Cat(Cat(H[s], J), e.text) = Cat(H[e.end], Pending(t, n + 1))
    BY <1>4, <1>5, <2>1, <2>2
  <2> QED
    BY <2>3, Zenon DEF J, s, e
<1>6. CASE s < e.end
  <2>1. Pending(t, n + 1) = <<>>
    BY <1>1, <1>6 DEF Pending
  <2>2. s \in 0 .. L /\ s \in Nat /\ s # L /\ s + 1 \in 0 .. L + 1
    BY <1>1, <1>6
  <2>3. InsertedAt(E, s) = J
    BY <1>1, <1>2, <1>6, InsertedBetween DEF HeldBack
  <2>4. ReplacedAt(E, s) = e.text /\ Covered(E, s)
    BY <1>1, <1>6, CoveredIs
  <2>5. Around(text, E, s) = Cat(Cat(J, e.text), <<>>)
    BY <2>3, <2>4, AroundAs
  <2>6. \A q \in s + 1 .. e.end - 1 : Around(text, E, q) = Cat(Cat(<<>>, <<>>), <<>>)
    <3> SUFFICES ASSUME NEW q \in s + 1 .. e.end - 1
                 PROVE  Around(text, E, q) = Cat(Cat(<<>>, <<>>), <<>>)
        OBVIOUS
    <3>1. q \in Nat /\ s <= q /\ q < e.end /\ q # s
      BY <1>1
    <3>2. ReplacedAt(E, q) = <<>> /\ InsertedAt(E, q) = <<>> /\ Covered(E, q)
      BY <1>1, <3>1, CoveredIs
    <3> QED
      BY <3>2, AroundAs
  <2> HIDE DEF J, s, e, E, L
  <2>7. Cat(Cat(J, e.text), <<>>) = Cat(J, e.text)
    <3>1. Cat(J, e.text) \in Seq(T)
      BY <1>1, <1>3, CatIs, Zenon
    <3> QED
      BY <3>1, CatEmpty, Zenon
  <2>8. H[s + 1] = Cat(H[s], Cat(J, e.text))
    BY <2>2, <2>5, <2>7 DEF Joins, L, E
  <2>9. Cat(Cat(H[s], J), e.text) = Cat(H[s], Cat(J, e.text))
    BY <1>1, <1>3, <1>4, CatAgain
  <2> DEFINE Have == {k \in 0 .. (e.end - s) - 1 : H[s + 1 + k] = H[s + 1]}
  <2>10. 0 \in Have
    <3>1. s + 1 + 0 = s + 1 /\ 0 \in 0 .. (e.end - s) - 1
      BY <1>1, <1>6
    <3> QED
      BY <3>1
  <2>11. ASSUME NEW k \in 0 .. ((e.end - s) - 1) - 1, k \in Have PROVE k + 1 \in Have
    <3> DEFINE q == s + 1 + k
    <3>1. /\ q \in s + 1 .. e.end - 1 /\ q \in 0 .. L /\ q \in 0 .. L + 1 /\ s + 1 + (k + 1) = q + 1
          /\ k + 1 \in 0 .. (e.end - s) - 1
      BY <1>1, <1>6
    <3>2. H[q] = H[s + 1]
      BY <2>11
    <3> HIDE DEF q
    <3>3. H[q + 1] = Cat(H[q], Around(text, E, q))
      BY <3>1 DEF Joins, L, E
    <3>4. Cat(Cat(<<>>, <<>>), <<>>) = <<>>
      <4>1. <<>> \in Seq(T)
        OBVIOUS
      <4>2. Cat(<<>>, <<>>) = <<>>
        BY <4>1, CatEmpty
      <4> QED
        BY <4>2
    <3>5. Cat(H[q], <<>>) = H[q]
      BY <1>2, <3>1, CatEmpty
    <3>6. H[q + 1] = H[s + 1]
      BY <2>6, <3>1, <3>2, <3>3, <3>4, <3>5
    <3> QED
      BY <3>1, <3>6
  <2>12. 0 .. (e.end - s) - 1 \subseteq Have
    <3> HIDE DEF Have
    <3>1. (e.end - s) - 1 \in Nat
      BY <1>1, <1>6
    <3> QED
      BY <2>10, <2>11, <3>1, UpTo
  <2>13. (e.end - s) - 1 \in 0 .. (e.end - s) - 1 /\ s + 1 + ((e.end - s) - 1) = e.end
    BY <1>1, <1>6
  <2>14. (e.end - s) - 1 \in Have
    BY <2>12, <2>13
  <2>15. H[e.end] = H[s + 1]
    BY <2>13, <2>14
  <2>16. Cat(H[e.end], <<>>) = H[e.end]
    BY <1>4, CatEmpty
  <2>17. Cat(Cat(H[s], J), e.text) = Cat(H[e.end], Pending(t, n + 1))
    BY <2>1, <2>8, <2>9, <2>15, <2>16
  <2> QED
    BY <2>17, Zenon DEF s, e, J
<1>7. s = e.end \/ s < e.end
  <2> HIDE DEF s, e
  <2> QED
    BY <1>1
<1> QED
  BY <1>5, <1>6, <1>7, Zenon

\* All the edits at once are the gaps of the text, joined.
LEMMA Simultaneous ==
    ASSUME NEW T, NEW text, NEW t, Fits(T, text, t)
    PROVE  \E H : /\ Joins(T, text, ToSet(t), H)
                  /\ Simultaneously(text, ToSet(t)) = H[Len(text) + 1]
<1> DEFINE E == ToSet(t)
           s == [i \in 1 .. Len(text) + 1 |-> Around(text, E, i - 1)]
<1>1. Len(text) \in Nat /\ Len(t) \in Nat /\ DOMAIN t = 1 .. Len(t) /\ text \in Seq(T) /\ <<>> \in Seq(T)
  BY Fitting DEF Fits
<1>2. ASSUME NEW p \in 0 .. Len(text) PROVE Around(text, E, p) \in Seq(T)
  <2>1. p \in Nat /\ \A i \in DOMAIN t : t[i].text \in Seq(T)
    BY <1>1, Fitting
  <2>10. InsertedAt(E, p) \in Seq(T)
    <3>1. /\ \A i \in DOMAIN t : t[i].start = p /\ t[i].end = p => InsertedAt(E, p) = t[i].text
          /\ (\A i \in DOMAIN t : ~(t[i].start = p /\ t[i].end = p)) => InsertedAt(E, p) = <<>>
      BY <2>1, InsertedAtIs, Zenon
    <3> HIDE DEF E
    <3> QED
      BY <1>1, <2>1, <3>1
  <2>11. ReplacedAt(E, p) \in Seq(T)
    <3>1. /\ \A i \in DOMAIN t : t[i].start = p /\ t[i].end > p => ReplacedAt(E, p) = t[i].text
          /\ (\A i \in DOMAIN t : ~(t[i].start = p /\ t[i].end > p)) => ReplacedAt(E, p) = <<>>
      BY <2>1, ReplacedAtIs, Zenon
    <3> HIDE DEF E
    <3> QED
      BY <1>1, <2>1, <3>1
  <2> DEFINE tok == IF Covered(E, p) \/ p = Len(text) THEN <<>> ELSE <<text[p + 1]>>
  <2>2. tok \in Seq(T)
    <3>1. p # Len(text) => text[p + 1] \in T
      BY <1>1
    <3>2. p # Len(text) => <<text[p + 1]>> \in Seq(T)
      BY <3>1
    <3> QED
      BY <1>1, <3>2
  <2> HIDE DEF tok
  <2>3. Cat(InsertedAt(E, p), ReplacedAt(E, p)) \in Seq(T)
    BY <2>10, <2>11, CatIs, Zenon
  <2>4. Cat(Cat(InsertedAt(E, p), ReplacedAt(E, p)), tok) \in Seq(T)
    BY <2>2, <2>3, CatIs, Zenon
  <2> QED
    BY <2>4, AroundAs DEF tok
<1>3. \A i \in 1 .. Len(text) + 1 : i - 1 \in 0 .. Len(text)
  BY <1>1
<1>4. s \in Seq(Seq(T)) /\ Len(s) = Len(text) + 1
  BY <1>1, <1>2, <1>3
<1>5. PICK h \in [0 .. Len(s) -> Seq(T)] :
          /\ h[0] = <<>> /\ FlattenSeq(s) = h[Len(s)]
          /\ \A n \in 1 .. Len(s) : h[n] = Cat(h[n - 1], s[n])
  BY <1>4, Flattens DEF Cat
<1>6. ASSUME NEW q \in 0 .. Len(text) PROVE h[q + 1] = Cat(h[q], Around(text, E, q))
  <2>1. q + 1 \in 1 .. Len(s) /\ (q + 1) - 1 = q /\ q + 1 \in 1 .. Len(text) + 1
    BY <1>1, <1>4
  <2>2. h[q + 1] = Cat(h[(q + 1) - 1], s[q + 1])
    BY <1>5, <2>1, Zenon
  <2>3. s[q + 1] = Around(text, E, (q + 1) - 1)
    BY <2>1
  <2> QED
    BY <2>1, <2>2, <2>3
<1>7. FlattenSeq(s) = Simultaneously(text, E)
  BY DEF Simultaneously
<1> HIDE DEF s, E
<1>8. Joins(T, text, E, h)
  BY <1>4, <1>5, <1>6 DEF Joins
<1> QED
  BY <1>4, <1>5, <1>7, <1>8 DEF E

\* For any text and any list of edits the plan accepts and the text has room for: one pass with
\* a cursor has the effect of all of them at once, each in the coordinates of the original text
\* (edits.rs apply).
THEOREM ApplyMeans ==
    ASSUME NEW T, NEW text, NEW t, Fits(T, text, t)
    PROVE  Apply(text, t) = Simultaneously(text, ToSet(t)) /\ Apply(text, t) \in Seq(T)
<1>0. text \in Seq(T) /\ t \in Seq(EditsOver(T)) /\ InDocument(text, t)
  BY DEF Fits
<1>1. /\ text \in Seq(T) /\ t \in Seq(EditsOver(T)) /\ InDocument(text, t)
      /\ Len(text) \in Nat /\ Len(t) \in Nat /\ DOMAIN t = 1 .. Len(t)
      /\ \A i \in 1 .. Len(t) : t[i] \in EditsOver(T)
  BY Fitting DEF Fits
<1>2. PICK H : Joins(T, text, ToSet(t), H) /\ Simultaneously(text, ToSet(t)) = H[Len(text) + 1]
  BY Simultaneous
<1>3. PICK h \in [0 .. Len(t) -> [out : Seq(T), cursor : 0 .. Len(text)]] :
          /\ h[0] = [out |-> <<>>, cursor |-> 0] /\ Apply(text, t) = Applied(text, h[Len(t)])
          /\ \A n \in 1 .. Len(t) : h[n] = CopyAndReplace(text, h[n - 1], t[n])
  BY <1>0, ApplyFolds
<1> DEFINE Good(n) == /\ h[n].cursor = Reached(t, n)
                      /\ h[n].out = Cat(H[Reached(t, n)], Pending(t, n))
           Have == {n \in 0 .. Len(t) : Good(n)}
<1>4. 0 \in Have
  <2>1. Cat(<<>>, <<>>) = <<>>
    BY CatEmpty
  <2>2. Reached(t, 0) = 0 /\ Pending(t, 0) = <<>> /\ H[0] = <<>>
    BY <1>2 DEF Reached, Pending, Joins
  <2>3. h[0].cursor = 0 /\ h[0].out = <<>> /\ 0 \in 0 .. Len(t)
    BY <1>1, <1>3
  <2>4. Good(0)
    BY <2>1, <2>2, <2>3
  <2> QED
    BY <2>3, <2>4
<1>5. ASSUME NEW n \in 0 .. Len(t) - 1, n \in Have PROVE n + 1 \in Have
  <2> DEFINE e == t[n + 1]
             c == Reached(t, n)
             X == Cat(H[c], Pending(t, n))
  <2>1. /\ n + 1 \in 1 .. Len(t) /\ n + 1 \in 0 .. Len(t) /\ n \in 0 .. Len(t) /\ n < Len(t) /\ (n + 1) - 1 = n
        /\ n + 1 # 0
    BY <1>1
  <2>2. /\ e \in EditsOver(T) /\ e.start \in Nat /\ e.end \in Nat /\ e.start <= e.end /\ e.end <= Len(text)
        /\ e.start <= Len(text)
    BY <1>1, <2>1, Fitting
  <2>3. c \in Nat /\ c <= e.start /\ e.start \in c .. Ahead(text, t, n)
    BY <2>1, <2>2, Bounds DEF Ahead
  <2>4. h[n].cursor = c /\ h[n].out = X
    BY <1>5
  <2>5. h[n + 1] = CopyAndReplace(text, h[n], e)
    BY <1>3, <2>1
  <2>6. h[n] \in [out : Seq(T), cursor : 0 .. Len(text)]
    BY <1>3, <2>1
  <2>12. e.start >= h[n].cursor
    BY <2>3, <2>4
  <2> HIDE DEF e, c, X
  <2>7. /\ CopyAndReplace(text, h[n], e).out
               = Cat(Cat(h[n].out, SubSeq(text, h[n].cursor + 1, e.start)), e.text)
        /\ CopyAndReplace(text, h[n], e).cursor = e.end
    BY <1>0, <2>2, <2>6, <2>12, CopyJoins
  <2>8. Cat(X, SubSeq(text, c + 1, e.start)) = Cat(H[e.start], HeldBack(t, n, e.start))
    <3>1. \A q \in Reached(t, n) .. Ahead(text, t, n) :
               Cat(Cat(H[Reached(t, n)], Pending(t, n)), SubSeq(text, Reached(t, n) + 1, q))
                   = Cat(H[q], HeldBack(t, n, q))
      BY <1>2, <2>1, CopiesGaps
    <3> QED
      BY <2>3, <3>1 DEF X, c
  <2>9. Cat(Cat(H[e.start], HeldBack(t, n, e.start)), e.text) = Cat(H[e.end], Pending(t, n + 1))
    BY <1>2, <2>1, ReplacesGaps DEF e
  <2>10. h[n + 1].out = Cat(H[e.end], Pending(t, n + 1)) /\ h[n + 1].cursor = e.end
    <3>1. h[n + 1].out = Cat(Cat(X, SubSeq(text, c + 1, e.start)), e.text) /\ h[n + 1].cursor = e.end
      BY <2>4, <2>5, <2>7
    <3> QED
      BY <2>8, <2>9, <3>1
  <2>11. Reached(t, n + 1) = e.end
    BY <2>1 DEF Reached, e
  <2> QED
    BY <2>1, <2>10, <2>11
<1>6. Good(Len(t))
  <2> HIDE DEF Have
  <2>1. 0 .. Len(t) \subseteq Have
    BY <1>1, <1>4, <1>5, UpTo
  <2>2. Len(t) \in Have
    BY <1>1, <2>1
  <2> USE DEF Have
  <2> QED
    BY <2>2
<1>7. /\ Len(t) \in 0 .. Len(t) /\ ~(Len(t) < Len(t)) /\ Ahead(text, t, Len(t)) = Len(text)
      /\ Len(text) \in Reached(t, Len(t)) .. Ahead(text, t, Len(t))
      /\ Len(text) \in 0 .. Len(text)
  BY <1>1, Bounds DEF Ahead
<1>8. Applied(text, h[Len(t)]) = Cat(H[Len(text)], HeldBack(t, Len(t), Len(text)))
  <2>1. Cat(Cat(H[Reached(t, Len(t))], Pending(t, Len(t))),
            SubSeq(text, Reached(t, Len(t)) + 1, Len(text)))
            = Cat(H[Len(text)], HeldBack(t, Len(t), Len(text)))
    <3>1. \A q \in Reached(t, Len(t)) .. Ahead(text, t, Len(t)) :
               Cat(Cat(H[Reached(t, Len(t))], Pending(t, Len(t))),
                   SubSeq(text, Reached(t, Len(t)) + 1, q))
                   = Cat(H[q], HeldBack(t, Len(t), q))
      BY <1>2, <1>7, CopiesGaps
    <3> QED
      BY <1>7, <3>1
  <2> QED
    BY <1>6, <2>1 DEF Applied, Cat
<1>9. Around(text, ToSet(t), Len(text)) = HeldBack(t, Len(t), Len(text))
  <2>1. /\ HeldBack(t, Len(t), Len(text)) \in Seq(T)
        /\ Around(text, ToSet(t), Len(text)) = Cat(HeldBack(t, Len(t), Len(text)), <<>>)
    BY <1>7, AroundCopied
  <2>2. Cat(HeldBack(t, Len(t), Len(text)), <<>>) = HeldBack(t, Len(t), Len(text))
    BY <2>1, CatEmpty
  <2> QED
    BY <2>1, <2>2
<1>10. H[Len(text) + 1] = Cat(H[Len(text)], HeldBack(t, Len(t), Len(text)))
  BY <1>2, <1>7, <1>9 DEF Joins
<1>11. H[Len(text) + 1] \in Seq(T)
  <2>1. Len(text) + 1 \in 0 .. Len(text) + 1
    BY <1>1
  <2> QED
    BY <1>2, <2>1 DEF Joins
<1> QED
  BY <1>2, <1>3, <1>8, <1>10, <1>11

-----------------------------------------------------------------------------
(* A rename that fails.                                                    *)

\* The files that phase 2 has replaced, or has begun to replace, and not yet looked after.
Touched(f) == f \in ToSet(done) \/ (step = "recover" /\ f = failing)

Tables ==
    /\ disk = [f \in Files |-> disk[f]]
    /\ before = [f \in Files |-> before[f]]
    /\ after = [f \in Files |-> after[f]]

Steps == {"resolve", "plan", "write", "recover", "rollback", "end"}

Shape ==
    /\ Tables
    /\ step \in Steps
    /\ todo \subseteq Files
    /\ done \in Seq(Files)
    /\ step \in {"resolve", "plan"} => done = <<>> /\ lost = {}
    /\ step = "recover" => failing \in Files
    /\ step # "end" => outcome = "none" /\ buffers = {}
    /\ outcome = "Failed" => done = <<>> /\ step = "end" /\ buffers = {}

\* What phase 1 has read of a file that nobody else saved is its text.
Images ==
    \A f \in Files \ saves :
        /\ before[f] \in {None, Text}
        /\ after[f] # None => before[f] = Text
        /\ Touched(f) => before[f] = Text

\* Such a file holds its text unless the rename has touched it or has reported it.
Untouched == \A f \in Files \ (saves \cup lost) : disk[f] = Text \/ Touched(f)

Inv == Shape /\ Images /\ Untouched

-----------------------------------------------------------------------------
(* Lists of files.                                                         *)

LEMMA AppendAdds ==
    ASSUME NEW s \in Seq(Files), NEW f \in Files
    PROVE  Append(s, f) \in Seq(Files) /\ ToSet(Append(s, f)) = ToSet(s) \cup {f}
<1> DEFINE a == Append(s, f)
<1>1. /\ a \in Seq(Files) /\ Len(a) = Len(s) + 1 /\ a[Len(s) + 1] = f /\ Len(s) \in Nat
      /\ \A i \in 1 .. Len(s) : a[i] = s[i]
  OBVIOUS
<1>2. DOMAIN s = 1 .. Len(s) /\ DOMAIN a = 1 .. Len(s) + 1
  BY <1>1
<1> HIDE DEF a
<1>3. 1 .. Len(s) + 1 = (1 .. Len(s)) \cup {Len(s) + 1}
  BY <1>1
<1>4. ToSet(a) = ToSet(s) \cup {f}
  BY <1>1, <1>2, <1>3 DEF ToSet
<1> QED
  BY <1>1, <1>4 DEF a

LEMMA EmptyHasNone == ToSet(<<>>) = {}
BY DEF ToSet

LEMMA LastGoes ==
    ASSUME NEW s \in Seq(Files), s # <<>>
    PROVE  /\ Last(s) \in Files /\ Front(s) \in Seq(Files)
           /\ ToSet(s) = ToSet(Front(s)) \cup {Last(s)}
<1>1. Len(s) \in Nat \ {0} /\ s[Len(s)] \in Files
  OBVIOUS
<1>2. /\ Front(s) \in Seq(Files) /\ Len(Front(s)) = Len(s) - 1
      /\ \A i \in 1 .. Len(s) - 1 : Front(s)[i] = s[i]
  <2>1. Front(s) = [i \in 1 .. Len(s) - 1 |-> s[i]]
    BY <1>1 DEF Front
  <2>2. \A i \in 1 .. Len(s) - 1 : s[i] \in Files
    BY <1>1
  <2>3. Len(s) - 1 \in Nat
    BY <1>1
  <2> QED
    BY <2>1, <2>2, <2>3
<1>3. DOMAIN s = 1 .. Len(s) /\ DOMAIN Front(s) = 1 .. Len(s) - 1
  BY <1>2
<1>4. 1 .. Len(s) = (1 .. Len(s) - 1) \cup {Len(s)}
  BY <1>1
<1> DEFINE r == Front(s)
<1> HIDE DEF r
<1>5. ToSet(s) = ToSet(r) \cup {s[Len(s)]}
  BY <1>2, <1>3, <1>4 DEF ToSet, r
<1> QED
  BY <1>1, <1>2, <1>5 DEF Last, r

LEMMA InitInv == Init => Inv
<1> SUFFICES ASSUME Init PROVE Inv
    OBVIOUS
<1>1. ToSet(done) = {}
  BY EmptyHasNone DEF Init
<1>2. Shape
  BY DEF Init, Shape, Tables, Steps
<1>3. Images /\ Untouched
  BY <1>1 DEF Init, Images, Untouched, Touched
<1> QED
  BY <1>2, <1>3 DEF Inv

-----------------------------------------------------------------------------
(* Phase 1 touches no file.                                                *)

LEMMA RefuseInv ==
    ASSUME Inv, step \in {"resolve", "plan"}, Refuse, UNCHANGED <<disk, saves, plan, done, failing>>,
           todo' \subseteq Files
    PROVE  Inv'
<1> USE DEF Inv, Refuse, plan
<1>1. Shape'
  BY DEF Shape, Tables, Steps
<1>2. Images'
  BY DEF Images, Touched, Shape
<1>3. Untouched'
  BY DEF Untouched, Touched, Shape
<1> QED
  BY <1>1, <1>2, <1>3

LEMMA ResolveInv == Inv /\ Resolve => Inv'
<1> SUFFICES ASSUME Inv, Resolve PROVE Inv'
    OBVIOUS
<1>1. CASE Refuse /\ UNCHANGED todo
  BY <1>1, RefuseInv DEF Resolve, Inv, Shape
<1>2. CASE step' = "plan" /\ todo' = {f \in Files : Grouped(f) # <<>>} /\ UNCHANGED result
  <2>1. Shape'
    BY <1>2 DEF Inv, Resolve, Shape, Tables, Steps, plan, result
  <2>2. Images' /\ Untouched'
    BY <1>2 DEF Inv, Resolve, Images, Untouched, Touched, plan, result
  <2> QED
    BY <2>1, <2>2 DEF Inv
<1> QED
  BY <1>1, <1>2 DEF Resolve

LEMMA PlanFileInv == Inv /\ PlanFile => Inv'
<1> SUFFICES ASSUME Inv, PlanFile PROVE Inv'
    OBVIOUS
<1>1. PICK f \in First(todo) : \E edits :
        /\ step = "plan"
        /\ \/ Refuse /\ UNCHANGED <<todo, plan>>
           \/ /\ todo' = todo \ {f}
              /\ UNCHANGED <<step, before, after, result>>
           \/ /\ todo' = todo \ {f}
              /\ before' = [before EXCEPT ![f] = disk[f]]
              /\ after' = [after EXCEPT ![f] = Apply(disk[f], edits)]
              /\ UNCHANGED <<step, result>>
        /\ UNCHANGED <<disk, saves, done, failing>>
  BY DEF PlanFile
<1>2. f \in Files /\ done = <<>> /\ lost = {} /\ step = "plan" /\ todo \subseteq Files
  BY <1>1 DEF Inv, Shape, First
<1>3. CASE Refuse /\ UNCHANGED <<todo, plan>>
  BY <1>1, <1>2, <1>3, RefuseInv
<1>4. CASE todo' = todo \ {f} /\ UNCHANGED <<step, before, after, result>>
  <2>1. Shape'
    BY <1>1, <1>2, <1>4 DEF Inv, Shape, Tables, result
  <2>2. Images' /\ Untouched'
    BY <1>1, <1>2, <1>4 DEF Inv, Images, Untouched, Touched, result
  <2> QED
    BY <2>1, <2>2 DEF Inv
<1>5. ASSUME NEW edits,
             todo' = todo \ {f},
             before' = [before EXCEPT ![f] = disk[f]],
             after' = [after EXCEPT ![f] = Apply(disk[f], edits)],
             UNCHANGED <<step, result>>
      PROVE  Inv'
  <2>1. /\ before' = [g \in Files |-> IF g = f THEN disk[f] ELSE before[g]]
        /\ \A g \in Files \ {f} : after'[g] = after[g]
        /\ after' = [g \in Files |-> after'[g]]
    BY <1>5 DEF Inv, Shape, Tables
  <2>2. UNCHANGED <<disk, saves, done, failing, step, lost, outcome, buffers>>
    BY <1>1, <1>5 DEF result
  <2>3. Shape'
    BY <1>2, <1>5, <2>1, <2>2 DEF Inv, Shape, Tables
  <2>4. ~Touched(f) /\ \A g \in Files : Touched(g)' <=> Touched(g)
    BY <1>2, <2>2, EmptyHasNone DEF Touched
  <2>5. Untouched'
    BY <2>2, <2>4 DEF Inv, Untouched
  <2>6. f \notin saves => disk[f] = Text
    BY <1>2, <2>4 DEF Inv, Untouched
  <2>7. Images'
    BY <2>1, <2>2, <2>4, <2>6 DEF Inv, Images
  <2> QED
    BY <2>3, <2>5, <2>7 DEF Inv
<1> QED
  BY <1>1, <1>3, <1>4, <1>5

LEMMA PlannedInv == Inv /\ Planned => Inv'
<1> SUFFICES ASSUME Inv, Planned PROVE Inv'
    OBVIOUS
<1>1. Shape'
  BY DEF Inv, Planned, Shape, Tables, Steps, plan, result
<1>2. Images' /\ Untouched'
  BY DEF Inv, Planned, Images, Untouched, Touched, plan, result
<1> QED
  BY <1>1, <1>2 DEF Inv

-----------------------------------------------------------------------------
(* Phase 2.                                                                *)

LEMMA TornTables ==
    ASSUME Tables, NEW f, FailedWrite(f)
    PROVE  /\ disk' = [g \in Files |-> disk'[g]]
           /\ \A g \in Files \ {f} : disk'[g] = disk[g]
BY DEF Tables, FailedWrite

LEMMA WriteFileInv == Inv /\ WriteFile => Inv'
<1> SUFFICES ASSUME Inv, WriteFile PROVE Inv'
    OBVIOUS
<1>1. PICK f \in First(Unwritten) :
        /\ step = "write"
        /\ disk' = [disk EXCEPT ![f] = after[f]]
        /\ done' = Append(done, f)
        /\ UNCHANGED <<saves, answer, open, step, todo, plan, failing, result>>
  BY DEF WriteFile
<1>2. f \in Files /\ after[f] # None
  BY DEF First, Unwritten
<1>3. done' \in Seq(Files) /\ ToSet(done') = ToSet(done) \cup {f}
  BY <1>1, <1>2, AppendAdds DEF Inv, Shape
<1>4. /\ disk' = [g \in Files |-> disk'[g]]
      /\ \A g \in Files \ {f} : disk'[g] = disk[g]
  BY <1>1 DEF Inv, Shape, Tables
<1>5. Shape'
  BY <1>1, <1>3, <1>4 DEF Inv, Shape, Tables, plan, result
<1>6. \A g \in Files : Touched(g)' <=> Touched(g) \/ g = f
  BY <1>1, <1>3 DEF Touched
<1>7. Images'
  BY <1>1, <1>2, <1>6 DEF Inv, Images, plan
<1>8. Untouched'
  BY <1>1, <1>4, <1>6 DEF Inv, Untouched, result
<1> QED
  BY <1>5, <1>7, <1>8 DEF Inv

LEMMA WriteFailsInv == Inv /\ WriteFails => Inv'
<1> SUFFICES ASSUME Inv, WriteFails PROVE Inv'
    OBVIOUS
<1>1. PICK f \in First(Unwritten) :
        /\ step = "write"
        /\ FailedWrite(f)
        /\ failing' = f
        /\ step' = "recover"
        /\ UNCHANGED <<saves, answer, open, todo, plan, done, result>>
  BY DEF WriteFails
<1>2. f \in Files /\ after[f] # None
  BY DEF First, Unwritten
<1>3. /\ disk' = [g \in Files |-> disk'[g]]
      /\ \A g \in Files \ {f} : disk'[g] = disk[g]
  BY <1>1, TornTables DEF Inv, Shape
<1>4. Shape'
  BY <1>1, <1>2, <1>3 DEF Inv, Shape, Tables, Steps, plan, result
<1>5. \A g \in Files : Touched(g)' <=> Touched(g) \/ g = f
  BY <1>1 DEF Touched
<1>6. Images'
  BY <1>1, <1>2, <1>5 DEF Inv, Images, plan
<1>7. Untouched'
  BY <1>1, <1>3, <1>5 DEF Inv, Untouched, result
<1> QED
  BY <1>4, <1>6, <1>7 DEF Inv

LEMMA RecoverInv == Inv /\ Recover => Inv'
<1> SUFFICES ASSUME Inv, Recover PROVE Inv'
    OBVIOUS
<1>1. /\ step = "recover" /\ step' = "rollback" /\ failing \in Files
      /\ UNCHANGED <<saves, todo, plan, done, failing, outcome, buffers>>
  BY DEF Recover, Inv, Shape
<1>2. /\ disk' = [g \in Files |-> disk'[g]]
      /\ \A g \in Files \ {failing} : disk'[g] = disk[g]
      /\ lost \subseteq lost' /\ lost' \subseteq lost \cup {failing}
      /\ failing \in lost' \/ disk'[failing] = before[failing]
  <2>1. CASE disk[failing] = before[failing] /\ UNCHANGED <<disk, lost>>
    BY <2>1 DEF Inv, Shape, Tables
  <2>2. CASE disk' = [disk EXCEPT ![failing] = before[failing]] /\ UNCHANGED lost
    BY <1>1, <2>2 DEF Inv, Shape, Tables
  <2>3. CASE FailedWrite(failing) /\ lost' = lost \cup {failing}
    BY <2>3, TornTables DEF Inv, Shape
  <2>4. CASE lost' = lost \cup {failing} /\ UNCHANGED disk
    BY <2>4 DEF Inv, Shape, Tables
  <2> QED
    BY <2>1, <2>2, <2>3, <2>4 DEF Recover
<1>3. Shape'
  BY <1>1, <1>2 DEF Inv, Shape, Tables, Steps, plan
<1>4. \A g \in Files : Touched(g) <=> Touched(g)' \/ g = failing
  BY <1>1 DEF Touched
<1>5. Images'
  BY <1>1, <1>4 DEF Inv, Images, plan
<1>6. Untouched'
  BY <1>1, <1>2, <1>4 DEF Inv, Untouched, Images
<1> QED
  BY <1>3, <1>5, <1>6 DEF Inv

LEMMA RollBackInv == Inv /\ RollBack => Inv'
<1> SUFFICES ASSUME Inv, RollBack PROVE Inv'
    OBVIOUS
<1> DEFINE f == Last(done)
<1>1. /\ step = "rollback" /\ done # <<>> /\ done' = Front(done)
      /\ UNCHANGED <<saves, step, todo, plan, failing, outcome, buffers>>
  BY DEF RollBack
<1>2. f \in Files /\ done' \in Seq(Files) /\ ToSet(done) = ToSet(done') \cup {f}
  BY <1>1, LastGoes DEF Inv, Shape
<1>3. \/ disk' = [disk EXCEPT ![f] = before[f]] /\ UNCHANGED lost
      \/ FailedWrite(f) /\ lost' = lost \cup {f}
  BY DEF RollBack
<1> HIDE DEF f
<1>4. /\ disk' = [g \in Files |-> disk'[g]]
      /\ \A g \in Files \ {f} : disk'[g] = disk[g]
      /\ lost \subseteq lost'
      /\ f \in lost' \/ disk'[f] = before[f]
  <2>1. CASE disk' = [disk EXCEPT ![f] = before[f]] /\ UNCHANGED lost
    BY <1>2, <2>1 DEF Inv, Shape, Tables
  <2>2. CASE FailedWrite(f) /\ lost' = lost \cup {f}
    BY <2>2, TornTables DEF Inv, Shape
  <2> QED
    BY <1>3, <2>1, <2>2
<1>5. Shape'
  BY <1>1, <1>2, <1>4 DEF Inv, Shape, Tables, plan
<1>6. \A g \in Files : Touched(g) <=> Touched(g)' \/ g = f
  BY <1>1, <1>2 DEF Touched
<1>7. Images'
  BY <1>1, <1>6 DEF Inv, Images, plan
<1>8. Untouched'
  BY <1>1, <1>2, <1>4, <1>6 DEF Inv, Untouched, Images
<1> QED
  BY <1>5, <1>7, <1>8 DEF Inv

LEMMA EndInv == Inv /\ (GiveUp \/ Finish) => Inv'
<1> SUFFICES ASSUME Inv, GiveUp \/ Finish PROVE Inv'
    OBVIOUS
<1>1. Shape'
  BY DEF Inv, GiveUp, Finish, Shape, Tables, Steps, plan, result
<1>2. Images' /\ Untouched'
  BY DEF Inv, GiveUp, Finish, Images, Untouched, Touched, plan, result
<1> QED
  BY <1>1, <1>2 DEF Inv

LEMMA SaveElsewhereInv == ASSUME Inv, NEW f \in Files, SaveElsewhere(f) PROVE Inv'
<1>1. /\ disk' = [g \in Files |-> disk'[g]]
      /\ \A g \in Files \ {f} : disk'[g] = disk[g]
  BY DEF Inv, Shape, Tables, SaveElsewhere
<1>2. Shape'
  BY <1>1 DEF Inv, SaveElsewhere, Shape, Tables, plan, result
<1>3. Images'
  BY DEF Inv, SaveElsewhere, Images, Touched, plan
<1>4. Untouched'
  BY <1>1 DEF Inv, SaveElsewhere, Untouched, Touched, result
<1> QED
  BY <1>2, <1>3, <1>4 DEF Inv

-----------------------------------------------------------------------------

\* Whatever fails on the way, and however many files there are: a rename that reports failure
\* has left every file it does not name, and nobody else saved, as it was (rename.rs 21-35).
THEOREM FailuresAreHonest == Spec => []FailureIsHonest
<1>1. Inv /\ [Next]_vars => Inv'
  <2> SUFFICES ASSUME Inv, [Next]_vars PROVE Inv'
      OBVIOUS
  <2>1. CASE UNCHANGED vars
    BY <2>1 DEF vars, plan, result, Inv, Shape, Tables, Images, Untouched, Touched
  <2>2. ASSUME NEW f \in Files, SaveElsewhere(f) PROVE Inv'
    BY <2>2, SaveElsewhereInv
  <2> QED
    BY <2>1, <2>2, ResolveInv, PlanFileInv, PlannedInv, WriteFileInv, WriteFailsInv, RecoverInv,
       RollBackInv, EndInv DEF Next
<1>2. Inv => FailureIsHonest
  BY EmptyHasNone DEF Inv, Shape, Untouched, Touched, FailureIsHonest, Kept
<1> QED
  BY <1>1, <1>2, InitInv, PTL DEF Spec

-----------------------------------------------------------------------------
(* A rename that succeeds.                                                 *)

Sources ==
    /\ answer \in Answers /\ open \subseteq Files
    /\ step \in {"resolve", "plan"} => \A f \in Files : disk[f] \in {Text, Saved}

\* What is to be written was computed from what was read.
Computed ==
    \A f \in Files : after[f] # None =>
        /\ before[f] \in Seq(Tokens) /\ Plan(Grouped(f)).ok
        /\ InDocument(before[f], Plan(Grouped(f)).edits)
        /\ after[f] = Apply(before[f], Plan(Grouped(f)).edits)

Active == step \in {"plan", "write"} \/ outcome = "Ready"

\* Phase 1 accounts for every file.
Accounted(f) ==
    IF Grouped(f) = <<>>
    THEN plans[f] = <<>> /\ after[f] = None
    ELSE /\ Plan(Grouped(f)).ok /\ plans[f] = Plan(Grouped(f)).edits
         /\ after[f] = None <=> f \in open

Accounts ==
    /\ plans = [f \in Files |-> plans[f]]
    /\ step = "resolve" => \A f \in Files : plans[f] = <<>> /\ after[f] = None
    /\ Active =>
        /\ lost = {}
        /\ \A f \in todo : Grouped(f) # <<>> /\ after[f] = None
        /\ \A f \in Files \ todo : Accounted(f)
    /\ step = "write" \/ outcome = "Ready" => todo = {}

Written ==
    /\ Active => \A f \in ToSet(done) : after[f] # None /\ (f \notin saves => disk[f] = after[f])
    /\ outcome = "Ready" =>
        /\ step = "end"
        /\ \A f \in Files : after[f] # None => f \in ToSet(done)
        /\ buffers = {f \in open : plans[f] # <<>>}

Whole == Inv /\ Sources /\ Computed /\ Accounts /\ Written

\* The edits of one file, from all the documents of an answer.
LEMMA GroupedTyped ==
    ASSUME answer \in Answers, NEW f
    PROVE  Grouped(f) \in Seq(EditsOver(Tokens))
<1> DEFINE E == EditsOver(Tokens)
           s == [i \in DOMAIN answer |-> IF answer[i].file = f THEN answer[i].edits ELSE <<>>]
<1>1. answer \in Seq([file : Files \cup {Outside}, edits : Seq(E)])
  BY AnswersAssumption
<1> HIDE DEF E
<1>2. /\ <<>> \in Seq(E) /\ Len(answer) \in Nat /\ DOMAIN answer = 1 .. Len(answer)
      /\ \A i \in DOMAIN answer : answer[i].edits \in Seq(E)
  <2>1. <<>> \in Seq(E)
    OBVIOUS
  <2>2. Len(answer) \in Nat /\ DOMAIN answer = 1 .. Len(answer)
    BY <1>1
  <2> DEFINE D == [file : Files \cup {Outside}, edits : Seq(E)]
  <2>3. \A i \in DOMAIN answer : answer[i] \in D
    <3> HIDE DEF D
    <3>1. answer \in Seq(D)
      BY <1>1 DEF D
    <3> QED
      BY <3>1
  <2>4. \A d \in D : d.edits \in Seq(E)
    OBVIOUS
  <2> QED
    BY <2>1, <2>2, <2>3, <2>4, Zenon
<1>3. s \in Seq(Seq(E))
  BY <1>2
<1> HIDE DEF s
<1>4. PICK h \in [0 .. Len(s) -> Seq(E)] : FlattenSeq(s) = h[Len(s)]
  BY <1>3, Flattens
<1>5. Len(s) \in 0 .. Len(s)
  BY <1>3
<1>6. FlattenSeq(s) \in Seq(E)
  BY <1>4, <1>5
<1> QED
  BY <1>6 DEF Grouped, s, E

LEMMA NoneIsNoText == \A s \in Seq(Tokens) : s # None
<1> SUFFICES ASSUME NEW s \in Seq(Tokens), s = None PROVE FALSE
    OBVIOUS
<1>1. DOMAIN s = 1 .. Len(s) /\ Len(s) \in Nat
  OBVIOUS
<1>2. 0 \in DOMAIN s
  BY DEF None
<1> QED
  BY <1>1, <1>2

\* What the plan accepts and the text has room for is applied as it means.
LEMMA PlannedFits ==
    ASSUME NEW text \in Seq(Tokens), NEW s \in Seq(EditsOver(Tokens)), Plan(s).ok,
           InDocument(text, Plan(s).edits)
    PROVE  /\ Apply(text, Plan(s).edits) = Simultaneously(text, ToSet(s))
           /\ Apply(text, Plan(s).edits) \in Seq(Tokens)
<1>1. /\ Plan(s).edits \in Seq(EditsOver(Tokens)) /\ ToSet(Plan(s).edits) = ToSet(s)
      /\ Separate(Plan(s).edits)
  BY PlanDecides
<1>2. Fits(Tokens, text, Plan(s).edits)
  BY <1>1 DEF Fits
<1> QED
  BY <1>1, <1>2, ApplyMeans

LEMMA InitWhole == Init => Whole
<1> SUFFICES ASSUME Init PROVE Whole
    OBVIOUS
<1>1. Inv /\ ToSet(done) = {}
  BY InitInv, EmptyHasNone DEF Init
<1>2. Sources /\ Computed
  BY DEF Init, Sources, Computed
<1>3. Accounts /\ Written
  BY DEF Init, Accounts, Written, Active
<1> QED
  BY <1>1, <1>2, <1>3 DEF Whole

\* What has been computed stays so while the tables stay.
LEMMA TablesStay ==
    ASSUME UNCHANGED <<answer, open, plan>>
    PROVE  /\ Computed => Computed'
           /\ \A f : Grouped(f)' = Grouped(f) /\ (Accounted(f)' <=> Accounted(f))
<1>1. UNCHANGED <<answer, open, plans, before, after>>
  BY DEF plan
<1>2. \A f : Grouped(f)' = Grouped(f)
  BY <1>1 DEF Grouped
<1> QED
  BY <1>1, <1>2 DEF Computed, Accounted

\* A rename that is refused, or has failed, promises nothing more.
LEMMA FailedWhole ==
    ASSUME Whole, Inv', outcome' \in {"none", "Failed"}, step' \in {"recover", "rollback", "end"},
           UNCHANGED <<answer, open, plan>>
    PROVE  Whole'
<1>1. Sources'
  BY DEF Whole, Sources
<1>2. Computed'
  BY TablesStay DEF Whole
<1>3. Accounts'
  BY DEF Whole, Accounts, Active, plan
<1>4. Written'
  BY DEF Whole, Written, Active
<1> QED
  BY <1>1, <1>2, <1>3, <1>4 DEF Whole

LEMMA ResolveWhole == Whole /\ Resolve => Whole'
<1> SUFFICES ASSUME Whole, Resolve PROVE Whole'
    OBVIOUS
<1>1. Inv' /\ step = "resolve" /\ outcome = "none" /\ done = <<>> /\ lost = {}
  BY ResolveInv DEF Whole, Resolve, Inv, Shape
<1>2. UNCHANGED <<disk, saves, answer, open, plan, done, failing>>
  BY DEF Resolve
<1>3. CASE Refuse /\ UNCHANGED todo
  BY <1>1, <1>2, <1>3, FailedWhole DEF Refuse
<1>4. CASE step' = "plan" /\ todo' = {f \in Files : Grouped(f) # <<>>} /\ UNCHANGED result
  <2>1. Sources'
    BY <1>1, <1>2 DEF Whole, Sources
  <2>2. Computed' /\ \A f : Grouped(f)' = Grouped(f)
    BY <1>2, TablesStay DEF Whole
  <2>3. UNCHANGED <<plans, after, lost, outcome>> /\ \A f \in Files : plans[f] = <<>> /\ after[f] = None
    BY <1>1, <1>2, <1>4 DEF plan, result, Whole, Accounts
  <2>4. Accounts'
    <3>1. \A f \in Files \ todo' : Accounted(f)'
      BY <1>4, <2>2, <2>3 DEF Accounted
    <3> QED
      BY <1>1, <1>4, <2>2, <2>3, <3>1 DEF Whole, Accounts
  <2>5. Written'
    BY <1>1, <1>2, <1>4, <2>3, EmptyHasNone DEF Written
  <2> QED
    BY <1>1, <2>1, <2>2, <2>4, <2>5 DEF Whole
<1> QED
  BY <1>3, <1>4 DEF Resolve

LEMMA PlannedWhole == Whole /\ Planned => Whole'
<1> SUFFICES ASSUME Whole, Planned PROVE Whole'
    OBVIOUS
<1>1. Inv' /\ outcome = "none"
  BY PlannedInv DEF Whole, Planned, Inv, Shape
<1>2. /\ step = "plan" /\ todo = {} /\ step' = "write"
      /\ UNCHANGED <<disk, saves, answer, open, todo, plan, done, failing, result>>
  BY DEF Planned
<1>3. Sources'
  BY <1>2 DEF Whole, Sources
<1>4. Computed' /\ \A f : Accounted(f)' <=> Accounted(f)
  BY <1>2, TablesStay DEF Whole
<1>5. Accounts'
  BY <1>2, <1>4 DEF Whole, Accounts, Active, plan, result
<1>6. Written'
  BY <1>1, <1>2 DEF Whole, Written, Active, plan, result
<1> QED
  BY <1>1, <1>3, <1>4, <1>5, <1>6 DEF Whole

LEMMA WriteFileWhole == Whole /\ WriteFile => Whole'
<1> SUFFICES ASSUME Whole, WriteFile PROVE Whole'
    OBVIOUS
<1>1. Inv' /\ step = "write" /\ outcome = "none" /\ done \in Seq(Files)
  BY WriteFileInv DEF Whole, WriteFile, Inv, Shape
<1>2. PICK f \in First(Unwritten) :
        /\ disk' = [disk EXCEPT ![f] = after[f]]
        /\ done' = Append(done, f)
        /\ UNCHANGED <<saves, answer, open, step, todo, plan, failing, result>>
  BY DEF WriteFile
<1>3. f \in Files /\ after[f] # None
  BY DEF First, Unwritten
<1>4. ToSet(done') = ToSet(done) \cup {f}
  BY <1>1, <1>2, <1>3, AppendAdds
<1>5. Sources'
  BY <1>1, <1>2 DEF Whole, Sources
<1>6. Computed' /\ \A g : (Accounted(g)' <=> Accounted(g)) /\ Grouped(g)' = Grouped(g)
  BY <1>2, TablesStay DEF Whole
<1>7. Accounts'
  BY <1>1, <1>2, <1>6 DEF Whole, Accounts, Active, plan, result
<1>8. Written'
  <2>1. UNCHANGED <<step, outcome, saves, after>>
    BY <1>2 DEF plan, result
  <2>2. \A g \in ToSet(done) : after[g] # None /\ (g \notin saves => disk[g] = after[g])
    BY <1>1 DEF Whole, Written, Active
  <2>3. disk'[f] = after[f] /\ \A g \in Files \ {f} : disk'[g] = disk[g]
    BY <1>2, <1>3 DEF Whole, Inv, Shape, Tables
  <2>4. ToSet(done) \subseteq Files
    BY <1>1 DEF ToSet
  <2> QED
    BY <1>1, <1>3, <1>4, <2>1, <2>2, <2>3, <2>4 DEF Written
<1> QED
  BY <1>1, <1>5, <1>6, <1>7, <1>8 DEF Whole

LEMMA FailingWhole == Whole /\ (WriteFails \/ Recover \/ RollBack \/ GiveUp) => Whole'
<1> SUFFICES ASSUME Whole, WriteFails \/ Recover \/ RollBack \/ GiveUp PROVE Whole'
    OBVIOUS
<1>1. Inv'
  BY WriteFailsInv, RecoverInv, RollBackInv, EndInv DEF Whole
<1>2. step # "end" /\ outcome = "none" => Whole'
  <2> SUFFICES ASSUME outcome = "none" PROVE Whole'
      OBVIOUS
  <2>1. outcome' \in {"none", "Failed"} /\ step' \in {"recover", "rollback", "end"}
    BY DEF WriteFails, Recover, RollBack, GiveUp, result
  <2>2. UNCHANGED <<answer, open, plan>>
    BY DEF WriteFails, Recover, RollBack, GiveUp
  <2> QED
    BY <1>1, <2>1, <2>2, FailedWhole
<1>3. step # "end"
  BY DEF WriteFails, Recover, RollBack, GiveUp
<1> QED
  BY <1>2, <1>3 DEF Whole, Inv, Shape

LEMMA FinishWhole == Whole /\ Finish => Whole'
<1> SUFFICES ASSUME Whole, Finish PROVE Whole'
    OBVIOUS
<1>1. Inv' /\ step = "write" /\ step' = "end" /\ outcome' = "Ready"
  BY EndInv DEF Whole, Finish
<1>2. /\ Unwritten = {} /\ buffers' = {f \in open : plans[f] # <<>>}
      /\ UNCHANGED <<disk, saves, answer, open, todo, plan, done, failing, lost>>
  BY DEF Finish
<1>3. Sources'
  BY <1>1, <1>2 DEF Whole, Sources
<1>4. Computed' /\ \A g : (Accounted(g)' <=> Accounted(g)) /\ Grouped(g)' = Grouped(g)
  BY <1>2, TablesStay DEF Whole
<1>5. Accounts'
  BY <1>1, <1>2, <1>4 DEF Whole, Accounts, Active, plan
<1>6. Written'
  BY <1>1, <1>2 DEF Whole, Written, Active, plan, Unwritten
<1> QED
  BY <1>1, <1>3, <1>4, <1>5, <1>6 DEF Whole

LEMMA SaveElsewhereWhole == ASSUME Whole, NEW f \in Files, SaveElsewhere(f) PROVE Whole'
<1>1. Inv' /\ step # "end" /\ outcome = "none"
  BY SaveElsewhereInv DEF Whole, Inv, Shape, SaveElsewhere
<1>2. /\ disk' = [disk EXCEPT ![f] = Saved] /\ saves' = saves \cup {f}
      /\ UNCHANGED <<answer, open, step, todo, plan, done, failing, result>>
  BY DEF SaveElsewhere
<1>3. disk'[f] = Saved /\ \A g \in Files \ {f} : disk'[g] = disk[g]
  BY <1>2 DEF Whole, Inv, Shape, Tables
<1>4. Sources'
  BY <1>2, <1>3 DEF Whole, Sources
<1>5. Computed' /\ \A g : (Accounted(g)' <=> Accounted(g)) /\ Grouped(g)' = Grouped(g)
  BY <1>2, TablesStay DEF Whole
<1>6. Accounts'
  BY <1>1, <1>2, <1>5 DEF Whole, Accounts, Active, plan, result
<1>7. Written'
  <2>1. UNCHANGED <<step, outcome, after, done>>
    BY <1>2 DEF plan, result
  <2>2. ToSet(done) \subseteq Files
    BY DEF ToSet, Whole, Inv, Shape
  <2> QED
    BY <1>1, <1>2, <1>3, <2>1, <2>2 DEF Whole, Written, Active
<1> QED
  BY <1>1, <1>4, <1>5, <1>6, <1>7 DEF Whole

\* The file phase 1 comes to is accounted for: refused with all, left to the editor, or edited.
LEMMA PlanFileWhole == Whole /\ PlanFile => Whole'
<1> SUFFICES ASSUME Whole, PlanFile PROVE Whole'
    OBVIOUS
<1>1. Inv' /\ step = "plan" /\ outcome = "none" /\ done = <<>> /\ todo \subseteq Files /\ lost = {}
  BY PlanFileInv DEF Whole, PlanFile, Inv, Shape
<1>2. PICK f \in First(todo) :
          /\ \/ Refuse /\ UNCHANGED <<todo, plan>>
             \/ /\ Plan(Grouped(f)).ok /\ f \in open
                /\ todo' = todo \ {f}
                /\ plans' = [plans EXCEPT ![f] = Plan(Grouped(f)).edits]
                /\ UNCHANGED <<step, before, after, result>>
             \/ /\ Plan(Grouped(f)).ok /\ f \notin open /\ Accepts(disk[f], Plan(Grouped(f)).edits)
                /\ todo' = todo \ {f}
                /\ plans' = [plans EXCEPT ![f] = Plan(Grouped(f)).edits]
                /\ before' = [before EXCEPT ![f] = disk[f]]
                /\ after' = [after EXCEPT ![f] = Apply(disk[f], Plan(Grouped(f)).edits)]
                /\ UNCHANGED <<step, result>>
          /\ UNCHANGED <<disk, saves, answer, open, done, failing>>
  BY DEF PlanFile
<1>3. /\ f \in todo /\ f \in Files /\ Grouped(f) # <<>> /\ after[f] = None
      /\ \A g \in todo : Grouped(g) # <<>> /\ after[g] = None
      /\ \A g \in Files \ todo : Accounted(g)
  BY <1>1 DEF First, Whole, Accounts, Active
<1>4. \A g : Grouped(g)' = Grouped(g)
  BY <1>2 DEF Grouped
<1>5. Sources'
  BY <1>1, <1>2 DEF Whole, Sources, Refuse
<1>6. CASE Refuse /\ UNCHANGED <<todo, plan>>
  BY <1>1, <1>2, <1>6, FailedWhole DEF Refuse
<1> DEFINE e == Plan(Grouped(f)).edits
<1> HIDE DEF e
<1>7. ASSUME Plan(Grouped(f)).ok, plans' = [plans EXCEPT ![f] = e], todo' = todo \ {f},
             UNCHANGED <<step, result>>, after' = [g \in Files |-> after'[g]],
             \A g \in Files \ {f} : after'[g] = after[g], after'[f] = None <=> f \in open
      PROVE  Accounts' /\ Written'
  <2>1. /\ plans' = [g \in Files |-> plans'[g]] /\ plans'[f] = e
        /\ \A g \in Files \ {f} : plans'[g] = plans[g]
    BY <1>3, <1>7 DEF Whole, Accounts
  <2>2. ASSUME NEW g \in Files \ todo' PROVE Accounted(g)'
    <3>1. CASE g = f
      BY <1>2, <1>3, <1>4, <1>7, <2>1, <3>1 DEF Accounted, e
    <3>2. CASE g # f
      BY <1>2, <1>3, <1>4, <1>7, <2>1, <2>2, <3>2 DEF Accounted
    <3> QED
      BY <3>1, <3>2
  <2>3. UNCHANGED <<step, outcome, lost>>
    BY <1>7 DEF result
  <2>4. Accounts'
    BY <1>1, <1>3, <1>4, <1>7, <2>1, <2>2, <2>3 DEF Accounts
  <2>5. Written'
    BY <1>1, <1>2, <2>3, EmptyHasNone DEF Written
  <2> QED
    BY <2>4, <2>5
<1>8. CASE /\ Plan(Grouped(f)).ok /\ f \in open /\ todo' = todo \ {f}
           /\ plans' = [plans EXCEPT ![f] = e]
           /\ UNCHANGED <<step, before, after, result>>
  <2>1. Computed'
    BY <1>4, <1>8 DEF Whole, Computed
  <2>2. after = [g \in Files |-> after[g]]
    BY DEF Whole, Inv, Shape, Tables
  <2>3. Accounts' /\ Written'
    <3>1. after' = after
      BY <1>8
    <3> QED
      BY <1>3, <1>7, <1>8, <2>2, <3>1
  <2> QED
    BY <1>1, <1>5, <2>1, <2>3 DEF Whole
<1>9. CASE /\ Plan(Grouped(f)).ok /\ f \notin open /\ Accepts(disk[f], e) /\ todo' = todo \ {f}
           /\ plans' = [plans EXCEPT ![f] = e]
           /\ before' = [before EXCEPT ![f] = disk[f]]
           /\ after' = [after EXCEPT ![f] = Apply(disk[f], e)]
           /\ UNCHANGED <<step, result>>
  <2> DEFINE text == disk[f]
  <2>1. text \in Seq(Tokens) /\ Grouped(f) \in Seq(EditsOver(Tokens))
    BY <1>1, <1>3, GroupedTyped, TextAssumption DEF Whole, Sources
  <2>2. InDocument(text, e)
    BY <1>9 DEF Accepts
  <2>3. Apply(text, e) # None
    BY <1>9, <2>1, <2>2, PlannedFits, NoneIsNoText DEF e
  <2>4. /\ before'[f] = text /\ after'[f] = Apply(text, e) /\ after' = [g \in Files |-> after'[g]]
        /\ \A g \in Files \ {f} : before'[g] = before[g] /\ after'[g] = after[g]
    BY <1>3, <1>9 DEF Whole, Inv, Shape, Tables
  <2> HIDE DEF text
  <2>5. Computed'
    BY <1>4, <1>9, <2>1, <2>2, <2>4 DEF Whole, Computed, e
  <2>6. Accounts' /\ Written'
    BY <1>7, <1>9, <2>3, <2>4
  <2> QED
    BY <1>1, <1>5, <2>5, <2>6 DEF Whole
<1> QED
  BY <1>2, <1>6, <1>8, <1>9 DEF e

LEMMA SpecWhole == Spec => []Whole
<1>1. Whole /\ [Next]_vars => Whole'
  <2> SUFFICES ASSUME Whole, [Next]_vars PROVE Whole'
      OBVIOUS
  <2>1. CASE UNCHANGED vars
    <3>1. UNCHANGED <<disk, saves, answer, open, step, todo, plan, done, failing, lost, outcome, buffers>>
      BY <2>1 DEF vars, result
    <3>2. Inv'
      BY <3>1 DEF plan, Whole, Inv, Shape, Tables, Images, Untouched, Touched
    <3>3. Computed' /\ \A g : (Accounted(g)' <=> Accounted(g)) /\ Grouped(g)' = Grouped(g)
      BY <3>1, TablesStay DEF Whole
    <3>4. Sources' /\ Written'
      BY <3>1 DEF Whole, Sources, Written, Active, plan
    <3>5. Accounts'
      BY <3>1, <3>3 DEF Whole, Accounts, Active, plan
    <3> QED
      BY <3>2, <3>3, <3>4, <3>5 DEF Whole
  <2>2. ASSUME NEW f \in Files, SaveElsewhere(f) PROVE Whole'
    BY <2>2, SaveElsewhereWhole
  <2> QED
    BY <2>1, <2>2, ResolveWhole, PlanFileWhole, PlannedWhole, WriteFileWhole, FailingWhole,
       FinishWhole DEF Next
<1> QED
  BY <1>1, InitWhole, PTL DEF Spec

\* Whatever the server answers, however its edits are spread over documents, repeat or touch: a
\* file's edits are refused exactly when two of them could be applied in two ways, and what
\* phase 1 computes is what all of them at once mean for the text it has read (edits.rs plan,
\* apply; rename.rs 5-35).
THEOREM TheEditsAreOne == Spec => []EditsMeanOneThing
<1>1. Whole => EditsMeanOneThing
  <2> SUFFICES ASSUME Whole, NEW f \in Files
               PROVE  /\ Plan(Grouped(f)).ok <=> Unambiguous(Grouped(f))
                      /\ Plan(Grouped(f)).ok =>
                             /\ ToSet(Plan(Grouped(f)).edits) = ToSet(Grouped(f))
                             /\ Len(Plan(Grouped(f)).edits) =
                                    Cardinality(ToSet(Plan(Grouped(f)).edits))
                      /\ after[f] # None =>
                             after[f] = Simultaneously(before[f], ToSet(Grouped(f)))
      BY DEF EditsMeanOneThing
  <2>1. Grouped(f) \in Seq(EditsOver(Tokens))
    BY GroupedTyped DEF Whole, Sources
  <2>2. /\ Plan(Grouped(f)).ok <=> Unambiguous(Grouped(f))
        /\ Plan(Grouped(f)).ok =>
               /\ Plan(Grouped(f)).edits \in Seq(EditsOver(Tokens))
               /\ ToSet(Plan(Grouped(f)).edits) = ToSet(Grouped(f))
               /\ Separate(Plan(Grouped(f)).edits)
    BY <2>1, PlanDecides
  <2>3. Plan(Grouped(f)).ok =>
            Len(Plan(Grouped(f)).edits) = Cardinality(ToSet(Plan(Grouped(f)).edits))
    BY <2>2, SeparateIs
  <2>4. after[f] # None => after[f] = Simultaneously(before[f], ToSet(Grouped(f)))
    BY <2>1, PlannedFits DEF Whole, Computed
  <2> QED
    BY <2>2, <2>3, <2>4
<1> QED
  BY <1>1, SpecWhole, PTL

\* Whatever others save meanwhile, and however many files there are: a rename that reports
\* success has rewritten every closed file it names, as the edits say of the text the file held,
\* and no other; it has lost none and hands the editor the open ones (rename.rs 5-35).
THEOREM SuccessesAreWhole == Spec => []SuccessIsWhole
<1>1. Whole => SuccessIsWhole
  <2> SUFFICES ASSUME Whole, outcome = "Ready" PROVE SuccessIsWhole
      BY DEF SuccessIsWhole
  <2>1. /\ lost = {} /\ todo = {} /\ step = "end" /\ buffers = {f \in open : plans[f] # <<>>}
        /\ \A f \in Files : Accounted(f)
        /\ \A f \in Files : after[f] # None <=> f \in ToSet(done)
        /\ \A f \in ToSet(done) : f \notin saves => disk[f] = after[f]
    BY DEF Whole, Accounts, Written, Active
  <2>2. ASSUME NEW f \in Files \ saves, Grouped(f) = <<>> \/ f \in open PROVE Kept(f)
    <3>1. after[f] = None
      BY <2>1, <2>2 DEF Accounted
    <3> QED
      BY <2>1, <3>1 DEF Whole, Inv, Untouched, Touched, Kept
  <2>3. ASSUME NEW f \in Files \ saves, Grouped(f) # <<>>, f \notin open PROVE Renamed(f)
    <3>1. after[f] # None
      BY <2>1, <2>3 DEF Accounted
    <3>2. disk[f] = after[f] /\ before[f] = Text
      BY <2>1, <3>1 DEF Whole, Inv, Images
    <3>3. Grouped(f) \in Seq(EditsOver(Tokens))
      BY GroupedTyped DEF Whole, Sources
    <3>4. after[f] = Simultaneously(before[f], ToSet(Grouped(f)))
      BY <3>1, <3>3, PlannedFits DEF Whole, Computed
    <3> QED
      BY <3>2, <3>4 DEF Renamed
  <2>4. ASSUME NEW f \in open PROVE plans[f] # <<>> <=> Grouped(f) # <<>>
    <3>1. f \in Files
      BY DEF Whole, Sources
    <3>2. CASE Grouped(f) = <<>>
      BY <2>1, <3>1, <3>2 DEF Accounted
    <3>3. CASE Grouped(f) # <<>>
      <4>1. Grouped(f) \in Seq(EditsOver(Tokens))
        BY GroupedTyped DEF Whole, Sources
      <4>2. Plan(Grouped(f)).ok /\ plans[f] = Plan(Grouped(f)).edits
        BY <2>1, <3>1, <3>3 DEF Accounted
      <4>3. ToSet(plans[f]) = ToSet(Grouped(f))
        BY <4>1, <4>2, PlanDecides
      <4>4. Grouped(f)[1] \in ToSet(Grouped(f))
        BY <3>3, <4>1 DEF ToSet
      <4>5. plans[f] # <<>>
        BY <4>3, <4>4, EmptyHasNone
      <4> QED
        BY <3>3, <4>5
    <3> QED
      BY <3>2, <3>3
  <2> QED
    BY <2>1, <2>2, <2>3, <2>4 DEF SuccessIsWhole
<1> QED
  BY <1>1, SpecWhole, PTL
=============================================================================
