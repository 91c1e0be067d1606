--------------------------- MODULE Screens_proofs ---------------------------
(***************************************************************************)
(* Proofs about Screens for every table of descriptions.                   *)
(***************************************************************************)
EXTENDS ScreenShapes, FiniteSetTheorems, FunctionTheorems, SequenceTheorems, WellFoundedInduction, TLAPS

-----------------------------------------------------------------------------
(* Induction over the naturals.                                            *)

Less == {pair \in Nat \X Nat : pair[1] < pair[2]}

LEMMA LessWellFounded == IsWellFoundedOn(Less, Nat)
BY NatLessThanWellFounded, Zenon DEF OpToRel, Less

\* A set that holds 0, and n + 1 with every n, holds every natural.
LEMMA SetInduction ==
  ASSUME NEW T, 0 \in T, \A n \in Nat : n \in T => n + 1 \in T
  PROVE  Nat \subseteq T
<1> SUFFICES ASSUME Nat \ T # {} PROVE FALSE
  OBVIOUS
<1>1. PICK m \in Nat \ T : \A n \in Nat \ T : ~ (<<n, m>> \in Less)
  <2>1. (Nat \ T) \in SUBSET Nat
    OBVIOUS
  <2>2. QED
    BY <2>1, LessWellFounded, WFMin
<1>2. m - 1 \in Nat /\ m - 1 \in T
  <2>1. m - 1 \in Nat
    BY <1>1
  <2>2. <<m - 1, m>> \in Less
    BY <1>1, <2>1 DEF Less
  <2>3. QED
    BY <1>1, <2>1, <2>2
<1>3. QED
  BY <1>1, <1>2

-----------------------------------------------------------------------------
(* The sequences the requests are kept in.                                 *)

\* The elements of a finite set, one after the other: each is there, none is there twice.
LEMMA Listed ==
  ASSUME NEW T, IsFiniteSet(T)
  PROVE  /\ SetToSeq(T) \in Seq(T)
         /\ \A x \in T : \E i \in 1 .. Len(SetToSeq(T)) : SetToSeq(T)[i] = x
         /\ \A i, j \in 1 .. Len(SetToSeq(T)) : SetToSeq(T)[i] = SetToSeq(T)[j] => i = j
<1> DEFINE n == Cardinality(T)
<1>1. n \in Nat /\ ExistsBijection(1 .. n, T)
  BY FS_CardinalityType
<1>2. PICK g \in Bijection(1 .. n, T) : TRUE
  BY <1>1 DEF ExistsBijection
<1>3. g \in [1 .. n -> T] /\ IsInjective(g)
  BY <1>2 DEF Bijection, Injection, IsInjective
<1>4. SetToSeq(T) \in [1 .. n -> T] /\ IsInjective(SetToSeq(T))
  BY <1>3 DEF SetToSeq
<1> DEFINE s == SetToSeq(T)
<1>5. s \in Seq(T) /\ Len(s) = n /\ DOMAIN s = 1 .. n
  BY <1>1, <1>4
<1>6. ASSUME NEW x \in T, \A i \in 1 .. n : s[i] # x PROVE FALSE
  <2>1. s \in [1 .. n -> T \ {x}]
    BY <1>4, <1>6
  <2>2. IsFiniteSet(T \ {x}) /\ Cardinality(T \ {x}) = n - 1
    BY FS_RemoveElement
  <2>3. IsFiniteSet(1 .. n) /\ Cardinality(1 .. n) = n
    BY <1>1, FS_Interval
  <2>4. \E i, j \in 1 .. n : i # j /\ s[i] = s[j]
    BY <1>1, <2>1, <2>2, <2>3, FS_PigeonHole
  <2>5. QED
    BY <1>4, <1>5, <2>4 DEF IsInjective
<1>7. QED
  BY <1>4, <1>5, <1>6 DEF IsInjective

\* p holds the elements of q at the places in K up to n, in their order: e says where each was.
Picked(p, e, q, K, n) ==
  /\ e \in [1 .. Len(p) -> K \cap (1 .. n)]
  /\ \A i, j \in 1 .. Len(p) : i < j => e[i] < e[j]
  /\ \A i \in 1 .. Len(p) : p[i] = q[e[i]]
  /\ \A j \in K \cap (1 .. n) : \E i \in 1 .. Len(p) : e[i] = j

\* The first n values of the recursion in Remaining.
Kept(q, K, n, f) ==
  f = [k \in 0 .. n |->
         IF k = 0 THEN <<>> ELSE IF k \in K THEN Append(f[k - 1], q[k]) ELSE f[k - 1]]

LEMMA KeptExists ==
  ASSUME NEW q, NEW K
  PROVE  \A n \in Nat : \E f : Kept(q, K, n, f)
<1> DEFINE T == {n \in Nat : \E f : Kept(q, K, n, f)}
<1>1. 0 \in T
  <2> DEFINE f == [k \in 0 .. 0 |-> <<>>]
  <2>1. Kept(q, K, 0, f)
    BY DEF Kept
  <2>2. QED
    BY <2>1
<1>2. ASSUME NEW n \in Nat, n \in T PROVE n + 1 \in T
  <2>1. PICK f : Kept(q, K, n, f)
    BY <1>2
  <2> DEFINE last == IF n + 1 \in K THEN Append(f[n], q[n + 1]) ELSE f[n]
             g == [k \in 0 .. n + 1 |-> IF k = n + 1 THEN last ELSE f[k]]
  <2> HIDE DEF last
  <2>2. ASSUME NEW k \in 0 .. n + 1
        PROVE  g[k] = IF k = 0 THEN <<>>
                      ELSE IF k \in K THEN Append(g[k - 1], q[k]) ELSE g[k - 1]
    <3>1. CASE k = n + 1
      <4>1. g[k] = last /\ g[k - 1] = f[n] /\ k # 0
        BY <3>1
      <4>2. QED
        BY <3>1, <4>1 DEF last
    <3>2. CASE k # n + 1
      <4>1. k \in 0 .. n /\ g[k] = f[k] /\ (k # 0 => g[k - 1] = f[k - 1])
        BY <3>2
      <4>2. f[k] = IF k = 0 THEN <<>>
                   ELSE IF k \in K THEN Append(f[k - 1], q[k]) ELSE f[k - 1]
        BY <2>1, <4>1 DEF Kept
      <4>3. QED
        BY <4>1, <4>2
    <3>3. QED
      BY <3>1, <3>2
  <2>3. g = [k \in 0 .. n + 1 |-> g[k]]
    OBVIOUS
  <2> HIDE DEF g
  <2>4. Kept(q, K, n + 1, g)
    BY <2>2, <2>3 DEF Kept
  <2>5. QED
    BY <2>4
<1> HIDE DEF T
<1>3. Nat \subseteq T
  BY <1>1, <1>2, SetInduction
<1>4. QED
  BY <1>3 DEF T

\* One more element is kept, or left out.
LEMMA PickedNext ==
  ASSUME NEW R, NEW q \in Seq(R), NEW K, NEW n \in Nat, n + 1 \in 1 .. Len(q),
         NEW p \in Seq(R), NEW e, Picked(p, e, q, K, n)
  PROVE  /\ n + 1 \notin K => Picked(p, e, q, K, n + 1)
         /\ n + 1 \in K => \E d : Picked(Append(p, q[n + 1]), d, q, K, n + 1)
<1>1. ASSUME n + 1 \notin K PROVE K \cap (1 .. n) = K \cap (1 .. n + 1)
  BY <1>1
<1>2. ASSUME n + 1 \in K PROVE \E d : Picked(Append(p, q[n + 1]), d, q, K, n + 1)
  <2> DEFINE m == Len(p)
             r == Append(p, q[n + 1])
             d == [i \in 1 .. m + 1 |-> IF i = m + 1 THEN n + 1 ELSE e[i]]
  <2>1. m \in Nat /\ Len(r) = m + 1 /\ r[m + 1] = q[n + 1] /\ \A i \in 1 .. m : r[i] = p[i]
    OBVIOUS
  <2> HIDE DEF m, r
  <2>2. \A i \in 1 .. m : e[i] \in K /\ e[i] \in 1 .. n
    BY DEF Picked, m
  <2>3. d \in [1 .. m + 1 -> K \cap (1 .. n + 1)]
    BY <1>2, <2>1, <2>2
  <2>4. d[m + 1] = n + 1 /\ \A i \in 1 .. m : d[i] = e[i]
    BY <2>1
  <2> HIDE DEF d
  <2>5. ASSUME NEW i \in 1 .. m + 1, NEW j \in 1 .. m + 1, i < j PROVE d[i] < d[j]
    <3>1. i \in 1 .. m /\ d[i] = e[i]
      BY <2>1, <2>4, <2>5
    <3>2. CASE j = m + 1
      BY <2>2, <2>4, <3>1, <3>2
    <3>3. CASE j \in 1 .. m
      BY <2>4, <2>5, <3>1, <3>3 DEF Picked, m
    <3>4. QED
      BY <2>1, <3>2, <3>3
  <2>6. ASSUME NEW i \in 1 .. m + 1 PROVE r[i] = q[d[i]]
    <3>1. CASE i = m + 1
      BY <2>1, <2>4, <3>1
    <3>2. CASE i \in 1 .. m
      BY <2>1, <2>4, <3>2 DEF Picked, m
    <3>3. QED
      BY <2>1, <3>1, <3>2
  <2>7. ASSUME NEW j \in K \cap (1 .. n + 1) PROVE \E i \in 1 .. m + 1 : d[i] = j
    <3>1. CASE j = n + 1
      BY <2>1, <2>4, <3>1
    <3>2. CASE j \in 1 .. n
      <4>1. PICK i \in 1 .. m : e[i] = j
        BY <2>7, <3>2 DEF Picked, m
      <4>2. QED
        BY <2>1, <2>4, <4>1
    <3>3. QED
      BY <3>1, <3>2
  <2>8. Picked(r, d, q, K, n + 1)
    BY <2>1, <2>3, <2>5, <2>6, <2>7 DEF Picked
  <2>9. QED
    BY <2>8 DEF r
<1>3. QED
  BY <1>1, <1>2 DEF Picked

\* What Remaining returns is the part of q at the places K.
LEMMA RemainingPicks ==
  ASSUME NEW R, NEW q \in Seq(R), NEW K \in SUBSET (1 .. Len(q))
  PROVE  /\ Remaining(q, K) \in Seq(R)
         /\ \E e : Picked(Remaining(q, K), e, q, K, Len(q))
<1> DEFINE f == CHOOSE f : Kept(q, K, Len(q), f)
           T == {n \in Nat : n <= Len(q) => f[n] \in Seq(R) /\ \E e : Picked(f[n], e, q, K, n)}
<1>1. Len(q) \in Nat
  OBVIOUS
<1>2. Kept(q, K, Len(q), f)
  BY <1>1, KeptExists
<1>3. Remaining(q, K) = f[Len(q)]
  BY Zenon DEF Remaining, Kept
<1> HIDE DEF f
<1>0. \A k \in 0 .. Len(q) :
        f[k] = IF k = 0 THEN <<>> ELSE IF k \in K THEN Append(f[k - 1], q[k]) ELSE f[k - 1]
  <2> DEFINE Value(k) == IF k = 0 THEN <<>> ELSE IF k \in K THEN Append(f[k - 1], q[k]) ELSE f[k - 1]
  <2>1. f = [k \in 0 .. Len(q) |-> Value(k)]
    BY <1>2 DEF Kept
  <2> HIDE DEF Value
  <2>2. \A k \in 0 .. Len(q) : f[k] = Value(k)
    BY <2>1
  <2>3. QED
    BY <2>2 DEF Value
<1>4. 0 \in T
  <2>1. f[0] = <<>>
    BY <1>0, <1>1
  <2>2. Picked(<<>>, <<>>, q, K, 0)
    BY DEF Picked
  <2>3. f[0] \in Seq(R) /\ \E e : Picked(f[0], e, q, K, 0)
    BY <2>1, <2>2
  <2>4. QED
    BY <2>3
<1>5. ASSUME NEW n \in Nat, n \in T PROVE n + 1 \in T
  <2> SUFFICES ASSUME n + 1 <= Len(q)
               PROVE  f[n + 1] \in Seq(R) /\ \E e : Picked(f[n + 1], e, q, K, n + 1)
    OBVIOUS
  <2>1. n <= Len(q) /\ n + 1 \in 1 .. Len(q)
    BY <1>1
  <2>2. f[n] \in Seq(R)
    BY <1>5, <2>1
  <2>3. PICK e : Picked(f[n], e, q, K, n)
    BY <1>5, <2>1
  <2>4. f[n + 1] = IF n + 1 \in K THEN Append(f[n], q[n + 1]) ELSE f[n]
    <3>1. n + 1 \in 0 .. Len(q) /\ n + 1 # 0 /\ (n + 1) - 1 = n
      BY <1>1, <2>1
    <3>2. QED
      BY <1>0, <3>1
  <2>5. /\ n + 1 \notin K => Picked(f[n], e, q, K, n + 1)
        /\ n + 1 \in K => \E d : Picked(Append(f[n], q[n + 1]), d, q, K, n + 1)
    BY <2>1, <2>2, <2>3, PickedNext
  <2>6. q[n + 1] \in R
    BY <2>1
  <2>7. QED
    BY <2>2, <2>4, <2>5, <2>6
<1> HIDE DEF T
<1>6. Len(q) \in T
  BY <1>1, <1>4, <1>5, SetInduction
<1>7. QED
  BY <1>1, <1>3, <1>6 DEF T

LEMMA Part ==
  ASSUME NEW R, NEW s \in Seq(R), NEW a \in Nat, NEW b \in Nat, b <= Len(s)
  PROVE  LET part == SubSeq(s, a + 1, b) IN
         /\ part \in Seq(R)
         /\ Len(part) = IF a + 1 <= b THEN b - a ELSE 0
         /\ \A k \in 1 .. Len(part) : part[k] = s[a + k]
<1>1. CASE a + 1 <= b
  <2>1. a + 1 \in 1 .. Len(s) /\ b \in 1 .. Len(s)
    BY <1>1
  <2>2. SubSeq(s, a + 1, b) \in Seq(R) /\ Len(SubSeq(s, a + 1, b)) = b - a
    BY <1>1, <2>1
  <2>3. ASSUME NEW k \in 1 .. b - a PROVE SubSeq(s, a + 1, b)[k] = s[a + k]
    BY <1>1, <2>1
  <2>4. QED
    BY <1>1, <2>2, <2>3
<1>2. CASE b < a + 1
  BY <1>2
<1>3. QED
  BY <1>1, <1>2

LEMMA RemovedAt ==
  ASSUME NEW R, NEW q \in Seq(R), NEW i \in 1 .. Len(q)
  PROVE  /\ RemoveAt(q, i) \in Seq(R)
         /\ Len(RemoveAt(q, i)) = Len(q) - 1
         /\ \A j \in 1 .. Len(q) - 1 : RemoveAt(q, i)[j] = IF j < i THEN q[j] ELSE q[j + 1]
<1>1. PICK n \in Nat : n = Len(q) /\ i \in 1 .. n
  OBVIOUS
<1>2. PICK p \in Seq(R) : p = SubSeq(q, 1, i - 1) /\ Len(p) = i - 1 /\ \A j \in 1 .. i - 1 : p[j] = q[j]
  <2>1. 0 \in Nat /\ i - 1 \in Nat /\ i - 1 <= Len(q) /\ 0 + 1 = 1
    BY <1>1
  <2>2. PICK p : p = SubSeq(q, 0 + 1, i - 1)
    OBVIOUS
  <2>3. /\ p \in Seq(R) /\ Len(p) = IF 0 + 1 <= i - 1 THEN (i - 1) - 0 ELSE 0
        /\ \A k \in 1 .. Len(p) : p[k] = q[0 + k]
    BY <2>1, <2>2, Part
  <2>4. Len(p) = i - 1
    BY <1>1, <2>3
  <2>5. ASSUME NEW j \in 1 .. i - 1 PROVE p[j] = q[j]
    <3>1. j \in 1 .. Len(p) /\ 0 + j = j
      BY <1>1, <2>4
    <3>2. QED
      BY <2>3, <3>1
  <2>6. \A j \in 1 .. i - 1 : p[j] = q[j]
    BY <2>5, Zenon
  <2>7. p \in Seq(R)
    BY <2>3
  <2> WITNESS p \in Seq(R)
  <2>8. QED
    BY <2>2, <2>4, <2>6
<1>3. PICK r \in Seq(R) : r = SubSeq(q, i + 1, n) /\ Len(r) = n - i /\ \A j \in 1 .. n - i : r[j] = q[i + j]
  <2>1. i \in Nat /\ n <= Len(q)
    BY <1>1
  <2>2. PICK r : r = SubSeq(q, i + 1, n)
    OBVIOUS
  <2>3. /\ r \in Seq(R) /\ Len(r) = IF i + 1 <= n THEN n - i ELSE 0
        /\ \A k \in 1 .. Len(r) : r[k] = q[i + k]
    BY <1>1, <2>1, <2>2, Part
  <2>4. Len(r) = n - i
    BY <1>1, <2>3
  <2>5. QED
    BY <2>2, <2>3, <2>4
<1>0. Len(p) = i - 1 /\ Len(r) = n - i /\ i \in Nat
  <2>1. i \in Nat
    BY <1>1
  <2>2. QED
    BY <1>2, <1>3, <2>1, Zenon
<1>4. RemoveAt(q, i) = p \o r
  BY <1>1, <1>2, <1>3 DEF RemoveAt
<1>5. p \o r \in Seq(R) /\ Len(p \o r) = n - 1
  <2>1. p \o r \in Seq(R) /\ Len(p \o r) = Len(p) + Len(r)
    BY ConcatProperties
  <2>2. Len(p) + Len(r) = n - 1
    BY <1>1, <1>0
  <2>3. QED
    BY <2>1, <2>2
<1>6. ASSUME NEW j \in 1 .. n - 1 PROVE (p \o r)[j] = IF j < i THEN q[j] ELSE q[j + 1]
  <2>1. CASE j < i
    <3>1. j \in 1 .. Len(p) + Len(r) /\ j <= Len(p) /\ j \in 1 .. i - 1
      BY <1>0, <1>1, <2>1
    <3>2. (p \o r)[j] = p[j]
      BY <3>1, ConcatProperties
    <3>3. QED
      BY <1>2, <2>1, <3>1, <3>2
  <2>2. CASE ~ (j < i)
    <3>1. j - (i - 1) \in 1 .. n - i /\ i + (j - (i - 1)) = j + 1
      BY <1>1, <2>2
    <3>2. (p \o r)[j] = r[j - (i - 1)]
      <4>1. j \in 1 .. Len(p) + Len(r) /\ ~ (j <= Len(p)) /\ j - Len(p) = j - (i - 1)
        BY <1>0, <1>1, <2>2
      <4>2. QED
        BY <4>1, ConcatProperties
    <3>3. QED
      BY <1>3, <2>2, <3>1, <3>2
  <2>3. QED
    BY <2>1, <2>2
<1>7. QED
  BY <1>1, <1>4, <1>5, <1>6

-----------------------------------------------------------------------------
(* The screen stays the same; what its description refers to is in it.     *)

USE IdsAssumption, MaxCallsAssumption

LEMMA SameScreen ==
  ASSUME scr' = scr
  PROVE  /\ S' = S /\ ActNames' = ActNames /\ LoadNames' = LoadNames
         /\ Flags' = Flags /\ Selections' = Selections /\ Misses' = Misses
         /\ Causes' = Causes /\ Requests' = Requests
<1>1. S' = S
  BY DEF S
<1>2. ActNames' = ActNames /\ LoadNames' = LoadNames
  BY <1>1 DEF ActNames, LoadNames
<1>3. Flags' = Flags
  BY <1>1, <1>2 DEF Flags, Busy
<1>4. Selections' = Selections /\ Misses' = Misses /\ Causes' = Causes
  BY <1>1, <1>2 DEF Selections, Misses, Causes
<1>5. Requests' = Requests
  BY <1>2, <1>4 DEF Requests
<1>6. QED
  BY <1>1, <1>2, <1>3, <1>4, <1>5

LEMMA Described ==
  ASSUME TypeOK
  PROVE  /\ IsFiniteSet(LoadNames)
         /\ \A l \in LoadNames \union {"", "first", "late", "failed"} : l \notin ActNames
         /\ \A l \in LoadNames : S.loads[l].by \in S.axes \union {""}
         /\ \A l \in LoadNames : S.loads[l].fills \union S.loads[l].may \subseteq DOMAIN S.drafts
         /\ \A a \in ActNames : S.acts[a].of \in S.axes \union {""} /\ S.acts[a].reload \union S.acts[a].shows \subseteq LoadNames
         /\ \A a \in ActNames :
              UNION {S.acts[a].sends, S.acts[a].lands, S.acts[a].okDrops, S.acts[a].lastly} \subseteq DOMAIN S.drafts
         /\ \A d \in DOMAIN S.drafts : S.drafts[d].by \in S.axes \union {""}
<1>1. scr \in DOMAIN Table
  BY DEF TypeOK
<1>2. WellFormed(S)
  BY <1>1, DescriptionsAssumption DEF S
<1>3. QED
  BY <1>2 DEF WellFormed, LoadNames, ActNames

LEMMA KeyType ==
  ASSUME TypeOK, NEW l \in LoadNames, NEW a \in Selections
  PROVE  Key(l, a) \in Ids
BY Described DEF Key, Selections

-----------------------------------------------------------------------------
(* What Settle makes of the requests.                                      *)

\* What request c becomes: d.
Becomes(c, d, J, new, a, for) ==
  /\ d \in Requests
  /\ d.name = c.name /\ d.load = c.load /\ d.obj = c.obj /\ d.was = c.was
  /\ d.late = (c.late \/ Outdated(c, new, a))
  /\ IF \E l \in J : Joins(l, c)
       THEN d.for = c.for \union for /\ d.miss = IF c.miss = "" THEN "" ELSE "first"
       ELSE d.for = c.for /\ d.miss = c.miss

\* The requests q1 are those of q0 that stand, e says where they were, and after the first m the new ones.
Settles(q0, q1, m, e, J, new, sent, a, for) ==
  /\ m \in 0 .. Len(q1) /\ e \in [1 .. m -> 1 .. Len(q0)]
  /\ \A i, j \in 1 .. m : i < j => e[i] < e[j]
  /\ \A i \in 1 .. m : Becomes(q0[e[i]], q1[i], J, new, a, for)
  /\ \A j \in 1 .. Len(q0) :
       \/ \E i \in 1 .. m : e[i] = j
       \/ Outdated(q0[j], new, a) /\ q0[j].for = {} /\ ((\E l \in J : Joins(l, q0[j])) => for = {})
  /\ \A i \in m + 1 .. Len(q1) : q1[i] \in sent
  /\ \A r \in sent : \E i \in m + 1 .. Len(q1) : q1[i] = r
  /\ \A i, j \in m + 1 .. Len(q1) : q1[i] = q1[j] => i = j

LEMMA JoinedBecomes ==
  ASSUME TypeOK, NEW q0 \in Seq(Requests), NEW J, NEW new, NEW a, NEW for \in SUBSET ActNames
  PROVE  LET q == Joined(q0, J, for)
             r == Aged(q, new, a)
         IN /\ q \in Seq(Requests) /\ r \in Seq(Requests)
            /\ Len(q) = Len(q0) /\ Len(r) = Len(q0)
            /\ \A j \in 1 .. Len(q0) : /\ Becomes(q0[j], r[j], J, new, a, for)
                                     /\ Outdated(q[j], new, a) = Outdated(q0[j], new, a)
                                     /\ q[j].for = r[j].for
<1> DEFINE q == Joined(q0, J, for)
           r == Aged(q, new, a)
<1>1. Len(q0) \in Nat /\ \A j \in 1 .. Len(q0) : q0[j] \in Requests
  OBVIOUS
<1>2. /\ DOMAIN q = 1 .. Len(q0)
      /\ \A j \in 1 .. Len(q0) :
           q[j] = IF \E l \in J : Joins(l, q0[j])
                  THEN [q0[j] EXCEPT !.miss = IF @ = "" THEN "" ELSE "first", !.for = @ \union for]
                  ELSE q0[j]
  BY DEF Joined
<1> HIDE DEF q
<1>3. ASSUME NEW j \in 1 .. Len(q0)
      PROVE  /\ q[j] \in Requests
             /\ q[j].name = q0[j].name /\ q[j].load = q0[j].load /\ q[j].obj = q0[j].obj
             /\ q[j].was = q0[j].was /\ q[j].late = q0[j].late
             /\ IF \E l \in J : Joins(l, q0[j])
                  THEN q[j].for = q0[j].for \union for /\ q[j].miss = IF q0[j].miss = "" THEN "" ELSE "first"
                  ELSE q[j].for = q0[j].for /\ q[j].miss = q0[j].miss
  <2>1. q0[j] \in Requests
    BY <1>1
  <2>2. CASE \E l \in J : Joins(l, q0[j])
    <3>1. q[j] = [q0[j] EXCEPT !.miss = IF @ = "" THEN "" ELSE "first", !.for = @ \union for]
      BY <1>2, <2>2
    <3>2. PICK miss, fs : miss = (IF q0[j].miss = "" THEN "" ELSE "first") /\ fs = q0[j].for \union for
      OBVIOUS
    <3>3. q[j] = [q0[j] EXCEPT !.miss = miss, !.for = fs]
      BY <3>1, <3>2
    <3>4. miss \in Misses /\ fs \in SUBSET ActNames
      BY <2>1, <3>2 DEF Requests, Misses
    <3>5. /\ q[j] \in Requests
          /\ q[j].name = q0[j].name /\ q[j].load = q0[j].load /\ q[j].obj = q0[j].obj
          /\ q[j].was = q0[j].was /\ q[j].late = q0[j].late /\ q[j].for = fs /\ q[j].miss = miss
      BY <2>1, <3>3, <3>4 DEF Requests
    <3>6. QED
      BY <2>2, <3>2, <3>5
  <2>3. CASE ~ \E l \in J : Joins(l, q0[j])
    BY <1>2, <2>1, <2>3
  <2>4. QED
    BY <2>2, <2>3
<1>4. q = [j \in 1 .. Len(q0) |-> q[j]]
  BY DEF q, Joined
<1>5. q \in Seq(Requests) /\ Len(q) = Len(q0)
  <2>1. \A j \in 1 .. Len(q0) : q[j] \in Requests
    BY <1>3
  <2>2. QED
    BY <1>1, <1>4, <2>1
<1>6. /\ r = [j \in 1 .. Len(q0) |-> r[j]]
      /\ \A j \in 1 .. Len(q0) :
           r[j] = IF Outdated(q[j], new, a) THEN [q[j] EXCEPT !.late = TRUE] ELSE q[j]
  BY <1>5 DEF Aged
<1> HIDE DEF r
<1>7. ASSUME NEW j \in 1 .. Len(q0)
      PROVE  /\ Becomes(q0[j], r[j], J, new, a, for)
             /\ Outdated(q[j], new, a) = Outdated(q0[j], new, a)
             /\ q[j].for = r[j].for
  <2>1. Outdated(q[j], new, a) = Outdated(q0[j], new, a)
    BY <1>3 DEF Outdated
  <2>2. /\ r[j] \in Requests /\ r[j].name = q[j].name /\ r[j].load = q[j].load
        /\ r[j].obj = q[j].obj /\ r[j].was = q[j].was
        /\ r[j].for = q[j].for /\ r[j].miss = q[j].miss
        /\ r[j].late = (q[j].late \/ Outdated(q[j], new, a))
    <3>1. q[j] \in Requests
      BY <1>3
    <3>2. CASE Outdated(q[j], new, a)
      BY <1>6, <3>1, <3>2 DEF Requests
    <3>3. CASE ~ Outdated(q[j], new, a)
      <4>1. r[j] = q[j]
        BY <1>6, <3>3
      <4>2. QED
        BY <3>1, <3>3, <4>1 DEF Requests
    <3>4. QED
      BY <3>2, <3>3
  <2>3. QED
    BY <1>3, <2>1, <2>2 DEF Becomes
<1>8. r \in Seq(Requests) /\ Len(r) = Len(q0)
  <2>1. \A j \in 1 .. Len(q0) : r[j] \in Requests
    BY <1>7 DEF Becomes
  <2>2. QED
    BY <1>1, <1>6, <2>1
<1>9. QED
  BY <1>5, <1>7, <1>8 DEF q, r

LEMMA SentType ==
  ASSUME TypeOK, NEW ls, NEW was \in Selections, NEW a \in Selections,
         NEW new \in SUBSET LoadNames, NEW for \in SUBSET ActNames
  PROVE  Sent(ls, was, a, new, for) \in SUBSET Requests /\ IsFiniteSet(Sent(ls, was, a, new, for))
<1> DEFINE R(l) == IF l \in ls THEN Request(l, Key(l, IF S.loads[l].keyed THEN a ELSE was), for)
                   ELSE Request(l, Key(l, a), {})
<1>1. Sent(ls, was, a, new, for) = {R(l) : l \in new}
  BY DEF Sent
<1>2. ASSUME NEW l \in LoadNames, NEW o \in Ids, NEW fs \in SUBSET ActNames
      PROVE  Request(l, o, fs) \in Requests
  BY DEF Request, Requests, Causes, Misses
<1>3. ASSUME NEW l \in LoadNames PROVE R(l) \in Requests
  BY <1>2, KeyType
<1>4. IsFiniteSet(new)
  BY Described, FS_Subset
<1> HIDE DEF R
<1>5. IsFiniteSet({R(l) : l \in new})
  <2> DEFINE g == [l \in new |-> R(l)]
             T == {R(l) : l \in new}
  <2>1. g \in Surjection(new, T)
    BY DEF Surjection
  <2>2. QED
    BY <1>4, <2>1, FS_Surjection
<1>6. QED
  BY <1>1, <1>3, <1>5

\* A request r for the load l, as Settle sends it.
IsSent(r, l, ls, was, a, for) ==
  /\ r.name = l /\ r.load = TRUE /\ r.late = FALSE /\ r.miss = "" /\ r.was = <<>>
  /\ r.for = IF l \in ls THEN for ELSE {}
  /\ r.obj = Key(l, IF l \in ls /\ ~S.loads[l].keyed THEN was ELSE a)

LEMMA SentIs ==
  ASSUME NEW ls, NEW was, NEW a, NEW new, NEW for
  PROVE  /\ \A r \in Sent(ls, was, a, new, for) : \E l \in new : IsSent(r, l, ls, was, a, for)
         /\ \A l \in new : \E r \in Sent(ls, was, a, new, for) : IsSent(r, l, ls, was, a, for)
         /\ \A r, t \in Sent(ls, was, a, new, for) : r.name = t.name => r = t
<1> DEFINE R(l) == IF l \in ls THEN Request(l, Key(l, IF S.loads[l].keyed THEN a ELSE was), for)
                   ELSE Request(l, Key(l, a), {})
<1>1. Sent(ls, was, a, new, for) = {R(l) : l \in new}
  BY DEF Sent
<1>2. ASSUME NEW l PROVE IsSent(R(l), l, ls, was, a, for)
  <2>1. \A o, fs : /\ Request(l, o, fs).name = l /\ Request(l, o, fs).load = TRUE
                   /\ Request(l, o, fs).late = FALSE /\ Request(l, o, fs).miss = ""
                   /\ Request(l, o, fs).for = fs /\ Request(l, o, fs).obj = o
    BY DEF Request
  <2>0. PICK w : w = <<>>
    OBVIOUS
  <2> DEFINE Was(o, fs) == [name |-> l, load |-> TRUE, obj |-> o, late |-> FALSE, miss |-> "", for |-> fs, was |-> w]
  <2>8. \A o, fs : Was(o, fs).was = w
    OBVIOUS
  <2>9. \A o, fs : Request(l, o, fs) = Was(o, fs)
    BY <2>0 DEF Request
  <2>2. PICK o, fs : /\ R(l) = Request(l, o, fs)
                     /\ fs = IF l \in ls THEN for ELSE {}
                     /\ o = Key(l, IF l \in ls /\ ~S.loads[l].keyed THEN was ELSE a)
    BY Zenon
  <2>3. PICK r : r = R(l)
    OBVIOUS
  <2> HIDE DEF R
  <2>4. r = Request(l, o, fs)
    BY <2>2, <2>3
  <2>5. /\ r.name = l /\ r.load = TRUE /\ r.late = FALSE /\ r.miss = "" /\ r.for = fs
        /\ r.obj = o
    BY <2>1, <2>4
  <2> HIDE DEF Was
  <2>10. r.was = <<>>
    BY <2>0, <2>4, <2>8, <2>9, Zenon
  <2>6. IsSent(r, l, ls, was, a, for)
    BY <2>2, <2>5, <2>10 DEF IsSent
  <2>7. QED
    BY <2>3, <2>6
<1> HIDE DEF R
<1>3. ASSUME NEW r \in Sent(ls, was, a, new, for), NEW t \in Sent(ls, was, a, new, for), r.name = t.name
      PROVE  r = t
  <2>1. PICK l, k : r = R(l) /\ t = R(k)
    BY <1>1
  <2>2. R(l).name = l /\ R(k).name = k
    BY <1>2 DEF IsSent
  <2>3. QED
    BY <1>3, <2>1, <2>2
<1>4. QED
  BY <1>1, <1>2, <1>3

\* The requests after a Settle: those that stand, in their order, then the new ones.
LEMMA Settled ==
  ASSUME TypeOK, NEW ls \in SUBSET LoadNames, NEW was \in Selections, NEW a \in Selections,
         NEW f, NEW s, NEW q0 \in Seq(Requests), NEW for \in SUBSET ActNames,
         Settle(ls, was, a, f, s, q0, for)
  PROVE  LET J == {l \in ls : Joinable(l, a)}
             new == New(ls, a, f)
             sent == Sent(ls, was, a, new, for)
         IN /\ calls' \in Seq(Requests)
            /\ \E m \in Nat : \E e : Settles(q0, calls', m, e, J, new, sent, a, for)
<1>1. PICK J, new, sent : /\ J = {l \in ls : Joinable(l, a)}
                          /\ new = New(ls, a, f)
                          /\ sent = Sent(ls, was, a, new, for)
  OBVIOUS
<1>2. PICK q, r, K, p, t :
        /\ q = Joined(q0, J, for) /\ r = Aged(q, new, a)
        /\ K = {j \in 1 .. Len(q) : Outdated(q[j], new, a) => q[j].for # {}}
        /\ p = Remaining(r, K) /\ t = SetToSeq(sent)
        /\ calls' = p \o t
  BY <1>1 DEF Settle
<1>3. /\ q \in Seq(Requests) /\ r \in Seq(Requests) /\ Len(q) = Len(q0) /\ Len(r) = Len(q0)
      /\ \A j \in 1 .. Len(q0) : /\ Becomes(q0[j], r[j], J, new, a, for)
                               /\ Outdated(q[j], new, a) = Outdated(q0[j], new, a)
                               /\ q[j].for = r[j].for
  BY <1>2, JoinedBecomes
<1>4. new \in SUBSET LoadNames
  BY <1>1 DEF New, Wanted
<1>5. sent \in SUBSET Requests /\ IsFiniteSet(sent)
  BY <1>1, <1>4, SentType
<1>6. K \in SUBSET (1 .. Len(r))
  BY <1>2, <1>3
<1>7. p \in Seq(Requests) /\ \E e : Picked(p, e, r, K, Len(r))
  BY <1>2, <1>3, <1>6, RemainingPicks
<1>8. PICK e : Picked(p, e, r, K, Len(r))
  BY <1>7
<1>9. /\ t \in Seq(sent)
      /\ \A x \in sent : \E i \in 1 .. Len(t) : t[i] = x
      /\ \A i, j \in 1 .. Len(t) : t[i] = t[j] => i = j
  BY <1>2, <1>5, Listed
<1>10. PICK m \in Nat, k \in Nat, n \in Nat : m = Len(p) /\ k = Len(t) /\ n = Len(q0)
  BY <1>7, <1>9
<1>11. t \in Seq(Requests) /\ \A i \in 1 .. k : t[i] \in sent
  BY <1>5, <1>9, <1>10
<1>12. PICK c \in Seq(Requests) :
         /\ c = calls' /\ Len(c) = m + k
         /\ \A i \in 1 .. m + k : c[i] = IF i <= m THEN p[i] ELSE t[i - m]
  <2>1. PICK c : c = p \o t
    OBVIOUS
  <2>2. /\ c \in Seq(Requests) /\ Len(c) = Len(p) + Len(t)
        /\ \A i \in 1 .. Len(p) + Len(t) : c[i] = IF i <= Len(p) THEN p[i] ELSE t[i - Len(p)]
    BY <1>7, <1>11, <2>1, ConcatProperties
  <2>3. Len(p) = m /\ Len(t) = k /\ c = calls'
    BY <1>2, <1>10, <2>1
  <2>4. Len(c) = m + k /\ \A i \in 1 .. m + k : c[i] = IF i <= m THEN p[i] ELSE t[i - m]
    BY <2>2, <2>3, Zenon
  <2>5. QED
    BY <2>2, <2>3, <2>4, Zenon
<1>13. \A i \in 1 .. m : i \in 1 .. m + k /\ c[i] = p[i]
  BY <1>12
<1>14. \A i \in m + 1 .. m + k : i - m \in 1 .. k /\ c[i] = t[i - m]
  <2> SUFFICES ASSUME NEW i \in m + 1 .. m + k PROVE i - m \in 1 .. k /\ c[i] = t[i - m]
    OBVIOUS
  <2>1. i - m \in 1 .. k /\ i \in 1 .. m + k /\ ~ (i <= m)
    OBVIOUS
  <2>2. QED
    BY <1>12, <2>1
<1>15. /\ e \in [1 .. m -> K \cap (1 .. n)]
       /\ \A i, j \in 1 .. m : i < j => e[i] < e[j]
       /\ \A i \in 1 .. m : p[i] = r[e[i]]
       /\ \A j \in K \cap (1 .. n) : \E i \in 1 .. m : e[i] = j
  BY <1>3, <1>8, <1>10 DEF Picked
<1>16. e \in [1 .. m -> 1 .. n] /\ \A i \in 1 .. m : e[i] \in 1 .. n
  BY <1>15
<1>17. \A i \in 1 .. m : Becomes(q0[e[i]], c[i], J, new, a, for)
  <2> SUFFICES ASSUME NEW i \in 1 .. m PROVE Becomes(q0[e[i]], c[i], J, new, a, for)
    OBVIOUS
  <2>1. c[i] = r[e[i]] /\ e[i] \in 1 .. Len(q0)
    BY <1>10, <1>13, <1>15, <1>16
  <2>2. QED
    BY <1>3, <2>1
<1>18. ASSUME NEW j \in 1 .. n, ~ \E i \in 1 .. m : e[i] = j
       PROVE  Outdated(q0[j], new, a) /\ q0[j].for = {} /\ ((\E l \in J : Joins(l, q0[j])) => for = {})
  <2>1. j \notin K
    BY <1>15, <1>18
  <2>2. j \in 1 .. Len(q0)
    BY <1>10
  <2>3. Outdated(q[j], new, a) /\ q[j].for = {}
    BY <1>2, <1>3, <2>1, <2>2
  <2>4. Outdated(q0[j], new, a) /\ r[j].for = {} /\ Becomes(q0[j], r[j], J, new, a, for)
    BY <1>3, <2>2, <2>3
  <2>5. QED
    BY <2>4 DEF Becomes
<1>19. \A i \in m + 1 .. m + k : c[i] \in sent
  BY <1>11, <1>14
<1>20. ASSUME NEW x \in sent PROVE \E i \in m + 1 .. m + k : c[i] = x
  <2>1. PICK i \in 1 .. k : t[i] = x
    BY <1>9, <1>10
  <2>2. m + i \in m + 1 .. m + k /\ (m + i) - m = i
    OBVIOUS
  <2>3. QED
    BY <1>14, <2>1, <2>2
<1>21. ASSUME NEW i \in m + 1 .. m + k, NEW j \in m + 1 .. m + k, c[i] = c[j] PROVE i = j
  <2>1. i - m \in 1 .. Len(t) /\ j - m \in 1 .. Len(t) /\ t[i - m] = t[j - m]
    BY <1>10, <1>14, <1>21
  <2>2. i - m = j - m
    BY <1>9, <2>1
  <2>3. QED
    BY <2>2
<1>22. Settles(q0, c, m, e, J, new, sent, a, for)
  BY <1>10, <1>12, <1>15, <1>16, <1>17, <1>18, <1>19, <1>20, <1>21 DEF Settles
<1>23. QED
  BY <1>1, <1>12, <1>22

-----------------------------------------------------------------------------
(* What the steps do to the requests before Settle.                        *)

\* The same request.
Same(c, d) == d.name = c.name /\ d.load = c.load /\ d.obj = c.obj /\ d.was = c.was
\* What closing the dialogs of the handlers as makes of it.
Orphans(c, d, as) ==
  /\ Same(c, d) /\ d.miss = c.miss
  /\ d.late = (c.late \/ c.name \in as)
  /\ d.for = IF c.name \in as THEN c.for ELSE c.for \ as

LEMMA OrphanedCalls ==
  ASSUME NEW q \in Seq(Requests), NEW as
  PROVE  /\ Orphaned(q, as) \in Seq(Requests) /\ Len(Orphaned(q, as)) = Len(q)
         /\ \A j \in 1 .. Len(q) : Orphans(q[j], Orphaned(q, as)[j], as)
<1> DEFINE r == Orphaned(q, as)
<1>1. /\ r = [j \in 1 .. Len(q) |-> r[j]]
      /\ \A j \in 1 .. Len(q) : r[j] = IF q[j].name \in as THEN [q[j] EXCEPT !.late = TRUE]
                                     ELSE [q[j] EXCEPT !.for = @ \ as]
  BY DEF Orphaned
<1> HIDE DEF r
<1>2. ASSUME NEW j \in 1 .. Len(q)
      PROVE  /\ r[j] \in Requests /\ Same(q[j], r[j]) /\ r[j].miss = q[j].miss
             /\ r[j].late = (q[j].late \/ q[j].name \in as)
             /\ r[j].for = IF q[j].name \in as THEN q[j].for ELSE q[j].for \ as
  <2>1. q[j] \in Requests
    OBVIOUS
  <2>2. CASE q[j].name \in as
    BY <1>1, <2>1, <2>2 DEF Requests, Same
  <2>3. CASE q[j].name \notin as
    <3>1. PICK fs : fs = q[j].for \ as
      OBVIOUS
    <3>2. r[j] = [q[j] EXCEPT !.for = fs]
      BY <1>1, <2>3, <3>1
    <3>3. fs \in SUBSET ActNames
      BY <2>1, <3>1 DEF Requests
    <3>4. /\ r[j] \in Requests /\ Same(q[j], r[j]) /\ r[j].miss = q[j].miss
          /\ r[j].late = q[j].late /\ r[j].for = fs
      BY <2>1, <3>2, <3>3 DEF Requests, Same
    <3>5. q[j].late \in BOOLEAN
      BY <2>1 DEF Requests
    <3>6. QED
      BY <2>3, <3>1, <3>4, <3>5
  <2>4. QED
    BY <2>2, <2>3
<1>3. r \in Seq(Requests) /\ Len(r) = Len(q)
  <2>1. \A j \in 1 .. Len(q) : r[j] \in Requests
    BY <1>2
  <2>2. Len(q) \in Nat
    OBVIOUS
  <2>3. QED
    BY <1>1, <2>1, <2>2
<1>4. QED
  BY <1>2, <1>3 DEF r, Orphans

LEMMA CallOfType ==
  ASSUME TypeOK, NEW a \in ActNames, NEW o \in Ids
  PROVE  CallOf(a, o) \in Requests
<1>1. at \in Selections
  BY DEF TypeOK
<1>2. QED
  BY <1>1 DEF CallOf, Requests, Causes, Misses

\* A click that calls appends the call.
LEMMA Called ==
  ASSUME NEW q \in Seq(Requests), NEW c \in Requests
  PROVE  /\ Append(q, c) \in Seq(Requests) /\ Len(Append(q, c)) = Len(q) + 1
         /\ \A j \in 1 .. Len(q) : Append(q, c)[j] = q[j]
         /\ Append(q, c)[Len(q) + 1] = c
BY AppendProperties

LEMMA PassedCalls ==
  ASSUME NEW q \in Seq(Requests), NEW a \in ActNames
  PROVE  /\ Passed(q, a) \in Seq(Requests) /\ Len(Passed(q, a)) = Len(q)
         /\ \A j \in 1 .. Len(q) :
              LET d == Passed(q, a)[j] IN
              /\ Same(q[j], d) /\ d.late = q[j].late /\ d.for = q[j].for
              /\ d.miss = IF \/ q[j].load /\ q[j].name \in Reading(S.acts[a].changes)
                             \/ ~q[j].load /\ S.acts[q[j].name].replaces \intersect Reading(S.acts[a].changes) # {}
                          THEN a ELSE q[j].miss
<1> DEFINE Misses0(c) == \/ c.load /\ c.name \in Reading(S.acts[a].changes)
                         \/ ~c.load /\ S.acts[c.name].replaces \intersect Reading(S.acts[a].changes) # {}
           r == Passed(q, a)
<1>1. /\ r = [j \in 1 .. Len(q) |-> r[j]]
      /\ \A j \in 1 .. Len(q) : r[j] = IF Misses0(q[j]) THEN [q[j] EXCEPT !.miss = a] ELSE q[j]
  BY DEF Passed
<1> HIDE DEF r, Misses0
<1>2. ASSUME NEW j \in 1 .. Len(q)
      PROVE  /\ r[j] \in Requests /\ Same(q[j], r[j]) /\ r[j].late = q[j].late /\ r[j].for = q[j].for
             /\ r[j].miss = IF Misses0(q[j]) THEN a ELSE q[j].miss
  <2>1. q[j] \in Requests
    OBVIOUS
  <2>2. CASE Misses0(q[j])
    BY <1>1, <2>1, <2>2 DEF Requests, Same, Misses
  <2>3. CASE ~Misses0(q[j])
    BY <1>1, <2>1, <2>3 DEF Same
  <2>4. QED
    BY <2>2, <2>3
<1>3. r \in Seq(Requests) /\ Len(r) = Len(q)
  <2>1. \A j \in 1 .. Len(q) : r[j] \in Requests
    BY <1>2
  <2>2. Len(q) \in Nat
    OBVIOUS
  <2>3. QED
    BY <1>1, <2>1, <2>2
<1>4. QED
  BY <1>2, <1>3, Zenon DEF r, Misses0

\* Where the requests left by the answer to request i were.
Place(i, j) == IF j < i THEN j ELSE j + 1

LEMMA WithoutCalls ==
  ASSUME TypeOK, NEW i \in 1 .. Len(calls)
  PROVE  /\ Without(i) \in Seq(Requests) /\ Len(Without(i)) = Len(calls) - 1
         /\ \A j \in 1 .. Len(calls) - 1 :
              /\ Place(i, j) \in 1 .. Len(calls) /\ Place(i, j) # i
              /\ Without(i)[j] = calls[Place(i, j)]
<1>1. calls \in Seq(Requests) /\ Len(calls) \in Nat
  BY DEF TypeOK
<1>2. /\ RemoveAt(calls, i) \in Seq(Requests) /\ Len(RemoveAt(calls, i)) = Len(calls) - 1
      /\ \A j \in 1 .. Len(calls) - 1 : RemoveAt(calls, i)[j] = calls[Place(i, j)]
  BY <1>1, RemovedAt DEF Place
<1>3. \A j \in 1 .. Len(calls) - 1 : Place(i, j) \in 1 .. Len(calls) /\ Place(i, j) # i
  BY <1>1 DEF Place
<1>4. QED
  BY <1>2, <1>3 DEF Without

LEMMA PlaceOnto ==
  ASSUME NEW n \in Nat, NEW i \in 1 .. n
  PROVE  /\ \A j \in 1 .. n : j # i => \E k \in 1 .. n - 1 : Place(i, k) = j
         /\ \A j, k \in 1 .. n - 1 : j < k => Place(i, j) < Place(i, k)
<1>1. ASSUME NEW j \in 1 .. n, j # i PROVE \E k \in 1 .. n - 1 : Place(i, k) = j
  <2>1. CASE j < i
    BY <2>1 DEF Place
  <2>2. CASE j > i
    <3>1. j - 1 \in 1 .. n - 1 /\ Place(i, j - 1) = j
      BY <2>2 DEF Place
    <3>2. QED
      BY <3>1
  <2>3. QED
    BY <1>1, <2>1, <2>2
<1>2. QED
  BY <1>1 DEF Place

LEMMA RestCalls ==
  ASSUME TypeOK, NEW i \in 1 .. Len(calls)
  PROVE  /\ Rest(i) \in Seq(Requests) /\ Len(Rest(i)) = Len(calls) - 1
         /\ \A j \in 1 .. Len(calls) - 1 :
              LET k == Place(i, j)
                  d == Rest(i)[j]
              IN /\ k \in 1 .. Len(calls) /\ k # i
                 /\ Same(calls[k], d) /\ d.miss = calls[k].miss /\ d.for = calls[k].for
                 /\ d.late = (calls[k].late \/ (k < i /\ calls[k].load /\ calls[k].name = calls[i].name))
<1> DEFINE Overtaken(k) == k < i /\ calls[k].load /\ calls[k].name = calls[i].name
           r == [k \in 1 .. Len(calls) |-> IF Overtaken(k) THEN [calls[k] EXCEPT !.late = TRUE] ELSE calls[k]]
<1>1. calls \in Seq(Requests) /\ Len(calls) \in Nat
  BY DEF TypeOK
<1>2. Rest(i) = RemoveAt(r, i)
  BY DEF Rest
<1>3. /\ r = [k \in 1 .. Len(calls) |-> r[k]]
      /\ \A k \in 1 .. Len(calls) : r[k] = IF Overtaken(k) THEN [calls[k] EXCEPT !.late = TRUE] ELSE calls[k]
  OBVIOUS
<1> HIDE DEF r, Overtaken
<1>4. ASSUME NEW k \in 1 .. Len(calls)
      PROVE  /\ r[k] \in Requests
             /\ Same(calls[k], r[k]) /\ r[k].miss = calls[k].miss /\ r[k].for = calls[k].for
             /\ r[k].late = (calls[k].late \/ Overtaken(k))
  <2>1. calls[k] \in Requests
    BY <1>1
  <2>2. CASE Overtaken(k)
    BY <1>3, <2>1, <2>2 DEF Requests, Same
  <2>3. CASE ~Overtaken(k)
    <3>1. r[k] = calls[k]
      BY <1>3, <2>3
    <3>2. calls[k].late \in BOOLEAN
      BY <2>1 DEF Requests
    <3>3. QED
      BY <2>1, <2>3, <3>1, <3>2 DEF Same
  <2>4. QED
    BY <2>2, <2>3
<1>5. r \in Seq(Requests) /\ Len(r) = Len(calls)
  <2>1. \A k \in 1 .. Len(calls) : r[k] \in Requests
    BY <1>4
  <2>2. QED
    BY <1>1, <1>3, <2>1
<1>6. /\ RemoveAt(r, i) \in Seq(Requests) /\ Len(RemoveAt(r, i)) = Len(calls) - 1
      /\ \A j \in 1 .. Len(calls) - 1 : RemoveAt(r, i)[j] = r[Place(i, j)]
  BY <1>5, RemovedAt DEF Place
<1>7. \A j \in 1 .. Len(calls) - 1 : Place(i, j) \in 1 .. Len(calls) /\ Place(i, j) # i
  BY <1>1 DEF Place
<1>8. QED
  BY <1>2, <1>4, <1>6, <1>7 DEF Overtaken

-----------------------------------------------------------------------------
(* Types.                                                                  *)

Shows == [LoadNames -> [key : {0} \union Ids, miss : {"late", "failed"} \union Misses]]
Drafts == [DOMAIN S.drafts -> [of : {0} \union Ids, is : {"clean", "typed", "sent"}]]
Slips == [what : {"lost", "stray"}, by : Causes, on : DOMAIN S.drafts]

LEMMA SettleType ==
  ASSUME TypeOK, NEW ls \in SUBSET LoadNames, NEW was \in Selections, NEW a \in Selections,
         NEW f \in [Flags -> {0} \union Ids], NEW s \in Shows,
         NEW q0 \in Seq(Requests), NEW for \in SUBSET ActNames,
         Settle(ls, was, a, f, s, q0, for), UNCHANGED scr,
         drafts' \in Drafts, slips' \in SUBSET Slips
  PROVE  TypeOK'
<1>1. calls' \in Seq(Requests)
  BY Settled
<1>2. at' \in Selections
  BY DEF Settle
<1>3. flags' \in [Flags -> {0} \union Ids]
  <2>1. flags' = Put(f, UNION {S.loads[l].busy : l \in New(ls, a, f)}, 1)
    BY DEF Settle
  <2>2. QED
    BY <2>1 DEF Put
<1>4. shown' \in Shows
  <2>1. shown' = [l \in LoadNames |->
                    IF \/ Moved(l, a) /\ S.loads[l].keyed
                       \/ l \in New(ls, a, f) /\ S.loads[l].blank
                    THEN Nothing ELSE s[l]]
    BY DEF Settle
  <2>2. Nothing \in [key : {0} \union Ids, miss : {"late", "failed"} \union Misses]
    BY DEF Nothing, Misses
  <2>3. QED
    BY <2>1, <2>2 DEF Shows
<1>5. scr' \in DOMAIN Table
  BY DEF TypeOK
<1>6. /\ S' = S /\ LoadNames' = LoadNames /\ Flags' = Flags /\ Selections' = Selections
      /\ Misses' = Misses /\ Causes' = Causes /\ Requests' = Requests
  BY SameScreen
<1>7. QED
  BY <1>1, <1>2, <1>3, <1>4, <1>5, <1>6 DEF TypeOK, Shows, Drafts, Slips

LEMMA ReloadsType ==
  ASSUME TypeOK, NEW a \in ActNames
  PROVE  Reloads(a) \in SUBSET LoadNames
BY Described DEF Reloads, Reading

LEMMA ObjectsType ==
  ASSUME TypeOK, NEW a \in ActNames, NEW o \in Objects(a)
  PROVE  o \in Ids
<1>1. S.acts[a].of \in S.axes \union {""} /\ at \in [S.axes -> Ids]
  BY Described DEF TypeOK, Selections
<1>2. CASE S.acts[a].row
  BY <1>2 DEF Objects
<1>3. CASE ~S.acts[a].row
  <2>1. o = IF S.acts[a].of = "" THEN 1 ELSE at[S.acts[a].of]
    BY <1>3 DEF Objects
  <2>2. QED
    BY <1>1, <2>1
<1>4. QED
  BY <1>2, <1>3

LEMMA FreshType ==
  ASSUME TypeOK, NEW d \in DOMAIN S.drafts, NEW a \in Selections
  PROVE  /\ About(d, a) \in Ids
         /\ Fresh(d, a) \in [of : {0} \union Ids, is : {"clean", "typed", "sent"}]
<1>1. About(d, a) \in Ids
  BY Described DEF About, Selections
<1>2. QED
  BY <1>1 DEF Fresh

LEMMA OverwrittenType ==
  ASSUME TypeOK, NEW ds, ds \subseteq DOMAIN S.drafts, NEW by \in Causes
  PROVE  Overwritten(ds, by) \in SUBSET Slips
BY DEF Overwritten, Slips

LEMMA RefilledType ==
  ASSUME TypeOK, NEW a
  PROVE  Refilled(a) \subseteq DOMAIN S.drafts
BY DEF Refilled, TypeOK

LEMMA MountedFinite ==
  ASSUME IsFiniteSet(LoadNames)
  PROVE  IsFiniteSet({Request(l, 1, {}) : l \in Mounted})
<1> DEFINE R(l) == Request(l, 1, {})
           g == [l \in Mounted |-> R(l)]
           T == {R(l) : l \in Mounted}
<1>1. IsFiniteSet(Mounted)
  BY FS_Subset DEF Mounted
<1> HIDE DEF R
<1>2. g \in Surjection(Mounted, T)
  BY DEF Surjection
<1>3. IsFiniteSet(T)
  BY <1>1, <1>2, FS_Surjection
<1>4. QED
  BY <1>3 DEF R

LEMMA InitType == Init => TypeOK
<1> SUFFICES ASSUME Init PROVE TypeOK
  OBVIOUS
<1>1. scr \in DOMAIN Table /\ WellFormed(S)
  BY DescriptionsAssumption DEF Init, S
<1>2. at \in Selections
  BY DEF Init, Selections
<1>3. flags \in [Flags -> {0} \union Ids]
  BY DEF Init
<1>4. shown \in Shows
  BY DEF Init, Shows, Nothing, Misses
<1>5. drafts \in Drafts
  BY DEF Init, Drafts, Blank
<1>6. calls \in Seq(Requests)
  <2> DEFINE R(l) == Request(l, 1, {})
  <2>1. Mounted \subseteq LoadNames /\ IsFiniteSet(LoadNames)
    BY <1>1 DEF Mounted, WellFormed, LoadNames
  <2>2. \A l \in LoadNames : R(l) \in Requests
    BY DEF Request, Requests, Causes, Misses
  <2> DEFINE T == {R(l) : l \in Mounted}
  <2>5. IsFiniteSet(T)
    BY <2>1, MountedFinite
  <2> HIDE DEF R
  <2>6. T \in SUBSET Requests
    BY <2>1, <2>2
  <2>7. calls = SetToSeq(T)
    BY DEF Init, R
  <2> HIDE DEF T
  <2>8. calls \in Seq(T)
    BY <2>5, <2>7, Listed
  <2>9. QED
    BY <2>6, <2>8
<1>7. slips \subseteq Slips
  BY DEF Init
<1>8. QED
  BY <1>1, <1>2, <1>3, <1>4, <1>5, <1>6, <1>7 DEF TypeOK, Shows, Drafts, Slips

LEMMA ClickRequests ==
  ASSUME TypeOK, NEW a \in ActNames, NEW o \in Ids
  PROVE  (IF S.acts[a].call = "" THEN Orphaned(calls, Closing(S.acts[a].clears))
          ELSE Append(calls, CallOf(a, o))) \in Seq(Requests)
<1>1. calls \in Seq(Requests)
  BY DEF TypeOK
<1>2. Orphaned(calls, Closing(S.acts[a].clears)) \in Seq(Requests)
  BY <1>1, OrphanedCalls
<1>3. Append(calls, CallOf(a, o)) \in Seq(Requests)
  BY <1>1, CallOfType, Called
<1>4. QED
  BY <1>2, <1>3

LEMMA ClickType ==
  ASSUME TypeOK, NEW a \in ActNames, NEW o \in Objects(a), Click(a, o)
  PROVE  TypeOK'
<1>1. o \in Ids
  BY ObjectsType
<1>2. PICK f, q :
        /\ f = [x \in DOMAIN flags |->
              IF x \in UNION {Busy(b) : b \in Closing(S.acts[a].clears)} THEN 0
              ELSE IF x \in S.acts[a].setsMe \union S.acts[a].busyMe THEN o
              ELSE IF x \in S.acts[a].sets \union S.acts[a].busy THEN 1
              ELSE IF x \in S.acts[a].clears THEN 0 ELSE flags[x]]
        /\ q = IF S.acts[a].call = "" THEN Orphaned(calls, Closing(S.acts[a].clears))
               ELSE Append(calls, CallOf(a, o))
  OBVIOUS
<1>3. PICK sel \in Selections :
        /\ Settle(IF S.acts[a].call = "" THEN Reloads(a) ELSE {}, at, sel, f, shown, q, {})
        /\ drafts' = DraftsAtClick(a, o, sel)
  BY <1>2 DEF Click, Selections
<1>4. f \in [Flags -> {0} \union Ids]
  BY <1>1, <1>2 DEF TypeOK
<1>5. q \in Seq(Requests)
  BY <1>1, <1>2, ClickRequests
<1>6. drafts' \in Drafts
  <2>1. drafts \in Drafts
    BY DEF TypeOK, Drafts
  <2>2. \A d \in DOMAIN S.drafts : About(d, sel) \in Ids /\ Fresh(d, sel) \in [of : {0} \union Ids, is : {"clean", "typed", "sent"}]
    BY FreshType
  <2>3. QED
    BY <1>3, <2>1, <2>2 DEF DraftsAtClick, Drafts
<1>7. slips' \in SUBSET Slips
  <2>1. slips' \subseteq Strayed(a, o)
    BY DEF Click
  <2>2. Strayed(a, o) \subseteq Slips
    <3>1. \A d \in S.acts[a].sends : d \in DOMAIN S.drafts
      BY Described
    <3>2. \A d \in DOMAIN S.drafts : [what |-> "stray", by |-> a, on |-> d] \in Slips
      BY DEF Slips, Causes
    <3>3. QED
      BY <3>1, <3>2 DEF Strayed
  <2>3. QED
    BY <2>1, <2>2
<1>8. (IF S.acts[a].call = "" THEN Reloads(a) ELSE {}) \in SUBSET LoadNames
  BY ReloadsType
<1>9. at \in Selections /\ shown \in Shows /\ UNCHANGED scr
  BY DEF TypeOK, Shows, Click
<1>10. QED
  <2>1. PICK ls \in SUBSET LoadNames : ls = IF S.acts[a].call = "" THEN Reloads(a) ELSE {}
    BY <1>8
  <2>2. Settle(ls, at, sel, f, shown, q, {}) /\ {} \in SUBSET ActNames
    BY <1>3, <2>1
  <2>3. QED
    BY <1>4, <1>5, <1>6, <1>7, <1>9, <2>2, SettleType

LEMMA BackgroundType ==
  ASSUME TypeOK, NEW l \in LoadNames, Background(l)
  PROVE  TypeOK'
<1>1. Settle({l}, at, at, flags, shown, calls, {}) /\ UNCHANGED scr
  BY DEF Background
<1>2. /\ at \in Selections /\ flags \in [Flags -> {0} \union Ids] /\ shown \in Shows
      /\ calls \in Seq(Requests)
  BY DEF TypeOK, Shows
<1>3. drafts' \in Drafts /\ slips' \in SUBSET Slips
  BY DEF TypeOK, Drafts, Slips, Background
<1>4. QED
  BY <1>1, <1>2, <1>3, SettleType

LEMMA ResumedType ==
  ASSUME TypeOK, NEW i \in 1 .. Len(calls)
  PROVE  /\ calls[i] \in Requests
         /\ Resumed(i) \in SUBSET ActNames
         /\ Finished(i) \in [Flags -> {0} \union Ids]
         /\ Cleared(i) \subseteq DOMAIN S.drafts
<1>1. calls[i] \in Requests
  BY DEF TypeOK
<1>2. Resumed(i) \in SUBSET ActNames
  BY <1>1 DEF Resumed, Requests
<1>3. Finished(i) \in [Flags -> {0} \union Ids]
  BY DEF Finished, Put, TypeOK
<1>4. Cleared(i) \subseteq DOMAIN S.drafts
  BY <1>2, Described DEF Cleared
<1>5. QED
  BY <1>1, <1>2, <1>3, <1>4

LEMMA ReceivedType ==
  ASSUME TypeOK, NEW c \in Requests, c.load
  PROVE  /\ c.name \in LoadNames /\ c.name \in Causes /\ c.obj \in Ids
         /\ \A stale \in BOOLEAN : Received(c, stale) \in Shows
         /\ Failed(c) \in Shows
         /\ Selecting(c) \in Selections
         /\ \A some \in SUBSET S.loads[c.name].may, new \in BOOLEAN : Filled(c, some, new) \subseteq DOMAIN S.drafts
<1> DEFINE Show == [key : {0} \union Ids, miss : {"late", "failed"} \union Misses]
<1>1. c.name \in LoadNames /\ c.name \in Causes /\ c.obj \in Ids /\ c.miss \in Misses
  BY DEF Requests, Causes
<1>2. shown \in [LoadNames -> Show] /\ at \in Selections
  BY DEF TypeOK
<1>3. ASSUME NEW stale \in BOOLEAN PROVE Received(c, stale) \in Shows
  <2>1. PICK v : v = [key |-> c.obj, miss |-> IF c.late THEN "late" ELSE IF stale THEN c.miss ELSE ""]
    OBVIOUS
  <2>2. v \in Show
    BY <1>1, <2>1 DEF Misses
  <2> HIDE DEF Show
  <2>3. [shown EXCEPT ![c.name] = v] \in [LoadNames -> Show]
    BY <1>2, <2>2
  <2>4. QED
    BY <1>2, <2>1, <2>3 DEF Received, Shows, Show
<1>4. Failed(c) \in Shows
  <2>1. PICK u : u = shown[c.name]
    OBVIOUS
  <2>2. PICK v : v = IF Dropped(c) THEN u
                     ELSE IF S.loads[c.name].blanked THEN Nothing
                     ELSE IF u.key \in {0, c.obj} /\ u.miss = "" THEN u ELSE [u EXCEPT !.miss = "failed"]
    OBVIOUS
  <2>3. Failed(c) = [shown EXCEPT ![c.name] = v]
    BY <2>1, <2>2 DEF Failed
  <2>4. u \in Show
    BY <1>1, <1>2, <2>1
  <2>5. v \in Show
    BY <2>2, <2>4 DEF Nothing, Misses
  <2> HIDE DEF Show
  <2>6. QED
    BY <1>2, <2>3, <2>5 DEF Shows, Show
<1>5. Selecting(c) \in Selections
  BY <1>1, <1>2 DEF Selecting, Selections
<1>6. \A some \in SUBSET S.loads[c.name].may, new \in BOOLEAN : Filled(c, some, new) \subseteq DOMAIN S.drafts
  BY <1>1, Described DEF Filled
<1>7. QED
  BY <1>1, <1>3, <1>4, <1>5, <1>6

\* The parts of an answered read.
LEMMA LoadedStep ==
  ASSUME NEW i, Loaded(i)
  PROVE  /\ calls[i].load /\ UNCHANGED scr
         /\ \E stale \in BOOLEAN, some \in SUBSET S.loads[calls[i].name].may, new \in BOOLEAN :
              LET sel == Selecting(calls[i])
                  filled == Filled(calls[i], some, new)
              IN /\ stale => calls[i].miss # ""
                 /\ Settle({}, at, sel, Finished(i), Received(calls[i], stale), Rest(i), {})
                 /\ drafts' = [d \in DOMAIN drafts |->
                                 IF d \in filled THEN [of |-> calls[i].obj, is |-> "clean"]
                                 ELSE IF d \in Refilled(sel) \union Cleared(i) THEN Fresh(d, sel)
                                 ELSE drafts[d]]
                 /\ slips' = Overwritten(UNION {filled, Refilled(sel), Cleared(i)}, calls[i].name)
BY DEF Loaded

LEMMA LoadedType ==
  ASSUME TypeOK, NEW i \in 1 .. Len(calls), Loaded(i)
  PROVE  TypeOK'
<1> DEFINE c == calls[i]
           sel == Selecting(c)
<1>2. c \in Requests /\ c.load /\ UNCHANGED scr
  BY ResumedType, LoadedStep
<1>3. PICK stale \in BOOLEAN, some \in SUBSET S.loads[c.name].may, new \in BOOLEAN :
        LET filled == Filled(c, some, new)
        IN /\ Settle({}, at, sel, Finished(i), Received(c, stale), Rest(i), {})
           /\ drafts' = [d \in DOMAIN drafts |->
                           IF d \in filled THEN [of |-> c.obj, is |-> "clean"]
                           ELSE IF d \in Refilled(sel) \union Cleared(i) THEN Fresh(d, sel)
                           ELSE drafts[d]]
           /\ slips' = Overwritten(UNION {filled, Refilled(sel), Cleared(i)}, c.name)
  BY LoadedStep
<1> DEFINE filled == Filled(c, some, new)
<1> HIDE DEF c, sel, filled
<1>4. sel \in Selections /\ filled \subseteq DOMAIN S.drafts /\ c.obj \in Ids /\ c.name \in Causes
  BY <1>2, <1>3, ReceivedType DEF sel, filled
<1>5. Received(c, stale) \in Shows
  BY <1>2, ReceivedType
<1>7. Rest(i) \in Seq(Requests)
  BY RestCalls
<1>9. drafts' \in Drafts
  <2>1. drafts \in Drafts
    BY DEF TypeOK, Drafts
  <2>2. \A d \in DOMAIN S.drafts : Fresh(d, sel) \in [of : {0} \union Ids, is : {"clean", "typed", "sent"}]
    BY <1>4, FreshType
  <2>3. QED
    BY <1>3, <1>4, <2>1, <2>2 DEF Drafts, filled
<1>10. slips' \in SUBSET Slips
  <2>1. UNION {filled, Refilled(sel), Cleared(i)} \subseteq DOMAIN S.drafts
    BY <1>4, RefilledType, ResumedType
  <2>2. QED
    BY <1>3, <1>4, <2>1, OverwrittenType DEF filled
<1>11. at \in Selections /\ {} \in SUBSET LoadNames /\ {} \in SUBSET ActNames
  BY DEF TypeOK
<1>12. QED
  BY <1>2, <1>3, <1>4, <1>5, <1>7, <1>9, <1>10, <1>11, ResumedType, SettleType

LEMMA NotLoadedType ==
  ASSUME TypeOK, NEW i \in 1 .. Len(calls), NotLoaded(i)
  PROVE  TypeOK'
<1>1. PICK c : c = calls[i]
  OBVIOUS
<1>2. c \in Requests /\ c.load /\ UNCHANGED scr
  BY <1>1, ResumedType DEF NotLoaded
<1>3. /\ Settle({}, at, at, Finished(i), Failed(c), Rest(i), {})
      /\ drafts' = [d \in DOMAIN drafts |-> IF d \in Cleared(i) THEN Fresh(d, at) ELSE drafts[d]]
      /\ slips' = Overwritten(Cleared(i), c.name)
  BY <1>1 DEF NotLoaded
<1>4. Failed(c) \in Shows /\ c.name \in Causes
  BY <1>2, ReceivedType
<1>5. Rest(i) \in Seq(Requests)
  BY RestCalls
<1>6. drafts' \in Drafts
  <2>1. drafts \in Drafts /\ at \in Selections
    BY DEF TypeOK, Drafts
  <2>2. \A d \in DOMAIN S.drafts : Fresh(d, at) \in [of : {0} \union Ids, is : {"clean", "typed", "sent"}]
    BY <2>1, FreshType
  <2>3. QED
    BY <1>3, <2>1, <2>2 DEF Drafts
<1>7. slips' \in SUBSET Slips
  BY <1>3, <1>4, ResumedType, OverwrittenType
<1>8. at \in Selections /\ {} \in SUBSET LoadNames /\ {} \in SUBSET ActNames
  BY DEF TypeOK
<1>9. QED
  BY <1>2, <1>3, <1>4, <1>5, <1>6, <1>7, <1>8, ResumedType, SettleType

LEMMA ActType ==
  ASSUME TypeOK, NEW c \in Requests, ~c.load
  PROVE  /\ c.name \in ActNames /\ c.name \in Causes /\ c.obj \in Ids
         /\ Seen(c) \in Selections
         /\ Released(c) \in [Flags -> {0} \union Ids]
         /\ Missing(c, S.acts[c.name]) \in Shows
         /\ AfterFailure(c, S.acts[c.name]) \in Shows
         /\ Emptied(c) \subseteq DOMAIN S.drafts /\ Landing(c) \subseteq DOMAIN S.drafts
<1> DEFINE Show == [key : {0} \union Ids, miss : {"late", "failed"} \union Misses]
<1>1. c.name \in ActNames /\ c.name \in Causes /\ c.obj \in Ids /\ c.miss \in Misses
  BY DEF Requests, Causes
<1>2. shown \in [LoadNames -> Show] /\ at \in Selections /\ flags \in [Flags -> {0} \union Ids]
  BY DEF TypeOK
<1>3. Seen(c) \in Selections
  BY <1>2 DEF Seen, Requests
<1>4. Released(c) \in [Flags -> {0} \union Ids]
  BY <1>2 DEF Released
<1>5. ASSUME NEW x \in Show, NEW w \in Misses PROVE Old(x, w) \in Show
  BY <1>5 DEF Old
<1>6. c.name \in Misses
  BY <1>1 DEF Misses
<1> HIDE DEF Show
<1>7. \A l \in LoadNames : shown[l] \in Show /\ Old(shown[l], c.miss) \in Show /\ Old(shown[l], c.name) \in Show
  BY <1>1, <1>2, <1>5, <1>6
<1>8. Missing(c, S.acts[c.name]) \in [LoadNames -> Show]
  BY <1>7 DEF Missing
<1>9. AfterFailure(c, S.acts[c.name]) \in [LoadNames -> Show]
  BY <1>7, <1>8 DEF AfterFailure
<1>10. Emptied(c) \subseteq DOMAIN S.drafts /\ Landing(c) \subseteq DOMAIN S.drafts
  BY <1>1, Described DEF Emptied, Landing, Own
<1>11. QED
  BY <1>1, <1>3, <1>4, <1>8, <1>9, <1>10 DEF Shows, Show

LEMMA DoneType ==
  ASSUME TypeOK, NEW i \in 1 .. Len(calls), Done(i)
  PROVE  TypeOK'
<1> DEFINE c == calls[i]
<1>1. c \in Requests /\ ~c.load /\ UNCHANGED scr
  BY ResumedType DEF Done
<1>2. PICK sel \in [S.axes -> Ids] :
        /\ Settle(Reloads(c.name), Seen(c), sel, Released(c), Missing(c, S.acts[c.name]), Passed(Without(i), c.name),
                  IF Waits(c) THEN {c.name} ELSE {})
        /\ drafts' = [d \in DOMAIN drafts |->
             IF d \in Emptied(c) \union Refilled(sel) THEN Fresh(d, sel)
             ELSE IF d \in Landing(c) THEN [of |-> c.obj, is |-> "typed"]
             ELSE IF d \in S.acts[c.name].sends /\ drafts[d].is = "sent" THEN [drafts[d] EXCEPT !.is = "clean"]
             ELSE drafts[d]]
        /\ slips' = Overwritten(UNION {Emptied(c), Landing(c), Refilled(sel)}, c.name)
                    \union {[what |-> "stray", by |-> c.name, on |-> d] :
                              d \in {x \in Landing(c) : S.drafts[x].by # "" /\ About(x, at) # c.obj}}
  BY DEF Done
<1> HIDE DEF c
<1>3. sel \in Selections
  BY DEF Selections
<1>4. /\ c.name \in ActNames /\ c.name \in Causes /\ c.obj \in Ids
      /\ Seen(c) \in Selections
      /\ Released(c) \in [Flags -> {0} \union Ids]
      /\ Missing(c, S.acts[c.name]) \in Shows
      /\ Emptied(c) \subseteq DOMAIN S.drafts /\ Landing(c) \subseteq DOMAIN S.drafts
  BY <1>1, ActType
<1>5. Passed(Without(i), c.name) \in Seq(Requests)
  BY <1>4, WithoutCalls, PassedCalls
<1>6. drafts' \in Drafts
  <2>1. drafts \in Drafts
    BY DEF TypeOK, Drafts
  <2>2. \A d \in DOMAIN S.drafts : Fresh(d, sel) \in [of : {0} \union Ids, is : {"clean", "typed", "sent"}]
    BY <1>3, FreshType
  <2>3. QED
    BY <1>2, <1>4, <2>1, <2>2 DEF Drafts
<1>7. slips' \in SUBSET Slips
  <2>1. UNION {Emptied(c), Landing(c), Refilled(sel)} \subseteq DOMAIN S.drafts
    BY <1>4, RefilledType
  <2>2. Overwritten(UNION {Emptied(c), Landing(c), Refilled(sel)}, c.name) \in SUBSET Slips
    BY <1>4, <2>1, OverwrittenType
  <2>3. \A d \in Landing(c) : [what |-> "stray", by |-> c.name, on |-> d] \in Slips
    BY <1>4 DEF Slips
  <2>4. QED
    BY <1>2, <2>2, <2>3
<1>8. (IF Waits(c) THEN {c.name} ELSE {}) \in SUBSET ActNames /\ Reloads(c.name) \in SUBSET LoadNames
  BY <1>4, ReloadsType
<1>9. QED
  <2>1. PICK for \in SUBSET ActNames : for = IF Waits(c) THEN {c.name} ELSE {}
    BY <1>8
  <2>2. Settle(Reloads(c.name), Seen(c), sel, Released(c), Missing(c, S.acts[c.name]), Passed(Without(i), c.name), for)
    BY <1>2, <2>1
  <2>3. QED
    BY <1>1, <1>3, <1>4, <1>5, <1>6, <1>7, <1>8, <2>2, SettleType

LEMMA NotDoneType ==
  ASSUME TypeOK, NEW i \in 1 .. Len(calls), NotDone(i)
  PROVE  TypeOK'
<1> DEFINE c == calls[i]
           act == S.acts[c.name]
           f == Put(flags, IF c.late THEN {} ELSE Busy(c.name) \ act.stuck, 0)
<1>1. c \in Requests /\ ~c.load /\ UNCHANGED scr
  BY ResumedType DEF NotDone
<1>2. /\ Settle(IF act.always THEN Reloads(c.name) ELSE {}, Seen(c), at, f, AfterFailure(c, act), Without(i), {})
      /\ drafts' = [d \in DOMAIN drafts |->
                     IF d \in act.sends \union act.lands /\ drafts[d].is = "sent"
                     THEN [drafts[d] EXCEPT !.is = "typed"] ELSE drafts[d]]
      /\ slips' = {}
  BY DEF NotDone
<1> HIDE DEF c
<1>3. /\ c.name \in ActNames /\ Seen(c) \in Selections /\ AfterFailure(c, act) \in Shows
  BY <1>1, ActType
<1>4. f \in [Flags -> {0} \union Ids]
  BY DEF Put, TypeOK
<1>5. Without(i) \in Seq(Requests)
  BY WithoutCalls
<1>6. drafts' \in Drafts /\ slips' \in SUBSET Slips
  <2>1. drafts \in Drafts
    BY DEF TypeOK, Drafts
  <2>2. QED
    BY <1>2, <2>1 DEF Drafts
<1>7. at \in Selections /\ {} \in SUBSET ActNames
  BY DEF TypeOK
<1> HIDE DEF f
<1>8. PICK ls \in SUBSET LoadNames : ls = IF act.always THEN Reloads(c.name) ELSE {}
  BY <1>3, ReloadsType
<1>9. Settle(ls, Seen(c), at, f, AfterFailure(c, act), Without(i), {})
  BY <1>2, <1>8
<1>10. QED
  BY <1>1, <1>3, <1>4, <1>5, <1>6, <1>7, <1>9, SettleType

\* The steps, one for each way a screen goes on.
LEMMA Steps ==
  ASSUME [Next]_vars
  PROVE  \/ \E a \in ActNames : \E o \in Objects(a) : Click(a, o)
         \/ \E l \in LoadNames : Background(l)
         \/ \E i \in 1 .. Len(calls) : Loaded(i)
         \/ \E i \in 1 .. Len(calls) : NotLoaded(i)
         \/ \E i \in 1 .. Len(calls) : Done(i)
         \/ \E i \in 1 .. Len(calls) : NotDone(i)
         \/ UNCHANGED vars
BY DEF Next, Answer

LEMMA NextType == TypeOK /\ [Next]_vars => TypeOK'
<1> SUFFICES ASSUME TypeOK, [Next]_vars PROVE TypeOK'
  OBVIOUS
<1>1. CASE UNCHANGED vars
  <2>1. /\ S' = S /\ LoadNames' = LoadNames /\ Flags' = Flags /\ Selections' = Selections
        /\ Misses' = Misses /\ Causes' = Causes /\ Requests' = Requests
    BY <1>1, SameScreen DEF vars
  <2>2. QED
    BY <1>1, <2>1 DEF TypeOK, vars
<1>2. QED
  BY <1>1, Steps, ClickType, BackgroundType, LoadedType, NotLoadedType, DoneType, NotDoneType

\* Screens stay well-formed: every request is one the screen makes, for an object there is.
THEOREM TypeCorrect == Spec => []TypeOK
BY InitType, NextType, PTL DEF Spec

-----------------------------------------------------------------------------
(* Locks: whoever holds one is alone.                                      *)

\* Who holds the flag x: the calls that are out, and the handlers that wait for their loads.
Calling(q, x) == {i \in 1 .. Len(q) : ~q[i].load /\ x \in Busy(q[i].name)}
Awaiting(q, x) == {a \in ActNames : x \in Busy(a) /\ \E i \in 1 .. Len(q) : a \in q[i].for}

LockInv(q, f, x) ==
  /\ \A i, j \in Calling(q, x) : i = j
  /\ \A a, b \in Awaiting(q, x) : a = b
  /\ Calling(q, x) = {} \/ Awaiting(q, x) = {}
  /\ Calling(q, x) # {} \/ Awaiting(q, x) # {} => f[x] # 0
  /\ \A i \in Calling(q, x) : ~q[i].late

LEMMA LockSettle ==
  ASSUME TypeOK, NEW ls \in SUBSET LoadNames, NEW was \in Selections, NEW a \in Selections,
         NEW f \in [Flags -> {0} \union Ids], NEW s, NEW q0 \in Seq(Requests), NEW for \in SUBSET ActNames,
         Settle(ls, was, a, f, s, q0, for),
         NEW x \in Flags, LockInv(q0, f, x),
         \A b \in for : x \in Busy(b) =>
            for = {b} /\ Calling(q0, x) = {} /\ Awaiting(q0, x) = {} /\ f[x] # 0
  PROVE  LockInv(calls', flags', x)
<1>1. PICK q1 : q1 = calls'
  OBVIOUS
<1>2. PICK J, new, sent : /\ J = {l \in ls : Joinable(l, a)}
                          /\ new = New(ls, a, f)
                          /\ sent = Sent(ls, was, a, new, for)
  OBVIOUS
<1>3. q1 \in Seq(Requests) /\ \E m \in Nat : \E e : Settles(q0, q1, m, e, J, new, sent, a, for)
  BY <1>1, <1>2, Settled
<1>4. PICK m, e : Settles(q0, q1, m, e, J, new, sent, a, for)
  BY <1>3
<1>5. /\ m \in 0 .. Len(q1) /\ e \in [1 .. m -> 1 .. Len(q0)]
      /\ \A i, j \in 1 .. m : i < j => e[i] < e[j]
      /\ \A i \in 1 .. m : Becomes(q0[e[i]], q1[i], J, new, a, for)
      /\ \A i \in m + 1 .. Len(q1) : q1[i] \in sent
  BY <1>4 DEF Settles
<1>6. Len(q0) \in Nat /\ Len(q1) \in Nat /\ \A j \in 1 .. Len(q0) : q0[j] \in Requests
  BY <1>3
<1>7. \A r \in sent : r.load /\ r.for \subseteq for
  <2> SUFFICES ASSUME NEW r \in sent PROVE r.load /\ r.for \subseteq for
    OBVIOUS
  <2>1. PICK l \in new : IsSent(r, l, ls, was, a, for)
    BY <1>2, SentIs
  <2>2. QED
    BY <2>1 DEF IsSent
<1>8. ASSUME NEW i \in Calling(q1, x)
      PROVE  /\ i \in 1 .. m /\ e[i] \in Calling(q0, x)
             /\ q0[e[i]].late => q1[i].late
             /\ q1[i].late => q0[e[i]].late
  <2>1. i \in 1 .. Len(q1) /\ ~q1[i].load /\ x \in Busy(q1[i].name)
    BY DEF Calling
  <2>2. i \in 1 .. m
    BY <1>5, <1>6, <1>7, <2>1
  <2>3. Becomes(q0[e[i]], q1[i], J, new, a, for) /\ e[i] \in 1 .. Len(q0)
    BY <1>5, <2>2
  <2>4. ~q0[e[i]].load /\ q0[e[i]].name = q1[i].name
    BY <2>1, <2>3 DEF Becomes
  <2>5. e[i] \in Calling(q0, x)
    BY <2>1, <2>3, <2>4 DEF Calling
  <2>6. ~Outdated(q0[e[i]], new, a)
    BY <2>4 DEF Outdated
  <2>7. QED
    BY <2>2, <2>3, <2>5, <2>6 DEF Becomes
<1>9. ASSUME NEW b \in Awaiting(q1, x) PROVE b \in Awaiting(q0, x) \/ (b \in for /\ x \in Busy(b))
  <2>1. b \in ActNames /\ x \in Busy(b)
    BY DEF Awaiting
  <2>2. PICK i \in 1 .. Len(q1) : b \in q1[i].for
    BY DEF Awaiting
  <2>3. CASE i \in 1 .. m
    <3>1. Becomes(q0[e[i]], q1[i], J, new, a, for) /\ e[i] \in 1 .. Len(q0)
      BY <1>5, <2>3
    <3>2. b \in q0[e[i]].for \/ b \in for
      BY <2>2, <3>1 DEF Becomes
    <3>3. QED
      BY <2>1, <3>1, <3>2 DEF Awaiting
  <2>4. CASE i \in m + 1 .. Len(q1)
    BY <1>5, <1>7, <2>1, <2>2, <2>4
  <2>5. QED
    BY <1>5, <1>6, <2>3, <2>4
<1>10. f[x] # 0 => flags'[x] # 0
  <2>1. flags' = Put(f, UNION {S.loads[l].busy : l \in New(ls, a, f)}, 1)
    BY DEF Settle
  <2>2. QED
    BY <2>1 DEF Put
<1>11. \A i, j \in Calling(q1, x) : i = j
  <2> SUFFICES ASSUME NEW i \in Calling(q1, x), NEW j \in Calling(q1, x), i # j PROVE FALSE
    OBVIOUS
  <2>1. i \in 1 .. m /\ j \in 1 .. m /\ e[i] = e[j] /\ e[i] \in 1 .. Len(q0)
    BY <1>5, <1>8 DEF LockInv
  <2>2. i < j \/ j < i
    BY <2>1
  <2>3. QED
    BY <1>5, <1>6, <2>1, <2>2
<1>12. CASE \E b \in for : x \in Busy(b)
  <2>1. PICK b \in for : x \in Busy(b) /\ for = {b} /\ Calling(q0, x) = {} /\ Awaiting(q0, x) = {} /\ f[x] # 0
    BY <1>12
  <2>2. Calling(q1, x) = {}
    BY <1>8, <2>1
  <2>3. \A c \in Awaiting(q1, x) : c = b
    BY <1>9, <2>1
  <2>4. QED
    BY <1>1, <1>10, <2>1, <2>2, <2>3 DEF LockInv
<1>13. CASE ~ \E b \in for : x \in Busy(b)
  <2>1. \A b \in Awaiting(q1, x) : b \in Awaiting(q0, x)
    BY <1>9, <1>13
  <2>2. \A i \in Calling(q1, x) : e[i] \in Calling(q0, x) /\ (q1[i].late => q0[e[i]].late)
    BY <1>8
  <2>3. QED
    BY <1>1, <1>10, <1>11, <2>1, <2>2 DEF LockInv
<1>14. QED
  BY <1>12, <1>13

LEMMA FlagsHold ==
  ASSUME TypeOK
  PROVE  /\ DOMAIN flags = Flags /\ \A x \in Flags : flags[x] \in {0} \union Ids
         /\ calls \in Seq(Requests) /\ Len(calls) \in Nat
         /\ \A i \in 1 .. Len(calls) : calls[i] \in Requests
         /\ at \in Selections
BY DEF TypeOK

LEMMA BusyFlags ==
  /\ \A a \in ActNames : Busy(a) \subseteq Flags
  /\ \A l \in LoadNames : S.loads[l].busy \subseteq Flags
<1> DEFINE F(l) == S.loads[l].busy \union S.loads[l].needs
           G(a) == UNION {S.acts[a].need, S.acts[a].unless, S.acts[a].unlessMe,
                          S.acts[a].sets, S.acts[a].setsMe, S.acts[a].clears,
                          S.acts[a].okSets, S.acts[a].okClears, Busy(a)}
<1>1. Flags = UNION ({S.on} \union {F(l) : l \in LoadNames} \union {G(a) : a \in ActNames})
  BY DEF Flags
<1>2. \A a \in ActNames : Busy(a) \subseteq G(a)
  OBVIOUS
<1>3. \A l \in LoadNames : S.loads[l].busy \subseteq F(l)
  OBVIOUS
<1> HIDE DEF F, G
<1>4. QED
  BY <1>1, <1>2, <1>3

LEMMA LockInit ==
  ASSUME Init, NEW x \in Flags
  PROVE  LockInv(calls, flags, x)
<1>1. \A i \in 1 .. Len(calls) : calls[i].load /\ calls[i].for = {}
  <2> DEFINE T == {Request(l, 1, {}) : l \in Mounted}
  <2>1. calls = SetToSeq(T) /\ TypeOK
    BY InitType DEF Init
  <2>2. ASSUME NEW r \in T PROVE r.load /\ r.for = {}
    <3>1. PICK l \in Mounted : r = Request(l, 1, {})
      OBVIOUS
    <3>2. QED
      BY <3>1 DEF Request
  <2>3. IsFiniteSet(T)
    BY <2>1, Described, MountedFinite
  <2> HIDE DEF T
  <2>4. calls \in Seq(T)
    BY <2>1, <2>3, Listed
  <2>5. QED
    BY <2>2, <2>4
<1>2. Calling(calls, x) = {} /\ Awaiting(calls, x) = {}
  BY <1>1 DEF Calling, Awaiting
<1>3. QED
  BY <1>2 DEF LockInv

LEMMA LockClick ==
  ASSUME TypeOK, NEW x \in Flags, Lock(x), LockInv(calls, flags, x),
         NEW a \in ActNames, NEW o \in Objects(a), Click(a, o)
  PROVE  LockInv(calls', flags', x)
<1> DEFINE act == S.acts[a]
           closed == Closing(act.clears)
           f == [y \in DOMAIN flags |->
              IF y \in UNION {Busy(b) : b \in closed} THEN 0
              ELSE IF y \in act.setsMe \union act.busyMe THEN o
              ELSE IF y \in act.sets \union act.busy THEN 1
              ELSE IF y \in act.clears THEN 0 ELSE flags[y]]
           q == IF act.call = "" THEN Orphaned(calls, closed) ELSE Append(calls, CallOf(a, o))
<1>1. o \in Ids
  BY ObjectsType
<1>2. PICK sel \in Selections : Settle(IF act.call = "" THEN Reloads(a) ELSE {}, at, sel, f, shown, q, {})
  BY DEF Click, Selections
<1>3. x \in Busy(a) => flags[x] = 0
  BY DEF Lock, Click, CanClick
<1>4. /\ x \notin act.clears /\ \A b \in closed : x \notin Busy(b)
  BY DEF Lock
<1>5. /\ x \in Busy(a) => f[x] # 0
      /\ flags[x] # 0 => f[x] # 0
  BY <1>1, <1>4, FlagsHold DEF Busy
<1>6. f \in [Flags -> {0} \union Ids] /\ q \in Seq(Requests)
  BY <1>1, FlagsHold, ClickRequests
<1> HIDE DEF f
<1>7. LockInv(q, f, x)
  <2>1. CASE act.call = ""
    <3>1. PICK r : r = Orphaned(calls, closed)
      OBVIOUS
    <3>2. /\ Len(r) = Len(calls)
          /\ \A j \in 1 .. Len(calls) :
               /\ r[j].name = calls[j].name /\ r[j].load = calls[j].load
               /\ r[j].late = (calls[j].late \/ calls[j].name \in closed)
               /\ r[j].for \subseteq calls[j].for
      <4>1. /\ Len(Orphaned(calls, closed)) = Len(calls)
            /\ \A j \in 1 .. Len(calls) : Orphans(calls[j], Orphaned(calls, closed)[j], closed)
        BY FlagsHold, OrphanedCalls
      <4>2. /\ Len(r) = Len(calls)
            /\ \A j \in 1 .. Len(calls) : Orphans(calls[j], r[j], closed)
        BY <3>1, <4>1
      <4> HIDE DEF closed, q
      <4>3. QED
        BY <4>2 DEF Orphans, Same
    <3>3. Calling(r, x) = Calling(calls, x)
      BY <3>2 DEF Calling
    <3>4. Awaiting(r, x) \subseteq Awaiting(calls, x)
      BY <3>2 DEF Awaiting
    <3>5. \A i \in Calling(r, x) : r[i].late => calls[i].late
      BY <1>4, <3>2 DEF Calling
    <3>6. QED
      BY <1>5, <2>1, <3>1, <3>3, <3>4, <3>5 DEF LockInv
  <2>2. CASE act.call # ""
    <3>1. PICK r, c : c = CallOf(a, o) /\ r = Append(calls, c)
      OBVIOUS
    <3>2. /\ Len(r) = Len(calls) + 1 /\ r[Len(calls) + 1] = c
          /\ \A j \in 1 .. Len(calls) : r[j] = calls[j]
      BY <1>1, <3>1, FlagsHold, CallOfType, Called
    <3>3. c.name = a /\ ~c.load /\ ~c.late /\ c.for = {}
      BY <3>1 DEF CallOf
    <3>4. Awaiting(r, x) = Awaiting(calls, x)
      BY <3>2, <3>3, FlagsHold DEF Awaiting
    <3>5. CASE x \in Busy(a)
      <4>1. Calling(calls, x) = {} /\ Awaiting(calls, x) = {}
        BY <1>3, <3>5 DEF LockInv
      <4>2. Calling(r, x) \subseteq {Len(calls) + 1}
        BY <3>2, <4>1, FlagsHold DEF Calling
      <4>3. q = r
        BY <2>2, <3>1
      <4> HIDE DEF q
      <4>4. \A i \in Calling(r, x) : i = Len(calls) + 1 /\ ~r[i].late
        BY <3>2, <3>3, <4>2
      <4>5. Awaiting(r, x) = {} /\ f[x] # 0
        BY <1>5, <3>4, <3>5, <4>1
      <4>6. QED
        BY <4>3, <4>4, <4>5 DEF LockInv
    <3>6. CASE x \notin Busy(a)
      <4>1. Calling(r, x) = Calling(calls, x)
        BY <3>2, <3>3, <3>6, FlagsHold DEF Calling
      <4>2. \A i \in Calling(r, x) : r[i] = calls[i]
        BY <3>2, <4>1 DEF Calling
      <4>3. \A i \in Calling(r, x) : ~r[i].late
        BY <4>1, <4>2 DEF LockInv
      <4>4. LockInv(r, f, x)
        <5> HIDE DEF q
        <5>1. QED
          BY <1>5, <3>4, <4>1, <4>3 DEF LockInv
      <4>5. QED
        BY <2>2, <3>1, <4>4
    <3>7. QED
      BY <3>5, <3>6
  <2>3. QED
    BY <2>1, <2>2
<1>8. PICK ls \in SUBSET LoadNames : ls = IF act.call = "" THEN Reloads(a) ELSE {}
  BY ReloadsType
<1>9. Settle(ls, at, sel, f, shown, q, {}) /\ {} \in SUBSET ActNames /\ at \in Selections
  BY <1>2, <1>8, FlagsHold
<1> HIDE DEF q
<1>10. QED
  BY <1>6, <1>7, <1>9, LockSettle

LEMMA LockBackground ==
  ASSUME TypeOK, NEW x \in Flags, LockInv(calls, flags, x), NEW l \in LoadNames, Background(l)
  PROVE  LockInv(calls', flags', x)
<1>1. Settle({l}, at, at, flags, shown, calls, {}) /\ {} \in SUBSET ActNames
  BY DEF Background
<1>2. flags \in [Flags -> {0} \union Ids]
  BY DEF TypeOK
<1>3. QED
  BY <1>1, <1>2, FlagsHold, LockSettle
\* The requests q that the answer to request i leaves.
Left(q, i) ==
  /\ q \in Seq(Requests) /\ Len(q) = Len(calls) - 1
  /\ \A j \in 1 .. Len(calls) - 1 :
       LET c == calls[Place(i, j)] IN
       /\ Place(i, j) \in 1 .. Len(calls) /\ Place(i, j) # i
       /\ Same(c, q[j]) /\ q[j].for = c.for
       /\ c.late => q[j].late
       /\ q[j].late => c.late \/ (c.load /\ c.name = calls[i].name /\ calls[i].load)

LEMMA AnswersLeave ==
  ASSUME TypeOK, NEW i \in 1 .. Len(calls)
  PROVE  /\ calls[i].load => Left(Rest(i), i)
         /\ Left(Without(i), i)
         /\ \A a \in ActNames : Left(Passed(Without(i), a), i)
<1>1. Len(calls) \in Nat /\ Len(calls) - 1 \in Nat
  BY FlagsHold
<1>2. ASSUME calls[i].load PROVE Left(Rest(i), i)
  BY <1>1, <1>2, RestCalls DEF Left
<1>3. Left(Without(i), i)
  BY <1>1, WithoutCalls DEF Left, Same
<1>4. ASSUME NEW a \in ActNames PROVE Left(Passed(Without(i), a), i)
  <2>1. PICK q \in Seq(Requests) : q = Without(i) /\ Len(q) = Len(calls) - 1
    BY <1>3 DEF Left
  <2>2. PICK r : r = Passed(q, a)
    OBVIOUS
  <2>3. /\ r \in Seq(Requests) /\ Len(r) = Len(calls) - 1
        /\ \A j \in 1 .. Len(calls) - 1 : Same(q[j], r[j]) /\ r[j].late = q[j].late /\ r[j].for = q[j].for
    BY <2>1, <2>2, PassedCalls
  <2>4. Left(q, i)
    BY <1>3, <2>1
  <2>5. Left(r, i)
    BY <2>3, <2>4 DEF Left, Same
  <2>6. QED
    BY <2>1, <2>2, <2>5
<1>5. QED
  BY <1>2, <1>3, <1>4

\* Who still holds x after the answer to request i.
LEMMA LeftHolders ==
  ASSUME TypeOK, NEW i \in 1 .. Len(calls), NEW q, Left(q, i), NEW x
  PROVE  /\ \A j \in Calling(q, x) : /\ Place(i, j) \in Calling(calls, x) /\ Place(i, j) # i
                                     /\ calls[Place(i, j)].late = q[j].late
         /\ \A j, k \in Calling(q, x) : Place(i, j) = Place(i, k) => j = k
         /\ \A a \in Awaiting(q, x) : /\ a \in Awaiting(calls, x)
                                      /\ \E k \in 1 .. Len(calls) : k # i /\ a \in calls[k].for
<1>1. /\ q \in Seq(Requests) /\ Len(q) = Len(calls) - 1 /\ Len(calls) \in Nat
      /\ \A j \in 1 .. Len(q) :
           /\ Place(i, j) \in 1 .. Len(calls) /\ Place(i, j) # i
           /\ Same(calls[Place(i, j)], q[j]) /\ q[j].for = calls[Place(i, j)].for
           /\ calls[Place(i, j)].late => q[j].late
           /\ q[j].late => calls[Place(i, j)].late \/ calls[Place(i, j)].load
  BY FlagsHold DEF Left
<1>2. ASSUME NEW j \in Calling(q, x)
      PROVE  /\ Place(i, j) \in Calling(calls, x) /\ Place(i, j) # i
             /\ calls[Place(i, j)].late = q[j].late
  <2>1. j \in 1 .. Len(q) /\ ~q[j].load /\ x \in Busy(q[j].name)
    BY DEF Calling
  <2>2. q[j].late \in BOOLEAN /\ calls[Place(i, j)].late \in BOOLEAN
    BY <1>1, <2>1, FlagsHold DEF Requests
  <2>3. QED
    BY <1>1, <2>1, <2>2 DEF Same, Calling
<1>3. ASSUME NEW j \in Calling(q, x), NEW k \in Calling(q, x), Place(i, j) = Place(i, k) PROVE j = k
  <2>1. j \in 1 .. Len(calls) - 1 /\ k \in 1 .. Len(calls) - 1
    BY <1>1 DEF Calling
  <2>2. QED
    BY <1>1, <1>3, <2>1 DEF Place
<1>4. ASSUME NEW a \in Awaiting(q, x)
      PROVE  a \in Awaiting(calls, x) /\ \E k \in 1 .. Len(calls) : k # i /\ a \in calls[k].for
  <2>1. a \in ActNames /\ x \in Busy(a) /\ \E j \in 1 .. Len(q) : a \in q[j].for
    BY DEF Awaiting
  <2>2. PICK j \in 1 .. Len(q) : a \in q[j].for
    BY <2>1
  <2>3. QED
    BY <1>1, <2>1, <2>2 DEF Awaiting
<1>5. QED
  BY <1>2, <1>3, <1>4

LEMMA LockLeft ==
  ASSUME TypeOK, NEW x \in Flags, LockInv(calls, flags, x), NEW i \in 1 .. Len(calls), NEW q, Left(q, i),
         NEW f, f[x] = 0 => flags[x] = 0 \/ (Calling(q, x) = {} /\ Awaiting(q, x) = {})
  PROVE  LockInv(q, f, x)
<1>1. \A j, k \in Calling(q, x) : j = k
  BY LeftHolders DEF LockInv
<1>2. \A a, b \in Awaiting(q, x) : a = b
  BY LeftHolders DEF LockInv
<1>3. Calling(q, x) = {} \/ Awaiting(q, x) = {}
  BY LeftHolders DEF LockInv
<1>4. Calling(q, x) # {} \/ Awaiting(q, x) # {} => flags[x] # 0
  BY LeftHolders DEF LockInv
<1>5. \A j \in Calling(q, x) : ~q[j].late
  BY LeftHolders DEF LockInv
<1>6. QED
  BY <1>1, <1>2, <1>3, <1>4, <1>5 DEF LockInv

\* The answer to a read frees what the handlers held that it lets go on.
LEMMA LockFinished ==
  ASSUME TypeOK, NEW x \in Flags, Lock(x), LockInv(calls, flags, x), NEW i \in 1 .. Len(calls), calls[i].load
  PROVE  LockInv(Rest(i), Finished(i), x)
<1>1. PICK q : q = Rest(i) /\ Left(q, i)
  BY AnswersLeave
<1>2. calls[i] \in Requests /\ calls[i].name \in LoadNames
  BY FlagsHold DEF Requests
<1>3. ASSUME Finished(i)[x] = 0, flags[x] # 0 PROVE Calling(q, x) = {} /\ Awaiting(q, x) = {}
  <2>1. x \in UNION {Busy(a) : a \in Resumed(i)}
    BY <1>2, <1>3, FlagsHold DEF Finished, Put, Lock
  <2>2. PICK a \in Resumed(i) : x \in Busy(a)
    BY <2>1
  <2>3. /\ a \in ActNames /\ a \in calls[i].for
        /\ \A j \in 1 .. Len(calls) : j # i => a \notin calls[j].for
    BY <2>2, ResumedType DEF Resumed
  <2>4. a \in Awaiting(calls, x)
    BY <2>2, <2>3 DEF Awaiting
  <2>5. a \notin Awaiting(q, x)
    BY <1>1, <2>3, LeftHolders
  <2>6. Awaiting(q, x) \subseteq {a}
    BY <1>1, <2>4, LeftHolders DEF LockInv
  <2>7. Calling(calls, x) = {}
    BY <2>4 DEF LockInv
  <2>8. Calling(q, x) = {}
    BY <1>1, <2>7, LeftHolders
  <2>9. QED
    BY <2>5, <2>6, <2>8
<1>4. QED
  BY <1>1, <1>3, LockLeft

LEMMA LockLoaded ==
  ASSUME TypeOK, NEW x \in Flags, Lock(x), LockInv(calls, flags, x), NEW i \in 1 .. Len(calls), Loaded(i)
  PROVE  LockInv(calls', flags', x)
<1> DEFINE c == calls[i]
           sel == Selecting(c)
<1>1. c \in Requests /\ c.load
  BY ResumedType, LoadedStep
<1>2. PICK stale \in BOOLEAN : Settle({}, at, sel, Finished(i), Received(c, stale), Rest(i), {})
  BY LoadedStep
<1> HIDE DEF c, sel
<1>3. sel \in Selections
  BY <1>1, ReceivedType DEF sel
<1>4. /\ Rest(i) \in Seq(Requests) /\ Finished(i) \in [Flags -> {0} \union Ids] /\ at \in Selections
      /\ {} \in SUBSET LoadNames /\ {} \in SUBSET ActNames
  BY RestCalls, ResumedType, FlagsHold
<1>5. LockInv(Rest(i), Finished(i), x)
  BY <1>1, LockFinished DEF c
<1>6. QED
  BY <1>2, <1>3, <1>4, <1>5, LockSettle

LEMMA LockNotLoaded ==
  ASSUME TypeOK, NEW x \in Flags, Lock(x), LockInv(calls, flags, x), NEW i \in 1 .. Len(calls), NotLoaded(i)
  PROVE  LockInv(calls', flags', x)
<1>1. calls[i].load /\ Settle({}, at, at, Finished(i), Failed(calls[i]), Rest(i), {})
  BY DEF NotLoaded
<1>2. /\ Rest(i) \in Seq(Requests) /\ Finished(i) \in [Flags -> {0} \union Ids] /\ at \in Selections
      /\ {} \in SUBSET LoadNames /\ {} \in SUBSET ActNames
  BY RestCalls, ResumedType, FlagsHold
<1>3. LockInv(Rest(i), Finished(i), x)
  BY <1>1, LockFinished
<1>4. QED
  BY <1>1, <1>2, <1>3, LockSettle

\* A call that holds x leaves no other holder.
LEMMA LockAlone ==
  ASSUME TypeOK, NEW x \in Flags, LockInv(calls, flags, x), NEW i \in 1 .. Len(calls), ~calls[i].load,
         x \in Busy(calls[i].name), NEW q, Left(q, i)
  PROVE  Calling(q, x) = {} /\ Awaiting(q, x) = {} /\ flags[x] # 0 /\ ~calls[i].late
<1>1. i \in Calling(calls, x)
  BY DEF Calling
<1>2. QED
  BY <1>1, LeftHolders DEF LockInv

LEMMA LockDone ==
  ASSUME TypeOK, NEW x \in Flags, Lock(x), LockInv(calls, flags, x), NEW i \in 1 .. Len(calls), Done(i)
  PROVE  LockInv(calls', flags', x)
<1> DEFINE c == calls[i]
<1>1. c \in Requests /\ ~c.load
  BY ResumedType DEF Done
<1>2. PICK sel \in [S.axes -> Ids] :
        Settle(Reloads(c.name), Seen(c), sel, Released(c), Missing(c, S.acts[c.name]), Passed(Without(i), c.name),
               IF Waits(c) THEN {c.name} ELSE {})
  BY DEF Done
<1> HIDE DEF c
<1>3. c.name \in ActNames /\ Seen(c) \in Selections /\ Released(c) \in [Flags -> {0} \union Ids]
  BY <1>1, ActType
<1>4. PICK q : q = Passed(Without(i), c.name) /\ Left(q, i)
  BY <1>3, AnswersLeave
<1>5. x \in Busy(c.name) => /\ Calling(q, x) = {} /\ Awaiting(q, x) = {}
                            /\ flags[x] # 0 /\ ~c.late
  BY <1>1, <1>4, LockAlone DEF c
<1>6. flags[x] # 0 /\ Released(c)[x] = 0 => x \in Busy(c.name) /\ ~Waits(c)
  BY <1>3, FlagsHold DEF Released, Own, Lock
<1>7. LockInv(q, Released(c), x)
  BY <1>4, <1>5, <1>6, LockLeft
<1>8. PICK ls \in SUBSET LoadNames, for \in SUBSET ActNames :
        ls = Reloads(c.name) /\ for = IF Waits(c) THEN {c.name} ELSE {}
  BY <1>3, ReloadsType
<1>9. Settle(ls, Seen(c), sel, Released(c), Missing(c, S.acts[c.name]), q, for)
  BY <1>2, <1>4, <1>8
<1>10. q \in Seq(Requests) /\ sel \in Selections
  BY <1>4 DEF Left, Selections
<1>11. \A b \in for : x \in Busy(b) =>
         for = {b} /\ Calling(q, x) = {} /\ Awaiting(q, x) = {} /\ Released(c)[x] # 0
  BY <1>5, <1>6, <1>8
<1>12. QED
  BY <1>3, <1>7, <1>9, <1>10, <1>11, LockSettle

LEMMA LockNotDone ==
  ASSUME TypeOK, NEW x \in Flags, Lock(x), LockInv(calls, flags, x), NEW i \in 1 .. Len(calls), NotDone(i)
  PROVE  LockInv(calls', flags', x)
<1> DEFINE c == calls[i]
           act == S.acts[c.name]
           f == Put(flags, IF c.late THEN {} ELSE Busy(c.name) \ act.stuck, 0)
<1>1. c \in Requests /\ ~c.load
  BY ResumedType DEF NotDone
<1>2. Settle(IF act.always THEN Reloads(c.name) ELSE {}, Seen(c), at, f, AfterFailure(c, act), Without(i), {})
  BY DEF NotDone
<1> HIDE DEF c
<1>3. c.name \in ActNames /\ Seen(c) \in Selections
  BY <1>1, ActType
<1>4. f \in [Flags -> {0} \union Ids]
  BY FlagsHold DEF Put, TypeOK
<1>5. PICK q : q = Without(i) /\ Left(q, i)
  BY AnswersLeave
<1>6. x \in Busy(c.name) => Calling(q, x) = {} /\ Awaiting(q, x) = {}
  BY <1>1, <1>5, LockAlone DEF c
<1>7. flags[x] # 0 /\ f[x] = 0 => x \in Busy(c.name)
  BY FlagsHold DEF Put
<1> HIDE DEF f
<1>8. LockInv(q, f, x)
  BY <1>5, <1>6, <1>7, LockLeft
<1>9. PICK ls \in SUBSET LoadNames : ls = IF act.always THEN Reloads(c.name) ELSE {}
  BY <1>3, ReloadsType
<1>10. Settle(ls, Seen(c), at, f, AfterFailure(c, act), q, {}) /\ {} \in SUBSET ActNames
  BY <1>2, <1>5, <1>9
<1>11. q \in Seq(Requests) /\ at \in Selections
  BY <1>5, FlagsHold DEF Left
<1>12. QED
  BY <1>3, <1>4, <1>8, <1>10, <1>11, LockSettle

\* Every lock has one holder at most.
Locked == \A x \in Flags : Lock(x) => LockInv(calls, flags, x)

LEMMA LockNext == TypeOK /\ Locked /\ [Next]_vars => Locked'
<1> SUFFICES ASSUME TypeOK, Locked, [Next]_vars PROVE Locked'
  OBVIOUS
<1>1. scr' = scr
  BY DEF Next, Click, Background, Answer, Loaded, NotLoaded, Done, NotDone, vars
<1>2. S' = S /\ Flags' = Flags /\ ActNames' = ActNames /\ LoadNames' = LoadNames
  BY <1>1, SameScreen
<1>3. \A x : Lock(x)' <=> Lock(x)
  BY <1>2 DEF Lock, Busy, Closing
<1>4. QED
  <2> SUFFICES ASSUME NEW x \in Flags, Lock(x) PROVE LockInv(calls, flags, x)'
    BY <1>2, <1>3 DEF Locked
  <2>1. LockInv(calls, flags, x)
    BY DEF Locked
  <2>2. LockInv(calls', flags', x)
    <3>1. CASE UNCHANGED vars
      BY <1>2, <2>1, <3>1 DEF LockInv, Calling, Awaiting, Busy, vars
    <3>2. QED
      BY <2>1, <3>1, Steps, LockClick, LockBackground, LockLoaded, LockNotLoaded, LockDone, LockNotDone
  <2>3. QED
    BY <1>2, <2>2 DEF LockInv, Calling, Awaiting, Busy
LEMMA InitLocked == Init => Locked
BY LockInit DEF Locked

THEOREM LocksHold == Spec => []Locked
BY TypeCorrect, InitLocked, LockNext, PTL DEF Spec

\* On a screen whose handlers set locks, no handler that its own pending flag disables has two
\* calls for one object out, whatever the user clicks and however the answers come.
THEOREM NoneTwice == Spec => [](OneAtATime => SentOnce)
<1>1. TypeOK /\ Locked => (OneAtATime => SentOnce)
  <2> SUFFICES ASSUME TypeOK, Locked, OneAtATime, NEW i \in 1 .. Len(calls), NEW j \in 1 .. Len(calls),
                      i < j, ~calls[i].load, ~calls[j].load, calls[i].name = calls[j].name,
                      Guarded(calls[i].name), calls[i].name \notin Excused("twice")
               PROVE  FALSE
    BY DEF SentOnce
  <2>1. calls[i].name \in ActNames
    BY FlagsHold DEF Requests
  <2>2. PICK x \in Busy(calls[i].name) : Lock(x)
    BY <2>1 DEF OneAtATime
  <2>3. x \in Flags
    BY <2>1, <2>2, BusyFlags
  <2>4. i \in Calling(calls, x) /\ j \in Calling(calls, x)
    BY <2>2 DEF Calling
  <2>5. i = j
    BY <2>2, <2>3, <2>4 DEF Locked, LockInv
  <2>6. QED
    BY <2>5
<1>2. QED
  BY <1>1, TypeCorrect, LocksHold, PTL

-----------------------------------------------------------------------------
(* Pending flags: one that is on has a request that will turn it off.      *)

\* Request c, or what waits for it, holds the flag x.
Holds(c, x) ==
  \/ c.load /\ x \in S.loads[c.name].busy
  \/ ~c.load /\ ~c.late /\ x \in Busy(c.name)
  \/ \E a \in c.for : x \in Busy(a)
Held(q, f, x) == f[x] # 0 => \E i \in 1 .. Len(q) : Holds(q[i], x)

LEMMA HeldSettle ==
  ASSUME TypeOK, NEW ls \in SUBSET LoadNames, NEW was \in Selections, NEW a \in Selections,
         NEW f \in [Flags -> {0} \union Ids], NEW s, NEW q0 \in Seq(Requests), NEW for \in SUBSET ActNames,
         Settle(ls, was, a, f, s, q0, for),
         NEW x \in Flags, Pending(x),
         \/ Held(q0, f, x)
         \/ /\ \E b \in for : x \in Busy(b)
            /\ \E l \in ls : \/ l \in New(ls, a, f)
                             \/ Joinable(l, a) /\ \E j \in 1 .. Len(q0) : Joins(l, q0[j])
  PROVE  Held(calls', flags', x)
<1> SUFFICES ASSUME flags'[x] # 0 PROVE \E i \in 1 .. Len(calls') : Holds(calls'[i], x)
  BY DEF Held
<1>1. PICK q1, J, new, sent : /\ q1 = calls'
                              /\ J = {l \in ls : Joinable(l, a)}
                              /\ new = New(ls, a, f)
                              /\ sent = Sent(ls, was, a, new, for)
  OBVIOUS
<1>2. q1 \in Seq(Requests) /\ \E m \in Nat : \E e : Settles(q0, q1, m, e, J, new, sent, a, for)
  BY <1>1, Settled
<1>3. PICK m, e : Settles(q0, q1, m, e, J, new, sent, a, for)
  BY <1>2
<1>4. /\ Len(q1) \in Nat /\ m \in 0 .. Len(q1) /\ \A j \in 1 .. Len(q0) : q0[j] \in Requests
      /\ new \in SUBSET LoadNames
  BY <1>1, <1>2, <1>3 DEF Settles, New, Wanted
\* A request for each load asked for ...
<1>5. ASSUME NEW l \in new
      PROVE  \E i \in 1 .. Len(q1) : q1[i].load /\ q1[i].name = l /\ (l \in ls => q1[i].for = for)
  <2>1. PICK r \in sent : IsSent(r, l, ls, was, a, for)
    BY <1>1, SentIs
  <2>2. PICK i \in m + 1 .. Len(q1) : q1[i] = r
    BY <1>3 DEF Settles
  <2>3. i \in 1 .. Len(q1)
    BY <1>4
  <2>4. QED
    BY <2>1, <2>2, <2>3 DEF IsSent
\* ... and each that stands.
<1>6. ASSUME NEW j \in 1 .. Len(q0),
             ~Outdated(q0[j], new, a) \/ q0[j].for # {} \/ ((\E l \in J : Joins(l, q0[j])) /\ for # {})
      PROVE  \E i \in 1 .. Len(q1) : Becomes(q0[j], q1[i], J, new, a, for)
  <2>1. PICK i \in 1 .. m : e[i] = j
    BY <1>3, <1>6 DEF Settles
  <2>2. Becomes(q0[j], q1[i], J, new, a, for)
    BY <1>3, <2>1 DEF Settles
  <2>3. i \in 1 .. Len(q1)
    BY <1>4
  <2>4. QED
    BY <2>2, <2>3
<1>7. CASE /\ \E b \in for : x \in Busy(b)
           /\ \E l \in ls : l \in new \/ (Joinable(l, a) /\ \E j \in 1 .. Len(q0) : Joins(l, q0[j]))
  <2>1. PICK b \in for : x \in Busy(b)
    BY <1>7
  <2>2. PICK l \in ls : l \in new \/ (Joinable(l, a) /\ \E j \in 1 .. Len(q0) : Joins(l, q0[j]))
    BY <1>7
  <2>3. CASE l \in new
    BY <1>1, <1>5, <2>1, <2>3 DEF Holds
  <2>4. CASE Joinable(l, a) /\ \E j \in 1 .. Len(q0) : Joins(l, q0[j])
    <3>1. PICK j \in 1 .. Len(q0) : Joins(l, q0[j])
      BY <2>4
    <3>2. l \in J
      BY <1>1, <2>4
    <3>3. PICK i \in 1 .. Len(q1) : Becomes(q0[j], q1[i], J, new, a, for)
      BY <1>6, <2>1, <3>1, <3>2
    <3>4. b \in q1[i].for
      BY <2>1, <3>1, <3>2, <3>3 DEF Becomes
    <3>5. QED
      BY <1>1, <2>1, <3>4 DEF Holds
  <2>5. QED
    BY <2>2, <2>3, <2>4
<1>8. CASE f[x] = 0
  <2>1. flags' = Put(f, UNION {S.loads[l].busy : l \in new}, 1)
    BY <1>1 DEF Settle
  <2>2. PICK l \in new : x \in S.loads[l].busy
    BY <1>8, <2>1 DEF Put
  <2>3. PICK i \in 1 .. Len(q1) : q1[i].load /\ q1[i].name = l
    BY <1>5
  <2>4. QED
    BY <1>1, <2>2, <2>3 DEF Holds
<1>9. CASE Held(q0, f, x) /\ f[x] # 0
  <2>1. PICK j \in 1 .. Len(q0) : Holds(q0[j], x)
    BY <1>9 DEF Held
  <2>2. q0[j] \in Requests
    BY <1>4
  <2>3. CASE ~Outdated(q0[j], new, a) \/ q0[j].for # {}
    <3>1. PICK i \in 1 .. Len(q1) : Becomes(q0[j], q1[i], J, new, a, for)
      BY <1>6, <2>3
    <3>2. /\ q1[i].name = q0[j].name /\ q1[i].load = q0[j].load /\ q0[j].for \subseteq q1[i].for
          /\ ~q0[j].load => q1[i].late = q0[j].late
      <4>1. ~q0[j].load => ~Outdated(q0[j], new, a)
        BY DEF Outdated
      <4>2. q0[j].late \in BOOLEAN
        BY <2>2 DEF Requests
      <4>3. QED
        BY <3>1, <4>1, <4>2 DEF Becomes
    <3>3. Holds(q1[i], x)
      BY <2>1, <3>2 DEF Holds
    <3>4. QED
      BY <1>1, <3>3
  <2>4. CASE Outdated(q0[j], new, a) /\ q0[j].for = {}
    <3>1. PICK l : l = q0[j].name
      OBVIOUS
    <3>2. /\ q0[j].load /\ l \in LoadNames /\ S.loads[l].keyed /\ x \in S.loads[l].busy
          /\ l \in new \/ Moved(l, a)
      BY <2>1, <2>2, <2>4, <3>1 DEF Outdated, Holds, Requests
    <3>3. S.loads[l].needs = {}
      BY <3>2 DEF Pending
    <3>4. l \in new
      BY <1>1, <3>2, <3>3 DEF New, Wanted, Enabled, Joinable
    <3>5. QED
      BY <1>1, <1>5, <3>2, <3>4 DEF Holds
  <2>5. QED
    BY <2>3, <2>4
<1>10. QED
  BY <1>1, <1>7, <1>8, <1>9
LEMMA HeldInit ==
  ASSUME Init, NEW x \in Flags, Pending(x)
  PROVE  Held(calls, flags, x)
<1> SUFFICES ASSUME flags[x] # 0 PROVE \E i \in 1 .. Len(calls) : Holds(calls[i], x)
  BY DEF Held
<1>1. PICK l \in Mounted : x \in S.loads[l].busy
  BY DEF Init, Pending
<1>2. TypeOK
  BY InitType
<1> DEFINE T == {Request(k, 1, {}) : k \in Mounted}
<1>3. calls = SetToSeq(T) /\ IsFiniteSet(T)
  BY <1>2, Described, MountedFinite DEF Init
<1>4. Request(l, 1, {}) \in T
  OBVIOUS
<1> HIDE DEF T
<1>5. PICK r \in T : r = Request(l, 1, {})
  BY <1>4
<1>6. PICK i \in 1 .. Len(calls) : calls[i] = r
  BY <1>3, Listed
<1>7. r.load /\ r.name = l
  BY <1>5 DEF Request
<1>8. QED
  BY <1>1, <1>6, <1>7 DEF Holds

LEMMA HeldClick ==
  ASSUME TypeOK, NEW x \in Flags, Pending(x), Held(calls, flags, x),
         NEW a \in ActNames, NEW o \in Objects(a), Click(a, o)
  PROVE  Held(calls', flags', x)
<1> DEFINE act == S.acts[a]
           closed == Closing(act.clears)
           f == [y \in DOMAIN flags |->
              IF y \in UNION {Busy(b) : b \in closed} THEN 0
              ELSE IF y \in act.setsMe \union act.busyMe THEN o
              ELSE IF y \in act.sets \union act.busy THEN 1
              ELSE IF y \in act.clears THEN 0 ELSE flags[y]]
           q == IF act.call = "" THEN Orphaned(calls, closed) ELSE Append(calls, CallOf(a, o))
<1>1. o \in Ids
  BY ObjectsType
<1>2. PICK sel \in Selections : Settle(IF act.call = "" THEN Reloads(a) ELSE {}, at, sel, f, shown, q, {})
  BY DEF Click, Selections
<1>3. x \notin act.sets \union act.setsMe /\ (x \in Busy(a) => act.call # "")
  BY DEF Pending
<1>4. f[x] # 0 => (flags[x] # 0 \/ x \in Busy(a)) /\ \A b \in closed : x \notin Busy(b)
  BY <1>3, FlagsHold DEF Busy
<1>5. f \in [Flags -> {0} \union Ids] /\ q \in Seq(Requests)
  BY <1>1, FlagsHold, ClickRequests
<1> HIDE DEF f
<1>6. ASSUME f[x] # 0 PROVE \E i \in 1 .. Len(q) : Holds(q[i], x)
  <2>1. CASE act.call # ""
    <3>1. PICK r, c : c = CallOf(a, o) /\ r = Append(calls, c)
      OBVIOUS
    <3>2. /\ Len(r) = Len(calls) + 1 /\ r[Len(calls) + 1] = c
          /\ \A j \in 1 .. Len(calls) : r[j] = calls[j]
      BY <1>1, <3>1, FlagsHold, CallOfType, Called
    <3>3. c.name = a /\ ~c.load /\ ~c.late
      BY <3>1 DEF CallOf
    <3>4. q = r
      BY <2>1, <3>1
    <3> HIDE DEF q
    <3>5. CASE x \in Busy(a)
      <4>1. Len(calls) + 1 \in 1 .. Len(q) /\ Holds(q[Len(calls) + 1], x)
        BY <3>2, <3>3, <3>4, <3>5, FlagsHold DEF Holds
      <4>2. QED
        BY <4>1
    <3>6. CASE flags[x] # 0
      <4>1. PICK i \in 1 .. Len(calls) : Holds(calls[i], x)
        BY <3>6 DEF Held
      <4>2. i \in 1 .. Len(q) /\ q[i] = calls[i]
        BY <3>2, <3>4, FlagsHold
      <4>3. QED
        BY <4>1, <4>2
    <3>7. QED
      BY <1>4, <1>6, <3>5, <3>6
  <2>2. CASE act.call = ""
    <3>1. PICK i \in 1 .. Len(calls) : Holds(calls[i], x)
      BY <1>3, <1>4, <1>6, <2>2 DEF Held
    <3>2. PICK r : r = Orphaned(calls, closed) /\ r = q
      BY <2>2
    <3>3. /\ Len(Orphaned(calls, closed)) = Len(calls)
          /\ Orphans(calls[i], Orphaned(calls, closed)[i], closed)
      BY FlagsHold, OrphanedCalls
    <3>4. Len(r) = Len(calls) /\ Orphans(calls[i], r[i], closed)
      BY <3>2, <3>3
    <3> HIDE DEF q
    <3>5. \A b \in closed : x \notin Busy(b)
      BY <1>4, <1>6
    <3> HIDE DEF closed
    <3>6. Holds(r[i], x)
      <4>1. r[i].name = calls[i].name /\ r[i].load = calls[i].load
        BY <3>4 DEF Orphans, Same
      <4>2. CASE calls[i].load /\ x \in S.loads[calls[i].name].busy
        BY <4>1, <4>2 DEF Holds
      <4>3. CASE ~calls[i].load /\ ~calls[i].late /\ x \in Busy(calls[i].name)
        <5>1. ~r[i].late
          BY <3>4, <3>5, <4>3 DEF Orphans
        <5>2. QED
          BY <4>1, <4>3, <5>1 DEF Holds
      <4>4. CASE \E b \in calls[i].for : x \in Busy(b)
        <5>1. PICK b \in calls[i].for : x \in Busy(b)
          BY <4>4
        <5>2. b \in r[i].for
          BY <3>4, <3>5, <5>1 DEF Orphans
        <5>3. QED
          BY <5>1, <5>2 DEF Holds
      <4>5. QED
        BY <3>1, <4>2, <4>3, <4>4 DEF Holds
    <3>7. QED
      BY <3>2, <3>4, <3>6
  <2>3. QED
    BY <2>1, <2>2
<1>7. Held(q, f, x)
  BY <1>6 DEF Held
<1>8. PICK ls \in SUBSET LoadNames : ls = IF act.call = "" THEN Reloads(a) ELSE {}
  BY ReloadsType
<1>9. Settle(ls, at, sel, f, shown, q, {}) /\ {} \in SUBSET ActNames /\ at \in Selections
  BY <1>2, <1>8, FlagsHold
<1> HIDE DEF q
<1>10. QED
  BY <1>5, <1>7, <1>9, HeldSettle

LEMMA HeldBackground ==
  ASSUME TypeOK, NEW x \in Flags, Pending(x), Held(calls, flags, x), NEW l \in LoadNames, Background(l)
  PROVE  Held(calls', flags', x)
<1>1. Settle({l}, at, at, flags, shown, calls, {}) /\ {} \in SUBSET ActNames
  BY DEF Background
<1>2. flags \in [Flags -> {0} \union Ids]
  BY DEF TypeOK
<1>3. QED
  BY <1>1, <1>2, FlagsHold, HeldSettle

\* What another request than i holds, it holds after the answer to i.
LEMMA LeftHold ==
  ASSUME TypeOK, NEW i \in 1 .. Len(calls), NEW q, Left(q, i), NEW x,
         NEW k \in 1 .. Len(calls), k # i, Holds(calls[k], x)
  PROVE  \E j \in 1 .. Len(q) : Holds(q[j], x)
<1>1. Len(calls) \in Nat /\ Len(q) = Len(calls) - 1
  BY FlagsHold DEF Left
<1>2. PICK j \in 1 .. Len(calls) - 1 : Place(i, j) = k
  BY <1>1, PlaceOnto
<1>3. /\ Same(calls[k], q[j]) /\ q[j].for = calls[k].for
      /\ q[j].late => calls[k].late \/ calls[k].load
  BY <1>2 DEF Left
<1>4. Holds(q[j], x)
  BY <1>3 DEF Holds, Same
<1>5. QED
  BY <1>1, <1>2, <1>4

LEMMA HeldFinished ==
  ASSUME TypeOK, NEW x \in Flags, Held(calls, flags, x), NEW i \in 1 .. Len(calls), calls[i].load
  PROVE  Held(Rest(i), Finished(i), x)
<1> SUFFICES ASSUME Finished(i)[x] # 0 PROVE \E j \in 1 .. Len(Rest(i)) : Holds(Rest(i)[j], x)
  BY DEF Held
<1>1. flags[x] # 0 /\ x \notin S.loads[calls[i].name].busy /\ \A a \in Resumed(i) : x \notin Busy(a)
  BY FlagsHold DEF Finished, Put
<1>2. PICK k \in 1 .. Len(calls) : Holds(calls[k], x)
  BY <1>1 DEF Held
<1>3. \E j \in 1 .. Len(calls) : j # i /\ Holds(calls[j], x)
  <2>1. CASE k # i
    BY <1>2, <2>1
  <2>2. CASE k = i
    <3>1. PICK a \in calls[i].for : x \in Busy(a)
      BY <1>1, <1>2, <2>2 DEF Holds
    <3>2. a \notin Resumed(i)
      BY <1>1, <3>1
    <3>3. PICK j \in 1 .. Len(calls) : j # i /\ a \in calls[j].for
      BY <3>1, <3>2 DEF Resumed
    <3>4. QED
      BY <3>1, <3>3 DEF Holds
  <2>3. QED
    BY <2>1, <2>2
<1>4. QED
  BY <1>3, AnswersLeave, LeftHold

LEMMA HeldLoaded ==
  ASSUME TypeOK, NEW x \in Flags, Pending(x), Held(calls, flags, x), NEW i \in 1 .. Len(calls),
         Loaded(i) \/ NotLoaded(i)
  PROVE  Held(calls', flags', x)
<1> DEFINE c == calls[i]
<1>1. /\ c \in Requests /\ c.load
      /\ \E sel, s : sel \in Selections /\ Settle({}, at, sel, Finished(i), s, Rest(i), {})
  <2>1. CASE Loaded(i)
    <3>1. c \in Requests /\ c.load
      BY <2>1, ResumedType, LoadedStep
    <3>2. PICK stale \in BOOLEAN : Settle({}, at, Selecting(c), Finished(i), Received(c, stale), Rest(i), {})
      BY <2>1, LoadedStep
    <3> HIDE DEF c
    <3>3. Selecting(c) \in Selections
      BY <3>1, ReceivedType
    <3>4. QED
      BY <3>1, <3>2, <3>3
  <2>2. CASE NotLoaded(i)
    <3>1. c \in Requests /\ c.load /\ Settle({}, at, at, Finished(i), Failed(c), Rest(i), {})
      BY <2>2, ResumedType DEF NotLoaded
    <3>2. QED
      BY <3>1, FlagsHold
  <2>3. QED
    BY <2>1, <2>2
<1>2. PICK sel, s : sel \in Selections /\ Settle({}, at, sel, Finished(i), s, Rest(i), {})
  BY <1>1
<1>3. /\ Rest(i) \in Seq(Requests) /\ Finished(i) \in [Flags -> {0} \union Ids] /\ at \in Selections
      /\ {} \in SUBSET LoadNames /\ {} \in SUBSET ActNames
  BY RestCalls, ResumedType, FlagsHold
<1>4. Held(Rest(i), Finished(i), x)
  BY <1>1, HeldFinished
<1>5. QED
  BY <1>2, <1>3, <1>4, HeldSettle
-----------------------------------------------------------------------------
(* Where the requests of a step come from.                                 *)

\* Request d is what is left of c.
Heir(c, d) == Same(c, d) /\ d.for \subseteq c.for /\ (c.late => d.late)

\* Settle takes a request over or sends it.
LEMMA SettledEach ==
  ASSUME TypeOK, NEW ls \in SUBSET LoadNames, NEW was \in Selections, NEW a \in Selections,
         NEW f, NEW s, NEW q0 \in Seq(Requests), NEW for \in SUBSET ActNames,
         Settle(ls, was, a, f, s, q0, for)
  PROVE  /\ calls' \in Seq(Requests)
         /\ \A i \in 1 .. Len(calls') :
              \/ \E j \in 1 .. Len(q0) : Becomes(q0[j], calls'[i], {l \in ls : Joinable(l, a)}, New(ls, a, f), a, for)
              \/ \E l \in New(ls, a, f) : IsSent(calls'[i], l, ls, was, a, for)
<1>1. PICK q1, J, new, sent : /\ q1 = calls'
                              /\ J = {l \in ls : Joinable(l, a)}
                              /\ new = New(ls, a, f)
                              /\ sent = Sent(ls, was, a, new, for)
  OBVIOUS
<1>2. q1 \in Seq(Requests) /\ \E m \in Nat : \E e : Settles(q0, q1, m, e, J, new, sent, a, for)
  BY <1>1, Settled
<1>3. PICK m, e : Settles(q0, q1, m, e, J, new, sent, a, for)
  BY <1>2
<1>4. ASSUME NEW i \in 1 .. Len(q1)
      PROVE  \/ \E j \in 1 .. Len(q0) : Becomes(q0[j], q1[i], J, new, a, for)
             \/ \E l \in new : IsSent(q1[i], l, ls, was, a, for)
  <2>1. CASE i \in 1 .. m
    BY <1>3, <2>1 DEF Settles
  <2>2. CASE i \in m + 1 .. Len(q1)
    <3>1. q1[i] \in sent
      BY <1>3, <2>2 DEF Settles
    <3>2. QED
      BY <1>1, <3>1, SentIs
  <2>3. m \in 0 .. Len(q1) /\ Len(q1) \in Nat
    BY <1>2, <1>3 DEF Settles
  <2>4. QED
    BY <2>1, <2>2, <2>3
<1>5. QED
  BY <1>1, <1>2, <1>4

\* Request d is what a click leaves of c that closes the dialogs of the handlers as.
Stands(c, d, as) ==
  /\ Same(c, d) /\ d.miss = c.miss
  /\ c.load => d.late = c.late
  /\ c.for \ as \subseteq d.for

\* A click takes over what is out, and may add its call.
Clicks(sel, f, ls, q, a, o) ==
  /\ Settle(ls, at, sel, f, shown, q, {})
  /\ ls = IF S.acts[a].call = "" THEN Reloads(a) ELSE {}
  /\ \A x \in S.axes : sel[x] # at[x] => x \in S.acts[a].moves
  /\ \A j \in 1 .. Len(q) : \/ \E k \in 1 .. Len(calls) : Heir(calls[k], q[j]) /\ q[j].miss = calls[k].miss
                            \/ S.acts[a].call # "" /\ q[j] = CallOf(a, o)
  /\ Len(q) \in {Len(calls), Len(calls) + 1}
  /\ \A j \in 1 .. Len(q) : IF j <= Len(calls) THEN Stands(calls[j], q[j], Closing(S.acts[a].clears)) ELSE q[j] = CallOf(a, o)
  /\ \A y \in Flags : f[y] = 0 => \/ flags[y] = 0 \/ y \in S.acts[a].clears
                                 \/ \E b \in ActNames : y \in Busy(b)
  /\ drafts' = DraftsAtClick(a, o, sel)
LEMMA ClickEach ==
  ASSUME TypeOK, NEW a \in ActNames, NEW o \in Objects(a), Click(a, o)
  PROVE  \E sel \in Selections, f \in [Flags -> {0} \union Ids], ls \in SUBSET LoadNames, q \in Seq(Requests) :
           Clicks(sel, f, ls, q, a, o)
<1> DEFINE act == S.acts[a]
           closed == Closing(act.clears)
           f == [y \in DOMAIN flags |->
              IF y \in UNION {Busy(b) : b \in closed} THEN 0
              ELSE IF y \in act.setsMe \union act.busyMe THEN o
              ELSE IF y \in act.sets \union act.busy THEN 1
              ELSE IF y \in act.clears THEN 0 ELSE flags[y]]
           q == IF act.call = "" THEN Orphaned(calls, closed) ELSE Append(calls, CallOf(a, o))
<1>1. o \in Ids
  BY ObjectsType
<1>2. PICK sel \in Selections :
        /\ Settle(IF act.call = "" THEN Reloads(a) ELSE {}, at, sel, f, shown, q, {})
        /\ \A x \in S.axes : sel[x] # at[x] => x \in act.moves
        /\ drafts' = DraftsAtClick(a, o, sel)
  BY DEF Click, Selections
<1>13. \A y \in Flags : f[y] = 0 => flags[y] = 0 \/ y \in act.clears \/ \E b \in ActNames : y \in Busy(b)
  <2>1. \A b \in closed : b \in ActNames
    BY DEF Closing
  <2>2. o # 0 /\ DOMAIN flags = Flags
    BY <1>1, IdsAssumption, FlagsHold
  <2> HIDE DEF closed
  <2>3. QED
    BY <2>1, <2>2
<1>3. f \in [Flags -> {0} \union Ids] /\ q \in Seq(Requests)
  BY <1>1, FlagsHold, ClickRequests
<1>4. PICK ls \in SUBSET LoadNames : ls = IF act.call = "" THEN Reloads(a) ELSE {}
  BY ReloadsType
<1> HIDE DEF q
<1>5. ASSUME NEW j \in 1 .. Len(q)
      PROVE  \/ \E k \in 1 .. Len(calls) : Heir(calls[k], q[j]) /\ q[j].miss = calls[k].miss
             \/ act.call # "" /\ q[j] = CallOf(a, o)
  <2>1. CASE act.call # ""
    <3>1. PICK r, c : c = CallOf(a, o) /\ r = Append(calls, c)
      OBVIOUS
    <3>2. /\ Len(r) = Len(calls) + 1 /\ r[Len(calls) + 1] = c
          /\ \A k \in 1 .. Len(calls) : r[k] = calls[k]
      BY <1>1, <3>1, FlagsHold, CallOfType, Called
    <3>3. r = q
      BY <2>1, <3>1 DEF q
    <3>4. j \in 1 .. Len(calls) \/ j = Len(calls) + 1
      BY <3>2, <3>3, FlagsHold
    <3>5. QED
      BY <2>1, <3>1, <3>2, <3>3, <3>4 DEF Heir, Same
  <2>2. CASE act.call = ""
    <3>1. PICK r : r = Orphaned(calls, closed) /\ r = q
      BY <2>2 DEF q
    <3>2. /\ Len(Orphaned(calls, closed)) = Len(calls)
          /\ \A k \in 1 .. Len(calls) : Orphans(calls[k], Orphaned(calls, closed)[k], closed)
      BY FlagsHold, OrphanedCalls
    <3>3. Len(r) = Len(calls) /\ \A k \in 1 .. Len(calls) : Orphans(calls[k], r[k], closed)
      BY <3>1, <3>2
    <3> HIDE DEF closed
    <3>4. j \in 1 .. Len(calls) /\ Orphans(calls[j], q[j], closed)
      BY <3>1, <3>3
    <3>5. QED
      BY <3>4 DEF Orphans, Heir
  <2>3. QED
    BY <2>1, <2>2
<1>14. /\ Len(q) \in {Len(calls), Len(calls) + 1}
       /\ \A j \in 1 .. Len(q) : IF j <= Len(calls) THEN Stands(calls[j], q[j], closed) ELSE q[j] = CallOf(a, o)
  <2>1. CASE act.call # ""
    <3>1. PICK r, c : c = CallOf(a, o) /\ r = Append(calls, c)
      OBVIOUS
    <3>2. /\ Len(r) = Len(calls) + 1 /\ r[Len(calls) + 1] = c
          /\ \A k \in 1 .. Len(calls) : r[k] = calls[k]
      BY <1>1, <3>1, FlagsHold, CallOfType, Called
    <3>3. \A j \in 1 .. Len(calls) : Stands(calls[j], r[j], closed)
      BY <3>2 DEF Stands, Same
    <3>7. Len(calls) \in Nat
      BY FlagsHold
    <3> HIDE DEF closed
    <3>4. \A j \in 1 .. Len(r) : IF j <= Len(calls) THEN Stands(calls[j], r[j], closed) ELSE r[j] = c
      BY <3>2, <3>3, <3>7
    <3>5. r = q
      BY <2>1, <3>1 DEF q
    <3>6. QED
      BY <3>1, <3>2, <3>4, <3>5
  <2>2. CASE act.call = ""
    <3>1. PICK r : r = Orphaned(calls, closed) /\ r = q
      BY <2>2 DEF q
    <3>2. /\ Len(Orphaned(calls, closed)) = Len(calls)
          /\ \A k \in 1 .. Len(calls) : Orphans(calls[k], Orphaned(calls, closed)[k], closed)
      BY FlagsHold, OrphanedCalls
    <3>3. Len(r) = Len(calls) /\ \A k \in 1 .. Len(calls) : Orphans(calls[k], r[k], closed)
      BY <3>1, <3>2
    <3>9. closed \subseteq ActNames
      BY DEF Closing
    <3> HIDE DEF closed, q
    <3>4. ASSUME NEW j \in 1 .. Len(calls) PROVE Stands(calls[j], r[j], closed)
      <4>1. calls[j] \in Requests /\ Orphans(calls[j], r[j], closed)
        BY <3>3, FlagsHold
      <4>2. calls[j].load => calls[j].name \notin closed
        BY <3>9, <4>1, Described DEF Requests
      <4>3. calls[j].late \in BOOLEAN /\ r[j].late = (calls[j].late \/ calls[j].name \in closed)
        BY <4>1 DEF Orphans, Requests
      <4>4. QED
        BY <4>1, <4>2, <4>3 DEF Orphans, Stands
    <3>5. Len(calls) \in Nat
      BY FlagsHold
    <3>6. \A j \in 1 .. Len(r) : j \in 1 .. Len(calls) /\ j <= Len(calls)
      BY <3>3, <3>5
    <3>7. Len(q) = Len(calls) /\ \A j \in 1 .. Len(q) : j <= Len(calls) /\ Stands(calls[j], q[j], closed)
      BY <3>1, <3>3, <3>4, <3>6
    <3>8. QED
      BY <3>7
  <2>3. QED
    BY <2>1, <2>2
<1>6. PICK g \in [Flags -> {0} \union Ids], p \in Seq(Requests) : g = f /\ p = q
  BY <1>3
<1> HIDE DEF f
<1>15. /\ Len(p) \in {Len(calls), Len(calls) + 1}
       /\ \A j \in 1 .. Len(p) : IF j <= Len(calls) THEN Stands(calls[j], p[j], Closing(S.acts[a].clears)) ELSE p[j] = CallOf(a, o)
  BY <1>6, <1>14
<1>16. \A y \in Flags : g[y] = 0 => flags[y] = 0 \/ y \in act.clears \/ \E b \in ActNames : y \in Busy(b)
  BY <1>6, <1>13
<1>17. drafts' = DraftsAtClick(a, o, sel)
  BY <1>2
<1>7. Settle(ls, at, sel, g, shown, p, {})
  BY <1>2, <1>4, <1>6
<1>8. \A j \in 1 .. Len(p) : \/ \E k \in 1 .. Len(calls) : Heir(calls[k], p[j]) /\ p[j].miss = calls[k].miss
                             \/ act.call # "" /\ p[j] = CallOf(a, o)
  BY <1>5, <1>6
<1>9. \A x \in S.axes : sel[x] # at[x] => x \in S.acts[a].moves
  BY <1>2
<1>10. ls = IF S.acts[a].call = "" THEN Reloads(a) ELSE {}
  BY <1>4
<1>11. Clicks(sel, g, ls, p, a, o)
  BY <1>7, <1>8, <1>9, <1>10, <1>15, <1>16, <1>17 DEF Clicks
<1>12. QED
  BY <1>11

\* The requests for load l.
Out(q, l) == {i \in 1 .. Len(q) : q[i].load /\ q[i].name = l}

\* A click sends no request of its own before Settle, and leaves those that are out as they are.
LEMMA ClickOut ==
  ASSUME TypeOK, NEW sel, NEW f, NEW ls, NEW q, NEW a, NEW o, Clicks(sel, f, ls, q, a, o), NEW l
  PROVE  /\ Out(q, l) = Out(calls, l)
         /\ \A j \in Out(calls, l) : Stands(calls[j], q[j], Closing(S.acts[a].clears)) /\ calls[j].load
<1>1. Len(calls) \in Nat /\ Len(q) \in {Len(calls), Len(calls) + 1}
  BY FlagsHold DEF Clicks
<1>2. \A j \in 1 .. Len(q) : IF j <= Len(calls) THEN Stands(calls[j], q[j], Closing(S.acts[a].clears)) ELSE q[j] = CallOf(a, o)
  BY DEF Clicks
<1>6. ~CallOf(a, o).load
  BY DEF CallOf
<1>3. \A j \in Out(q, l) : j \in 1 .. Len(calls) /\ Stands(calls[j], q[j], Closing(S.acts[a].clears))
  BY <1>1, <1>2, <1>6 DEF Out
<1>4. \A j \in 1 .. Len(calls) : j \in 1 .. Len(q) /\ Stands(calls[j], q[j], Closing(S.acts[a].clears))
  BY <1>1, <1>2
<1>5. QED
  BY <1>3, <1>4 DEF Out, Same, Stands

\* Every request that is left after an answer was out before.
LEMMA LeftHeirs ==
  ASSUME TypeOK, NEW i \in 1 .. Len(calls), NEW q, Left(q, i)
  PROVE  \A j \in 1 .. Len(q) : \E k \in 1 .. Len(calls) : k # i /\ Heir(calls[k], q[j])
<1>1. Len(q) = Len(calls) - 1
  BY DEF Left
<1>2. QED
  BY <1>1 DEF Left, Heir

\* The answer to a read.
LEMMA ReadEach ==
  ASSUME TypeOK, NEW i \in 1 .. Len(calls), Loaded(i) \/ NotLoaded(i)
  PROVE  /\ calls[i] \in Requests /\ calls[i].load
         /\ \E sel, s :
              /\ sel \in Selections
              /\ Settle({}, at, sel, Finished(i), s, Rest(i), {})
              /\ sel \in {Selecting(calls[i]), at}
              /\ s \in {Failed(calls[i]), Received(calls[i], TRUE), Received(calls[i], FALSE)}
         /\ Rest(i) \in Seq(Requests) /\ Finished(i) \in [Flags -> {0} \union Ids] /\ at \in Selections
         /\ {} \in SUBSET LoadNames /\ {} \in SUBSET ActNames
         /\ \A j \in 1 .. Len(Rest(i)) : \E k \in 1 .. Len(calls) : k # i /\ Heir(calls[k], Rest(i)[j])
<1> DEFINE c == calls[i]
<1>1. /\ c \in Requests /\ c.load
      /\ \E sel, s :
              /\ sel \in Selections
              /\ Settle({}, at, sel, Finished(i), s, Rest(i), {})
              /\ sel \in {Selecting(c), at}
              /\ s \in {Failed(c), Received(c, TRUE), Received(c, FALSE)}
  <2>1. CASE Loaded(i)
    <3>1. c \in Requests /\ c.load
      BY <2>1, ResumedType, LoadedStep
    <3>2. PICK stale \in BOOLEAN : Settle({}, at, Selecting(c), Finished(i), Received(c, stale), Rest(i), {})
      BY <2>1, LoadedStep
    <3> HIDE DEF c
    <3>3. Selecting(c) \in Selections
      BY <3>1, ReceivedType
    <3>4. stale = TRUE \/ stale = FALSE
      OBVIOUS
    <3>5. QED
      BY <3>1, <3>2, <3>3, <3>4
  <2>2. CASE NotLoaded(i)
    <3>1. c \in Requests /\ c.load /\ Settle({}, at, at, Finished(i), Failed(c), Rest(i), {})
      BY <2>2, ResumedType DEF NotLoaded
    <3> HIDE DEF c
    <3>2. QED
      BY <3>1, FlagsHold
  <2>3. QED
    BY <2>1, <2>2
<1>2. /\ Rest(i) \in Seq(Requests) /\ Finished(i) \in [Flags -> {0} \union Ids] /\ at \in Selections
      /\ {} \in SUBSET LoadNames /\ {} \in SUBSET ActNames
  BY RestCalls, ResumedType, FlagsHold
<1>3. \A j \in 1 .. Len(Rest(i)) : \E k \in 1 .. Len(calls) : k # i /\ Heir(calls[k], Rest(i)[j])
  BY <1>1, AnswersLeave, LeftHeirs
<1>4. QED
  BY <1>1, <1>2, <1>3

\* The answer to a call.
LEMMA DoneEach ==
  ASSUME TypeOK, NEW i \in 1 .. Len(calls), Done(i)
  PROVE  /\ calls[i] \in Requests /\ ~calls[i].load /\ calls[i].name \in ActNames
         /\ \E sel \in Selections, q \in Seq(Requests), ls \in SUBSET LoadNames, for \in SUBSET ActNames :
              /\ q = Passed(Without(i), calls[i].name) /\ Left(q, i)
              /\ ls = Reloads(calls[i].name)
              /\ for = IF Waits(calls[i]) THEN {calls[i].name} ELSE {}
              /\ Turned(calls[i], sel)
              /\ Settle(ls, Seen(calls[i]), sel, Released(calls[i]), Missing(calls[i], S.acts[calls[i].name]), q, for)
              /\ \A j \in 1 .. Len(q) : \E k \in 1 .. Len(calls) : k # i /\ Heir(calls[k], q[j])
         /\ Seen(calls[i]) \in Selections /\ Released(calls[i]) \in [Flags -> {0} \union Ids]
<1> DEFINE c == calls[i]
<1>1. c \in Requests /\ ~c.load
  BY ResumedType DEF Done
<1>2. PICK sel \in [S.axes -> Ids] :
        /\ Turned(c, sel)
        /\ Settle(Reloads(c.name), Seen(c), sel, Released(c), Missing(c, S.acts[c.name]), Passed(Without(i), c.name),
                  IF Waits(c) THEN {c.name} ELSE {})
  BY DEF Done
<1> HIDE DEF c
<1>3. c.name \in ActNames /\ Seen(c) \in Selections /\ Released(c) \in [Flags -> {0} \union Ids]
  BY <1>1, ActType
<1>4. PICK q : q = Passed(Without(i), c.name) /\ Left(q, i)
  BY <1>3, AnswersLeave
<1>5. PICK ls \in SUBSET LoadNames, for \in SUBSET ActNames :
        ls = Reloads(c.name) /\ for = IF Waits(c) THEN {c.name} ELSE {}
  BY <1>3, ReloadsType
<1>6. Settle(ls, Seen(c), sel, Released(c), Missing(c, S.acts[c.name]), q, for)
  BY <1>2, <1>4, <1>5
<1>7. q \in Seq(Requests) /\ sel \in Selections
  BY <1>4 DEF Left, Selections
<1>8. \A j \in 1 .. Len(q) : \E k \in 1 .. Len(calls) : k # i /\ Heir(calls[k], q[j])
  BY <1>4, LeftHeirs
<1>9. QED
  BY <1>1, <1>2, <1>3, <1>4, <1>5, <1>6, <1>7, <1>8 DEF c

LEMMA NotDoneEach ==
  ASSUME TypeOK, NEW i \in 1 .. Len(calls), NotDone(i)
  PROVE  /\ calls[i] \in Requests /\ ~calls[i].load /\ calls[i].name \in ActNames
         /\ \E q \in Seq(Requests), ls \in SUBSET LoadNames, f \in [Flags -> {0} \union Ids] :
              /\ q = Without(i) /\ Left(q, i)
              /\ ls = IF S.acts[calls[i].name].always THEN Reloads(calls[i].name) ELSE {}
              /\ f = Put(flags, IF calls[i].late THEN {} ELSE Busy(calls[i].name) \ S.acts[calls[i].name].stuck, 0)
              /\ Settle(ls, Seen(calls[i]), at, f, AfterFailure(calls[i], S.acts[calls[i].name]), q, {})
              /\ \A j \in 1 .. Len(q) : \E k \in 1 .. Len(calls) : k # i /\ Heir(calls[k], q[j])
         /\ Seen(calls[i]) \in Selections /\ at \in Selections /\ {} \in SUBSET ActNames
<1> DEFINE c == calls[i]
           act == S.acts[c.name]
           f == Put(flags, IF c.late THEN {} ELSE Busy(c.name) \ act.stuck, 0)
<1>1. c \in Requests /\ ~c.load
  BY ResumedType DEF NotDone
<1>2. Settle(IF act.always THEN Reloads(c.name) ELSE {}, Seen(c), at, f, AfterFailure(c, act), Without(i), {})
  BY DEF NotDone
<1> HIDE DEF c
<1>3. c.name \in ActNames /\ Seen(c) \in Selections
  BY <1>1, ActType
<1>4. f \in [Flags -> {0} \union Ids]
  BY FlagsHold DEF Put, TypeOK
<1>5. PICK q : q = Without(i) /\ Left(q, i)
  BY AnswersLeave
<1>6. PICK ls \in SUBSET LoadNames : ls = IF act.always THEN Reloads(c.name) ELSE {}
  BY <1>3, ReloadsType
<1>7. PICK g \in [Flags -> {0} \union Ids] : g = f
  BY <1>4
<1>8. Settle(ls, Seen(c), at, g, AfterFailure(c, act), q, {})
  BY <1>2, <1>5, <1>6, <1>7
<1>9. q \in Seq(Requests)
  BY <1>5 DEF Left
<1>10. \A j \in 1 .. Len(q) : \E k \in 1 .. Len(calls) : k # i /\ Heir(calls[k], q[j])
  BY <1>5, LeftHeirs
<1>11. QED
  BY <1>1, <1>3, <1>5, <1>6, <1>7, <1>8, <1>9, <1>10, FlagsHold DEF c
-----------------------------------------------------------------------------
(* Who is called, and who waits: handlers that say so, for the loads they  *)
(* ask for.                                                                *)

Founded(c) ==
  /\ ~c.load => S.acts[c.name].call # ""
  /\ \A a \in c.for : c.load /\ S.acts[a].awaits /\ c.name \in Reloads(a)
AllFounded == \A i \in 1 .. Len(calls) : Founded(calls[i])

LEMMA FoundedSettle ==
  ASSUME TypeOK, NEW ls \in SUBSET LoadNames, NEW was \in Selections, NEW a \in Selections,
         NEW f, NEW s, NEW q0 \in Seq(Requests), NEW for \in SUBSET ActNames,
         Settle(ls, was, a, f, s, q0, for),
         \A j \in 1 .. Len(q0) : Founded(q0[j]),
         \A b \in for : S.acts[b].awaits /\ ls \subseteq Reloads(b)
  PROVE  \A i \in 1 .. Len(calls') : Founded(calls'[i])
<1>1. PICK J, new : J = {l \in ls : Joinable(l, a)} /\ new = New(ls, a, f)
  OBVIOUS
<1>2. PICK q1 : q1 = calls'
  OBVIOUS
<1>3. \A i \in 1 .. Len(q1) :
        \/ \E j \in 1 .. Len(q0) : Becomes(q0[j], q1[i], J, new, a, for)
        \/ \E l \in new : IsSent(q1[i], l, ls, was, a, for)
  BY <1>1, <1>2, SettledEach
<1>4. ASSUME NEW i \in 1 .. Len(q1), NEW b \in q1[i].for
      PROVE  q1[i].load /\ S.acts[b].awaits /\ q1[i].name \in Reloads(b)
  <2>1. CASE \E j \in 1 .. Len(q0) : Becomes(q0[j], q1[i], J, new, a, for)
    <3>1. PICK j \in 1 .. Len(q0) : Becomes(q0[j], q1[i], J, new, a, for)
      BY <2>1
    <3>2. CASE b \in q0[j].for
      BY <3>1, <3>2 DEF Becomes, Founded
    <3>3. CASE b \notin q0[j].for
      <4>1. b \in for /\ \E l \in J : Joins(l, q0[j])
        BY <1>4, <3>1, <3>3 DEF Becomes
      <4>2. PICK l \in J : Joins(l, q0[j])
        BY <4>1
      <4>3. q0[j].load /\ q0[j].name = l /\ l \in ls
        BY <1>1, <4>2 DEF Joins
      <4>4. q1[i].load = q0[j].load /\ q1[i].name = q0[j].name
        BY <3>1 DEF Becomes
      <4>5. QED
        BY <4>1, <4>3, <4>4
    <3>4. QED
      BY <3>2, <3>3
  <2>2. CASE \E l \in new : IsSent(q1[i], l, ls, was, a, for)
    BY <1>4, <2>2 DEF IsSent
  <2>3. QED
    BY <1>3, <2>1, <2>2
<1>5. ASSUME NEW i \in 1 .. Len(q1), ~q1[i].load PROVE S.acts[q1[i].name].call # ""
  <2>1. ~ \E l \in new : IsSent(q1[i], l, ls, was, a, for)
    BY <1>5 DEF IsSent
  <2>2. PICK j \in 1 .. Len(q0) : Becomes(q0[j], q1[i], J, new, a, for)
    BY <1>3, <2>1
  <2>3. QED
    BY <1>5, <2>2 DEF Becomes, Founded
<1>6. QED
  BY <1>2, <1>4, <1>5 DEF Founded

LEMMA HeirFounded ==
  ASSUME NEW c, NEW d, Heir(c, d), Founded(c)
  PROVE  Founded(d)
<1>1. d.name = c.name /\ d.load = c.load /\ d.for \subseteq c.for
  BY DEF Heir, Same
<1>2. ~d.load => S.acts[d.name].call # ""
  BY <1>1 DEF Founded
<1>3. \A a \in d.for : d.load /\ S.acts[a].awaits /\ d.name \in Reloads(a)
  BY <1>1 DEF Founded
<1>4. QED
  BY <1>2, <1>3 DEF Founded

LEMMA FoundedNext == TypeOK /\ AllFounded /\ [Next]_vars => AllFounded'
<1> SUFFICES ASSUME TypeOK, AllFounded, [Next]_vars PROVE AllFounded'
  OBVIOUS
<1>1. scr' = scr
  BY DEF Next, Click, Background, Answer, Loaded, NotLoaded, Done, NotDone, vars
<1>2. S' = S /\ LoadNames' = LoadNames /\ ActNames' = ActNames
  BY <1>1, SameScreen
<1>3. SUFFICES \A i \in 1 .. Len(calls') : Founded(calls'[i])
  BY <1>2 DEF AllFounded, Founded, Reloads, Reading
<1>4. at \in Selections /\ {} \in SUBSET ActNames
  BY FlagsHold
<1>5. ASSUME NEW a \in ActNames, NEW o \in Objects(a), Click(a, o)
      PROVE  \A i \in 1 .. Len(calls') : Founded(calls'[i])
  <2>1. PICK sel \in Selections, f \in [Flags -> {0} \union Ids], ls \in SUBSET LoadNames, q \in Seq(Requests) :
          Clicks(sel, f, ls, q, a, o)
    BY <1>5, ClickEach
  <2>2. CallOf(a, o).for = {} /\ CallOf(a, o).name = a
    BY DEF CallOf
  <2>3. S.acts[a].call # "" => Founded(CallOf(a, o))
    BY <2>2 DEF Founded
  <2>4. \A j \in 1 .. Len(q) : Founded(q[j])
    BY <2>1, <2>3, HeirFounded DEF Clicks, AllFounded
  <2>5. QED
    BY <1>4, <2>1, <2>4, FoundedSettle DEF Clicks
<1>6. ASSUME NEW l \in LoadNames, Background(l)
      PROVE  \A i \in 1 .. Len(calls') : Founded(calls'[i])
  <2>1. Settle({l}, at, at, flags, shown, calls, {})
    BY <1>6 DEF Background
  <2>2. QED
    BY <1>4, <2>1, FlagsHold, FoundedSettle DEF AllFounded
<1>7. ASSUME NEW i \in 1 .. Len(calls), Loaded(i) \/ NotLoaded(i)
      PROVE  \A j \in 1 .. Len(calls') : Founded(calls'[j])
  <2>1. PICK sel, s : sel \in Selections /\ Settle({}, at, sel, Finished(i), s, Rest(i), {})
    BY <1>7, ReadEach
  <2>2. Rest(i) \in Seq(Requests) /\ {} \in SUBSET LoadNames
    BY <1>7, ReadEach
  <2>3. \A j \in 1 .. Len(Rest(i)) : \E k \in 1 .. Len(calls) : Heir(calls[k], Rest(i)[j])
    BY <1>7, ReadEach
  <2>4. \A j \in 1 .. Len(Rest(i)) : Founded(Rest(i)[j])
    BY <2>3, HeirFounded DEF AllFounded
  <2>5. QED
    BY <1>4, <2>1, <2>2, <2>4, FoundedSettle
<1>8. ASSUME NEW i \in 1 .. Len(calls), Done(i)
      PROVE  \A j \in 1 .. Len(calls') : Founded(calls'[j])
  <2>1. PICK sel \in Selections, q \in Seq(Requests), ls \in SUBSET LoadNames, for \in SUBSET ActNames :
              /\ ls = Reloads(calls[i].name)
              /\ for = IF Waits(calls[i]) THEN {calls[i].name} ELSE {}
              /\ Settle(ls, Seen(calls[i]), sel, Released(calls[i]), Missing(calls[i], S.acts[calls[i].name]), q, for)
              /\ \A j \in 1 .. Len(q) : \E k \in 1 .. Len(calls) : k # i /\ Heir(calls[k], q[j])
    BY <1>8, DoneEach
  <2>2. Seen(calls[i]) \in Selections
    BY <1>8, DoneEach
  <2>3. \A j \in 1 .. Len(q) : Founded(q[j])
    BY <2>1, HeirFounded DEF AllFounded
  <2>4. \A b \in for : S.acts[b].awaits /\ ls \subseteq Reloads(b)
    BY <2>1 DEF Waits
  <2>5. QED
    BY <2>1, <2>2, <2>3, <2>4, FoundedSettle
<1>9. ASSUME NEW i \in 1 .. Len(calls), NotDone(i)
      PROVE  \A j \in 1 .. Len(calls') : Founded(calls'[j])
  <2>1. PICK q \in Seq(Requests), ls \in SUBSET LoadNames, f \in [Flags -> {0} \union Ids] :
              /\ Settle(ls, Seen(calls[i]), at, f, AfterFailure(calls[i], S.acts[calls[i].name]), q, {})
              /\ \A j \in 1 .. Len(q) : \E k \in 1 .. Len(calls) : k # i /\ Heir(calls[k], q[j])
    BY <1>9, NotDoneEach
  <2>2. Seen(calls[i]) \in Selections
    BY <1>9, NotDoneEach
  <2>3. \A j \in 1 .. Len(q) : Founded(q[j])
    BY <2>1, HeirFounded DEF AllFounded
  <2>4. QED
    BY <1>4, <2>1, <2>2, <2>3, FoundedSettle
<1>10. CASE UNCHANGED vars
  BY <1>10 DEF vars, AllFounded
<1>11. QED
  BY <1>5, <1>6, <1>7, <1>8, <1>9, <1>10, Steps

\* The requests of a screen as it is mounted.
LEMMA MountCalls ==
  ASSUME Init
  PROVE  \A i \in 1 .. Len(calls) : \E l \in Mounted : calls[i] = Request(l, 1, {})
<1> DEFINE T == {Request(l, 1, {}) : l \in Mounted}
<1>1. calls = SetToSeq(T) /\ TypeOK
  BY InitType DEF Init
<1>2. IsFiniteSet(T)
  BY <1>1, Described, MountedFinite
<1> HIDE DEF T
<1>3. calls \in Seq(T)
  BY <1>1, <1>2, Listed
<1>4. \A i \in 1 .. Len(calls) : calls[i] \in T
  BY <1>3
<1>5. QED
  BY <1>4 DEF T

LEMMA FoundedInit == Init => AllFounded
<1> SUFFICES ASSUME Init, NEW i \in 1 .. Len(calls) PROVE Founded(calls[i])
  BY DEF AllFounded
<1>1. PICK c : c = calls[i]
  OBVIOUS
<1>2. PICK l : c = Request(l, 1, {})
  BY <1>1, MountCalls
<1>3. c.for = {} /\ c.load
  BY <1>2 DEF Request
<1>4. QED
  BY <1>1, <1>3 DEF Founded

\* Only a handler that calls has a call out; only answers to reads let a handler go on, and only
\* one that waits for what they read.
THEOREM RequestsFounded == Spec => []AllFounded
BY TypeCorrect, FoundedInit, FoundedNext, PTL DEF Spec
-----------------------------------------------------------------------------
(* Pending flags and calls.                                                *)

LEMMA HeldNotDone ==
  ASSUME TypeOK, NEW x \in Flags, Pending(x), Held(calls, flags, x), AllFounded, NEW i \in 1 .. Len(calls), NotDone(i)
  PROVE  Held(calls', flags', x)
<1> DEFINE c == calls[i]
           act == S.acts[c.name]
<1>1. PICK q \in Seq(Requests), ls \in SUBSET LoadNames, f \in [Flags -> {0} \union Ids] :
              /\ Left(q, i)
              /\ f = Put(flags, IF c.late THEN {} ELSE Busy(c.name) \ act.stuck, 0)
              /\ Settle(ls, Seen(c), at, f, AfterFailure(c, act), q, {})
  BY NotDoneEach
<1>2. ~c.load /\ c.name \in ActNames /\ Seen(c) \in Selections /\ at \in Selections /\ {} \in SUBSET ActNames
  BY NotDoneEach
<1>3. c.for = {}
  BY <1>2 DEF AllFounded, Founded
<1>4. ASSUME f[x] # 0 PROVE \E j \in 1 .. Len(q) : Holds(q[j], x)
  <2>1. flags[x] # 0 /\ (c.late \/ x \notin Busy(c.name))
    BY <1>1, <1>2, <1>4, FlagsHold DEF Put, Pending
  <2>2. PICK k \in 1 .. Len(calls) : Holds(calls[k], x)
    BY <2>1 DEF Held
  <2>3. k # i
    BY <1>2, <1>3, <2>1, <2>2 DEF Holds
  <2>4. QED
    BY <1>1, <2>2, <2>3, LeftHold
<1>5. Held(q, f, x)
  BY <1>4 DEF Held
<1>6. QED
  BY <1>1, <1>2, <1>5, HeldSettle

\* A handler that waits finds a load to wait for.
LEMMA WaitsFor ==
  ASSUME TypeOK, NEW i \in 1 .. Len(calls), ~calls[i].load, calls[i].name \in ActNames, Waits(calls[i]),
         \A l \in Reloads(calls[i].name) : S.acts[calls[i].name].okClears \intersect S.loads[l].needs = {},
         NEW sel, NEW q, Left(q, i)
  PROVE  \E l \in Reloads(calls[i].name) :
           \/ l \in New(Reloads(calls[i].name), sel, Released(calls[i]))
           \/ Joinable(l, sel) /\ \E j \in 1 .. Len(q) : Joins(l, q[j])
<1> DEFINE c == calls[i]
           act == S.acts[c.name]
           ls == Reloads(c.name)
<1>1. PICK l \in ls : l \in LoadNames /\ Enabled(l, flags)
  BY DEF Waits, Wanted, Moved
<1>2. S.loads[l].needs \subseteq Flags
  <2> DEFINE F(k) == S.loads[k].busy \union S.loads[k].needs
             G(a) == UNION {S.acts[a].need, S.acts[a].unless, S.acts[a].unlessMe,
                            S.acts[a].sets, S.acts[a].setsMe, S.acts[a].clears,
                            S.acts[a].okSets, S.acts[a].okClears, Busy(a)}
  <2>1. Flags = UNION ({S.on} \union {F(k) : k \in LoadNames} \union {G(a) : a \in ActNames})
    BY DEF Flags
  <2>2. S.loads[l].needs \subseteq F(l)
    OBVIOUS
  <2> HIDE DEF F, G
  <2>3. QED
    BY <1>1, <2>1, <2>2
<1>3. \A x \in S.loads[l].needs : x \notin act.okClears
  BY <1>1
<1>4. \A x \in S.loads[l].needs : Released(c)[x] # 0
  BY <1>1, <1>2, <1>3, FlagsHold DEF Released, Own, Enabled
<1>5. l \in Wanted(ls, sel, Released(c))
  BY <1>1, <1>4 DEF Wanted, Enabled
<1>6. CASE ~Joinable(l, sel)
  <2>1. l \in New(ls, sel, Released(c))
    BY <1>5, <1>6 DEF New
  <2>2. QED
    BY <1>1, <2>1
<1>7. CASE Joinable(l, sel)
  <2>1. PICK k \in 1 .. Len(calls) : Joins(l, calls[k])
    BY <1>7 DEF Joinable
  <2>2. k # i
    BY <2>1 DEF Joins
  <2>3. Len(calls) \in Nat /\ Len(q) = Len(calls) - 1
    BY FlagsHold DEF Left
  <2>4. PICK j \in 1 .. Len(calls) - 1 : Place(i, j) = k
    BY <2>2, <2>3, PlaceOnto
  <2>5. /\ Same(calls[k], q[j])
        /\ q[j].late => calls[k].late \/ calls[i].load
    BY <2>4 DEF Left
  <2>6. Joins(l, q[j])
    BY <2>1, <2>5 DEF Same, Joins
  <2>7. QED
    BY <1>1, <1>7, <2>3, <2>4, <2>6
<1>8. QED
  BY <1>6, <1>7

LEMMA HeldDone ==
  ASSUME TypeOK, NEW x \in Flags, Pending(x), Held(calls, flags, x), AllFounded, NEW i \in 1 .. Len(calls), Done(i)
  PROVE  Held(calls', flags', x)
<1> DEFINE c == calls[i]
           act == S.acts[c.name]
<1>1. PICK sel \in Selections, q \in Seq(Requests), ls \in SUBSET LoadNames, for \in SUBSET ActNames :
              /\ Left(q, i)
              /\ ls = Reloads(c.name)
              /\ for = IF Waits(c) THEN {c.name} ELSE {}
              /\ Settle(ls, Seen(c), sel, Released(c), Missing(c, act), q, for)
  BY DoneEach
<1>2. /\ ~c.load /\ c.name \in ActNames /\ Seen(c) \in Selections
      /\ Released(c) \in [Flags -> {0} \union Ids]
  BY DoneEach
<1>3. c.for = {}
  BY <1>2 DEF AllFounded, Founded
<1>4. CASE x \in Busy(c.name) /\ Waits(c)
  <2>1. \A l \in Reloads(c.name) : act.okClears \intersect S.loads[l].needs = {}
    BY <1>2, <1>4 DEF Pending, Waits
  <2>2. \E l \in ls : \/ l \in New(ls, sel, Released(c))
                      \/ Joinable(l, sel) /\ \E j \in 1 .. Len(q) : Joins(l, q[j])
    BY <1>1, <1>2, <1>4, <2>1, WaitsFor
  <2>3. \E b \in for : x \in Busy(b)
    BY <1>1, <1>4
  <2>4. QED
    BY <1>1, <1>2, <2>2, <2>3, HeldSettle
<1>5. CASE ~ (x \in Busy(c.name) /\ Waits(c))
  <2>1. ASSUME Released(c)[x] # 0 PROVE \E j \in 1 .. Len(q) : Holds(q[j], x)
    <3>1. x \notin act.okSets
      BY <1>2 DEF Pending
    <3>2. flags[x] # 0 /\ (c.late \/ x \notin Busy(c.name))
      BY <1>2, <1>5, <2>1, <3>1, FlagsHold DEF Released, Own
    <3>3. PICK k \in 1 .. Len(calls) : Holds(calls[k], x)
      BY <3>2 DEF Held
    <3>4. k # i
      BY <1>2, <1>3, <3>2, <3>3 DEF Holds
    <3>5. QED
      BY <1>1, <3>3, <3>4, LeftHold
  <2>2. Held(q, Released(c), x)
    BY <2>1 DEF Held
  <2>3. QED
    BY <1>1, <1>2, <2>2, HeldSettle
<1>6. QED
  BY <1>4, <1>5

\* Every pending flag that is on has its request.
AllHeld == \A x \in Flags : Pending(x) => Held(calls, flags, x)

LEMMA HeldNext == TypeOK /\ AllFounded /\ AllHeld /\ [Next]_vars => AllHeld'
<1> SUFFICES ASSUME TypeOK, AllFounded, AllHeld, [Next]_vars PROVE AllHeld'
  OBVIOUS
<1>1. scr' = scr
  BY DEF Next, Click, Background, Answer, Loaded, NotLoaded, Done, NotDone, vars
<1>2. S' = S /\ Flags' = Flags /\ ActNames' = ActNames /\ LoadNames' = LoadNames
  BY <1>1, SameScreen
<1>3. \A x : Pending(x)' <=> Pending(x)
  BY <1>2 DEF Pending, Busy, Reloads, Reading
<1> SUFFICES ASSUME NEW x \in Flags, Pending(x) PROVE Held(calls, flags, x)'
  BY <1>2, <1>3 DEF AllHeld
<1>5. Held(calls, flags, x)
  BY DEF AllHeld
<1>6. Held(calls', flags', x)
  <2>1. CASE UNCHANGED vars
    BY <1>5, <2>1 DEF vars
  <2>2. QED
    BY <1>5, <2>1, Steps, HeldClick, HeldBackground, HeldLoaded, HeldDone, HeldNotDone
<1>7. QED
  BY <1>2, <1>6 DEF Held, Holds, Busy

LEMMA InitHeld == Init => AllHeld
BY HeldInit DEF AllHeld

THEOREM FlagsAreHeld == Spec => []AllHeld
BY TypeCorrect, RequestsFounded, InitHeld, HeldNext, PTL DEF Spec

\* On a screen whose pending flags are turned on by requests only, no flag stays on once they are
\* all answered: not after a failure, a dialog closed in between, or an answer overtaken.
THEOREM NoneStuck == Spec => [](Turning => NothingStuck)
<1>1. TypeOK /\ AllHeld => (Turning => NothingStuck)
  <2> SUFFICES ASSUME TypeOK, AllHeld, Turning, calls = <<>>, NEW x \in Flags, Pending(x) PROVE flags[x] = 0
    BY BusyFlags DEF NothingStuck, Turning
  <2>1. Held(calls, flags, x)
    BY DEF AllHeld
  <2>2. QED
    BY <2>1 DEF Held
<1>2. QED
  BY <1>1, TypeCorrect, FlagsAreHeld, PTL
-----------------------------------------------------------------------------
(* Axes that are never moved stay on their first object.                   *)

\* What a handler that is out saw, it saw of the first object of x.
SawFirst(c, x) == c.was # <<>> => c.was[x] = 1
First(x) == at[x] = 1 /\ \A i \in 1 .. Len(calls) : SawFirst(calls[i], x)
StaysFirst == \A x \in S.axes : Steady(x) => First(x)

LEMMA FirstSettle ==
  ASSUME TypeOK, NEW ls \in SUBSET LoadNames, NEW was \in Selections, NEW a \in Selections,
         NEW f, NEW s, NEW q0 \in Seq(Requests), NEW for \in SUBSET ActNames,
         Settle(ls, was, a, f, s, q0, for),
         NEW x \in S.axes, a[x] = 1, \A j \in 1 .. Len(q0) : SawFirst(q0[j], x)
  PROVE  at'[x] = 1 /\ \A i \in 1 .. Len(calls') : SawFirst(calls'[i], x)
<1>1. PICK q1, J, new : q1 = calls' /\ J = {l \in ls : Joinable(l, a)} /\ new = New(ls, a, f)
  OBVIOUS
<1>2. \A i \in 1 .. Len(q1) :
        \/ \E j \in 1 .. Len(q0) : Becomes(q0[j], q1[i], J, new, a, for)
        \/ \E l \in new : IsSent(q1[i], l, ls, was, a, for)
  BY <1>1, SettledEach
<1>3. ASSUME NEW i \in 1 .. Len(q1) PROVE SawFirst(q1[i], x)
  <2>1. CASE \E j \in 1 .. Len(q0) : Becomes(q0[j], q1[i], J, new, a, for)
    BY <2>1 DEF Becomes, SawFirst
  <2>2. CASE \E l \in new : IsSent(q1[i], l, ls, was, a, for)
    BY <2>2 DEF IsSent, SawFirst
  <2>3. QED
    BY <1>2, <2>1, <2>2
<1>4. at' = a
  BY DEF Settle
<1>5. QED
  BY <1>1, <1>3, <1>4

LEMMA HeirFirst ==
  ASSUME NEW c, NEW d, Heir(c, d), NEW x, SawFirst(c, x)
  PROVE  SawFirst(d, x)
BY DEF Heir, Same, SawFirst

LEMMA FirstNext ==
  ASSUME TypeOK, NEW x \in S.axes, Steady(x), First(x), Next
  PROVE  at'[x] = 1 /\ \A i \in 1 .. Len(calls') : SawFirst(calls'[i], x)
<1> DEFINE Goal == at'[x] = 1 /\ \A i \in 1 .. Len(calls') : SawFirst(calls'[i], x)
<1>1. at \in Selections /\ {} \in SUBSET ActNames /\ at[x] = 1
  BY FlagsHold DEF First
<1>2. ASSUME NEW a \in ActNames, NEW o \in Objects(a), Click(a, o) PROVE Goal
  <2>1. PICK sel \in Selections, f \in [Flags -> {0} \union Ids], ls \in SUBSET LoadNames, q \in Seq(Requests) :
          Clicks(sel, f, ls, q, a, o)
    BY <1>2, ClickEach
  <2>2. sel[x] = 1
    BY <1>1, <2>1 DEF Clicks, Steady
  <2>3. SawFirst(CallOf(a, o), x)
    BY <1>1 DEF CallOf, SawFirst
  <2>4. \A j \in 1 .. Len(q) : SawFirst(q[j], x)
    BY <2>1, <2>3, HeirFirst DEF Clicks, First
  <2>5. QED
    BY <1>1, <2>1, <2>2, <2>4, FirstSettle DEF Clicks
<1>3. ASSUME NEW l \in LoadNames, Background(l) PROVE Goal
  <2>1. Settle({l}, at, at, flags, shown, calls, {})
    BY <1>3 DEF Background
  <2>2. QED
    BY <1>1, <2>1, FlagsHold, FirstSettle DEF First
<1>4. ASSUME NEW i \in 1 .. Len(calls), Loaded(i) \/ NotLoaded(i) PROVE Goal
  <2>1. PICK sel, s :
          /\ sel \in Selections
          /\ Settle({}, at, sel, Finished(i), s, Rest(i), {})
          /\ sel \in {Selecting(calls[i]), at}
    BY <1>4, ReadEach
  <2>2. Rest(i) \in Seq(Requests) /\ {} \in SUBSET LoadNames /\ calls[i] \in Requests /\ calls[i].load
    BY <1>4, ReadEach
  <2>3. calls[i].name \in LoadNames
    BY <2>2 DEF Requests
  <2>4. sel[x] = 1
    BY <1>1, <2>1, <2>3 DEF Selecting, Steady
  <2>5. \A j \in 1 .. Len(Rest(i)) : \E k \in 1 .. Len(calls) : Heir(calls[k], Rest(i)[j])
    BY <1>4, ReadEach
  <2>6. \A j \in 1 .. Len(Rest(i)) : SawFirst(Rest(i)[j], x)
    BY <2>5, HeirFirst DEF First
  <2>7. QED
    BY <1>1, <2>1, <2>2, <2>4, <2>6, FirstSettle
<1>5. ASSUME NEW i \in 1 .. Len(calls), Done(i) PROVE Goal
  <2>1. PICK sel \in Selections, q \in Seq(Requests), ls \in SUBSET LoadNames, for \in SUBSET ActNames :
              /\ Turned(calls[i], sel)
              /\ Settle(ls, Seen(calls[i]), sel, Released(calls[i]), Missing(calls[i], S.acts[calls[i].name]), q, for)
              /\ \A j \in 1 .. Len(q) : \E k \in 1 .. Len(calls) : k # i /\ Heir(calls[k], q[j])
    BY <1>5, DoneEach
  <2>2. Seen(calls[i]) \in Selections /\ calls[i].name \in ActNames
    BY <1>5, DoneEach
  <2>3. sel[x] = 1
    BY <1>1, <2>1, <2>2 DEF Turned, Own, Steady
  <2>4. \A j \in 1 .. Len(q) : SawFirst(q[j], x)
    BY <2>1, HeirFirst DEF First
  <2>5. QED
    BY <2>1, <2>2, <2>3, <2>4, FirstSettle
<1>6. ASSUME NEW i \in 1 .. Len(calls), NotDone(i) PROVE Goal
  <2>1. PICK q \in Seq(Requests), ls \in SUBSET LoadNames, f \in [Flags -> {0} \union Ids] :
              /\ Settle(ls, Seen(calls[i]), at, f, AfterFailure(calls[i], S.acts[calls[i].name]), q, {})
              /\ \A j \in 1 .. Len(q) : \E k \in 1 .. Len(calls) : k # i /\ Heir(calls[k], q[j])
    BY <1>6, NotDoneEach
  <2>2. Seen(calls[i]) \in Selections
    BY <1>6, NotDoneEach
  <2>3. \A j \in 1 .. Len(q) : SawFirst(q[j], x)
    BY <2>1, HeirFirst DEF First
  <2>4. QED
    BY <1>1, <2>1, <2>2, <2>3, FirstSettle
<1>7. QED
  BY <1>2, <1>3, <1>4, <1>5, <1>6 DEF Next, Answer

LEMMA StaysFirstNext == TypeOK /\ StaysFirst /\ [Next]_vars => StaysFirst'
<1> SUFFICES ASSUME TypeOK, StaysFirst, [Next]_vars PROVE StaysFirst'
  OBVIOUS
<1>1. scr' = scr
  BY DEF Next, Click, Background, Answer, Loaded, NotLoaded, Done, NotDone, vars
<1>2. S' = S /\ ActNames' = ActNames /\ LoadNames' = LoadNames
  BY <1>1, SameScreen
<1>3. \A x : Steady(x)' <=> Steady(x)
  BY <1>2 DEF Steady
<1> SUFFICES ASSUME NEW x \in S.axes, Steady(x) PROVE First(x)'
  BY <1>2, <1>3 DEF StaysFirst
<1>4. First(x)
  BY DEF StaysFirst
<1>5. CASE UNCHANGED vars
  BY <1>4, <1>5 DEF First, vars
<1>6. CASE Next
  BY <1>4, <1>6, FirstNext DEF First
<1>7. QED
  BY <1>5, <1>6

LEMMA StaysFirstInit == Init => StaysFirst
<1> SUFFICES ASSUME Init, NEW x \in S.axes PROVE First(x)
  BY DEF StaysFirst
<1>1. at[x] = 1
  BY DEF Init
<1>2. ASSUME NEW i \in 1 .. Len(calls) PROVE SawFirst(calls[i], x)
  <2>1. PICK c : c = calls[i]
    OBVIOUS
  <2>2. PICK l : c = Request(l, 1, {})
    BY <2>1, MountCalls
  <2>3. c.was = <<>>
    BY <2>2 DEF Request
  <2>4. QED
    BY <2>1, <2>3 DEF SawFirst
<1>3. QED
  BY <1>1, <1>2 DEF First

THEOREM SteadyStays == Spec => []StaysFirst
BY TypeCorrect, StaysFirstInit, StaysFirstNext, PTL DEF Spec
-----------------------------------------------------------------------------
(* Loads that are certain of their object.                                 *)

\* What is shown is of the object selected, and so is what is out and will be shown.
For(c, l, o) == c.load /\ c.name = l /\ (S.loads[l].keyed => ~c.late) => c.obj = o
OfSelected(l) ==
  /\ shown[l].key \in {0, Key(l, at)}
  /\ \A i \in 1 .. Len(calls) : For(calls[i], l, Key(l, at))
AllCertain == \A l \in LoadNames : Certain(l) => OfSelected(l)

LEMMA CertainSettle ==
  ASSUME TypeOK, NEW ls \in SUBSET LoadNames, NEW was \in Selections, NEW a \in Selections,
         NEW f, NEW s, NEW q0 \in Seq(Requests), NEW for \in SUBSET ActNames,
         Settle(ls, was, a, f, s, q0, for),
         NEW l \in LoadNames,
         \/ S.loads[l].keyed /\ ~S.loads[l].fixed
         \/ Key(l, a) = Key(l, at) /\ Key(l, was) = Key(l, at),
         s[l].key \in {0, Key(l, at)}, \A j \in 1 .. Len(q0) : For(q0[j], l, Key(l, at))
  PROVE  /\ shown'[l].key \in {0, Key(l, at')}
         /\ \A i \in 1 .. Len(calls') : For(calls'[i], l, Key(l, at'))
<1>1. PICK q1, J, new : q1 = calls' /\ J = {k \in ls : Joinable(k, a)} /\ new = New(ls, a, f)
  OBVIOUS
<1>2. \A i \in 1 .. Len(q1) :
        \/ \E j \in 1 .. Len(q0) : Becomes(q0[j], q1[i], J, new, a, for)
        \/ \E k \in new : IsSent(q1[i], k, ls, was, a, for)
  BY <1>1, SettledEach
<1>3. at' = a
  BY DEF Settle
<1>4. ASSUME NEW i \in 1 .. Len(q1) PROVE For(q1[i], l, Key(l, a))
  <2>1. CASE \E j \in 1 .. Len(q0) : Becomes(q0[j], q1[i], J, new, a, for)
    <3>1. PICK j \in 1 .. Len(q0) : Becomes(q0[j], q1[i], J, new, a, for)
      BY <2>1
    <3> SUFFICES ASSUME q1[i].load, q1[i].name = l, S.loads[l].keyed => ~q1[i].late
                 PROVE  q1[i].obj = Key(l, a)
      BY DEF For
    <3>2. q0[j].load /\ q0[j].name = l /\ q0[j].obj = q1[i].obj /\ (S.loads[l].keyed => ~q0[j].late)
      BY <3>1 DEF Becomes
    <3>3. q0[j].obj = Key(l, at)
      BY <3>2 DEF For
    <3>4. S.loads[l].keyed => ~Moved(l, a)
      BY <3>1, <3>2 DEF Becomes, Outdated
    <3>5. Key(l, a) = Key(l, at)
      BY <3>4 DEF Moved
    <3>6. QED
      BY <3>2, <3>3, <3>5
  <2>2. CASE \E k \in new : IsSent(q1[i], k, ls, was, a, for)
    BY <2>2 DEF IsSent, For
  <2>3. QED
    BY <1>2, <2>1, <2>2
<1>5. shown'[l].key \in {0, Key(l, a)}
  <2>1. shown'[l] = IF \/ Moved(l, a) /\ S.loads[l].keyed
                       \/ l \in new /\ S.loads[l].blank
                    THEN Nothing ELSE s[l]
    BY <1>1 DEF Settle
  <2>2. Nothing.key = 0
    BY DEF Nothing
  <2>3. PICK v : v = shown'[l]
    OBVIOUS
  <2>4. CASE Moved(l, a) /\ S.loads[l].keyed
    <3>1. v = Nothing
      BY <2>1, <2>3, <2>4
    <3>2. QED
      BY <2>2, <2>3, <3>1
  <2>5. CASE ~ (Moved(l, a) /\ S.loads[l].keyed)
    <3>1. Key(l, a) = Key(l, at)
      BY <2>5 DEF Moved
    <3>2. v = Nothing \/ v = s[l]
      BY <2>1, <2>3
    <3>3. v.key \in {0, Key(l, at)}
      BY <2>2, <3>2
    <3>4. QED
      BY <2>3, <3>1, <3>3
  <2>6. QED
    BY <2>4, <2>5
<1>6. QED
  BY <1>1, <1>3, <1>4, <1>5

\* Whose object the answer to a read, and its failure, leave on the screen.
Reads(s, c, l) ==
  \/ s[l].key \in {0, shown[l].key}
  \/ l = c.name /\ ~Dropped(c) /\ s[l].key = c.obj
LEMMA ReadKeys ==
  ASSUME TypeOK, NEW c \in Requests, c.load, NEW l \in LoadNames,
         NEW s, s \in {Failed(c), Received(c, TRUE), Received(c, FALSE)}
  PROVE  Reads(s, c, l)
<1> SUFFICES \/ s[l].key \in {0, shown[l].key}
             \/ l = c.name /\ ~Dropped(c) /\ s[l].key = c.obj
  BY DEF Reads
<1>1. c.name \in LoadNames /\ DOMAIN shown = LoadNames
  BY DEF Requests, TypeOK
<1>2. shown[l] \in [key : {0} \union Ids, miss : {"late", "failed"} \union Misses]
  BY DEF TypeOK
<1>3. ASSUME NEW stale \in BOOLEAN, s = Received(c, stale)
      PROVE  s[l].key = shown[l].key \/ (l = c.name /\ ~Dropped(c) /\ s[l].key = c.obj)
  BY <1>1, <1>3 DEF Received
<1>4. CASE s = Failed(c)
  BY <1>1, <1>2, <1>4 DEF Failed, Nothing
<1>5. QED
  BY <1>3, <1>4

\* A write changes what is missed, not whose it is.
LEMMA WriteKeys ==
  ASSUME TypeOK, NEW c \in Requests, ~c.load, NEW l \in LoadNames
  PROVE  /\ Missing(c, S.acts[c.name])[l].key = shown[l].key
         /\ AfterFailure(c, S.acts[c.name])[l].key = shown[l].key
         /\ shown[l].miss = "failed" => /\ Missing(c, S.acts[c.name])[l].miss = "failed"
                                        /\ AfterFailure(c, S.acts[c.name])[l].miss = "failed"
<1>1. shown[l] \in [key : {0} \union Ids, miss : {"late", "failed"} \union Misses]
  BY DEF TypeOK
<1>2. \A w : Old(shown[l], w).key = shown[l].key /\ (shown[l].miss = "failed" => Old(shown[l], w).miss = "failed")
  BY <1>1 DEF Old
<1>3. QED
  BY <1>2 DEF Missing, AfterFailure

\* The key of a load whose axis is steady does not move.
LEMMA SteadyKey ==
  ASSUME TypeOK, StaysFirst, StaysFirst', S' = S, NEW l \in LoadNames,
         S.loads[l].by = "" \/ Steady(S.loads[l].by)
  PROVE  /\ Key(l, at) = 1 /\ Key(l, at') = 1
         /\ \A i \in 1 .. Len(calls) : Key(l, Seen(calls[i])) = 1
<1>1. CASE S.loads[l].by = ""
  BY <1>1 DEF Key
<1>2. CASE S.loads[l].by # ""
  <2>1. S.loads[l].by \in S.axes /\ Steady(S.loads[l].by)
    BY <1>2, Described
  <2>2. First(S.loads[l].by)
    BY <2>1 DEF StaysFirst
  <2>3. at'[S.loads[l].by] = 1
    <3>1. ActNames' = ActNames /\ LoadNames' = LoadNames
      BY DEF ActNames, LoadNames
    <3>2. Steady(S.loads[l].by)'
      BY <2>1, <3>1 DEF Steady
    <3>3. QED
      BY <2>1, <3>2 DEF StaysFirst, First
  <2>4. QED
    BY <1>2, <2>2, <2>3 DEF Key, Seen, First, SawFirst
<1>3. QED
  BY <1>1, <1>2

LEMMA HeirFor ==
  ASSUME NEW c, NEW d, Heir(c, d), NEW l, NEW o, For(c, l, o)
  PROVE  For(d, l, o)
BY DEF Heir, Same, For

LEMMA CertainStep ==
  ASSUME TypeOK, StaysFirst, StaysFirst', scr' = scr, NEW l \in LoadNames, Certain(l), OfSelected(l), Next
  PROVE  /\ shown'[l].key \in {0, Key(l, at')}
         /\ \A i \in 1 .. Len(calls') : For(calls'[i], l, Key(l, at'))
<1> DEFINE Goal == /\ shown'[l].key \in {0, Key(l, at')}
                   /\ \A i \in 1 .. Len(calls') : For(calls'[i], l, Key(l, at'))
<1>1. at \in Selections /\ {} \in SUBSET ActNames /\ S' = S
  BY FlagsHold, SameScreen
<1>2. /\ shown[l].key \in {0, Key(l, at)}
      /\ \A i \in 1 .. Len(calls) : For(calls[i], l, Key(l, at))
  BY DEF OfSelected
<1>3. \/ S.loads[l].keyed /\ ~S.loads[l].fixed
      \/ /\ Key(l, at') = Key(l, at)
         /\ \A i \in 1 .. Len(calls) : Key(l, Seen(calls[i])) = Key(l, at)
  BY <1>1, SteadyKey DEF Certain
<1>4. ASSUME NEW a \in ActNames, NEW o \in Objects(a), Click(a, o) PROVE Goal
  <2>1. PICK sel \in Selections, f \in [Flags -> {0} \union Ids], ls \in SUBSET LoadNames, q \in Seq(Requests) :
          Clicks(sel, f, ls, q, a, o)
    BY <1>4, ClickEach
  <2>2. Settle(ls, at, sel, f, shown, q, {})
    BY <2>1 DEF Clicks
  <2>3. at' = sel
    BY <2>2 DEF Settle
  <2>4. For(CallOf(a, o), l, Key(l, at))
    BY DEF CallOf, For
  <2>5. \A j \in 1 .. Len(q) : For(q[j], l, Key(l, at))
    BY <1>2, <2>1, <2>4, HeirFor DEF Clicks
  <2>6. QED
    BY <1>1, <1>2, <1>3, <2>2, <2>3, <2>5, CertainSettle
<1>5. ASSUME NEW k \in LoadNames, Background(k) PROVE Goal
  <2>1. Settle({k}, at, at, flags, shown, calls, {})
    BY <1>5 DEF Background
  <2>2. QED
    BY <1>1, <1>2, <2>1, FlagsHold, CertainSettle
<1>6. ASSUME NEW i \in 1 .. Len(calls), Loaded(i) \/ NotLoaded(i) PROVE Goal
  <2>1. PICK sel, s :
          /\ sel \in Selections
          /\ Settle({}, at, sel, Finished(i), s, Rest(i), {})
          /\ s \in {Failed(calls[i]), Received(calls[i], TRUE), Received(calls[i], FALSE)}
    BY <1>6, ReadEach
  <2>2. Rest(i) \in Seq(Requests) /\ {} \in SUBSET LoadNames /\ calls[i] \in Requests /\ calls[i].load
    BY <1>6, ReadEach
  <2>3. at' = sel
    BY <2>1 DEF Settle
  <2>4. s[l].key \in {0, Key(l, at)}
    <3>1. PICK c : c = calls[i]
      OBVIOUS
    <3>2. For(c, l, Key(l, at))
      BY <1>2, <3>1
    <3>3. c \in Requests /\ c.load /\ s \in {Failed(c), Received(c, TRUE), Received(c, FALSE)}
      BY <2>1, <2>2, <3>1
    <3>4. Reads(s, c, l)
      BY <3>3, ReadKeys
    <3>5. CASE s[l].key \in {0, shown[l].key}
      BY <1>2, <3>5
    <3>6. CASE l = c.name /\ ~Dropped(c) /\ s[l].key = c.obj
      BY <3>2, <3>3, <3>6 DEF For, Dropped
    <3>7. QED
      BY <3>4, <3>5, <3>6 DEF Reads
  <2>5. \A j \in 1 .. Len(Rest(i)) : \E k \in 1 .. Len(calls) : Heir(calls[k], Rest(i)[j])
    BY <1>6, ReadEach
  <2>6. \A j \in 1 .. Len(Rest(i)) : For(Rest(i)[j], l, Key(l, at))
    BY <1>2, <2>5, HeirFor
  <2>7. QED
    BY <1>1, <1>3, <2>1, <2>2, <2>3, <2>4, <2>6, CertainSettle
<1>7. ASSUME NEW i \in 1 .. Len(calls), Done(i) PROVE Goal
  <2>1. PICK sel \in Selections, q \in Seq(Requests), ls \in SUBSET LoadNames, for \in SUBSET ActNames :
              /\ Settle(ls, Seen(calls[i]), sel, Released(calls[i]), Missing(calls[i], S.acts[calls[i].name]), q, for)
              /\ \A j \in 1 .. Len(q) : \E k \in 1 .. Len(calls) : k # i /\ Heir(calls[k], q[j])
    BY <1>7, DoneEach
  <2>2. Seen(calls[i]) \in Selections /\ calls[i] \in Requests /\ ~calls[i].load
    BY <1>7, DoneEach
  <2>3. at' = sel
    BY <2>1 DEF Settle
  <2>4. Missing(calls[i], S.acts[calls[i].name])[l].key \in {0, Key(l, at)}
    BY <1>2, <2>2, WriteKeys
  <2>5. \A j \in 1 .. Len(q) : For(q[j], l, Key(l, at))
    BY <1>2, <2>1, HeirFor
  <2>6. QED
    BY <1>3, <2>1, <2>2, <2>3, <2>4, <2>5, CertainSettle
<1>8. ASSUME NEW i \in 1 .. Len(calls), NotDone(i) PROVE Goal
  <2>1. PICK q \in Seq(Requests), ls \in SUBSET LoadNames, f \in [Flags -> {0} \union Ids] :
              /\ Settle(ls, Seen(calls[i]), at, f, AfterFailure(calls[i], S.acts[calls[i].name]), q, {})
              /\ \A j \in 1 .. Len(q) : \E k \in 1 .. Len(calls) : k # i /\ Heir(calls[k], q[j])
    BY <1>8, NotDoneEach
  <2>2. Seen(calls[i]) \in Selections /\ calls[i] \in Requests /\ ~calls[i].load
    BY <1>8, NotDoneEach
  <2>3. at' = at
    BY <2>1 DEF Settle
  <2>4. AfterFailure(calls[i], S.acts[calls[i].name])[l].key \in {0, Key(l, at)}
    BY <1>2, <2>2, WriteKeys
  <2>5. \A j \in 1 .. Len(q) : For(q[j], l, Key(l, at))
    BY <1>2, <2>1, HeirFor
  <2>6. QED
    BY <1>1, <1>3, <2>1, <2>2, <2>3, <2>4, <2>5, CertainSettle
<1>9. QED
  BY <1>4, <1>5, <1>6, <1>7, <1>8 DEF Next, Answer

LEMMA CertainNext == TypeOK /\ StaysFirst /\ StaysFirst' /\ AllCertain /\ [Next]_vars => AllCertain'
<1> SUFFICES ASSUME TypeOK, StaysFirst, StaysFirst', AllCertain, [Next]_vars PROVE AllCertain'
  OBVIOUS
<1>1. scr' = scr
  BY DEF Next, Click, Background, Answer, Loaded, NotLoaded, Done, NotDone, vars
<1>2. S' = S /\ ActNames' = ActNames /\ LoadNames' = LoadNames
  BY <1>1, SameScreen
<1>3. \A l : Certain(l)' <=> Certain(l)
  BY <1>2 DEF Certain, Steady
<1> SUFFICES ASSUME NEW l \in LoadNames, Certain(l) PROVE OfSelected(l)'
  BY <1>2, <1>3 DEF AllCertain
<1>4. OfSelected(l)
  BY DEF AllCertain
<1>5. CASE UNCHANGED vars
  BY <1>2, <1>4, <1>5 DEF OfSelected, For, Key, vars
<1>6. CASE Next
  <2>1. /\ shown'[l].key \in {0, Key(l, at')}
        /\ \A i \in 1 .. Len(calls') : For(calls'[i], l, Key(l, at'))
    BY <1>1, <1>4, <1>6, CertainStep
  <2>2. QED
    BY <1>2, <2>1 DEF OfSelected, For, Key
<1>7. QED
  BY <1>5, <1>6

LEMMA CertainInit == Init => AllCertain
<1> SUFFICES ASSUME Init, NEW l \in LoadNames PROVE OfSelected(l)
  BY DEF AllCertain
<1>1. Key(l, at) = 1
  <2>1. S.loads[l].by \in S.axes \union {""}
    BY InitType, Described
  <2>2. QED
    BY <2>1 DEF Init, Key
<1>2. shown[l].key = 0
  BY DEF Init, Nothing
<1>3. ASSUME NEW i \in 1 .. Len(calls) PROVE For(calls[i], l, 1)
  <2>1. PICK c : c = calls[i]
    OBVIOUS
  <2>2. PICK k : c = Request(k, 1, {})
    BY <2>1, MountCalls
  <2>3. c.obj = 1
    BY <2>2 DEF Request
  <2>4. QED
    BY <2>1, <2>3 DEF For
<1>4. QED
  BY <1>1, <1>2, <1>3 DEF OfSelected

THEOREM CertainStays == Spec => []AllCertain
BY TypeCorrect, SteadyStays, CertainInit, CertainNext, PTL DEF Spec
-----------------------------------------------------------------------------
(* Loads that are alone: while one is out, neither its axis moves nor is   *)
(* it asked for again.                                                     *)

AloneInv(q, f, s, l, o) ==
  /\ \A i, j \in Out(q, l) : i = j
  /\ \A i \in Out(q, l) : ~q[i].late
  /\ Out(q, l) # {} => \A b \in Bars(l) : f[b] # 0
  /\ ~S.loads[l].fixed => \A i \in Out(q, l) : q[i].obj = o
  /\ ~S.loads[l].fixed /\ Out(q, l) = {} => s[l].key \in {0, o} \/ s[l].miss = "failed"
AllAlone == \A l \in LoadNames : Alone(l) => AloneInv(calls, flags, shown, l, Key(l, at))

LEMMA AloneSettle ==
  ASSUME TypeOK, NEW ls \in SUBSET LoadNames, NEW was \in Selections, NEW a \in Selections,
         NEW f \in [Flags -> {0} \union Ids], NEW s, NEW q0 \in Seq(Requests), NEW for \in SUBSET ActNames,
         Settle(ls, was, a, f, s, q0, for),
         NEW l \in LoadNames, Alone(l), AloneInv(q0, f, s, l, Key(l, at)),
         l \in ls \/ Moved(l, a) => Out(q0, l) = {},
         l \in ls /\ ~S.loads[l].fixed => Key(l, was) = Key(l, a)
  PROVE  AloneInv(calls', flags', shown', l, Key(l, at'))
<1>1. PICK q1, J, new, sent : /\ q1 = calls'
                              /\ J = {k \in ls : Joinable(k, a)}
                              /\ new = New(ls, a, f)
                              /\ sent = Sent(ls, was, a, new, for)
  OBVIOUS
<1>2. q1 \in Seq(Requests) /\ \E m \in Nat : \E e : Settles(q0, q1, m, e, J, new, sent, a, for)
  BY <1>1, Settled
<1>3. PICK m, e : Settles(q0, q1, m, e, J, new, sent, a, for)
  BY <1>2
<1>4. /\ Len(q0) \in Nat /\ Len(q1) \in Nat /\ m \in 0 .. Len(q1) /\ e \in [1 .. m -> 1 .. Len(q0)]
      /\ \A i, j \in 1 .. m : i < j => e[i] < e[j]
      /\ \A i \in 1 .. m : Becomes(q0[e[i]], q1[i], J, new, a, for)
      /\ \A i \in m + 1 .. Len(q1) : q1[i] \in sent
      /\ \A i, j \in m + 1 .. Len(q1) : q1[i] = q1[j] => i = j
  BY <1>2, <1>3 DEF Settles
<1>5. ~S.loads[l].keyed /\ S.loads[l].needs = {} /\ Bars(l) \subseteq S.loads[l].busy
  BY DEF Alone, Bars
<1>13. ~S.loads[l].fixed /\ ~Moved(l, a) => Key(l, a) = Key(l, at)
  BY DEF Moved
<1>6. at' = a
  BY DEF Settle
<1>7. ASSUME NEW b \in Bars(l) PROVE f[b] # 0 \/ l \in new => flags'[b] # 0
  <2>1. flags' = Put(f, UNION {S.loads[k].busy : k \in new}, 1)
    BY <1>1 DEF Settle
  <2>2. b \in Flags /\ b \in S.loads[l].busy
    BY <1>5, BusyFlags
  <2>3. QED
    BY <2>1, <2>2 DEF Put
<1>8. ASSUME NEW i \in Out(q1, l), i \in 1 .. m
      PROVE  e[i] \in Out(q0, l) /\ q1[i].obj = q0[e[i]].obj /\ (q1[i].late => q0[e[i]].late)
  BY <1>4, <1>5, <1>8 DEF Out, Becomes, Outdated
<1>9. ASSUME NEW i \in Out(q1, l), i \notin 1 .. m
      PROVE  i \in m + 1 .. Len(q1) /\ l \in new /\ IsSent(q1[i], l, ls, was, a, for)
  <2>1. i \in m + 1 .. Len(q1) /\ q1[i] \in sent /\ q1[i].name = l
    BY <1>4, <1>9 DEF Out
  <2>2. PICK k \in new : IsSent(q1[i], k, ls, was, a, for)
    BY <1>1, <2>1, SentIs
  <2>3. k = l
    BY <2>1, <2>2 DEF IsSent
  <2>4. QED
    BY <2>1, <2>2, <2>3
<1>10. CASE l \in new
  <2>1. l \in ls \/ Moved(l, a)
    BY <1>1, <1>5, <1>10 DEF New, Wanted, Enabled
  <2>2. \A i \in Out(q1, l) : i \notin 1 .. m
    BY <1>8, <2>1
  <2>3. \A i \in Out(q1, l) : ~q1[i].late /\ (~S.loads[l].fixed => q1[i].obj = Key(l, a))
    BY <1>9, <2>2 DEF IsSent
  <2>4. ASSUME NEW i \in Out(q1, l), NEW j \in Out(q1, l) PROVE i = j
    <3>1. i \in m + 1 .. Len(q1) /\ j \in m + 1 .. Len(q1) /\ q1[i] \in sent /\ q1[j] \in sent
      BY <1>4, <1>9, <2>2
    <3>2. q1[i].name = q1[j].name
      BY DEF Out
    <3>3. q1[i] = q1[j]
      BY <1>1, <3>1, <3>2, SentIs
    <3>4. QED
      BY <1>4, <3>1, <3>3
  <2>5. Out(q1, l) # {}
    <3>1. PICK r \in sent : IsSent(r, l, ls, was, a, for)
      BY <1>1, <1>10, SentIs
    <3>2. PICK i \in m + 1 .. Len(q1) : q1[i] = r
      BY <1>3, <3>1 DEF Settles
    <3>3. i \in 1 .. Len(q1)
      BY <1>4
    <3>4. QED
      BY <3>1, <3>2, <3>3 DEF Out, IsSent
  <2>6. QED
    BY <1>1, <1>6, <1>7, <1>10, <2>3, <2>4, <2>5 DEF AloneInv
<1>11. CASE l \notin new
  <2>1. ~Moved(l, a)
    BY <1>1, <1>5, <1>11 DEF New, Wanted, Enabled, Joinable
  <2>2. \A i \in Out(q1, l) : i \in 1 .. m
    BY <1>9, <1>11
  <2>3. \A i \in Out(q1, l) : /\ e[i] \in Out(q0, l) /\ ~q1[i].late
                              /\ ~S.loads[l].fixed => q1[i].obj = Key(l, at)
    BY <1>8, <2>2 DEF AloneInv
  <2>4. ASSUME NEW i \in Out(q1, l), NEW j \in Out(q1, l) PROVE i = j
    <3>1. e[i] = e[j] /\ e[i] \in Nat /\ i \in 1 .. m /\ j \in 1 .. m
      BY <1>4, <2>2, <2>3 DEF AloneInv
    <3>2. ~ (i < j) /\ ~ (j < i)
      BY <1>4, <3>1
    <3>3. QED
      BY <3>1, <3>2
  <2>5. ASSUME NEW j \in Out(q0, l) PROVE Out(q1, l) # {}
    <3>1. j \in 1 .. Len(q0) /\ q0[j].load /\ q0[j].name = l /\ ~Outdated(q0[j], new, a)
      BY <1>5 DEF Out, Outdated
    <3>2. PICK i \in 1 .. m : e[i] = j
      BY <1>3, <3>1 DEF Settles
    <3>3. Becomes(q0[j], q1[i], J, new, a, for) /\ i \in 1 .. Len(q1)
      BY <1>4, <3>2
    <3>4. QED
      BY <3>1, <3>3 DEF Becomes, Out
  <2>6. shown'[l] = s[l]
    BY <1>1, <1>5, <1>11 DEF Settle
  <2>7. Out(q1, l) # {} => \A b \in Bars(l) : flags'[b] # 0
    BY <1>7, <2>3 DEF AloneInv
  <2>8. ~S.loads[l].fixed /\ Out(q1, l) = {} => shown'[l].key \in {0, Key(l, a)} \/ shown'[l].miss = "failed"
    BY <1>13, <2>1, <2>5, <2>6 DEF AloneInv
  <2>9. QED
    BY <1>1, <1>6, <1>13, <2>1, <2>3, <2>4, <2>7, <2>8 DEF AloneInv
<1>12. QED
  BY <1>10, <1>11

\* The answer to another request leaves it alone.
LEMMA AloneLeft ==
  ASSUME TypeOK, NEW i \in 1 .. Len(calls), NEW q, Left(q, i), NEW l \in LoadNames, NEW o, NEW f, NEW s,
         AloneInv(calls, flags, shown, l, o),
         i \notin Out(calls, l), \A b \in Bars(l) : f[b] = 0 => flags[b] = 0,
         s[l].key = shown[l].key, shown[l].miss = "failed" => s[l].miss = "failed"
  PROVE  AloneInv(q, f, s, l, o)
<1>1. Len(calls) \in Nat /\ Len(q) = Len(calls) - 1
  BY FlagsHold DEF Left
<1>2. \A j \in Out(q, l) : /\ j \in 1 .. Len(calls) - 1 /\ Place(i, j) \in Out(calls, l)
                           /\ q[j].obj = calls[Place(i, j)].obj
                           /\ q[j].late => calls[Place(i, j)].late
  BY <1>1 DEF Out, Left, Same
<1>3. ASSUME NEW j \in Out(q, l), NEW k \in Out(q, l) PROVE j = k
  <2>1. Place(i, j) = Place(i, k) /\ j \in 1 .. Len(calls) - 1 /\ k \in 1 .. Len(calls) - 1
    BY <1>2 DEF AloneInv
  <2>2. QED
    BY <1>1, <2>1 DEF Place
<1>6. \A k \in 1 .. Len(calls) : k # i => \E j \in 1 .. Len(calls) - 1 : Place(i, j) = k
  BY <1>1, PlaceOnto
<1>4. ASSUME NEW k \in Out(calls, l) PROVE Out(q, l) # {}
  <2>1. k \in 1 .. Len(calls) /\ k # i
    BY DEF Out
  <2>2. PICK j \in 1 .. Len(calls) - 1 : Place(i, j) = k
    BY <1>6, <2>1
  <2>3. j \in Out(q, l)
    BY <1>1, <2>2 DEF Out, Left, Same
  <2>4. QED
    BY <2>3
<1>5. QED
  BY <1>2, <1>3, <1>4 DEF AloneInv

\* After its own answer none is out.
LEMMA AloneAnswered ==
  ASSUME TypeOK, NEW i \in 1 .. Len(calls), NEW q, Left(q, i), NEW l \in LoadNames, NEW o, NEW f, NEW s,
         AloneInv(calls, flags, shown, l, o),
         i \in Out(calls, l), ~S.loads[l].fixed => s[l].key \in {0, o} \/ s[l].miss = "failed"
  PROVE  AloneInv(q, f, s, l, o)
<1>1. Len(calls) \in Nat /\ Len(q) = Len(calls) - 1
  BY FlagsHold DEF Left
<1>2. \A j \in Out(q, l) : Place(i, j) # i /\ Place(i, j) \in Out(calls, l)
  BY <1>1 DEF Out, Left, Same
<1>3. Out(q, l) = {}
  BY <1>2 DEF AloneInv
<1>4. QED
  BY <1>3 DEF AloneInv
\* What the answer to its read, or the failure of it, leaves on the screen.
LEMMA AloneRead ==
  ASSUME TypeOK, NEW c \in Requests, c.load, c.name \in LoadNames, ~S.loads[c.name].keyed,
         NEW s, s \in {Failed(c), Received(c, TRUE), Received(c, FALSE)}
  PROVE  s[c.name].key \in {0, c.obj} \/ s[c.name].miss = "failed"
<1>1. DOMAIN shown = LoadNames /\ ~Dropped(c)
  BY DEF TypeOK, Dropped
<1>2. shown[c.name] \in [key : {0} \union Ids, miss : {"late", "failed"} \union Misses]
  BY DEF TypeOK
<1>3. ASSUME NEW stale \in BOOLEAN, s = Received(c, stale) PROVE s[c.name].key = c.obj
  BY <1>1, <1>3 DEF Received
<1>4. CASE s = Failed(c)
  <2>1. PICK v : v = shown[c.name] /\ v \in [key : {0} \union Ids, miss : {"late", "failed"} \union Misses]
    BY <1>2
  <2>2. s[c.name] = IF S.loads[c.name].blanked THEN Nothing
                    ELSE IF v.key \in {0, c.obj} /\ v.miss = "" THEN v ELSE [v EXCEPT !.miss = "failed"]
    BY <1>1, <1>4, <2>1 DEF Failed
  <2>3. Nothing.key = 0 /\ [v EXCEPT !.miss = "failed"].miss = "failed"
    BY <2>1 DEF Nothing
  <2>4. QED
    BY <2>2, <2>3
<1>5. QED
  BY <1>3, <1>4

\* The key of a load stays where its axis does.
LEMMA SameKey ==
  ASSUME TypeOK, NEW l \in LoadNames, NEW a \in Selections,
         S.loads[l].by \in S.axes => a[S.loads[l].by] = at[S.loads[l].by]
  PROVE  Key(l, a) = Key(l, at)
BY Described DEF Key

LEMMA AloneReadStep ==
  ASSUME TypeOK, NEW l \in LoadNames, Alone(l), AloneInv(calls, flags, shown, l, Key(l, at)),
         NEW i \in 1 .. Len(calls), Loaded(i) \/ NotLoaded(i)
  PROVE  AloneInv(calls', flags', shown', l, Key(l, at'))
<1>1. PICK sel, s :
          /\ sel \in Selections
          /\ Settle({}, at, sel, Finished(i), s, Rest(i), {})
          /\ sel \in {Selecting(calls[i]), at}
          /\ s \in {Failed(calls[i]), Received(calls[i], TRUE), Received(calls[i], FALSE)}
  BY ReadEach
<1>2. /\ Rest(i) \in Seq(Requests) /\ Finished(i) \in [Flags -> {0} \union Ids] /\ at \in Selections
      /\ {} \in SUBSET LoadNames /\ {} \in SUBSET ActNames
  BY ReadEach
<1>3. PICK c : c = calls[i] /\ c \in Requests /\ c.load /\ c.name \in LoadNames
  BY ReadEach DEF Requests
<1>4. s \in {Failed(c), Received(c, TRUE), Received(c, FALSE)} /\ sel \in {Selecting(c), at}
  BY <1>1, <1>3
<1>5. PICK q : q = Rest(i) /\ Left(q, i)
  BY <1>3, AnswersLeave
<1>6. ~Moved(l, sel)
  <2> SUFFICES ASSUME ~S.loads[l].fixed PROVE Key(l, sel) = Key(l, at)
    BY DEF Moved
  <2>1. S.loads[l].by \in S.axes => sel[S.loads[l].by] = at[S.loads[l].by]
    BY <1>3, <1>4 DEF Selecting, Alone
  <2>2. QED
    BY <1>1, <2>1, SameKey
<1>7. AloneInv(q, Finished(i), s, l, Key(l, at))
  <2>1. CASE l = c.name
    <3>1. i \in Out(calls, l)
      BY <1>3, <2>1 DEF Out
    <3>2. ~S.loads[l].fixed => c.obj = Key(l, at)
      BY <1>3, <3>1 DEF AloneInv
    <3>3. ~S.loads[l].fixed => s[l].key \in {0, Key(l, at)} \/ s[l].miss = "failed"
      BY <1>3, <1>4, <2>1, <3>2, AloneRead DEF Alone
    <3>4. QED
      BY <1>5, <3>1, <3>3, AloneAnswered
  <2>2. CASE l # c.name
    <3>1. i \notin Out(calls, l)
      BY <1>3, <2>2 DEF Out
    <3>2. s[l] = shown[l]
      <4>1. DOMAIN shown = LoadNames
        BY DEF TypeOK
      <4>2. QED
        BY <1>3, <1>4, <2>2, <4>1 DEF Failed, Received
    <3>3. ASSUME NEW b \in Bars(l) PROVE Finished(i)[b] = 0 => flags[b] = 0
      <4>1. b \notin S.loads[c.name].busy
        BY <1>3, <2>2 DEF Bars
      <4>2. \A a \in Resumed(i) : b \notin Busy(a)
        BY ResumedType DEF Bars
      <4>3. b \in Flags
        BY BusyFlags DEF Bars
      <4>4. QED
        BY <1>3, <4>1, <4>2, <4>3, FlagsHold DEF Finished, Put
    <3>4. QED
      BY <1>5, <3>1, <3>2, <3>3, AloneLeft
  <2>3. QED
    BY <2>1, <2>2
<1>8. QED
  BY <1>1, <1>2, <1>5, <1>6, <1>7, AloneSettle

LEMMA AloneCallStep ==
  ASSUME TypeOK, AllFounded, NEW l \in LoadNames, Alone(l), AloneInv(calls, flags, shown, l, Key(l, at)),
         NEW i \in 1 .. Len(calls), Done(i) \/ NotDone(i)
  PROVE  AloneInv(calls', flags', shown', l, Key(l, at'))
<1>1. calls[i] \in Requests /\ ~calls[i].load /\ calls[i].name \in ActNames
  BY DoneEach, NotDoneEach
<1>2. l \notin Reloads(calls[i].name)
  BY <1>1 DEF AllFounded, Founded, Alone
<1>3. i \notin Out(calls, l)
  BY <1>1 DEF Out
<1>4. CASE Done(i)
  <2>1. PICK sel \in Selections, q \in Seq(Requests), ls \in SUBSET LoadNames, for \in SUBSET ActNames :
              /\ Left(q, i)
              /\ ls = Reloads(calls[i].name)
              /\ Turned(calls[i], sel)
              /\ Settle(ls, Seen(calls[i]), sel, Released(calls[i]), Missing(calls[i], S.acts[calls[i].name]), q, for)
    BY <1>4, DoneEach
  <2>2. Seen(calls[i]) \in Selections /\ Released(calls[i]) \in [Flags -> {0} \union Ids]
    BY <1>4, DoneEach
  <2>3. ~Moved(l, sel)
    <3> SUFFICES ASSUME ~S.loads[l].fixed PROVE Key(l, sel) = Key(l, at)
      BY DEF Moved
    <3>1. S.loads[l].by \in S.axes => sel[S.loads[l].by] = at[S.loads[l].by]
      BY <1>1, <2>1 DEF Turned, Own, Alone
    <3>2. QED
      BY <2>1, <3>1, SameKey
  <2>4. PICK s : /\ s = Missing(calls[i], S.acts[calls[i].name]) /\ s[l].key = shown[l].key
                 /\ shown[l].miss = "failed" => s[l].miss = "failed"
    BY <1>1, WriteKeys
  <2>5. PICK f \in [Flags -> {0} \union Ids] : f = Released(calls[i]) /\ \A b \in Bars(l) : f[b] = 0 => flags[b] = 0
    <3>1. ASSUME NEW b \in Bars(l) PROVE Released(calls[i])[b] = 0 => flags[b] = 0
      <4>1. b \in Flags
        BY BusyFlags DEF Bars
      <4>2. QED
        BY <1>1, <4>1, FlagsHold DEF Released, Own, Bars
    <3>2. QED
      BY <2>2, <3>1
  <2>6. AloneInv(q, f, s, l, Key(l, at))
    BY <1>3, <2>1, <2>4, <2>5, AloneLeft
  <2>7. Settle(ls, Seen(calls[i]), sel, f, s, q, for)
    BY <2>1, <2>4, <2>5
  <2>8. l \notin ls
    BY <1>2, <2>1
  <2>9. QED
    BY <2>2, <2>3, <2>6, <2>7, <2>8, AloneSettle
<1>5. CASE NotDone(i)
  <2>1. PICK q \in Seq(Requests), ls \in SUBSET LoadNames, f \in [Flags -> {0} \union Ids] :
              /\ Left(q, i)
              /\ ls = IF S.acts[calls[i].name].always THEN Reloads(calls[i].name) ELSE {}
              /\ f = Put(flags, IF calls[i].late THEN {} ELSE Busy(calls[i].name) \ S.acts[calls[i].name].stuck, 0)
              /\ Settle(ls, Seen(calls[i]), at, f, AfterFailure(calls[i], S.acts[calls[i].name]), q, {})
    BY <1>5, NotDoneEach
  <2>2. Seen(calls[i]) \in Selections /\ at \in Selections /\ {} \in SUBSET ActNames
    BY <1>5, NotDoneEach
  <2>3. PICK s : /\ s = AfterFailure(calls[i], S.acts[calls[i].name]) /\ s[l].key = shown[l].key
                 /\ shown[l].miss = "failed" => s[l].miss = "failed"
    BY <1>1, WriteKeys
  <2>4. ASSUME NEW b \in Bars(l) PROVE f[b] = 0 => flags[b] = 0
    <3>1. b \in Flags /\ b \notin Busy(calls[i].name)
      BY <1>1, BusyFlags DEF Bars
    <3>2. QED
      BY <2>1, <3>1, FlagsHold DEF Put
  <2>5. AloneInv(q, f, s, l, Key(l, at))
    BY <1>3, <2>1, <2>3, <2>4, AloneLeft
  <2>6. Settle(ls, Seen(calls[i]), at, f, s, q, {})
    BY <2>1, <2>3
  <2>7. l \notin ls
    BY <1>2, <2>1
  <2>8. ~Moved(l, at)
    BY DEF Moved
  <2>9. QED
    BY <2>2, <2>5, <2>6, <2>7, <2>8, AloneSettle
<1>6. QED
  BY <1>4, <1>5

LEMMA AloneClick ==
  ASSUME TypeOK, NEW l \in LoadNames, Alone(l), AloneInv(calls, flags, shown, l, Key(l, at)),
         NEW a \in ActNames, NEW o \in Objects(a), Click(a, o)
  PROVE  AloneInv(calls', flags', shown', l, Key(l, at'))
<1>1. PICK sel \in Selections, f \in [Flags -> {0} \union Ids], ls \in SUBSET LoadNames, q \in Seq(Requests) :
        Clicks(sel, f, ls, q, a, o)
  BY ClickEach
<1>2. Settle(ls, at, sel, f, shown, q, {}) /\ at \in Selections /\ {} \in SUBSET ActNames
  BY <1>1, FlagsHold DEF Clicks
<1>3. Out(q, l) = Out(calls, l)
  BY <1>1, ClickOut
<1>4. ASSUME NEW j \in Out(calls, l) PROVE q[j].obj = calls[j].obj /\ q[j].late = calls[j].late
  BY <1>1, ClickOut DEF Stands, Same
<1>6. ASSUME NEW b \in Bars(l), f[b] = 0 PROVE flags[b] = 0
  <2>1. b \in Flags /\ b \notin S.acts[a].clears /\ \A k \in ActNames : b \notin Busy(k)
    BY BusyFlags DEF Bars
  <2>2. QED
    BY <1>1, <1>6, <2>1 DEF Clicks
<1>7. AloneInv(q, f, shown, l, Key(l, at))
  BY <1>3, <1>4, <1>6 DEF AloneInv
<1>8. ASSUME Barred(l, a) PROVE Out(q, l) = {}
  <2>1. PICK b \in Bars(l) : b \in S.acts[a].unless
    BY <1>8 DEF Barred
  <2>2. flags[b] = 0
    BY <2>1 DEF Click, CanClick
  <2>3. QED
    BY <1>3, <2>2 DEF AloneInv
<1>9. S.loads[l].by \notin S.acts[a].moves => Key(l, sel) = Key(l, at)
  <2>1. \A x \in S.axes : sel[x] # at[x] => x \in S.acts[a].moves
    BY <1>1 DEF Clicks
  <2>2. QED
    BY <2>1, SameKey
<1>10. l \in ls => l \in Reloads(a)
  BY <1>1 DEF Clicks
<1>11. l \in ls \/ Moved(l, sel) => Out(q, l) = {}
  BY <1>8, <1>9, <1>10 DEF Alone, Moved
<1>12. l \in ls /\ ~S.loads[l].fixed => Key(l, at) = Key(l, sel)
  BY <1>9, <1>10 DEF Alone
<1>13. QED
  BY <1>2, <1>7, <1>11, <1>12, AloneSettle

LEMMA AloneBackground ==
  ASSUME TypeOK, NEW l \in LoadNames, Alone(l), AloneInv(calls, flags, shown, l, Key(l, at)),
         NEW k \in LoadNames, Background(k)
  PROVE  AloneInv(calls', flags', shown', l, Key(l, at'))
<1>1. PICK ls \in SUBSET LoadNames : ls = {k} /\ Settle(ls, at, at, flags, shown, calls, {})
  BY DEF Background
<1>2. flags \in [Flags -> {0} \union Ids] /\ at \in Selections /\ {} \in SUBSET ActNames /\ calls \in Seq(Requests)
  BY DEF TypeOK
<1>3. l \in ls \/ Moved(l, at) => Out(calls, l) = {}
  BY <1>1 DEF Background, Out, Moved
<1>4. QED
  BY <1>1, <1>2, <1>3, AloneSettle

LEMMA AloneNext == TypeOK /\ AllFounded /\ AllAlone /\ [Next]_vars => AllAlone'
<1> SUFFICES ASSUME TypeOK, AllFounded, AllAlone, [Next]_vars PROVE AllAlone'
  OBVIOUS
<1>1. scr' = scr
  BY DEF Next, Click, Background, Answer, Loaded, NotLoaded, Done, NotDone, vars
<1>2. S' = S /\ ActNames' = ActNames /\ LoadNames' = LoadNames
  BY <1>1, SameScreen
<1>3. \A l : Bars(l)' = Bars(l)
  BY <1>2 DEF Bars, Busy
<1>4. \A l : Alone(l)' <=> Alone(l)
  BY <1>2, <1>3 DEF Alone, Barred, Reloads, Reading
<1>9. ASSUME NEW l PROVE AloneInv(calls', flags', shown', l, Key(l, at')) <=> AloneInv(calls, flags, shown, l, Key(l, at))'
  BY <1>2, <1>3 DEF AloneInv, Out, Key
<1> SUFFICES ASSUME NEW l \in LoadNames, Alone(l)
             PROVE  AloneInv(calls', flags', shown', l, Key(l, at'))
  BY <1>2, <1>4, <1>9 DEF AllAlone
<1>5. AloneInv(calls, flags, shown, l, Key(l, at))
  BY DEF AllAlone
<1>6. CASE UNCHANGED vars
  BY <1>5, <1>6 DEF vars
<1>7. CASE Next
  BY <1>5, <1>7, AloneClick, AloneBackground, AloneReadStep, AloneCallStep DEF Next, Answer
<1>8. QED
  BY <1>6, <1>7

LEMMA MountedOnce ==
  ASSUME Init, NEW l, NEW i \in Out(calls, l), NEW j \in Out(calls, l)
  PROVE  i = j
<1>1. PICK c, d : c = calls[i] /\ d = calls[j] /\ c.name = l /\ d.name = l /\ i \in 1 .. Len(calls) /\ j \in 1 .. Len(calls)
  BY DEF Out
<1>2. PICK k, h : c = Request(k, 1, {}) /\ d = Request(h, 1, {})
  BY <1>1, MountCalls
<1>3. c.name = k /\ d.name = h
  BY <1>2 DEF Request
<1>4. c = d
  BY <1>1, <1>2, <1>3
<1> DEFINE T == {Request(k1, 1, {}) : k1 \in Mounted}
<1>5. calls = SetToSeq(T) /\ IsFiniteSet(T)
  BY InitType, Described, MountedFinite DEF Init
<1> HIDE DEF T
<1>6. \A m, n \in 1 .. Len(calls) : calls[m] = calls[n] => m = n
  BY <1>5, Listed
<1>7. QED
  BY <1>1, <1>4, <1>6

LEMMA AloneInit == Init => AllAlone
<1> SUFFICES ASSUME Init, NEW l \in LoadNames, Alone(l)
             PROVE  AloneInv(calls, flags, shown, l, Key(l, at))
  BY DEF AllAlone
<1>1. TypeOK
  BY InitType
<1>2. Key(l, at) = 1
  <2>1. S.loads[l].by \in S.axes \union {""}
    BY <1>1, Described
  <2>2. QED
    BY <2>1 DEF Init, Key
<1>3. shown[l].key = 0
  BY DEF Init, Nothing
<1>4. ASSUME NEW i \in Out(calls, l) PROVE calls[i].obj = 1 /\ ~calls[i].late /\ l \in Mounted
  <2>1. PICK c : c = calls[i] /\ c.name = l /\ i \in 1 .. Len(calls)
    BY DEF Out
  <2>2. PICK k \in Mounted : c = Request(k, 1, {})
    BY <2>1, MountCalls
  <2>3. c.obj = 1 /\ c.name = k /\ ~c.late
    BY <2>2 DEF Request
  <2>4. QED
    BY <2>1, <2>3
<1>5. \A i, j \in Out(calls, l) : i = j
  BY MountedOnce
<1>6. ASSUME l \in Mounted, NEW b \in Bars(l) PROVE flags[b] # 0
  <2>1. b \in Flags /\ b \in S.loads[l].busy
    BY <1>1, BusyFlags DEF Bars
  <2>2. flags[b] = IF b \in S.on \union UNION {S.loads[k].busy : k \in Mounted} THEN 1 ELSE 0
    BY <2>1 DEF Init
  <2>3. QED
    BY <1>6, <2>1, <2>2
<1>7. QED
  BY <1>2, <1>3, <1>4, <1>5, <1>6 DEF AloneInv

THEOREM AloneStays == Spec => []AllAlone
BY TypeCorrect, RequestsFounded, AloneInit, AloneNext, PTL DEF Spec

\* Once a load is answered, what is shown is of the object selected, on a screen whose
\* selections none leaves behind: a load drops what is late, never moves, or bars moving.
THEOREM NoneOfAnother == Spec => [](Selected => ShownIsSelected)
<1>1. TypeOK /\ AllCertain /\ AllAlone => (Selected => ShownIsSelected)
  <2> SUFFICES ASSUME TypeOK, AllCertain, AllAlone, Selected, NEW l \in LoadNames,
                      ~S.loads[l].fixed, l \notin Excused("late"), \A i \in 1 .. Len(calls) : calls[i].name # l
               PROVE  \/ shown[l].key \in {0, Key(l, at)}
                      \/ shown[l].miss = "failed" /\ l \in Excused("keeps")
    BY DEF ShownIsSelected
  <2>1. CASE Certain(l)
    BY <2>1 DEF AllCertain, OfSelected
  <2>2. CASE ~Certain(l)
    <3>1. Alone(l) /\ l \in Excused("keeps")
      BY <2>2 DEF Selected
    <3>2. AloneInv(calls, flags, shown, l, Key(l, at))
      BY <3>1 DEF AllAlone
    <3>3. Out(calls, l) = {}
      BY DEF Out
    <3>4. QED
      BY <3>1, <3>2, <3>3 DEF AloneInv
  <2>3. QED
    BY <2>1, <2>2
<1>2. QED
  BY <1>1, TypeCorrect, CertainStays, AloneStays, PTL
-----------------------------------------------------------------------------
(* Loads that are requested once, and the forms they open.                 *)

OnceInv(q, s, ds, l) ==
  /\ \A i, j \in Out(q, l) : i = j
  /\ Out(q, l) # {} =>
       /\ s[l].key = 0
       /\ \A j \in 1 .. Len(q) : ~q[j].load => l \notin S.acts[q[j].name].shows
       /\ \A d \in DOMAIN S.drafts : Opens(l, d) => ds[d].is = "clean"
AllOnce == \A l \in LoadNames : Once(l) => OnceInv(calls, shown, drafts, l)

LEMMA OnceSettle ==
  ASSUME TypeOK, NEW ls \in SUBSET LoadNames, NEW was \in Selections, NEW a \in Selections,
         NEW f, NEW s, NEW q0 \in Seq(Requests), NEW for \in SUBSET ActNames,
         Settle(ls, was, a, f, s, q0, for),
         NEW l \in LoadNames, Once(l), NEW ds, OnceInv(q0, s, ds, l), l \notin ls, Key(l, a) = Key(l, at)
  PROVE  OnceInv(calls', shown', ds, l)
<1>1. PICK q1, J, new, sent : /\ q1 = calls'
                              /\ J = {k \in ls : Joinable(k, a)}
                              /\ new = New(ls, a, f)
                              /\ sent = Sent(ls, was, a, new, for)
  OBVIOUS
<1>2. q1 \in Seq(Requests) /\ \E m \in Nat : \E e : Settles(q0, q1, m, e, J, new, sent, a, for)
  BY <1>1, Settled
<1>3. PICK m, e : Settles(q0, q1, m, e, J, new, sent, a, for)
  BY <1>2
<1>4. /\ Len(q0) \in Nat /\ Len(q1) \in Nat /\ m \in 0 .. Len(q1) /\ e \in [1 .. m -> 1 .. Len(q0)]
      /\ \A i, j \in 1 .. m : i < j => e[i] < e[j]
      /\ \A i \in 1 .. m : Becomes(q0[e[i]], q1[i], J, new, a, for)
      /\ \A i \in m + 1 .. Len(q1) : q1[i] \in sent
  BY <1>2, <1>3 DEF Settles
<1>5. l \notin new
  BY <1>1 DEF New, Wanted, Moved, Enabled, Once
<1>6. ASSUME NEW i \in 1 .. Len(q1), ~q1[i].load \/ q1[i].name = l
      PROVE  i \in 1 .. m /\ e[i] \in 1 .. Len(q0) /\ q1[i].load = q0[e[i]].load /\ q1[i].name = q0[e[i]].name
  <2>1. CASE i \in m + 1 .. Len(q1)
    <3>1. PICK k \in new : IsSent(q1[i], k, ls, was, a, for)
      BY <1>1, <1>4, <2>1, SentIs
    <3>2. QED
      BY <1>5, <1>6, <3>1 DEF IsSent
  <2>2. CASE i \in 1 .. m
    BY <1>4, <2>2 DEF Becomes
  <2>3. QED
    BY <1>4, <2>1, <2>2
<1>7. \A i \in Out(q1, l) : i \in 1 .. m /\ e[i] \in Out(q0, l)
  BY <1>6 DEF Out
<1>8. ASSUME NEW i \in Out(q1, l), NEW j \in Out(q1, l) PROVE i = j
  <2>1. e[i] = e[j] /\ e[i] \in Nat /\ i \in 1 .. m /\ j \in 1 .. m
    BY <1>4, <1>7 DEF OnceInv
  <2>2. ~ (i < j) /\ ~ (j < i)
    BY <1>4, <2>1
  <2>3. QED
    BY <2>1, <2>2
<1>9. s[l].key = 0 => shown'[l].key = 0
  <2>1. PICK v : v = shown'[l] /\ (v = Nothing \/ v = s[l])
    BY DEF Settle
  <2>2. Nothing.key = 0
    BY DEF Nothing
  <2>3. QED
    BY <2>1, <2>2
<1>10. Out(q1, l) # {} => Out(q0, l) # {}
  BY <1>7
<1>11. ASSUME Out(q1, l) # {}, NEW j \in 1 .. Len(q1), ~q1[j].load PROVE l \notin S.acts[q1[j].name].shows
  BY <1>6, <1>10, <1>11 DEF OnceInv
<1>12. QED
  BY <1>1, <1>8, <1>9, <1>10, <1>11 DEF OnceInv

LEMMA OnceLeft ==
  ASSUME TypeOK, NEW i \in 1 .. Len(calls), NEW q, Left(q, i), NEW l \in LoadNames, NEW s, NEW ds,
         OnceInv(calls, shown, drafts, l),
         i \notin Out(calls, l) /\ Out(calls, l) # {} =>
           /\ s[l].key = shown[l].key
           /\ \A d \in DOMAIN S.drafts : Opens(l, d) => ds[d].is = "clean"
  PROVE  OnceInv(q, s, ds, l)
<1>1. Len(calls) \in Nat /\ Len(q) = Len(calls) - 1
  BY FlagsHold DEF Left
<1>2. \A j \in Out(q, l) : j \in 1 .. Len(calls) - 1 /\ Place(i, j) \in Out(calls, l) /\ Place(i, j) # i
  BY <1>1 DEF Out, Left, Same
<1>3. ASSUME NEW j \in Out(q, l), NEW k \in Out(q, l) PROVE j = k
  <2>1. Place(i, j) = Place(i, k) /\ j \in 1 .. Len(calls) - 1 /\ k \in 1 .. Len(calls) - 1
    BY <1>2 DEF OnceInv
  <2>2. QED
    BY <1>1, <2>1 DEF Place
<1>4. Out(q, l) # {} => i \notin Out(calls, l) /\ Out(calls, l) # {}
  BY <1>2 DEF OnceInv
<1>5. \A j \in 1 .. Len(q) : Place(i, j) \in 1 .. Len(calls) /\ Same(calls[Place(i, j)], q[j])
  BY <1>1 DEF Left
<1>6. ASSUME Out(q, l) # {}, NEW j \in 1 .. Len(q), ~q[j].load PROVE l \notin S.acts[q[j].name].shows
  BY <1>4, <1>5, <1>6 DEF OnceInv, Same
<1>7. QED
  BY <1>3, <1>4, <1>6 DEF OnceInv

LEMMA OnceClick ==
  ASSUME TypeOK, NEW l \in LoadNames, Once(l), OnceInv(calls, shown, drafts, l), Key(l, at') = Key(l, at),
         NEW a \in ActNames, NEW o \in Objects(a), Click(a, o)
  PROVE  OnceInv(calls', shown', drafts', l)
<1>1. PICK sel \in Selections, f \in [Flags -> {0} \union Ids], ls \in SUBSET LoadNames, q \in Seq(Requests) :
        Clicks(sel, f, ls, q, a, o)
  BY ClickEach
<1>2. Settle(ls, at, sel, f, shown, q, {}) /\ at \in Selections /\ {} \in SUBSET ActNames
  BY <1>1, FlagsHold DEF Clicks
<1>3. at' = sel
  BY <1>2 DEF Settle
<1>4. Out(q, l) = Out(calls, l)
  BY <1>1, ClickOut
<1>5. Out(calls, l) # {} => l \notin S.acts[a].shows
  BY DEF OnceInv, Click, CanClick
<1>6. ASSUME Out(calls, l) # {}, NEW j \in 1 .. Len(q), ~q[j].load PROVE l \notin S.acts[q[j].name].shows
  <2>1. CASE \E k \in 1 .. Len(calls) : Heir(calls[k], q[j])
    BY <1>6, <2>1 DEF Heir, Same, OnceInv
  <2>2. CASE q[j] = CallOf(a, o)
    <3>1. CallOf(a, o).name = a
      BY DEF CallOf
    <3>2. QED
      BY <1>5, <1>6, <2>2, <3>1
  <2>3. QED
    BY <1>1, <2>1, <2>2 DEF Clicks
<1>7. PICK ds : ds = drafts'
  OBVIOUS
<1>8. ASSUME Out(calls, l) # {}, NEW d \in DOMAIN S.drafts, Opens(l, d) PROVE ds[d].is = "clean"
  <2>1. drafts[d].is = "clean" /\ d \in DOMAIN drafts
    BY <1>8 DEF OnceInv, TypeOK
  <2>2. d \notin S.acts[a].edits
    BY <1>5, <1>8 DEF Opens
  <2>3. ds = DraftsAtClick(a, o, sel)
    BY <1>1, <1>7 DEF Clicks
  <2>4. Fresh(d, sel).is = "clean"
    BY DEF Fresh
  <2>5. ds[d] = Fresh(d, sel) \/ ds[d] = drafts[d]
    BY <2>1, <2>2, <2>3 DEF DraftsAtClick
  <2>6. QED
    BY <2>1, <2>4, <2>5
<1>9. OnceInv(q, shown, ds, l)
  BY <1>4, <1>6, <1>8 DEF OnceInv
<1>10. l \notin ls
  BY <1>1 DEF Clicks, Once
<1>11. OnceInv(calls', shown', ds, l)
  BY <1>2, <1>3, <1>9, <1>10, OnceSettle
<1>12. QED
  BY <1>7, <1>11

LEMMA OnceBackground ==
  ASSUME TypeOK, NEW l \in LoadNames, Once(l), OnceInv(calls, shown, drafts, l), NEW k \in LoadNames, Background(k)
  PROVE  OnceInv(calls', shown', drafts', l)
<1>1. PICK ls \in SUBSET LoadNames : ls = {k} /\ Settle(ls, at, at, flags, shown, calls, {})
  BY DEF Background
<1>2. flags \in [Flags -> {0} \union Ids] /\ at \in Selections /\ {} \in SUBSET ActNames /\ calls \in Seq(Requests)
  BY DEF TypeOK
<1>3. l \notin ls
  BY <1>1 DEF Background, Once
<1>4. PICK ds : ds = drafts
  OBVIOUS
<1>5. OnceInv(calls', shown', ds, l)
  BY <1>1, <1>2, <1>3, <1>4, OnceSettle
<1>6. QED
  BY <1>4, <1>5 DEF Background

LEMMA OnceReadStep ==
  ASSUME TypeOK, NEW l \in LoadNames, Once(l), OnceInv(calls, shown, drafts, l), Key(l, at') = Key(l, at),
         NEW i \in 1 .. Len(calls), Loaded(i) \/ NotLoaded(i)
  PROVE  OnceInv(calls', shown', drafts', l)
<1>1. PICK sel, s :
          /\ sel \in Selections
          /\ Settle({}, at, sel, Finished(i), s, Rest(i), {})
          /\ s \in {Failed(calls[i]), Received(calls[i], TRUE), Received(calls[i], FALSE)}
  BY ReadEach
<1>2. /\ Rest(i) \in Seq(Requests) /\ at \in Selections
      /\ {} \in SUBSET LoadNames /\ {} \in SUBSET ActNames
  BY ReadEach
<1>3. PICK c : c = calls[i] /\ c \in Requests /\ c.load /\ c.name \in LoadNames
  BY ReadEach DEF Requests
<1>4. s \in {Failed(c), Received(c, TRUE), Received(c, FALSE)}
  BY <1>1, <1>3
<1>5. PICK q : q = Rest(i) /\ Left(q, i)
  BY <1>3, AnswersLeave
<1>6. PICK ds : ds = drafts'
  OBVIOUS
<1>7. ASSUME i \notin Out(calls, l) PROVE s[l].key = shown[l].key
  <2>1. l # c.name
    BY <1>3, <1>7 DEF Out
  <2>2. DOMAIN shown = LoadNames
    BY DEF TypeOK
  <2>3. QED
    BY <1>3, <1>4, <2>1, <2>2 DEF Failed, Received
<1>8. ASSUME Out(calls, l) # {}, NEW d \in DOMAIN S.drafts, Opens(l, d) PROVE ds[d].is = "clean"
  <2>1. drafts[d].is = "clean" /\ d \in DOMAIN drafts
    BY <1>8 DEF OnceInv, TypeOK
  <2>2. \A o : [of |-> o, is |-> "clean"].is = "clean"
    OBVIOUS
  <2>3. \E o : ds[d] = [of |-> o, is |-> "clean"] \/ ds[d] = drafts[d]
    <3>1. CASE Loaded(i)
      BY <1>6, <2>1, <3>1 DEF Loaded, Fresh
    <3>2. CASE NotLoaded(i)
      BY <1>6, <2>1, <3>2 DEF NotLoaded, Fresh
    <3>3. QED
      BY <3>1, <3>2
  <2>4. QED
    BY <2>1, <2>2, <2>3
<1>9. OnceInv(q, s, ds, l)
  BY <1>5, <1>7, <1>8, OnceLeft
<1>10. at' = sel
  BY <1>1 DEF Settle
<1>11. OnceInv(calls', shown', ds, l)
  BY <1>1, <1>2, <1>5, <1>9, <1>10, OnceSettle
<1>12. QED
  BY <1>6, <1>11

LEMMA OnceCallStep ==
  ASSUME TypeOK, NEW l \in LoadNames, Once(l), OnceInv(calls, shown, drafts, l), Key(l, at') = Key(l, at),
         NEW i \in 1 .. Len(calls), Done(i) \/ NotDone(i)
  PROVE  OnceInv(calls', shown', drafts', l)
<1>1. PICK c : c = calls[i] /\ c \in Requests /\ ~c.load /\ c.name \in ActNames
  BY DoneEach, NotDoneEach
<1>2. PICK ds : ds = drafts'
  OBVIOUS
<1>3. ASSUME Out(calls, l) # {}, NEW d \in DOMAIN S.drafts, Opens(l, d) PROVE ds[d].is = "clean"
  <2>1. drafts[d].is = "clean" /\ d \in DOMAIN drafts
    BY <1>3 DEF OnceInv, TypeOK
  <2>2. d \notin S.acts[c.name].lands
    BY <1>1, <1>3 DEF OnceInv, Opens
  <2>3. \A o : [of |-> o, is |-> "clean"].is = "clean"
    OBVIOUS
  <2>4. \E o : ds[d] = [of |-> o, is |-> "clean"] \/ ds[d] = drafts[d]
    <3>1. CASE Done(i)
      <4>1. d \notin Landing(c)
        BY <2>2 DEF Landing, Own
      <4>2. PICK sel : ds[d] = IF d \in Emptied(c) \union Refilled(sel) THEN Fresh(d, sel)
                               ELSE IF d \in Landing(c) THEN [of |-> c.obj, is |-> "typed"]
                               ELSE IF d \in S.acts[c.name].sends /\ drafts[d].is = "sent"
                                    THEN [drafts[d] EXCEPT !.is = "clean"]
                               ELSE drafts[d]
        BY <1>1, <1>2, <2>1, <3>1 DEF Done
      <4>3. drafts[d].is # "sent"
        BY <2>1
      <4>4. QED
        BY <4>1, <4>2, <4>3 DEF Fresh
    <3>2. CASE NotDone(i)
      BY <1>2, <2>1, <3>2 DEF NotDone
    <3>3. QED
      BY <3>1, <3>2
  <2>5. QED
    BY <2>1, <2>3, <2>4
<1>4. l \notin Reloads(c.name)
  BY <1>1 DEF Once
<1>5. at \in Selections /\ {} \in SUBSET ActNames
  BY FlagsHold
<1>6. CASE Done(i)
  <2>1. PICK sel \in Selections, q \in Seq(Requests), ls \in SUBSET LoadNames, for \in SUBSET ActNames :
              /\ Left(q, i)
              /\ ls = Reloads(calls[i].name)
              /\ Settle(ls, Seen(calls[i]), sel, Released(calls[i]), Missing(calls[i], S.acts[calls[i].name]), q, for)
    BY <1>6, DoneEach
  <2>2. Seen(calls[i]) \in Selections
    BY <1>6, DoneEach
  <2>3. PICK s : s = Missing(calls[i], S.acts[calls[i].name]) /\ s[l].key = shown[l].key
    BY <1>1, WriteKeys
  <2>4. OnceInv(q, s, ds, l)
    BY <1>3, <2>1, <2>3, OnceLeft
  <2>5. l \notin ls
    BY <1>1, <1>4, <2>1
  <2>6. Settle(ls, Seen(calls[i]), sel, Released(calls[i]), s, q, for)
    BY <2>1, <2>3
  <2>7. at' = sel
    BY <2>6 DEF Settle
  <2>8. OnceInv(calls', shown', ds, l)
    BY <2>2, <2>4, <2>5, <2>6, <2>7, OnceSettle
  <2>9. QED
    BY <1>2, <2>8
<1>7. CASE NotDone(i)
  <2>1. PICK q \in Seq(Requests), ls \in SUBSET LoadNames, f \in [Flags -> {0} \union Ids] :
              /\ Left(q, i)
              /\ ls = IF S.acts[calls[i].name].always THEN Reloads(calls[i].name) ELSE {}
              /\ Settle(ls, Seen(calls[i]), at, f, AfterFailure(calls[i], S.acts[calls[i].name]), q, {})
    BY <1>7, NotDoneEach
  <2>2. Seen(calls[i]) \in Selections
    BY <1>7, NotDoneEach
  <2>3. PICK s : s = AfterFailure(calls[i], S.acts[calls[i].name]) /\ s[l].key = shown[l].key
    BY <1>1, WriteKeys
  <2>4. OnceInv(q, s, ds, l)
    BY <1>3, <2>1, <2>3, OnceLeft
  <2>5. l \notin ls
    BY <1>1, <1>4, <2>1
  <2>6. Settle(ls, Seen(calls[i]), at, f, s, q, {})
    BY <2>1, <2>3
  <2>7. OnceInv(calls', shown', ds, l)
    BY <1>5, <2>2, <2>4, <2>5, <2>6, OnceSettle
  <2>8. QED
    BY <1>2, <2>7
<1>8. QED
  BY <1>6, <1>7
LEMMA OnceNext == TypeOK /\ StaysFirst /\ StaysFirst' /\ AllOnce /\ [Next]_vars => AllOnce'
<1> SUFFICES ASSUME TypeOK, StaysFirst, StaysFirst', AllOnce, [Next]_vars PROVE AllOnce'
  OBVIOUS
<1>1. scr' = scr
  BY DEF Next, Click, Background, Answer, Loaded, NotLoaded, Done, NotDone, vars
<1>2. S' = S /\ LoadNames' = LoadNames /\ ActNames' = ActNames
  BY <1>1, SameScreen
<1>3. \A l : Once(l)' <=> Once(l)
  BY <1>2 DEF Once, Steady, Reloads, Reading
<1>4. \A l, d : Opens(l, d)' <=> Opens(l, d)
  BY <1>2, <1>3 DEF Opens
<1> SUFFICES ASSUME NEW l \in LoadNames, Once(l) PROVE OnceInv(calls', shown', drafts', l)
  BY <1>2, <1>3, <1>4 DEF AllOnce, OnceInv
<1>5. OnceInv(calls, shown, drafts, l)
  BY DEF AllOnce
<1>6. Key(l, at') = Key(l, at)
  BY <1>2, SteadyKey DEF Once
<1>7. CASE UNCHANGED vars
  BY <1>5, <1>7 DEF vars
<1>8. CASE Next
  BY <1>5, <1>6, <1>8, OnceClick, OnceBackground, OnceReadStep, OnceCallStep DEF Next, Answer
<1>9. QED
  BY <1>7, <1>8

LEMMA OnceInit == Init => AllOnce
<1> SUFFICES ASSUME Init, NEW l \in LoadNames PROVE OnceInv(calls, shown, drafts, l)
  BY DEF AllOnce
<1>1. shown[l].key = 0
  BY DEF Init, Nothing
<1>2. \A i, j \in Out(calls, l) : i = j
  BY MountedOnce
<1>3. ASSUME NEW i \in 1 .. Len(calls) PROVE calls[i].load
  <2>1. PICK c : c = calls[i]
    OBVIOUS
  <2>2. PICK k : c = Request(k, 1, {})
    BY <2>1, MountCalls
  <2>3. c.load
    BY <2>2 DEF Request
  <2>4. QED
    BY <2>1, <2>3
<1>4. ASSUME NEW d \in DOMAIN S.drafts PROVE drafts[d].is = "clean"
  BY DEF Init, Blank
<1>5. QED
  BY <1>1, <1>2, <1>3, <1>4 DEF OnceInv

\* What a screen asks for once, as it is mounted, is never asked for again; while it is out,
\* nothing has been typed into the forms it opens.
THEOREM OnceStays == Spec => []AllOnce
BY TypeCorrect, SteadyStays, OnceInit, OnceNext, PTL DEF Spec
LEMMA Wiped ==
  ASSUME TypeOK, NEW ds, NEW by, NEW s \in Overwritten(ds, by), ds \subseteq DOMAIN S.drafts
  PROVE  s.by = by /\ \E d \in Editable : d \in ds /\ drafts[d].is = "typed"
<1>1. PICK d \in ds : /\ s = [what |-> "lost", by |-> by, on |-> d]
                      /\ drafts[d].is = "typed" /\ \E a \in ActNames : d \in S.acts[a].edits
  BY DEF Overwritten
<1>2. d \in Editable
  BY <1>1 DEF Editable
<1>3. QED
  BY <1>1, <1>2

\* The drafts that an effect refills follow an axis that moved.
LEMMA RefilledMoved ==
  ASSUME TypeOK, NEW sel \in Selections, NEW d \in Refilled(sel)
  PROVE  /\ d \in DOMAIN S.drafts /\ S.drafts[d].follows
         /\ S.drafts[d].by \in S.axes /\ sel[S.drafts[d].by] # at[S.drafts[d].by]
<1>1. d \in DOMAIN S.drafts
  BY DEF Refilled, TypeOK
<1>2. QED
  BY <1>1, Described DEF Refilled, About

LEMMA KeptRead ==
  ASSUME TypeOK, AllFounded, AllOnce, Keeping, NEW i \in 1 .. Len(calls), Loaded(i) \/ NotLoaded(i),
         NEW s \in slips'
  PROVE  s.by \in Excused("lost")
<1>1. PICK c : c = calls[i] /\ c \in Requests /\ c.load /\ c.name \in LoadNames
  BY ReadEach DEF Requests
<1> DEFINE load == S.loads[c.name]
           Written(d) == \/ d \in load.fills \union load.may
                         \/ Refills(load.picks \union load.returns, d)
                         \/ \E a \in ActNames : d \in S.acts[a].lastly /\ c.name \in Reloads(a)
<1>2. ASSUME NEW d \in Cleared(i) PROVE d \in DOMAIN S.drafts /\ Written(d)
  <2>1. PICK a \in calls[i].for : d \in S.acts[a].lastly
    BY DEF Cleared, Resumed
  <2>2. Founded(c) /\ a \in c.for
    BY <1>1, <2>1 DEF AllFounded
  <2>3. a \in ActNames /\ c.name \in Reloads(a)
    BY <1>1, <2>2 DEF Founded, Requests
  <2>4. QED
    BY <2>1, <2>3, Described
<1>3. PICK ds : s \in Overwritten(ds, c.name) /\ \A d \in ds : d \in DOMAIN S.drafts /\ Written(d)
  <2>1. CASE Loaded(i)
    <3>1. PICK some, new, sel :
            /\ some \subseteq load.may /\ sel = Selecting(c)
            /\ slips' = Overwritten(UNION {Filled(c, some, new), Refilled(sel), Cleared(i)}, c.name)
      BY <1>1, <2>1 DEF Loaded
    <3>2. ASSUME NEW d \in Filled(c, some, new) PROVE d \in DOMAIN S.drafts /\ Written(d)
      <4>1. d \in load.fills \union load.may
        BY <3>1 DEF Filled
      <4>2. QED
        BY <1>1, <4>1, Described
    <3>3. ASSUME NEW d \in Refilled(sel) PROVE d \in DOMAIN S.drafts /\ Written(d)
      <4>1. sel \in Selections
        BY <1>1, <3>1, ReceivedType
      <4>2. /\ d \in DOMAIN S.drafts /\ S.drafts[d].follows
            /\ S.drafts[d].by \in S.axes /\ sel[S.drafts[d].by] # at[S.drafts[d].by]
        BY <4>1, RefilledMoved
      <4>3. S.drafts[d].by \in load.picks \union load.returns
        BY <3>1, <4>2 DEF Selecting
      <4>4. QED
        BY <4>2, <4>3 DEF Refills
    <3> HIDE DEF Written, load
    <3>4. QED
      BY <1>2, <3>1, <3>2, <3>3
  <2>2. CASE NotLoaded(i)
    BY <1>1, <1>2, <2>2 DEF NotLoaded
  <2>3. QED
    BY <2>1, <2>2
<1>4. PICK d \in Editable : s.by = c.name /\ d \in ds /\ drafts[d].is = "typed"
  BY <1>3, Wiped
<1> SUFFICES ASSUME c.name \notin Excused("lost") PROVE FALSE
  BY <1>4
<1>5. d \in load.fills \union load.may /\ Opens(c.name, d)
  BY <1>1, <1>3, <1>4 DEF Keeping
<1>6. OnceInv(calls, shown, drafts, c.name)
  BY <1>1, <1>5 DEF AllOnce, Opens
<1>7. i \in Out(calls, c.name)
  BY <1>1 DEF Out
<1>8. drafts[d].is = "clean"
  BY <1>3, <1>4, <1>5, <1>6, <1>7 DEF OnceInv
<1>9. QED
  BY <1>4, <1>8

LEMMA KeptDone ==
  ASSUME TypeOK, Keeping, NEW i \in 1 .. Len(calls), Done(i), NEW s \in slips', s.what = "lost"
  PROVE  s.by \in Excused("lost")
<1>1. PICK c : c = calls[i] /\ c \in Requests /\ ~c.load /\ c.name \in ActNames
  BY DoneEach
<1> DEFINE act == S.acts[c.name]
<1> DEFINE Strays(e) == {[what |-> "stray", by |-> e.name, on |-> d] :
                           d \in {x \in Landing(e) : S.drafts[x].by # "" /\ About(x, at) # e.obj}}
<1>12. PICK sel \in [S.axes -> Ids] :
         /\ Turned(calls[i], sel)
         /\ slips' = Overwritten(UNION {Emptied(calls[i]), Landing(calls[i]), Refilled(sel)}, calls[i].name)
                       \union Strays(calls[i])
  BY Zenon DEF Done
<1>13. \A t \in Strays(c) : t.what = "stray"
  <2>1. \A d : [what |-> "stray", by |-> c.name, on |-> d].what = "stray"
    OBVIOUS
  <2>2. QED
    BY <2>1, Zenon
<1> HIDE DEF Strays
<1>2. /\ sel \in Selections /\ Turned(c, sel)
      /\ slips' = Overwritten(UNION {Emptied(c), Landing(c), Refilled(sel)}, c.name) \union Strays(c)
  BY <1>1, <1>12 DEF Selections
<1>3. PICK ds : ds = UNION {Emptied(c), Landing(c), Refilled(sel)}
  OBVIOUS
<1>4. s \in Overwritten(ds, c.name)
  BY <1>2, <1>3, <1>13
<1>5. ds \subseteq DOMAIN S.drafts
  <2>1. Emptied(c) \subseteq act.okDrops \union act.lastly /\ Landing(c) \subseteq act.lands
    BY DEF Emptied, Landing, Own
  <2>2. UNION {act.sends, act.lands, act.okDrops, act.lastly} \subseteq DOMAIN S.drafts
    BY <1>1, Described
  <2>3. Refilled(sel) \subseteq DOMAIN S.drafts
    BY <1>2, RefilledMoved
  <2>4. QED
    BY <1>3, <2>1, <2>2, <2>3
<1>6. PICK d \in Editable : s.by = c.name /\ d \in ds
  BY <1>4, <1>5, Wiped
<1> SUFFICES ASSUME c.name \notin Excused("lost") PROVE FALSE
  BY <1>6
<1>7. /\ d \notin act.okDrops \union act.lands
      /\ ~Refills(act.okMoves \union act.okBack, d)
      /\ d \in act.lastly => act.awaits /\ \E l \in Reloads(c.name) : S.loads[l].needs = {}
  BY <1>1, <1>6 DEF Keeping
<1>8. CASE d \in Emptied(c)
  <2>1. ~c.late /\ ~Waits(c) /\ d \in act.lastly
    BY <1>7, <1>8 DEF Emptied, Own
  <2>2. PICK l \in Reloads(c.name) : S.loads[l].needs = {}
    BY <1>7, <2>1
  <2>3. l \in LoadNames
    BY <1>1, ReloadsType
  <2>4. l \in Wanted(Reloads(c.name), at, flags)
    BY <2>2, <2>3 DEF Wanted, Enabled
  <2>5. QED
    BY <1>7, <2>1, <2>4 DEF Waits
<1>9. CASE d \in Landing(c)
  BY <1>7, <1>9 DEF Landing, Own
<1>10. CASE d \in Refilled(sel)
  <2>1. /\ S.drafts[d].follows
        /\ S.drafts[d].by \in S.axes /\ sel[S.drafts[d].by] # at[S.drafts[d].by]
    BY <1>2, <1>10, RefilledMoved
  <2>2. S.drafts[d].by \in act.okMoves \union act.okBack
    BY <1>2, <2>1 DEF Turned, Own
  <2>3. QED
    BY <1>7, <2>1, <2>2 DEF Refills
<1>11. QED
  BY <1>3, <1>6, <1>8, <1>9, <1>10

\* No answer wipes what the user typed and has not sent, on a screen whose answers and effects
\* leave alone what the user types into, but for forms that open on what the answer brings.
THEOREM NoneWiped == Spec => [](Keeping => TypingKept)
<1>1. Init => (Keeping => TypingKept)
  BY DEF Init, TypingKept
<1>2. TypeOK /\ AllFounded /\ AllOnce /\ (Keeping => TypingKept) /\ [Next]_vars => (Keeping => TypingKept)'
  <2> SUFFICES ASSUME TypeOK, AllFounded, AllOnce, Keeping => TypingKept, [Next]_vars, Keeping', NEW s \in slips', s.what = "lost"
               PROVE  s.by \in Excused("lost")'
    BY DEF TypingKept
  <2>1. scr' = scr
    BY DEF Next, Click, Background, Answer, Loaded, NotLoaded, Done, NotDone, vars
  <2>2. S' = S /\ LoadNames' = LoadNames /\ ActNames' = ActNames /\ Excused("lost")' = Excused("lost")
    BY <2>1, SameScreen DEF Excused
  <2>3. Keeping
    <3>1. Editable' = Editable /\ \A l, d : Opens(l, d)' <=> Opens(l, d)
      BY <2>2 DEF Editable, Opens, Once, Steady, Reloads, Reading
    <3>2. (\A a : Reloads(a)' = Reloads(a)) /\ (\A xs, d : Refills(xs, d)' <=> Refills(xs, d))
      BY <2>2 DEF Reloads, Reading, Refills
    <3>3. QED
      BY <2>2, <3>1, <3>2 DEF Keeping
  <2> SUFFICES s.by \in Excused("lost")
    BY <2>2
  <2>4. ASSUME NEW a \in ActNames, NEW o \in Objects(a), Click(a, o) PROVE FALSE
    <3>1. PICK x : x = slips' /\ x \subseteq Strayed(a, o)
      BY <2>4 DEF Click
    <3>2. \A d : [what |-> "stray", by |-> a, on |-> d].what = "stray"
      OBVIOUS
    <3>3. \A t \in Strayed(a, o) : t.what = "stray"
      BY <3>2 DEF Strayed
    <3>4. QED
      BY <3>1, <3>3
  <2>5. ASSUME NEW l \in LoadNames, Background(l) PROVE FALSE
    BY <2>5 DEF Background
  <2>6. ASSUME NEW i \in 1 .. Len(calls), Loaded(i) \/ NotLoaded(i) PROVE s.by \in Excused("lost")
    BY <2>3, <2>6, KeptRead
  <2>7. ASSUME NEW i \in 1 .. Len(calls), Done(i) PROVE s.by \in Excused("lost")
    BY <2>3, <2>7, KeptDone
  <2>8. ASSUME NEW i \in 1 .. Len(calls), NotDone(i) PROVE FALSE
    BY <2>8 DEF NotDone
  <2>9. CASE UNCHANGED vars
    BY <2>3, <2>9 DEF vars, TypingKept
  <2>10. QED
    BY <2>4, <2>5, <2>6, <2>7, <2>8, <2>9 DEF Next, Answer
<1>3. QED
  BY <1>1, <1>2, TypeCorrect, RequestsFounded, OnceStays, PTL DEF Spec
-----------------------------------------------------------------------------
(* What a screen shows of its own writes: a request that will bring it is  *)
(* out as long as it does not.                                             *)

\* The requests for load l after a Settle, given where those that stood were.
OutBecomes(q0, q1, m, e, J, new, ls, was, a, for, l) ==
  /\ \A i \in Out(q1, l) : i \in 1 .. m => e[i] \in Out(q0, l) /\ Becomes(q0[e[i]], q1[i], J, new, a, for)
  /\ \A i, j \in 1 .. m : i < j => e[i] < e[j]
  /\ l \notin new => \A i \in Out(q1, l) : i \in 1 .. m
  /\ l \in new => \E n \in Out(q1, l) : /\ n \notin 1 .. m /\ IsSent(q1[n], l, ls, was, a, for)
                                        /\ \A i \in Out(q1, l) : i = n \/ (i \in 1 .. m /\ i < n)
  /\ \A j \in Out(q0, l) : ~Outdated(q0[j], new, a) => \E i \in Out(q1, l) : i \in 1 .. m /\ e[i] = j

LEMMA OutSettle ==
  ASSUME TypeOK, NEW ls \in SUBSET LoadNames, NEW was \in Selections, NEW a \in Selections,
         NEW f, NEW s, NEW q0 \in Seq(Requests), NEW for \in SUBSET ActNames,
         Settle(ls, was, a, f, s, q0, for), NEW l \in LoadNames
  PROVE  \E m \in Nat : \E e : /\ e \in [1 .. m -> 1 .. Len(q0)]
                               /\ OutBecomes(q0, calls', m, e, {k \in ls : Joinable(k, a)}, New(ls, a, f), ls, was, a, for, l)
<1>1. PICK q1, J, new, sent : /\ q1 = calls'
                              /\ J = {k \in ls : Joinable(k, a)}
                              /\ new = New(ls, a, f)
                              /\ sent = Sent(ls, was, a, new, for)
  OBVIOUS
<1>2. q1 \in Seq(Requests) /\ \E m \in Nat : \E e : Settles(q0, q1, m, e, J, new, sent, a, for)
  BY <1>1, Settled
<1>3. PICK m, e : m \in Nat /\ Settles(q0, q1, m, e, J, new, sent, a, for)
  BY <1>2
<1>4. /\ Len(q0) \in Nat /\ Len(q1) \in Nat /\ m \in 0 .. Len(q1) /\ e \in [1 .. m -> 1 .. Len(q0)]
      /\ \A i, j \in 1 .. m : i < j => e[i] < e[j]
      /\ \A i \in 1 .. m : Becomes(q0[e[i]], q1[i], J, new, a, for)
      /\ \A i \in m + 1 .. Len(q1) : q1[i] \in sent
      /\ \A i, j \in m + 1 .. Len(q1) : q1[i] = q1[j] => i = j
  BY <1>2, <1>3 DEF Settles
<1>5. ASSUME NEW i \in Out(q1, l), i \in 1 .. m
      PROVE  e[i] \in Out(q0, l) /\ Becomes(q0[e[i]], q1[i], J, new, a, for)
  BY <1>4, <1>5 DEF Out, Becomes
<1>6. ASSUME NEW i \in Out(q1, l), i \notin 1 .. m
      PROVE  i \in m + 1 .. Len(q1) /\ q1[i] \in sent /\ q1[i].name = l /\ l \in new
  <2>1. i \in m + 1 .. Len(q1) /\ q1[i] \in sent /\ q1[i].name = l
    BY <1>4, <1>6 DEF Out
  <2>2. PICK k \in new : IsSent(q1[i], k, ls, was, a, for)
    BY <1>1, <2>1, SentIs
  <2>3. QED
    BY <2>1, <2>2 DEF IsSent
<1>7. ASSUME l \in new
      PROVE  \E n \in Out(q1, l) : /\ n \notin 1 .. m /\ IsSent(q1[n], l, ls, was, a, for)
                                   /\ \A i \in Out(q1, l) : i = n \/ (i \in 1 .. m /\ i < n)
  <2>1. PICK r \in sent : IsSent(r, l, ls, was, a, for)
    BY <1>1, <1>7, SentIs
  <2>2. PICK n \in m + 1 .. Len(q1) : q1[n] = r
    BY <1>3, <2>1 DEF Settles
  <2>3. n \in 1 .. Len(q1) /\ n \notin 1 .. m
    BY <1>4
  <2>4. n \in Out(q1, l)
    BY <2>1, <2>2, <2>3 DEF Out, IsSent
  <2>5. ASSUME NEW i \in Out(q1, l), i \notin 1 .. m PROVE i = n
    <3>1. i \in m + 1 .. Len(q1) /\ q1[i] \in sent /\ q1[i].name = r.name
      BY <1>6, <2>1, <2>5 DEF IsSent
    <3>2. q1[i] = r
      BY <1>1, <3>1, SentIs
    <3>3. QED
      BY <1>4, <2>2, <3>1, <3>2
  <2>6. \A i \in Out(q1, l) : i = n \/ (i \in 1 .. m /\ i < n)
    BY <1>4, <2>5
  <2>7. QED
    BY <2>1, <2>2, <2>3, <2>4, <2>6
<1>8. ASSUME NEW j \in Out(q0, l), ~Outdated(q0[j], new, a) PROVE \E i \in Out(q1, l) : i \in 1 .. m /\ e[i] = j
  <2>1. j \in 1 .. Len(q0) /\ q0[j].load /\ q0[j].name = l
    BY DEF Out
  <2>2. PICK i \in 1 .. m : e[i] = j
    BY <1>3, <1>8, <2>1 DEF Settles
  <2>3. Becomes(q0[j], q1[i], J, new, a, for) /\ i \in 1 .. Len(q1)
    BY <1>4, <2>2
  <2>4. QED
    BY <2>1, <2>2, <2>3 DEF Becomes, Out
<1>9. \A i \in Out(q1, l) : l \notin new => i \in 1 .. m
  BY <1>6
<1>10. OutBecomes(q0, q1, m, e, J, new, ls, was, a, for, l)
  BY <1>4, <1>5, <1>7, <1>8, <1>9 DEF OutBecomes
<1>11. QED
  BY <1>1, <1>3, <1>4, <1>10

\* A request that brings what a load shows up to date, and one that may bring an old copy.
Clears(c, l) == IF c.late THEN ~S.loads[l].keyed ELSE c.miss \notin Followed
Taints(c) == ~c.late /\ c.miss \in Followed

\* As long as an old copy is shown, or under way, one that brings it up to date comes after it.
OwedInv(q, s, l) ==
  /\ s[l].miss \in Followed => \E i \in Out(q, l) : Clears(q[i], l)
  /\ \A j \in Out(q, l) : Taints(q[j]) => \E i \in Out(q, l) : j < i /\ Clears(q[i], l)
\* What comes late to a keyed load was asked for first.
OrderInv(q, l) == S.loads[l].keyed => \A i, j \in Out(q, l) : i < j /\ q[j].late => q[i].late
\* No call will bring an old copy.
CallsUpToDate(q) == \A j \in 1 .. Len(q) : ~q[j].load => q[j].miss \notin Followed
AllOwed ==
  Rereading => /\ \A l \in LoadNames : OwedInv(calls, shown, l) /\ OrderInv(calls, l)
               /\ CallsUpToDate(calls)

LEMMA NotFollowed ==
  ASSUME TypeOK
  PROVE  \A x \in {"", "first", "late", "failed"} : x \notin Followed
BY Described DEF Followed

LEMMA OwedSettle ==
  ASSUME TypeOK, NEW ls \in SUBSET LoadNames, NEW was \in Selections, NEW a \in Selections,
         NEW f, NEW s, NEW q0 \in Seq(Requests), NEW for \in SUBSET ActNames,
         Settle(ls, was, a, f, s, q0, for), NEW l \in LoadNames, OrderInv(q0, l),
         OwedInv(q0, s, l) \/ (l \in ls /\ S.loads[l].needs = {}),
         S.loads[l].joins => S.loads[l].keyed,
         l \in ls /\ S.loads[l].joins =>
           /\ \A j \in 1 .. Len(q0) : For(q0[j], l, Key(l, at))
           /\ (\E k \in 1 .. Len(calls) : Joins(l, calls[k])) => \E j \in 1 .. Len(q0) : Joins(l, q0[j])
  PROVE  OwedInv(calls', shown', l) /\ OrderInv(calls', l)
<1>1. PICK q1, J, new : /\ q1 = calls'
                        /\ J = {k \in ls : Joinable(k, a)}
                        /\ new = New(ls, a, f)
  OBVIOUS
<1>2. \E m \in Nat : \E e : e \in [1 .. m -> 1 .. Len(q0)] /\ OutBecomes(q0, q1, m, e, J, new, ls, was, a, for, l)
  BY <1>1, OutSettle
<1>3. PICK m, e : m \in Nat /\ e \in [1 .. m -> 1 .. Len(q0)] /\ OutBecomes(q0, q1, m, e, J, new, ls, was, a, for, l)
  BY <1>2
<1>4. \A i \in Out(q1, l) : i \in 1 .. m => e[i] \in Out(q0, l) /\ Becomes(q0[e[i]], q1[i], J, new, a, for)
  BY <1>3 DEF OutBecomes
<1>5. \A j \in 1 .. Len(q0) : Outdated(q0[j], new, a) /\ j \in Out(q0, l) => S.loads[l].keyed /\ (l \in new \/ Moved(l, a))
  BY DEF Out, Outdated
<1>6. \A j \in Out(q0, l) : S.loads[l].keyed /\ (l \in new \/ Moved(l, a)) => Outdated(q0[j], new, a)
  BY DEF Out, Outdated
<1>7. \A x \in {"", "first", "late", "failed"} : x \notin Followed
  BY NotFollowed
<1>8. \A i \in Out(q1, l) : i \in 1 .. m => /\ q1[i].late = (q0[e[i]].late \/ Outdated(q0[e[i]], new, a))
                                            /\ e[i] \in 1 .. Len(q0)
  BY <1>4 DEF Becomes, Out
<1>9. shown' = [k \in LoadNames |-> IF \/ Moved(k, a) /\ S.loads[k].keyed
                                       \/ k \in new /\ S.loads[k].blank
                                    THEN Nothing ELSE s[k]]
  BY <1>1 DEF Settle
<1>10. CASE l \in new
  <2>1. PICK n \in Out(q1, l) : /\ n \notin 1 .. m /\ IsSent(q1[n], l, ls, was, a, for)
                                /\ \A i \in Out(q1, l) : i = n \/ (i \in 1 .. m /\ i < n)
    BY <1>3, <1>10 DEF OutBecomes
  <2>2. Clears(q1[n], l) /\ ~Taints(q1[n]) /\ ~q1[n].late
    BY <1>7, <2>1 DEF IsSent, Clears, Taints
  <2>3. ASSUME S.loads[l].keyed, NEW i \in Out(q1, l), i \in 1 .. m PROVE q1[i].late
    BY <1>4, <1>6, <1>8, <1>10, <2>3
  <2>4. OwedInv(q1, shown', l)
    BY <2>1, <2>2 DEF OwedInv
  <2>5. ASSUME S.loads[l].keyed, NEW i \in Out(q1, l), NEW j \in Out(q1, l), i < j, q1[j].late PROVE q1[i].late
    <3>1. j \in 1 .. m /\ i \in Nat /\ j \in Nat
      BY <2>1, <2>2, <2>5 DEF Out
    <3>2. i \in 1 .. m
      BY <1>3, <2>1, <2>5, <3>1
    <3>3. QED
      BY <2>3, <2>5, <3>2
  <2>6. QED
    BY <1>1, <2>4, <2>5 DEF OrderInv
<1>11. CASE l \notin new /\ S.loads[l].keyed /\ Moved(l, a)
  <2>1. shown'[l].miss = ""
    BY <1>9, <1>11 DEF Nothing
  <2>2. \A i \in Out(q1, l) : i \in 1 .. m
    BY <1>3, <1>11 DEF OutBecomes
  <2>3. \A i \in Out(q1, l) : q1[i].late
    BY <1>4, <1>6, <1>8, <1>11, <2>2
  <2>4. QED
    BY <1>1, <1>7, <2>1, <2>3 DEF OwedInv, OrderInv, Taints
<1>12. CASE l \notin new /\ ~(S.loads[l].keyed /\ Moved(l, a))
  <2>1. \A i \in Out(q1, l) : i \in 1 .. m
    BY <1>3, <1>12 DEF OutBecomes
  <2>2. \A i \in Out(q1, l) : q1[i].late = q0[e[i]].late
    <3>1. ASSUME NEW i \in Out(q1, l) PROVE q1[i].late = q0[e[i]].late
      <4>1. ~Outdated(q0[e[i]], new, a) /\ q0[e[i]].late \in BOOLEAN
        BY <1>4, <1>5, <1>8, <1>12, <2>1 DEF Requests
      <4>2. QED
        BY <1>8, <2>1, <4>1
    <3>2. QED
      BY <3>1
  <2>3. \A j \in Out(q0, l) : \E i \in Out(q1, l) : i \in 1 .. m /\ e[i] = j
    BY <1>3, <1>5, <1>12 DEF OutBecomes, Out
  <2>4. shown'[l] = s[l]
    BY <1>9, <1>12
  <2>5. \A i, j \in Out(q1, l) : i < j <=> e[i] < e[j]
    <3>1. ASSUME NEW i \in Out(q1, l), NEW j \in Out(q1, l) PROVE i < j <=> e[i] < e[j]
      <4>1. /\ i \in 1 .. m /\ j \in 1 .. m /\ e[i] \in Nat /\ e[j] \in Nat
            /\ i < j => e[i] < e[j]
            /\ j < i => e[j] < e[i]
        BY <1>3, <1>8, <2>1 DEF OutBecomes
      <4>2. QED
        BY <4>1
    <3>2. QED
      BY <3>1
  <2>6. OrderInv(q1, l)
    BY <1>4, <2>1, <2>2, <2>5 DEF OrderInv
  <2>7. CASE l \in J
    <3>1. PICK k \in 1 .. Len(calls) : Joins(l, calls[k])
      BY <1>1, <2>7 DEF Joinable
    <3>2. l \in ls /\ S.loads[l].joins /\ S.loads[l].keyed /\ shown[l].key = 0
      BY <1>1, <2>7, <3>1 DEF Joins
    <3>3. PICK j \in 1 .. Len(q0) : Joins(l, q0[j])
      BY <3>1, <3>2
    <3>4. j \in Out(q0, l) /\ ~q0[j].late
      BY <3>3 DEF Joins, Out
    <3>5. PICK i \in Out(q1, l) : i \in 1 .. m /\ e[i] = j
      BY <2>3, <3>4
    <3>6. Becomes(q0[j], q1[i], J, new, a, for)
      BY <1>4, <3>5
    <3>7. q1[i].miss \in {"", "first"} /\ ~q1[i].late
      BY <2>2, <2>7, <3>3, <3>4, <3>5, <3>6 DEF Becomes
    <3>8. Clears(q1[i], l)
      BY <1>7, <3>7 DEF Clears
    <3>9. ASSUME NEW h \in Out(q1, l) PROVE ~Taints(q1[h])
      <4>1. SUFFICES ASSUME ~q1[h].late PROVE q1[h].miss \notin Followed
        BY DEF Taints
      <4>2. e[h] \in Out(q0, l) /\ Becomes(q0[e[h]], q1[h], J, new, a, for) /\ ~q0[e[h]].late
        BY <1>4, <2>1, <2>2, <4>1
      <4>3. Joins(l, q0[e[h]])
        <5>1. q0[e[h]].load /\ q0[e[h]].name = l /\ e[h] \in 1 .. Len(q0)
          BY <4>2 DEF Out
        <5>2. q0[e[h]].obj = Key(l, at)
          BY <3>2, <4>2, <5>1 DEF For
        <5>3. QED
          BY <3>2, <4>2, <5>1, <5>2 DEF Joins
      <4>4. q1[h].miss \in {"", "first"}
        BY <2>7, <4>2, <4>3 DEF Becomes
      <4>5. QED
        BY <1>7, <4>4
    <3>10. QED
      BY <1>1, <2>6, <3>8, <3>9 DEF OwedInv
  <2>8. CASE l \notin J
    <3>1. ASSUME l \in ls, S.loads[l].needs = {} PROVE FALSE
      BY <1>1, <1>12, <2>8, <3>1 DEF New, Wanted, Enabled
    <3>2. OwedInv(q0, s, l)
      BY <3>1
    <3>3. \A i \in Out(q1, l) : q1[i].miss = q0[e[i]].miss
      <4>1. ASSUME NEW i \in Out(q1, l) PROVE q1[i].miss = q0[e[i]].miss
        <5>1. Becomes(q0[e[i]], q1[i], J, new, a, for) /\ q0[e[i]].name = l
          BY <1>4, <2>1 DEF Out
        <5>2. ~\E k \in J : Joins(k, q0[e[i]])
          BY <2>8, <5>1 DEF Joins
        <5>3. QED
          BY <5>1, <5>2 DEF Becomes
      <4>2. QED
        BY <4>1
    <3>4. \A i \in Out(q1, l) : /\ Clears(q1[i], l) <=> Clears(q0[e[i]], l)
                                /\ Taints(q1[i]) <=> Taints(q0[e[i]])
      BY <2>2, <3>3 DEF Clears, Taints
    <3>5. ASSUME s[l].miss \in Followed PROVE \E i \in Out(q1, l) : Clears(q1[i], l)
      <4>1. PICK j \in Out(q0, l) : Clears(q0[j], l)
        BY <3>2, <3>5 DEF OwedInv
      <4>2. QED
        BY <2>3, <3>4, <4>1
    <3>6. ASSUME NEW h \in Out(q1, l), Taints(q1[h]) PROVE \E i \in Out(q1, l) : h < i /\ Clears(q1[i], l)
      <4>1. e[h] \in Out(q0, l) /\ Taints(q0[e[h]])
        BY <1>4, <2>1, <3>4, <3>6
      <4>2. PICK j \in Out(q0, l) : e[h] < j /\ Clears(q0[j], l)
        BY <3>2, <4>1 DEF OwedInv
      <4>3. PICK i \in Out(q1, l) : e[i] = j
        BY <2>3
      <4>4. h < i /\ Clears(q1[i], l)
        BY <2>5, <3>4, <4>2, <4>3
      <4>5. QED
        BY <4>4
    <3>7. OwedInv(q1, shown', l)
      BY <2>4, <3>5, <3>6 DEF OwedInv
    <3>8. QED
      BY <1>1, <2>6, <3>7
  <2>9. QED
    BY <2>7, <2>8
<1>13. QED
  BY <1>10, <1>11, <1>12

\* What the answer to request c, or its failure, makes of what is shown.
Brings(c, s) ==
  /\ \A l \in LoadNames : l # c.name => s[l] = shown[l]
  /\ Dropped(c) => s = shown
  /\ ~Dropped(c) => \/ s[c.name].miss \in {"", "failed"}
                    \/ c.late /\ s[c.name].miss = "late"
                    \/ ~c.late /\ s[c.name].miss = c.miss

LEMMA ReadMiss ==
  ASSUME TypeOK, NEW c \in Requests, c.load, c.name \in LoadNames,
         NEW s, s \in {Failed(c), Received(c, TRUE), Received(c, FALSE)}
  PROVE  Brings(c, s)
<1>1. DOMAIN shown = LoadNames /\ shown = [l \in LoadNames |-> shown[l]]
  BY DEF TypeOK
<1>2. \A l \in LoadNames : l # c.name => s[l] = shown[l]
  BY <1>1 DEF Failed, Received
<1>3. ASSUME Dropped(c) PROVE s = shown
  <2>1. CASE s = Failed(c)
    BY <1>1, <1>3, <2>1 DEF Failed
  <2>2. CASE s # Failed(c)
    BY <1>3, <2>2 DEF Received
  <2>3. QED
    BY <2>1, <2>2
<1>4. ASSUME ~Dropped(c), NEW stale \in BOOLEAN, s = Received(c, stale)
      PROVE  \/ s[c.name].miss = ""
             \/ c.late /\ s[c.name].miss = "late"
             \/ ~c.late /\ s[c.name].miss = c.miss
  <2>1. PICK x : x = IF c.late THEN "late" ELSE IF stale THEN c.miss ELSE ""
    OBVIOUS
  <2>2. s = [shown EXCEPT ![c.name] = [key |-> c.obj, miss |-> x]]
    BY <1>4, <2>1 DEF Received
  <2>3. s[c.name].miss = x
    BY <1>1, <2>2
  <2>4. QED
    BY <2>1, <2>3
<1>5. ASSUME ~Dropped(c), s = Failed(c) PROVE s[c.name].miss \in {"", "failed"}
  <2>1. PICK v : v = shown[c.name] /\ v \in [key : {0} \union Ids, miss : {"late", "failed"} \union Misses]
    BY DEF TypeOK
  <2>2. s[c.name] = IF S.loads[c.name].blanked THEN Nothing
                    ELSE IF v.key \in {0, c.obj} /\ v.miss = "" THEN v ELSE [v EXCEPT !.miss = "failed"]
    BY <1>1, <1>5, <2>1 DEF Failed
  <2>3. Nothing.miss = "" /\ [v EXCEPT !.miss = "failed"].miss = "failed"
    BY <2>1 DEF Nothing
  <2>4. QED
    BY <2>2, <2>3
<1>6. QED
  BY <1>2, <1>3, <1>4, <1>5 DEF Brings

\* Where the requests for load l that the answer to request i leaves were.
LEMMA OutLeft ==
  ASSUME TypeOK, NEW i \in 1 .. Len(calls), NEW q, Left(q, i), NEW l
  PROVE  /\ \A j \in Out(q, l) : /\ Place(i, j) \in Out(calls, l) /\ Place(i, j) # i
                                 /\ j \in 1 .. Len(calls) - 1 /\ q[j] \in Requests
         /\ \A k \in Out(calls, l) : k # i => \E j \in Out(q, l) : Place(i, j) = k
         /\ \A j, k \in Out(q, l) : j < k <=> Place(i, j) < Place(i, k)
<1>1. Len(calls) \in Nat /\ Len(q) = Len(calls) - 1 /\ q \in Seq(Requests)
  BY FlagsHold DEF Left
<1>2. ASSUME NEW j \in Out(q, l)
      PROVE  /\ Place(i, j) \in Out(calls, l) /\ Place(i, j) # i
             /\ j \in 1 .. Len(calls) - 1 /\ q[j] \in Requests
  BY <1>1 DEF Out, Left, Same
<1>3. \A k \in 1 .. Len(calls) : k # i => \E j \in 1 .. Len(calls) - 1 : Place(i, j) = k
  BY <1>1, PlaceOnto
<1>4. ASSUME NEW k \in Out(calls, l), k # i PROVE \E j \in Out(q, l) : Place(i, j) = k
  <2>1. k \in 1 .. Len(calls)
    BY DEF Out
  <2>2. PICK j \in 1 .. Len(calls) - 1 : Place(i, j) = k
    BY <1>3, <1>4, <2>1
  <2>3. j \in Out(q, l)
    BY <1>1, <2>2 DEF Out, Left, Same
  <2>4. QED
    BY <2>2, <2>3
<1>5. ASSUME NEW j \in Out(q, l), NEW k \in Out(q, l) PROVE j < k <=> Place(i, j) < Place(i, k)
  <2>1. j \in 1 .. Len(calls) - 1 /\ k \in 1 .. Len(calls) - 1
    BY <1>2
  <2>2. QED
    BY <1>1, <2>1 DEF Place
<1>6. QED
  BY <1>2, <1>4, <1>5

LEMMA OwedRest ==
  ASSUME TypeOK, NEW l \in LoadNames, OwedInv(calls, shown, l), OrderInv(calls, l),
         NEW i \in 1 .. Len(calls), calls[i].load,
         NEW s, s \in {Failed(calls[i]), Received(calls[i], TRUE), Received(calls[i], FALSE)}
  PROVE  OwedInv(Rest(i), s, l) /\ OrderInv(Rest(i), l)
<1>1. PICK c : c = calls[i] /\ c \in Requests /\ c.load /\ c.name \in LoadNames
  BY FlagsHold DEF Requests
<1>2. PICK q : q = Rest(i) /\ Left(q, i)
  BY AnswersLeave
<1>3. /\ \A j \in Out(q, l) : /\ Place(i, j) \in Out(calls, l) /\ Place(i, j) # i
                              /\ j \in 1 .. Len(calls) - 1 /\ q[j] \in Requests
      /\ \A k \in Out(calls, l) : k # i => \E j \in Out(q, l) : Place(i, j) = k
      /\ \A j, k \in Out(q, l) : j < k <=> Place(i, j) < Place(i, k)
  BY <1>2, OutLeft
<1>4. ASSUME NEW j \in Out(q, l)
      PROVE  /\ q[j].miss = calls[Place(i, j)].miss
             /\ q[j].late = (calls[Place(i, j)].late \/ (Place(i, j) < i /\ l = c.name))
  <2>1. /\ \A h \in 1 .. Len(calls) - 1 :
             /\ q[h].miss = calls[Place(i, h)].miss
             /\ q[h].late = (calls[Place(i, h)].late
                              \/ (Place(i, h) < i /\ calls[Place(i, h)].load /\ calls[Place(i, h)].name = calls[i].name))
    BY <1>2, RestCalls
  <2>2. Place(i, j) \in Out(calls, l) /\ j \in 1 .. Len(calls) - 1
    BY <1>3
  <2>3. QED
    BY <1>1, <2>1, <2>2 DEF Out
<1>5. \A k \in Out(calls, l) : k \in Nat /\ calls[k].late \in BOOLEAN
  BY FlagsHold DEF Out, Requests
<1>6. \A x \in {"", "first", "late", "failed"} : x \notin Followed
  BY NotFollowed
<1>7. i \in Nat
  BY FlagsHold
<1>8. l = c.name => i \in Out(calls, l)
  BY <1>1 DEF Out
<1>9. OrderInv(q, l)
  <2> SUFFICES ASSUME S.loads[l].keyed, NEW j \in Out(q, l), NEW k \in Out(q, l), j < k, q[k].late PROVE q[j].late
    BY DEF OrderInv
  <2>1. Place(i, j) < Place(i, k) /\ Place(i, j) \in Out(calls, l) /\ Place(i, k) \in Out(calls, l)
    BY <1>3
  <2>2. CASE calls[Place(i, k)].late
    <3>1. calls[Place(i, j)].late
      BY <2>1, <2>2 DEF OrderInv
    <3>2. QED
      BY <1>4, <3>1
  <2>3. CASE Place(i, k) < i /\ l = c.name
    <3>1. Place(i, j) < i
      BY <1>5, <1>7, <2>1, <2>3
    <3>2. QED
      BY <1>4, <2>3, <3>1
  <2>4. QED
    BY <1>4, <2>2, <2>3
<1>10. ASSUME NEW j \in Out(q, l), Taints(q[j]) PROVE \E k \in Out(q, l) : j < k /\ Clears(q[k], l)
  <2>1. Place(i, j) \in Out(calls, l) /\ Taints(calls[Place(i, j)]) /\ ~(Place(i, j) < i /\ l = c.name)
    BY <1>3, <1>4, <1>10 DEF Taints
  <2>2. PICK k \in Out(calls, l) : Place(i, j) < k /\ Clears(calls[k], l)
    BY <2>1 DEF OwedInv
  <2>3. k # i
    <3>1. CASE l = c.name
      BY <1>3, <1>5, <1>7, <1>8, <2>1, <2>2, <3>1
    <3>2. CASE l # c.name
      BY <1>1, <3>2 DEF Out
    <3>3. QED
      BY <3>1, <3>2
  <2>4. PICK h \in Out(q, l) : Place(i, h) = k
    BY <1>3, <2>3
  <2>5. ~(k < i /\ l = c.name)
    BY <1>3, <1>5, <1>7, <1>8, <2>1, <2>2
  <2>6. q[h].miss = calls[k].miss /\ q[h].late = calls[k].late
    BY <1>4, <1>5, <2>4, <2>5
  <2>7. j < h /\ Clears(q[h], l)
    BY <1>3, <2>2, <2>4, <2>6 DEF Clears
  <2>8. QED
    BY <2>7
<1>11. ASSUME s[l].miss \in Followed PROVE \E k \in Out(q, l) : Clears(q[k], l)
  <2>1. /\ l # c.name => s[l] = shown[l]
        /\ Dropped(c) => s = shown
        /\ ~Dropped(c) => \/ s[c.name].miss \in {"", "failed"}
                          \/ c.late /\ s[c.name].miss = "late"
                          \/ ~c.late /\ s[c.name].miss = c.miss
    <3>1. s \in {Failed(c), Received(c, TRUE), Received(c, FALSE)}
      BY <1>1
    <3>2. Brings(c, s)
      BY <1>1, <3>1, ReadMiss
    <3>3. QED
      BY <3>2 DEF Brings
  <2>2. PICK k \in Out(calls, l) : Clears(calls[k], l) /\ k # i /\ ~(k < i /\ l = c.name)
    <3>1. CASE l # c.name
      <4>1. PICK k \in Out(calls, l) : Clears(calls[k], l)
        BY <1>11, <2>1, <3>1 DEF OwedInv
      <4>2. k # i
        BY <1>1, <3>1 DEF Out
      <4>3. QED
        BY <3>1, <4>1, <4>2
    <3>2. CASE l = c.name /\ Dropped(c)
      <4>1. PICK k \in Out(calls, l) : Clears(calls[k], l)
        BY <1>11, <2>1, <3>2 DEF OwedInv
      <4>2. S.loads[l].keyed /\ calls[i].late /\ ~calls[k].late
        BY <1>1, <3>2, <4>1 DEF Dropped, Clears
      <4>3. k # i /\ ~(k < i)
        BY <1>8, <3>2, <4>2 DEF OrderInv
      <4>4. QED
        BY <4>1, <4>3
    <3>3. CASE l = c.name /\ ~Dropped(c)
      <4>1. ~c.late /\ c.miss \in Followed
        BY <1>6, <1>11, <2>1, <3>3
      <4>2. Taints(calls[i]) /\ i \in Out(calls, l)
        BY <1>1, <1>8, <3>3, <4>1 DEF Taints
      <4>3. PICK k \in Out(calls, l) : i < k /\ Clears(calls[k], l)
        BY <4>2 DEF OwedInv
      <4>4. k # i /\ ~(k < i)
        BY <1>5, <1>7, <4>3
      <4>5. QED
        BY <4>3, <4>4
    <3>4. QED
      BY <3>1, <3>2, <3>3
  <2>3. PICK h \in Out(q, l) : Place(i, h) = k
    BY <1>3, <2>2
  <2>4. q[h].miss = calls[k].miss /\ q[h].late = calls[k].late
    BY <1>4, <1>5, <2>2, <2>3
  <2>5. QED
    BY <2>2, <2>3, <2>4 DEF Clears
<1>12. QED
  BY <1>2, <1>9, <1>10, <1>11 DEF OwedInv

\* The answer to a call leaves the requests as they are, but for what they miss.
LEMMA OwedLeft ==
  ASSUME TypeOK, NEW l \in LoadNames, OwedInv(calls, shown, l), OrderInv(calls, l),
         NEW i \in 1 .. Len(calls), ~calls[i].load, NEW q, Left(q, i), NEW s
  PROVE  /\ OrderInv(q, l)
         /\ \/ ~ \A j \in Out(q, l) : q[j].miss \in Followed => calls[Place(i, j)].miss \in Followed
            \/ s[l].miss \in Followed /\ shown[l].miss \notin Followed
            \/ OwedInv(q, s, l)
<1>1. /\ \A j \in Out(q, l) : /\ Place(i, j) \in Out(calls, l) /\ Place(i, j) # i
                              /\ j \in 1 .. Len(calls) - 1 /\ q[j] \in Requests
      /\ \A k \in Out(calls, l) : k # i => \E j \in Out(q, l) : Place(i, j) = k
      /\ \A j, k \in Out(q, l) : j < k <=> Place(i, j) < Place(i, k)
  BY OutLeft
<1>2. \A j \in Out(q, l) : q[j].late <=> calls[Place(i, j)].late
  BY <1>1 DEF Left
<1>3. i \notin Out(calls, l)
  BY DEF Out
<1>4. OrderInv(q, l)
  BY <1>1, <1>2 DEF OrderInv
<1>5. ASSUME \A j \in Out(q, l) : q[j].miss \in Followed => calls[Place(i, j)].miss \in Followed,
             s[l].miss \in Followed => shown[l].miss \in Followed
      PROVE  OwedInv(q, s, l)
  <2>1. \A j \in Out(q, l) : /\ Clears(calls[Place(i, j)], l) => Clears(q[j], l)
                             /\ Taints(q[j]) => Taints(calls[Place(i, j)])
    BY <1>2, <1>5 DEF Clears, Taints
  <2>2. ASSUME s[l].miss \in Followed PROVE \E j \in Out(q, l) : Clears(q[j], l)
    <3>1. PICK k \in Out(calls, l) : Clears(calls[k], l)
      BY <1>5, <2>2 DEF OwedInv
    <3>2. QED
      BY <1>1, <1>3, <2>1, <3>1
  <2>3. ASSUME NEW j \in Out(q, l), Taints(q[j]) PROVE \E h \in Out(q, l) : j < h /\ Clears(q[h], l)
    <3>1. Place(i, j) \in Out(calls, l) /\ Taints(calls[Place(i, j)])
      BY <1>1, <2>1, <2>3
    <3>2. PICK k \in Out(calls, l) : Place(i, j) < k /\ Clears(calls[k], l)
      BY <3>1 DEF OwedInv
    <3>3. PICK h \in Out(q, l) : Place(i, h) = k
      BY <1>1, <1>3
    <3>4. j < h /\ Clears(q[h], l)
      BY <1>1, <2>1, <3>2, <3>3
    <3>5. QED
      BY <3>4
  <2>4. QED
    BY <2>2, <2>3 DEF OwedInv
<1>6. QED
  BY <1>4, <1>5

LEMMA UpToDateSettle ==
  ASSUME TypeOK, NEW ls \in SUBSET LoadNames, NEW was \in Selections, NEW a \in Selections,
         NEW f, NEW s, NEW q0 \in Seq(Requests), NEW for \in SUBSET ActNames,
         Settle(ls, was, a, f, s, q0, for), CallsUpToDate(q0)
  PROVE  CallsUpToDate(calls')
<1>1. PICK q1, J, new : /\ q1 = calls'
                        /\ J = {l \in ls : Joinable(l, a)}
                        /\ new = New(ls, a, f)
  OBVIOUS
<1>2. \A i \in 1 .. Len(q1) : \/ \E j \in 1 .. Len(q0) : Becomes(q0[j], q1[i], J, new, a, for)
                              \/ \E l \in new : IsSent(q1[i], l, ls, was, a, for)
  BY <1>1, SettledEach
<1>3. ASSUME NEW i \in 1 .. Len(q1), ~q1[i].load PROVE q1[i].miss \notin Followed
  <2>1. PICK j \in 1 .. Len(q0) : Becomes(q0[j], q1[i], J, new, a, for)
    BY <1>2, <1>3 DEF IsSent
  <2>2. ~q0[j].load /\ q1[i].miss = q0[j].miss
    BY <1>3, <2>1 DEF Becomes, Joins
  <2>3. QED
    BY <2>2 DEF CallsUpToDate
<1>4. QED
  BY <1>1, <1>3 DEF CallsUpToDate

LEMMA UpToDateLeft ==
  ASSUME TypeOK, CallsUpToDate(calls), NEW i \in 1 .. Len(calls)
  PROVE  /\ calls[i].load => CallsUpToDate(Rest(i))
         /\ CallsUpToDate(Without(i))
<1>1. Len(calls) \in Nat
  BY FlagsHold
<1>2. ASSUME calls[i].load PROVE CallsUpToDate(Rest(i))
  <2>1. PICK q : q = Rest(i)
    OBVIOUS
  <2>2. Len(q) = Len(calls) - 1 /\ \A j \in 1 .. Len(calls) - 1 :
          /\ Place(i, j) \in 1 .. Len(calls)
          /\ q[j].load = calls[Place(i, j)].load /\ q[j].miss = calls[Place(i, j)].miss
    BY <2>1, RestCalls DEF Same
  <2>3. QED
    BY <2>1, <2>2 DEF CallsUpToDate
<1>3. CallsUpToDate(Without(i))
  <2>1. PICK q : q = Without(i)
    OBVIOUS
  <2>2. Len(q) = Len(calls) - 1 /\ \A j \in 1 .. Len(calls) - 1 :
          /\ Place(i, j) \in 1 .. Len(calls) /\ q[j] = calls[Place(i, j)]
    BY <2>1, WithoutCalls
  <2>3. QED
    BY <2>1, <2>2 DEF CallsUpToDate
<1>4. QED
  BY <1>2, <1>3

\* What a request still out makes of an answer to a call of a.
Passes(c, d, a) ==
  /\ Same(c, d) /\ d.late = c.late /\ d.for = c.for
  /\ d.miss = IF \/ c.load /\ c.name \in Reading(S.acts[a].changes)
                 \/ ~c.load /\ S.acts[c.name].replaces \intersect Reading(S.acts[a].changes) # {}
              THEN a ELSE c.miss

LEMMA PassedEach ==
  ASSUME NEW q \in Seq(Requests), NEW a \in ActNames
  PROVE  /\ Len(Passed(q, a)) = Len(q)
         /\ \A j \in 1 .. Len(q) : Passes(q[j], Passed(q, a)[j], a)
<1>1. ASSUME NEW j \in 1 .. Len(q) PROVE Passes(q[j], Passed(q, a)[j], a)
  BY PassedCalls DEF Passes
<1>2. QED
  BY <1>1, PassedCalls

\* A write that is answered with what another write changed is locked out by it.
LEMMA UpToDatePassed ==
  ASSUME TypeOK, Locked, Rereading, CallsUpToDate(calls), NEW i \in 1 .. Len(calls), ~calls[i].load
  PROVE  CallsUpToDate(Passed(Without(i), calls[i].name))
<1>1. PICK w \in ActNames : w = calls[i].name
  BY FlagsHold DEF Requests
<1>2. PICK q0 \in Seq(Requests) : q0 = Without(i) /\ CallsUpToDate(q0)
  BY UpToDateLeft, WithoutCalls
<1>3. PICK q : q = Passed(q0, w) /\ Left(q, i)
  BY <1>1, <1>2, AnswersLeave
<1>4. Len(q) = Len(q0) /\ \A j \in 1 .. Len(q0) : Passes(q0[j], q[j], w)
  BY <1>2, <1>3, PassedEach
<1>5. ASSUME NEW j \in 1 .. Len(q), ~q[j].load PROVE q[j].miss \notin Followed
  <2>1. PICK d : d = q[j]
    OBVIOUS
  <2>2. Same(q0[j], d) /\ d.miss = IF \/ q0[j].load /\ q0[j].name \in Reading(S.acts[w].changes)
                                      \/ ~q0[j].load /\ S.acts[q0[j].name].replaces \intersect Reading(S.acts[w].changes) # {}
                                   THEN w ELSE q0[j].miss
    BY <1>4, <2>1 DEF Passes
  <2>3. ~q0[j].load /\ d.name = q0[j].name /\ q0[j] \in Requests
    BY <1>4, <1>5, <2>1, <2>2 DEF Same
  <2>4. q0[j].miss \notin Followed
    BY <1>2, <1>4, <2>3 DEF CallsUpToDate
  <2>5. ASSUME S.acts[d.name].replaces \intersect Reading(S.acts[w].changes) # {} PROVE w \notin Followed
    <3>1. SUFFICES ASSUME w \in Followed PROVE FALSE
      OBVIOUS
    <3>2. d.name \in ActNames
      BY <2>3 DEF Requests
    <3>3. d.name = w /\ \E x \in Busy(w) : Lock(x)
      BY <2>5, <3>1, <3>2 DEF Rereading
    <3>4. PICK x \in Busy(w) : Lock(x)
      BY <3>3
    <3>5. x \in Flags
      BY <1>1, BusyFlags
    <3>6. LockInv(calls, flags, x)
      BY <3>4, <3>5 DEF Locked
    <3>7. Calling(q, x) = {}
      BY <1>1, <1>3, <3>4, <3>5, <3>6, LockAlone
    <3>8. j \in Calling(q, x)
      BY <1>5, <2>1, <3>3, <3>4 DEF Calling
    <3>9. QED
      BY <3>7, <3>8
  <2>6. QED
    BY <2>1, <2>2, <2>3, <2>4, <2>5
<1>6. QED
  BY <1>1, <1>2, <1>3, <1>5 DEF CallsUpToDate

\* What is shown of load l after a write misses one that is to be followed only if it did
\* before, or if that write asks for l again.
LEMMA WriteMiss ==
  ASSUME TypeOK, Rereading, NEW c \in Requests, ~c.load, c.miss \notin Followed, NEW l \in LoadNames
  PROVE  LET act == S.acts[c.name]
         IN /\ \/ shown[l].miss \in Followed
               \/ Missing(c, act)[l].miss \notin Followed
               \/ c.name \in Followed /\ l \in Reading(act.changes) \ (act.patches \union act.replaces)
            /\ shown[l].miss \in Followed \/ AfterFailure(c, act)[l].miss \notin Followed
<1>1. PICK act : act = S.acts[c.name]
  OBVIOUS
<1>2. c.name \in ActNames
  BY DEF Requests
<1>3. PICK v : v = shown[l] /\ v \in [key : {0} \union Ids, miss : {"late", "failed"} \union Misses]
  BY DEF TypeOK
<1>4. ASSUME NEW w PROVE Old(shown[l], w).miss \in {shown[l].miss, w}
  BY <1>3 DEF Old
<1>5. \/ Missing(c, act)[l] = Old(shown[l], c.miss)
      \/ Missing(c, act)[l] = Old(shown[l], c.name) /\ l \in Reading(act.changes) \ (act.patches \union act.replaces)
      \/ Missing(c, act)[l] = shown[l]
  BY DEF Missing
<1>6. \/ shown[l].miss \in Followed
      \/ Missing(c, act)[l].miss \notin Followed
      \/ c.name \in Followed /\ l \in Reading(act.changes) \ (act.patches \union act.replaces)
  BY <1>4, <1>5
<1>7. c.name \in Followed => act.early = {} /\ ~act.parts
  BY <1>1 DEF Rereading
<1>8. shown[l].miss \in Followed \/ AfterFailure(c, act)[l].miss \notin Followed
  <2>1. CASE act.parts
    BY <1>6, <1>7, <2>1 DEF AfterFailure
  <2>2. CASE ~act.parts
    <3>1. AfterFailure(c, act)[l] = IF l \in act.early THEN Old(shown[l], c.name) ELSE shown[l]
      BY <2>2 DEF AfterFailure
    <3>2. QED
      BY <1>4, <1>7, <3>1
  <2>3. QED
    BY <2>1, <2>2
<1>9. QED
  BY <1>1, <1>6, <1>8

LEMMA OwedClick ==
  ASSUME TypeOK, Rereading, AllCertain, NEW l \in LoadNames, OwedInv(calls, shown, l), OrderInv(calls, l),
         NEW a \in ActNames, NEW o \in Objects(a), Click(a, o)
  PROVE  OwedInv(calls', shown', l) /\ OrderInv(calls', l)
<1>1. PICK sel \in Selections, f \in [Flags -> {0} \union Ids], ls \in SUBSET LoadNames, q \in Seq(Requests) :
        Clicks(sel, f, ls, q, a, o)
  BY ClickEach
<1>2. Settle(ls, at, sel, f, shown, q, {}) /\ at \in Selections /\ {} \in SUBSET ActNames
  BY <1>1, FlagsHold DEF Clicks
<1>3. Out(q, l) = Out(calls, l)
  BY <1>1, ClickOut
<1>4. ASSUME NEW j \in Out(calls, l)
      PROVE  /\ q[j].late = calls[j].late /\ q[j].miss = calls[j].miss /\ q[j].obj = calls[j].obj
             /\ q[j].load /\ q[j].name = l /\ calls[j].load /\ calls[j].name = l
             /\ j \in 1 .. Len(calls) /\ j \in 1 .. Len(q)
  <2>1. /\ Stands(calls[j], q[j], Closing(S.acts[a].clears)) /\ j \in Out(q, l)
    BY <1>1, <1>3, ClickOut
  <2>2. QED
    BY <2>1 DEF Stands, Same, Out
<1>5. OrderInv(q, l)
  BY <1>3, <1>4 DEF OrderInv
<1>6. \A j \in Out(calls, l) : /\ Clears(calls[j], l) <=> Clears(q[j], l)
                               /\ Taints(calls[j]) <=> Taints(q[j])
  BY <1>4 DEF Clears, Taints
<1>7. OwedInv(q, shown, l)
  BY <1>3, <1>6 DEF OwedInv
<1>8. S.loads[l].joins => S.loads[l].keyed /\ Certain(l)
  BY DEF Rereading
<1>9. ASSUME S.loads[l].joins
      PROVE  /\ \A j \in 1 .. Len(q) : For(q[j], l, Key(l, at))
             /\ (\E k \in 1 .. Len(calls) : Joins(l, calls[k])) => \E j \in 1 .. Len(q) : Joins(l, q[j])
  <2>1. \A k \in 1 .. Len(calls) : For(calls[k], l, Key(l, at))
    BY <1>8, <1>9 DEF AllCertain, OfSelected
  <2>2. ASSUME NEW j \in 1 .. Len(q) PROVE For(q[j], l, Key(l, at))
    <3>1. CASE q[j].load /\ q[j].name = l
      <4>1. j \in Out(calls, l)
        BY <1>3, <3>1 DEF Out
      <4>2. QED
        BY <1>4, <2>1, <4>1 DEF For
    <3>2. CASE ~(q[j].load /\ q[j].name = l)
      BY <3>2 DEF For
    <3>3. QED
      BY <3>1, <3>2
  <2>3. ASSUME NEW k \in 1 .. Len(calls), Joins(l, calls[k]) PROVE \E j \in 1 .. Len(q) : Joins(l, q[j])
    <3>1. k \in Out(calls, l)
      BY <2>3 DEF Out, Joins
    <3>2. Joins(l, q[k]) /\ k \in 1 .. Len(q)
      BY <1>4, <2>3, <3>1 DEF Joins
    <3>3. QED
      BY <3>2
  <2>4. QED
    BY <2>2, <2>3
<1>10. OwedInv(calls', shown', l) /\ OrderInv(calls', l)
  BY <1>2, <1>5, <1>7, <1>8, <1>9, OwedSettle
<1>11. QED
  BY <1>10

LEMMA OwedBackground ==
  ASSUME TypeOK, Rereading, AllCertain, NEW l \in LoadNames, OwedInv(calls, shown, l), OrderInv(calls, l),
         NEW k \in LoadNames, Background(k)
  PROVE  OwedInv(calls', shown', l) /\ OrderInv(calls', l)
<1>1. PICK ls \in SUBSET LoadNames : ls = {k} /\ Settle(ls, at, at, flags, shown, calls, {})
  BY DEF Background
<1>2. at \in Selections /\ {} \in SUBSET ActNames /\ calls \in Seq(Requests)
  BY DEF TypeOK
<1>3. S.loads[l].joins => S.loads[l].keyed /\ \A j \in 1 .. Len(calls) : For(calls[j], l, Key(l, at))
  BY DEF Rereading, AllCertain, OfSelected
<1>4. QED
  BY <1>1, <1>2, <1>3, OwedSettle

LEMMA OwedReadStep ==
  ASSUME TypeOK, Rereading, NEW l \in LoadNames, OwedInv(calls, shown, l), OrderInv(calls, l),
         NEW i \in 1 .. Len(calls), Loaded(i) \/ NotLoaded(i)
  PROVE  OwedInv(calls', shown', l) /\ OrderInv(calls', l)
<1>1. PICK sel, s :
          /\ sel \in Selections
          /\ Settle({}, at, sel, Finished(i), s, Rest(i), {})
          /\ s \in {Failed(calls[i]), Received(calls[i], TRUE), Received(calls[i], FALSE)}
  BY ReadEach
<1>2. /\ Rest(i) \in Seq(Requests) /\ at \in Selections /\ calls[i].load
      /\ {} \in SUBSET LoadNames /\ {} \in SUBSET ActNames
  BY ReadEach
<1>3. PICK q \in Seq(Requests) : q = Rest(i)
  BY <1>2
<1>4. OwedInv(q, s, l) /\ OrderInv(q, l)
  BY <1>1, <1>2, <1>3, OwedRest
<1>5. S.loads[l].joins => S.loads[l].keyed
  BY DEF Rereading
<1>6. Settle({}, at, sel, Finished(i), s, q, {})
  BY <1>1, <1>3
<1>7. QED
  BY <1>1, <1>2, <1>4, <1>5, <1>6, OwedSettle

\* The answer to a call leaves the first request that a load may join.
LEMMA JoinsLeft ==
  ASSUME TypeOK, NEW l \in LoadNames, \A k \in 1 .. Len(calls) : For(calls[k], l, Key(l, at)),
         NEW i \in 1 .. Len(calls), ~calls[i].load, NEW q, Left(q, i)
  PROVE  /\ \A j \in 1 .. Len(q) : For(q[j], l, Key(l, at))
         /\ (\E k \in 1 .. Len(calls) : Joins(l, calls[k])) => \E j \in 1 .. Len(q) : Joins(l, q[j])
<1>1. Len(q) = Len(calls) - 1 /\ \A j \in 1 .. Len(q) :
        /\ Place(i, j) \in 1 .. Len(calls) /\ Same(calls[Place(i, j)], q[j])
        /\ q[j].late <=> calls[Place(i, j)].late
  BY DEF Left
<1>2. \A j \in 1 .. Len(q) : For(q[j], l, Key(l, at))
  BY <1>1 DEF For, Same
<1>3. ASSUME NEW k \in 1 .. Len(calls), Joins(l, calls[k]) PROVE \E j \in 1 .. Len(q) : Joins(l, q[j])
  <2>1. k # i
    BY <1>3 DEF Joins
  <2>2. PICK j \in 1 .. Len(calls) - 1 : Place(i, j) = k
    BY <2>1, PlaceOnto, FlagsHold
  <2>3. Joins(l, q[j]) /\ j \in 1 .. Len(q)
    BY <1>1, <1>3, <2>2 DEF Joins, Same
  <2>4. QED
    BY <2>3
<1>4. QED
  BY <1>2, <1>3

\* A write that is to be followed asks again for what it changed, or finds it out no more.
LEMMA OwedAnswered ==
  ASSUME TypeOK, Rereading, AllOnce, NEW l \in LoadNames, OwedInv(calls, shown, l), OrderInv(calls, l),
         CallsUpToDate(calls), NEW i \in 1 .. Len(calls), NEW c \in Requests, c = calls[i], ~c.load,
         NEW q, q = Passed(Without(i), c.name), Left(q, i), NEW s, s = Missing(c, S.acts[c.name])
  PROVE  /\ OrderInv(q, l)
         /\ OwedInv(q, s, l) \/ (l \in Reloads(c.name) /\ S.loads[l].needs = {})
<1>1. c.name \in ActNames /\ c.miss \notin Followed
  BY DEF Requests, CallsUpToDate
<1>2. PICK act : act = S.acts[c.name]
  OBVIOUS
<1>3. PICK q0 \in Seq(Requests) : q0 = Without(i) /\ Len(q0) = Len(calls) - 1
  BY WithoutCalls
<1>4. \A j \in 1 .. Len(q0) : q0[j] = calls[Place(i, j)]
  BY <1>3, WithoutCalls
<1>5. Len(q) = Len(q0) /\ \A j \in 1 .. Len(q0) : Passes(q0[j], q[j], c.name)
  BY <1>1, <1>3, PassedEach
<1>6. /\ OrderInv(q, l)
      /\ \/ ~ \A j \in Out(q, l) : q[j].miss \in Followed => calls[Place(i, j)].miss \in Followed
         \/ s[l].miss \in Followed /\ shown[l].miss \notin Followed
         \/ OwedInv(q, s, l)
  BY OwedLeft
<1>7. ASSUME ~(l \in Reloads(c.name) /\ S.loads[l].needs = {}) PROVE OwedInv(q, s, l)
  <2>1. ASSUME c.name \in Followed, l \in Reading(act.changes)
        PROVE  Once(l) /\ l \in act.shows /\ l \in act.patches \union act.replaces
    BY <1>2, <1>7, <2>1 DEF Rereading
  <2>2. ASSUME NEW j \in Out(q, l), q[j].miss \in Followed PROVE calls[Place(i, j)].miss \in Followed
    <3>1. j \in 1 .. Len(q0) /\ j \in 1 .. Len(calls) - 1 /\ q[j].load /\ q[j].name = l
      BY <1>3, <1>5 DEF Out
    <3>2. PICK d : d = q0[j] /\ d = calls[Place(i, j)]
      BY <1>4, <3>1
    <3>3. Passes(d, q[j], c.name)
      BY <1>5, <3>1, <3>2
    <3>4. d.load /\ d.name = l
      BY <3>1, <3>3 DEF Passes, Same
    <3>5. CASE c.name \in Followed /\ l \in Reading(act.changes)
      <4>1. Once(l) /\ l \in act.shows
        BY <2>1, <3>5
      <4>2. OnceInv(calls, shown, drafts, l)
        BY <4>1 DEF AllOnce
      <4>3. Out(calls, l) = {}
        BY <1>2, <4>1, <4>2 DEF OnceInv
      <4>4. Place(i, j) \in Out(calls, l)
        <5>1. Place(i, j) \in 1 .. Len(calls)
          BY <3>1, WithoutCalls
        <5>2. QED
          BY <3>2, <3>4, <5>1 DEF Out
      <4>5. QED
        BY <4>3, <4>4
    <3>6. CASE ~(c.name \in Followed /\ l \in Reading(act.changes))
      <4>1. q[j].miss = IF l \in Reading(act.changes) THEN c.name ELSE d.miss
        BY <1>2, <3>3, <3>4 DEF Passes
      <4>2. QED
        BY <2>2, <3>2, <3>6, <4>1
    <3>7. QED
      BY <3>5, <3>6
  <2>3. \/ shown[l].miss \in Followed
        \/ s[l].miss \notin Followed
        \/ c.name \in Followed /\ l \in Reading(act.changes) \ (act.patches \union act.replaces)
    BY <1>1, <1>2, WriteMiss
  <2>4. QED
    BY <1>6, <2>1, <2>2, <2>3
<1>8. QED
  BY <1>6, <1>7

LEMMA OwedDone ==
  ASSUME TypeOK, Rereading, AllCertain, AllOnce, NEW l \in LoadNames,
         OwedInv(calls, shown, l), OrderInv(calls, l), CallsUpToDate(calls),
         NEW i \in 1 .. Len(calls), Done(i)
  PROVE  OwedInv(calls', shown', l) /\ OrderInv(calls', l)
<1>1. PICK c : c = calls[i] /\ c \in Requests /\ ~c.load /\ c.name \in ActNames
  BY DoneEach
<1>2. PICK sel \in Selections, q \in Seq(Requests), ls \in SUBSET LoadNames, for \in SUBSET ActNames :
        /\ q = Passed(Without(i), c.name) /\ Left(q, i)
        /\ ls = Reloads(c.name)
        /\ Settle(ls, Seen(c), sel, Released(c), Missing(c, S.acts[c.name]), q, for)
  BY <1>1, DoneEach
<1>3. Seen(c) \in Selections
  BY <1>1, DoneEach
<1>4. PICK s : s = Missing(c, S.acts[c.name])
  OBVIOUS
<1>5. /\ OrderInv(q, l)
      /\ OwedInv(q, s, l) \/ (l \in ls /\ S.loads[l].needs = {})
  BY <1>1, <1>2, <1>4, OwedAnswered
<1>7. S.loads[l].joins => S.loads[l].keyed /\ \A k \in 1 .. Len(calls) : For(calls[k], l, Key(l, at))
  BY DEF Rereading, AllCertain, OfSelected
<1>8. S.loads[l].joins =>
        /\ \A j \in 1 .. Len(q) : For(q[j], l, Key(l, at))
        /\ (\E k \in 1 .. Len(calls) : Joins(l, calls[k])) => \E j \in 1 .. Len(q) : Joins(l, q[j])
  BY <1>1, <1>2, <1>7, JoinsLeft
<1>9. Settle(ls, Seen(c), sel, Released(c), s, q, for)
  BY <1>2, <1>4
<1>10. QED
  BY <1>3, <1>5, <1>7, <1>8, <1>9, OwedSettle

LEMMA OwedNotDone ==
  ASSUME TypeOK, Rereading, AllCertain, NEW l \in LoadNames,
         OwedInv(calls, shown, l), OrderInv(calls, l), CallsUpToDate(calls),
         NEW i \in 1 .. Len(calls), NotDone(i)
  PROVE  OwedInv(calls', shown', l) /\ OrderInv(calls', l)
<1>1. PICK c : c = calls[i] /\ c \in Requests /\ ~c.load /\ c.name \in ActNames
  BY NotDoneEach
<1>2. PICK q \in Seq(Requests), ls \in SUBSET LoadNames, f \in [Flags -> {0} \union Ids] :
        /\ q = Without(i) /\ Left(q, i)
        /\ Settle(ls, Seen(c), at, f, AfterFailure(c, S.acts[c.name]), q, {})
  BY <1>1, NotDoneEach
<1>3. Seen(c) \in Selections /\ at \in Selections /\ {} \in SUBSET ActNames
  BY <1>1, NotDoneEach
<1>4. PICK s : s = AfterFailure(c, S.acts[c.name])
  OBVIOUS
<1>5. c.miss \notin Followed
  BY <1>1 DEF CallsUpToDate
<1>6. s[l].miss \in Followed => shown[l].miss \in Followed
  BY <1>1, <1>4, <1>5, WriteMiss
<1>7. \A j \in Out(q, l) : q[j] = calls[Place(i, j)]
  <2>1. Len(q) = Len(calls) - 1 /\ \A j \in 1 .. Len(calls) - 1 : q[j] = calls[Place(i, j)]
    BY <1>2, WithoutCalls
  <2>2. QED
    BY <2>1 DEF Out
<1>8. OrderInv(q, l) /\ OwedInv(q, s, l)
  <2>1. \A j \in Out(q, l) : q[j].miss \in Followed => calls[Place(i, j)].miss \in Followed
    BY <1>7
  <2>2. QED
    BY <1>1, <1>2, <1>6, <2>1, OwedLeft
<1>10. S.loads[l].joins => S.loads[l].keyed /\ \A k \in 1 .. Len(calls) : For(calls[k], l, Key(l, at))
  BY DEF Rereading, AllCertain, OfSelected
<1>11. S.loads[l].joins =>
        /\ \A j \in 1 .. Len(q) : For(q[j], l, Key(l, at))
        /\ (\E k \in 1 .. Len(calls) : Joins(l, calls[k])) => \E j \in 1 .. Len(q) : Joins(l, q[j])
  BY <1>1, <1>2, <1>10, JoinsLeft
<1>12. Settle(ls, Seen(c), at, f, s, q, {})
  BY <1>2, <1>4
<1>13. QED
  BY <1>3, <1>8, <1>10, <1>11, <1>12, OwedSettle

LEMMA UpToDateStep ==
  ASSUME TypeOK, Locked, Rereading, CallsUpToDate(calls), Next
  PROVE  CallsUpToDate(calls')
<1>1. calls \in Seq(Requests) /\ at \in Selections /\ {} \in SUBSET ActNames /\ {} \in SUBSET LoadNames
  BY FlagsHold
<1>2. ASSUME NEW a \in ActNames, NEW o \in Objects(a), Click(a, o) PROVE CallsUpToDate(calls')
  <2>1. PICK sel \in Selections, f \in [Flags -> {0} \union Ids], ls \in SUBSET LoadNames, q \in Seq(Requests) :
          Clicks(sel, f, ls, q, a, o)
    BY <1>2, ClickEach
  <2>2. Settle(ls, at, sel, f, shown, q, {})
    BY <2>1 DEF Clicks
  <2>3. ASSUME NEW j \in 1 .. Len(q), ~q[j].load PROVE q[j].miss \notin Followed
    <3>1. \/ \E k \in 1 .. Len(calls) : Heir(calls[k], q[j]) /\ q[j].miss = calls[k].miss
          \/ q[j] = CallOf(a, o)
      BY <2>1 DEF Clicks
    <3>2. CASE q[j] = CallOf(a, o)
      <4>1. CallOf(a, o).miss = ""
        BY DEF CallOf
      <4>2. QED
        BY <3>2, <4>1, NotFollowed
    <3>3. CASE \E k \in 1 .. Len(calls) : Heir(calls[k], q[j]) /\ q[j].miss = calls[k].miss
      <4>1. PICK k \in 1 .. Len(calls) : Heir(calls[k], q[j]) /\ q[j].miss = calls[k].miss
        BY <3>3
      <4>2. ~calls[k].load
        BY <2>3, <4>1 DEF Heir, Same
      <4>3. QED
        BY <4>1, <4>2 DEF CallsUpToDate
    <3>4. QED
      BY <3>1, <3>2, <3>3
  <2>4. CallsUpToDate(q)
    BY <2>3 DEF CallsUpToDate
  <2>5. QED
    BY <1>1, <2>2, <2>4, UpToDateSettle
<1>3. ASSUME NEW k \in LoadNames, Background(k) PROVE CallsUpToDate(calls')
  <2>1. PICK ls \in SUBSET LoadNames : Settle(ls, at, at, flags, shown, calls, {})
    BY <1>3 DEF Background
  <2>2. QED
    BY <1>1, <2>1, UpToDateSettle
<1>4. ASSUME NEW i \in 1 .. Len(calls), Loaded(i) \/ NotLoaded(i) PROVE CallsUpToDate(calls')
  <2>1. PICK sel, s : sel \in Selections /\ Settle({}, at, sel, Finished(i), s, Rest(i), {})
    BY <1>4, ReadEach
  <2>2. Rest(i) \in Seq(Requests) /\ calls[i].load
    BY <1>4, ReadEach
  <2>3. PICK q \in Seq(Requests) : q = Rest(i) /\ CallsUpToDate(q)
    BY <2>2, UpToDateLeft
  <2>4. Settle({}, at, sel, Finished(i), s, q, {})
    BY <2>1, <2>3
  <2>5. QED
    BY <1>1, <2>1, <2>3, <2>4, UpToDateSettle
<1>5. ASSUME NEW i \in 1 .. Len(calls), Done(i) PROVE CallsUpToDate(calls')
  <2>1. PICK c : c = calls[i] /\ ~c.load
    BY <1>5, DoneEach
  <2>2. PICK sel \in Selections, q \in Seq(Requests), ls \in SUBSET LoadNames, for \in SUBSET ActNames :
          /\ q = Passed(Without(i), c.name)
          /\ Settle(ls, Seen(c), sel, Released(c), Missing(c, S.acts[c.name]), q, for)
    BY <1>5, <2>1, DoneEach
  <2>3. Seen(c) \in Selections
    BY <1>5, <2>1, DoneEach
  <2>4. CallsUpToDate(q)
    BY <2>1, <2>2, UpToDatePassed
  <2>5. QED
    BY <2>2, <2>3, <2>4, UpToDateSettle
<1>6. ASSUME NEW i \in 1 .. Len(calls), NotDone(i) PROVE CallsUpToDate(calls')
  <2>1. PICK c : c = calls[i]
    OBVIOUS
  <2>2. PICK q \in Seq(Requests), ls \in SUBSET LoadNames, f \in [Flags -> {0} \union Ids] :
          /\ q = Without(i)
          /\ Settle(ls, Seen(c), at, f, AfterFailure(c, S.acts[c.name]), q, {})
    BY <1>6, <2>1, NotDoneEach
  <2>3. Seen(c) \in Selections
    BY <1>6, <2>1, NotDoneEach
  <2>4. CallsUpToDate(q)
    BY <2>2, UpToDateLeft
  <2>5. QED
    BY <1>1, <2>2, <2>3, <2>4, UpToDateSettle
<1>7. QED
  BY <1>2, <1>3, <1>4, <1>5, <1>6 DEF Next, Answer

LEMMA OwedInit == Init => AllOwed
<1> SUFFICES ASSUME Init PROVE AllOwed
  OBVIOUS
<1>1. TypeOK /\ \A x \in {"", "first", "late", "failed"} : x \notin Followed
  BY InitType, NotFollowed
<1>2. \A i \in 1 .. Len(calls) : calls[i].load /\ ~calls[i].late /\ calls[i].miss = ""
  <2> SUFFICES ASSUME NEW i \in 1 .. Len(calls), NEW c, c = calls[i] PROVE c.load /\ ~c.late /\ c.miss = ""
    OBVIOUS
  <2>1. PICK k \in Mounted : c = Request(k, 1, {})
    BY MountCalls
  <2>2. \A l, o, fs : /\ Request(l, o, fs).load = TRUE /\ Request(l, o, fs).late = FALSE
                      /\ Request(l, o, fs).miss = ""
    BY DEF Request
  <2>3. c.load = TRUE /\ c.late = FALSE /\ c.miss = ""
    BY <2>1, <2>2
  <2>4. QED
    BY <2>3
<1>3. \A l \in LoadNames : shown[l].miss = ""
  BY DEF Init, Nothing
<1>4. ASSUME NEW l \in LoadNames PROVE OwedInv(calls, shown, l) /\ OrderInv(calls, l)
  BY <1>1, <1>2, <1>3 DEF OwedInv, OrderInv, Out, Taints
<1>5. QED
  BY <1>2, <1>4 DEF AllOwed, CallsUpToDate

\* The shapes are of the screen, which stays the same.
LEMMA SameShapes ==
  ASSUME scr' = scr
  PROVE  /\ S' = S /\ ActNames' = ActNames /\ LoadNames' = LoadNames /\ Flags' = Flags
         /\ \A a : Reloads(a)' = Reloads(a)
         /\ \A ds : Reading(ds)' = Reading(ds)
         /\ \A x : Lock(x)' <=> Lock(x)
         /\ \A l, x : Owned(l, x)' <=> Owned(l, x)
         /\ \A l : InTurn(l)' <=> InTurn(l)
         /\ Followed' = Followed /\ Excused("late")' = Excused("late")
         /\ Rereading' <=> Rereading
<1>1. /\ S' = S /\ ActNames' = ActNames /\ LoadNames' = LoadNames /\ Flags' = Flags
      /\ \A what : Excused(what)' = Excused(what)
  BY SameScreen DEF Excused
<1>2. (\A a : Reloads(a)' = Reloads(a) /\ Busy(a)' = Busy(a)) /\ \A ds : Reading(ds)' = Reading(ds)
  BY <1>1 DEF Reloads, Reading, Busy
<1>3. \A x : Lock(x)' <=> Lock(x)
  BY <1>1, <1>2 DEF Lock, Closing
<1>4. \A l, x : Owned(l, x)' <=> Owned(l, x)
  BY <1>1, <1>2, <1>3 DEF Owned
<1>5. \A l : Bars(l)' = Bars(l)
  BY <1>1, <1>2 DEF Bars
<1>6. \A l : Alone(l)' <=> Alone(l)
  BY <1>1, <1>2, <1>5 DEF Alone, Barred
<1>7. \A l : InTurn(l)' <=> InTurn(l)
  BY <1>1, <1>4, <1>6 DEF InTurn
<1>8. \A l : (Certain(l)' <=> Certain(l)) /\ (Once(l)' <=> Once(l))
  BY <1>1, <1>2 DEF Certain, Steady, Once
<1>9. Followed' = Followed
  BY <1>1 DEF Followed
<1>10. Rereading' <=> Rereading
  BY <1>1, <1>2, <1>3, <1>7, <1>8, <1>9 DEF Rereading
<1>11. QED
  BY <1>1, <1>2, <1>3, <1>4, <1>7, <1>9, <1>10

LEMMA OwedNext ==
  TypeOK /\ Locked /\ AllCertain /\ AllOnce /\ AllOwed /\ [Next]_vars => AllOwed'
<1> SUFFICES ASSUME TypeOK, Locked, AllCertain, AllOnce, AllOwed, [Next]_vars, Rereading' PROVE AllOwed'
  BY DEF AllOwed
<1>1. scr' = scr
  BY DEF Next, Click, Background, Answer, Loaded, NotLoaded, Done, NotDone, vars
<1>2. Rereading /\ Followed' = Followed /\ S' = S /\ LoadNames' = LoadNames
  BY <1>1, SameShapes
<1>3. /\ \A l \in LoadNames : OwedInv(calls, shown, l) /\ OrderInv(calls, l)
      /\ CallsUpToDate(calls)
  BY <1>2 DEF AllOwed, CallsUpToDate
<1>4. /\ \A l \in LoadNames : OwedInv(calls', shown', l) /\ OrderInv(calls', l)
      /\ CallsUpToDate(calls')
  <2>1. CASE UNCHANGED vars
    BY <1>3, <2>1 DEF vars
  <2>2. CASE Next
    <3>1. ASSUME NEW l \in LoadNames PROVE OwedInv(calls', shown', l) /\ OrderInv(calls', l)
      BY <1>2, <1>3, <2>2, OwedClick, OwedBackground, OwedReadStep, OwedDone, OwedNotDone DEF Next, Answer
    <3>2. QED
      BY <1>2, <1>3, <2>2, <3>1, UpToDateStep
  <2>3. QED
    BY <2>1, <2>2
<1>5. QED
  BY <1>2, <1>4 DEF AllOwed, OwedInv, OrderInv, CallsUpToDate, Clears, Taints, Out

\* As long as an old copy is shown, or on its way, of a write that is to be followed, a request
\* that brings it up to date is out, and none that would bring the old copy back comes after it.
THEOREM OwedStays == Spec => []AllOwed
BY TypeCorrect, LocksHold, CertainStays, OnceStays, OwedInit, OwedNext, PTL DEF Spec
-----------------------------------------------------------------------------
(* Loads that the holders of a lock ask for, and what comes late.          *)

OwnedInv(q, l, x) ==
  /\ \A i, j \in Out(q, l) : i = j
  /\ \A i \in Out(q, l) : ~q[i].late /\ \E a \in q[i].for : x \in Busy(a)
AllOwned == \A l \in LoadNames : \A x \in Flags : Owned(l, x) => OwnedInv(calls, l, x)

LEMMA OwnedSettle ==
  ASSUME TypeOK, NEW ls \in SUBSET LoadNames, NEW was \in Selections, NEW a \in Selections,
         NEW f, NEW s, NEW q0 \in Seq(Requests), NEW for \in SUBSET ActNames,
         Settle(ls, was, a, f, s, q0, for), NEW l \in LoadNames, NEW x, Owned(l, x), OwnedInv(q0, l, x),
         l \in ls => Out(q0, l) = {} /\ \E b \in for : x \in Busy(b)
  PROVE  OwnedInv(calls', l, x)
<1>1. PICK q1, J, new : /\ q1 = calls'
                        /\ J = {k \in ls : Joinable(k, a)}
                        /\ new = New(ls, a, f)
  OBVIOUS
<1>2. \E m \in Nat : \E e : e \in [1 .. m -> 1 .. Len(q0)] /\ OutBecomes(q0, q1, m, e, J, new, ls, was, a, for, l)
  BY <1>1, OutSettle
<1>3. PICK m, e : m \in Nat /\ e \in [1 .. m -> 1 .. Len(q0)] /\ OutBecomes(q0, q1, m, e, J, new, ls, was, a, for, l)
  BY <1>2
<1>4. l \in new => l \in ls
  BY <1>1 DEF New, Wanted, Moved, Key, Enabled, Owned
<1>5. \A i \in Out(q1, l) : i \in 1 .. m => e[i] \in Out(q0, l) /\ Becomes(q0[e[i]], q1[i], J, new, a, for)
  BY <1>3 DEF OutBecomes
<1>6. CASE l \in new
  <2>1. PICK n \in Out(q1, l) : /\ IsSent(q1[n], l, ls, was, a, for)
                                /\ \A i \in Out(q1, l) : i = n \/ (i \in 1 .. m /\ i < n)
    BY <1>3, <1>6 DEF OutBecomes
  <2>2. \A i \in Out(q1, l) : i = n
    BY <1>4, <1>5, <1>6, <2>1
  <2>3. ~q1[n].late /\ q1[n].for = for
    BY <1>4, <1>6, <2>1 DEF IsSent
  <2>4. QED
    BY <1>1, <1>4, <1>6, <2>2, <2>3 DEF OwnedInv
<1>7. CASE l \notin new
  <2>1. \A i \in Out(q1, l) : i \in 1 .. m
    BY <1>3, <1>7 DEF OutBecomes
  <2>2. ASSUME NEW i \in Out(q1, l), NEW j \in Out(q1, l) PROVE i = j
    <3>1. e[i] = e[j] /\ e[i] \in Nat /\ i \in 1 .. m /\ j \in 1 .. m
      <4>1. i \in 1 .. m /\ j \in 1 .. m /\ e[i] \in Out(q0, l) /\ e[j] \in Out(q0, l)
        BY <1>5, <2>1
      <4>2. e[i] = e[j]
        BY <4>1 DEF OwnedInv
      <4>3. e[i] \in Nat
        BY <4>1 DEF Out
      <4>4. QED
        BY <4>1, <4>2, <4>3
    <3>2. /\ i < j => e[i] < e[j]
          /\ j < i => e[j] < e[i]
      BY <1>3, <3>1 DEF OutBecomes
    <3>3. QED
      BY <3>1, <3>2
  <2>3. ASSUME NEW i \in Out(q1, l) PROVE ~q1[i].late /\ \E b \in q1[i].for : x \in Busy(b)
    <3>1. PICK c : c = q0[e[i]]
      OBVIOUS
    <3>2. Becomes(c, q1[i], J, new, a, for) /\ e[i] \in Out(q0, l)
      BY <1>5, <2>1, <2>3, <3>1
    <3>3. c.name = l /\ ~c.late /\ \E b \in c.for : x \in Busy(b)
      BY <3>1, <3>2 DEF OwnedInv, Out
    <3>4. ~Outdated(c, new, a)
      BY <3>3 DEF Outdated, Owned
    <3>5. c.for \subseteq q1[i].for
      BY <3>2 DEF Becomes
    <3>6. q1[i].late = (c.late \/ Outdated(c, new, a))
      BY <3>2 DEF Becomes
    <3>7. QED
      BY <3>3, <3>4, <3>5, <3>6
  <2>4. QED
    BY <1>1, <2>2, <2>3 DEF OwnedInv
<1>8. QED
  BY <1>6, <1>7

LEMMA OwnedLeft ==
  ASSUME TypeOK, NEW l \in LoadNames, NEW x, OwnedInv(calls, l, x),
         NEW i \in 1 .. Len(calls), NEW q, Left(q, i)
  PROVE  OwnedInv(q, l, x)
<1>1. /\ \A j \in Out(q, l) : /\ Place(i, j) \in Out(calls, l) /\ Place(i, j) # i
                              /\ j \in 1 .. Len(calls) - 1 /\ q[j] \in Requests
      /\ \A j, k \in Out(q, l) : j < k <=> Place(i, j) < Place(i, k)
  BY OutLeft
<1>2. ASSUME NEW j \in Out(q, l), NEW k \in Out(q, l) PROVE j = k
  <2>1. Place(i, j) = Place(i, k)
    BY <1>1 DEF OwnedInv
  <2>2. j \in Nat /\ k \in Nat
    BY DEF Out
  <2>3. Place(i, j) \in Nat
    <3>1. Place(i, j) \in Out(calls, l)
      BY <1>1
    <3>2. QED
      BY <3>1 DEF Out
  <2>4. (j < k <=> Place(i, j) < Place(i, k)) /\ (k < j <=> Place(i, k) < Place(i, j))
    BY <1>1
  <2>5. QED
    BY <2>1, <2>2, <2>3, <2>4
<1>3. ASSUME NEW j \in Out(q, l) PROVE ~q[j].late /\ \E a \in q[j].for : x \in Busy(a)
  <2>1. PICK c : c = calls[Place(i, j)]
    OBVIOUS
  <2>2. ~c.late /\ (\E a \in c.for : x \in Busy(a)) /\ c.name = l
    BY <1>1, <2>1 DEF OwnedInv, Out
  <2>3. q[j].for = c.for /\ (q[j].late => c.late \/ (c.name = calls[i].name /\ calls[i].load))
    BY <1>1, <2>1 DEF Left
  <2>4. ASSUME calls[i].name = l, calls[i].load PROVE FALSE
    <3>1. i \in Out(calls, l)
      BY <2>4 DEF Out
    <3>2. QED
      BY <1>1, <3>1 DEF OwnedInv
  <2>5. QED
    BY <2>2, <2>3, <2>4
<1>4. QED
  BY <1>2, <1>3 DEF OwnedInv

LEMMA OwnedStep ==
  ASSUME TypeOK, Locked, NEW l \in LoadNames, NEW x \in Flags, Owned(l, x), OwnedInv(calls, l, x), Next
  PROVE  OwnedInv(calls', l, x)
<1>1. calls \in Seq(Requests) /\ at \in Selections /\ {} \in SUBSET ActNames /\ {} \in SUBSET LoadNames
  BY FlagsHold
<1>2. ASSUME NEW a \in ActNames, NEW o \in Objects(a), Click(a, o) PROVE OwnedInv(calls', l, x)
  <2>1. PICK sel \in Selections, f \in [Flags -> {0} \union Ids], ls \in SUBSET LoadNames, q \in Seq(Requests) :
          Clicks(sel, f, ls, q, a, o)
    BY <1>2, ClickEach
  <2>2. Settle(ls, at, sel, f, shown, q, {}) /\ ls = IF S.acts[a].call = "" THEN Reloads(a) ELSE {}
    BY <2>1 DEF Clicks
  <2>3. l \notin ls
    BY <2>2 DEF Owned
  <2>4. Out(q, l) = Out(calls, l) /\ \A j \in Out(calls, l) : Stands(calls[j], q[j], Closing(S.acts[a].clears)) /\ calls[j].load
    BY <2>1, ClickOut
  <2>5. ASSUME NEW j \in Out(calls, l) PROVE ~q[j].late /\ \E b \in q[j].for : x \in Busy(b)
    <3>1. PICK c : c = calls[j] /\ Stands(c, q[j], Closing(S.acts[a].clears)) /\ c.load
      BY <2>4
    <3>2. PICK b \in c.for : x \in Busy(b)
      BY <3>1 DEF OwnedInv
    <3>3. b \notin Closing(S.acts[a].clears)
      BY <3>2 DEF Owned, Lock
    <3>4. ~c.late
      BY <3>1 DEF OwnedInv
    <3>5. QED
      BY <3>1, <3>2, <3>3, <3>4 DEF Stands
  <2>6. OwnedInv(q, l, x)
    BY <2>4, <2>5 DEF OwnedInv
  <2>7. QED
    BY <1>1, <2>2, <2>3, <2>6, OwnedSettle
<1>3. ASSUME NEW k \in LoadNames, Background(k) PROVE OwnedInv(calls', l, x)
  <2>1. PICK ls \in SUBSET LoadNames : ls = {k} /\ Settle(ls, at, at, flags, shown, calls, {})
    BY <1>3 DEF Background
  <2>2. l \notin ls
    BY <1>3, <2>1 DEF Background, Owned
  <2>3. QED
    BY <1>1, <2>1, <2>2, OwnedSettle
<1>4. ASSUME NEW i \in 1 .. Len(calls), Loaded(i) \/ NotLoaded(i) PROVE OwnedInv(calls', l, x)
  <2>1. PICK sel, s : sel \in Selections /\ Settle({}, at, sel, Finished(i), s, Rest(i), {})
    BY <1>4, ReadEach
  <2>2. Rest(i) \in Seq(Requests) /\ calls[i].load
    BY <1>4, ReadEach
  <2>3. PICK q \in Seq(Requests) : q = Rest(i) /\ Left(q, i)
    BY <2>2, AnswersLeave
  <2>4. Settle({}, at, sel, Finished(i), s, q, {}) /\ OwnedInv(q, l, x)
    BY <2>1, <2>3, OwnedLeft
  <2>5. QED
    BY <1>1, <2>1, <2>3, <2>4, OwnedSettle
<1>5. ASSUME NEW i \in 1 .. Len(calls), Done(i) PROVE OwnedInv(calls', l, x)
  <2>1. PICK c : c = calls[i] /\ ~c.load /\ c.name \in ActNames
    BY <1>5, DoneEach
  <2>2. PICK sel \in Selections, q \in Seq(Requests), ls \in SUBSET LoadNames, for \in SUBSET ActNames :
          /\ Left(q, i) /\ ls = Reloads(c.name)
          /\ for = IF Waits(c) THEN {c.name} ELSE {}
          /\ Settle(ls, Seen(c), sel, Released(c), Missing(c, S.acts[c.name]), q, for)
    BY <1>5, <2>1, DoneEach
  <2>3. Seen(c) \in Selections
    BY <1>5, <2>1, DoneEach
  <2>4. OwnedInv(q, l, x)
    BY <2>2, OwnedLeft
  <2>5. ASSUME l \in ls PROVE Out(q, l) = {} /\ \E b \in for : x \in Busy(b)
    <3>1. x \in Busy(c.name) /\ S.acts[c.name].awaits /\ S.loads[l].needs = {}
      BY <2>1, <2>2, <2>5 DEF Owned
    <3>2. LockInv(calls, flags, x)
      BY DEF Locked, Owned
    <3>3. Awaiting(q, x) = {} /\ ~c.late
      BY <2>1, <2>2, <3>1, <3>2, LockAlone
    <3>4. ASSUME NEW j \in Out(q, l) PROVE FALSE
      <4>1. PICK a \in q[j].for : x \in Busy(a)
        BY <2>4, <3>4 DEF OwnedInv
      <4>2. j \in 1 .. Len(q) /\ q[j] \in Requests
        BY <2>2, <3>4 DEF Out, Left
      <4>3. a \in ActNames
        BY <4>1, <4>2 DEF Requests
      <4>4. QED
        BY <3>3, <4>1, <4>2, <4>3 DEF Awaiting
    <3>5. l \in Wanted(Reloads(c.name), at, flags)
      BY <2>2, <2>5, <3>1 DEF Wanted, Enabled
    <3>6. Waits(c)
      BY <3>1, <3>3, <3>5 DEF Waits
    <3>7. QED
      BY <2>2, <3>1, <3>4, <3>6
  <2>6. QED
    BY <2>2, <2>3, <2>4, <2>5, OwnedSettle
<1>6. ASSUME NEW i \in 1 .. Len(calls), NotDone(i) PROVE OwnedInv(calls', l, x)
  <2>1. PICK c : c = calls[i] /\ c.name \in ActNames
    BY <1>6, NotDoneEach
  <2>2. PICK q \in Seq(Requests), ls \in SUBSET LoadNames, f \in [Flags -> {0} \union Ids] :
          /\ Left(q, i) /\ ls = IF S.acts[c.name].always THEN Reloads(c.name) ELSE {}
          /\ Settle(ls, Seen(c), at, f, AfterFailure(c, S.acts[c.name]), q, {})
    BY <1>6, <2>1, NotDoneEach
  <2>3. Seen(c) \in Selections
    BY <1>6, <2>1, NotDoneEach
  <2>4. OwnedInv(q, l, x)
    BY <2>2, OwnedLeft
  <2>5. l \notin ls
    BY <2>1, <2>2 DEF Owned
  <2>6. QED
    BY <1>1, <2>2, <2>3, <2>4, <2>5, OwnedSettle
<1>7. QED
  BY <1>2, <1>3, <1>4, <1>5, <1>6 DEF Next, Answer

LEMMA OwnedNext == TypeOK /\ Locked /\ AllOwned /\ [Next]_vars => AllOwned'
<1> SUFFICES ASSUME TypeOK, Locked, AllOwned, [Next]_vars PROVE AllOwned'
  OBVIOUS
<1>1. scr' = scr
  BY DEF Next, Click, Background, Answer, Loaded, NotLoaded, Done, NotDone, vars
<1>2. S' = S /\ LoadNames' = LoadNames /\ Flags' = Flags /\ \A l, x : Owned(l, x)' <=> Owned(l, x)
  BY <1>1, SameShapes
<1>3. ASSUME NEW l, NEW x PROVE OwnedInv(calls', l, x) => OwnedInv(calls, l, x)'
  BY <1>2 DEF OwnedInv, Out, Busy
<1>4. ASSUME NEW l \in LoadNames, NEW x \in Flags, Owned(l, x) PROVE OwnedInv(calls', l, x)
  <2>1. OwnedInv(calls, l, x)
    BY <1>4 DEF AllOwned
  <2>2. CASE UNCHANGED vars
    BY <2>1, <2>2 DEF vars
  <2>3. CASE Next
    BY <1>4, <2>1, <2>3, OwnedStep
  <2>4. QED
    BY <2>2, <2>3
<1>5. QED
  BY <1>2, <1>3, <1>4 DEF AllOwned

LEMMA OwnedInit == Init => AllOwned
<1> SUFFICES ASSUME Init, NEW l \in LoadNames, NEW x, Owned(l, x) PROVE Out(calls, l) = {}
  BY DEF AllOwned, OwnedInv
<1>1. ASSUME NEW i \in Out(calls, l) PROVE FALSE
  <2>1. PICK c : c = calls[i] /\ c.name = l /\ i \in 1 .. Len(calls)
    BY <1>1 DEF Out
  <2>2. PICK k \in Mounted : c = Request(k, 1, {})
    BY <2>1, MountCalls
  <2>3. c.name = k
    BY <2>2 DEF Request
  <2>4. QED
    BY <2>1, <2>2, <2>3 DEF Mounted, Owned
<1>2. QED
  BY <1>1

\* A load that only the holders of a lock ask for, and wait for, is out at most once, and for one of them.
THEOREM OwnedStays == Spec => []AllOwned
BY TypeCorrect, LocksHold, OwnedInit, OwnedNext, PTL DEF Spec

\* A load whose requests do not overtake one another shows nothing that came late.
Timely == \A l \in LoadNames : InTurn(l) => shown[l].miss # "late"

LEMMA SettleShown ==
  ASSUME NEW ls, NEW was, NEW a, NEW f, NEW s, NEW q0, NEW for, Settle(ls, was, a, f, s, q0, for), NEW l \in LoadNames
  PROVE  shown'[l] = s[l] \/ shown'[l].miss = ""
BY DEF Settle, Nothing

LEMMA TimelyNext == TypeOK /\ AllAlone /\ AllOwned /\ Timely /\ [Next]_vars => Timely'
<1> SUFFICES ASSUME TypeOK, AllAlone, AllOwned, Timely, [Next]_vars PROVE Timely'
  OBVIOUS
<1>1. scr' = scr
  BY DEF Next, Click, Background, Answer, Loaded, NotLoaded, Done, NotDone, vars
<1>2. LoadNames' = LoadNames /\ \A l : InTurn(l)' <=> InTurn(l)
  BY <1>1, SameShapes
<1> SUFFICES ASSUME NEW l \in LoadNames, InTurn(l) PROVE shown'[l].miss # "late"
  BY <1>2 DEF Timely
<1>3. shown[l].miss # "late"
  BY DEF Timely
<1>4. "late" \notin Misses
  BY Described DEF Misses
<1>5. ASSUME NEW w \in Misses PROVE Old(shown[l], w).miss # "late"
  <2>1. PICK v : v = shown[l] /\ v \in [key : {0} \union Ids, miss : {"late", "failed"} \union Misses]
    BY DEF TypeOK
  <2>2. QED
    BY <1>3, <1>4, <2>1 DEF Old
<1>6. ASSUME NEW c \in Requests, ~c.load
      PROVE  Missing(c, S.acts[c.name])[l].miss # "late" /\ AfterFailure(c, S.acts[c.name])[l].miss # "late"
  <2>1. c.miss \in Misses /\ c.name \in Misses
    BY <1>6 DEF Requests, Misses
  <2>2. PICK act : act = S.acts[c.name]
    OBVIOUS
  <2>3. Missing(c, act)[l] \in {Old(shown[l], c.miss), Old(shown[l], c.name), shown[l]}
    BY DEF Missing
  <2>4. Missing(c, act)[l].miss # "late"
    BY <1>3, <1>5, <2>1, <2>3
  <2>5. AfterFailure(c, act)[l] \in {Missing(c, act)[l], Old(shown[l], c.name), shown[l]}
    BY DEF AfterFailure
  <2>6. QED
    BY <1>3, <1>5, <2>1, <2>2, <2>4, <2>5
<1>7. ASSUME NEW a \in ActNames, NEW o \in Objects(a), Click(a, o) PROVE shown'[l].miss # "late"
  <2>1. PICK sel \in Selections, f \in [Flags -> {0} \union Ids], ls \in SUBSET LoadNames, q \in Seq(Requests) :
          Clicks(sel, f, ls, q, a, o)
    BY <1>7, ClickEach
  <2>2. Settle(ls, at, sel, f, shown, q, {})
    BY <2>1 DEF Clicks
  <2>3. shown'[l] = shown[l] \/ shown'[l].miss = ""
    BY <2>2, SettleShown
  <2>4. QED
    BY <1>3, <2>3
<1>8. ASSUME NEW k \in LoadNames, Background(k) PROVE shown'[l].miss # "late"
  <2>1. PICK ls : Settle(ls, at, at, flags, shown, calls, {})
    BY <1>8 DEF Background
  <2>2. shown'[l] = shown[l] \/ shown'[l].miss = ""
    BY <2>1, SettleShown
  <2>3. QED
    BY <1>3, <2>2
<1>9. ASSUME NEW i \in 1 .. Len(calls), Loaded(i) \/ NotLoaded(i) PROVE shown'[l].miss # "late"
  <2>1. PICK sel, s : /\ Settle({}, at, sel, Finished(i), s, Rest(i), {})
                      /\ s \in {Failed(calls[i]), Received(calls[i], TRUE), Received(calls[i], FALSE)}
    BY <1>9, ReadEach
  <2>2. calls[i].load
    BY <1>9, ReadEach
  <2>3. PICK c : c = calls[i] /\ c \in Requests /\ c.load /\ c.name \in LoadNames
    BY <2>2, FlagsHold DEF Requests
  <2>4. /\ l # c.name => s[l] = shown[l]
        /\ Dropped(c) => s = shown
        /\ ~Dropped(c) => \/ s[c.name].miss \in {"", "failed"}
                          \/ c.late /\ s[c.name].miss = "late"
                          \/ ~c.late /\ s[c.name].miss = c.miss
    <3>1. s \in {Failed(c), Received(c, TRUE), Received(c, FALSE)}
      BY <2>1, <2>3
    <3>2. Brings(c, s)
      BY <2>3, <3>1, ReadMiss
    <3>3. QED
      BY <3>2 DEF Brings
  <2>5. ASSUME l = c.name, c.late PROVE Dropped(c)
    <3>1. i \in Out(calls, l)
      BY <2>3, <2>5 DEF Out
    <3>2. ~Alone(l)
      BY <2>3, <2>5, <3>1 DEF AllAlone, AloneInv
    <3>3. \A x \in Flags : ~Owned(l, x)
      BY <2>3, <2>5, <3>1 DEF AllOwned, OwnedInv
    <3>4. QED
      BY <2>5, <3>2, <3>3 DEF InTurn, Dropped
  <2>6. c.miss \in Misses
    BY <2>3 DEF Requests
  <2>7. s[l].miss # "late"
    BY <1>3, <1>4, <2>4, <2>5, <2>6
  <2>8. shown'[l] = s[l] \/ shown'[l].miss = ""
    <3>1. PICK q, f : Settle({}, at, sel, f, s, q, {})
      BY <2>1
    <3>2. QED
      BY <3>1, SettleShown
  <2>9. QED
    BY <2>7, <2>8
<1>10. ASSUME NEW i \in 1 .. Len(calls), Done(i) PROVE shown'[l].miss # "late"
  <2>1. PICK c : c = calls[i] /\ c \in Requests /\ ~c.load
    BY <1>10, DoneEach
  <2>2. PICK sel \in Selections, q \in Seq(Requests), ls \in SUBSET LoadNames, for \in SUBSET ActNames :
          Settle(ls, Seen(c), sel, Released(c), Missing(c, S.acts[c.name]), q, for)
    BY <1>10, <2>1, DoneEach
  <2>3. PICK s : s = Missing(c, S.acts[c.name])
    OBVIOUS
  <2>4. s[l].miss # "late"
    BY <1>6, <2>1, <2>3
  <2>5. Settle(ls, Seen(c), sel, Released(c), s, q, for)
    BY <2>2, <2>3
  <2>6. shown'[l] = s[l] \/ shown'[l].miss = ""
    BY <2>5, SettleShown
  <2>7. QED
    BY <2>4, <2>6
<1>11. ASSUME NEW i \in 1 .. Len(calls), NotDone(i) PROVE shown'[l].miss # "late"
  <2>1. PICK c : c = calls[i] /\ c \in Requests /\ ~c.load
    BY <1>11, NotDoneEach
  <2>2. PICK q \in Seq(Requests), ls \in SUBSET LoadNames, f \in [Flags -> {0} \union Ids] :
          Settle(ls, Seen(c), at, f, AfterFailure(c, S.acts[c.name]), q, {})
    BY <1>11, <2>1, NotDoneEach
  <2>3. PICK s : s = AfterFailure(c, S.acts[c.name])
    OBVIOUS
  <2>4. s[l].miss # "late"
    BY <1>6, <2>1, <2>3
  <2>5. Settle(ls, Seen(c), at, f, s, q, {})
    BY <2>2, <2>3
  <2>6. shown'[l] = s[l] \/ shown'[l].miss = ""
    BY <2>5, SettleShown
  <2>7. QED
    BY <2>4, <2>6
<1>12. CASE UNCHANGED vars
  BY <1>3, <1>12 DEF vars
<1>13. QED
  BY <1>7, <1>8, <1>9, <1>10, <1>11, <1>12 DEF Next, Answer

\* With no request out, nothing shown misses a write the screen saw acknowledged, on a screen
\* that asks again for what its writes change and whose requests do not overtake one another.
THEOREM NoneStale == Spec => [](Rereading => ShowsOwnWrites)
<1>1. Init => Timely
  <2> SUFFICES ASSUME Init, NEW l \in LoadNames PROVE shown[l].miss # "late"
    BY DEF Timely
  <2>1. shown[l].miss = ""
    BY DEF Init, Nothing
  <2>2. QED
    BY <2>1
<1>2. TypeOK /\ AllOwed /\ Timely => (Rereading => ShowsOwnWrites)
  <2> SUFFICES ASSUME TypeOK, AllOwed, Timely, Rereading, calls = <<>>, NEW l \in LoadNames
               PROVE  \/ shown[l].miss \in {"", "first", "failed"}
                      \/ shown[l].miss \in Excused("stale")
                      \/ shown[l].miss = "late" /\ l \in Excused("late")
    BY DEF ShowsOwnWrites
  <2>1. Out(calls, l) = {}
    BY DEF Out
  <2>2. shown[l].miss \notin Followed
    BY <2>1 DEF AllOwed, OwedInv
  <2>3. shown[l].miss \in {"late", "failed", "", "first"} \union ActNames
    BY DEF TypeOK, Misses
  <2>4. shown[l].miss = "late" => l \in Excused("late")
    BY DEF Timely, Rereading
  <2>5. QED
    BY <2>2, <2>3, <2>4 DEF Followed
<1>3. QED
  BY <1>1, <1>2, TypeCorrect, OwedStays, OwnedStays, AloneStays, TimelyNext, PTL DEF Spec
-----------------------------------------------------------------------------
(* Drafts that are tied to the object selected on their axis.              *)

\* A flag that no request turns on or off.
Free(y) == (\A a \in ActNames : y \notin Busy(a)) /\ \A l \in LoadNames : y \notin S.loads[l].busy

LEMMA FreeSettle ==
  ASSUME NEW f \in [Flags -> {0} \union Ids], NEW ls, NEW was, NEW a, NEW s, NEW q0, NEW for,
         Settle(ls, was, a, f, s, q0, for), NEW y \in Flags, Free(y)
  PROVE  flags'[y] = f[y]
<1>1. New(ls, a, f) \subseteq LoadNames
  BY DEF New, Wanted
<1>2. flags' = Put(f, UNION {S.loads[l].busy : l \in New(ls, a, f)}, 1)
  BY DEF Settle
<1>3. y \notin UNION {S.loads[l].busy : l \in New(ls, a, f)}
  BY <1>1 DEF Free
<1>4. QED
  BY <1>2, <1>3 DEF Put

\* What a click makes of such a flag ...
ClickSets(a, o, y) ==
  flags'[y] = IF y \in S.acts[a].setsMe THEN o
              ELSE IF y \in S.acts[a].sets THEN 1
              ELSE IF y \in S.acts[a].clears THEN 0 ELSE flags[y]
LEMMA FreeClick ==
  ASSUME TypeOK, NEW a \in ActNames, NEW o \in Objects(a), Click(a, o), NEW y \in Flags, Free(y)
  PROVE  ClickSets(a, o, y) /\ o # 0
<1> DEFINE closed == Closing(S.acts[a].clears)
<1>1. PICK f : f = [x \in DOMAIN flags |->
              IF x \in UNION {Busy(b) : b \in closed} THEN 0
              ELSE IF x \in S.acts[a].setsMe \union S.acts[a].busyMe THEN o
              ELSE IF x \in S.acts[a].sets \union S.acts[a].busy THEN 1
              ELSE IF x \in S.acts[a].clears THEN 0 ELSE flags[x]]
  OBVIOUS
<1>2. PICK ls, sel, q : Settle(ls, at, sel, f, shown, q, {})
  BY <1>1 DEF Click
<1>3. o \in Ids /\ o # 0 /\ DOMAIN flags = Flags /\ flags \in [Flags -> {0} \union Ids]
  <2>1. o \in Ids
    BY ObjectsType
  <2>2. flags \in [Flags -> {0} \union Ids]
    BY DEF TypeOK
  <2>3. QED
    BY <2>1, <2>2
<1>4. f \in [Flags -> {0} \union Ids]
  BY <1>1, <1>3
<1>5. flags'[y] = f[y]
  BY <1>2, <1>4, FreeSettle
<1>6. closed \subseteq ActNames
  BY DEF Closing
<1>7. y \notin UNION {Busy(b) : b \in closed} /\ y \notin S.acts[a].busy \union S.acts[a].busyMe
  BY <1>6 DEF Free, Busy
<1> HIDE DEF closed
<1>8. f[y] = IF y \in S.acts[a].setsMe THEN o
             ELSE IF y \in S.acts[a].sets THEN 1
             ELSE IF y \in S.acts[a].clears THEN 0 ELSE flags[y]
  BY <1>1, <1>3, <1>7
<1>9. QED
  BY <1>3, <1>5, <1>8 DEF ClickSets

\* ... and the answer to a call; nothing else changes it.
DoneSets(b, y) ==
  \/ flags'[y] = flags[y]
  \/ flags'[y] = 1 /\ y \in S.acts[b].okSets
  \/ flags'[y] = 0 /\ y \in S.acts[b].okClears
LEMMA FreeAnswer ==
  ASSUME TypeOK, NEW i \in 1 .. Len(calls), NEW y \in Flags, Free(y)
  PROVE  /\ Loaded(i) \/ NotLoaded(i) \/ NotDone(i) => flags'[y] = flags[y]
         /\ Done(i) => DoneSets(calls[i].name, y)
<1>1. flags \in [Flags -> {0} \union Ids]
  BY DEF TypeOK
<1>2. ASSUME Loaded(i) \/ NotLoaded(i) PROVE flags'[y] = flags[y]
  <2>1. PICK sel, s : Settle({}, at, sel, Finished(i), s, Rest(i), {})
    BY <1>2, ReadEach
  <2>2. Finished(i) \in [Flags -> {0} \union Ids] /\ calls[i].name \in LoadNames /\ Resumed(i) \subseteq ActNames
    BY <1>2, ReadEach, ResumedType DEF Requests
  <2>3. y \notin S.loads[calls[i].name].busy \union UNION {Busy(a) : a \in Resumed(i)}
    BY <2>2 DEF Free
  <2>4. Finished(i)[y] = flags[y]
    BY <1>1, <2>3 DEF Finished, Put
  <2>5. QED
    BY <2>1, <2>2, <2>4, FreeSettle
<1>3. ASSUME NotDone(i) PROVE flags'[y] = flags[y]
  <2>1. PICK q \in Seq(Requests), ls \in SUBSET LoadNames, f \in [Flags -> {0} \union Ids] :
          /\ f = Put(flags, IF calls[i].late THEN {} ELSE Busy(calls[i].name) \ S.acts[calls[i].name].stuck, 0)
          /\ Settle(ls, Seen(calls[i]), at, f, AfterFailure(calls[i], S.acts[calls[i].name]), q, {})
    BY <1>3, NotDoneEach
  <2>2. y \notin Busy(calls[i].name)
    BY <1>3, NotDoneEach DEF Free
  <2>3. f[y] = flags[y]
    BY <1>1, <2>1, <2>2 DEF Put
  <2>4. QED
    BY <2>1, <2>3, FreeSettle
<1>4. ASSUME Done(i) PROVE DoneSets(calls[i].name, y)
  <2>1. PICK sel, q, ls, for :
          Settle(ls, Seen(calls[i]), sel, Released(calls[i]), Missing(calls[i], S.acts[calls[i].name]), q, for)
    BY <1>4, DoneEach
  <2>2. Released(calls[i]) \in [Flags -> {0} \union Ids] /\ y \notin Busy(calls[i].name)
    BY <1>4, DoneEach DEF Free
  <2>3. flags'[y] = Released(calls[i])[y]
    BY <2>1, <2>2, FreeSettle
  <2>4. PICK c : c = calls[i]
    OBVIOUS
  <2>5. \/ Released(c)[y] = flags[y]
        \/ Released(c)[y] = 1 /\ y \in S.acts[c.name].okSets
        \/ Released(c)[y] = 0 /\ y \in S.acts[c.name].okClears
    BY <1>1, <2>2, <2>4 DEF Released, Own
  <2>6. QED
    BY <2>3, <2>4, <2>5 DEF DoneSets
<1>5. QED
  BY <1>2, <1>3, <1>4

\* What is shown after Settle is what the answer left, of an object that stays selected.
LEMMA SeenSettle ==
  ASSUME NEW ls, NEW was, NEW a, NEW f, NEW s, NEW q0, NEW for, Settle(ls, was, a, f, s, q0, for),
         NEW l \in LoadNames, shown'[l].key # 0
  PROVE  s[l].key # 0
BY DEF Settle, Nothing

LEMMA SeenClick ==
  ASSUME NEW ls, NEW a, NEW f, NEW q0, Settle(ls, at, a, f, shown, q0, {}), NEW l \in LoadNames, shown'[l].key # 0
  PROVE  shown[l].key # 0
<1>1. PICK s : s = shown /\ Settle(ls, at, a, f, s, q0, {})
  OBVIOUS
<1>2. s[l].key # 0
  BY <1>1, SeenSettle
<1>3. QED
  BY <1>1, <1>2

LEMMA SeenUnmoved ==
  ASSUME NEW ls, NEW was, NEW a, NEW f, NEW s, NEW q0, NEW for, Settle(ls, was, a, f, s, q0, for),
         NEW l \in LoadNames, shown'[l].key # 0
  PROVE  ~(Moved(l, a) /\ S.loads[l].keyed)
BY DEF Settle, Nothing

\* The call c, when it writes its answer into draft d, is about object o.
Lands(c, d, o) == ~c.load /\ d \in S.acts[c.name].lands => c.obj = o

LEMMA HeirLands ==
  ASSUME NEW c, NEW e, Heir(c, e), NEW d, NEW o, Lands(c, d, o)
  PROVE  Lands(e, d, o)
BY DEF Heir, Same, Lands

LEMMA LandsSettle ==
  ASSUME TypeOK, NEW ls \in SUBSET LoadNames, NEW was \in Selections, NEW a \in Selections,
         NEW f, NEW s, NEW q0 \in Seq(Requests), NEW for \in SUBSET ActNames,
         Settle(ls, was, a, f, s, q0, for),
         NEW d, NEW o, \A j \in 1 .. Len(q0) : Lands(q0[j], d, o)
  PROVE  \A i \in 1 .. Len(calls') : Lands(calls'[i], d, o)
<1>1. PICK q1, J, new : q1 = calls' /\ J = {k \in ls : Joinable(k, a)} /\ new = New(ls, a, f)
  OBVIOUS
<1>2. \A i \in 1 .. Len(q1) :
        \/ \E j \in 1 .. Len(q0) : Becomes(q0[j], q1[i], J, new, a, for)
        \/ \E k \in new : IsSent(q1[i], k, ls, was, a, for)
  BY <1>1, SettledEach
<1>3. ASSUME NEW i \in 1 .. Len(q1) PROVE Lands(q1[i], d, o)
  <2>1. CASE \E j \in 1 .. Len(q0) : Becomes(q0[j], q1[i], J, new, a, for)
    BY <2>1 DEF Becomes, Lands
  <2>2. CASE \E k \in new : IsSent(q1[i], k, ls, was, a, for)
    BY <2>2 DEF IsSent, Lands
  <2>3. QED
    BY <1>2, <2>1, <2>2
<1>4. QED
  BY <1>1, <1>3

\* A load that is requested once is out before the axis it is ahead of moves.
AheadInv(q, a, l, x) == Out(q, l) # {} => a[x] = 1
AllAhead == \A l \in LoadNames : \A x \in S.axes : Ahead(l, x) => AheadInv(calls, at, l, x)

LEMMA OnceSettled ==
  ASSUME TypeOK, NEW ls \in SUBSET LoadNames, NEW was \in Selections, NEW a \in Selections,
         NEW f, NEW s, NEW q0 \in Seq(Requests), NEW for \in SUBSET ActNames,
         Settle(ls, was, a, f, s, q0, for),
         NEW l \in LoadNames, Once(l), l \notin ls, Key(l, a) = Key(l, at), Out(calls', l) # {}
  PROVE  Out(q0, l) # {}
<1>1. PICK q1, J, new : q1 = calls' /\ J = {k \in ls : Joinable(k, a)} /\ new = New(ls, a, f)
  OBVIOUS
<1>2. \A i \in 1 .. Len(q1) :
        \/ \E j \in 1 .. Len(q0) : Becomes(q0[j], q1[i], J, new, a, for)
        \/ \E k \in new : IsSent(q1[i], k, ls, was, a, for)
  BY <1>1, SettledEach
<1>3. l \notin new
  BY <1>1 DEF New, Wanted, Moved, Enabled, Once
<1>4. PICK i \in 1 .. Len(q1) : q1[i].load /\ q1[i].name = l
  BY <1>1 DEF Out
<1>5. PICK j \in 1 .. Len(q0) : Becomes(q0[j], q1[i], J, new, a, for)
  BY <1>2, <1>3, <1>4 DEF IsSent
<1>6. j \in Out(q0, l)
  BY <1>4, <1>5 DEF Becomes, Out
<1>7. QED
  BY <1>6

LEMMA LeftOut ==
  ASSUME NEW q, NEW l, \A j \in 1 .. Len(q) : \E k \in 1 .. Len(calls) : Heir(calls[k], q[j]), Out(q, l) # {}
  PROVE  Out(calls, l) # {}
<1>1. PICK j \in 1 .. Len(q) : q[j].load /\ q[j].name = l
  BY DEF Out
<1>2. PICK k \in 1 .. Len(calls) : Heir(calls[k], q[j])
  OBVIOUS
<1>3. k \in Out(calls, l)
  BY <1>1, <1>2 DEF Heir, Same, Out
<1>4. QED
  BY <1>3

LEMMA AheadStep ==
  ASSUME TypeOK, AllOnce, NEW l \in LoadNames, NEW x \in S.axes, Ahead(l, x), Key(l, at') = Key(l, at), Next,
         Out(calls', l) # {}
  PROVE  Out(calls, l) # {} /\ at'[x] = at[x]
<1>1. Once(l) /\ OnceInv(calls, shown, drafts, l)
  BY DEF Ahead, AllOnce
<1>2. at \in Selections /\ {} \in SUBSET ActNames /\ {} \in SUBSET LoadNames /\ calls \in Seq(Requests)
  BY FlagsHold DEF TypeOK
<1> DEFINE Goal == Out(calls, l) # {} /\ at'[x] = at[x]
<1>3. ASSUME NEW a \in ActNames, NEW o \in Objects(a), Click(a, o) PROVE Goal
  <2>1. PICK sel \in Selections, f \in [Flags -> {0} \union Ids], ls \in SUBSET LoadNames, q \in Seq(Requests) :
          Clicks(sel, f, ls, q, a, o)
    BY <1>3, ClickEach
  <2>2. Settle(ls, at, sel, f, shown, q, {}) /\ l \notin ls
    BY <1>1, <2>1 DEF Clicks, Once
  <2>3. at' = sel
    BY <2>2 DEF Settle
  <2>4. Out(q, l) # {}
    BY <1>1, <1>2, <2>2, <2>3, OnceSettled
  <2>5. Out(calls, l) # {}
    BY <2>1, <2>4, ClickOut
  <2>6. l \notin S.acts[a].shows
    BY <1>1, <1>3, <2>5 DEF OnceInv, Click, CanClick
  <2>7. x \notin S.acts[a].moves
    BY <2>6 DEF Ahead
  <2>8. QED
    BY <2>1, <2>3, <2>5, <2>7 DEF Clicks
<1>4. ASSUME NEW k \in LoadNames, Background(k) PROVE Goal
  <2>1. PICK ls \in SUBSET LoadNames : ls = {k} /\ Settle(ls, at, at, flags, shown, calls, {})
    BY <1>4 DEF Background
  <2>2. l \notin ls
    BY <1>1, <1>4, <2>1 DEF Background, Once
  <2>3. at' = at
    BY <2>1 DEF Settle
  <2>4. Out(calls, l) # {}
    <3>1. PICK q0 : q0 = calls
      OBVIOUS
    <3>2. q0 \in Seq(Requests) /\ Settle(ls, at, at, flags, shown, q0, {})
      BY <1>2, <2>1, <3>1
    <3>3. Out(q0, l) # {}
      BY <1>1, <1>2, <2>2, <3>2, OnceSettled
    <3>4. QED
      BY <3>1, <3>3
  <2>5. QED
    BY <2>3, <2>4
<1>5. ASSUME NEW i \in 1 .. Len(calls), Loaded(i) \/ NotLoaded(i) PROVE Goal
  <2>1. PICK sel, s : /\ sel \in Selections
                      /\ Settle({}, at, sel, Finished(i), s, Rest(i), {})
                      /\ sel \in {Selecting(calls[i]), at}
    BY <1>5, ReadEach
  <2>2. /\ Rest(i) \in Seq(Requests)
        /\ \A j \in 1 .. Len(Rest(i)) : \E k \in 1 .. Len(calls) : Heir(calls[k], Rest(i)[j])
        /\ calls[i].name \in LoadNames
    BY <1>5, ReadEach DEF Requests
  <2>3. at' = sel
    BY <2>1 DEF Settle
  <2>4. Out(Rest(i), l) # {}
    BY <1>1, <1>2, <2>1, <2>2, <2>3, OnceSettled
  <2>5. Out(calls, l) # {}
    BY <2>2, <2>4, LeftOut
  <2>6. x \notin S.loads[calls[i].name].picks \union S.loads[calls[i].name].returns
    BY <2>2 DEF Ahead
  <2>7. sel[x] = at[x]
    BY <2>1, <2>6 DEF Selecting
  <2>8. QED
    BY <2>3, <2>5, <2>7
<1>6. ASSUME NEW i \in 1 .. Len(calls), Done(i) PROVE Goal
  <2>1. PICK c : c = calls[i] /\ c \in Requests /\ ~c.load /\ c.name \in ActNames
    BY <1>6, DoneEach
  <2>2. PICK sel \in Selections, q \in Seq(Requests), ls \in SUBSET LoadNames, for \in SUBSET ActNames :
              /\ ls = Reloads(c.name)
              /\ Turned(c, sel)
              /\ Settle(ls, Seen(c), sel, Released(c), Missing(c, S.acts[c.name]), q, for)
              /\ \A j \in 1 .. Len(q) : \E k \in 1 .. Len(calls) : k # i /\ Heir(calls[k], q[j])
    BY <1>6, <2>1, DoneEach
  <2>3. Seen(c) \in Selections /\ l \notin ls
    BY <1>1, <1>6, <2>1, <2>2, DoneEach DEF Once
  <2>4. at' = sel
    BY <2>2 DEF Settle
  <2>5. Out(q, l) # {}
    BY <1>1, <2>2, <2>3, <2>4, OnceSettled
  <2>6. Out(calls, l) # {}
    BY <2>2, <2>5, LeftOut
  <2>7. l \notin S.acts[c.name].shows
    BY <1>1, <2>1, <2>6 DEF OnceInv
  <2>8. x \notin S.acts[c.name].okMoves \union S.acts[c.name].okBack
    BY <2>1, <2>7 DEF Ahead
  <2>9. sel[x] = at[x]
    BY <2>2, <2>8 DEF Turned, Own
  <2>10. QED
    BY <2>4, <2>6, <2>9
<1>7. ASSUME NEW i \in 1 .. Len(calls), NotDone(i) PROVE Goal
  <2>1. PICK q \in Seq(Requests), ls \in SUBSET LoadNames, f \in [Flags -> {0} \union Ids] :
              /\ ls = IF S.acts[calls[i].name].always THEN Reloads(calls[i].name) ELSE {}
              /\ Settle(ls, Seen(calls[i]), at, f, AfterFailure(calls[i], S.acts[calls[i].name]), q, {})
              /\ \A j \in 1 .. Len(q) : \E k \in 1 .. Len(calls) : k # i /\ Heir(calls[k], q[j])
    BY <1>7, NotDoneEach
  <2>2. Seen(calls[i]) \in Selections /\ l \notin ls
    BY <1>1, <1>7, <2>1, NotDoneEach DEF Once
  <2>3. at' = at
    BY <2>1 DEF Settle
  <2>4. Out(q, l) # {}
    <3>1. PICK s : s = AfterFailure(calls[i], S.acts[calls[i].name])
      OBVIOUS
    <3>2. Settle(ls, Seen(calls[i]), at, f, s, q, {})
      BY <2>1, <3>1
    <3>3. QED
      BY <1>1, <1>2, <2>2, <3>2, OnceSettled
  <2>5. Out(calls, l) # {}
    BY <2>1, <2>4, LeftOut
  <2>6. QED
    BY <2>3, <2>5
<1>8. QED
  BY <1>3, <1>4, <1>5, <1>6, <1>7 DEF Next, Answer

\* What ties a draft is of the screen, which stays the same.
LEMMA SameTies ==
  ASSUME scr' = scr
  PROVE  /\ \A l, x : Ahead(l, x)' <=> Ahead(l, x)
         /\ \A d, on, off, seen : Tied(d, on, off, seen)' <=> Tied(d, on, off, seen)
         /\ Carrying' <=> Carrying
<1>1. /\ S' = S /\ ActNames' = ActNames /\ LoadNames' = LoadNames
      /\ Excused("stray")' = Excused("stray")
  BY SameScreen DEF Excused
<1>2. \A a : Reloads(a)' = Reloads(a) /\ Busy(a)' = Busy(a)
  BY <1>1 DEF Reloads, Reading, Busy
<1>3. \A l : (Certain(l)' <=> Certain(l)) /\ (Once(l)' <=> Once(l))
  BY <1>1, <1>2 DEF Certain, Steady, Once
<1>4. \A l, x : Ahead(l, x)' <=> Ahead(l, x)
  BY <1>1, <1>3 DEF Ahead
<1>5. \A l, x : Answers(l, x)' <=> Answers(l, x)
  BY <1>1, <1>3, <1>4 DEF Answers
<1>6. \A x, off : Pinned(x, off)' <=> Pinned(x, off)
  BY <1>1 DEF Pinned
<1>7. \A d, on, off, seen : Tied(d, on, off, seen)' <=> Tied(d, on, off, seen)
  BY <1>1, <1>2, <1>5, <1>6 DEF Tied
<1>8. Carrying' <=> Carrying
  <2>1. \A a, d : SendsTied(a, d)' <=> SendsTied(a, d)
    BY <1>1, <1>7 DEF SendsTied
  <2>2. QED
    BY <1>1, <2>1 DEF Carrying
<1>9. QED
  BY <1>4, <1>7, <1>8

LEMMA AheadNext == TypeOK /\ StaysFirst /\ StaysFirst' /\ AllOnce /\ AllAhead /\ [Next]_vars => AllAhead'
<1> SUFFICES ASSUME TypeOK, StaysFirst, StaysFirst', AllOnce, AllAhead, [Next]_vars PROVE AllAhead'
  OBVIOUS
<1>1. scr' = scr
  BY DEF Next, Click, Background, Answer, Loaded, NotLoaded, Done, NotDone, vars
<1>2. S' = S /\ LoadNames' = LoadNames /\ \A l, x : Ahead(l, x)' <=> Ahead(l, x)
  BY <1>1, SameScreen, SameTies
<1> SUFFICES ASSUME NEW l \in LoadNames, NEW x \in S.axes, Ahead(l, x), Out(calls', l) # {} PROVE at'[x] = 1
  BY <1>2 DEF AllAhead, AheadInv, Out
<1>3. Out(calls, l) # {} => at[x] = 1
  BY DEF AllAhead, AheadInv
<1>4. CASE UNCHANGED vars
  BY <1>3, <1>4 DEF vars
<1>5. CASE Next
  <2>1. Key(l, at') = Key(l, at)
    BY <1>2, SteadyKey DEF Ahead, Once
  <2>2. QED
    BY <1>3, <1>5, <2>1, AheadStep
<1>6. QED
  BY <1>4, <1>5

LEMMA AheadInit == Init => AllAhead
BY DEF Init, AllAhead, AheadInv

\* The axes that such a load is ahead of stay where they are until it is answered.
THEOREM AheadStays == Spec => []AllAhead
BY TypeCorrect, SteadyStays, OnceStays, AheadInit, AheadNext, PTL DEF Spec

\* What a draft that is tied to its axis is about, and what an answer that is written into it is about.
Unset(f, off) == \A y \in off : f[y] = 0
Behind(f, s, on, off, seen) == (\A y \in on : f[y] # 0) /\ Unset(f, off) /\ \A l \in seen : s[l].key # 0
LandsInv(q, f, a, d, off) == Unset(f, off) => \A i \in 1 .. Len(q) : Lands(q[i], d, a[S.drafts[d].by])
AboutInv(f, s, ds, a, d, on, off, seen) == Behind(f, s, on, off, seen) => ds[d].of \in {0, a[S.drafts[d].by]}
AllTied ==
  \A d \in DOMAIN S.drafts : S.drafts[d].by # "" =>
    \A on \in SUBSET Flags, off \in SUBSET Flags, seen \in SUBSET LoadNames :
      Tied(d, on, off, seen) => /\ LandsInv(calls, flags, at, d, off)
                                /\ AboutInv(flags, shown, drafts, at, d, on, off, seen)

\* What Tied says of a handler and of a load.
TiedAct(d, on, off, seen, a) ==
  LET x == S.drafts[d].by
      act == S.acts[a]
      set == act.sets \union act.setsMe
  IN /\ on \intersect set # {} => d \in act.drops
     /\ on \intersect act.okSets = {} /\ off \intersect (act.clears \union act.okClears) = {}
     /\ x \in act.moves => \/ S.drafts[d].follows \/ d \in act.drops
                           \/ on \intersect act.clears # {} \/ off \intersect set # {}
                           \/ \E l \in seen : S.loads[l].keyed /\ S.loads[l].by = x /\ ~S.loads[l].fixed
     /\ x \in act.okMoves \union act.okBack => S.drafts[d].follows
     /\ d \in act.lands => ~act.row /\ act.of = x /\ Pinned(x, off)
TiedLoad(d, seen, l) ==
  LET x == S.drafts[d].by
      load == S.loads[l]
  IN /\ l \in seen => d \in load.fills
     /\ x \in load.picks \union load.returns => S.drafts[d].follows \/ (d \in load.fills /\ ~load.keyed)
     /\ d \in load.fills \union load.may => Answers(l, x)
LEMMA TiedParts ==
  ASSUME NEW d, NEW on, NEW off, NEW seen, Tied(d, on, off, seen)
  PROVE  /\ \A y \in on \union off : Free(y)
         /\ \A a \in ActNames : TiedAct(d, on, off, seen, a)
         /\ \A l \in LoadNames : TiedLoad(d, seen, l)
<1>1. \A y \in on \union off : Free(y)
  BY DEF Tied, Free
<1>2. \A a \in ActNames : TiedAct(d, on, off, seen, a)
  BY DEF Tied, TiedAct
<1>3. \A l \in LoadNames : TiedLoad(d, seen, l)
  BY DEF Tied, TiedLoad
<1>4. QED
  BY <1>1, <1>2, <1>3

\* A flag of "off" that is off was off before, and nothing that pins the axis has moved it.
LEMMA UnsetBefore ==
  ASSUME TypeOK, NEW d, NEW on, NEW off \in SUBSET Flags, NEW seen, Tied(d, on, off, seen), Next, Unset(flags', off)
  PROVE  /\ Unset(flags, off)
         /\ \A a \in ActNames : \A o \in Objects(a) :
              Click(a, o) => off \intersect (S.acts[a].sets \union S.acts[a].setsMe) = {}
<1>1. \A y \in off : Free(y) /\ flags'[y] = 0
  BY TiedParts DEF Unset
<1>2. \A a \in ActNames : off \intersect (S.acts[a].clears \union S.acts[a].okClears) = {}
  BY TiedParts DEF TiedAct
<1>3. ASSUME NEW a \in ActNames, NEW o \in Objects(a), Click(a, o), NEW y \in off
      PROVE  y \notin S.acts[a].sets \union S.acts[a].setsMe /\ flags[y] = 0
  <2>1. ClickSets(a, o, y) /\ o # 0
    BY <1>1, <1>3, FreeClick
  <2>2. flags'[y] = 0 /\ y \notin S.acts[a].clears
    BY <1>1, <1>2
  <2>3. QED
    BY <2>1, <2>2 DEF ClickSets
<1>4. ASSUME NEW k \in LoadNames, Background(k), NEW y \in off PROVE flags[y] = 0
  <2>1. PICK ls : Settle(ls, at, at, flags, shown, calls, {})
    BY <1>4 DEF Background
  <2>2. flags \in [Flags -> {0} \union Ids]
    BY DEF TypeOK
  <2>3. QED
    BY <1>1, <2>1, <2>2, FreeSettle
<1>5. ASSUME NEW i \in 1 .. Len(calls), Loaded(i) \/ NotLoaded(i) \/ NotDone(i), NEW y \in off PROVE flags[y] = 0
  BY <1>1, <1>5, FreeAnswer
<1>6. ASSUME NEW i \in 1 .. Len(calls), Done(i), NEW y \in off PROVE flags[y] = 0
  <2>1. DoneSets(calls[i].name, y) /\ calls[i].name \in ActNames
    BY <1>1, <1>6, FreeAnswer, DoneEach
  <2>2. flags'[y] = 0 /\ y \notin S.acts[calls[i].name].okClears
    BY <1>1, <1>2, <2>1
  <2>3. QED
    BY <2>1, <2>2 DEF DoneSets
<1>7. QED
  BY <1>3, <1>4, <1>5, <1>6 DEF Next, Answer, Unset

\* The axis stays while it is pinned.
LEMMA PinnedStays ==
  ASSUME TypeOK, NEW d, NEW on, NEW off \in SUBSET Flags, NEW seen, Tied(d, on, off, seen), Next, Unset(flags', off),
         NEW x \in S.axes, Pinned(x, off)
  PROVE  at'[x] = at[x]
<1>1. ASSUME NEW a \in ActNames, NEW o \in Objects(a), Click(a, o) PROVE at'[x] = at[x]
  <2>1. PICK sel, f, ls, q : Clicks(sel, f, ls, q, a, o)
    BY <1>1, ClickEach
  <2>2. at' = sel
    BY <2>1 DEF Clicks, Settle
  <2>3. x \notin S.acts[a].moves
    BY <1>1, UnsetBefore DEF Pinned
  <2>4. QED
    BY <2>1, <2>2, <2>3 DEF Clicks
<1>2. ASSUME NEW k \in LoadNames, Background(k) PROVE at'[x] = at[x]
  BY <1>2 DEF Background, Settle
<1>3. ASSUME NEW i \in 1 .. Len(calls), Loaded(i) \/ NotLoaded(i) PROVE at'[x] = at[x]
  <2>1. PICK sel, s : Settle({}, at, sel, Finished(i), s, Rest(i), {}) /\ sel \in {Selecting(calls[i]), at}
    BY <1>3, ReadEach
  <2>2. at' = sel
    BY <2>1 DEF Settle
  <2>3. calls[i].name \in LoadNames
    BY <1>3, ReadEach DEF Requests
  <2>4. x \notin S.loads[calls[i].name].picks \union S.loads[calls[i].name].returns
    BY <2>3 DEF Pinned
  <2>5. QED
    BY <2>1, <2>2, <2>4 DEF Selecting
<1>4. ASSUME NEW i \in 1 .. Len(calls), Done(i) PROVE at'[x] = at[x]
  <2>1. PICK c : c = calls[i] /\ c.name \in ActNames
    BY <1>4, DoneEach
  <2>2. PICK sel, q, ls, for :
          Turned(c, sel) /\ Settle(ls, Seen(c), sel, Released(c), Missing(c, S.acts[c.name]), q, for)
    BY <1>4, <2>1, DoneEach
  <2>3. at' = sel
    BY <2>2 DEF Settle
  <2>4. x \notin S.acts[c.name].okMoves \union S.acts[c.name].okBack
    BY <2>1 DEF Pinned
  <2>5. QED
    BY <2>2, <2>3, <2>4 DEF Turned, Own
<1>5. ASSUME NEW i \in 1 .. Len(calls), NotDone(i) PROVE at'[x] = at[x]
  BY <1>5 DEF NotDone, Settle
<1>6. QED
  BY <1>1, <1>2, <1>3, <1>4, <1>5 DEF Next, Answer

LEMMA LandsStep ==
  ASSUME TypeOK, TypeOK', scr' = scr, NEW d, NEW x \in S.axes, x = S.drafts[d].by, x # "",
         NEW on, NEW off \in SUBSET Flags, NEW seen, Tied(d, on, off, seen), Next,
         LandsInv(calls, flags, at, d, off), Unset(flags', off)
  PROVE  \A i \in 1 .. Len(calls') : Lands(calls'[i], d, at'[x])
<1>1. CASE \A a \in ActNames : d \notin S.acts[a].lands
  <2>1. calls' \in Seq(Requests)
    BY SameScreen DEF TypeOK
  <2>2. ASSUME NEW c \in Requests PROVE Lands(c, d, at'[x])
    BY <1>1, <2>2 DEF Lands, Requests
  <2>3. PICK q \in Seq(Requests) : q = calls'
    BY <2>1
  <2>4. \A i \in 1 .. Len(q) : q[i] \in Requests
    BY ElementOfSeq
  <2>5. QED
    BY <2>2, <2>3, <2>4
<1>2. ASSUME NEW b \in ActNames, d \in S.acts[b].lands PROVE \A i \in 1 .. Len(calls') : Lands(calls'[i], d, at'[x])
  <2>1. Pinned(x, off) /\ \A a \in ActNames : d \in S.acts[a].lands => ~S.acts[a].row /\ S.acts[a].of = x
    BY <1>2, TiedParts DEF TiedAct
  <2>2. at'[x] = at[x]
    BY <2>1, PinnedStays
  <2>3. Unset(flags, off)
    BY UnsetBefore
  <2>4. \A i \in 1 .. Len(calls) : Lands(calls[i], d, at[x])
    BY <2>3 DEF LandsInv
  <2>5. at \in Selections /\ {} \in SUBSET ActNames /\ {} \in SUBSET LoadNames /\ calls \in Seq(Requests)
    BY FlagsHold DEF TypeOK
  <2> SUFFICES \A i \in 1 .. Len(calls') : Lands(calls'[i], d, at[x])
    BY <2>2
  <2>6. ASSUME NEW a \in ActNames, NEW o \in Objects(a), Click(a, o)
        PROVE  \A i \in 1 .. Len(calls') : Lands(calls'[i], d, at[x])
    <3>1. PICK sel \in Selections, f \in [Flags -> {0} \union Ids], ls \in SUBSET LoadNames, q \in Seq(Requests) :
            Clicks(sel, f, ls, q, a, o)
      BY <2>6, ClickEach
    <3>2. Settle(ls, at, sel, f, shown, q, {})
      BY <3>1 DEF Clicks
    <3>3. Lands(CallOf(a, o), d, at[x])
      <4>1. CallOf(a, o).name = a /\ CallOf(a, o).obj = o
        BY DEF CallOf
      <4>2. d \in S.acts[a].lands => o = at[x]
        BY <2>1 DEF Objects
      <4>3. QED
        BY <4>1, <4>2 DEF Lands
    <3>4. \A j \in 1 .. Len(q) : Lands(q[j], d, at[x])
      BY <2>4, <3>1, <3>3, HeirLands DEF Clicks
    <3>5. QED
      BY <2>5, <3>2, <3>4, LandsSettle
  <2>7. ASSUME NEW k \in LoadNames, Background(k) PROVE \A i \in 1 .. Len(calls') : Lands(calls'[i], d, at[x])
    <3>1. PICK ls \in SUBSET LoadNames : Settle(ls, at, at, flags, shown, calls, {})
      BY <2>7 DEF Background
    <3>2. QED
      BY <2>4, <2>5, <3>1, LandsSettle
  <2>8. ASSUME NEW i \in 1 .. Len(calls), Loaded(i) \/ NotLoaded(i)
        PROVE  \A j \in 1 .. Len(calls') : Lands(calls'[j], d, at[x])
    <3>1. PICK sel, s : sel \in Selections /\ Settle({}, at, sel, Finished(i), s, Rest(i), {})
      BY <2>8, ReadEach
    <3>2. /\ Rest(i) \in Seq(Requests)
          /\ \A j \in 1 .. Len(Rest(i)) : \E k \in 1 .. Len(calls) : Heir(calls[k], Rest(i)[j])
      BY <2>8, ReadEach
    <3>3. \A j \in 1 .. Len(Rest(i)) : Lands(Rest(i)[j], d, at[x])
      BY <2>4, <3>2, HeirLands
    <3>4. QED
      BY <2>5, <3>1, <3>2, <3>3, LandsSettle
  <2>9. ASSUME NEW i \in 1 .. Len(calls), Done(i) PROVE \A j \in 1 .. Len(calls') : Lands(calls'[j], d, at[x])
    <3>1. PICK sel \in Selections, q \in Seq(Requests), ls \in SUBSET LoadNames, for \in SUBSET ActNames :
              /\ Settle(ls, Seen(calls[i]), sel, Released(calls[i]), Missing(calls[i], S.acts[calls[i].name]), q, for)
              /\ \A j \in 1 .. Len(q) : \E k \in 1 .. Len(calls) : k # i /\ Heir(calls[k], q[j])
      BY <2>9, DoneEach
    <3>2. Seen(calls[i]) \in Selections
      BY <2>9, DoneEach
    <3>3. \A j \in 1 .. Len(q) : Lands(q[j], d, at[x])
      BY <2>4, <3>1, HeirLands
    <3>4. PICK s : s = Missing(calls[i], S.acts[calls[i].name])
      OBVIOUS
    <3>5. Settle(ls, Seen(calls[i]), sel, Released(calls[i]), s, q, for)
      BY <3>1, <3>4
    <3>6. QED
      BY <3>2, <3>3, <3>5, LandsSettle
  <2>10. ASSUME NEW i \in 1 .. Len(calls), NotDone(i) PROVE \A j \in 1 .. Len(calls') : Lands(calls'[j], d, at[x])
    <3>1. PICK q \in Seq(Requests), ls \in SUBSET LoadNames, f \in [Flags -> {0} \union Ids] :
              /\ Settle(ls, Seen(calls[i]), at, f, AfterFailure(calls[i], S.acts[calls[i].name]), q, {})
              /\ \A j \in 1 .. Len(q) : \E k \in 1 .. Len(calls) : k # i /\ Heir(calls[k], q[j])
      BY <2>10, NotDoneEach
    <3>2. Seen(calls[i]) \in Selections
      BY <2>10, NotDoneEach
    <3>3. \A j \in 1 .. Len(q) : Lands(q[j], d, at[x])
      BY <2>4, <3>1, HeirLands
    <3>4. PICK s : s = AfterFailure(calls[i], S.acts[calls[i].name])
      OBVIOUS
    <3>5. Settle(ls, Seen(calls[i]), at, f, s, q, {})
      BY <3>1, <3>4
    <3>6. QED
      BY <2>5, <3>2, <3>3, <3>5, LandsSettle
  <2>11. QED
    BY <2>6, <2>7, <2>8, <2>9, <2>10 DEF Next, Answer
<1>3. QED
  BY <1>1, <1>2

\* What fills a tied draft is of the object then selected.
LEMMA FilledTied ==
  ASSUME TypeOK, StaysFirst, AllCertain, AllAhead, NEW i \in 1 .. Len(calls),
         NEW c \in Requests, c = calls[i], c.load, ~Dropped(c), NEW x \in S.axes, x # "", Answers(c.name, x)
  PROVE  c.obj = Selecting(c)[x]
<1> DEFINE l == c.name
           load == S.loads[l]
<1>1. l \in LoadNames /\ Selecting(c)[x] = IF x \in load.picks THEN 1 ELSE IF x \in load.returns THEN c.obj ELSE at[x]
  BY DEF Requests, Selecting
<1>2. Certain(l) => c.obj = Key(l, at)
  <2>1. Certain(l) => For(c, l, Key(l, at))
    BY <1>1 DEF AllCertain, OfSelected
  <2>2. QED
    BY <2>1 DEF For, Dropped
<1> HIDE DEF l
<1>3. CASE x \in load.returns \ load.picks
  BY <1>1, <1>3
<1>4. CASE x \in load.picks /\ load.by = ""
  BY <1>1, <1>2, <1>4 DEF Certain, Key
<1>5. CASE x \notin load.picks \union load.returns /\ load.by = x /\ Certain(l)
  BY <1>1, <1>2, <1>5 DEF Key
<1>6. CASE x \notin load.picks \union load.returns /\ Ahead(l, x)
  <2>1. Once(l)
    BY <1>6 DEF Ahead
  <2>2. Certain(l)
    BY <2>1 DEF Once, Certain
  <2>3. i \in Out(calls, l)
    BY DEF Out, l
  <2>4. at[x] = 1
    BY <1>1, <1>6, <2>3 DEF AllAhead, AheadInv
  <2>5. Key(l, at) = 1
    <3>1. CASE load.by = ""
      BY <3>1 DEF Key
    <3>2. CASE load.by # ""
      <4>1. load.by \in S.axes /\ Steady(load.by)
        BY <1>1, <2>1, <3>2, Described DEF Once
      <4>2. QED
        BY <3>2, <4>1 DEF StaysFirst, First, Key
    <3>3. QED
      BY <3>1, <3>2
  <2>6. QED
    BY <1>1, <1>2, <1>6, <2>2, <2>4, <2>5
<1>7. QED
  BY <1>3, <1>4, <1>5, <1>6 DEF Answers, l

\* What shows that a draft is tied has been there before a step that leaves the draft as it is.
LEMMA AboutClick ==
  ASSUME TypeOK, NEW d \in DOMAIN S.drafts, NEW x \in S.axes, x = S.drafts[d].by, x # "",
         NEW on \in SUBSET Flags, NEW off \in SUBSET Flags, NEW seen \in SUBSET LoadNames, Tied(d, on, off, seen),
         AboutInv(flags, shown, drafts, at, d, on, off, seen), Behind(flags', shown', on, off, seen),
         NEW a \in ActNames, NEW o \in Objects(a), Click(a, o)
  PROVE  drafts'[d].of \in {0, at'[x]}
<1> DEFINE act == S.acts[a]
           set == act.sets \union act.setsMe
<1>1. PICK sel \in Selections, f \in [Flags -> {0} \union Ids], ls \in SUBSET LoadNames, q \in Seq(Requests) :
        Clicks(sel, f, ls, q, a, o)
  BY ClickEach
<1>2. Settle(ls, at, sel, f, shown, q, {}) /\ (sel[x] # at[x] => x \in act.moves) /\ drafts' = DraftsAtClick(a, o, sel)
  BY <1>1 DEF Clicks
<1>3. at' = sel
  BY <1>2 DEF Settle
<1>4. Unset(flags, off) /\ off \intersect set = {}
  BY UnsetBefore DEF Next, Behind
<1>5. TiedAct(d, on, off, seen, a) /\ \A y \in on : Free(y)
  BY TiedParts
<1>6. About(d, sel) = sel[x] /\ About(d, at) = at[x] /\ d \in DOMAIN drafts
  BY DEF About, TypeOK
<1>7. \A y \in on : ClickSets(a, o, y) /\ flags'[y] # 0
  BY <1>5, FreeClick DEF Behind
<1>8. CASE d \in act.drops \union Refilled(sel)
  <2>1. drafts'[d] = Fresh(d, sel)
    BY <1>2, <1>6, <1>8 DEF DraftsAtClick
  <2>2. Fresh(d, sel).of = sel[x]
    BY <1>6 DEF Fresh
  <2>3. QED
    BY <1>3, <2>1, <2>2
<1>9. CASE d \notin act.drops \union Refilled(sel)
  <2>1. on \intersect set = {}
    BY <1>5, <1>9 DEF TiedAct
  <2>2. \A y \in on : y \notin act.clears /\ flags[y] # 0
    BY <1>7, <2>1 DEF ClickSets
  <2>3. \A l \in seen : shown[l].key # 0 /\ ~(Moved(l, sel) /\ S.loads[l].keyed)
    <3>1. ASSUME NEW l \in seen PROVE shown[l].key # 0 /\ ~(Moved(l, sel) /\ S.loads[l].keyed)
      <4>1. l \in LoadNames /\ shown'[l].key # 0
        BY DEF Behind
      <4>2. shown[l].key # 0
        <5>1. Settle(ls, at, sel, f, shown, q, {})
          BY <1>2
        <5>2. QED
          BY <4>1, <5>1, SeenClick
      <4>3. ~(Moved(l, sel) /\ S.loads[l].keyed)
        BY <1>2, <4>1, SeenUnmoved
      <4>4. QED
        BY <4>2, <4>3
    <3>2. QED
      BY <3>1
  <2>4. drafts[d].of \in {0, at[x]}
    BY <1>4, <2>2, <2>3 DEF AboutInv, Behind
  <2>5. sel[x] = at[x]
    <3> SUFFICES ASSUME sel[x] # at[x] PROVE FALSE
      OBVIOUS
    <3>1. x \in act.moves /\ sel # at
      BY <1>2
    <3>2. ~S.drafts[d].follows
      BY <1>6, <1>9, <3>1 DEF Refilled
    <3>3. \A l \in seen : S.loads[l].keyed /\ S.loads[l].by = x => S.loads[l].fixed
      BY <2>3, <3>1 DEF Moved, Key
    <3>4. on \intersect act.clears = {}
      BY <2>2
    <3>5. QED
      BY <1>4, <1>5, <1>9, <3>1, <3>2, <3>3, <3>4 DEF TiedAct
  <2>6. drafts'[d].of = drafts[d].of \/ (drafts[d].of = 0 /\ drafts'[d].of = sel[x])
    <3>1. drafts'[d] = IF d \in act.edits THEN
                         [of |-> IF drafts[d].of = 0 THEN About(d, sel) ELSE drafts[d].of, is |-> "typed"]
                       ELSE IF d \in act.sends \union act.lands /\ drafts[d].is = "typed"
                         THEN [drafts[d] EXCEPT !.is = "sent"]
                       ELSE drafts[d]
      BY <1>2, <1>6, <1>9 DEF DraftsAtClick
    <3>2. drafts[d] \in [of : {0} \union Ids, is : {"clean", "typed", "sent"}]
      BY DEF TypeOK
    <3>3. PICK e, g : e = drafts[d] /\ g = drafts'[d]
      OBVIOUS
    <3>4. [e EXCEPT !.is = "sent"].of = e.of
      BY <3>2, <3>3
    <3>5. CASE d \in act.edits
      <4>1. g = [of |-> IF e.of = 0 THEN About(d, sel) ELSE e.of, is |-> "typed"]
        BY <3>1, <3>3, <3>5
      <4>2. g.of = IF e.of = 0 THEN About(d, sel) ELSE e.of
        BY <4>1
      <4>3. QED
        BY <1>6, <3>3, <4>2
    <3>6. CASE d \notin act.edits
      BY <3>1, <3>3, <3>4, <3>6
    <3>7. QED
      BY <3>5, <3>6
  <2>7. QED
    BY <1>3, <2>4, <2>5, <2>6
<1>10. QED
  BY <1>8, <1>9

LEMMA AboutBackground ==
  ASSUME TypeOK, NEW d \in DOMAIN S.drafts, NEW x \in S.axes, x = S.drafts[d].by,
         NEW on \in SUBSET Flags, NEW off \in SUBSET Flags, NEW seen \in SUBSET LoadNames, Tied(d, on, off, seen),
         AboutInv(flags, shown, drafts, at, d, on, off, seen), Behind(flags', shown', on, off, seen),
         NEW k \in LoadNames, Background(k)
  PROVE  drafts'[d].of \in {0, at'[x]}
<1>1. PICK ls : Settle(ls, at, at, flags, shown, calls, {}) /\ drafts' = drafts
  BY DEF Background
<1>2. at' = at
  BY <1>1 DEF Settle
<1>3. Unset(flags, off)
  BY UnsetBefore DEF Next, Behind
<1>4. ASSUME NEW y \in on PROVE flags[y] # 0
  <2>1. Free(y) /\ flags'[y] # 0
    BY TiedParts DEF Behind
  <2>2. flags \in [Flags -> {0} \union Ids]
    BY DEF TypeOK
  <2>3. QED
    BY <1>1, <2>1, <2>2, FreeSettle
<1>5. ASSUME NEW l \in seen PROVE shown[l].key # 0
  <2>1. l \in LoadNames /\ shown'[l].key # 0
    BY DEF Behind
  <2>2. QED
    BY <1>1, <2>1, SeenSettle
<1>6. QED
  BY <1>1, <1>2, <1>3, <1>4, <1>5 DEF AboutInv, Behind

\* An answer to a read that leaves the draft as it is leaves shown what was shown.
LEMMA ShownRead ==
  ASSUME TypeOK, NEW c \in Requests, c.load, NEW l \in LoadNames,
         NEW s, s \in {Failed(c), Received(c, TRUE), Received(c, FALSE)}, s[l].key # 0
  PROVE  \/ shown[l].key # 0
         \/ l = c.name /\ ~Dropped(c) /\ shown[l].key # c.obj /\ s # Failed(c)
<1>1. DOMAIN shown = LoadNames /\ c.obj \in Ids
  BY DEF TypeOK, Requests
<1>2. CASE s = Failed(c)
  <2>1. PICK u : u = shown[l]
    OBVIOUS
  <2>2. u.key = s[l].key \/ s[l] = Nothing
    <3>1. u \in [key : {0} \union Ids, miss : {"late", "failed"} \union Misses]
      BY <2>1 DEF TypeOK
    <3>2. [u EXCEPT !.miss = "failed"].key = u.key
      BY <3>1
    <3>3. QED
      BY <1>1, <1>2, <2>1, <3>2 DEF Failed
  <2>3. Nothing.key = 0
    BY DEF Nothing
  <2>4. QED
    BY <2>1, <2>2, <2>3
<1>3. ASSUME NEW stale \in BOOLEAN, s = Received(c, stale), s # Failed(c)
      PROVE  shown[l].key # 0 \/ (l = c.name /\ ~Dropped(c) /\ shown[l].key # c.obj /\ s # Failed(c))
  BY <1>1, <1>3 DEF Received
<1>4. QED
  BY <1>2, <1>3

LEMMA SeenRead ==
  ASSUME TypeOK, NEW c \in Requests, c.load, NEW stale \in BOOLEAN, NEW a, NEW f, NEW q,
         Settle({}, at, a, f, Received(c, stale), q, {}), NEW l \in LoadNames, shown'[l].key # 0
  PROVE  shown[l].key # 0 \/ (l = c.name /\ ~Dropped(c) /\ shown[l].key # c.obj)
<1>1. PICK s : s = Received(c, stale) /\ Settle({}, at, a, f, s, q, {})
  OBVIOUS
<1>2. s[l].key # 0
  BY <1>1, SeenSettle
<1>3. s \in {Failed(c), Received(c, TRUE), Received(c, FALSE)}
  BY <1>1
<1>4. QED
  BY <1>2, <1>3, ShownRead

LEMMA FilledOf ==
  ASSUME NEW c, NEW new, NEW some, some \subseteq S.loads[c.name].may, NEW d
  PROVE  /\ d \in Filled(c, some, new) => ~Dropped(c) /\ d \in S.loads[c.name].fills \union S.loads[c.name].may
         /\ d \notin Filled(c, some, new) /\ d \in S.loads[c.name].fills /\ ~Dropped(c)
              => S.loads[c.name].keyed /\ shown[c.name].key = c.obj
BY DEF Filled

\* What the drafts are about after an answer.
DraftsLoaded(c, i, some, new) ==
  [d \in DOMAIN drafts |-> IF d \in Filled(c, some, new) THEN [of |-> c.obj, is |-> "clean"]
                           ELSE IF d \in Refilled(Selecting(c)) \union Cleared(i) THEN Fresh(d, Selecting(c))
                           ELSE drafts[d]]
LEMMA LoadedDrafts ==
  ASSUME TypeOK, NEW i \in 1 .. Len(calls), Loaded(i)
  PROVE  \E stale \in BOOLEAN, some \in SUBSET S.loads[calls[i].name].may, new \in BOOLEAN :
           /\ Settle({}, at, Selecting(calls[i]), Finished(i), Received(calls[i], stale), Rest(i), {})
           /\ \A d \in DOMAIN S.drafts :
                drafts'[d].of = IF d \in Filled(calls[i], some, new) THEN calls[i].obj
                                ELSE IF d \in Refilled(Selecting(calls[i])) \union Cleared(i) THEN About(d, Selecting(calls[i]))
                                ELSE drafts[d].of
<1> DEFINE c == calls[i]
<1>1. PICK stale \in BOOLEAN, some \in SUBSET S.loads[c.name].may, new \in BOOLEAN :
        /\ Settle({}, at, Selecting(c), Finished(i), Received(c, stale), Rest(i), {})
        /\ drafts' = DraftsLoaded(c, i, some, new)
  BY DEF Loaded, DraftsLoaded
<1>2. ASSUME NEW d \in DOMAIN S.drafts
      PROVE  drafts'[d].of = IF d \in Filled(c, some, new) THEN c.obj
                             ELSE IF d \in Refilled(Selecting(c)) \union Cleared(i) THEN About(d, Selecting(c))
                             ELSE drafts[d].of
  <2>1. \A o : [of |-> o, is |-> "clean"].of = o
    OBVIOUS
  <2>2. Fresh(d, Selecting(c)).of = About(d, Selecting(c))
    BY DEF Fresh
  <2>3. d \in DOMAIN drafts
    BY DEF TypeOK
  <2> HIDE DEF c
  <2>4. QED
    BY <1>1, <2>1, <2>2, <2>3, Zenon DEF DraftsLoaded
<1>3. QED
  BY <1>1, <1>2

LEMMA AboutLoaded ==
  ASSUME TypeOK, StaysFirst, AllCertain, AllAhead, NEW d \in DOMAIN S.drafts, NEW x \in S.axes, x = S.drafts[d].by, x # "",
         NEW on \in SUBSET Flags, NEW off \in SUBSET Flags, NEW seen \in SUBSET LoadNames, Tied(d, on, off, seen),
         AboutInv(flags, shown, drafts, at, d, on, off, seen), Behind(flags', shown', on, off, seen),
         NEW i \in 1 .. Len(calls), Loaded(i)
  PROVE  drafts'[d].of \in {0, at'[x]}
<1>1. PICK c : c = calls[i] /\ c \in Requests /\ c.load /\ c.name \in LoadNames
  BY ReadEach DEF Requests
<1>2. PICK stale \in BOOLEAN, some \in SUBSET S.loads[c.name].may, new \in BOOLEAN :
        /\ Settle({}, at, Selecting(c), Finished(i), Received(c, stale), Rest(i), {})
        /\ drafts'[d].of = IF d \in Filled(c, some, new) THEN c.obj
                           ELSE IF d \in Refilled(Selecting(c)) \union Cleared(i) THEN About(d, Selecting(c))
                           ELSE drafts[d].of
  BY <1>1, LoadedDrafts
<1>3. PICK sel \in Selections : sel = Selecting(c)
  BY <1>1, ReceivedType
<1>4. PICK filled : filled = Filled(c, some, new)
  OBVIOUS
<1>5. at' = sel
  BY <1>2, <1>3 DEF Settle
<1>6. drafts'[d].of = IF d \in filled THEN c.obj
                      ELSE IF d \in Refilled(sel) \union Cleared(i) THEN sel[x]
                      ELSE drafts[d].of
  BY <1>2, <1>3, <1>4 DEF About
<1>7. TiedLoad(d, seen, c.name) /\ \A y \in on : Free(y)
  BY <1>1, TiedParts
<1>8. About(d, sel) = sel[x] /\ About(d, at) = at[x] /\ d \in DOMAIN drafts
  BY DEF About, TypeOK
<1>9. CASE d \in filled
  <2>1. ~Dropped(c) /\ d \in S.loads[c.name].fills \union S.loads[c.name].may
    BY <1>4, <1>9, FilledOf
  <2>2. Answers(c.name, x)
    BY <1>7, <2>1 DEF TiedLoad
  <2>3. c.obj = sel[x]
    BY <1>1, <1>3, <2>1, <2>2, FilledTied
  <2>4. QED
    BY <1>5, <1>6, <1>9, <2>3
<1>10. CASE d \notin filled /\ d \in Refilled(sel) \union Cleared(i)
  BY <1>5, <1>6, <1>10
<1>11. CASE d \notin filled /\ d \notin Refilled(sel) \union Cleared(i)
  <2>1. drafts'[d].of = drafts[d].of
    BY <1>6, <1>11
  <2>2. Unset(flags, off)
    BY UnsetBefore DEF Next, Answer, Behind
  <2>3. ASSUME NEW y \in on PROVE flags[y] # 0
    BY <1>7, FreeAnswer DEF Behind
  <2>4. d \in S.loads[c.name].fills /\ ~Dropped(c) => S.loads[c.name].keyed /\ shown[c.name].key = c.obj
    BY <1>4, <1>11, FilledOf
  <2>5. ASSUME NEW l \in seen PROVE shown[l].key # 0
    <3>1. l \in LoadNames /\ shown'[l].key # 0
      BY DEF Behind
    <3>5. shown[l].key # 0 \/ (l = c.name /\ ~Dropped(c) /\ shown[l].key # c.obj)
      BY <1>1, <1>2, <3>1, SeenRead
    <3>6. l = c.name => d \in S.loads[c.name].fills
      BY <1>7 DEF TiedLoad
    <3>7. QED
      BY <2>4, <3>5, <3>6
  <2>6. drafts[d].of \in {0, at[x]}
    BY <2>2, <2>3, <2>5 DEF AboutInv, Behind
  <2>7. sel[x] = at[x]
    <3> SUFFICES ASSUME sel[x] # at[x] PROVE FALSE
      OBVIOUS
    <3>1. ~S.drafts[d].follows
      BY <1>8, <1>11 DEF Refilled
    <3>2. x \in S.loads[c.name].picks \union S.loads[c.name].returns
      BY <1>3 DEF Selecting
    <3>3. d \in S.loads[c.name].fills /\ ~S.loads[c.name].keyed
      BY <1>7, <3>1, <3>2 DEF TiedLoad
    <3>4. QED
      BY <2>4, <3>3 DEF Dropped
  <2>8. QED
    BY <1>5, <2>1, <2>6, <2>7
<1>12. QED
  BY <1>9, <1>10, <1>11

LEMMA AboutNotLoaded ==
  ASSUME TypeOK, NEW d \in DOMAIN S.drafts, NEW x \in S.axes, x = S.drafts[d].by, x # "",
         NEW on \in SUBSET Flags, NEW off \in SUBSET Flags, NEW seen \in SUBSET LoadNames, Tied(d, on, off, seen),
         AboutInv(flags, shown, drafts, at, d, on, off, seen), Behind(flags', shown', on, off, seen),
         NEW i \in 1 .. Len(calls), NotLoaded(i)
  PROVE  drafts'[d].of \in {0, at'[x]}
<1>1. PICK c : c = calls[i] /\ c \in Requests /\ c.load /\ c.name \in LoadNames
  BY ReadEach DEF Requests
<1>2. PICK s : s = Failed(c) /\ Settle({}, at, at, Finished(i), s, Rest(i), {})
  BY <1>1 DEF NotLoaded
<1>3. at' = at
  BY <1>2 DEF Settle
<1>4. drafts'[d] = IF d \in Cleared(i) THEN Fresh(d, at) ELSE drafts[d]
  BY DEF NotLoaded, TypeOK
<1>5. CASE d \in Cleared(i)
  <2>1. Fresh(d, at).of = at[x]
    BY DEF Fresh, About
  <2>2. QED
    BY <1>3, <1>4, <1>5, <2>1
<1>6. CASE d \notin Cleared(i)
  <2>1. Unset(flags, off)
    BY UnsetBefore DEF Next, Answer, Behind
  <2>2. ASSUME NEW y \in on PROVE flags[y] # 0
    BY TiedParts, FreeAnswer DEF Behind
  <2>3. ASSUME NEW l \in seen PROVE shown[l].key # 0
    <3>1. l \in LoadNames /\ shown'[l].key # 0
      BY DEF Behind
    <3>2. s[l].key # 0
      BY <1>2, <3>1, SeenSettle
    <3>3. QED
      BY <1>1, <1>2, <3>1, <3>2, ShownRead
  <2>4. QED
    BY <1>3, <1>4, <1>6, <2>1, <2>2, <2>3 DEF AboutInv, Behind
<1>7. QED
  BY <1>5, <1>6

LEMMA DoneDrafts ==
  ASSUME TypeOK, NEW i \in 1 .. Len(calls), NEW c, c = calls[i], Done(i)
  PROVE  \E sel, ls, was, f, q, for :
           /\ Turned(c, sel)
           /\ Settle(ls, was, sel, f, Missing(c, S.acts[c.name]), q, for)
           /\ \A d \in DOMAIN S.drafts :
                drafts'[d].of = IF d \in Emptied(c) \union Refilled(sel) THEN About(d, sel)
                                ELSE IF d \in Landing(c) THEN c.obj ELSE drafts[d].of
<1> DEFINE Drafted(e, sel) ==
             [d \in DOMAIN drafts |->
                IF d \in Emptied(e) \union Refilled(sel) THEN Fresh(d, sel)
                ELSE IF d \in Landing(e) THEN [of |-> e.obj, is |-> "typed"]
                ELSE IF d \in S.acts[e.name].sends /\ drafts[d].is = "sent" THEN [drafts[d] EXCEPT !.is = "clean"]
                ELSE drafts[d]]
<1>1. PICK sel : /\ Turned(calls[i], sel)
                 /\ Settle(Reloads(calls[i].name), Seen(calls[i]), sel, Released(calls[i]),
                           Missing(calls[i], S.acts[calls[i].name]),
                           Passed(Without(i), calls[i].name), IF Waits(calls[i]) THEN {calls[i].name} ELSE {})
                 /\ drafts' = Drafted(calls[i], sel)
  BY Zenon DEF Done
<1>2. ASSUME NEW d \in DOMAIN S.drafts
      PROVE  drafts'[d].of = IF d \in Emptied(c) \union Refilled(sel) THEN About(d, sel)
                             ELSE IF d \in Landing(c) THEN c.obj ELSE drafts[d].of
  <2>1. \A o : [of |-> o, is |-> "typed"].of = o
    OBVIOUS
  <2>2. Fresh(d, sel).of = About(d, sel)
    BY DEF Fresh
  <2>3. d \in DOMAIN drafts /\ drafts[d] \in [of : {0} \union Ids, is : {"clean", "typed", "sent"}]
    BY DEF TypeOK
  <2>4. [drafts[d] EXCEPT !.is = "clean"].of = drafts[d].of
    BY <2>3
  <2>5. QED
    BY <1>1, <2>1, <2>2, <2>3, <2>4, Zenon
<1>3. QED
  BY <1>1, <1>2

LEMMA AboutDone ==
  ASSUME TypeOK, NEW d \in DOMAIN S.drafts, NEW x \in S.axes, x = S.drafts[d].by, x # "",
         NEW on \in SUBSET Flags, NEW off \in SUBSET Flags, NEW seen \in SUBSET LoadNames, Tied(d, on, off, seen),
         LandsInv(calls, flags, at, d, off),
         AboutInv(flags, shown, drafts, at, d, on, off, seen), Behind(flags', shown', on, off, seen),
         NEW i \in 1 .. Len(calls), Done(i)
  PROVE  drafts'[d].of \in {0, at'[x]}
<1>1. PICK c : c = calls[i] /\ c \in Requests /\ ~c.load /\ c.name \in ActNames
  BY DoneEach
<1> DEFINE act == S.acts[c.name]
<1>4. PICK sel, ls, was, f, s, q, for :
        /\ Turned(c, sel)
        /\ s = Missing(c, act) /\ Settle(ls, was, sel, f, s, q, for)
        /\ drafts'[d].of = IF d \in Emptied(c) \union Refilled(sel) THEN About(d, sel)
                           ELSE IF d \in Landing(c) THEN c.obj ELSE drafts[d].of
  BY <1>1, DoneDrafts
<1>5. at' = sel
  BY <1>4 DEF Settle
<1>6. TiedAct(d, on, off, seen, c.name) /\ \A y \in on : Free(y)
  BY <1>1, TiedParts
<1>7. About(d, sel) = sel[x] /\ About(d, at) = at[x] /\ d \in DOMAIN drafts
  BY DEF About, TypeOK
<1>8. Next /\ Unset(flags', off) /\ Unset(flags, off)
  BY UnsetBefore DEF Next, Answer, Behind
<1>10. CASE d \in Emptied(c) \union Refilled(sel)
  BY <1>4, <1>5, <1>7, <1>10
<1>11. CASE d \notin Emptied(c) \union Refilled(sel) /\ d \in Landing(c)
  <2>1. d \in act.lands
    BY <1>11 DEF Landing, Own
  <2>2. at'[x] = at[x]
    BY <1>6, <1>8, <2>1, PinnedStays DEF TiedAct
  <2>3. c.obj = at[x]
    BY <1>1, <1>8, <2>1 DEF LandsInv, Lands
  <2>4. QED
    BY <1>4, <1>11, <2>2, <2>3
<1>12. CASE d \notin Emptied(c) \union Refilled(sel) /\ d \notin Landing(c)
  <2>1. drafts'[d].of = drafts[d].of
    BY <1>4, <1>12
  <2>2. ASSUME NEW y \in on PROVE flags[y] # 0
    <3>1. DoneSets(c.name, y) /\ flags'[y] # 0
      BY <1>1, <1>6, FreeAnswer DEF Behind
    <3>2. y \notin act.okSets
      BY <1>6 DEF TiedAct
    <3>3. QED
      BY <3>1, <3>2 DEF DoneSets
  <2>3. ASSUME NEW l \in seen PROVE shown[l].key # 0
    <3>1. l \in LoadNames /\ shown'[l].key # 0
      BY DEF Behind
    <3>2. s[l].key # 0
      BY <1>4, <3>1, SeenSettle
    <3>3. s[l].key = shown[l].key
      BY <1>1, <1>4, <3>1, WriteKeys
    <3>4. QED
      BY <3>1, <3>2, <3>3
  <2>4. drafts[d].of \in {0, at[x]}
    BY <1>8, <2>2, <2>3 DEF AboutInv, Behind
  <2>5. sel[x] = at[x]
    <3> SUFFICES ASSUME sel[x] # at[x] PROVE FALSE
      OBVIOUS
    <3>1. x \in act.okMoves \union act.okBack
      BY <1>4 DEF Turned, Own
    <3>2. S.drafts[d].follows
      BY <1>6, <3>1 DEF TiedAct
    <3>3. d \in Refilled(sel)
      BY <1>7, <3>2 DEF Refilled
    <3>4. QED
      BY <1>12, <3>3
  <2>6. QED
    BY <1>5, <2>1, <2>4, <2>5
<1>13. QED
  BY <1>10, <1>11, <1>12

LEMMA AboutNotDone ==
  ASSUME TypeOK, NEW d \in DOMAIN S.drafts, NEW x \in S.axes, x = S.drafts[d].by,
         NEW on \in SUBSET Flags, NEW off \in SUBSET Flags, NEW seen \in SUBSET LoadNames, Tied(d, on, off, seen),
         AboutInv(flags, shown, drafts, at, d, on, off, seen), Behind(flags', shown', on, off, seen),
         NEW i \in 1 .. Len(calls), NotDone(i)
  PROVE  drafts'[d].of \in {0, at'[x]}
<1>1. PICK c : c = calls[i] /\ c \in Requests /\ ~c.load /\ c.name \in ActNames
  BY NotDoneEach
<1>2. PICK ls, was, f, s, q : s = AfterFailure(c, S.acts[c.name]) /\ Settle(ls, was, at, f, s, q, {})
  BY <1>1 DEF NotDone
<1>3. at' = at
  BY <1>2 DEF Settle
<1>4. drafts'[d].of = drafts[d].of
  <2>1. PICK e : e = drafts[d] /\ e \in [of : {0} \union Ids, is : {"clean", "typed", "sent"}]
    BY DEF TypeOK
  <2>2. [e EXCEPT !.is = "typed"].of = e.of
    BY <2>1
  <2>3. drafts'[d] = [e EXCEPT !.is = "typed"] \/ drafts'[d] = e
    BY <2>1 DEF NotDone, TypeOK
  <2>4. QED
    BY <2>1, <2>2, <2>3
<1>5. Unset(flags, off)
  BY UnsetBefore DEF Next, Answer, Behind
<1>6. ASSUME NEW y \in on PROVE flags[y] # 0
  BY TiedParts, FreeAnswer DEF Behind
<1>7. ASSUME NEW l \in seen PROVE shown[l].key # 0
  <2>1. l \in LoadNames /\ shown'[l].key # 0
    BY DEF Behind
  <2>2. s[l].key # 0
    BY <1>2, <2>1, SeenSettle
  <2>3. s[l].key = shown[l].key
    BY <1>1, <1>2, <2>1, WriteKeys
  <2>4. QED
    BY <2>1, <2>2, <2>3
<1>8. QED
  BY <1>3, <1>4, <1>5, <1>6, <1>7 DEF AboutInv, Behind

LEMMA TiedNext ==
  TypeOK /\ TypeOK' /\ StaysFirst /\ AllCertain /\ AllAhead /\ AllTied /\ [Next]_vars => AllTied'
<1> SUFFICES ASSUME TypeOK, TypeOK', StaysFirst, AllCertain, AllAhead, AllTied, [Next]_vars PROVE AllTied'
  OBVIOUS
<1>1. scr' = scr
  BY DEF Next, Click, Background, Answer, Loaded, NotLoaded, Done, NotDone, vars
<1>2. /\ S' = S /\ LoadNames' = LoadNames /\ Flags' = Flags
      /\ \A d, on, off, seen : Tied(d, on, off, seen)' <=> Tied(d, on, off, seen)
  BY <1>1, SameScreen, SameTies
<1>3. ASSUME NEW d \in DOMAIN S.drafts, S.drafts[d].by # "",
             NEW on \in SUBSET Flags, NEW off \in SUBSET Flags, NEW seen \in SUBSET LoadNames, Tied(d, on, off, seen)
      PROVE  /\ LandsInv(calls', flags', at', d, off)
             /\ AboutInv(flags', shown', drafts', at', d, on, off, seen)
  <2>1. LandsInv(calls, flags, at, d, off) /\ AboutInv(flags, shown, drafts, at, d, on, off, seen)
    BY <1>3 DEF AllTied
  <2>2. PICK x \in S.axes : x = S.drafts[d].by /\ x # ""
    BY <1>3, Described
  <2>3. CASE UNCHANGED vars
    BY <2>1, <2>3 DEF vars
  <2>4. CASE Next
    <3>1. LandsInv(calls', flags', at', d, off)
      <4> SUFFICES ASSUME Unset(flags', off) PROVE \A i \in 1 .. Len(calls') : Lands(calls'[i], d, at'[x])
        BY <2>2 DEF LandsInv
      <4>1. QED
        BY <1>1, <1>3, <2>1, <2>2, <2>4, LandsStep
    <3>2. AboutInv(flags', shown', drafts', at', d, on, off, seen)
      <4> SUFFICES ASSUME Behind(flags', shown', on, off, seen) PROVE drafts'[d].of \in {0, at'[x]}
        BY <2>2 DEF AboutInv
      <4>1. ASSUME NEW a \in ActNames, NEW o \in Objects(a), Click(a, o) PROVE drafts'[d].of \in {0, at'[x]}
        BY <1>3, <2>1, <2>2, <4>1, AboutClick
      <4>2. ASSUME NEW k \in LoadNames, Background(k) PROVE drafts'[d].of \in {0, at'[x]}
        BY <1>3, <2>1, <2>2, <4>2, AboutBackground
      <4>3. ASSUME NEW i \in 1 .. Len(calls), Loaded(i) PROVE drafts'[d].of \in {0, at'[x]}
        BY <1>3, <2>1, <2>2, <4>3, AboutLoaded
      <4>4. ASSUME NEW i \in 1 .. Len(calls), NotLoaded(i) PROVE drafts'[d].of \in {0, at'[x]}
        BY <1>3, <2>1, <2>2, <4>4, AboutNotLoaded
      <4>5. ASSUME NEW i \in 1 .. Len(calls), Done(i) PROVE drafts'[d].of \in {0, at'[x]}
        BY <1>3, <2>1, <2>2, <4>5, AboutDone
      <4>6. ASSUME NEW i \in 1 .. Len(calls), NotDone(i) PROVE drafts'[d].of \in {0, at'[x]}
        BY <1>3, <2>1, <2>2, <4>6, AboutNotDone
      <4>7. QED
        BY <2>4, <4>1, <4>2, <4>3, <4>4, <4>5, <4>6 DEF Next, Answer
    <3>3. QED
      BY <3>1, <3>2
  <2>5. QED
    BY <2>3, <2>4
<1>4. ASSUME NEW d \in DOMAIN S.drafts, S.drafts[d].by # "",
             NEW on \in SUBSET Flags, NEW off \in SUBSET Flags, NEW seen \in SUBSET LoadNames, Tied(d, on, off, seen)
      PROVE  LandsInv(calls, flags, at, d, off)' /\ AboutInv(flags, shown, drafts, at, d, on, off, seen)'
  <2>1. LandsInv(calls', flags', at', d, off) /\ AboutInv(flags', shown', drafts', at', d, on, off, seen)
    BY <1>3, <1>4
  <2>2. LandsInv(calls, flags, at, d, off)'
    BY <1>2, <2>1 DEF LandsInv, Unset, Lands
  <2>3. AboutInv(flags, shown, drafts, at, d, on, off, seen)'
    BY <1>2, <2>1 DEF AboutInv, Behind, Unset
  <2>4. QED
    BY <2>2, <2>3
<1>5. QED
  BY <1>2, <1>4, Zenon DEF AllTied

LEMMA TiedInit == Init => AllTied
<1> SUFFICES ASSUME Init, NEW d \in DOMAIN S.drafts, NEW off, NEW on, NEW seen
             PROVE  LandsInv(calls, flags, at, d, off) /\ AboutInv(flags, shown, drafts, at, d, on, off, seen)
  BY DEF AllTied
<1>1. ASSUME NEW i \in 1 .. Len(calls) PROVE calls[i].load
  <2>1. PICK c : c = calls[i]
    OBVIOUS
  <2>2. PICK k : c = Request(k, 1, {})
    BY <2>1, MountCalls
  <2>3. c.load
    BY <2>2 DEF Request
  <2>4. QED
    BY <2>1, <2>3
<1>2. drafts[d].of = 0
  BY DEF Init, Blank
<1>3. QED
  BY <1>1, <1>2 DEF LandsInv, Lands, AboutInv

\* A draft stays about the object selected as long as the screen shows what ties the two, and
\* an answer that will be written into it is about that object.
THEOREM TiesStay == Spec => []AllTied
BY TypeCorrect, SteadyStays, CertainStays, AheadStays, TiedInit, TiedNext, PTL DEF Spec

LEMMA GuardFlags == \A a \in ActNames : S.acts[a].need \subseteq Flags /\ S.acts[a].unless \subseteq Flags
<1> DEFINE F(l) == S.loads[l].busy \union S.loads[l].needs
           G(a) == UNION {S.acts[a].need, S.acts[a].unless, S.acts[a].unlessMe,
                          S.acts[a].sets, S.acts[a].setsMe, S.acts[a].clears,
                          S.acts[a].okSets, S.acts[a].okClears, Busy(a)}
<1>1. Flags = UNION ({S.on} \union {F(l) : l \in LoadNames} \union {G(a) : a \in ActNames})
  BY DEF Flags
<1>2. \A a \in ActNames : S.acts[a].need \subseteq G(a) /\ S.acts[a].unless \subseteq G(a)
  OBVIOUS
<1> HIDE DEF F, G
<1>3. QED
  BY <1>1, <1>2

\* A click that writes sends no draft about another object.
LEMMA SentTied ==
  ASSUME TypeOK, AllTied, Carrying, NEW a \in ActNames \ Excused("stray"), NEW o \in Objects(a), Click(a, o)
  PROVE  slips' = {}
<1>1. CASE S.acts[a].call # "write"
  BY <1>1 DEF Click
<1>2. CASE S.acts[a].call = "write"
  <2> SUFFICES ASSUME NEW d \in S.acts[a].sends, S.acts[a].row \/ S.acts[a].of # "", S.drafts[d].by # ""
               PROVE  drafts[d].of \in {0, o}
    BY <1>2 DEF Click, Strayed
  <2>1. ~S.acts[a].row /\ S.acts[a].of = S.drafts[d].by
    BY <1>2 DEF Carrying, SendsTied
  <2>2. PICK on \in SUBSET S.acts[a].need, off \in SUBSET S.acts[a].unless, seen \in SUBSET S.acts[a].shows :
          Tied(d, on, off, seen)
    BY <1>2 DEF Carrying, SendsTied
  <2>3. d \in DOMAIN S.drafts /\ on \in SUBSET Flags /\ off \in SUBSET Flags /\ seen \in SUBSET LoadNames
    <3>1. S.acts[a].need \subseteq Flags /\ S.acts[a].unless \subseteq Flags
      BY GuardFlags
    <3>2. d \in DOMAIN S.drafts /\ S.acts[a].shows \subseteq LoadNames
      BY Described
    <3>3. QED
      BY <2>2, <3>1, <3>2
  <2>4. Behind(flags, shown, on, off, seen)
    BY <2>2 DEF Click, CanClick, Behind, Unset
  <2>5. drafts[d].of \in {0, at[S.drafts[d].by]}
    BY <2>2, <2>3, <2>4 DEF AllTied, AboutInv
  <2>6. o = at[S.drafts[d].by]
    BY <2>1 DEF Objects
  <2>7. QED
    BY <2>5, <2>6
<1>3. QED
  BY <1>1, <1>2

\* No answer is written into a draft about another object.
LEMMA LandedTied ==
  ASSUME TypeOK, Carrying, NEW i \in 1 .. Len(calls), Done(i), NEW s \in slips', s.what = "stray"
  PROVE  s.by \in Excused("stray")
<1>1. PICK c : c = calls[i] /\ c \in Requests /\ ~c.load /\ c.name \in ActNames
  BY DoneEach
<1> DEFINE Strays(e) == {[what |-> "stray", by |-> e.name, on |-> d] :
                           d \in {x \in Landing(e) : S.drafts[x].by # "" /\ About(x, at) # e.obj}}
<1>2. PICK sel : slips' = Overwritten(UNION {Emptied(calls[i]), Landing(calls[i]), Refilled(sel)}, calls[i].name)
                          \union Strays(calls[i])
  BY Zenon DEF Done
<1>3. ASSUME NEW ds, NEW t \in Overwritten(ds, c.name) PROVE t.what = "lost"
  <2>1. \A d : [what |-> "lost", by |-> c.name, on |-> d].what = "lost"
    OBVIOUS
  <2>2. QED
    BY <1>3, <2>1, Zenon DEF Overwritten
<1> SUFFICES ASSUME c.name \notin Excused("stray"), NEW t \in Strays(c) PROVE FALSE
  <2>1. s \in Strays(c)
    BY <1>1, <1>2, <1>3
  <2>2. s.by = c.name
    <3>1. \A d : [what |-> "stray", by |-> c.name, on |-> d].by = c.name
      OBVIOUS
    <3>2. QED
      BY <2>1, <3>1, Zenon
  <2>3. QED
    BY <2>1, <2>2
<1>4. PICK d \in Landing(c) : S.drafts[d].by # ""
  OBVIOUS
<1>5. d \in S.acts[c.name].lands
  BY DEF Landing, Own
<1>6. QED
  BY <1>1, <1>4, <1>5 DEF Carrying

\* What was computed for, or typed about, one object is not written into or sent to another, on a
\* screen whose drafts are tied to the selection when they are sent.
THEOREM NoneStray == Spec => [](Carrying => DraftStays)
<1>1. Init => (Carrying => DraftStays)
  BY DEF Init, DraftStays
<1>2. TypeOK /\ AllTied /\ (Carrying => DraftStays) /\ [Next]_vars => (Carrying => DraftStays)'
  <2> SUFFICES ASSUME TypeOK, AllTied, Carrying => DraftStays, [Next]_vars, Carrying', NEW s \in slips', s.what = "stray"
               PROVE  s.by \in Excused("stray")'
    BY DEF DraftStays
  <2>1. scr' = scr
    BY DEF Next, Click, Background, Answer, Loaded, NotLoaded, Done, NotDone, vars
  <2>2. Carrying /\ Excused("stray")' = Excused("stray")
    BY <2>1, SameTies DEF Excused
  <2> SUFFICES s.by \in Excused("stray")
    BY <2>2
  <2>3. ASSUME NEW a \in ActNames, NEW o \in Objects(a), Click(a, o) PROVE s.by \in Excused("stray")
    <3>1. CASE a \notin Excused("stray")
      BY <2>2, <2>3, <3>1, SentTied
    <3>2. s \in Strayed(a, o)
      <4>1. PICK x : x = slips' /\ x \subseteq Strayed(a, o)
        BY <2>3 DEF Click
      <4>2. QED
        BY <4>1
    <3>3. \A d : [what |-> "stray", by |-> a, on |-> d].by = a
      OBVIOUS
    <3>4. s.by = a
      BY <3>2, <3>3, Zenon DEF Strayed
    <3>5. QED
      BY <3>1, <3>4
  <2>4. ASSUME NEW l \in LoadNames, Background(l) PROVE FALSE
    BY <2>4 DEF Background
  <2>5. ASSUME NEW i \in 1 .. Len(calls), Loaded(i) \/ NotLoaded(i) PROVE FALSE
    <3>1. PICK ds, by : slips' = Overwritten(ds, by)
      BY <2>5 DEF Loaded, NotLoaded
    <3>2. \A d : [what |-> "lost", by |-> by, on |-> d].what = "lost"
      OBVIOUS
    <3>3. s.what = "lost"
      BY <3>1, <3>2, Zenon DEF Overwritten
    <3>4. QED
      BY <3>3
  <2>6. ASSUME NEW i \in 1 .. Len(calls), Done(i) PROVE s.by \in Excused("stray")
    BY <2>2, <2>6, LandedTied
  <2>7. ASSUME NEW i \in 1 .. Len(calls), NotDone(i) PROVE FALSE
    BY <2>7 DEF NotDone
  <2>8. CASE UNCHANGED vars
    BY <2>2, <2>8 DEF vars, DraftStays
  <2>9. QED
    BY <2>3, <2>4, <2>5, <2>6, <2>7, <2>8 DEF Next, Answer
<1>3. QED
  BY <1>1, <1>2, TypeCorrect, TiesStay, PTL DEF Spec
=============================================================================
